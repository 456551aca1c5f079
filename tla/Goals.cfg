CONSTANTS
    Template = {t}
    Parent = {p}
    Child = {c1, c2}
    Caller = {u1, u2}
    Schedule <- MCSchedule
    MaxChildren = 1
    Timeout = 3
    Threshold = 0
    MaxClock = 4
    Budgets <- MCBudgets
    None = None
SPECIFICATION FairSpec
INVARIANTS RunsOnce EndedStopsRunning AgentsAreBounded
PROPERTIES EventsAreAccountedFor DueTemplatesMoveOn
CHECK_DEADLOCK FALSE
