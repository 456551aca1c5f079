SPECIFICATION IngressSpec
CONSTANTS
    m1 = m1
    m2 = m2
    m3 = m3
    m4 = m4
    background = background
    None = None
    Chat <- Native
    Anonymous <- Unnamed
    Control <- Approval
    Blocked <- Stranger
    Background <- background
    Kind <- Both
    MaxLog = 2
    MaxFaults = 1
    MaxRestarts = 1
    TokenOf <- Tokens
INVARIANTS SeenOnce RejectedTokensRest QuestionsAreRemembered
PROPERTIES AnswersAreHeard MessagesSettle
