------------------------- MODULE CapabilityCatalogue -------------------------
(***************************************************************************)
(* The capabilities the model may choose from, as declared by              *)
(* actions/specs.py and core_tools/registration.py, reduced to what the    *)
(* gate reads: where a capability is visible, the permission it declares,  *)
(* how the permission and the risk of one concrete call are derived, and   *)
(* what it declares about its own risk.  Schemas and descriptions are      *)
(* left out.                                                               *)
(***************************************************************************)
EXTENDS Naturals, TLC

Permission == {"read", "network", "prepare", "write"}

PermissionOrder == [read |-> 0, network |-> 1, prepare |-> 2, write |-> 3]

\* operating_context.permission_allows
PermissionAllows(required, ceiling) ==
    PermissionOrder[required] <= PermissionOrder[ceiling]

MaxPermission(p, q) == IF PermissionAllows(p, q) THEN q ELSE p

\* The defaults of the ToolSpec dataclass; "unset" stands for None.
Defaults ==
    [contexts |-> {"turn", "api"}, mutates |-> FALSE, permission |-> "read",
     permissionPolicy |-> "static", riskPolicy |-> "declared",
     risk |-> "unset", confirm |-> "unset", approval |-> "risk",
     effect |-> "none", workspace |-> "none"]

Reads       == Defaults
Changes(p)  == [Defaults EXCEPT !.mutates = TRUE, !.permission = p,
                                !.effect = "local_state"]
Rated(s, r, c) == [s EXCEPT !.risk = r, !.confirm = c]
In(s, where)   == [s EXCEPT !.contexts = where]

Everywhere == {"turn", "actuator", "control_plane"}

-----------------------------------------------------------------------------
(* actions/specs.py                                                        *)

ConversationSpecs ==
       ("respond"       :> In(Reads, Everywhere))
    @@ ("ask.user"      :> In(Reads, Everywhere))
    @@ ("account.usage" :> [Reads EXCEPT !.permission = "network"])

AgentSpecs ==
       ("agent.control" :> [Rated(Changes("read"), "medium", "no") EXCEPT
                              !.permissionPolicy = "agent_operation",
                              !.riskPolicy = "agent_operation"])
    @@ ("agent.report"  :> In(Rated(Changes("prepare"), "medium", "no"), {"turn"}))

GoalOpenSpecs == "goal.open" :> Rated(Changes("prepare"), "medium", "no")

GoalUpdateSpecs == "goal.update" :> Rated(Changes("prepare"), "medium", "no")

GoalControlSpecs ==
    [n \in {"goal.resume", "goal.cancel"} |->
        [Rated(Changes("prepare"), "high", "yes") EXCEPT !.approval = "explicit_control"]]

GoalStateSpecs ==
       ("goal.state"       :> Rated(Reads, "medium", "no"))
    @@ ("approval.request" :> [Rated(Changes("prepare"), "medium", "no") EXCEPT
                                 !.approval = "control_plane"])

ApprovalSpecs ==
       ("approval.resolve"          :> [Rated(Changes("prepare"), "medium", "no") EXCEPT
                                          !.approval = "control_plane"])
    @@ ("session.request_elevation" :> [Rated(Changes("read"), "medium", "no") EXCEPT
                                          !.approval = "control_plane",
                                          !.contexts = {"turn"}])

SessionSpecs ==
       ("session.create" :> [Changes("prepare") EXCEPT !.approval = "explicit_control",
                                                       !.contexts = {"api"}])
    @@ ("identity.state" :> Reads)
    @@ ("identity.link"  :> Changes("write"))

MemoryActionSpecs ==
       ("memory.add"        :> Rated(Changes("write"), "medium", "no"))
    @@ ("memory.jobs"       :> In(Reads, {"api"}))
    @@ ("memory.retry_jobs" :> [Rated(Changes("write"), "high", "yes") EXCEPT
                                  !.approval = "explicit_control", !.contexts = {"api"}])

PersonalSpecs ==
       ("personal.query"  :> Reads)
    @@ ("personal.update" :> Rated(Changes("write"), "medium", "yes"))

TraceSpecs ==
       ("system.metrics" :> Reads)
    @@ ("trace.evaluate" :> In(Rated(Changes("write"), "medium", "no"), {"api"}))
    @@ ("trace.delete"   :> [Changes("write") EXCEPT !.approval = "explicit_control",
                                                     !.contexts = {"api"}])

EvolutionProposalSpecs ==
       ("evolution.candidates" :> Reads)
    @@ ("evolution.propose"    :> Changes("prepare"))
    @@ ("evolution.experiment" :> Changes("prepare"))

EvolutionObservationSpecs ==
       ("evolution.state"   :> Reads)
    @@ ("evolution.observe" :> [Changes("write") EXCEPT !.approval = "explicit_control",
                                                        !.contexts = {"api"}])

EvolutionControlSpecs ==
    [n \in {"evolution.record_evaluation", "evolution.apply", "evolution.rollback"} |->
        In(Changes("write"), {"api"})]

-----------------------------------------------------------------------------
(* core_tools/registration.py, connector_delivery.py and mcp_tools.py: every *)
(* tool is visible in a turn, to the actuator and to the control plane.     *)

CatalogueTools ==
    [n \in {"provider.config", "skills.list", "skills.view", "tools.list", "hooks.list"} |->
        In(Reads, Everywhere)]

MemoryReadTools ==
    [n \in {"context.search", "memory.list", "memory.recall"} |->
        In(Rated(Reads, "medium", "no"), Everywhere)]

MemoryWriteTools ==
       ("memory.conflicts" :> In(Rated(Reads, "medium", "no"), Everywhere))
    @@ [n \in {"memory.record_activation", "memory.parameters", "system.parameters"} |->
           In(Changes("write"), Everywhere)]

FileTools ==
       ("browser.screenshot" :> [In(Rated(Changes("write"), "high", "yes"), Everywhere)
                                   EXCEPT !.workspace = "paths"])
    @@ ("file.read"  :> [In(Rated(Reads, "medium", "no"), Everywhere)
                           EXCEPT !.workspace = "paths"])
    @@ ("file.write" :> [In(Rated(Changes("write"), "high", "yes"), Everywhere)
                           EXCEPT !.workspace = "paths", !.riskPolicy = "workspace_file_write"])

CodeTools ==
       ("python.ast.replace_symbol" :> [In(Changes("write"), Everywhere)
                                          EXCEPT !.workspace = "paths"])
    @@ ("codebase.search" :> [In(Reads, Everywhere) EXCEPT !.effect = "derived_cache"])
    @@ ("shell.run"       :> [In(Rated(Changes("read"), "high", "yes"), Everywhere)
                                EXCEPT !.permissionPolicy = "shell_argv",
                                       !.riskPolicy = "shell_argv",
                                       !.workspace = "sandbox"])

WebTools ==
       ("web.search" :> [In(Rated(Reads, "low", "no"), Everywhere)
                           EXCEPT !.permission = "network"])
    @@ ("http.fetch" :> [In(Rated(Reads, "medium", "no"), Everywhere)
                           EXCEPT !.permission = "network", !.riskPolicy = "http_request"])

DeliveryTools ==
    "channel.send_file" :> [In(Changes("write"), Everywhere)
                              EXCEPT !.effect = "external", !.workspace = "paths"]

\* One configured server; its transport needs the network, and at least one
\* of its tools is mapped to write.
ServerTools ==
       ("mcp.server.tools" :> [In(Reads, Everywhere) EXCEPT !.permission = "network"])
    @@ ("mcp.server.call"  :> [In(Changes("network"), Everywhere)
                                 EXCEPT !.permissionPolicy = "argument_map",
                                        !.riskPolicy = "argument_permission"])

Catalogue ==
       ConversationSpecs @@ AgentSpecs @@ GoalOpenSpecs @@ GoalUpdateSpecs
    @@ GoalControlSpecs @@ GoalStateSpecs @@ ApprovalSpecs @@ SessionSpecs
    @@ MemoryActionSpecs @@ PersonalSpecs @@ TraceSpecs
    @@ EvolutionProposalSpecs @@ EvolutionObservationSpecs @@ EvolutionControlSpecs
    @@ CatalogueTools @@ MemoryReadTools @@ MemoryWriteTools @@ FileTools
    @@ CodeTools @@ WebTools @@ DeliveryTools @@ ServerTools

\* ToolSpec.__post_init__ raises at import unless this holds.
WellFormed(spec) ==
    /\ spec.contexts # {}
    /\ spec.permission \in Permission
    /\ spec.permissionPolicy \in {"static", "shell_argv", "agent_operation", "argument_map"}
    /\ spec.riskPolicy \in {"declared", "workspace_file_write", "shell_argv", "http_request",
                            "agent_operation", "argument_permission"}
    /\ spec.risk \in {"unset", "low", "medium", "high"}
    /\ spec.approval \in {"risk", "control_plane", "explicit_control"}
    /\ spec.approval = "control_plane" => spec.confirm # "yes" /\ spec.risk # "high"
    /\ spec.workspace \in {"none", "paths", "sandbox"}
    /\ spec.mutates => spec.effect # "none"

ASSUME CatalogueIsWellFormed == \A n \in DOMAIN Catalogue : WellFormed(Catalogue[n])
=============================================================================
