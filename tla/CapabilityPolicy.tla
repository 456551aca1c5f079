-------------------------- MODULE CapabilityPolicy --------------------------
(***************************************************************************)
(* What safeguards.py and operating_context.py decide about one concrete   *)
(* call: the permission it really needs, whether it can change state, and  *)
(* whether it needs the owner's confirmation.  An argument is a member of  *)
(* the small set of classes the policy of its capability tells apart.      *)
(***************************************************************************)
EXTENDS CapabilityCatalogue

\* The rungs of the shell classification ladder, by what the argv is.
ShellArgv == {"local_read", "find_plain", "git_observes", "systemctl_observes",
              "cluster_observes", "asks_help", "terminal", "opaque"}

AgentOperation == {"list", "state", "collect", "spawn", "message", "cancel"}

FileWrite == {"new_file", "keeps_or_grows", "shrinks_existing", "outside"}

HttpRequest == {"public_get", "private_target", "has_side_effect", "unresolved"}

MappedTool == {"mapped_read", "mapped_network", "mapped_prepare", "mapped_write", "unmapped"}

Arguments(spec) ==
    CASE spec.permissionPolicy = "shell_argv"        -> ShellArgv
      [] spec.permissionPolicy = "agent_operation"   -> AgentOperation
      [] spec.permissionPolicy = "argument_map"      -> MappedTool
      [] spec.permissionPolicy = "static" ->
           (CASE spec.riskPolicy = "workspace_file_write" -> FileWrite
              [] spec.riskPolicy = "http_request"         -> HttpRequest
              [] spec.riskPolicy = "declared" /\ spec.workspace # "none" ->
                    {"inside", "outside"}
              [] OTHER -> {"plain"})

-----------------------------------------------------------------------------
(* safeguards.shell_call_policy: a pseudo-terminal is always opaque, an    *)
(* argv no rung matches is a write.                                        *)
ShellPermission(argv) ==
    CASE argv \in {"local_read", "find_plain", "git_observes",
                   "systemctl_observes", "asks_help"} -> "read"
      [] argv = "cluster_observes" -> "network"
      [] argv \in {"terminal", "opaque"} -> "write"

\* safeguards.required_permission_for_call
RequiredPermission(spec, arg) ==
    CASE spec.permissionPolicy = "static" -> spec.permission
      [] spec.permissionPolicy = "shell_argv" -> ShellPermission(arg)
      [] spec.permissionPolicy = "agent_operation" ->
            IF arg \in {"spawn", "message", "cancel"} THEN "prepare" ELSE "read"
      [] spec.permissionPolicy = "argument_map" ->
            MaxPermission(spec.permission,
                CASE arg = "mapped_read"    -> "read"
                  [] arg = "mapped_network" -> "network"
                  [] arg = "mapped_prepare" -> "prepare"
                  [] arg \in {"mapped_write", "unmapped"} -> "write")

\* safeguards.call_mutates: the declaration is an upper bound.
CallMutates(spec, arg) ==
    /\ spec.mutates
    /\ CASE spec.permissionPolicy = "static" -> TRUE
         [] spec.permissionPolicy = "shell_argv" ->
               ShellPermission(arg) \notin {"read", "network"}
         [] spec.permissionPolicy = "agent_operation" ->
               arg \notin {"list", "state", "collect"}
         [] spec.permissionPolicy = "argument_map" ->
               RequiredPermission(spec, arg) = "write"

\* safeguards._declared_safeguard: a capability that mutates and declares
\* nothing is rated as a write, whatever permission it asks for.
DeclaredRisk(spec) ==
    LET default == IF spec.mutates THEN "write" ELSE spec.permission
    IN  [risk |-> IF spec.risk # "unset" THEN spec.risk
                  ELSE CASE default = "read" -> "low"
                         [] default \in {"network", "prepare"} -> "medium"
                         [] default = "write" -> "high",
         confirm |-> IF spec.confirm # "unset" THEN spec.confirm = "yes"
                     ELSE default = "write"]

\* safeguards.assess_capability_call
High == [risk |-> "high", confirm |-> TRUE]
Mild(r) == [risk |-> r, confirm |-> FALSE]

CallRisk(spec, arg) ==
    LET declared == IF spec.effect = "external" /\ DeclaredRisk(spec).confirm
                    THEN High ELSE DeclaredRisk(spec)
    IN  CASE spec.riskPolicy = "declared" -> declared
          [] spec.riskPolicy = "workspace_file_write" ->
                IF arg \in {"outside", "shrinks_existing"} THEN High ELSE declared
          [] spec.riskPolicy = "shell_argv" ->
                IF ShellPermission(arg) = "write" THEN High ELSE Mild("medium")
          [] spec.riskPolicy = "agent_operation" ->
                IF arg \in {"list", "state", "collect"} THEN Mild("low")
                ELSE IF arg = "cancel" THEN High ELSE Mild("medium")
          [] spec.riskPolicy = "argument_permission" ->
                (CASE RequiredPermission(spec, arg) = "write" -> High
                   [] RequiredPermission(spec, arg) \in {"prepare", "network"} -> Mild("medium")
                   [] OTHER -> Mild("low"))
          [] spec.riskPolicy = "http_request" ->
                IF arg \in {"private_target", "has_side_effect"} THEN High ELSE declared

NeedsConfirmation(spec, arg) ==
    CallRisk(spec, arg).confirm \/ CallRisk(spec, arg).risk = "high"

\* safeguards.workspace_boundary_facts
InsideWorkspace(spec, arg) == spec.workspace = "none" \/ arg # "outside"

\* safeguards.prepare_capability_call
TargetResolves(spec, arg) == spec.riskPolicy = "http_request" => arg # "unresolved"

-----------------------------------------------------------------------------
\* Of every capability and every class of argument: what can change state
\* needs more than the permission to read, except the call that asks for the
\* permission; and what needs the permission to write and is not one of the
\* declared, reversible local changes is confirmed or refused.
ASSUME MutationIsNotFree ==
    \A n \in DOMAIN Catalogue : \A arg \in Arguments(Catalogue[n]) :
        CallMutates(Catalogue[n], arg) =>
            \/ RequiredPermission(Catalogue[n], arg) # "read"
            \/ Catalogue[n].approval = "control_plane"

ASSUME OpaqueIsConfirmed ==
    \A n \in DOMAIN Catalogue : \A arg \in Arguments(Catalogue[n]) :
        arg \in {"opaque", "terminal", "outside", "shrinks_existing", "private_target",
                 "has_side_effect", "mapped_write", "unmapped"}
            => NeedsConfirmation(Catalogue[n], arg) \/ ~InsideWorkspace(Catalogue[n], arg)
=============================================================================
