------------------------------ MODULE UserAgent -------------------------------
(***************************************************************************)
(* The confirmation helper of macOS, guard-notify, is a login item that    *)
(* runs while protection is on: applying a policy registers it before and  *)
(* unregisters it after, every refresh of the Control Center repairs its   *)
(* registration, and the extension knows it by its polls                   *)
(* (apps/guard-ui/src/platform_service.rs, crates/platform-macos/src/      *)
(* user_agent.rs, native/macos/user_agent_bridge.m, apps/guard-es/src/     *)
(* service.rs).  ServiceManagement and launchd are external.               *)
(***************************************************************************)
EXTENDS Naturals

CONSTANTS
  Window,           \* the refreshes of Control Center windows
  Setter,           \* those who apply policies
  MaxSettings,      \* bound: how many policies are applied
  MaxAgentFaults    \* bound: failures, and what users and installers do

ASSUME UserAgentAssumption ==
  /\ Window \intersect Setter = {}
  /\ {MaxSettings, MaxAgentFaults} \subseteq Nat

VARIABLES
  enabled,          \* policy_enabled, in the extension
  registration,     \* SMAppService status
  approved,         \* the user has not turned it off in Login Items
  leaving,          \* an unregistration is on its way
  helper,           \* launchd runs the helper
  fresh,            \* it has polled within HELPER_HEALTH_WINDOW
  task,             \* what each window and setter is doing
  overtaken,        \* history: the registration was changed by a step that did
                    \* not know the policy, or was not changed with it
  settings, agentFaults

agentVars == <<enabled, registration, approved, leaving, helper, fresh, task, overtaken,
               settings, agentFaults>>

NoTask == [pc |-> "idle", on |-> FALSE]

\* Protection is on and the helper is there, or neither.
AgentInit ==
  /\ enabled \in BOOLEAN
  /\ registration = IF enabled THEN "Enabled" ELSE "NotRegistered"
  /\ approved \in (IF enabled THEN {TRUE} ELSE BOOLEAN)
  /\ leaving = FALSE
  /\ helper = enabled /\ fresh = enabled
  /\ task = [a \in Window \union Setter |-> NoTask]
  /\ overtaken = FALSE
  /\ settings = 0 /\ agentFaults = 0

AgentFault == agentFaults < MaxAgentFaults /\ agentFaults' = agentFaults + 1

TaskAt(a, pc) == task[a].pc = pc
Turn(a, pc) == task' = [task EXCEPT ![a].pc = pc]
Finish(a) == task' = [task EXCEPT ![a] = NoTask]

OutOfStep(on) == overtaken' = (overtaken \/ enabled # on)

counts == <<settings, agentFaults>>

-----------------------------------------------------------------------------
(***************************************************************************)
(* The bridge.  Registering an enabled service does nothing, one that needs*)
(* approval is refused.                                                    *)
(***************************************************************************)
Register ==
  IF registration = "NotRegistered"
  THEN /\ registration' = IF approved THEN "Enabled" ELSE "RequiresApproval"
       /\ helper' = approved
  ELSE UNCHANGED <<registration, helper>>

\* Unregistering takes effect later, and is refused by nobody.
Unregister ==
  leaving' = (leaving \/ registration # "NotRegistered")

-----------------------------------------------------------------------------
(***************************************************************************)
(* platform_overview, once per refresh.                                    *)
(***************************************************************************)
ReadPolicy(a) ==
  /\ TaskAt(a, "idle")
  /\ enabled
  /\ Turn(a, "ensure")
  /\ UNCHANGED <<approved, enabled, registration, leaving, helper, fresh, overtaken, counts>>

Ensure(a) ==
  /\ TaskAt(a, "ensure")
  /\ Register
  /\ Turn(a, "ask")
  /\ OutOfStep(TRUE)
  /\ UNCHANGED <<approved, enabled, leaving, fresh, counts>>

\* pending_helper_status.  A helper that runs has polled by then ...
AskHelper(a) ==
  /\ TaskAt(a, "ask") /\ (fresh \/ ~helper)
  /\ IF fresh THEN Finish(a) ELSE Turn(a, "repair")
  /\ UNCHANGED <<approved, enabled, registration, leaving, helper, fresh, overtaken, counts>>

\* ... or was slow to start.
AskTooEarly(a) ==
  /\ TaskAt(a, "ask") /\ ~fresh /\ helper
  /\ AgentFault
  /\ Turn(a, "repair")
  /\ UNCHANGED <<approved, enabled, registration, leaving, helper, fresh, overtaken, settings>>

\* Only a registration that is enabled is worth repairing.
Repair(a) ==
  /\ TaskAt(a, "repair")
  /\ IF registration = "Enabled" THEN Turn(a, "reregister") ELSE Finish(a)
  /\ UNCHANGED <<approved, enabled, registration, leaving, helper, fresh, overtaken, counts>>

\* reregister, the old registration first.
\* Mutant: a registration that is enabled is left as it is.
ReregisterAbsent(a) ==
  /\ TaskAt(a, "reregister")
  /\ Register
  /\ Finish(a)
  /\ OutOfStep(TRUE)
  /\ UNCHANGED <<approved, enabled, leaving, fresh, counts>>

Reregister(a) ==
  /\ TaskAt(a, "reregister")
  /\ IF registration = "Enabled"
     THEN Unregister /\ Turn(a, "wait") /\ UNCHANGED <<registration, helper, overtaken>>
     ELSE Register /\ Finish(a) /\ OutOfStep(TRUE) /\ UNCHANGED leaving
  /\ UNCHANGED <<approved, enabled, fresh, counts>>

RegisterAgain(a) ==
  /\ TaskAt(a, "wait") /\ registration # "Enabled"
  /\ Register
  /\ Finish(a)
  /\ OutOfStep(TRUE)
  /\ UNCHANGED <<approved, enabled, leaving, fresh, counts>>

\* The old registration is still there after five seconds, or there is another.
WaitEnds(a) ==
  /\ TaskAt(a, "wait") /\ registration = "Enabled"
  /\ Finish(a)
  /\ UNCHANGED <<approved, enabled, registration, leaving, helper, fresh, overtaken, counts>>

-----------------------------------------------------------------------------
(***************************************************************************)
(* apply_config, and `guard-ui --ensure-pending-helper`.                   *)
(***************************************************************************)
Set(a, on) ==
  /\ TaskAt(a, "idle")
  /\ settings < MaxSettings /\ settings' = settings + 1
  /\ task' = [task EXCEPT ![a] = [NoTask EXCEPT !.pc = IF on THEN "register" ELSE "apply", !.on = on]]
  /\ UNCHANGED <<approved, enabled, registration, leaving, helper, fresh, overtaken, agentFaults>>

\* Without its helper a policy is not enabled.
EnsureFirst(a) ==
  /\ TaskAt(a, "register")
  /\ Register
  /\ Turn(a, "apply")
  /\ UNCHANGED <<approved, enabled, leaving, fresh, overtaken, counts>>

ApplyPolicy(a) ==
  /\ TaskAt(a, "apply")
  /\ enabled' = task[a].on
  /\ IF task[a].on THEN Finish(a) ELSE Turn(a, "unregister")
  /\ overtaken' = \E b \in Window \union Setter : b # a /\ ~TaskAt(b, "idle")
  /\ UNCHANGED <<approved, registration, leaving, helper, fresh, counts>>

\* The extension refuses, or it applies the policy and its reply is late.
ApplyPolicyFails(a) ==
  /\ TaskAt(a, "apply")
  /\ AgentFault
  /\ enabled' \in {enabled, task[a].on}
  /\ Finish(a)
  /\ overtaken' = TRUE
  /\ UNCHANGED <<approved, registration, leaving, helper, fresh, settings>>

\* Mutant: a policy that is off keeps its helper.
UnregisterAfterNot(a) ==
  /\ TaskAt(a, "unregister")
  /\ Finish(a)
  /\ UNCHANGED <<approved, enabled, registration, leaving, helper, fresh, overtaken, counts>>

UnregisterAfter(a) ==
  /\ TaskAt(a, "unregister")
  /\ Unregister
  /\ Finish(a)
  /\ OutOfStep(FALSE)
  /\ UNCHANGED <<approved, enabled, registration, helper, fresh, counts>>

EnsurePendingHelper(a) ==
  /\ TaskAt(a, "idle")
  /\ settings < MaxSettings /\ settings' = settings + 1
  /\ Turn(a, "reregister")
  /\ overtaken' = TRUE
  /\ UNCHANGED <<approved, enabled, registration, leaving, helper, fresh, agentFaults>>

-----------------------------------------------------------------------------
(***************************************************************************)
(* ServiceManagement, launchd, the helper, the user.                       *)
(***************************************************************************)
Left ==
  /\ leaving
  /\ leaving' = FALSE
  /\ registration' = "NotRegistered" /\ helper' = FALSE
  /\ UNCHANGED <<approved, enabled, fresh, task, overtaken, counts>>

\* An installation replaces the bundle: the job goes, the registration stays.
BootOut ==
  /\ helper
  /\ AgentFault
  /\ helper' = FALSE
  /\ UNCHANGED <<approved, enabled, registration, leaving, fresh, task, overtaken, settings>>

\* In Login Items.
Disapprove ==
  /\ approved /\ ~leaving
  /\ AgentFault
  /\ approved' = FALSE
  /\ registration' = IF registration = "Enabled" THEN "RequiresApproval" ELSE registration
  /\ helper' = FALSE
  /\ UNCHANGED <<enabled, leaving, fresh, task, overtaken, settings>>

Approve ==
  /\ ~approved /\ ~leaving
  /\ approved' = TRUE
  /\ registration' = IF registration = "RequiresApproval" THEN "Enabled" ELSE registration
  /\ helper' = (registration' = "Enabled")
  /\ UNCHANGED <<enabled, leaving, fresh, task, overtaken, counts>>

\* pending_helper_poll.
HelperPolls ==
  /\ helper /\ ~fresh
  /\ fresh' = TRUE
  /\ UNCHANGED <<approved, enabled, registration, leaving, helper, task, overtaken, counts>>

\* Three seconds without a poll.
HelperFallsSilent ==
  /\ ~helper /\ fresh
  /\ fresh' = FALSE
  /\ UNCHANGED <<approved, enabled, registration, leaving, helper, task, overtaken, counts>>

-----------------------------------------------------------------------------
TaskStep(a) ==
  \/ Ensure(a) \/ AskHelper(a) \/ Repair(a) \/ Reregister(a) \/ RegisterAgain(a) \/ WaitEnds(a)
  \/ EnsureFirst(a) \/ ApplyPolicy(a) \/ UnregisterAfter(a)

Launchd == Left \/ HelperFallsSilent

AgentNext ==
  \/ \E a \in Window : ReadPolicy(a)
  \/ \E a \in Setter : (\E on \in BOOLEAN : Set(a, on)) \/ EnsurePendingHelper(a)
  \/ \E a \in Window \union Setter : TaskStep(a) \/ ApplyPolicyFails(a)
  \/ Launchd
  \/ \E a \in Window : AskTooEarly(a)
  \/ BootOut \/ Disapprove \/ Approve
  \/ HelperPolls

-----------------------------------------------------------------------------
\* While protection is on the helper answers, unless the user has to approve it;
\* when it is off the helper is gone, unless something came in between.
HelperIsInStep ==
  /\ enabled /\ registration # "RequiresApproval" => fresh
  /\ ~enabled /\ ~overtaken => ~helper
=============================================================================
