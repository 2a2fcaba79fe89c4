--------------------------- MODULE Administration -----------------------------
(***************************************************************************)
(* How Sensitive File Guard is set up and changed: six protocols, each in  *)
(* its own module.  They run in different processes and on different       *)
(* state, so in a behaviour one of them is at work:                        *)
(*   policy    a new configuration in the macOS extension   ConfigApply    *)
(*   test      guardctl's acceptance run beside it          Acceptance     *)
(*   service   guardctl, systemd and guardd on Linux        LinuxService   *)
(*   window    the policy page of guard-ui                  ControlCenter  *)
(*   bundle    installing the macOS extension               SystemExtension*)
(*   agent     the macOS login agent                        UserAgent      *)
(***************************************************************************)
EXTENDS Acceptance, LinuxService, ControlCenter, SystemExtension, UserAgent

VARIABLE office     \* the protocol at work

adminVars == <<office, acceptanceVars, serviceVars, centerVars, extensionVars, agentVars>>

\* Protocols that are not at work rest in one of their initial states.
AdminInit ==
  /\ office \in {"policy", "test", "service", "window", "bundle", "agent"}
  /\ AcceptanceInit /\ ServiceInit /\ CenterInit /\ ExtensionInit /\ AgentInit
  /\ office \notin {"policy", "test"} => policy.config = CHOOSE c \in Installed : TRUE
  /\ office # "service" => file = NoFile
  /\ office # "window" => platform = "linux" /\ backend.on
  /\ office # "bundle" => process = "ui" /\ ready /\ extension = "none"
  /\ office # "agent" => enabled

Policy == office = "policy" /\ UNCHANGED <<office, test, serviceVars, centerVars, extensionVars, agentVars>> /\ Next

\* Beside an acceptance run less may fail.
Test ==
  /\ office = "test" /\ UNCHANGED <<office, serviceVars, centerVars, extensionVars, agentVars>>
  /\ AcceptanceNext
  /\ faults' < MaxFaults

Service == office = "service" /\ UNCHANGED <<office, acceptanceVars, centerVars, extensionVars, agentVars>> /\ ServiceNext
Page == office = "window" /\ UNCHANGED <<office, acceptanceVars, serviceVars, extensionVars, agentVars>> /\ CenterNext
Bundle == office = "bundle" /\ UNCHANGED <<office, acceptanceVars, serviceVars, centerVars, agentVars>> /\ ExtensionNext
Agent == office = "agent" /\ UNCHANGED <<office, acceptanceVars, serviceVars, centerVars, extensionVars>> /\ AgentNext

AdminNext == Policy \/ Test \/ Service \/ Page \/ Bundle \/ Agent

(***************************************************************************)
(* The page's timer fires and its threads run; the agent's tasks, launchd  *)
(* and the helper's timer go on.  Nothing else has to happen.              *)
(***************************************************************************)
PageGoesOn ==
  /\ WF_centerVars(office = "window" /\ Polling)
  /\ \A f \in Flight : WF_centerVars(office = "window" /\ Proceed(f))

AgentGoesOn ==
  /\ \A a \in Window : WF_agentVars(office = "agent" /\ ReadPolicy(a))
  /\ \A a \in Window \union Setter : WF_agentVars(office = "agent" /\ TaskStep(a))
  /\ WF_agentVars(office = "agent" /\ Launchd)
  /\ WF_agentVars(office = "agent" /\ HelperPolls)

AdminSpec == AdminInit /\ [][AdminNext]_adminVars /\ PageGoesOn /\ AgentGoesOn

-----------------------------------------------------------------------------
\* A request to the extension takes effect as a whole or not at all, and a run
\* that only tests leaves nothing behind.
RequestsKeepTheirWord == [][AllOrNothing /\ TestLeavesNothing]_acceptanceVars

\* Saving, switching and setting up on Linux do what they report.
ServiceJobsKeepTheirWord == [][JobsKeepTheirWord]_serviceVars

\* An edit can be applied while it is unsaved, and applying it changes nothing
\* else.
ApplyIsHonest == [][ApplyMeansWhatItShows]_centerVars

\* What the lifecycle of the extension is reported to be, it is.
ExtensionReportsAreTrue == [][LifecycleReportsAreTrue]_extensionVars

\* The page catches up with the service, and the login helper with the policy:
\* neither stays behind for ever.
ViewsCatchUp ==
  /\ office = "window" => <>[]CaughtUp
  /\ office = "agent" => <>[]HelperIsInStep
=============================================================================
