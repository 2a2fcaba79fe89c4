--------------------------- MODULE SystemExtension ----------------------------
(***************************************************************************)
(* Installing, asking about and removing the macOS system extension: the   *)
(* Control Center's install button and status refresh, which share one     *)
(* process, the command line, and the watchdog, which activates the        *)
(* extension for a while and must take it away again (apps/guard-ui/src/   *)
(* platform_service.rs and main.rs, crates/platform-macos/src/             *)
(* system_extension.rs, native/macos/system_extension_bridge.m).           *)
(*                                                                         *)
(* The bridge keeps one state and one delegate per extension and process.  *)
(* The system keeps a delegate only weakly: when a later request takes the *)
(* place of its delegate, a request goes on and nobody hears of its end.   *)
(***************************************************************************)
EXTENDS Naturals, Sequences

CONSTANT MaxSubmissions    \* bound: how many requests are made

ASSUME SystemExtensionAssumption == MaxSubmissions \in Nat

\* What each kind of process runs.
Thread == {"install", "refresh", "command", "watchdog"}
Threads == [ui |-> {"install", "refresh"}, command |-> {"command"}, watchdog |-> {"watchdog"}]

Unasked == [id |-> 0, kind |-> "none"]

VARIABLES
  process,          \* "ui", "command" or "watchdog"; the others are the rest of the world
  ready,            \* mac_setup_readiness: this bundle may ask for an installation
  bridge,           \* the state, the delegate, and the blocks not yet run
  thread,           \* what each thread is doing
  asked,            \* requests the system is working on
  extension,        \* "none", the "old" or the "new" version, or switched "off"
  completed,        \* history: requests that ended well, and took effect
  submissions       \* how many were made

extensionVars == <<process, ready, bridge, thread, asked, extension, completed, submissions>>

\* `alone`, history: no other request of the process was under way meanwhile.
NoWork == [pc |-> "idle", request |-> 0, alone |-> TRUE, tripped |-> FALSE]

ExtensionInit ==
  /\ process \in DOMAIN Threads
  /\ ready \in BOOLEAN
  /\ bridge = [state |-> "Unknown", delegate |-> Unasked, blocks |-> <<>>]
  /\ thread = [t \in Thread |-> NoWork]
  /\ asked = {}
  /\ extension \in {"none", "old", "off"}
  /\ completed = {}
  /\ submissions = 0

-----------------------------------------------------------------------------
(***************************************************************************)
(* GuardSubmit: the state is set by the caller, the delegate by a block on *)
(* the bridge's queue, where the system's callbacks run too.               *)
(***************************************************************************)
Quiet == bridge.delegate = Unasked /\ bridge.blocks = <<>>

Block(kind) == [id |-> submissions + 1, kind |-> kind]

Submits(t, pc) ==
  /\ t \in Threads[process]
  /\ submissions < MaxSubmissions /\ submissions' = submissions + 1
  /\ thread' = [u \in Thread |->
       IF u = t THEN [thread[t] EXCEPT !.pc = pc, !.request = submissions + 1, !.alone = Quiet]
       ELSE [thread[u] EXCEPT !.alone = FALSE]]

\* Mutant: the state of the last request is left to be read.
SubmitOver(t, kind, pc) ==
  /\ Submits(t, pc)
  /\ bridge' = [bridge EXCEPT !.blocks = Append(@, Block(kind))]

Submit(t, kind, pc) ==
  /\ Submits(t, pc)
  /\ bridge' = [bridge EXCEPT !.state = "Submitted", !.blocks = Append(@, Block(kind))]

RunBlock ==
  /\ bridge.blocks # <<>>
  /\ bridge' = [bridge EXCEPT !.delegate = Head(bridge.blocks), !.blocks = Tail(@)]
  /\ asked' = asked \union {Head(bridge.blocks)}
  /\ UNCHANGED <<process, ready, thread, extension, completed, submissions>>

\* A callback of request r with a new state, which may be its last.
Callback(r, state, last) ==
  bridge' = IF bridge.delegate # r THEN bridge
            ELSE [bridge EXCEPT !.state = state, !.delegate = IF last THEN Unasked ELSE @]

-----------------------------------------------------------------------------
(***************************************************************************)
(* The Control Center and the command line.                                *)
(***************************************************************************)
\* request_system_extension_install.
Install ==
  /\ thread["install"].pc = "idle"
  /\ ready
  /\ Submit("install", "activate", "wait")
  /\ UNCHANGED <<process, ready, asked, extension, completed>>

\* mac_extension_state, when the extension does not answer.
Refresh ==
  /\ thread["refresh"].pc = "idle"
  /\ Submit("refresh", "properties", "wait")
  /\ UNCHANGED <<process, ready, asked, extension, completed>>

\* handle_system_extension_command: one request, then the process ends.
Command(kind) ==
  /\ thread["command"].pc = "idle" /\ submissions = 0
  /\ Submit("command", kind, "wait")
  /\ UNCHANGED <<process, ready, asked, extension, completed>>

\* wait_for_lifecycle, and the refresh's thirty looks, end with a state ...
Report(t) ==
  /\ t # "watchdog" /\ thread[t].pc = "wait"
  /\ bridge.state # "Submitted"
  /\ thread' = [thread EXCEPT ![t] = NoWork]
  /\ UNCHANGED <<process, ready, bridge, asked, extension, completed, submissions>>

\* ... or without one, and then nothing is claimed.
ReportPending(t) ==
  /\ t # "watchdog" /\ thread[t].pc = "wait"
  /\ bridge.state = "Submitted"
  /\ thread' = [thread EXCEPT ![t] = NoWork]
  /\ UNCHANGED <<process, ready, bridge, asked, extension, completed, submissions>>

-----------------------------------------------------------------------------
(***************************************************************************)
(* run_system_extension_watchdog.                                          *)
(***************************************************************************)
WatchdogAt(pc) == thread["watchdog"].pc = pc

Activate ==
  /\ WatchdogAt("idle")
  /\ Submit("watchdog", "activate", "activating")
  /\ UNCHANGED <<process, ready, asked, extension, completed>>

\* wait_for_activation: approval is waited for.  Anything but Active trips, and
\* so do 120 seconds.
Activated ==
  /\ WatchdogAt("activating")
  /\ thread' = [thread EXCEPT !["watchdog"].pc = IF bridge.state = "Active" THEN "guard" ELSE "remove",
                              !["watchdog"].tripped = bridge.state # "Active"]
  /\ UNCHANGED <<process, ready, bridge, asked, extension, completed, submissions>>

\* Time is up, the stop file is there, or a file or a process did not open in time.
GuardEnds ==
  /\ WatchdogAt("guard")
  /\ \E tripped \in BOOLEAN :
       thread' = [thread EXCEPT !["watchdog"].pc = "remove", !["watchdog"].tripped = tripped]
  /\ UNCHANGED <<process, ready, bridge, asked, extension, completed, submissions>>

Remove ==
  /\ WatchdogAt("remove")
  /\ Submit("watchdog", "deactivate", "removing")
  /\ UNCHANGED <<process, ready, asked, extension, completed>>

\* deactivate_after_watchdog.  The exit status is 0 only if the session did not
\* trip and the extension is gone.
\* Mutant: any state but a failure will do.
RemovedUnlessFailed ==
  /\ WatchdogAt("removing")
  /\ thread' = [thread EXCEPT !["watchdog"] =
       [NoWork EXCEPT !.pc = IF ~thread["watchdog"].tripped /\ bridge.state \notin {"Submitted", "Failed"}
                             THEN "exit 0" ELSE "exit 1",
                      !.request = thread["watchdog"].request]]
  /\ UNCHANGED <<process, ready, bridge, asked, extension, completed, submissions>>

Removed ==
  /\ WatchdogAt("removing")
  /\ thread' = [thread EXCEPT !["watchdog"] =
       [NoWork EXCEPT !.pc = IF ~thread["watchdog"].tripped /\ bridge.state = "Deactivated"
                             THEN "exit 0" ELSE "exit 1",
                      !.request = thread["watchdog"].request]]
  /\ UNCHANGED <<process, ready, bridge, asked, extension, completed, submissions>>

-----------------------------------------------------------------------------
(***************************************************************************)
(* SystemExtensions, and the rest of the world.                            *)
(***************************************************************************)
NeedsApproval(r) ==
  /\ r \in asked /\ r.kind = "activate" /\ extension # "new"
  /\ Callback(r, "UserApprovalRequired", FALSE)
  /\ UNCHANGED <<process, ready, thread, asked, extension, completed, submissions>>

Closes(r, state) ==
  /\ r \in asked /\ asked' = asked \ {r}
  /\ Callback(r, state, TRUE)
  /\ UNCHANGED <<process, ready, thread, submissions>>

Completes(r) ==
  /\ r.kind # "properties"
  /\ extension' = IF r.kind = "activate" THEN "new" ELSE "none"
  /\ completed' = completed \union {r.id}
  /\ Closes(r, IF r.kind = "activate" THEN "Active" ELSE "Deactivated")

AfterReboot(r) ==
  /\ r.kind # "properties"
  /\ Closes(r, "RestartRequired")
  /\ UNCHANGED <<extension, completed>>

RequestFails(r) ==
  /\ Closes(r, "Failed")
  /\ UNCHANGED <<extension, completed>>

\* foundProperties: an enabled version goes before one that awaits approval.
FoundProperties(r) ==
  /\ r.kind = "properties"
  /\ \/ extension \in {"old", "new"} /\ Closes(r, "Active")
     \/ extension \in {"none", "off"} /\ (\E a \in asked : a.kind = "activate")
        /\ Closes(r, "UserApprovalRequired")
     \/ extension = "off" /\ Closes(r, "Deactivated")
     \/ extension = "none" /\ Closes(r, "Unknown")
  /\ UNCHANGED <<extension, completed>>

\* System Settings, or another process.
ExtensionChanges ==
  /\ extension' \in {"none", "old", "new", "off"} \ {extension}
  /\ UNCHANGED <<process, ready, bridge, thread, asked, completed, submissions>>

-----------------------------------------------------------------------------
System(r) == NeedsApproval(r) \/ Completes(r) \/ AfterReboot(r) \/ RequestFails(r) \/ FoundProperties(r)

ExtensionNext ==
  \/ Install \/ Refresh
  \/ \E kind \in {"activate", "deactivate", "properties"} : Command(kind)
  \/ \E t \in Thread : Report(t) \/ ReportPending(t)
  \/ Activate \/ Activated \/ GuardEnds \/ Remove \/ Removed
  \/ RunBlock
  \/ \E r \in asked : System(r)
  \/ ExtensionChanges

-----------------------------------------------------------------------------
Says(t, state) == thread[t].pc = "wait" /\ thread'[t].pc = "idle" /\ bridge.state = state

\* "macOS completed the protection extension install/update" is said only when
\* it did, unless a refresh was under way in the same process; and the watchdog
\* exits with 0 only when the deactivation it asked for removed the extension.
LifecycleReportsAreTrue ==
  /\ Says("install", "Active") /\ thread["install"].alone
         => thread["install"].request \in completed
  /\ WatchdogAt("removing") /\ thread'["watchdog"].pc = "exit 0"
         => thread["watchdog"].request \in completed
=============================================================================
