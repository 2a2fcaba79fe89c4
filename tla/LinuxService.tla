--------------------------- MODULE LinuxService ------------------------------
(***************************************************************************)
(* How the Linux service is administered: `guardctl privileged apply-config`*)
(* saves a configuration, the Control Center's switch turns guardd.service *)
(* and guard-notify.service on and off, `guardctl setup` writes the first  *)
(* configuration (apps/guardctl/src/main.rs, apps/guard-ui/src/            *)
(* platform_service.rs, crates/platform-linux/src/service.rs).  Meanwhile  *)
(* guardd reads the configuration when systemd starts it, fails over it or *)
(* crashes, and is started again (apps/guardd/src/main.rs,                 *)
(* deploy/guardd.service).                                                 *)
(***************************************************************************)
EXTENDS Naturals

CONSTANTS
  Candidates,       \* configurations that pass validation
  Unusable,         \* those of them that guardd cannot enforce
  NoFile,           \* there is no /etc/guardd/config.json
  Partial,          \* a file that setup has created and not filled
  Client,           \* the processes that administer the service
  MaxJobs,          \* bound: how many of their jobs are done
  MaxServiceFaults  \* bound: how often something fails

ASSUME ServiceAssumption ==
  /\ Unusable \subseteq Candidates
  /\ NoFile \notin Candidates /\ Partial \notin Candidates /\ NoFile # Partial
  /\ {MaxJobs, MaxServiceFaults} \subseteq Nat

VARIABLES
  file,             \* the configuration file
  unit,             \* guardd.service: "off", "starting", "up", or "waiting" to be
                    \* started again; and what guardd, when up, enforces
  notifier,         \* guard-notify.service is active
  jobs,             \* what each client is doing
  jobsBegun, serviceFaults

serviceVars == <<file, unit, notifier, jobs, jobsBegun, serviceFaults>>

\* A job's answer to "was it active?", the file it found, and history: another
\* client, or the service itself, changed what the job relies on.
NoJob == [pc |-> "idle", config |-> NoFile, was |-> FALSE, previous |-> NoFile,
          met |-> FALSE, stale |-> FALSE]

Unit(state) == [state |-> state, runs |-> NoFile]

ServiceInit ==
  /\ file \in {NoFile} \union (Candidates \ Unusable)
  /\ unit \in {Unit("off")} \union {[state |-> "up", runs |-> c] : c \in {file} \ {NoFile}}
  /\ notifier = (unit.state = "up")
  /\ jobs = [c \in Client |-> NoJob]
  /\ jobsBegun = 0 /\ serviceFaults = 0

ServiceFault == serviceFaults < MaxServiceFaults /\ serviceFaults' = serviceFaults + 1

-----------------------------------------------------------------------------
(***************************************************************************)
(* systemctl.  A simple unit is active as soon as its process exists.      *)
(***************************************************************************)
IsActive == unit.state \in {"starting", "up"}

\* ConditionPathExists: without a configuration the unit stays off.
Started == IF file = NoFile THEN Unit("off") ELSE Unit("starting")

\* `systemctl start` leaves an active unit alone.
Start == IF IsActive THEN unit ELSE Started

Restarted == Started

-----------------------------------------------------------------------------
(***************************************************************************)
(* Steps of a client.  Clients hold no lock: what one changes, the others  *)
(* may have looked at.                                                     *)
(***************************************************************************)
Changed == file' # file \/ unit' # unit \/ notifier' # notifier

Become(c, job) ==
  jobs' = [d \in Client |->
             CASE d = c                  -> job
               [] d # c /\ jobs[d].pc = "idle" -> jobs[d]
               [] OTHER                  -> [jobs[d] EXCEPT !.met = @ \/ Changed]]

Goto(c, pc) == Become(c, [jobs[c] EXCEPT !.pc = pc])
Done(c) == Become(c, NoJob)
JobAt(c, pc) == jobs[c].pc = pc

Begin(c, pc, config, was) ==
  /\ JobAt(c, "idle")
  /\ jobsBegun < MaxJobs /\ jobsBegun' = jobsBegun + 1
  /\ jobs' = [jobs EXCEPT ![c] = [NoJob EXCEPT !.pc = pc, !.config = config, !.was = was]]
  /\ UNCHANGED <<file, unit, notifier, serviceFaults>>

counted == <<jobsBegun, serviceFaults>>

(***************************************************************************)
(* apply_config_bytes_transactionally.                                     *)
(***************************************************************************)
BeginSave(c, config) == Begin(c, "ask", config, FALSE)

AskActive(c) ==
  /\ JobAt(c, "ask")
  /\ jobs' = [jobs EXCEPT ![c].pc = "read", ![c].was = IsActive]
  /\ UNCHANGED <<file, unit, notifier, counted>>

ReadPrevious(c) ==
  /\ JobAt(c, "read")
  /\ jobs' = [jobs EXCEPT ![c].pc = "write", ![c].previous = file]
  /\ UNCHANGED <<file, unit, notifier, counted>>

\* The temporary file, its sync, its mode and its owner.
WriteCandidate(c) ==
  /\ JobAt(c, "write")
  /\ UNCHANGED <<file, unit, notifier, counted>>
  /\ Goto(c, "rename")

WriteCandidateFails(c) ==
  /\ JobAt(c, "write")
  /\ ServiceFault
  /\ UNCHANGED <<file, unit, notifier, jobsBegun>>
  /\ Done(c)

\* Mutant: the service is restarted whatever it was.
RenameCandidateAnyway(c) ==
  /\ JobAt(c, "rename")
  /\ file' = jobs[c].config
  /\ UNCHANGED <<unit, notifier, counted>>
  /\ Goto(c, "restart")

RenameCandidate(c) ==
  /\ JobAt(c, "rename")
  /\ file' = jobs[c].config
  /\ UNCHANGED <<unit, notifier, counted>>
  /\ IF jobs[c].was THEN Goto(c, "restart") ELSE Done(c)

RestartNew(c) ==
  /\ JobAt(c, "restart")
  /\ unit' = Restarted
  /\ UNCHANGED <<file, notifier, counted>>
  /\ Goto(c, "check")

\* The job is refused, or the old process is gone and no new one came up.
RestartNewFails(c) ==
  /\ JobAt(c, "restart")
  /\ ServiceFault
  /\ unit' \in {unit, Unit("waiting")}
  /\ UNCHANGED <<file, notifier, jobsBegun>>
  /\ Goto(c, "rollback")

CheckHealth(c) ==
  /\ JobAt(c, "check")
  /\ UNCHANGED <<file, unit, notifier, counted>>
  /\ IF IsActive THEN Done(c) ELSE Goto(c, "rollback")

\* The old bytes to the temporary file, or no file again.
Rollback(c) ==
  /\ JobAt(c, "rollback")
  /\ file' = IF jobs[c].previous = NoFile THEN NoFile ELSE file
  /\ UNCHANGED <<unit, notifier, counted>>
  /\ IF jobs[c].previous = NoFile THEN Done(c) ELSE Goto(c, "restore")

\* The new configuration stays, and the error says so.
RollbackFails(c) ==
  /\ JobAt(c, "rollback") /\ jobs[c].previous # NoFile
  /\ ServiceFault
  /\ UNCHANGED <<file, unit, notifier, jobsBegun>>
  /\ Done(c)

Restore(c) ==
  /\ JobAt(c, "restore")
  /\ file' = jobs[c].previous
  /\ UNCHANGED <<unit, notifier, counted>>
  /\ Goto(c, "restart old")

RestartOld(c) ==
  /\ JobAt(c, "restart old")
  /\ unit' = Restarted
  /\ UNCHANGED <<file, notifier, counted>>
  /\ Done(c)

\* Whether the previous configuration runs is not looked at.
RestartOldFails(c) ==
  /\ JobAt(c, "restart old")
  /\ ServiceFault
  /\ unit' \in {unit, Unit("waiting")}
  /\ UNCHANGED <<file, notifier, jobsBegun>>
  /\ Done(c)

(***************************************************************************)
(* set_linux_protection_enabled: each step is a process of its own, pkexec *)
(* for the daemon.  `was`: the switch changes something.                   *)
(***************************************************************************)
BeginSwitchOn(c)  == Begin(c, "start service", NoFile, unit.state = "off" /\ ~notifier)
BeginSwitchOff(c) == Begin(c, "stop notifier", NoFile, unit.state # "off" /\ notifier)

StartService(c) ==
  /\ JobAt(c, "start service")
  /\ unit' = Start
  /\ UNCHANGED <<file, notifier, counted>>
  /\ Goto(c, "start notifier")

StartNotifier(c) ==
  /\ JobAt(c, "start notifier")
  /\ notifier' = TRUE
  /\ UNCHANGED <<file, unit, counted>>
  /\ Done(c)

StartNotifierFails(c) ==
  /\ JobAt(c, "start notifier")
  /\ ServiceFault
  /\ UNCHANGED <<file, unit, notifier, jobsBegun>>
  /\ Goto(c, "undo start")

UndoStart(c) ==
  /\ JobAt(c, "undo start")
  /\ unit' = Unit("off")
  /\ UNCHANGED <<file, notifier, counted>>
  /\ Done(c)

StopNotifier(c) ==
  /\ JobAt(c, "stop notifier")
  /\ notifier' = FALSE
  /\ UNCHANGED <<file, unit, counted>>
  /\ Goto(c, "stop service")

StopService(c) ==
  /\ JobAt(c, "stop service")
  /\ unit' = Unit("off")
  /\ UNCHANGED <<file, notifier, counted>>
  /\ Done(c)

StopServiceFails(c) ==
  /\ JobAt(c, "stop service")
  /\ ServiceFault
  /\ UNCHANGED <<file, unit, notifier, jobsBegun>>
  /\ Goto(c, "undo stop")

UndoStop(c) ==
  /\ JobAt(c, "undo stop")
  /\ notifier' = TRUE
  /\ UNCHANGED <<file, unit, counted>>
  /\ Done(c)

\* The first step of a switch fails, or the step that makes a failure good.
SwitchGivesUp(c) ==
  /\ jobs[c].pc \in {"start service", "stop notifier", "undo start", "undo stop"}
  /\ ServiceFault
  /\ UNCHANGED <<file, unit, notifier, jobsBegun>>
  /\ Done(c)

(***************************************************************************)
(* guardctl setup: an existing file is refused, the user confirms, and the *)
(* file is created - not replaced - and written.                           *)
(***************************************************************************)
BeginSetup(c, config) == file = NoFile /\ Begin(c, "create", config, FALSE)

CreateConfig(c) ==
  /\ JobAt(c, "create")
  /\ file' = IF file = NoFile THEN Partial ELSE file
  /\ UNCHANGED <<unit, notifier, counted>>
  /\ IF file = NoFile THEN Goto(c, "fill") ELSE Done(c)

\* What setup created may have been replaced by now, and is then written in vain.
FillConfig(c) ==
  /\ JobAt(c, "fill")
  /\ file' = IF file = Partial THEN jobs[c].config ELSE file
  /\ UNCHANGED <<unit, notifier, counted>>
  /\ Done(c)

FillConfigFails(c) ==
  /\ JobAt(c, "fill")
  /\ ServiceFault
  /\ UNCHANGED <<file, unit, notifier, jobsBegun>>
  /\ Done(c)

-----------------------------------------------------------------------------
(***************************************************************************)
(* guardd and systemd by themselves.                                       *)
(***************************************************************************)
\* The service came or went while a save relied on the answer it had.
Stale ==
  jobs' = [c \in Client |->
             [jobs[c] EXCEPT !.stale = @ \/ jobs[c].pc \in {"read", "write", "rename"}]]

\* run_browser_enforcement up to "enforcement ACTIVE": the file is read once.
DaemonStarts ==
  /\ unit.state = "starting"
  /\ file \in Candidates \ Unusable
  /\ unit' = [state |-> "up", runs |-> file]
  /\ UNCHANGED <<file, notifier, jobs, counted>>

DaemonFailsToStart ==
  /\ unit.state = "starting"
  /\ file \notin Candidates \ Unusable
  /\ unit' = Unit("waiting")
  /\ Stale
  /\ UNCHANGED <<file, notifier, counted>>

DaemonCrashes ==
  /\ IsActive
  /\ ServiceFault
  /\ unit' = Unit("waiting")
  /\ Stale
  /\ UNCHANGED <<file, notifier, jobsBegun>>

\* Restart=always.
SystemdRestarts ==
  /\ unit.state = "waiting"
  /\ unit' = Started
  /\ Stale
  /\ UNCHANGED <<file, notifier, counted>>

-----------------------------------------------------------------------------
SaveStep(c) ==
  \/ AskActive(c) \/ ReadPrevious(c)
  \/ WriteCandidate(c) \/ WriteCandidateFails(c) \/ RenameCandidate(c)
  \/ RestartNew(c) \/ RestartNewFails(c) \/ CheckHealth(c)
  \/ Rollback(c) \/ RollbackFails(c) \/ Restore(c) \/ RestartOld(c) \/ RestartOldFails(c)

SwitchStep(c) ==
  \/ StartService(c) \/ StartNotifier(c) \/ StartNotifierFails(c) \/ UndoStart(c)
  \/ StopNotifier(c) \/ StopService(c) \/ StopServiceFails(c) \/ UndoStop(c)
  \/ SwitchGivesUp(c)

SetupStep(c) == CreateConfig(c) \/ FillConfig(c) \/ FillConfigFails(c)

Systemd == DaemonStarts \/ DaemonFailsToStart \/ DaemonCrashes \/ SystemdRestarts

ServiceNext ==
  \/ \E c \in Client :
       \/ \E config \in Candidates : BeginSave(c, config) \/ BeginSetup(c, config)
       \/ BeginSwitchOn(c) \/ BeginSwitchOff(c)
       \/ SaveStep(c) \/ SwitchStep(c) \/ SetupStep(c)
  \/ Systemd

-----------------------------------------------------------------------------
Ends(c) == jobs[c].pc # "idle" /\ jobs'[c].pc = "idle"

\* A save that reports success has installed its configuration, and one that
\* reports "previous configuration restored", or that failed before it, has
\* left the file as it found it.  What runs after a restart is what is in the
\* file, unless the restart of the rollback failed.
SaveIsATransaction(c) ==
  LET job == jobs[c] IN
    /\ job.pc \in {"rename", "check"} => file' = job.config
    /\ job.pc \in {"write", "restart old"} => file' = job.previous
    /\ /\ job.pc \in {"check", "restart old"}
       /\ serviceFaults' = serviceFaults /\ unit'.state = "up"
       => unit'.runs = file'

\* docs: saving only restarts a service that was running; a stopped one stays
\* stopped - unless it was about to be started again by itself.
SaveStartsNothing(c) ==
  jobs[c].pc \in {"rename", "check", "restart old"} /\ ~jobs[c].was /\ ~jobs[c].stale
  => unit'.state \in {"off", "waiting"}

\* The switch turns both services on or off, or leaves both as they were.
SwitchedTogether(c) ==
  /\ jobs[c].pc \in {"start notifier", "stop service", "undo start", "undo stop"}
  /\ jobs[c].was /\ serviceFaults' = serviceFaults
  => \/ notifier' = (unit'.state # "off")
     \/ notifier' /\ file = NoFile

\* What administering the service promises, whatever fails and whenever guardd
\* crashes or comes back, as long as one client does it at a time.
JobsKeepTheirWord ==
  \A c \in Client : Ends(c) /\ ~jobs[c].met =>
    SaveIsATransaction(c) /\ SaveStartsNothing(c) /\ SwitchedTogether(c)
=============================================================================
