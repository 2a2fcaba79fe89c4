------------------------------ MODULE Clients --------------------------------
(***************************************************************************)
(* guardd's clients on Linux and the one thread that serves them: the      *)
(* notifier guard-notify, the desktop client guard-ui with its polling     *)
(* worker and the worker that resolves a prompt, and guardctl's broker     *)
(* for "ssh load" (apps/guard-notify, apps/guard-ui, apps/guardctl,        *)
(* crates/guard-client; the serving side is apps/guardd/src/ipc.rs).       *)
(*                                                                         *)
(* A client connects, writes its request and waits: for two seconds, or    *)
(* without a limit while a human authenticates.  The server takes one      *)
(* connection at a time, and what a client wrote before it gave up is      *)
(* read and carried out all the same.  Guardd has what the server does to  *)
(* requests and leases in detail; here a prompt is pending or not, and     *)
(* what matters is who learns of it.                                       *)
(***************************************************************************)
EXTENDS AuditStore, PromptDialog, FiniteSets

CONSTANTS
  Load,             \* runs of guardctl ssh load
  MaxActivations,   \* MAX_PENDING_ACTIVATIONS
  Scenario          \* what happens in a behaviour, see MCClients

\* What a behaviour is made of; None stands for no request, and no run of
\* guardctl for another client.
ASSUME ScenarioAssumption ==
  /\ None \notin Request
  /\ Load \intersect {"notify", "poll", "resolve", "cli"} = {}
  /\ Scenario \subseteq
       [system : {"linux", "macos"}, requests : SUBSET Request, migrations : SUBSET Request,
        loads : SUBSET Load, polls : Seq({"events", "ssh", "mig"}), records : Nat, maxAllows : Nat,
        notify : BOOLEAN, pendingOnly : BOOLEAN, restarts : BOOLEAN, kills : BOOLEAN,
        stalls : BOOLEAN, crashes : BOOLEAN, cli : BOOLEAN]

VARIABLES
  scene,
  pending,          \* the requests in the stores
  arrived,          \* history: the requests that ever were
  line,             \* connections in the listener's backlog
  ipc,              \* the IPC thread
  asking, reply,    \* what each client waits for, and its answer
  notifier,         \* LinuxPendingObserver and last_seen
  ui,               \* guard-ui's window and its poll
  dialog,           \* PendingDialogController
  log,              \* event_data: the ids the log page shows
  allows,           \* history: clicks on Allow
  broker, child,    \* guardctl ssh load and its child, per run
  lease, pin,       \* the load lease and its pinned agent socket
  unread            \* history: answers that came when nobody read any more

store == <<pending, arrived>>
desk == <<ui, dialog, log, allows>>
loads == <<broker, child>>
grants == <<lease, pin>>
wire == <<line, ipc, asking, reply>>
vars == <<scene, store, wire, notifier, desk, loads, grants, unread, audit>>

Client == {"notify", "poll", "resolve", "cli"} \union Load

-----------------------------------------------------------------------------
\* Connections

NoOp == [op |-> "none"]
Accepting == [pc |-> "accept", conn |-> NoOp, answer |-> NoOp]

\* IpcClient::request and exchange: connect, write, and wait for the answer.
\* A message is about a request, a cursor or a load, or nothing more than op.
Ask(c, op, about) ==
  /\ line' = Append(line, [op |-> op, about |-> about, from |-> c, open |-> TRUE])
  /\ asking' = [asking EXCEPT ![c] = op]
  /\ UNCHANGED <<ipc, reply>>

Waits(c, op) == asking[c] = op
Answered(c, op) == Waits(c, op) /\ reply[c] # NoOp

Hear(c) ==
  /\ asking' = [asking EXCEPT ![c] = "none"]
  /\ reply' = [reply EXCEPT ![c] = NoOp]
  /\ UNCHANGED <<line, ipc>>

\* The client's end of a connection closes; what was written stays.
Hangup(conn, cs) ==
  IF conn.op # "none" /\ conn.from \in cs THEN [conn EXCEPT !.open = FALSE] ELSE conn

Close(cs) ==
  /\ line' = [i \in DOMAIN line |-> Hangup(line[i], cs)]
  /\ ipc' = [ipc EXCEPT !.conn = Hangup(@, cs)]
  /\ asking' = [c \in Client |-> IF c \in cs THEN "none" ELSE asking[c]]
  /\ reply' = [c \in Client |-> IF c \in cs THEN NoOp ELSE reply[c]]

\* The two seconds of a bounded read pass only while the thread is held by
\* an authentication, or has just been.
Held == ipc.pc \in {"polkit", "answer"}

TimesOut(c) == asking[c] # "none" /\ Held /\ Close({c})

-----------------------------------------------------------------------------
\* The IPC thread

NoPins == [l \in Load |-> IF lease[l] = "revoked" THEN FALSE ELSE pin[l]]

\* write_response: it fails when the peer has closed.
Deliver(conn, answer) ==
  IF conn.open THEN reply' = [reply EXCEPT ![conn.from] = answer] ELSE UNCHANGED reply

Say(conn, answer) == Deliver(conn, answer) /\ ipc' = Accepting /\ UNCHANGED asking

Ok == [op |-> "ok"]
Refuse(error) == [op |-> "error", error |-> error]

\* A stopped child of the peer, waiting to become ssh-add
\* (verify_stopped_child_for_exec).
StoppedChild(l) == child[l] = "stopped" /\ broker[l] # "killed"

\* What the daemon meets, each time it looks, at the socket the child's environment
\* names: a listener that accepts within half a second, or none (connect_unix_timeout);
\* the user's own ssh-agent, or another program (verify_trusted_process_executable).
Listener == {"agent", "program", "none"}
Trusted(listener) == listener = "agent"

\* verify_stopped_child_for_exec and validate_agent_socket
Verified(l, listener) == StoppedChild(l) /\ Trusted(listener)

\* IpcServer::accept and the frame behind it; cleanup_terminal_agent_pins
\* precedes every request.
Accept(op) ==
  /\ ipc.pc = "accept" /\ line # <<>> /\ Head(line).op = op
  /\ line' = Tail(line)
  /\ pin' = NoPins

\* Requests that only list what is pending change nothing, and their clients
\* do nothing until they are answered: each is one step of its client, at a
\* moment when the thread is free (handle_pending_helper_poll,
\* handle_ssh_pending_list, handle_migration_pending_list).
Free == ipc.pc = "accept"

Migrations == pending \intersect scene.migrations

ServeEvents ==
  /\ Accept("events")
  /\ ipc' = [pc |-> "flush", conn |-> Head(line), answer |-> NoOp]
  /\ SendFlush
  /\ UNCHANGED <<scene, store, asking, reply, notifier, desk, loads, lease, unread>>

\* handle_events, once the flush is acknowledged
AnswerEvents ==
  /\ ipc.pc = "flush" /\ TakeFlushed
  /\ Say(ipc.conn, [op |-> "events", polled |-> Len(committed),
       page |-> IF ipc.conn.about = 0 THEN FirstPage ELSE PageAfter(ipc.conn.about)])
  /\ UNCHANGED <<channel, batch, committed, dropped, recorded, failures>>
  /\ UNCHANGED <<scene, store, line, notifier, desk, loads, grants, unread>>

\* handle_migration_resolve and handle_ssh_read_resolve with Block
ServeBlock ==
  /\ Accept("block")
  /\ LET r == Head(line).about IN
       /\ pending' = pending \ {r}
       /\ Say(Head(line), IF r \in pending THEN Ok ELSE Refuse("already resolved"))
  /\ UNCHANGED <<scene, arrived, notifier, desk, loads, lease, unread, audit>>

\* ... with Allow, and handle_ssh_load_authorize: facts first, then polkit,
\* unless the connection is closed by then (authorize_sensitive).
ServeSensitive(op, valid, error) ==
  /\ Accept(op)
  /\ IF valid /\ Head(line).open
       THEN ipc' = [pc |-> "polkit", conn |-> Head(line), answer |-> NoOp] /\ UNCHANGED <<asking, reply>>
       ELSE Say(Head(line), Refuse(error))
  /\ UNCHANGED <<scene, store, notifier, desk, loads, lease, unread, audit>>

ServeAllow == ServeSensitive("allow", Head(line).about \in pending, "already resolved")

ServeLoad == \E listener \in Listener :
  ServeSensitive("load", Verified(Head(line).from, listener), "invalid child")

\* The human refuses, a minute passes, or the peer is found closed.
PolkitEnds ==
  /\ ipc.pc = "polkit"
  /\ Say(ipc.conn, Refuse("denied"))
  /\ UNCHANGED <<scene, store, line, notifier, desk, loads, grants, unread, audit>>

\* The request is taken from its store, if it is still there.
PolkitAllows ==
  /\ ipc.pc = "polkit" /\ ipc.conn.open /\ ipc.conn.op = "allow"
  /\ LET r == ipc.conn.about IN
       /\ pending' = pending \ {r}
       /\ Say(ipc.conn, IF r \in pending THEN Ok ELSE Refuse("already resolved"))
  /\ UNCHANGED <<scene, arrived, line, notifier, desk, loads, grants, unread, audit>>

\* pin_verified_agent_endpoint: the socket is linked where only root can replace
\* it, and what listens there is verified as before.
Pin(l, listener) == Trusted(listener) /\ pin' = [pin EXCEPT ![l] = TRUE]

\* Child and agent are verified again, the socket is pinned, and then the lease
\* published; a pin that cannot be made leaves nothing behind.
PolkitLoads ==
  /\ ipc.pc = "polkit" /\ ipc.conn.open /\ ipc.conn.op = "load"
  /\ \E found, pinned \in Listener : LET l == ipc.conn.from IN
       \/ /\ Verified(l, found) /\ Pin(l, pinned)
          /\ lease' = [lease EXCEPT ![l] = "active"]
          /\ ipc' = [ipc EXCEPT !.pc = "answer", !.answer = [op |-> "lease"]]
          /\ UNCHANGED <<asking, reply>>
       \/ /\ ~Verified(l, found) \/ ~Trusted(pinned)
          /\ Say(ipc.conn, Refuse("child or agent changed"))
          /\ UNCHANGED grants
  /\ UNCHANGED <<scene, store, line, notifier, desk, loads, unread, audit>>

\* EnforcementEngine::revoke_lease and remove_agent_pin
Revoke(l) ==
  /\ lease' = [lease EXCEPT ![l] = IF @ = "active" THEN "revoked" ELSE @]
  /\ pin' = [pin EXCEPT ![l] = FALSE]

\* Mutant: a lease whose holder was never told of it stays.
RevokeUnreceivedNot(conn, answer) == UNCHANGED grants

\* revoke_unreceived_capability
RevokeUnreceived(conn, answer) ==
  IF answer.op = "lease" /\ ~conn.open THEN Revoke(conn.from) ELSE UNCHANGED grants

Answer ==
  /\ ipc.pc = "answer"
  /\ Say(ipc.conn, ipc.answer)
  /\ RevokeUnreceived(ipc.conn, ipc.answer)
  /\ UNCHANGED <<scene, store, line, notifier, desk, loads, unread, audit>>

\* handle_leases_revoke
ServeRevoke ==
  /\ ipc.pc = "accept" /\ line # <<>> /\ Head(line).op = "revoke"
  /\ line' = Tail(line)
  /\ Revoke(Head(line).about)
  /\ Say(Head(line), Ok)
  /\ UNCHANGED <<scene, store, notifier, desk, loads, unread, audit>>

-----------------------------------------------------------------------------
\* Requests come and go

Arrive(r) ==
  /\ r \in scene.requests \ arrived
  /\ pending' = pending \union {r} /\ arrived' = arrived \union {r}
  /\ UNCHANGED <<scene, wire, notifier, desk, loads, grants, unread, audit>>

\* Its time is over, or it is swept with a sibling's approval.
Leave(r) ==
  /\ r \in pending
  /\ pending' = pending \ {r}
  /\ UNCHANGED <<scene, arrived, wire, notifier, desk, loads, grants, unread, audit>>

Decide(decision) ==
  /\ recorded < scene.records
  /\ Record(decision)
  /\ UNCHANGED <<scene, store, wire, notifier, desk, loads, grants, unread>>

Write ==
  /\ Writer
  /\ UNCHANGED <<scene, store, wire, notifier, desk, loads, grants, unread>>
-----------------------------------------------------------------------------
\* guard-notify

NewNotifier ==
  [attempts |-> [r \in Request |-> 0], ready |-> {}, last |-> None,
   since |-> 0, polled |-> 0, examined |-> {}, overrun |-> {}]

\* run_linux asks for the events, then for what is pending, and sleeps.
NotifierAsks ==
  /\ scene.notify /\ scene.records > 0 /\ asking["notify"] = "none"
  /\ Ask("notify", "events", 0)
  /\ UNCHANGED <<scene, store, notifier, desk, loads, grants, unread, audit>>

\* The first answer is the baseline, zero if it is empty.
Baseline(page) == IF page = <<>> THEN 0 ELSE Head(page)

\* Denials with a higher id than the last one seen are notified.
NotifierHearsEvents ==
  /\ Answered("notify", "events")
  /\ LET page == reply["notify"].page
         polled == reply["notify"].polled IN
       notifier' = IF notifier.last = None
         THEN [notifier EXCEPT !.last = Baseline(page), !.since = polled, !.polled = polled]
         ELSE [notifier EXCEPT
                !.last = IF page = <<>> THEN @ ELSE Max({@, Head(page)}),
                !.examined = @ \union {i \in Range(page) : i > notifier.last},
                !.overrun = @ \union {i \in 1..polled : i > notifier.polled /\ i + Limit <= polled},
                !.polled = polled]
  /\ Hear("notify")
  /\ UNCHANGED <<scene, store, desk, loads, grants, unread, audit>>

\* PENDING_ACTIVATION_RETRY_DELAY has passed.
Delay(r) ==
  /\ notifier.attempts[r] \in 1..(MaxActivations - 1) /\ r \notin notifier.ready
  /\ notifier' = [notifier EXCEPT !.ready = @ \union {r}]
  /\ UNCHANGED <<scene, store, wire, desk, loads, grants, unread, audit>>

NoWindow ==
  [win |-> FALSE, busy |-> FALSE, todo |-> <<>>, ssh |-> {}, mig |-> {}, failed |-> {},
   page |-> <<>>]

\* build_ui: a window that is there is presented, else one is built.
ActivateGuardUi ==
  IF ui.win THEN UNCHANGED desk
  ELSE /\ ui' = [NoWindow EXCEPT !.win = TRUE]
       /\ UNCHANGED <<dialog, log, allows>>

\* LinuxPendingObserver::observe
NotifierPolls ==
  /\ scene.notify /\ Free
  /\ LET due == {r \in pending : notifier.attempts[r] = 0 \/ r \in notifier.ready} IN
       /\ notifier' = [notifier EXCEPT
            !.attempts = [r \in Request |->
              IF r \notin pending THEN 0
              ELSE notifier.attempts[r] + (IF r \in due THEN 1 ELSE 0)],
            !.ready = (@ \intersect pending) \ due]
       /\ IF due # {} THEN ActivateGuardUi ELSE UNCHANGED desk
  /\ UNCHANGED <<scene, store, wire, loads, grants, unread, audit>>

\* The service is restarted; all it knew is gone.
NotifierRestarts ==
  /\ scene.restarts /\ notifier # NewNotifier
  /\ notifier' = NewNotifier
  /\ Close({"notify"})
  /\ scene' = [scene EXCEPT !.restarts = FALSE]
  /\ UNCHANGED <<store, desk, loads, grants, unread, audit>>

-----------------------------------------------------------------------------
\* guard-ui

\* refresh_state, unless one is in flight: the worker asks for the events and
\* for both lists, one after the other.
PollStarts ==
  /\ ui.win /\ ~ui.busy
  /\ ui' = [NoWindow EXCEPT !.win = TRUE, !.busy = TRUE, !.todo = scene.polls]
  /\ UNCHANGED <<scene, store, wire, notifier, dialog, log, allows, loads, grants, unread, audit>>

PollAsks ==
  /\ ui.todo # <<>> /\ Head(ui.todo) = "events" /\ asking["poll"] = "none"
  /\ Ask("poll", "events", IF log = <<>> THEN 0 ELSE Head(log))
  /\ UNCHANGED <<scene, store, notifier, desk, loads, grants, unread, audit>>

PollHears ==
  /\ Answered("poll", "events")
  /\ ui' = [ui EXCEPT !.todo = Tail(@), !.page = reply["poll"].page]
  /\ Hear("poll")
  /\ UNCHANGED <<scene, store, notifier, dialog, log, allows, loads, grants, unread, audit>>

PollLists ==
  /\ ui.todo # <<>> /\ Free
  /\ \/ /\ Head(ui.todo) = "ssh"
        /\ ui' = [ui EXCEPT !.todo = Tail(@), !.ssh = pending \ Migrations]
     \/ /\ Head(ui.todo) = "mig"
        /\ ui' = [ui EXCEPT !.todo = Tail(@), !.mig = Migrations]
  /\ UNCHANGED <<scene, store, wire, notifier, dialog, log, allows, loads, grants, unread, audit>>

PollTimesOut ==
  /\ ui.todo # <<>> /\ Held
  /\ ui' = [ui EXCEPT !.todo = Tail(@), !.failed = @ \union {Head(ui.todo)}]
  /\ Close({"poll"})
  /\ UNCHANGED <<scene, store, notifier, dialog, log, allows, loads, grants, unread, audit>>

CloseWindow ==
  /\ ui' = NoWindow /\ dialog' = NoDialog /\ log' = <<>>
  /\ UNCHANGED allows

\* Both lists were answered.
Complete == ui.failed \intersect {"ssh", "mig"} = {}

\* What the poll brought, in the order the daemon listed it.
Known(listing) ==
  ActivateNext(IF Complete THEN ReconcileSnapshot(dialog, listing) ELSE Reconcile(dialog, listing))

\* A pending-only window goes with its last prompt (should_close_pending_window).
NothingLeft(d) == scene.pendingOnly /\ Empty(d)

PollApplies == \E migrations \in Listings(ui.mig), reads \in Listings(ui.ssh) :
  LET d == Known(migrations \o reads) IN
  /\ ui.busy /\ ui.todo = <<>>
  /\ IF Complete /\ NothingLeft(d) THEN CloseWindow
     ELSE /\ dialog' = d
          /\ log' = ui.page \o log
          /\ ui' = [NoWindow EXCEPT !.win = TRUE]
          /\ UNCHANGED allows
  /\ UNCHANGED <<scene, store, wire, notifier, loads, grants, unread, audit>>

\* present_pending_dialog's responses; closing the dialog is Block.
Click(op) ==
  /\ dialog.state = "choice"
  /\ dialog' = Begin(dialog)
  /\ Ask("resolve", op, dialog.active)
  /\ UNCHANGED <<scene, store, notifier, ui, log, loads, grants, unread, audit>>

ClickAllow == allows < scene.maxAllows /\ Click("allow") /\ allows' = allows + 1
ClickBlock == Click("block") /\ UNCHANGED allows

\* pending_error_is_terminal; none of guardd's messages contains these.
Terminal(error) == error \in {"timed_out", "timed out", "already_resolved"}

ShouldRetry(op, answer) == op = "allow" /\ answer.op = "error" /\ ~Terminal(answer.error)

\* retry_pending_dialog
ResolveFails ==
  /\ Answered("resolve", asking["resolve"])
  /\ ShouldRetry(asking["resolve"], reply["resolve"])
  /\ dialog' = Retry(dialog)
  /\ Hear("resolve")
  /\ UNCHANGED <<scene, store, notifier, ui, log, allows, loads, grants, unread, audit>>

\* complete_pending_dialog
ResolveCompletes ==
  /\ Answered("resolve", asking["resolve"])
  /\ ~ShouldRetry(asking["resolve"], reply["resolve"])
  /\ LET d == Released(dialog) IN
       IF NothingLeft(d) THEN CloseWindow /\ Close({"resolve", "poll"})
       ELSE dialog' = ActivateNext(d) /\ Hear("resolve") /\ UNCHANGED <<ui, log, allows>>
  /\ UNCHANGED <<scene, store, notifier, loads, grants, unread, audit>>

-----------------------------------------------------------------------------
\* guardctl ssh load

Idle == <<scene, store, notifier, desk, audit>>

\* spawn_stopped_ssh_add: the child stops itself before it is anything else.
Fork(l) ==
  /\ l \in scene.loads /\ broker[l] = "idle"
  /\ broker' = [broker EXCEPT ![l] = "forked"] /\ child' = [child EXCEPT ![l] = "forked"]
  /\ UNCHANGED <<Idle, wire, grants, unread>>

ChildStops(l) ==
  /\ child[l] = "forked"
  /\ child' = [child EXCEPT ![l] = "stopped"]
  /\ UNCHANGED <<Idle, wire, broker, grants, unread>>

\* reap_child: nothing is left that could be resumed.
Reap(l, next) ==
  /\ broker' = [broker EXCEPT ![l] = next]
  /\ child' = [child EXCEPT ![l] = "gone"]

\* Mutant: a transport failure leaves the child as it is.
ReapLater(l) == broker' = [broker EXCEPT ![l] = "failed"] /\ UNCHANGED child

\* The request for a lease cannot be made or heard.
ReapFailed(l) == Reap(l, "failed")

\* wait_for_stop, and the request
BrokerAsks(l) ==
  /\ broker[l] = "forked" /\ child[l] = "stopped"
  /\ broker' = [broker EXCEPT ![l] = "asking"]
  /\ Ask(l, "load", None)
  /\ UNCHANGED <<Idle, child, grants, unread>>

WaitForStopFails(l) ==
  /\ broker[l] = "forked" /\ child[l] = "gone"
  /\ Reap(l, "failed")
  /\ UNCHANGED <<Idle, wire, grants, unread>>

BrokerHears(l) ==
  /\ broker[l] = "asking" /\ Answered(l, "load")
  /\ IF reply[l].op = "lease"
       THEN broker' = [broker EXCEPT ![l] = "supply"] /\ UNCHANGED child
       ELSE Reap(l, "failed")
  /\ Hear(l)
  /\ UNCHANGED <<Idle, grants, unread>>

\* The answer may come between the end of the read and that of the connection.
BrokerTimesOut(l) ==
  /\ broker[l] = "asking"
  /\ \/ TimesOut(l)
     \/ reply[l] # NoOp /\ Close({l})
  /\ ReapFailed(l)
  /\ unread' = IF reply[l] # NoOp /\ reply[l].op = "lease" THEN unread \union {l} ELSE unread
  /\ UNCHANGED <<Idle, grants>>

\* provide_verified_agent_socket and continue_child
BrokerSupplies(l) ==
  /\ broker[l] = "supply"
  /\ IF child[l] = "stopped"
       THEN broker' = [broker EXCEPT ![l] = "continue"] /\ child' = [child EXCEPT ![l] = "supplied"]
       ELSE Reap(l, "revoke")
  /\ UNCHANGED <<Idle, wire, grants, unread>>

BrokerContinues(l) ==
  /\ broker[l] = "continue"
  /\ broker' = [broker EXCEPT ![l] = "wait"]
  /\ child' = [child EXCEPT ![l] = IF @ = "supplied" THEN "running" ELSE @]
  /\ UNCHANGED <<Idle, wire, grants, unread>>

\* ssh-add ends by itself.
ChildExits(l) ==
  /\ child[l] = "running"
  /\ child' = [child EXCEPT ![l] = "gone"]
  /\ UNCHANGED <<Idle, wire, broker, grants, unread>>

\* waitpid_exit
BrokerWaits(l) ==
  /\ broker[l] = "wait" /\ child[l] = "gone"
  /\ broker' = [broker EXCEPT ![l] = "revoke"]
  /\ UNCHANGED <<Idle, wire, child, grants, unread>>

\* revoke_lease_best_effort
BrokerRevokes(l) ==
  /\ broker[l] = "revoke"
  /\ broker' = [broker EXCEPT ![l] = "revoking"]
  /\ Ask(l, "revoke", l)
  /\ UNCHANGED <<Idle, child, grants, unread>>

BrokerReturns(l) ==
  /\ broker[l] = "revoking"
  /\ (Answered(l, "revoke") /\ Hear(l)) \/ TimesOut(l)
  /\ broker' = [broker EXCEPT ![l] = "done"]
  /\ UNCHANGED <<Idle, child, grants, unread>>

\* Somebody kills the child, or guardctl.
ChildDies(l) ==
  /\ scene.kills /\ child[l] \in {"forked", "stopped", "supplied", "running"}
  /\ scene' = [scene EXCEPT !.kills = FALSE]
  /\ child' = [child EXCEPT ![l] = "gone"]
  /\ UNCHANGED <<store, notifier, desk, audit, wire, broker, grants, unread>>

BrokerDies(l) ==
  /\ scene.kills /\ broker[l] \notin {"idle", "failed", "done", "killed"}
  /\ scene' = [scene EXCEPT !.kills = FALSE]
  /\ broker' = [broker EXCEPT ![l] = "killed"]
  /\ unread' = IF reply[l] # NoOp /\ reply[l].op = "lease" THEN unread \union {l} ELSE unread
  /\ Close({l})
  /\ UNCHANGED <<store, notifier, desk, audit, child, grants>>

\* A child that reads no agent path before the end of the pipe exits.
OrphanRuns(l) == child' = [child EXCEPT ![l] = IF @ = "supplied" THEN "running" ELSE "gone"]

\* The kernel, or the user, resumes a child that lost its broker.
OrphanResumes(l) ==
  /\ broker[l] = "killed" /\ child[l] \in {"stopped", "supplied"}
  /\ OrphanRuns(l)
  /\ UNCHANGED <<Idle, wire, broker, grants, unread>>

-----------------------------------------------------------------------------
Init ==
  /\ scene \in Scenario
  /\ pending = {} /\ arrived = {}
  /\ line = <<>> /\ ipc = Accepting
  /\ asking = [c \in Client |-> "none"] /\ reply = [c \in Client |-> NoOp]
  /\ notifier = NewNotifier
  /\ ui = [NoWindow EXCEPT !.win = ~scene.pendingOnly]
  /\ dialog = NoDialog /\ log = <<>> /\ allows = 0
  /\ broker = [l \in Load |-> "idle"] /\ child = [l \in Load |-> "none"]
  /\ lease = [l \in Load |-> "none"] /\ pin = [l \in Load |-> FALSE]
  /\ unread = {}
  /\ AuditInit

Ipc ==
  \/ ServeEvents
  \/ AnswerEvents
  \/ ServeBlock
  \/ ServeAllow
  \/ ServeLoad
  \/ ServeRevoke
  \/ PolkitEnds
  \/ PolkitAllows
  \/ PolkitLoads
  \/ Answer

Notify ==
  \/ NotifierAsks
  \/ NotifierHearsEvents
  \/ NotifierPolls

Poll ==
  \/ PollStarts
  \/ PollAsks
  \/ PollHears
  \/ PollLists
  \/ PollTimesOut
  \/ PollApplies

Resolve ==
  \/ ResolveFails
  \/ ResolveCompletes

Broker(l) ==
  \/ ChildStops(l)
  \/ BrokerAsks(l)
  \/ WaitForStopFails(l)
  \/ BrokerHears(l)
  \/ BrokerTimesOut(l)
  \/ BrokerSupplies(l)
  \/ BrokerContinues(l)
  \/ ChildExits(l)
  \/ BrokerWaits(l)
  \/ BrokerRevokes(l)
  \/ BrokerReturns(l)

Environment ==
  \/ \E r \in Request : Arrive(r) \/ Leave(r)
  \/ \E decision \in Decision : Decide(decision)
  \/ NotifierRestarts
  \/ ClickAllow
  \/ \E l \in Load : Fork(l) \/ ChildDies(l) \/ BrokerDies(l) \/ OrphanResumes(l)

Next ==
  \/ Ipc
  \/ Write
  \/ Notify
  \/ \E r \in Request : Delay(r)
  \/ Poll
  \/ Resolve
  \/ ClickBlock
  \/ \E l \in Load : Broker(l)
  \/ Environment

-----------------------------------------------------------------------------
\* The notifier has opened guard-ui for r as often as it will, and it is
\* closed: three times on Linux, on macOS once for an id.
GivenUp(r) ==
  /\ ~ui.win
  /\ IF scene.system = "linux" THEN notifier.attempts[r] = MaxActivations
     ELSE \E q \in Request : Session[q] = Session[r] /\ notifier.attempts[q] > 0

\* A request that stays pending is prompted for, itself or another of its
\* session: neither a window that goes with its last prompt, nor polls that
\* fail while somebody authenticates, nor a restarted notifier loses it
\* before the notifier has tried three times; and a window that is open shows
\* it in any case (LinuxPendingObserver, refresh_state, complete_pending_dialog).
EveryPromptShown == \A r \in Request :
  r \in pending ~>
    \/ r \notin pending
    \/ dialog.active # None /\ Session[dialog.active] = Session[r]
    \/ GivenUp(r)

Returned(l) == broker[l] \in {"failed", "done"}

\* When guardctl ssh load returns, the lease it asked for ends, although it
\* waits for the revocation, and for the lease itself, for two seconds only:
\* what it sent is read later, and a lease that could not be delivered is
\* taken back.  A lease that arrives just as guardctl stops reading is not.
LoadLeasesEnd == \A l \in Load :
  (Returned(l) /\ l \notin unread) ~> (lease[l] # "active")

\* ssh-add never runs without a lease, and no child outlives the command that
\* forked it, stopped or not (run_ssh_load's error paths, the pipe's end).
NoStrandedChild == \A l \in Load :
  /\ child[l] = "running" => lease[l] # "none"
  /\ Returned(l) => child[l] = "gone"

\* Between the oldest and the newest event it shows, the log shows every
\* visible one the store still has (refresh_state's cursor), and the notifier
\* examined every denial since its baseline but those a full page hid
\* (run_linux's last_seen).
FeedsAreComplete ==
  /\ log # <<>> =>
       \A i \in Visible(Ids) : i \in Min(Range(log))..Max(Range(log)) => i \in Range(log)
  /\ notifier.last # None =>
       \A i \in Visible((notifier.since + 1)..notifier.polled) :
         i \in notifier.examined \union notifier.overrun
=============================================================================
