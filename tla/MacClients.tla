---------------------------- MODULE MacClients --------------------------------
(***************************************************************************)
(* The same clients on macOS, where the extension serves every connection  *)
(* at once and the client authenticates the user before it asks            *)
(* (crates/platform-macos/src/xpc.rs, local_auth.rs, native/macos,         *)
(* crates/guard-client/src/macos.rs; apps/guard-es/src/service.rs serves). *)
(*                                                                         *)
(* guard-ui's window and dialog, the polls and the user are those of       *)
(* Clients; line holds the messages no handler has taken up.  A request's  *)
(* key is its id, which the extension counts from one each time it starts, *)
(* so that Session stands for the id here: two requests with one key come  *)
(* from two lives of the extension.                                        *)
(***************************************************************************)
EXTENDS Clients

CONSTANT MaxConcurrent    \* MAX_CONCURRENT_REQUESTS

\* The limit is an unsigned number.
ASSUME SlotAssumption == MaxConcurrent \in Nat

VARIABLES
  inside,           \* requests the server has entered and not left
  active,           \* active_requests
  panel,            \* the system's authentication panel, per asker
  over,             \* deadlines that have passed: of requests, and of guardctl
  extension,        \* what the extension has given out, and whether it runs on
  answered          \* history: <<the request asked about, the one answered>>

macServer == <<inside, active>>
macUser == <<panel, over>>
macVars == <<macServer, macUser, extension, answered>>

Asker == {"resolve", "cli"}

NewExtension(life) == [life |-> life, issued |-> {}, born |-> [r \in Request |-> 0], frozen |-> FALSE]

\* A list is asked for, served and heard in one step, if the extension gets
\* on and has a slot free.
Serves == ~extension.frozen /\ active < MaxConcurrent

Deadline(c) == IF c = "cli" THEN "cli" ELSE dialog.active
Late(c) == Deadline(c) \in over

-----------------------------------------------------------------------------
\* The client: authenticate, see what time is left, send

\* An error that comes from the client itself.
Fails(c, op, error) ==
  /\ asking' = [asking EXCEPT ![c] = op]
  /\ reply' = [reply EXCEPT ![c] = Refuse(error)]
  /\ UNCHANGED <<line, ipc>>

Sensitive(c) == IF c = "cli" THEN "protect" ELSE "allow"

Show(c) == panel' = [panel EXCEPT ![c] = "shown"]
Drop(c) == panel' = [panel EXCEPT ![c] = "none"]

\* resolve_pending with allow; the panel is guard_local_authenticate's.
MacClickAllow ==
  /\ dialog.state = "choice" /\ allows < scene.maxAllows
  /\ dialog' = Begin(dialog) /\ allows' = allows + 1
  /\ IF Late("resolve") THEN Fails("resolve", "allow", "timed out") /\ UNCHANGED panel
     ELSE Show("resolve") /\ UNCHANGED wire
  /\ UNCHANGED <<scene, store, notifier, ui, log, loads, grants, unread, audit>>
  /\ UNCHANGED <<macServer, over, extension, answered>>

\* request_from_signed_cli, for guardctl ssh protect
CliStarts ==
  /\ scene.cli
  /\ scene' = [scene EXCEPT !.cli = FALSE]
  /\ Show("cli")
  /\ UNCHANGED <<store, wire, notifier, desk, loads, grants, unread, audit>>
  /\ UNCHANGED <<macServer, over, extension, answered>>

Elsewhere == <<scene, store, notifier, desk, loads, grants, unread, audit>>

PanelPasses(c) ==
  /\ panel[c] = "shown"
  /\ panel' = [panel EXCEPT ![c] = "passed"]
  /\ UNCHANGED <<Elsewhere, wire, macServer, over, extension, answered>>

\* Cancelled, failed, or no way to authenticate.
PanelRefuses(c) ==
  /\ panel[c] = "shown" /\ Drop(c)
  /\ Fails(c, Sensitive(c), "denied")
  /\ UNCHANGED <<Elsewhere, macServer, over, extension, answered>>

\* The semaphore's time is over, and the panel is taken away.
PanelTimesOut(c) ==
  /\ panel[c] = "shown" /\ Late(c) /\ Drop(c)
  /\ Fails(c, Sensitive(c), "timed out")
  /\ UNCHANGED <<Elsewhere, macServer, over, extension, answered>>

\* MacGuardClient::sensitive: what the panel left of the time is the limit of
\* the exchange.
Send(c) ==
  /\ panel[c] = "passed" /\ Drop(c)
  /\ IF Late(c) THEN Fails(c, Sensitive(c), "timed out")
     ELSE Ask(c, Sensitive(c), Deadline(c))
  /\ UNCHANGED <<Elsewhere, macServer, over, extension, answered>>

\* Mutant: the exchange after an authentication has no limit of its own.
TimeIsUpForLists(c) == asking[c] = "block" /\ extension.frozen

\* guard_xpc_request's semaphore: two seconds, or up to the deadline.
TimeIsUp(c) == IF asking[c] = Sensitive(c) THEN Late(c) ELSE extension.frozen

MacTimesOut(c) ==
  /\ asking[c] # "none" /\ reply[c] = NoOp /\ TimeIsUp(c)
  /\ reply' = [reply EXCEPT ![c] = Refuse("timed out")]
  /\ line' = [i \in DOMAIN line |-> Hangup(line[i], {c})]
  /\ inside' = [i \in DOMAIN inside |-> [inside[i] EXCEPT !.conn = Hangup(@, {c})]]
  /\ UNCHANGED <<Elsewhere, ipc, asking, active, macUser, extension, answered>>

CliReturns ==
  /\ Answered("cli", "protect") /\ Hear("cli")
  /\ UNCHANGED <<Elsewhere, macVars>>

-----------------------------------------------------------------------------
\* The server: every message on a thread of its own

\* GuardHandleRequest counts itself in before it looks whether there is room.
Enter == \E i \in DOMAIN line :
  /\ ~extension.frozen
  /\ line' = RemoveAt(line, i)
  /\ active' = active + 1
  /\ inside' = Append(inside,
       [conn |-> line[i], stage |-> IF active >= MaxConcurrent THEN "refuse" ELSE "handle"])
  /\ UNCHANGED <<Elsewhere, ipc, asking, reply, macUser, extension, answered>>

Out(i) == inside' = RemoveAt(inside, i) /\ active' = active - 1

\* Mutant: the way out that finds no room keeps its count.
OutUncounted(i) == inside' = RemoveAt(inside, i) /\ UNCHANGED active

\* ... and counts itself out again.
TurnAway(i) == Out(i)

NoRoom == \E i \in DOMAIN inside :
  /\ ~extension.frozen /\ inside[i].stage = "refuse"
  /\ TurnAway(i)
  /\ Deliver(inside[i].conn, Refuse("concurrency limit"))
  /\ UNCHANGED <<Elsewhere, line, ipc, asking, macUser, extension, answered>>

\* The request with this id, if it is still there.
Meant(r) == {q \in pending : Session[q] = Session[r]}

\* ControlHandler::handle, and the reply
Handle == \E i \in DOMAIN inside :
  LET conn == inside[i].conn IN
  /\ ~extension.frozen /\ inside[i].stage = "handle"
  /\ inside' = [inside EXCEPT ![i].stage = "leave"]
  /\ IF conn.op = "protect" THEN Deliver(conn, Ok) /\ UNCHANGED <<pending, answered>>
     ELSE /\ pending' = pending \ Meant(conn.about)
          /\ answered' = answered \union ({conn.about} \X Meant(conn.about))
          /\ Deliver(conn, IF Meant(conn.about) = {} THEN Refuse("already_resolved") ELSE Ok)
  /\ UNCHANGED <<scene, arrived, notifier, desk, loads, grants, unread, audit>>
  /\ UNCHANGED <<line, ipc, asking, active, macUser, extension>>

Depart == \E i \in DOMAIN inside :
  /\ ~extension.frozen /\ inside[i].stage = "leave"
  /\ Out(i)
  /\ UNCHANGED <<Elsewhere, wire, macUser, extension, answered>>

-----------------------------------------------------------------------------
\* The extension and its requests

\* Mutant: an id is free again when its request is gone.
FreshIdReused(r) == \A q \in pending : Session[q] # Session[r]

\* enqueue_with_timeout: ids are counted up.
FreshId(r) == Session[r] \notin extension.issued

MacArrive(r) ==
  /\ r \in scene.requests \ arrived /\ FreshId(r)
  /\ pending' = pending \union {r} /\ arrived' = arrived \union {r}
  /\ extension' = [extension EXCEPT !.issued = @ \union {Session[r]}, !.born[r] = extension.life]
  /\ UNCHANGED <<scene, wire, notifier, desk, loads, grants, unread, audit>>
  /\ UNCHANGED <<macServer, macUser, answered>>

\* The deadline of a request, by everybody's clock; or guardctl's minute.
Expire(r) ==
  /\ r \notin over /\ IF r = "cli" THEN panel["cli"] # "none" \/ asking["cli"] # "none" ELSE r \in arrived
  /\ over' = over \union {r}
  /\ pending' = pending \ {r}
  /\ UNCHANGED <<scene, arrived, notifier, desk, loads, grants, unread, audit, wire>>
  /\ UNCHANGED <<macServer, panel, extension, answered>>

\* The extension does not get on for a while.
Freeze ==
  /\ scene.stalls
  /\ scene' = [scene EXCEPT !.stalls = FALSE]
  /\ extension' = [extension EXCEPT !.frozen = TRUE]
  /\ UNCHANGED <<store, wire, notifier, desk, loads, grants, unread, audit>>
  /\ UNCHANGED <<macServer, macUser, answered>>

Thaw ==
  /\ extension.frozen
  /\ extension' = [extension EXCEPT !.frozen = FALSE]
  /\ UNCHANGED <<Elsewhere, wire, macServer, macUser, answered>>

\* A new process replaces it: what was pending is gone, connections fail.
ExtensionRestarts ==
  /\ scene.crashes
  /\ scene' = [scene EXCEPT !.crashes = FALSE]
  /\ extension' = [NewExtension(extension.life + 1) EXCEPT !.born = extension.born]
  /\ pending' = {} /\ line' = <<>> /\ inside' = <<>> /\ active' = 0
  /\ reply' = [c \in Client |->
       IF asking[c] # "none" /\ reply[c] = NoOp THEN Refuse("connection failed") ELSE reply[c]]
  /\ UNCHANGED <<arrived, ipc, asking, notifier, desk, loads, grants, unread, audit>>
  /\ UNCHANGED <<macUser, answered>>

-----------------------------------------------------------------------------
\* guard-notify and guard-ui's polls

\* PendingObserver::observe activates guard-ui once, for a key it did not see
\* in the poll before.
MacNotifierPolls ==
  /\ scene.notify /\ Serves
  /\ LET seen == {Session[r] : r \in {q \in Request : notifier.attempts[q] > 0}} IN
       /\ notifier' = [notifier EXCEPT !.attempts = [r \in Request |-> IF r \in pending THEN 1 ELSE 0]]
       /\ IF \E r \in pending : Session[r] \notin seen THEN ActivateGuardUi ELSE UNCHANGED desk
  /\ UNCHANGED <<scene, store, wire, loads, grants, unread, audit, macVars>>

\* Rows after the cursor; the extension hides none.
MacPage == IF notifier.last = None THEN Newest(Ids) ELSE Oldest({i \in Ids : i > notifier.last})

\* MacEventObserver::observe: the first page that is not empty is the
\* baseline.  Rows pruned before they were asked for are overrun.
MacNotifierReads ==
  /\ scene.notify /\ Serves /\ MacPage # {}
  /\ LET newest == Max(MacPage) IN
       notifier' = IF notifier.last = None
         THEN [notifier EXCEPT !.last = newest, !.since = newest, !.polled = newest]
         ELSE [notifier EXCEPT !.last = newest, !.polled = newest,
                !.examined = @ \union MacPage,
                !.overrun = @ \union ((notifier.last + 1)..Pruned)]
  /\ UNCHANGED <<scene, store, wire, desk, loads, grants, unread, audit, macVars>>

MacPollLists ==
  /\ ui.todo # <<>> /\ Serves
  /\ ui' = IF Head(ui.todo) = "ssh"
       THEN [ui EXCEPT !.todo = Tail(@), !.ssh = pending \ Migrations]
       ELSE [ui EXCEPT !.todo = Tail(@), !.mig = Migrations]
  /\ UNCHANGED <<scene, store, wire, notifier, dialog, log, allows, loads, grants, unread, audit, macVars>>

MacPollFails ==
  /\ ui.todo # <<>> /\ ~Serves
  /\ ui' = [ui EXCEPT !.todo = Tail(@), !.failed = @ \union {Head(ui.todo)}]
  /\ UNCHANGED <<scene, store, wire, notifier, dialog, log, allows, loads, grants, unread, audit, macVars>>

-----------------------------------------------------------------------------
MacInit ==
  /\ inside = <<>> /\ active = 0
  /\ panel = [c \in Asker |-> "none"] /\ over = {}
  /\ extension = NewExtension(1) /\ answered = {}

-----------------------------------------------------------------------------
\* The count of requests inside is true whichever way one leaves, so that it
\* neither lets more than the limit run nor refuses for ever, although it is
\* raised before it is compared (GuardHandleRequest).
SlotsAreCounted ==
  /\ active = Len(inside)
  /\ Cardinality({i \in DOMAIN inside : inside[i].stage # "refuse"}) <= MaxConcurrent

\* An answer goes to the request it was given for: after any number of
\* timeouts, retries and late deliveries the id in it names that request or
\* none.  Only when the extension was started anew in between does it name
\* another, for ids are counted from one again (enqueue_with_timeout).
AnswersMeetTheirRequest == \A pair \in answered :
  \/ pair[1] = pair[2]
  \/ extension.born[pair[1]] < extension.born[pair[2]]
=============================================================================
