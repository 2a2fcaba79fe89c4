--------------------------- MODULE MacPermission -----------------------------
(***************************************************************************)
(* The life of a protected AUTH_OPEN message in the macOS extension, from  *)
(* the Endpoint Security callback that retains it to the one response it   *)
(* gets (crates/platform-macos: endpoint_security.rs, pending.rs and       *)
(* deadline.rs).  Four kinds of threads race for that response: the        *)
(* callback (which drops what it cannot hand over), the main loop that     *)
(* owns the backend, the XPC threads that resolve what the user answered,  *)
(* and the deadline thread.  They meet in one compare-and-exchange on      *)
(* terminal, and the winner responds in a later step of its own.           *)
(***************************************************************************)
EXTENDS Naturals, Sequences, FiniteSets

CONSTANTS
  Message,          \* the protected AUTH_OPEN messages of a behaviour
  NoMessage,        \* none of them
  Requested,        \* the FFLAGS each asks for
  Deadline,         \* when the kernel stops waiting for each
  Xpc,              \* the threads that serve XPC requests
  MaxPending,       \* MAX_PENDING_AUTHORIZATIONS
  Margin,           \* SAFETY_MARGIN
  MinInteractive,   \* MIN_INTERACTIVE_BUDGET
  PromptCap,        \* PRODUCT_MAX_PROMPT_CAP
  Slack,            \* how long a thread that has work may be kept from it
  MainSlack,        \* how long an event may wait for the main loop and its prompt
                    \* still end in time
  MaxNow            \* bound: the behaviours last this long

Flag == {"read", "write"}

\* A command of the channel that is not a permission to schedule.
Shutdown == [msg |-> NoMessage, due |-> 0]

ASSUME MessageAssumption ==
  /\ Requested \in [Message -> SUBSET Flag]
  /\ Deadline \in [Message -> Nat]
  /\ {MaxPending, MaxNow} \subseteq Nat \ {0}
  /\ {Margin, MinInteractive, PromptCap, Slack, MainSlack} \subseteq Nat
  /\ NoMessage \notin Message
  /\ Xpc \cap {"callback", "main", "deadline", "none", "new", "queue", "store", "gone"} = {}

\* How late a thread may be for its work to be in time all the same: SAFETY_MARGIN
\* is there for three of them in a row, or for the main loop.
ASSUME SlackAssumption ==
  3 * Slack <= Margin /\ MainSlack <= Margin

Thread == {"callback", "main", "deadline"} \union Xpc

VARIABLES
  now,
  terminal,         \* 0 unresolved, 1 allow won, 2 deny won
  owner,            \* who holds the permission, "new" before and "gone" after
  winner,           \* the thread that has yet to respond, and since when
  granted,          \* the flags the winner will respond with
  replies,          \* the responses given to the kernel
  callback,         \* the callback in progress
  registry,         \* the permissions the backend will deny when it stops
  channel,          \* commands on their way to the deadline thread
  scheduled,        \* the permissions it watches, with their deadlines
  deadline,         \* "running", "draining" or "stopped"
  queue,            \* authorization events on their way to the main loop
  prompt,           \* until when the user may answer, 0 if never asked
  main              \* where the thread that owns the backend is, and what it
                    \* has left to deny

permission == <<terminal, winner, granted>>
scheduler == <<channel, scheduled, deadline>>
vars == <<now, permission, owner, replies, callback, registry, scheduler,
          queue, prompt, main>>

Idle == [pc |-> "idle"]
NoWinner == [by |-> "none", at |-> 0]

Busy(t) == \E m \in Message : winner[m].by = t

Init ==
  /\ now = 0
  /\ terminal = [m \in Message |-> 0]
  /\ owner = [m \in Message |-> "new"]
  /\ winner = [m \in Message |-> NoWinner]
  /\ granted = [m \in Message |-> {}]
  /\ replies = [m \in Message |-> <<>>]
  /\ callback = Idle
  /\ registry = {}
  /\ channel = <<>> /\ scheduled = {} /\ deadline = "running"
  /\ queue = <<>>
  /\ prompt = [m \in Message |-> 0]
  /\ main = [pc |-> "starting", deny |-> {}]

-----------------------------------------------------------------------------
(***************************************************************************)
(* deadline.rs                                                             *)
(***************************************************************************)
Monus(a, b) == IF a > b THEN a - b ELSE 0

\* Mutant: the response is due when the kernel stops waiting.
ResponseBudgetWhole(m) == Monus(Deadline[m], now)

\* 0 stands for an insufficient deadline.
ResponseBudget(m) == Monus(Monus(Deadline[m], now), Margin)

\* Mutant: a prompt may last as long as the kernel waits.
InteractiveBudgetWhole(m) ==
  LET usable == Monus(Deadline[m], now)
      effective == IF usable < PromptCap THEN usable ELSE PromptCap
  IN  IF effective <= MinInteractive THEN 0 ELSE effective

InteractiveBudget(m) ==
  LET usable == Monus(Monus(Deadline[m], now), Margin)
      effective == IF usable < PromptCap THEN usable ELSE PromptCap
  IN  IF effective <= MinInteractive THEN 0 ELSE effective

-----------------------------------------------------------------------------
(***************************************************************************)
(* PendingInner::resolve_flags: the exchange, and the response after it.   *)
(***************************************************************************)

\* Mutant: a plain store instead of a compare-and-exchange.
ClaimUnchecked(t, m, flags) ==
  /\ terminal' = [terminal EXCEPT ![m] = IF flags = {} THEN 2 ELSE 1]
  /\ winner' = [winner EXCEPT ![m] = [by |-> t, at |-> now]]
  /\ granted' = [granted EXCEPT ![m] = flags]

\* Thread t tries to be the one that answers m.
Claim(t, m, flags) ==
  IF terminal[m] = 0
  THEN /\ terminal' = [terminal EXCEPT ![m] = IF flags = {} THEN 2 ELSE 1]
       /\ winner' = [winner EXCEPT ![m] = [by |-> t, at |-> now]]
       /\ granted' = [granted EXCEPT ![m] = flags]
  ELSE UNCHANGED permission

\* The read-only facade: without a requested read nothing is authorized, and
\* the permission it consumed denies when it is dropped.
AllowReadOnly(m) == IF "read" \in Requested[m] THEN {"read"} ELSE {}

\* The winner responds and releases the message.
Respond(t, m) ==
  /\ winner[m].by = t
  /\ winner' = [winner EXCEPT ![m] = NoWinner]
  /\ replies' = [replies EXCEPT ![m] = Append(@, granted[m])]
  /\ UNCHANGED <<now, terminal, granted, owner, callback, registry, scheduler,
                 queue, prompt, main>>

Live(m) == terminal[m] = 0 /\ owner[m] # "gone"

-----------------------------------------------------------------------------
(***************************************************************************)
(* CallbackContext::handle, for a target that is protected.                *)
(***************************************************************************)
Active == main.pc \in {"starting", "started", "running", "joining", "denying"}

CallbackAt(pc) == callback.pc = pc /\ ~Busy("callback")

\* The kernel waits for the answer; a deadline too close is denied at once.
DenyShortDeadline(m) ==
  /\ Active
  /\ CallbackAt("idle")
  /\ owner[m] = "new" /\ now < Deadline[m]
  /\ ResponseBudget(m) = 0
  /\ owner' = [owner EXCEPT ![m] = "gone"]
  /\ terminal' = [terminal EXCEPT ![m] = 2]
  /\ replies' = [replies EXCEPT ![m] = Append(@, {})]
  /\ UNCHANGED <<now, winner, granted, callback, registry, scheduler, queue,
                 prompt, main>>

Retain(m) ==
  /\ Active
  /\ CallbackAt("idle")
  /\ owner[m] = "new" /\ now < Deadline[m]
  /\ ResponseBudget(m) > 0
  /\ owner' = [owner EXCEPT ![m] = "callback"]
  /\ callback' = [pc |-> "register", msg |-> m, budget |-> ResponseBudget(m),
                  since |-> now]
  /\ UNCHANGED <<now, permission, replies, registry, scheduler, queue, prompt,
                 main>>

\* The callback drops the permission, which denies it, and returns.
DropInCallback(m) ==
  /\ owner' = [owner EXCEPT ![m] = "gone"]
  /\ Claim("callback", m, {})
  /\ callback' = Idle

\* registry.retain: what is already resolved no longer counts.
RegistryKept == {m \in registry : Live(m)}

RegisterOverBound ==
  /\ CallbackAt("register")
  /\ LET m == callback.msg IN
       /\ Cardinality(RegistryKept) >= MaxPending
       /\ registry' = RegistryKept
       /\ DropInCallback(m)
  /\ UNCHANGED <<now, replies, scheduler, queue, prompt, main>>

Register ==
  /\ CallbackAt("register")
  /\ LET m == callback.msg IN
       /\ Cardinality(RegistryKept) < MaxPending
       /\ registry' = RegistryKept \union {m}
  /\ callback' = [callback EXCEPT !.pc = "schedule"]
  /\ UNCHANGED <<now, permission, owner, replies, scheduler, queue, prompt, main>>

\* The time of the deadline is the budget read earlier, from now on.
Schedule ==
  /\ CallbackAt("schedule")
  /\ deadline # "stopped"
  /\ channel' = Append(channel, [msg |-> callback.msg, due |-> now + callback.budget])
  /\ callback' = [callback EXCEPT !.pc = "send"]
  /\ UNCHANGED <<now, permission, owner, replies, registry, scheduled, deadline,
                 queue, prompt, main>>

ScheduleStopped ==
  /\ CallbackAt("schedule")
  /\ deadline = "stopped"
  /\ DropInCallback(callback.msg)
  /\ UNCHANGED <<now, replies, registry, scheduler, queue, prompt, main>>

Send ==
  /\ CallbackAt("send")
  /\ Len(queue) < MaxPending
  /\ LET m == callback.msg IN
       /\ queue' = Append(queue, [msg |-> m, budget |-> InteractiveBudget(m), at |-> now])
       /\ owner' = [owner EXCEPT ![m] = "queue"]
  /\ callback' = Idle
  /\ UNCHANGED <<now, permission, replies, registry, scheduler, prompt, main>>

\* try_send fails: the event is dropped with the permission in it.
SendFull ==
  /\ CallbackAt("send")
  /\ Len(queue) >= MaxPending
  /\ DropInCallback(callback.msg)
  /\ UNCHANGED <<now, replies, registry, scheduler, queue, prompt, main>>

-----------------------------------------------------------------------------
(***************************************************************************)
(* The deadline thread (scheduler_loop).                                   *)
(***************************************************************************)
DeadlineFree == ~Busy("deadline")

ReceiveSchedule ==
  /\ deadline = "running" /\ DeadlineFree
  /\ channel # <<>> /\ Head(channel) # Shutdown
  /\ scheduled' = scheduled \union {Head(channel)}
  /\ channel' = Tail(channel)
  /\ UNCHANGED <<now, permission, owner, replies, callback, registry, deadline,
                 queue, prompt, main>>

\* Mutant: what is due is dropped without an answer.
ResolveDueSilently(s) ==
  /\ deadline = "running" /\ DeadlineFree
  /\ s \in scheduled
  /\ s.due <= now \/ ~Live(s.msg)
  /\ scheduled' = scheduled \ {s}
  /\ UNCHANGED <<now, permission, owner, replies, callback, registry, channel,
                 deadline, queue, prompt, main>>

\* resolve_due: what is due is denied, what is resolved is forgotten.
ResolveDue(s) ==
  /\ deadline = "running" /\ DeadlineFree
  /\ s \in scheduled
  /\ s.due <= now \/ ~Live(s.msg)
  /\ scheduled' = scheduled \ {s}
  /\ IF s.due <= now THEN Claim("deadline", s.msg, {}) ELSE UNCHANGED permission
  /\ UNCHANGED <<now, owner, replies, callback, registry, channel, deadline,
                 queue, prompt, main>>

ReceiveShutdown ==
  /\ deadline = "running" /\ DeadlineFree
  /\ channel # <<>> /\ Head(channel) = Shutdown
  /\ deadline' = "draining"
  /\ UNCHANGED <<now, permission, owner, replies, callback, registry, channel,
                 scheduled, queue, prompt, main>>

Drain(s) ==
  /\ deadline = "draining" /\ DeadlineFree
  /\ s \in scheduled
  /\ scheduled' = scheduled \ {s}
  /\ Claim("deadline", s.msg, {})
  /\ UNCHANGED <<now, owner, replies, callback, registry, channel, deadline,
                 queue, prompt, main>>

\* The commands that are still in the channel are lost with it.
StopDeadline ==
  /\ deadline = "draining" /\ DeadlineFree
  /\ scheduled = {}
  /\ deadline' = "stopped"
  /\ channel' = <<>>
  /\ UNCHANGED <<now, permission, owner, replies, callback, registry, scheduled,
                 queue, prompt, main>>

DeadlineThread ==
  \/ ReceiveSchedule
  \/ \E s \in scheduled : ResolveDue(s) \/ Drain(s)
  \/ ReceiveShutdown
  \/ StopDeadline

-----------------------------------------------------------------------------
(***************************************************************************)
(* The thread that owns the backend.                                       *)
(***************************************************************************)
MainAt(pc) == main.pc = pc /\ ~Busy("main")

MainHolds == \E m \in Message : owner[m] = "main"

\* start() returns the backend.
Started ==
  /\ MainAt("starting")
  /\ main' = [main EXCEPT !.pc = "started"]
  /\ UNCHANGED <<now, permission, owner, replies, callback, registry, scheduler,
                 queue, prompt>>

\* The XPC server is up, and the loop begins.
Serve ==
  /\ MainAt("started")
  /\ main' = [main EXCEPT !.pc = "running"]
  /\ UNCHANGED <<now, permission, owner, replies, callback, registry, scheduler,
                 queue, prompt>>

Receive ==
  /\ MainAt("running") /\ ~MainHolds
  /\ queue # <<>>
  /\ LET e == Head(queue) IN
       /\ owner' = [owner EXCEPT ![e.msg] = "main"]
       /\ prompt' = [prompt EXCEPT ![e.msg] = IF e.budget = 0 THEN 0 ELSE now + e.budget]
  /\ queue' = Tail(queue)
  /\ UNCHANGED <<now, permission, replies, callback, registry, scheduler, main>>

\* Thread t, which holds m, answers it: exactly, read-only or not at all.
Resolve(t, m) ==
  /\ owner' = [owner EXCEPT ![m] = "gone"]
  /\ \E flags \in {Requested[m], AllowReadOnly(m), {}} : Claim(t, m, flags)

Decide(m) ==
  /\ MainAt("running")
  /\ owner[m] = "main"
  /\ Resolve("main", m)
  /\ UNCHANGED <<now, replies, callback, registry, scheduler, queue, prompt, main>>

\* An event without an interactive budget is never put to the user.
Park(m) ==
  /\ MainAt("running")
  /\ owner[m] = "main" /\ prompt[m] # 0
  /\ owner' = [owner EXCEPT ![m] = "store"]
  /\ UNCHANGED <<now, permission, replies, callback, registry, scheduler, queue,
                 prompt, main>>

\* maintenance: the prompt has expired, or the process is gone.
ExpirePrompt(m) ==
  /\ MainAt("running") /\ ~MainHolds
  /\ owner[m] = "store"
  /\ owner' = [owner EXCEPT ![m] = "gone"]
  /\ Claim("main", m, {})
  /\ UNCHANGED <<now, replies, callback, registry, scheduler, queue, prompt, main>>

\* The XPC server does not come up, and the backend is dropped while messages
\* arrive (Drop for EndpointSecurityBackend): the deadline thread first ...
StopBackend ==
  /\ MainAt("started")
  /\ main' = [main EXCEPT !.pc = "joining"]
  /\ channel' = Append(channel, Shutdown)
  /\ UNCHANGED <<now, permission, owner, replies, callback, registry, scheduled,
                 deadline, queue, prompt>>

\* Mutant: the registry is left alone.
DrainRegistryNot ==
  /\ MainAt("joining") /\ deadline = "stopped"
  /\ main' = [pc |-> "denying", deny |-> {}]
  /\ UNCHANGED <<now, permission, owner, replies, callback, registry, scheduler,
                 queue, prompt>>

\* ... then what is registered (deny_registered) ...
DrainRegistry ==
  /\ MainAt("joining") /\ deadline = "stopped"
  /\ main' = [pc |-> "denying", deny |-> registry]
  /\ registry' = {}
  /\ UNCHANGED <<now, permission, owner, replies, callback, scheduler, queue, prompt>>

DenyRegistered(m) ==
  /\ MainAt("denying")
  /\ m \in main.deny
  /\ main' = [main EXCEPT !.deny = @ \ {m}]
  /\ Claim("main", m, {})
  /\ UNCHANGED <<now, owner, replies, callback, registry, scheduler, queue, prompt>>

\* ... then the client, once no callback runs.
DeleteClient ==
  /\ MainAt("denying")
  /\ main.deny = {}
  /\ CallbackAt("idle")
  /\ main' = [main EXCEPT !.pc = "deleted"]
  /\ UNCHANGED <<now, permission, owner, replies, callback, registry, scheduler,
                 queue, prompt>>

\* start() fails after the authorization client is subscribed: its locals are
\* dropped in reverse order, the client before the queue and the scheduler.
StartFails ==
  /\ MainAt("starting")
  /\ CallbackAt("idle")
  /\ main' = [main EXCEPT !.pc = "aborted"]
  /\ UNCHANGED <<now, permission, owner, replies, callback, registry, scheduler,
                 queue, prompt>>

\* The events nobody received are dropped with the receiver.
DropQueued ==
  /\ MainAt("deleted") \/ MainAt("aborted")
  /\ queue # <<>>
  /\ LET m == Head(queue).msg IN
       /\ owner' = [owner EXCEPT ![m] = "gone"]
       /\ Claim("main", m, {})
  /\ queue' = Tail(queue)
  /\ UNCHANGED <<now, replies, callback, registry, scheduler, prompt, main>>

\* The scheduler of a failed start is dropped last.
DropScheduler ==
  /\ MainAt("aborted")
  /\ queue = <<>>
  /\ main' = [main EXCEPT !.pc = "gone"]
  /\ channel' = Append(channel, Shutdown)
  /\ UNCHANGED <<now, permission, owner, replies, callback, registry, scheduled,
                 deadline, queue, prompt>>

Main ==
  \/ Started \/ Serve \/ Receive \/ DrainRegistry \/ DeleteClient \/ DropQueued \/ DropScheduler
  \/ \E m \in Message : Decide(m) \/ Park(m) \/ ExpirePrompt(m) \/ DenyRegistered(m)

-----------------------------------------------------------------------------
(***************************************************************************)
(* The XPC threads.                                                        *)
(***************************************************************************)
XpcFree(x) == ~Busy(x) /\ \A m \in Message : owner[m] # x

XpcTake(x, m) ==
  /\ XpcFree(x)
  /\ owner[m] = "store"
  /\ IF now < prompt[m]
     THEN owner' = [owner EXCEPT ![m] = x] /\ UNCHANGED permission
     ELSE owner' = [owner EXCEPT ![m] = "gone"] /\ Claim(x, m, {})
  /\ UNCHANGED <<now, replies, callback, registry, scheduler, queue, prompt, main>>

XpcResolve(x, m) ==
  /\ owner[m] = x
  /\ Resolve(x, m)
  /\ UNCHANGED <<now, replies, callback, registry, scheduler, queue, prompt, main>>

-----------------------------------------------------------------------------
\* No thread is kept from what it has to do for longer than its slack, and a
\* backend is dropped in no time.
Timely ==
  /\ main.pc # "joining" /\ main.deny = {}
  /\ callback # Idle => now < callback.since + Slack
  /\ \A m \in Message : winner[m] # NoWinner => now < winner[m].at + Slack
  /\ \A s \in scheduled : now < s.due + Slack
  /\ \A i \in DOMAIN channel : channel[i] # Shutdown => now < channel[i].due + Slack

Tick ==
  /\ now < MaxNow
  /\ Timely
  /\ now' = now + 1
  /\ UNCHANGED <<permission, owner, replies, callback, registry, scheduler, queue,
                 prompt, main>>

Next ==
  \/ \E m \in Message : DenyShortDeadline(m) \/ Retain(m)
  \/ RegisterOverBound \/ Register \/ Schedule \/ ScheduleStopped \/ Send \/ SendFull
  \/ DeadlineThread
  \/ Main
  \/ StopBackend \/ StartFails
  \/ \E x \in Xpc, m \in Message : XpcTake(x, m) \/ XpcResolve(x, m)
  \/ \E t \in Thread, m \in Message : Respond(t, m)
  \/ Tick

(***************************************************************************)
(* The threads run, and a backend that is dropped is dropped to the end.   *)
(* Nothing is assumed of the user, who may never answer, nor of the main   *)
(* loop, which may never return from a decision.                           *)
(***************************************************************************)
Callback == RegisterOverBound \/ Register \/ Schedule \/ ScheduleStopped \/ Send \/ SendFull

Stopping == DrainRegistry \/ DropQueued \/ DropScheduler \/ \E m \in Message : DenyRegistered(m)

Fairness ==
  /\ WF_vars(Callback)
  /\ WF_vars(Stopping)
  /\ WF_vars(DeadlineThread)
  /\ \A t \in Thread : WF_vars(\E m \in Message : Respond(t, m))
  /\ WF_vars(Tick)

Spec == Init /\ [][Next]_vars

LiveSpec == Spec /\ Fairness

-----------------------------------------------------------------------------
(***************************************************************************)
(* Properties.                                                             *)
(***************************************************************************)
TypeOK ==
  /\ now \in 0..MaxNow
  /\ terminal \in [Message -> 0..2]
  /\ owner \in [Message -> Thread \union {"new", "queue", "store", "gone"}]
  /\ winner \in [Message -> [by : Thread \union {"none"}, at : Nat]]
  /\ granted \in [Message -> SUBSET Flag]
  /\ replies \in [Message -> Seq(SUBSET Flag)]
  /\ callback # Idle => callback.msg \in Message /\ callback.budget \in Nat \ {0}
  /\ registry \subseteq Message
  /\ deadline \in {"running", "draining", "stopped"}
  /\ prompt \in [Message -> Nat]

\* The backend has deleted its client.  (A start that fails deletes it while the
\* deadline thread still has messages to deny: see the README.)
Deleted == main.pc = "deleted"

\* Every message Endpoint Security hands over is answered once, with no more
\* than was asked for, and the client is deleted when none is left: the race
\* of the threads for one permission implements the contract of the kernel.
Contract == INSTANCE EsContract WITH
  owed <- {m \in Message : owner[m] # "new" /\ replies[m] = <<>>},
  reply <- replies,
  deleted <- Deleted

ContractSpec == Contract!Spec

\* A comment of RawResponseSink: the client outlives every registered pending
\* response.
ClientOutlivesResponses ==
  Deleted => \A m \in Message : owner[m] # "new" => replies[m] # <<>>

\* The kernel has its answer before it stops waiting, if no thread is kept
\* from its work for longer than a third of the margin: the callback that
\* schedules the denial, the deadline thread, and the thread that responds.
AnsweredInTime ==
  \A m \in Message : owner[m] # "new" /\ now > Deadline[m] => replies[m] # <<>>

\* A user is never offered a prompt that outlives the kernel's patience, if the
\* main loop, which starts its time, came for the event within the margin.
PromptInsideDeadline ==
  [][\A m \in Message : prompt'[m] # prompt[m] /\ now <= Head(queue).at + MainSlack =>
       prompt'[m] <= Deadline[m]]_vars

\* Whatever the user and the main loop do or fail to do, the process that
\* opened the file is released.
EveryMessageAnswered ==
  \A m \in Message : owner[m] # "new" ~> replies[m] # <<>>
=============================================================================
