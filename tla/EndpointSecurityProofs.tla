----------------------- MODULE EndpointSecurityProofs ------------------------
(***************************************************************************)
(* The macOS Endpoint Security adapter: the race for the permission of a   *)
(* message, and what a file is known by.                                   *)
(***************************************************************************)
EXTENDS MacPermission, MacIndex, CollectionLemmas, FiniteSetTheorems

-----------------------------------------------------------------------------
(***************************************************************************)
(* The race for a macOS permission, for any number of messages and of XPC  *)
(* threads, any deadlines and any margin that pays for three late threads. *)
(*                                                                         *)
(* Who is owed what is read off the parts of the backend that know of a    *)
(* message.  Places says that whoever owns a message is somewhere it is    *)
(* known; Order and Winners say in which order the backend comes apart,    *)
(* and who may be about to respond meanwhile.  Watch is the heart: a       *)
(* message nobody has answered is still to be ended by the callback, by    *)
(* the deadline thread or by the drain of the registry.  Punctual and      *)
(* Scheduling say how long each stage can have taken, so that the margin   *)
(* is not used up.                                                         *)
(***************************************************************************)

Command == [msg : Message, due : Nat]

\* TypeOK, with unbounded numbers and queues.
Types ==
  /\ now \in Nat
  /\ terminal \in [Message -> 0..2]
  /\ owner \in [Message -> Thread \union {"new", "queue", "store", "gone"}]
  /\ winner \in [Message -> [by : Thread, at : Nat] \union {NoWinner}]
  /\ granted \in [Message -> SUBSET Flag]
  /\ replies \in [Message -> Seq(SUBSET Flag)]
  /\ callback \in {Idle} \union
       [pc : {"register", "schedule", "send"}, msg : Message, budget : Nat \ {0}, since : Nat]
  /\ registry \subseteq Message
  /\ channel \in Seq(Command \union {Shutdown})
  /\ scheduled \subseteq Command
  /\ deadline \in {"running", "draining", "stopped"}
  /\ queue \in Seq([msg : Message, budget : Nat, at : Nat])
  /\ prompt \in [Message -> Nat]
  /\ main \in [pc : {"starting", "started", "running", "joining", "denying", "deleted",
                     "aborted", "gone"},
               deny : SUBSET Message]

\* The messages each part of the backend knows of.
InCallback == IF callback = Idle THEN {} ELSE {callback.msg}
Fresh == IF callback # Idle /\ callback.pc # "send" THEN {callback.msg} ELSE {}
Unregistered == IF callback # Idle /\ callback.pc = "register" THEN {callback.msg} ELSE {}
Watched == {s.msg : s \in scheduled} \union {c.msg : c \in Range(channel) \ {Shutdown}}
Queued == {e.msg : e \in Range(queue)}

\* Everything the backend knows of was handed over.
Known == InCallback \union registry \union main.deny \union Watched \union Queued

Places == \A m \in Message :
  /\ owner[m] = "new" => m \notin Known
  /\ owner[m] = "callback" => m \in InCallback
  /\ owner[m] = "queue" => m \in Queued
  /\ owner[m] = "gone" => terminal[m] # 0

\* A message that is resolved has a winner or a reply, and no other has either.
Outcome == \A m \in Message :
  /\ granted[m] \subseteq Requested[m]
  /\ owner[m] = "new" => terminal[m] = 0
  /\ terminal[m] = 0 => winner[m] = NoWinner /\ replies[m] = <<>>
  /\ terminal[m] # 0 => (winner[m] # NoWinner <=> replies[m] = <<>>)

\* The order in which the backend is taken apart.
Ended == {"deleted", "aborted", "gone"}

Order ==
  /\ main.pc # "denying" => main.deny = {}
  /\ main.pc # "running" =>
       \A m \in Message : owner[m] \in {"new", "callback", "queue", "gone"}
  /\ main.pc \in Ended => callback = Idle
  /\ main.pc = "gone" => queue = <<>>
  /\ deadline # "running" \/ Shutdown \in Range(channel) =>
       main.pc \in {"joining", "denying", "deleted", "gone"}
  /\ main.pc \in {"denying", "deleted"} => deadline = "stopped"
  /\ deadline = "stopped" => channel = <<>> /\ scheduled = {}

\* The threads that may have yet to respond.
Winners == \A m \in Message :
  /\ winner[m].by \in Xpc => main.pc = "running"
  /\ winner[m].by = "callback" => main.pc \notin Ended
  /\ winner[m].by = "deadline" => deadline # "stopped"
  /\ main.pc = "deleted" => winner[m] = NoWinner

\* Who will end the wait for a message that nobody has answered.
Unanswered == {m \in Message : owner[m] # "new" /\ terminal[m] = 0}

Watch ==
  /\ main.pc \notin {"joining", "denying", "deleted"} => Unanswered \subseteq Fresh \union Watched
  /\ main.pc \notin {"denying", "deleted"} => Unanswered \subseteq registry \union Unregistered
  /\ main.pc \in {"denying", "deleted"} => Unanswered \subseteq Fresh \union main.deny

\* How long each stage may have taken.
Punctual ==
  /\ \A m \in Message : winner[m] # NoWinner =>
       /\ now <= winner[m].at + Slack
       /\ winner[m].at + Margin <= Deadline[m] + 2 * Slack
  /\ \A m \in Unanswered : now + Margin <= Deadline[m] + 2 * Slack

Scheduling ==
  /\ callback # Idle =>
       /\ now <= callback.since + Slack
       /\ callback.since + callback.budget + Margin = Deadline[callback.msg]
  /\ \A s \in scheduled \union (Range(channel) \ {Shutdown}) :
       /\ now <= s.due + Slack
       /\ s.due + Margin <= Deadline[s.msg] + Slack
  /\ \A e \in Range(queue) : e.budget = 0 \/ e.at + e.budget + Margin <= Deadline[e.msg]

IInv ==
  Types /\ Places /\ Outcome /\ Order /\ Winners /\ Watch /\ Punctual /\ Scheduling

-----------------------------------------------------------------------------
\* try_begin: the first claim takes effect, a later one changes nothing.
LEMMA ClaimEffect ==
  ASSUME Types, Outcome, NEW t \in Thread, NEW m \in Message, owner[m] # "new",
         NEW flags \in SUBSET Requested[m], Claim(t, m, flags)
  PROVE  /\ terminal' \in [Message -> 0..2]
         /\ winner' \in [Message -> [by : Thread, at : Nat] \union {NoWinner}]
         /\ granted' \in [Message -> SUBSET Flag]
         /\ terminal'[m] # 0
         /\ \A n \in Message : n # m => terminal'[n] = terminal[n] /\ winner'[n] = winner[n] /\ granted'[n] = granted[n]
         /\ \A n \in Message : granted'[n] \subseteq Requested[n]
         /\ terminal[m] # 0 => winner'[m] = winner[m]
         /\ terminal[m] = 0 => winner'[m] = [by |-> t, at |-> now] /\ winner'[m] # NoWinner
<1>1. CASE terminal[m] = 0
  <2>1. flags \subseteq Flag /\ [by |-> t, at |-> now] \in [by : Thread, at : Nat]
    BY MessageAssumption DEF Types
  <2>2. [by |-> t, at |-> now] # NoWinner
    BY MessageAssumption DEF NoWinner, Thread
  <2> DEFINE w == [by |-> t, at |-> now]
  <2>3. /\ terminal' = [terminal EXCEPT ![m] = IF flags = {} THEN 2 ELSE 1]
        /\ winner' = [winner EXCEPT ![m] = w]
        /\ granted' = [granted EXCEPT ![m] = flags]
    BY <1>1 DEF Claim
  <2> HIDE DEF w
  <2>4. winner' \in [Message -> [by : Thread, at : Nat] \union {NoWinner}] /\ winner'[m] = w
    BY <2>1, <2>3 DEF Types, w
  <2>5. /\ terminal' \in [Message -> 0..2] /\ terminal'[m] # 0
        /\ granted' \in [Message -> SUBSET Flag] /\ granted'[m] = flags
    BY <2>1, <2>3 DEF Types
  <2>6. \A n \in Message : n # m => terminal'[n] = terminal[n] /\ winner'[n] = winner[n] /\ granted'[n] = granted[n]
    BY <2>3 DEF Types
  <2>7. \A n \in Message : granted'[n] \subseteq Requested[n]
    BY <2>5, <2>6 DEF Outcome
  <2> QED
    BY <1>1, <2>2, <2>4, <2>5, <2>6, <2>7 DEF w
<1>2. CASE terminal[m] # 0
  BY <1>2 DEF Types, Outcome, Claim, permission
<1> QED
  BY <1>1, <1>2

\* What a resolution does to the facts about outcomes, whoever claims.
LEMMA ClaimKeeps ==
  ASSUME IInv, NEW t \in Thread, NEW m \in Message, m \notin {n \in Message : owner[n] = "new"},
         NEW flags \in SUBSET Requested[m], Claim(t, m, flags),
         UNCHANGED <<now, replies>>,
         \A n \in Message : owner'[n] = "new" <=> owner[n] = "new"
  PROVE  /\ Outcome' /\ Punctual'
         /\ Unanswered' = Unanswered \ {m}
         /\ terminal' \in [Message -> 0..2]
         /\ winner' \in [Message -> [by : Thread, at : Nat] \union {NoWinner}]
         /\ granted' \in [Message -> SUBSET Flag]
         /\ terminal'[m] # 0
         /\ \A n \in Message : terminal[n] # 0 => terminal'[n] # 0
         /\ \A n \in Message : winner'[n] = winner[n] \/ (n = m /\ terminal[m] = 0 /\ winner'[n].by = t)
<1>1. Types /\ Outcome /\ Punctual /\ owner[m] # "new"
  BY DEF IInv
<1>2. /\ terminal' \in [Message -> 0..2]
      /\ winner' \in [Message -> [by : Thread, at : Nat] \union {NoWinner}]
      /\ granted' \in [Message -> SUBSET Flag]
      /\ terminal'[m] # 0
      /\ \A n \in Message : n # m => terminal'[n] = terminal[n] /\ winner'[n] = winner[n] /\ granted'[n] = granted[n]
      /\ \A n \in Message : granted'[n] \subseteq Requested[n]
      /\ terminal[m] # 0 => winner'[m] = winner[m]
      /\ terminal[m] = 0 => winner'[m] = [by |-> t, at |-> now] /\ winner'[m] # NoWinner
  BY <1>1, ClaimEffect
<1>3. Outcome'
  BY <1>1, <1>2 DEF Outcome, Types
<1>4. Unanswered' = Unanswered \ {m}
  BY <1>1, <1>2 DEF Unanswered
<1>5. Punctual'
  <2>1. ASSUME NEW n \in Message, winner'[n] # NoWinner
        PROVE  now' <= winner'[n].at + Slack /\ winner'[n].at + Margin <= Deadline[n] + 2 * Slack
    <3>1. CASE n = m /\ terminal[m] = 0
      <4>1. m \in Unanswered /\ winner'[n].at = now
        BY <3>1, <1>1, <1>2 DEF Unanswered
      <4> QED
        BY <4>1, <3>1, <1>1, MessageAssumption DEF Punctual, Types
    <3>2. CASE ~(n = m /\ terminal[m] = 0)
      BY <3>2, <2>1, <1>1, <1>2 DEF Punctual
    <3> QED
      BY <3>1, <3>2
  <2> QED
    BY <2>1, <1>1, <1>4 DEF Punctual
<1> QED
  BY <1>2, <1>3, <1>4, <1>5

\* ... and what an action does to them that resolves nothing.
LEMMA QuietKeeps ==
  ASSUME IInv, UNCHANGED <<now, permission, replies>>,
         \A n \in Message : owner'[n] = "new" <=> owner[n] = "new"
  PROVE  Outcome' /\ Punctual' /\ Unanswered' = Unanswered
<1>1. Unanswered' = Unanswered
  BY DEF Unanswered, permission
<1> QED
  BY <1>1 DEF IInv, Outcome, Punctual, permission

\* The invariant holds of a backend that has not started.
LEMMA InitOK == Init => IInv
<1> SUFFICES ASSUME Init PROVE IInv
  OBVIOUS
<1>1. Range(<<>>) = {}
  BY EmptyRange
<1>2. Types
  BY DEF Init, Types, NoWinner, Idle, Thread
<1>3. Places /\ Outcome
  BY <1>1 DEF Init, Places, Outcome, Known, InCallback, Watched, Queued
<1>4. Order /\ Winners
  BY <1>1, MessageAssumption DEF Init, Order, Winners, NoWinner, Ended
<1>5. Watch /\ Punctual /\ Scheduling
  BY <1>1 DEF Init, Watch, Punctual, Scheduling, Unanswered
<1> QED
  BY <1>2, <1>3, <1>4, <1>5 DEF IInv

\* A prompt that begins when its event is queued ends before the kernel stops waiting.
LEMMA BudgetType ==
  ASSUME now \in Nat, NEW m \in Message
  PROVE  /\ InteractiveBudget(m) \in Nat
         /\ InteractiveBudget(m) = 0 \/ now + InteractiveBudget(m) + Margin <= Deadline[m]
<1>1. /\ Deadline[m] \in Nat /\ Margin \in Nat /\ PromptCap \in Nat /\ MinInteractive \in Nat
  BY MessageAssumption
<1> QED
  BY <1>1 DEF InteractiveBudget, Monus

(***************************************************************************)
(* Every action keeps the invariant.                                       *)
(***************************************************************************)
\* The start succeeds.
LEMMA StartedKeeps ==
  ASSUME IInv, Started
  PROVE  IInv'
<1>1. Outcome' /\ Punctual' /\ Unanswered' = Unanswered
  BY QuietKeeps DEF Started, IInv, Types
<1>2. /\ InCallback' = InCallback /\ Fresh' = Fresh /\ Unregistered' = Unregistered
      /\ Watched' = Watched /\ Queued' = Queued
  BY DEF Started, InCallback, Fresh, Unregistered, Watched, Queued, scheduler
<1>3. Types'
  BY DEF Started, IInv, Types, permission, scheduler
<1>4. Places'
  BY <1>2 DEF Started, IInv, Types, Places, Known, permission
<1>5. Order'
  BY MessageAssumption DEF Started, IInv, Types, Order, Ended, permission, scheduler, MainAt, CallbackAt, Places, InCallback
<1>6. Winners'
  BY MessageAssumption DEF Started, IInv, Types, Order, Winners, Ended, permission, scheduler, MainAt, CallbackAt, Busy, NoWinner, Thread
<1>7. Watch'
  BY <1>1, <1>2 DEF Started, IInv, Types, Watch, MainAt
<1>8. Scheduling'
  BY DEF Started, IInv, Types, Scheduling, permission, scheduler
<1> QED
  BY <1>1, <1>3, <1>4, <1>5, <1>6, <1>7, <1>8 DEF IInv

\* The loop begins.
LEMMA ServeKeeps ==
  ASSUME IInv, Serve
  PROVE  IInv'
<1>1. Outcome' /\ Punctual' /\ Unanswered' = Unanswered
  BY QuietKeeps DEF Serve, IInv, Types
<1>2. /\ InCallback' = InCallback /\ Fresh' = Fresh /\ Unregistered' = Unregistered
      /\ Watched' = Watched /\ Queued' = Queued
  BY DEF Serve, InCallback, Fresh, Unregistered, Watched, Queued, scheduler
<1>3. Types'
  BY DEF Serve, IInv, Types, permission, scheduler
<1>4. Places'
  BY <1>2 DEF Serve, IInv, Types, Places, Known, permission
<1>5. Order'
  BY MessageAssumption DEF Serve, IInv, Types, Order, Ended, permission, scheduler, MainAt, CallbackAt, Places, InCallback
<1>6. Winners'
  BY MessageAssumption DEF Serve, IInv, Types, Order, Winners, Ended, permission, scheduler, MainAt, CallbackAt, Busy, NoWinner, Thread
<1>7. Watch'
  BY <1>1, <1>2 DEF Serve, IInv, Types, Watch, MainAt
<1>8. Scheduling'
  BY DEF Serve, IInv, Types, Scheduling, permission, scheduler
<1> QED
  BY <1>1, <1>3, <1>4, <1>5, <1>6, <1>7, <1>8 DEF IInv

\* The start fails after callbacks were possible.
LEMMA StartFailsKeeps ==
  ASSUME IInv, StartFails
  PROVE  IInv'
<1>1. Outcome' /\ Punctual' /\ Unanswered' = Unanswered
  BY QuietKeeps DEF StartFails, IInv, Types
<1>2. /\ InCallback' = InCallback /\ Fresh' = Fresh /\ Unregistered' = Unregistered
      /\ Watched' = Watched /\ Queued' = Queued
  BY DEF StartFails, InCallback, Fresh, Unregistered, Watched, Queued, scheduler
<1>3. Types'
  BY DEF StartFails, IInv, Types, permission, scheduler
<1>4. Places'
  BY <1>2 DEF StartFails, IInv, Types, Places, Known, permission
<1>5. Order'
  BY MessageAssumption DEF StartFails, IInv, Types, Order, Ended, permission, scheduler, MainAt, CallbackAt, Places, InCallback
<1>6. Winners'
  BY MessageAssumption DEF StartFails, IInv, Types, Order, Winners, Ended, permission, scheduler, MainAt, CallbackAt, Busy, NoWinner, Thread
<1>7. Watch'
  BY <1>1, <1>2 DEF StartFails, IInv, Types, Watch, MainAt
<1>8. Scheduling'
  BY DEF StartFails, IInv, Types, Scheduling, permission, scheduler
<1> QED
  BY <1>1, <1>3, <1>4, <1>5, <1>6, <1>7, <1>8 DEF IInv

\* The client is deleted.
LEMMA DeleteClientKeeps ==
  ASSUME IInv, DeleteClient
  PROVE  IInv'
<1>1. Outcome' /\ Punctual' /\ Unanswered' = Unanswered
  BY QuietKeeps DEF DeleteClient, IInv, Types
<1>2. /\ InCallback' = InCallback /\ Fresh' = Fresh /\ Unregistered' = Unregistered
      /\ Watched' = Watched /\ Queued' = Queued
  BY DEF DeleteClient, InCallback, Fresh, Unregistered, Watched, Queued, scheduler
<1>3. Types'
  BY DEF DeleteClient, IInv, Types, permission, scheduler
<1>4. Places'
  BY <1>2 DEF DeleteClient, IInv, Types, Places, Known, permission
<1>5. Order'
  BY MessageAssumption DEF DeleteClient, IInv, Types, Order, Ended, permission, scheduler, MainAt, CallbackAt, Places, InCallback
<1>6. Winners'
  BY MessageAssumption DEF DeleteClient, IInv, Types, Order, Winners, Ended, permission, scheduler, MainAt, CallbackAt, Busy, NoWinner, Thread
<1>7. Watch'
  BY <1>1, <1>2 DEF DeleteClient, IInv, Types, Watch, MainAt
<1>8. Scheduling'
  BY DEF DeleteClient, IInv, Types, Scheduling, permission, scheduler
<1> QED
  BY <1>1, <1>3, <1>4, <1>5, <1>6, <1>7, <1>8 DEF IInv

\* The deadline thread is told to stop.
LEMMA ReceiveShutdownKeeps ==
  ASSUME IInv, ReceiveShutdown
  PROVE  IInv'
<1>1. Outcome' /\ Punctual' /\ Unanswered' = Unanswered
  BY QuietKeeps DEF ReceiveShutdown, IInv, Types
<1>2. /\ InCallback' = InCallback /\ Fresh' = Fresh /\ Unregistered' = Unregistered
      /\ Watched' = Watched /\ Queued' = Queued
  BY DEF ReceiveShutdown, InCallback, Fresh, Unregistered, Watched, Queued, scheduler
<1>3. Types'
  BY DEF ReceiveShutdown, IInv, Types, permission, scheduler
<1>4. Places'
  BY <1>2 DEF ReceiveShutdown, IInv, Types, Places, Known, permission
<1>5. Order'
  BY TailRange DEF ReceiveShutdown, IInv, Types, Order, Ended, permission, scheduler, MainAt, CallbackAt, Places, InCallback
<1>6. Winners'
  BY TailRange DEF ReceiveShutdown, IInv, Types, Order, Winners, Ended, permission, scheduler, MainAt, CallbackAt, Busy, NoWinner, Thread
<1>7. Watch'
  BY <1>1, <1>2 DEF ReceiveShutdown, IInv, Types, Watch, MainAt
<1>8. Scheduling'
  BY DEF ReceiveShutdown, IInv, Types, Scheduling, permission, scheduler
<1> QED
  BY <1>1, <1>3, <1>4, <1>5, <1>6, <1>7, <1>8 DEF IInv

\* The loop puts a message into a store.
LEMMA ParkKeeps ==
  ASSUME IInv, NEW m \in Message, Park(m)
  PROVE  IInv'
<1>1. Outcome' /\ Punctual' /\ Unanswered' = Unanswered
  BY QuietKeeps DEF Park, IInv, Types
<1>2. /\ InCallback' = InCallback /\ Fresh' = Fresh /\ Unregistered' = Unregistered
      /\ Watched' = Watched /\ Queued' = Queued
  BY DEF Park, InCallback, Fresh, Unregistered, Watched, Queued, scheduler
<1>3. Types'
  BY DEF Park, IInv, Types, permission, scheduler
<1>4. Places'
  BY <1>2 DEF Park, IInv, Types, Places, Known, permission
<1>5. Order'
  BY MessageAssumption DEF Park, IInv, Types, Order, Ended, permission, scheduler, MainAt, CallbackAt, Places, InCallback
<1>6. Winners'
  BY MessageAssumption DEF Park, IInv, Types, Order, Winners, Ended, permission, scheduler, MainAt, CallbackAt, Busy, NoWinner, Thread
<1>7. Watch'
  BY <1>1, <1>2 DEF Park, IInv, Types, Watch, MainAt
<1>8. Scheduling'
  BY DEF Park, IInv, Types, Scheduling, permission, scheduler
<1> QED
  BY <1>1, <1>3, <1>4, <1>5, <1>6, <1>7, <1>8 DEF IInv

\* The callback enters a message into the registry.
LEMMA RegisterKeeps ==
  ASSUME IInv, Register
  PROVE  IInv'
<1> DEFINE m == callback.msg
<1>1. Outcome' /\ Punctual' /\ Unanswered' = Unanswered
  BY QuietKeeps DEF Register, IInv, Types
<1>2. /\ callback # Idle /\ m \in Message
      /\ callback' # Idle /\ callback' = [callback EXCEPT !.pc = "schedule"]
      /\ callback'.msg = m /\ callback'.pc = "schedule"
  BY DEF Register, CallbackAt, IInv, Types, Idle
<1>3. /\ InCallback' = InCallback /\ InCallback = {m}
      /\ Fresh' = Fresh /\ Unregistered' = {} /\ Unregistered = {m}
      /\ Watched' = Watched /\ Queued' = Queued
  BY <1>2 DEF Register, CallbackAt, InCallback, Fresh, Unregistered, Watched, Queued, scheduler
<1>4. registry' = RegistryKept \union {m} /\ RegistryKept \subseteq registry
  BY DEF Register, RegistryKept
<1>5. Types'
  BY <1>2, <1>4 DEF Register, CallbackAt, IInv, Types, permission, scheduler
<1>6. Places'
  BY <1>3, <1>4 DEF Register, IInv, Types, Places, Known, permission
<1>7. Order' /\ Winners'
  BY <1>2 DEF Register, IInv, Order, Winners, permission, scheduler
<1>8. registry \intersect Unanswered \subseteq registry'
  BY <1>4 DEF RegistryKept, Live, Unanswered, IInv, Places
<1>9. Watch'
  BY <1>1, <1>3, <1>4, <1>8 DEF Register, IInv, Watch
<1>10. Scheduling'
  BY <1>2 DEF Register, IInv, Types, Scheduling, scheduler
<1> QED
  BY <1>1, <1>5, <1>6, <1>7, <1>9, <1>10 DEF IInv

\* The callback hands a message to the deadline thread.
LEMMA ScheduleKeeps ==
  ASSUME IInv, Schedule
  PROVE  IInv'
<1> DEFINE m == callback.msg
           c == [msg |-> callback.msg, due |-> now + callback.budget]
<1>1. Outcome' /\ Punctual' /\ Unanswered' = Unanswered
  BY QuietKeeps DEF Schedule, IInv, Types
<1>2. /\ callback # Idle /\ m \in Message /\ callback.budget \in Nat /\ callback.since \in Nat
      /\ callback' # Idle /\ callback' = [callback EXCEPT !.pc = "send"]
      /\ callback'.msg = m /\ callback'.pc = "send"
  BY DEF Schedule, CallbackAt, IInv, Types, Idle
<1>3. c \in Command /\ c # Shutdown /\ c.msg = m
  BY SMTT(30), <1>2, MessageAssumption DEF IInv, Types, Command, Shutdown
<1>4. /\ channel' \in Seq(Command \union {Shutdown})
      /\ Range(channel') = Range(channel) \union {c}
  BY <1>3, AppendRange DEF Schedule, IInv, Types
<1>5. /\ InCallback' = InCallback /\ InCallback = {m}
      /\ Fresh' = {} /\ Fresh = {m} /\ Unregistered' = {} /\ Unregistered = {}
      /\ Queued' = Queued
  BY <1>2 DEF Schedule, CallbackAt, InCallback, Fresh, Unregistered, Queued
<1> HIDE DEF c
<1>6. Watched' = Watched \union {m}
  BY <1>3, <1>4 DEF Schedule, Watched
<1>7. Types'
  BY <1>2, <1>4 DEF Schedule, CallbackAt, IInv, Types, permission
<1>8. Places'
  BY <1>5, <1>6 DEF Schedule, IInv, Types, Places, Known, permission
<1>9. Order' /\ Winners'
  BY <1>2, <1>3, <1>4 DEF Schedule, IInv, Order, Winners, permission
<1>10. Watch'
  BY <1>1, <1>5, <1>6 DEF Schedule, IInv, Watch, Order
<1>11. c.due = now + callback.budget
  BY DEF c
<1>12. now <= c.due + Slack /\ c.due + Margin <= Deadline[c.msg] + Slack
  <2>1. /\ now <= callback.since + Slack
        /\ callback.since + callback.budget + Margin = Deadline[m]
    BY <1>2 DEF IInv, Scheduling
  <2>2. /\ now \in Nat /\ callback.since \in Nat /\ callback.budget \in Nat
        /\ Slack \in Nat /\ Margin \in Nat /\ Deadline[m] \in Nat
    BY <1>2, MessageAssumption DEF IInv, Types
  <2> QED
    BY <2>1, <2>2, <1>3, <1>11
<1>13. Scheduling'
  BY <1>2, <1>4, <1>12 DEF Schedule, IInv, Types, Scheduling
<1> QED
  BY <1>1, <1>7, <1>8, <1>9, <1>10, <1>13 DEF IInv

\* The callback queues the event.
LEMMA SendKeeps ==
  ASSUME IInv, Send
  PROVE  IInv'
<1> DEFINE m == callback.msg
           e == [msg |-> callback.msg, budget |-> InteractiveBudget(callback.msg), at |-> now]
<1>1. Outcome' /\ Punctual' /\ Unanswered' = Unanswered
  BY SMTT(30), MessageAssumption, QuietKeeps DEF Send, CallbackAt, Idle, IInv, Types, Places, Known, InCallback
<1>2. callback # Idle /\ m \in Message /\ callback.pc = "send" /\ callback' = Idle
  BY DEF Send, CallbackAt, IInv, Types, Idle
<1>3. e \in [msg : Message, budget : Nat, at : Nat] /\ e.msg = m
  BY <1>2, BudgetType DEF IInv, Types
<1>4. e.budget = 0 \/ e.at + e.budget + Margin <= Deadline[e.msg]
  BY <1>2, BudgetType DEF IInv, Types
<1> HIDE DEF e
<1>5. /\ queue' \in Seq([msg : Message, budget : Nat, at : Nat])
      /\ Range(queue') = Range(queue) \union {e}
  BY <1>3, AppendRange DEF Send, IInv, Types, e
<1>6. /\ InCallback' = {} /\ InCallback = {m} /\ Fresh' = {} /\ Fresh = {}
      /\ Unregistered' = {} /\ Unregistered = {}
      /\ Watched' = Watched /\ Queued' = Queued \union {m}
  BY <1>2, <1>3, <1>5 DEF Send, InCallback, Fresh, Unregistered, Watched, Queued, scheduler
<1>7. /\ owner' \in [Message -> Thread \union {"new", "queue", "store", "gone"}]
      /\ owner'[m] = "queue" /\ \A n \in Message : n # m => owner'[n] = owner[n]
  BY <1>2 DEF Send, IInv, Types
<1>8. Types'
  BY <1>2, <1>5, <1>7 DEF Send, IInv, Types, permission, scheduler
<1>9. Places'
  BY <1>6, <1>7 DEF Send, IInv, Places, Known, permission
<1>10. Order' /\ Winners'
  BY <1>2, <1>7 DEF Send, IInv, Order, Winners, Ended, permission, scheduler
<1>11. Watch'
  BY <1>1, <1>6 DEF Send, IInv, Watch
<1>12. Scheduling'
  BY <1>2, <1>4, <1>5 DEF Send, IInv, Scheduling, scheduler
<1> QED
  BY <1>1, <1>8, <1>9, <1>10, <1>11, <1>12 DEF IInv

\* The deadline thread takes on a message.
LEMMA ReceiveScheduleKeeps ==
  ASSUME IInv, ReceiveSchedule
  PROVE  IInv'
<1> DEFINE c == Head(channel)
<1>1. Outcome' /\ Punctual' /\ Unanswered' = Unanswered
  BY QuietKeeps DEF ReceiveSchedule, IInv, Types
<1>2. /\ c \in Command /\ channel' \in Seq(Command \union {Shutdown})
      /\ c \in Range(channel)
      /\ Range(channel) = {c} \union Range(channel')
      /\ scheduled' = scheduled \union {c}
  BY TailRange DEF ReceiveSchedule, IInv, Types
<1>3. c # Shutdown
  BY DEF ReceiveSchedule
<1> HIDE DEF c
<1>4. /\ InCallback' = InCallback /\ Fresh' = Fresh /\ Unregistered' = Unregistered
      /\ Queued' = Queued /\ Watched' = Watched
  BY <1>2, <1>3 DEF ReceiveSchedule, InCallback, Fresh, Unregistered, Queued, Watched
<1>5. Types'
  BY <1>2 DEF ReceiveSchedule, IInv, Types, permission
<1>6. Places'
  BY <1>4 DEF ReceiveSchedule, IInv, Places, Known, permission
<1>7. Order' /\ Winners'
  BY <1>2 DEF ReceiveSchedule, IInv, Order, Winners, permission
<1>8. Watch'
  BY <1>1, <1>4 DEF ReceiveSchedule, IInv, Watch
<1>9. Scheduling'
  BY <1>2, <1>3 DEF ReceiveSchedule, IInv, Scheduling
<1> QED
  BY <1>1, <1>5, <1>6, <1>7, <1>8, <1>9 DEF IInv

\* Once the deadline thread drains its queue in a start that failed, nothing waits.
LEMMA GoneIsAnswered ==
  ASSUME IInv, main.pc = "gone"
  PROVE  Unanswered = {}
<1>1. queue = <<>> /\ callback = Idle
  BY DEF IInv, Order, Ended
<1>2. Queued = {} /\ InCallback = {}
  BY <1>1, EmptyRange DEF Queued, InCallback
<1>3. \A m \in Message : owner[m] \in {"new", "gone"}
  BY <1>2 DEF IInv, Order, Places
<1> QED
  BY <1>3 DEF IInv, Places, Unanswered

\* The deadline thread is done.
LEMMA StopDeadlineKeeps ==
  ASSUME IInv, StopDeadline
  PROVE  IInv'
<1>1. Outcome' /\ Punctual' /\ Unanswered' = Unanswered
  BY QuietKeeps DEF StopDeadline, IInv, Types
<1>2. /\ InCallback' = InCallback /\ Fresh' = Fresh /\ Unregistered' = Unregistered
      /\ Queued' = Queued /\ Watched' = {}
  BY EmptyRange DEF StopDeadline, InCallback, Fresh, Unregistered, Queued, Watched
<1>3. Types'
  BY DEF StopDeadline, IInv, Types, permission
<1>4. Places'
  BY <1>2 DEF StopDeadline, IInv, Places, Known, permission
<1>5. Order'
  BY EmptyRange DEF StopDeadline, IInv, Order, permission
<1>6. Winners'
  BY DEF StopDeadline, DeadlineFree, Busy, IInv, Winners, permission
<1>7. main.pc \in {"joining", "gone"}
  BY DEF StopDeadline, IInv, Order
<1>8. Watch'
  BY <1>1, <1>2, <1>7, GoneIsAnswered DEF StopDeadline, IInv, Watch
<1>9. Scheduling'
  BY EmptyRange DEF StopDeadline, IInv, Scheduling
<1> QED
  BY <1>1, <1>3, <1>4, <1>5, <1>6, <1>8, <1>9 DEF IInv

\* The loop takes an event.
LEMMA ReceiveKeeps ==
  ASSUME IInv, Receive
  PROVE  IInv'
<1> DEFINE e == Head(queue)
<1>1. /\ e \in [msg : Message, budget : Nat, at : Nat] /\ e \in Range(queue)
      /\ queue' \in Seq([msg : Message, budget : Nat, at : Nat])
      /\ Range(queue) = {e} \union Range(queue')
  BY TailRange DEF Receive, IInv, Types
<1> DEFINE m == e.msg
<1>2. /\ m \in Message /\ owner[m] # "new"
      /\ owner' = [owner EXCEPT ![m] = "main"]
      /\ prompt' = [prompt EXCEPT ![m] = IF e.budget = 0 THEN 0 ELSE now + e.budget]
  BY <1>1 DEF Receive, IInv, Places, Known, Queued
<1> HIDE DEF e
<1>3. /\ owner' \in [Message -> Thread \union {"new", "queue", "store", "gone"}]
      /\ owner'[m] = "main" /\ \A n \in Message : n # m => owner'[n] = owner[n]
      /\ prompt' \in [Message -> Nat]
  BY <1>1, <1>2 DEF IInv, Types, Thread
<1>4. Outcome' /\ Punctual' /\ Unanswered' = Unanswered
  BY <1>2, <1>3, QuietKeeps DEF Receive
<1>5. /\ InCallback' = InCallback /\ Fresh' = Fresh /\ Unregistered' = Unregistered
      /\ Watched' = Watched /\ Queued = Queued' \union {m}
  BY <1>1 DEF Receive, InCallback, Fresh, Unregistered, Watched, Queued, scheduler
<1>6. Types'
  BY <1>1, <1>3 DEF Receive, IInv, Types, permission, scheduler
<1>7. Places'
  BY <1>3, <1>5 DEF Receive, IInv, Places, Known, permission
<1>8. Order' /\ Winners'
  BY <1>3 DEF Receive, MainAt, IInv, Order, Winners, Ended, permission, scheduler
<1>9. Watch'
  BY <1>4, <1>5 DEF Receive, IInv, Watch
<1>10. Scheduling'
  BY <1>1 DEF Receive, IInv, Scheduling, scheduler
<1> QED
  BY <1>4, <1>6, <1>7, <1>8, <1>9, <1>10 DEF IInv

\* The loop ends.
LEMMA StopBackendKeeps ==
  ASSUME IInv, StopBackend
  PROVE  IInv'
<1>1. Outcome' /\ Punctual' /\ Unanswered' = Unanswered
  BY QuietKeeps DEF StopBackend, IInv, Types
<1>2. /\ channel' \in Seq(Command \union {Shutdown})
      /\ Range(channel') = Range(channel) \union {Shutdown}
  BY AppendRange DEF StopBackend, IInv, Types
<1>3. /\ InCallback' = InCallback /\ Fresh' = Fresh /\ Unregistered' = Unregistered
      /\ Queued' = Queued /\ Watched' = Watched
  BY <1>2 DEF StopBackend, InCallback, Fresh, Unregistered, Queued, Watched
<1>4. main' = [main EXCEPT !.pc = "joining"] /\ main'.pc = "joining" /\ main'.deny = main.deny
  BY DEF StopBackend, IInv, Types
<1>5. Types'
  BY <1>2, <1>4 DEF StopBackend, IInv, Types, permission
<1>6. Places'
  BY <1>3, <1>4 DEF StopBackend, IInv, Places, Known, permission
<1>7. Order'
  BY <1>4 DEF StopBackend, MainAt, IInv, Order, Ended
<1>8. Winners'
  BY <1>4 DEF StopBackend, MainAt, IInv, Order, Winners, Ended, permission
<1>9. Watch'
  BY <1>1, <1>3, <1>4 DEF StopBackend, MainAt, IInv, Watch
<1>10. Scheduling'
  BY <1>2 DEF StopBackend, IInv, Scheduling
<1> QED
  BY <1>1, <1>5, <1>6, <1>7, <1>8, <1>9, <1>10 DEF IInv

\* The scheduler is told to shut down.
LEMMA DropSchedulerKeeps ==
  ASSUME IInv, DropScheduler
  PROVE  IInv'
<1>1. Outcome' /\ Punctual' /\ Unanswered' = Unanswered
  BY QuietKeeps DEF DropScheduler, IInv, Types
<1>2. /\ channel' \in Seq(Command \union {Shutdown})
      /\ Range(channel') = Range(channel) \union {Shutdown}
  BY AppendRange DEF DropScheduler, IInv, Types
<1>3. /\ InCallback' = InCallback /\ Fresh' = Fresh /\ Unregistered' = Unregistered
      /\ Queued' = Queued /\ Watched' = Watched
  BY <1>2 DEF DropScheduler, InCallback, Fresh, Unregistered, Queued, Watched
<1>4. main' = [main EXCEPT !.pc = "gone"] /\ main'.pc = "gone" /\ main'.deny = main.deny
  BY DEF DropScheduler, IInv, Types
<1>5. Types'
  BY <1>2, <1>4 DEF DropScheduler, IInv, Types, permission
<1>6. Places'
  BY <1>3, <1>4 DEF DropScheduler, IInv, Places, Known, permission
<1>7. Order'
  BY <1>4 DEF DropScheduler, MainAt, IInv, Order, Ended
<1>8. Winners'
  BY <1>4 DEF DropScheduler, MainAt, IInv, Order, Winners, Ended, permission
<1>9. Watch'
  BY <1>1, <1>3, <1>4 DEF DropScheduler, MainAt, IInv, Watch
<1>10. Scheduling'
  BY <1>2 DEF DropScheduler, IInv, Scheduling
<1> QED
  BY <1>1, <1>5, <1>6, <1>7, <1>8, <1>9, <1>10 DEF IInv

\* The registry is emptied into the list to deny.
LEMMA DrainRegistryKeeps ==
  ASSUME IInv, DrainRegistry
  PROVE  IInv'
<1>1. Outcome' /\ Punctual' /\ Unanswered' = Unanswered
  BY QuietKeeps DEF DrainRegistry, IInv, Types
<1>2. /\ InCallback' = InCallback /\ Fresh' = Fresh /\ Unregistered' = Unregistered
      /\ Watched' = Watched /\ Queued' = Queued
  BY DEF DrainRegistry, InCallback, Fresh, Unregistered, Watched, Queued, scheduler
<1>3. Types'
  BY DEF DrainRegistry, IInv, Types, permission, scheduler
<1>4. Places'
  BY <1>2 DEF DrainRegistry, IInv, Places, Known, permission
<1>5. Order' /\ Winners'
  BY DEF DrainRegistry, MainAt, IInv, Order, Winners, Ended, permission, scheduler
<1>6. Unregistered \subseteq Fresh
  BY DEF Unregistered, Fresh
<1>7. Watch'
  BY <1>1, <1>2, <1>6 DEF DrainRegistry, MainAt, IInv, Watch
<1>8. Scheduling'
  BY DEF DrainRegistry, IInv, Scheduling, scheduler
<1> QED
  BY <1>1, <1>3, <1>4, <1>5, <1>7, <1>8 DEF IInv

\* The callback drops the message it is at.
LEMMA DropKeeps ==
  ASSUME IInv, callback # Idle, DropInCallback(callback.msg),
         registry' \in {registry, RegistryKept},
         UNCHANGED <<now, replies, scheduler, queue, prompt, main>>
  PROVE  IInv'
<1> DEFINE m == callback.msg
<1>1. m \in Message /\ callback' = Idle /\ main.pc \notin Ended
  BY DEF DropInCallback, IInv, Types, Order
<1>2. m \in InCallback /\ owner[m] # "new"
  BY <1>1 DEF InCallback, IInv, Places, Known
<1>3. /\ owner' \in [Message -> Thread \union {"new", "queue", "store", "gone"}]
      /\ owner'[m] = "gone" /\ \A n \in Message : n # m => owner'[n] = owner[n]
  BY <1>1 DEF DropInCallback, IInv, Types
<1>4. "callback" \in Thread /\ {} \in SUBSET Requested[m] /\ Claim("callback", m, {})
  BY DEF DropInCallback, Thread
<1>5. /\ Outcome' /\ Punctual' /\ Unanswered' = Unanswered \ {m}
      /\ terminal' \in [Message -> 0..2]
      /\ winner' \in [Message -> [by : Thread, at : Nat] \union {NoWinner}]
      /\ granted' \in [Message -> SUBSET Flag]
      /\ terminal'[m] # 0
      /\ \A n \in Message : terminal[n] # 0 => terminal'[n] # 0
      /\ \A n \in Message : winner'[n] = winner[n] \/ winner'[n].by = "callback"
  BY <1>1, <1>2, <1>3, <1>4, ClaimKeeps
<1>6. /\ InCallback' = {} /\ InCallback = {m} /\ Fresh' = {} /\ Fresh \subseteq {m}
      /\ Unregistered' = {} /\ Unregistered \subseteq {m}
      /\ Watched' = Watched /\ Queued' = Queued
  BY <1>1 DEF InCallback, Fresh, Unregistered, Watched, Queued, scheduler
<1>7. registry' \subseteq registry /\ registry \intersect Unanswered \subseteq registry'
  BY DEF RegistryKept, Live, Unanswered, IInv, Places
<1>8. Types'
  BY <1>1, <1>3, <1>5, <1>7 DEF IInv, Types, scheduler
<1>9. Places'
  BY <1>3, <1>5, <1>6, <1>7 DEF IInv, Places, Known
<1>10. Order'
  BY <1>1, <1>3 DEF IInv, Order, scheduler
<1>11. Winners'
  BY <1>1, <1>5, MessageAssumption DEF IInv, Winners, Ended, scheduler
<1>12. Watch'
  BY <1>5, <1>6, <1>7 DEF IInv, Watch
<1>13. Scheduling'
  BY <1>1 DEF IInv, Scheduling, scheduler
<1> QED
  BY <1>5, <1>8, <1>9, <1>10, <1>11, <1>12, <1>13 DEF IInv

\* ... for want of a place, a thread or a receiver.
LEMMA CallbackDrops ==
  ASSUME IInv, RegisterOverBound \/ ScheduleStopped \/ SendFull
  PROVE  IInv'
<1>1. CASE RegisterOverBound
  BY <1>1, DropKeeps DEF RegisterOverBound, CallbackAt, Idle
<1>2. CASE ScheduleStopped
  BY <1>2, DropKeeps DEF ScheduleStopped, CallbackAt, Idle
<1>3. CASE SendFull
  BY <1>3, DropKeeps DEF SendFull, CallbackAt, Idle
<1> QED
  BY <1>1, <1>2, <1>3

\* The deadline thread ends what is due, or left when it stops.
LEMMA DeadlineClaims ==
  ASSUME IInv, NEW s \in scheduled, ResolveDue(s) \/ Drain(s)
  PROVE  IInv'
<1> DEFINE m == s.msg
<1>1. /\ m \in Message /\ m \in Watched /\ owner[m] # "new"
      /\ scheduled' = scheduled \ {s} /\ deadline # "stopped"
      /\ UNCHANGED <<now, owner, replies, callback, registry, channel, deadline, queue, prompt, main>>
  BY DEF ResolveDue, Drain, IInv, Types, Command, Places, Known, Watched
<1>2. \/ Claim("deadline", m, {})
      \/ UNCHANGED permission /\ terminal[m] # 0
  BY <1>1 DEF ResolveDue, Drain, Live, IInv, Places
<1>3. /\ Outcome' /\ Punctual' /\ Unanswered' = Unanswered \ {m}
      /\ terminal' \in [Message -> 0..2]
      /\ winner' \in [Message -> [by : Thread, at : Nat] \union {NoWinner}]
      /\ granted' \in [Message -> SUBSET Flag]
      /\ \A n \in Message : terminal[n] # 0 => terminal'[n] # 0
      /\ \A n \in Message : winner'[n] = winner[n] \/ winner'[n].by = "deadline"
  <2>1. CASE Claim("deadline", m, {})
    <3>1. "deadline" \in Thread /\ {} \in SUBSET Requested[m]
      BY DEF Thread
    <3> QED
      BY <1>1, <2>1, <3>1, ClaimKeeps
  <2>2. CASE UNCHANGED permission /\ terminal[m] # 0
    <3>1. Unanswered = Unanswered \ {m}
      BY <2>2 DEF Unanswered
    <3> QED
      BY <1>1, <2>2, <3>1, QuietKeeps DEF permission, IInv, Types
  <2> QED
    BY <1>2, <2>1, <2>2
<1>4. /\ InCallback' = InCallback /\ Fresh' = Fresh /\ Unregistered' = Unregistered
      /\ Queued' = Queued /\ Watched' \subseteq Watched /\ Watched \subseteq Watched' \union {m}
  BY <1>1 DEF InCallback, Fresh, Unregistered, Queued, Watched
<1>5. Types'
  BY <1>1, <1>3 DEF IInv, Types
<1>6. Places'
  BY <1>1, <1>3, <1>4 DEF IInv, Places, Known
<1>7. Order'
  BY <1>1 DEF IInv, Order
<1>8. Winners'
  BY <1>1, <1>3, MessageAssumption DEF IInv, Winners, Order
<1>9. Watch'
  BY <1>1, <1>3, <1>4 DEF IInv, Watch
<1>10. Scheduling'
  BY <1>1 DEF IInv, Scheduling
<1> QED
  BY <1>3, <1>5, <1>6, <1>7, <1>8, <1>9, <1>10 DEF IInv

\* While the loop runs, it and the XPC threads end what they hold.
LEMMA ResolveKeeps ==
  ASSUME IInv, main.pc = "running", NEW t \in {"main"} \union Xpc, NEW m \in Message,
         owner[m] # "new", owner' = [owner EXCEPT ![m] = "gone"],
         NEW flags \in SUBSET Requested[m], Claim(t, m, flags),
         UNCHANGED <<now, replies, callback, registry, scheduler, queue, prompt, main>>
  PROVE  IInv'
<1>1. /\ owner' \in [Message -> Thread \union {"new", "queue", "store", "gone"}]
      /\ owner'[m] = "gone" /\ \A n \in Message : n # m => owner'[n] = owner[n]
  BY DEF IInv, Types
<1>2. t \in Thread
  BY DEF Thread
<1>3. /\ Outcome' /\ Punctual' /\ Unanswered' = Unanswered \ {m}
      /\ terminal' \in [Message -> 0..2]
      /\ winner' \in [Message -> [by : Thread, at : Nat] \union {NoWinner}]
      /\ granted' \in [Message -> SUBSET Flag]
      /\ terminal'[m] # 0
      /\ \A n \in Message : terminal[n] # 0 => terminal'[n] # 0
      /\ \A n \in Message : winner'[n] = winner[n] \/ winner'[n].by = t
  BY <1>1, <1>2, ClaimKeeps
<1>4. /\ InCallback' = InCallback /\ Fresh' = Fresh /\ Unregistered' = Unregistered
      /\ Queued' = Queued /\ Watched' = Watched
  BY DEF InCallback, Fresh, Unregistered, Queued, Watched, scheduler
<1>5. Types'
  BY <1>1, <1>3 DEF IInv, Types, scheduler
<1>6. Places'
  BY <1>1, <1>3, <1>4 DEF IInv, Places, Known
<1>7. Order'
  BY DEF IInv, Order, Ended, scheduler
<1>8. Winners'
  BY <1>3, MessageAssumption DEF IInv, Winners, Ended, scheduler
<1>9. Watch'
  BY <1>3, <1>4 DEF IInv, Watch
<1>10. Scheduling'
  BY DEF IInv, Scheduling, scheduler
<1> QED
  BY <1>3, <1>5, <1>6, <1>7, <1>8, <1>9, <1>10 DEF IInv

\* The loop decides.
LEMMA MainResolves ==
  ASSUME IInv, NEW m \in Message, Decide(m) \/ ExpirePrompt(m)
  PROVE  IInv'
<1>1. /\ main.pc = "running" /\ owner[m] # "new"
      /\ owner' = [owner EXCEPT ![m] = "gone"]
      /\ UNCHANGED <<now, replies, callback, registry, scheduler, queue, prompt, main>>
  BY DEF Decide, ExpirePrompt, MainAt, Resolve
<1>2. \E flags \in SUBSET Requested[m] : Claim("main", m, flags)
  BY DEF Decide, ExpirePrompt, Resolve, AllowReadOnly
<1> QED
  BY <1>1, <1>2, ResolveKeeps

\* A client decides.
LEMMA XpcResolves ==
  ASSUME IInv, NEW x \in Xpc, NEW m \in Message, XpcTake(x, m) \/ XpcResolve(x, m)
  PROVE  IInv'
<1>1. /\ owner[m] # "new" /\ main.pc = "running"
      /\ UNCHANGED <<now, replies, callback, registry, scheduler, queue, prompt, main>>
  BY MessageAssumption DEF XpcTake, XpcResolve, IInv, Order
<1>2. \/ /\ owner' = [owner EXCEPT ![m] = "gone"]
         /\ \E flags \in SUBSET Requested[m] : Claim(x, m, flags)
      \/ owner' = [owner EXCEPT ![m] = x] /\ UNCHANGED permission
  BY DEF XpcTake, XpcResolve, Resolve, AllowReadOnly
<1>3. CASE /\ owner' = [owner EXCEPT ![m] = "gone"]
           /\ \E flags \in SUBSET Requested[m] : Claim(x, m, flags)
  BY <1>1, <1>3, ResolveKeeps
<1>4. CASE owner' = [owner EXCEPT ![m] = x] /\ UNCHANGED permission
  <2>1. /\ owner' \in [Message -> Thread \union {"new", "queue", "store", "gone"}]
        /\ owner'[m] = x /\ \A n \in Message : n # m => owner'[n] = owner[n]
        /\ x \notin {"new", "callback", "queue", "gone"}
    BY <1>4, MessageAssumption DEF IInv, Types, Thread
  <2>2. Outcome' /\ Punctual' /\ Unanswered' = Unanswered
    BY <1>1, <1>4, <2>1, QuietKeeps
  <2>3. /\ InCallback' = InCallback /\ Fresh' = Fresh /\ Unregistered' = Unregistered
        /\ Queued' = Queued /\ Watched' = Watched
    BY <1>1 DEF InCallback, Fresh, Unregistered, Queued, Watched, scheduler
  <2>4. Types'
    BY <1>1, <1>4, <2>1 DEF IInv, Types, permission, scheduler
  <2>5. Places'
    BY <1>1, <1>4, <2>1, <2>3 DEF IInv, Places, Known, permission
  <2>6. Order' /\ Winners'
    BY <1>1, <1>4 DEF IInv, Order, Winners, Ended, permission, scheduler
  <2>7. Watch'
    BY <1>1, <2>2, <2>3 DEF IInv, Watch
  <2>8. Scheduling'
    BY <1>1 DEF IInv, Scheduling, scheduler
  <2> QED
    BY <2>2, <2>4, <2>5, <2>6, <2>7, <2>8 DEF IInv
<1> QED
  BY <1>2, <1>3, <1>4

\* What the registry held is denied.
LEMMA DenyRegisteredKeeps ==
  ASSUME IInv, NEW m \in Message, DenyRegistered(m)
  PROVE  IInv'
<1>1. /\ main.pc = "denying" /\ main'.pc = "denying" /\ main'.deny = main.deny \ {m}
      /\ m \in main.deny /\ owner[m] # "new" /\ main' = [main EXCEPT !.deny = @ \ {m}]
      /\ UNCHANGED <<now, owner, replies, callback, registry, scheduler, queue, prompt>>
  BY DEF DenyRegistered, MainAt, IInv, Types, Places, Known
<1>2. "main" \in Thread /\ {} \in SUBSET Requested[m] /\ Claim("main", m, {})
  BY DEF DenyRegistered, Thread
<1>3. /\ Outcome' /\ Punctual' /\ Unanswered' = Unanswered \ {m}
      /\ terminal' \in [Message -> 0..2]
      /\ winner' \in [Message -> [by : Thread, at : Nat] \union {NoWinner}]
      /\ granted' \in [Message -> SUBSET Flag]
      /\ \A n \in Message : terminal[n] # 0 => terminal'[n] # 0
      /\ \A n \in Message : winner'[n] = winner[n] \/ winner'[n].by = "main"
  BY <1>1, <1>2, ClaimKeeps
<1>4. /\ InCallback' = InCallback /\ Fresh' = Fresh /\ Unregistered' = Unregistered
      /\ Queued' = Queued /\ Watched' = Watched
  BY <1>1 DEF InCallback, Fresh, Unregistered, Queued, Watched, scheduler
<1>5. Types'
  BY <1>1, <1>3 DEF IInv, Types, scheduler
<1>6. Places'
  BY <1>1, <1>3, <1>4 DEF IInv, Places, Known
<1>7. Order'
  BY <1>1 DEF IInv, Order, Ended, scheduler
<1>8. Winners'
  BY <1>1, <1>3, MessageAssumption DEF IInv, Winners, Ended, scheduler
<1>9. Watch'
  BY <1>1, <1>3, <1>4 DEF IInv, Watch
<1>10. Scheduling'
  BY <1>1 DEF IInv, Scheduling, scheduler
<1> QED
  BY <1>3, <1>5, <1>6, <1>7, <1>8, <1>9, <1>10 DEF IInv

\* Events nobody will receive are dropped.
LEMMA DropQueuedKeeps ==
  ASSUME IInv, DropQueued
  PROVE  IInv'
<1> DEFINE e == Head(queue)
<1>1. /\ e \in [msg : Message, budget : Nat, at : Nat] /\ e \in Range(queue)
      /\ queue' \in Seq([msg : Message, budget : Nat, at : Nat])
      /\ Range(queue) = {e} \union Range(queue')
  BY TailRange DEF DropQueued, IInv, Types
<1> DEFINE m == e.msg
<1>2. /\ m \in Message /\ main.pc \in {"deleted", "aborted"} /\ owner[m] # "new" /\ Claim("main", m, {})
      /\ owner' = [owner EXCEPT ![m] = "gone"]
      /\ UNCHANGED <<now, replies, callback, registry, scheduler, prompt, main>>
  BY <1>1 DEF DropQueued, MainAt, IInv, Places, Known, Queued
<1> HIDE DEF e
<1>3. /\ owner' \in [Message -> Thread \union {"new", "queue", "store", "gone"}]
      /\ owner'[m] = "gone" /\ \A n \in Message : n # m => owner'[n] = owner[n]
  BY <1>2 DEF IInv, Types
<1>4. "main" \in Thread /\ {} \in SUBSET Requested[m]
  BY DEF Thread
<1>5. /\ Outcome' /\ Punctual' /\ Unanswered' = Unanswered \ {m}
      /\ terminal' \in [Message -> 0..2]
      /\ winner' \in [Message -> [by : Thread, at : Nat] \union {NoWinner}]
      /\ granted' \in [Message -> SUBSET Flag]
      /\ terminal'[m] # 0
      /\ \A n \in Message : terminal[n] # 0 => terminal'[n] # 0
      /\ \A n \in Message : winner'[n] = winner[n] \/ (n = m /\ terminal[m] = 0 /\ winner'[n].by = "main")
  BY <1>1, <1>2, <1>3, <1>4, ClaimKeeps
<1>6. /\ InCallback' = InCallback /\ Fresh' = Fresh /\ Unregistered' = Unregistered
      /\ Watched' = Watched /\ Queued = Queued' \union {m}
  BY <1>1, <1>2 DEF InCallback, Fresh, Unregistered, Watched, Queued, scheduler
<1>7. main.pc = "deleted" => terminal[m] # 0
  <2>1. main.pc = "deleted" => Fresh = {} /\ main.deny = {}
    BY DEF IInv, Order, Ended, Fresh
  <2> QED
    BY <1>1, <1>2, <2>1 DEF IInv, Watch, Unanswered
<1>8. Types'
  BY <1>1, <1>2, <1>3, <1>5 DEF IInv, Types, scheduler
<1>9. Places'
  BY <1>2, <1>3, <1>5, <1>6 DEF IInv, Places, Known
<1>10. Order'
  BY <1>2, <1>3 DEF IInv, Order, Ended, scheduler
<1>11. Winners'
  BY <1>2, <1>5, <1>7, MessageAssumption DEF IInv, Winners, Ended, scheduler
<1>12. Watch'
  BY <1>2, <1>5, <1>6 DEF IInv, Watch
<1>13. Scheduling'
  BY <1>1, <1>2 DEF IInv, Scheduling, scheduler
<1> QED
  BY <1>5, <1>8, <1>9, <1>10, <1>11, <1>12, <1>13 DEF IInv

\* A message without time for a decision is denied at once.
LEMMA DenyShortDeadlineKeeps ==
  ASSUME IInv, NEW m \in Message, DenyShortDeadline(m)
  PROVE  IInv'
<1>1. /\ owner[m] = "new" /\ terminal[m] = 0 /\ winner[m] = NoWinner /\ replies[m] = <<>>
      /\ m \notin Known
  BY DEF DenyShortDeadline, IInv, Outcome, Places
<1>2. /\ owner' \in [Message -> Thread \union {"new", "queue", "store", "gone"}]
      /\ terminal' \in [Message -> 0..2] /\ replies' \in [Message -> Seq(SUBSET Flag)]
      /\ owner'[m] = "gone" /\ terminal'[m] = 2 /\ replies'[m] # <<>>
      /\ \A n \in Message : n # m =>
           owner'[n] = owner[n] /\ terminal'[n] = terminal[n] /\ replies'[n] = replies[n]
  BY <1>1 DEF DenyShortDeadline, IInv, Types
<1>3. Unanswered' = Unanswered
  BY <1>1, <1>2 DEF Unanswered
<1>4. /\ InCallback' = InCallback /\ Fresh' = Fresh /\ Unregistered' = Unregistered
      /\ Watched' = Watched /\ Queued' = Queued
  BY DEF DenyShortDeadline, InCallback, Fresh, Unregistered, Watched, Queued, scheduler
<1>5. Types'
  BY <1>2 DEF DenyShortDeadline, IInv, Types, scheduler
<1>6. Places'
  BY <1>2, <1>4 DEF DenyShortDeadline, IInv, Places, Known
<1>7. Outcome'
  BY <1>1, <1>2 DEF DenyShortDeadline, IInv, Outcome
<1>8. Order' /\ Winners'
  BY <1>2 DEF DenyShortDeadline, IInv, Order, Winners, scheduler
<1>9. Watch'
  BY <1>3, <1>4 DEF DenyShortDeadline, IInv, Watch
<1>10. Punctual' /\ Scheduling'
  BY <1>3 DEF DenyShortDeadline, IInv, Punctual, Scheduling, scheduler
<1> QED
  BY <1>5, <1>6, <1>7, <1>8, <1>9, <1>10 DEF IInv

\* The callback retains a message.
LEMMA RetainKeeps ==
  ASSUME IInv, NEW m \in Message, Retain(m)
  PROVE  IInv'
<1> DEFINE c == [pc |-> "register", msg |-> m, budget |-> ResponseBudget(m), since |-> now]
<1>1. /\ owner[m] = "new" /\ terminal[m] = 0 /\ m \notin Known /\ callback = Idle
      /\ main.pc \notin Ended
  BY DEF Retain, Active, Ended, CallbackAt, IInv, Types, Outcome, Places, Idle
<1>2. /\ ResponseBudget(m) \in Nat \ {0} /\ now \in Nat
      /\ now + ResponseBudget(m) + Margin = Deadline[m]
  <2>1. Deadline[m] \in Nat /\ Margin \in Nat /\ now \in Nat
    BY MessageAssumption DEF IInv, Types
  <2> QED
    BY <2>1 DEF Retain, ResponseBudget, Monus
<1>3. /\ callback' = c
      /\ c \in [pc : {"register", "schedule", "send"}, msg : Message, budget : Nat \ {0}, since : Nat]
      /\ c.pc = "register" /\ c.msg = m /\ c.since = now /\ c.budget = ResponseBudget(m)
      /\ c # Idle
  BY <1>2 DEF Retain, Idle
<1> HIDE DEF c
<1>4. /\ owner' \in [Message -> Thread \union {"new", "queue", "store", "gone"}]
      /\ owner'[m] = "callback" /\ \A n \in Message : n # m => owner'[n] = owner[n]
  BY DEF Retain, IInv, Types, Thread
<1>5. Unanswered' = Unanswered \union {m}
  BY <1>1, <1>4 DEF Retain, Unanswered, permission
<1>6. /\ InCallback' = {m} /\ InCallback = {} /\ Fresh' = {m} /\ Fresh = {}
      /\ Unregistered' = {m} /\ Unregistered = {} /\ Watched' = Watched /\ Queued' = Queued
  BY <1>1, <1>3 DEF Retain, InCallback, Fresh, Unregistered, Watched, Queued, scheduler
<1>7. Types'
  BY <1>3, <1>4 DEF Retain, IInv, Types, permission, scheduler
<1>8. Places'
  BY <1>4, <1>6 DEF Retain, IInv, Places, Known, permission
<1>9. Outcome'
  BY <1>1, <1>4 DEF Retain, IInv, Outcome, permission
<1>10. Order' /\ Winners'
  BY <1>1, <1>4 DEF Retain, IInv, Order, Winners, permission, scheduler
<1>11. Watch'
  BY <1>5, <1>6 DEF Retain, IInv, Watch
<1>12. now + Margin <= Deadline[m] + 2 * Slack
  BY <1>2, MessageAssumption
<1>13. Punctual'
  BY <1>5, <1>12 DEF Retain, IInv, Punctual, permission
<1>14. now <= c.since + Slack /\ c.since + c.budget + Margin = Deadline[c.msg]
  BY <1>2, <1>3, MessageAssumption
<1>15. Scheduling'
  BY <1>3, <1>14 DEF Retain, IInv, Scheduling, scheduler
<1> QED
  BY <1>7, <1>8, <1>9, <1>10, <1>11, <1>13, <1>15 DEF IInv

\* A winner responds.
LEMMA RespondKeeps ==
  ASSUME IInv, NEW t \in Thread, NEW m \in Message, Respond(t, m)
  PROVE  IInv'
<1>1. winner[m] # NoWinner /\ replies[m] = <<>> /\ terminal[m] # 0
  BY MessageAssumption DEF Respond, NoWinner, Thread, IInv, Outcome
<1>2. /\ winner' \in [Message -> [by : Thread, at : Nat] \union {NoWinner}]
      /\ replies' \in [Message -> Seq(SUBSET Flag)]
      /\ winner'[m] = NoWinner /\ replies'[m] # <<>>
      /\ \A n \in Message : n # m => winner'[n] = winner[n] /\ replies'[n] = replies[n]
  BY <1>1 DEF Respond, IInv, Types
<1>3. /\ InCallback' = InCallback /\ Fresh' = Fresh /\ Unregistered' = Unregistered
      /\ Watched' = Watched /\ Queued' = Queued /\ Unanswered' = Unanswered
  BY DEF Respond, InCallback, Fresh, Unregistered, Watched, Queued, Unanswered, scheduler
<1>4. Types'
  BY <1>2 DEF Respond, IInv, Types, scheduler
<1>5. Places'
  BY <1>3 DEF Respond, IInv, Places, Known
<1>6. Outcome'
  BY <1>1, <1>2 DEF Respond, IInv, Outcome
<1>7. Order'
  BY DEF Respond, IInv, Order, scheduler
<1>8. NoWinner.by \notin Xpc \union {"callback", "deadline"}
  BY MessageAssumption DEF NoWinner
<1>9. Winners'
  BY <1>2, <1>8 DEF Respond, IInv, Winners, scheduler
<1>10. Watch'
  BY <1>3 DEF Respond, IInv, Watch
<1>11. Punctual' /\ Scheduling'
  BY <1>2, <1>3 DEF Respond, IInv, Punctual, Scheduling, scheduler
<1> QED
  BY <1>4, <1>5, <1>6, <1>7, <1>9, <1>10, <1>11 DEF IInv

\* Time passes while nobody is late.
LEMMA TickKeeps ==
  ASSUME IInv, Tick
  PROVE  IInv'
<1>1. /\ InCallback' = InCallback /\ Fresh' = Fresh /\ Unregistered' = Unregistered
      /\ Watched' = Watched /\ Queued' = Queued /\ Unanswered' = Unanswered
  BY DEF Tick, InCallback, Fresh, Unregistered, Watched, Queued, Unanswered, permission, scheduler
<1>2. Types' /\ Outcome' /\ Order' /\ Winners'
  BY DEF Tick, IInv, Types, Outcome, Order, Winners, permission, scheduler
<1>3. Places' /\ Watch'
  BY <1>1 DEF Tick, IInv, Places, Known, Watch, permission
<1>4. now \in Nat /\ Slack \in Nat /\ Margin \in Nat /\ now' = now + 1
  BY MessageAssumption DEF Tick, IInv, Types
<1>5. \A c \in Range(channel) \ {Shutdown} : now < c.due + Slack
  BY DEF Tick, Timely, Range
<1>6. \A s \in scheduled \union (Range(channel) \ {Shutdown}) :
        s \in Command /\ now < s.due + Slack /\ s.due + Margin <= Deadline[s.msg] + Slack
  BY <1>5, InRange DEF Tick, Timely, IInv, Scheduling, Types
<1>7. callback # Idle =>
        /\ callback.msg \in Message /\ callback.since \in Nat /\ callback.budget \in Nat
        /\ now < callback.since + Slack
        /\ callback.since + callback.budget + Margin = Deadline[callback.msg]
  BY DEF Tick, Timely, IInv, Types, Scheduling
<1>8. Scheduling'
  <2>1. callback # Idle => now' <= callback.since + Slack
    BY <1>4, <1>7
  <2>2. \A s \in scheduled \union (Range(channel) \ {Shutdown}) : now' <= s.due + Slack
    BY <1>4, <1>6 DEF Command
  <2> QED
    BY <2>1, <2>2, <1>6, <1>7 DEF Tick, IInv, Scheduling, scheduler
<1>9. ASSUME NEW m \in Unanswered
      PROVE  now' + Margin <= Deadline[m] + 2 * Slack
  <2>1. m \in Fresh \union Watched
    BY DEF Tick, Timely, IInv, Watch, Order
  <2>2. m \in Message /\ Deadline[m] \in Nat
    BY MessageAssumption DEF Unanswered
  <2>3. CASE m \in Fresh
    BY <2>2, <2>3, <1>4, <1>7 DEF Fresh
  <2>4. CASE m \in Watched
    <3>1. PICK s \in scheduled \union (Range(channel) \ {Shutdown}) : s.msg = m
      BY <2>4 DEF Watched
    <3>2. s.due \in Nat /\ now < s.due + Slack /\ s.due + Margin <= Deadline[m] + Slack
      BY <3>1, <1>6 DEF Command
    <3> QED
      BY <3>2, <2>2, <1>4
  <2> QED
    BY <2>1, <2>3, <2>4
<1>10. ASSUME NEW m \in Message, winner[m] # NoWinner
       PROVE  now' <= winner[m].at + Slack
  <2>1. now < winner[m].at + Slack /\ winner[m].at \in Nat
    BY <1>10 DEF Tick, Timely, IInv, Types
  <2> QED
    BY <2>1, <1>4
<1>11. Punctual'
  BY <1>1, <1>9, <1>10 DEF Tick, IInv, Punctual, permission
<1> QED
  BY <1>2, <1>3, <1>8, <1>11 DEF IInv

(***************************************************************************)
(* The theorems.                                                           *)
(***************************************************************************)
\* The invariant holds in every state.
THEOREM Invariance == Spec => []IInv
<1>1. IInv /\ [Next]_vars => IInv'
  <2> SUFFICES ASSUME IInv, [Next]_vars PROVE IInv'
    OBVIOUS
  <2>1. CASE UNCHANGED vars
    BY ZenonT(60), <2>1 DEF vars, permission, scheduler, IInv, Types, Places, Outcome, Order, Winners, Watch,
       Punctual, Scheduling, Unanswered, Known, InCallback, Fresh, Unregistered, Watched, Queued
  <2>2. ASSUME NEW m \in Message, DenyShortDeadline(m) \/ Retain(m) PROVE IInv'
    BY <2>2, DenyShortDeadlineKeeps, RetainKeeps
  <2>3. CASE Callback
    BY <2>3, CallbackDrops, RegisterKeeps, ScheduleKeeps, SendKeeps DEF Callback
  <2>4. CASE DeadlineThread
    BY <2>4, ReceiveScheduleKeeps, DeadlineClaims, ReceiveShutdownKeeps, StopDeadlineKeeps
    DEF DeadlineThread
  <2>5. CASE Main
    BY <2>5, StartedKeeps, ServeKeeps, ReceiveKeeps, DrainRegistryKeeps, DeleteClientKeeps,
       DropQueuedKeeps, DropSchedulerKeeps, MainResolves, ParkKeeps, DenyRegisteredKeeps DEF Main
  <2>6. CASE StopBackend \/ StartFails
    BY <2>6, StopBackendKeeps, StartFailsKeeps
  <2>7. ASSUME NEW x \in Xpc, NEW m \in Message, XpcTake(x, m) \/ XpcResolve(x, m) PROVE IInv'
    BY <2>7, XpcResolves
  <2>8. ASSUME NEW t \in Thread, NEW m \in Message, Respond(t, m) PROVE IInv'
    BY <2>8, RespondKeeps
  <2>9. CASE Tick
    BY <2>9, TickKeeps
  <2> QED
    BY <2>1, <2>2, <2>3, <2>4, <2>5, <2>6, <2>7, <2>8, <2>9 DEF Next, Callback
<1> QED
  BY InitOK, <1>1, PTL DEF Spec

-----------------------------------------------------------------------------
(***************************************************************************)
(* What follows from it.                                                   *)
(***************************************************************************)

\* RawResponseSink's comment, for every number of messages and XPC threads: the
\* client outlives every response that is pending.
LEMMA InvImpliesOutlives == IInv => ClientOutlivesResponses
<1> SUFFICES ASSUME IInv, Deleted, NEW m \in Message, owner[m] # "new"
             PROVE  replies[m] # <<>>
  BY DEF ClientOutlivesResponses
<1>1. Fresh = {} /\ main.deny = {}
  BY DEF Deleted, IInv, Order, Ended, Fresh
<1>2. terminal[m] # 0
  BY <1>1 DEF Deleted, IInv, Watch, Unanswered
<1> QED
  BY <1>2 DEF Deleted, IInv, Winners, Outcome

\* Every response is delivered to a client that exists, once it started.
THEOREM ClientOutlives == Spec => []ClientOutlivesResponses
BY InvImpliesOutlives, Invariance, PTL

\* The kernel has its answer by the deadline of the message, for every margin that
\* is at least three times what a thread may be late.
THEOREM InTime == Spec => []AnsweredInTime
<1>1. IInv => AnsweredInTime
  <2> SUFFICES ASSUME IInv, NEW m \in Message, owner[m] # "new", replies[m] = <<>>
               PROVE  now <= Deadline[m]
    BY SMTT(30), MessageAssumption DEF AnsweredInTime, IInv, Types
  <2>1. now \in Nat /\ Deadline[m] \in Nat /\ Slack \in Nat /\ Margin \in Nat /\ 3 * Slack <= Margin
    BY MessageAssumption, SlackAssumption DEF IInv, Types
  <2>2. CASE terminal[m] = 0
    <3>1. now + Margin <= Deadline[m] + 2 * Slack
      BY <2>2 DEF IInv, Punctual, Unanswered
    <3> QED
      BY <2>1, <3>1
  <2>3. CASE terminal[m] # 0
    <3>1. winner[m] # NoWinner
      BY <2>3 DEF IInv, Outcome
    <3>2. winner[m].at \in Nat
      BY <3>1 DEF IInv, Types
    <3>3. now <= winner[m].at + Slack /\ winner[m].at + Margin <= Deadline[m] + 2 * Slack
      BY <3>1 DEF IInv, Punctual
    <3> QED
      BY <2>1, <3>2, <3>3
  <2> QED
    BY <2>2, <2>3
<1> QED
  BY <1>1, Invariance, PTL

\* A prompt ends before its message's deadline, whenever the main loop came for the
\* event within the margin.
THEOREM PromptInside == Spec => PromptInsideDeadline
<1>1. IInv /\ [Next]_vars =>
        [\A m \in Message : prompt'[m] # prompt[m] /\ now <= Head(queue).at + MainSlack =>
           prompt'[m] <= Deadline[m]]_vars
  <2> SUFFICES ASSUME IInv, Next, NEW m \in Message, prompt'[m] # prompt[m],
                      now <= Head(queue).at + MainSlack
               PROVE  prompt'[m] <= Deadline[m]
    BY DEF vars
  <2>1. Receive
    BY DEF Next, DenyShortDeadline, Retain, RegisterOverBound, Register, Schedule, ScheduleStopped,
           Send, SendFull, DeadlineThread, ReceiveSchedule, ResolveDue, ReceiveShutdown, Drain,
           StopDeadline, Main, Started, Serve, Decide, Park, ExpirePrompt, StopBackend,
           DrainRegistry, DenyRegistered, DeleteClient, StartFails, DropQueued, DropScheduler,
           XpcTake, XpcResolve, Respond, Tick
  <2> DEFINE e == Head(queue)
  <2>2. /\ e \in [msg : Message, budget : Nat, at : Nat] /\ e \in Range(queue)
        /\ prompt' = [prompt EXCEPT ![e.msg] = IF e.budget = 0 THEN 0 ELSE now + e.budget]
    BY <2>1, TailRange DEF Receive, IInv, Types
  <2>3. m = e.msg /\ prompt'[m] = IF e.budget = 0 THEN 0 ELSE now + e.budget
    BY <2>2 DEF IInv, Types
  <2>4. e.budget = 0 \/ e.at + e.budget + Margin <= Deadline[m]
    BY <2>2, <2>3 DEF IInv, Scheduling
  <2>5. /\ now <= e.at + MainSlack /\ MainSlack <= Margin /\ now \in Nat /\ e.at \in Nat /\ e.budget \in Nat
        /\ MainSlack \in Nat /\ Margin \in Nat /\ Deadline[m] \in Nat
    BY <2>2, MessageAssumption, SlackAssumption DEF IInv, Types
  <2> HIDE DEF e
  <2> QED
    BY <2>3, <2>4, <2>5
<1> QED
  BY <1>1, Invariance, PTL DEF Spec, PromptInsideDeadline

-----------------------------------------------------------------------------
(***************************************************************************)
(* The race of the threads implements the contract of Endpoint Security.   *)
(***************************************************************************)
Owed == {m \in Message : owner[m] # "new" /\ replies[m] = <<>>}

\* A step that hands over no message, answers none and does not delete the
\* client is no step of the contract.
LEMMA ContractStutters ==
  ASSUME UNCHANGED replies, Deleted' = Deleted,
         \A m \in Message : owner'[m] = "new" <=> owner[m] = "new"
  PROVE  [Contract!Next]_(Contract!vars)
BY DEF Contract!vars

\* Every step of the race is a step of the contract or none.
LEMMA ContractStep ==
  ASSUME IInv, Next
  PROVE  [Contract!Next]_(Contract!vars)
<1>1. ASSUME NEW m \in Message, DenyShortDeadline(m)
      PROVE  Contract!Refuse(m)
  <2>1. replies[m] = <<>> /\ owner[m] = "new" /\ main.pc # "deleted" /\ main' = main
    BY <1>1 DEF DenyShortDeadline, Active, IInv, Outcome
  <2>2. replies' = [replies EXCEPT ![m] = <<{}>>]
    BY <1>1, <2>1 DEF DenyShortDeadline, IInv, Types
  <2>3. Owed' = Owed /\ m \notin Owed
    BY <1>1, <2>1, <2>2 DEF DenyShortDeadline, Owed, IInv, Types
  <2> QED
    BY <2>1, <2>2, <2>3 DEF Contract!Refuse, Owed, Deleted
<1>2. ASSUME NEW m \in Message, Retain(m)
      PROVE  Contract!Deliver(m)
  <2>1. replies[m] = <<>> /\ owner[m] = "new" /\ main.pc # "deleted" /\ main' = main /\ replies' = replies
    BY <1>2 DEF Retain, Active, IInv, Outcome
  <2>2. Owed' = Owed \union {m} /\ m \notin Owed
    BY <1>2, <2>1 DEF Retain, Owed, IInv, Types
  <2> QED
    BY <2>1, <2>2 DEF Contract!Deliver, Owed, Deleted
<1>3. ASSUME NEW t \in Thread, NEW m \in Message, Respond(t, m)
      PROVE  Contract!Reply(m, granted[m]) /\ granted[m] \in SUBSET Flag
  <2>1. winner[m] # NoWinner
    BY <1>3, MessageAssumption DEF Respond, NoWinner, Thread
  <2>2. replies[m] = <<>> /\ owner[m] # "new" /\ main.pc # "deleted"
    BY <2>1 DEF IInv, Outcome, Winners
  <2>3. granted[m] \subseteq Requested[m] /\ granted[m] \in SUBSET Flag
    BY DEF IInv, Types, Outcome
  <2>4. replies' = [replies EXCEPT ![m] = <<granted[m]>>]
    BY <1>3, <2>2 DEF Respond, IInv, Types
  <2>5. Owed' = Owed \ {m} /\ m \in Owed
    BY <1>3, <2>2, <2>4 DEF Respond, Owed, IInv, Types
  <2> QED
    BY <1>3, <2>2, <2>3, <2>4, <2>5 DEF Contract!Reply, Owed, Deleted, Respond
<1>4. ASSUME DeleteClient
      PROVE  Contract!Delete
  <2>1. IInv' /\ main'.pc = "deleted" /\ UNCHANGED <<owner, replies>>
    BY <1>4, DeleteClientKeeps DEF DeleteClient, IInv, Types
  <2>2. ClientOutlivesResponses'
    BY <2>1, InvImpliesOutlives, PTL
  <2>3. Owed = {} /\ Owed' = {}
    BY <2>1, <2>2 DEF ClientOutlivesResponses, Deleted, Owed
  <2> QED
    BY <2>1, <2>3 DEF Contract!Delete, Owed, Deleted
<1>5. CASE Receive \/ DropQueued
  <2>1. /\ Head(queue) \in [msg : Message, budget : Nat, at : Nat]
        /\ Head(queue) \in Range(queue)
    BY <1>5, TailRange DEF Receive, DropQueued, IInv, Types
  <2>2. owner[Head(queue).msg] # "new" /\ Head(queue).msg \in Message
    BY <2>1 DEF IInv, Places, Known, Queued
  <2>3. /\ UNCHANGED <<replies, main>>
        /\ \A m \in Message : owner'[m] = "new" <=> owner[m] = "new"
    BY <1>5, <2>2 DEF Receive, DropQueued, IInv, Types
  <2> QED
    BY <2>3, ContractStutters DEF Deleted
<1>6. CASE RegisterOverBound \/ ScheduleStopped \/ SendFull \/ Send
  <2>1. callback.msg \in Message /\ owner[callback.msg] # "new"
    BY <1>6 DEF RegisterOverBound, ScheduleStopped, SendFull, Send, CallbackAt, Idle, IInv, Types,
       Places, Known, InCallback
  <2>2. /\ UNCHANGED <<replies, main>>
        /\ \A m \in Message : owner'[m] = "new" <=> owner[m] = "new"
    BY <1>6, <2>1 DEF RegisterOverBound, ScheduleStopped, SendFull, Send, DropInCallback, IInv, Types
  <2> QED
    BY <2>2, ContractStutters DEF Deleted
<1>7. CASE \/ \E m \in Message : Decide(m) \/ Park(m) \/ ExpirePrompt(m)
           \/ \E x \in Xpc, m \in Message : XpcTake(x, m) \/ XpcResolve(x, m)
  <2>1. PICK m \in Message, by \in Xpc \union {"gone", "store"} :
          /\ UNCHANGED <<replies, main>>
          /\ owner[m] # "new" /\ owner' = [owner EXCEPT ![m] = by]
    <3>1. CASE \E m \in Message : Decide(m) \/ Park(m) \/ ExpirePrompt(m)
      BY <3>1 DEF Decide, Park, ExpirePrompt, Resolve
    <3>2. CASE \E x \in Xpc, m \in Message : XpcTake(x, m)
      <4>1. PICK x \in Xpc, m \in Message : XpcTake(x, m)
        BY <3>2
      <4>2. owner' = [owner EXCEPT ![m] = x] \/ owner' = [owner EXCEPT ![m] = "gone"]
        BY <4>1 DEF XpcTake
      <4> QED
        BY <4>1, <4>2 DEF XpcTake
    <3>3. CASE \E x \in Xpc, m \in Message : XpcResolve(x, m)
      BY <3>3, MessageAssumption DEF XpcResolve, Resolve
    <3> QED
      BY <1>7, <3>1, <3>2, <3>3
  <2>2. \A n \in Message : owner'[n] = "new" <=> owner[n] = "new"
    BY <2>1, MessageAssumption DEF IInv, Types
  <2> QED
    BY <2>1, <2>2, ContractStutters DEF Deleted
<1>8. CASE Register \/ Schedule \/ DeadlineThread \/ Tick
  <2>1. UNCHANGED <<replies, owner, main>>
    BY <1>8 DEF Register, Schedule, DeadlineThread, ReceiveSchedule, ResolveDue, ReceiveShutdown,
       Drain, StopDeadline, Tick
  <2> QED
    BY <2>1, ContractStutters DEF Deleted
<1>9. CASE \/ Started \/ Serve \/ StopBackend \/ DrainRegistry \/ StartFails \/ DropScheduler
           \/ \E m \in Message : DenyRegistered(m)
  <2>1. UNCHANGED <<replies, owner>> /\ main.pc # "deleted" /\ main'.pc # "deleted"
    BY <1>9 DEF Started, Serve, StopBackend, DrainRegistry, StartFails, DropScheduler, DenyRegistered,
       MainAt, IInv, Types
  <2> QED
    BY <2>1, ContractStutters DEF Deleted
<1>10. CASE \E m \in Message : DenyShortDeadline(m) \/ Retain(m)
  BY <1>10, <1>1, <1>2 DEF Contract!Next
<1>11. CASE \E t \in Thread, m \in Message : Respond(t, m)
  <2>1. PICK t \in Thread, m \in Message : Respond(t, m)
    BY <1>11
  <2> DEFINE flags == granted[m]
  <2>2. Contract!Reply(m, flags) /\ flags \in SUBSET Flag
    BY <2>1, <1>3
  <2> HIDE DEF flags
  <2> QED
    BY <2>2 DEF Contract!Next, Contract!Reply
<1>12. CASE DeleteClient
  BY <1>12, <1>4 DEF Contract!Next
<1> QED
  BY <1>5, <1>6, <1>7, <1>8, <1>9, <1>10, <1>11, <1>12 DEF Next, Main

\* Every message is answered once, with no more than was asked for, and the client
\* is deleted only when nothing is owed: whoever answers, in whatever order.
THEOREM ImplementsContract == Spec => ContractSpec
<1>1. Init => Contract!Init
  BY DEF Init, Contract!Init, Deleted
<1>2. IInv /\ [Next]_vars => [Contract!Next]_(Contract!vars)
  <2>1. CASE UNCHANGED vars
    BY <2>1, ContractStutters DEF vars, Deleted
  <2> QED
    BY <2>1, ContractStep
<1> QED
  BY <1>1, <1>2, Invariance, PTL DEF Spec, ContractSpec, Contract!Spec

-----------------------------------------------------------------------------
(***************************************************************************)
(* The index, for any files, directories, processes and capacity.          *)
(*                                                                         *)
(* As long as no scan is due, an inode with a secret name and others that  *)
(* no rename came too late for is known to the index (KnownOK); and a scan *)
(* that is under way knows it, or is still to meet all its secret names,   *)
(* which are fewer than its links (ScanOK).  Only a rename or a link of a  *)
(* secret makes such an inode, and that has asked for a scan (TasksOK).    *)
(***************************************************************************)

Resource == {None} \union {PathResource(n) : n \in File}

Index ==
  [files : [Ino -> Resource], aliases : [Ino -> Resource], saturated : BOOLEAN, unresolved : Nat]

IndexTypes ==
  /\ fs \in [File -> 0..MaxIno]
  /\ index \in Index
  /\ {refreshNeeded, gap} \subseteq BOOLEAN
  /\ repair \in {NoRepair} \union
       [pc : {"scan"}, todo : SUBSET File, copy : Index, links : [Ino -> Nat], nlink : [Ino -> Nat]]
  /\ task \in [Process -> {Free}
       \union [op : {"observe"}, source : Ino, resource : Resource \ {None}]
       \union [op : Operation, from : Name, to : Name, source : 0..MaxIno, served : BOOLEAN]]

\* The protected names of an inode.  One that has others too is what the
\* index is for; those a rename came too late for are left out.
Secrets(i) == Names(i) \intersect Secret
Mixed(i) == Secrets(i) # {} /\ Secrets(i) # Names(i)
Concern == {i \in Ino \ missed : Mixed(i)}

\* No scan is due.
Clean == ~refreshNeeded /\ ~gap

\* What was allowed and concerns a secret has asked for a scan; no directory
\* with a secret is on the move.
TasksOK == \A p \in Process :
  /\ task[p].op \in {"rename", "link"} =>
       {task[p].from, task[p].to} \intersect Secret = {} \/ task[p].served \/ refreshNeeded
  /\ task[p].op = "move" => Contents[task[p].from] \intersect Secret = {}

\* What the index knows after a scan, or when it is built.
KnownOK ==
  Clean /\ repair = NoRepair /\ scan # "failed" /\ ~index.saturated =>
    \A i \in Concern : Concrete(index, i) # None /\ (scan = "whole" => index.unresolved # 0)

\* What a scan knows: of an inode it has met, the resource, and fewer links
\* than it had; what it will meet of the inode is not enough.
Met(i) ==
  /\ repair.nlink[i] = 0 => repair.links[i] = 0 /\ Secrets(i) \subseteq repair.todo
  /\ repair.nlink[i] # 0 =>
       /\ Concrete(repair.copy, i) # None
       /\ repair.links[i] + Cardinality(Secrets(i) \intersect repair.todo) < repair.nlink[i]

ScanOK ==
  Clean /\ repair # NoRepair /\ ~repair.copy.saturated => \A i \in Concern : Met(i)

IndexInv == IndexTypes /\ TasksOK /\ KnownOK /\ ScanOK

-----------------------------------------------------------------------------
LEMMA SecretsAreClassified ==
  ASSUME NEW n
  PROVE  PathResource(n) # None <=> n \in Secret
BY IndexAssumption DEF PathResource, Secret

LEMMA InoIsFinite == IsFiniteSet(Ino) /\ 0 \notin Ino /\ Ino \subseteq Nat
<1>1. MaxIno \in Nat /\ 0 \in Int /\ 1 \in Int
  BY IndexAssumption
<1>2. IsFiniteSet(Ino)
  BY <1>1, FS_Interval DEF Ino
<1> QED
  BY <1>1, <1>2 DEF Ino

LEMMA NamesAreFinite ==
  ASSUME NEW i
  PROVE  /\ IsFiniteSet(Names(i)) /\ Cardinality(Names(i)) \in Nat
         /\ IsFiniteSet(Secrets(i))
<1>1. Names(i) \subseteq File /\ Secrets(i) \subseteq File
  BY DEF Names, Secrets
<1> QED
  BY <1>1, IndexAssumption, FS_Subset, FS_CardinalityType

\* observe_alias adds the inode, and forgets none, or says that it is full.
LEMMA AliasAdded ==
  ASSUME NEW idx \in Index, NEW i \in Ino, NEW r \in Resource \ {None}
  PROVE  LET found == ObserveAlias(idx, i, r) IN
           /\ found \in Index
           /\ found.unresolved = idx.unresolved
           /\ ~found.saturated => ~idx.saturated /\ Concrete(found, i) # None
           /\ \A j \in Ino : Concrete(idx, j) # None => Concrete(found, j) # None
<1>1. CASE Concrete(idx, i) # None
  BY <1>1 DEF ObserveAlias, Index
<1>2. CASE Concrete(idx, i) = None /\ AliasCount(idx) >= AliasCapacity
  <2>1. ObserveAlias(idx, i, r) = [idx EXCEPT !.saturated = TRUE]
    BY <1>2 DEF ObserveAlias
  <2> QED
    BY <2>1 DEF Index, Concrete
<1>3. CASE Concrete(idx, i) = None /\ ~(AliasCount(idx) >= AliasCapacity)
  <2>1. ObserveAlias(idx, i, r) = [idx EXCEPT !.aliases[i] = r]
    BY <1>3 DEF ObserveAlias
  <2>2. idx.files[i] = None
    BY <1>3 DEF Concrete
  <2>3. CASE idx.saturated
    BY <2>1, <2>2, <2>3 DEF Index, Concrete
  <2>4. CASE ~idx.saturated
    BY <2>1, <2>2, <2>4 DEF Index, Concrete
  <2> QED
    BY <2>3, <2>4
<1> QED
  BY <1>1, <1>2, <1>3

LEMMA ViewIsResource ==
  ASSUME IndexTypes, NEW n \in Name
  PROVE  /\ View(n) \in Resource \union {None}
         /\ n \in Secret => View(n) # None
<1>1. index \in Index /\ fs \in [File -> 0..MaxIno]
  BY DEF IndexTypes
<1>2. n \notin Dir => n \in File /\ fs[n] \in 0..MaxIno
  BY <1>1 DEF Name
<1>3. ASSUME NEW i \in Ino PROVE Concrete(index, i) \in Resource
  BY <1>1 DEF Concrete, Index
<1>4. PathResource(n) \in Resource
  <2>1. CASE n \in File
    BY <2>1 DEF Resource
  <2>2. CASE n \notin File
    BY <2>2, SecretsAreClassified, IndexAssumption DEF Resource, Secret
  <2> QED
    BY <2>1, <2>2
<1>5. ASSUME NEW i \in 0..MaxIno PROVE Classify(n, i) \in Resource /\ (n \in Secret => Classify(n, i) # None)
  <2>1. i # 0 => i \in Ino
    BY IndexAssumption DEF Ino
  <2> QED
    BY <2>1, <1>3, <1>4, SecretsAreClassified DEF Classify
<1>6. 0 \in 0..MaxIno
  BY IndexAssumption
<1> QED
  BY <1>2, <1>5, <1>6 DEF View

-----------------------------------------------------------------------------
\* What a change of the file system may do to the inodes that matter.
LEMMA Shrinks ==
  ASSUME NEW i,
         (Names(i) \intersect Secret)' \subseteq Names(i),
         (Names(i) \ Secret)' # {} => Names(i) \ Secret # {}
  PROVE  Mixed(i)' => Mixed(i) /\ Secrets(i)' \subseteq Secrets(i)
BY DEF Mixed, Secrets

OnlyShrinks == \A i \in Concern' : i \in Concern /\ Secrets(i)' \subseteq Secrets(i)

\* A rename or a link of files.  Inodes other than that of the source lose a
\* name at most; the source gains none that is secret, unless it is so.
LEMMA FileOp ==
  ASSUME IndexTypes, NEW t, t.op \in {"rename", "link"}, NEW k, fs[t.from] = k,
         t.from \in File, t.to \in File, t.to # t.from, fs' = Done(t)
  PROVE  /\ fs' \in [File -> 0..MaxIno]
         /\ \A i \in Ino \ {k} : Names(i)' \subseteq Names(i)
         /\ {t.from, t.to} \intersect Secret = {} =>
              /\ (Names(k) \intersect Secret)' \subseteq Names(k)
              /\ t.from \in Names(k) \ Secret
<1>1. fs \in [File -> 0..MaxIno] /\ 0 \in 0..MaxIno /\ k \in 0..MaxIno
  BY IndexAssumption DEF IndexTypes
<1>2. t.from \notin Dir
  BY IndexAssumption
<1>3. /\ fs' \in [File -> 0..MaxIno]
      /\ fs'[t.to] = k
      /\ fs'[t.from] \in {0, k}
      /\ \A n \in File \ {t.from, t.to} : fs'[n] = fs[n]
  <2>1. CASE t.op = "link"
    <3>1. fs' = [fs EXCEPT ![t.to] = k]
      BY <2>1 DEF Done
    <3> QED
      BY <1>1, <3>1
  <2>2. CASE t.op = "rename"
    <3>1. fs' = [fs EXCEPT ![t.to] = k, ![t.from] = 0]
      BY <1>2, <2>2 DEF Done, Renamed
    <3> QED
      BY <1>1, <3>1
  <2> QED
    BY <2>1, <2>2
<1>4. ASSUME NEW i \in Ino \ {k}, NEW n \in Names(i)' PROVE n \in Names(i)
  <2>1. n \in File /\ fs'[n] = i /\ i # 0 /\ i # k
    BY <1>4, InoIsFinite DEF Names
  <2>2. n \notin {t.from, t.to}
    BY <1>3, <2>1
  <2> QED
    BY <1>3, <2>1, <2>2 DEF Names
<1>5. ASSUME {t.from, t.to} \intersect Secret = {}, NEW n \in (Names(k) \intersect Secret)'
      PROVE  n \in Names(k)
  <2>1. n \in File /\ n \in Secret /\ fs'[n] = k
    BY <1>5 DEF Names, Secret
  <2>2. n \notin {t.from, t.to}
    BY <1>5, <2>1
  <2> QED
    BY <1>3, <2>1, <2>2 DEF Names
<1> QED
  BY <1>3, <1>4, <1>5 DEF Names

\* A directory without secrets is moved: its files keep an inode's only other
\* name, and no secret is gained.
LEMMA DirMove ==
  ASSUME IndexTypes, NEW t, t.op = "move", t.from \in Dir, fs' = Done(t)
  PROVE  /\ fs' \in [File -> 0..MaxIno]
         /\ Contents[t.from] \intersect Secret = {} =>
              \A i \in Ino : Mixed(i)' => Mixed(i) /\ Secrets(i)' \subseteq Secrets(i)
<1> DEFINE C == Contents[t.from]
           ToElsewhere(n) == CHOOSE m \in C : Elsewhere[m] = n
<1>1. fs \in [File -> 0..MaxIno] /\ 0 \in 0..MaxIno /\ C \subseteq File
  BY IndexAssumption DEF IndexTypes
<1>2. fs' = [n \in File |-> IF n \in C THEN 0
               ELSE IF \E m \in C : Elsewhere[m] = n THEN fs[ToElsewhere(n)] ELSE fs[n]]
  BY DEF Done, Renamed
<1>3. ASSUME NEW n, \E m \in C : Elsewhere[m] = n
      PROVE  ToElsewhere(n) \in C /\ Elsewhere[ToElsewhere(n)] = n
  BY <1>3
<1> HIDE DEF C, ToElsewhere
<1>4. fs' \in [File -> 0..MaxIno]
  BY <1>1, <1>2, <1>3
<1>5. \A n \in C : Elsewhere[n] \notin Secret
  BY IndexAssumption DEF C
<1>6. ASSUME C \intersect Secret = {}, NEW i \in Ino
      PROVE  Mixed(i)' => Mixed(i) /\ Secrets(i)' \subseteq Secrets(i)
  <2>1. ASSUME NEW n \in Names(i)'
        PROVE  n \in Names(i) \/ (n \notin Secret /\ \E m \in Names(i) : m \notin Secret)
    <3>1. n \in File /\ fs'[n] = i /\ i # 0
      BY <2>1, InoIsFinite DEF Names
    <3>2. n \notin C
      BY <1>2, <3>1
    <3>3. CASE \E m \in C : Elsewhere[m] = n
      <4>1. PICK m : m = ToElsewhere(n)
        OBVIOUS
      <4>2. m \in C /\ Elsewhere[m] = n /\ fs[m] = i
        BY <1>2, <1>3, <3>1, <3>2, <3>3, <4>1
      <4> QED
        BY <1>1, <1>5, <1>6, <4>2 DEF Names
    <3>4. CASE ~\E m \in C : Elsewhere[m] = n
      BY <1>2, <3>1, <3>2, <3>4 DEF Names
    <3> QED
      BY <3>3, <3>4
  <2>2. Secret' = Secret
    BY DEF Secret
  <2>3. (Names(i) \intersect Secret)' \subseteq Names(i)
    BY <2>1, <2>2
  <2>4. (Names(i) \ Secret)' # {} => Names(i) \ Secret # {}
    BY <2>1, <2>2
  <2> QED
    BY <2>3, <2>4, Shrinks
<1> QED
  BY <1>4, <1>6 DEF C

\* What is unchanged, or happens to the inodes of no concern, leaves what the
\* index and the scan know.
LEMMA FsKeeps ==
  ASSUME IndexTypes, KnownOK, ScanOK, UNCHANGED <<index, repair, scan>>,
         Clean' => Clean /\ OnlyShrinks
  PROVE  KnownOK' /\ ScanOK'
<1>1. KnownOK'
  BY DEF KnownOK, OnlyShrinks, Concrete
<1>2. ScanOK'
  <2> SUFFICES ASSUME Clean', repair # NoRepair, ~repair.copy.saturated, NEW i \in Concern'
               PROVE  Met(i)'
    BY DEF ScanOK
  <2>1. i \in Concern /\ Secrets(i)' \subseteq Secrets(i) /\ Met(i) /\ i \in Ino
    BY DEF ScanOK, OnlyShrinks, Concern
  <2>2. PICK old, new : old = Secrets(i) \intersect repair.todo /\ new = (Secrets(i) \intersect repair.todo)'
    OBVIOUS
  <2>3. /\ IsFiniteSet(old) /\ new \subseteq old
        /\ Cardinality(new) <= Cardinality(old)
        /\ Cardinality(new) \in Nat /\ Cardinality(old) \in Nat
    <3>1. IsFiniteSet(old) /\ new \subseteq old
      BY <2>1, <2>2, NamesAreFinite, FS_Intersection
    <3> QED
      BY <3>1, FS_Subset, FS_CardinalityType
  <2>4. repair.links[i] \in Nat /\ repair.nlink[i] \in Nat
    BY <2>1 DEF IndexTypes
  <2> QED
    BY <2>1, <2>2, <2>3, <2>4 DEF Met, Concrete
<1> QED
  BY <1>1, <1>2

\* Nothing happened to the files, and no scan is done with.
LEMMA NoFsKeeps ==
  ASSUME IndexTypes, KnownOK, ScanOK, UNCHANGED <<fs, missed, index, repair, scan>>, Clean' => Clean
  PROVE  KnownOK' /\ ScanOK'
<1>1. OnlyShrinks
  BY DEF OnlyShrinks, Concern, Mixed, Secrets, Names
<1> QED
  BY <1>1, FsKeeps

-----------------------------------------------------------------------------
OpTask == [op : Operation, from : Name, to : Name, source : 0..MaxIno, served : BOOLEAN]
SeenTask == [op : {"observe"}, source : Ino, resource : Resource \ {None}]

LEMMA InitIsGood == IndexInit => IndexInv
<1> SUFFICES ASSUME IndexInit PROVE IndexInv
  OBVIOUS
<1> DEFINE known(i) == {n \in File : Layout[n] = i /\ PathResource(n) # None}
           apart == {i \in Ino :
             /\ \E n \in File : Layout[n] = i /\ PathResource(n) \notin {None, Ssh}
             /\ \E n \in File : Layout[n] = i /\ PathResource(n) = None}
<1>1. index = [files |-> [i \in Ino |->
                 IF known(i) = {} THEN None ELSE PathResource(CHOOSE n \in known(i) : TRUE)],
               aliases |-> NoAliases, saturated |-> FALSE, unresolved |-> Cardinality(apart)]
  BY DEF IndexInit, FromEnrollments
<1>2. ASSUME NEW i, known(i) # {}
      PROVE  /\ PathResource(CHOOSE n \in known(i) : TRUE) \in Resource
             /\ PathResource(CHOOSE n \in known(i) : TRUE) # None
  <2>1. (CHOOSE n \in known(i) : TRUE) \in known(i)
    BY <1>2
  <2> QED
    BY <2>1 DEF Resource
<1>3. Cardinality(apart) \in Nat
  <2>1. IsFiniteSet(apart)
    BY InoIsFinite, FS_Subset
  <2> QED
    BY <2>1, FS_CardinalityType
<1>4. ASSUME NEW i \in Ino, Mixed(i) PROVE known(i) # {}
  <2>1. PICK n \in File : fs[n] = i /\ n \in Secret
    BY <1>4 DEF Mixed, Secrets, Names
  <2> QED
    BY <2>1, SecretsAreClassified DEF IndexInit
<1> HIDE DEF known, apart
<1>5. index \in Index
  BY <1>1, <1>2, <1>3 DEF Index, NoAliases, Resource
<1>6. IndexTypes
  BY <1>5, IndexAssumption DEF IndexTypes, IndexInit
<1>7. TasksOK
  BY DEF TasksOK, IndexInit, Free
<1>8. KnownOK
  <2>1. ASSUME NEW i \in Concern PROVE Concrete(index, i) # None
    BY <1>1, <1>2, <1>4, <2>1 DEF Concern, Concrete
  <2> QED
    BY <2>1 DEF KnownOK, IndexInit
<1>9. ScanOK
  BY DEF ScanOK, IndexInit
<1> QED
  BY <1>6, <1>7, <1>8, <1>9 DEF IndexInv

\* A message is answered: what is allowed and concerns a secret asks for a scan.
LEMMA HandleKeeps ==
  ASSUME IndexInv, NEW p \in Process, NEW op \in Operation, NEW from \in Name, NEW to \in Name,
         HandleNamespace(p, op, from, to)
  PROVE  IndexInv'
<1> USE DEF IndexInv
<1>1. PICK t : t = [op |-> op, from |-> from, to |-> to, served |-> FALSE,
                    source |-> IF from \in Dir THEN 0 ELSE fs[from]]
  OBVIOUS
<1>2. /\ Asked(op, from, to)
      /\ UNCHANGED <<fs, index, repair, scan, missed>>
      /\ \/ /\ Authorized(p, t)
            /\ Delivery(View(from) # None \/ View(to) # None)
            /\ task' = [task EXCEPT ![p] = t]
         \/ Delivery(FALSE) /\ UNCHANGED task
  BY <1>1 DEF HandleNamespace
<1>3. t \in OpTask
  <2>1. fs \in [File -> 0..MaxIno] /\ 0 \in 0..MaxIno
    BY IndexAssumption DEF IndexTypes
  <2> QED
    BY <1>1, <2>1 DEF OpTask, Name
<1>4. /\ {refreshNeeded', gap'} \subseteq BOOLEAN
      /\ Clean' => Clean
      /\ refreshNeeded => refreshNeeded'
  BY <1>2 DEF Delivery, IndexTypes, Clean
<1>5. IndexTypes'
  <2>1. task' \in [Process -> {Free} \union SeenTask \union OpTask]
    BY <1>2, <1>3 DEF IndexTypes, SeenTask, OpTask
  <2> QED
    BY <1>2, <1>4, <2>1 DEF IndexTypes, SeenTask, OpTask
<1>6. KnownOK' /\ ScanOK'
  BY <1>2, <1>4, NoFsKeeps
<1>7. TasksOK'
  <2>1. CASE UNCHANGED task
    BY <1>4, <2>1 DEF TasksOK
  <2>2. CASE /\ Authorized(p, t)
             /\ Delivery(View(from) # None \/ View(to) # None)
             /\ task' = [task EXCEPT ![p] = t]
    <3>1. ASSUME NEW q \in Process, q # p PROVE task'[q] = task[q]
      BY <2>2, <3>1 DEF IndexTypes
    <3>2. task'[p] = t
      BY <2>2 DEF IndexTypes
    <3>3. {from, to} \intersect Secret # {} => refreshNeeded'
      BY <2>2, ViewIsResource DEF Delivery
    <3>4. ASSUME op = "move" PROVE Contents[from] \intersect Secret = {}
      <4>1. from \in Dir /\ from \notin Secret
        BY <1>2, <3>4, IndexAssumption DEF Asked, Secret
      <4>2. View(from) = None
        BY <4>1, SecretsAreClassified DEF View, Classify
      <4>3. Contains(from) => ~Authorized(p, t)
        BY <1>1, <4>2 DEF Authorized, RequiresAuthorization
      <4> QED
        BY <2>2, <4>1, <4>3, SecretsAreClassified DEF Contains
    <3> QED
      BY <1>1, <1>4, <3>1, <3>2, <3>3, <3>4 DEF TasksOK
  <2> QED
    BY <1>2, <2>1, <2>2
<1> QED
  BY <1>5, <1>6, <1>7

\* The kernel does what it asked about: a secret's inode has been scanned for
\* too early, or will be.
LEMMA HappensKeeps ==
  ASSUME IndexInv, NEW p \in Process, Happens(p)
  PROVE  IndexInv'
<1> USE DEF IndexInv
<1>1. PICK t : t = task[p]
  OBVIOUS
<1>2. /\ t.op \in Operation
      /\ task' = [task EXCEPT ![p] = Free]
      /\ UNCHANGED <<index, refreshNeeded, repair, gap, scan>>
      /\ \/ /\ Asked(t.op, t.from, t.to) /\ (t.op # "move" => fs[t.from] = t.source)
            /\ fs' = Done(t)
            /\ missed' = IF t.served THEN missed \union {t.source} ELSE missed
         \/ UNCHANGED <<fs, missed>>
  BY <1>1 DEF Happens, Operation
<1>3. t \in OpTask
  BY <1>1, <1>2 DEF IndexTypes, OpTask, Free, Operation
<1>4. TasksOK'
  <2>1. ASSUME NEW q \in Process PROVE task'[q] = task[q] \/ task'[q] = Free
    BY <1>2 DEF IndexTypes
  <2> QED
    BY <1>2, <2>1 DEF TasksOK, Free
<1>5. task' \in [Process -> {Free} \union SeenTask \union OpTask]
  BY <1>2 DEF IndexTypes, SeenTask, OpTask
<1>6. fs' \in [File -> 0..MaxIno] /\ (Clean' => OnlyShrinks)
  <2>1. CASE UNCHANGED <<fs, missed>>
    BY <2>1 DEF IndexTypes, OnlyShrinks, Concern, Mixed, Secrets, Names
  <2>2. CASE /\ Asked(t.op, t.from, t.to) /\ t.op = "move" /\ fs' = Done(t)
             /\ missed \subseteq missed'
    <3>1. t.from \in Dir /\ Contents[t.from] \intersect Secret = {}
      BY <1>1, <2>2 DEF Asked, TasksOK
    <3> QED
      BY <2>2, <3>1, DirMove DEF OnlyShrinks, Concern
  <2>3. CASE /\ Asked(t.op, t.from, t.to) /\ t.op \in {"rename", "link"} /\ fs' = Done(t)
             /\ fs[t.from] = t.source
             /\ missed' = IF t.served THEN missed \union {t.source} ELSE missed
    <3>1. PICK k : k = t.source
      OBVIOUS
    <3>2. t.from \in File /\ t.to \in File /\ t.to # t.from
      BY <2>3 DEF Asked
    <3>3. /\ fs' \in [File -> 0..MaxIno]
          /\ \A i \in Ino \ {k} : Names(i)' \subseteq Names(i)
          /\ {t.from, t.to} \intersect Secret = {} =>
               /\ (Names(k) \intersect Secret)' \subseteq Names(k)
               /\ t.from \in Names(k) \ Secret
      BY <2>3, <3>1, <3>2, FileOp
    <3>4. missed \subseteq missed' /\ (t.served => k \in missed')
      BY <2>3, <3>1
    <3>5. Clean' /\ ~t.served => {t.from, t.to} \intersect Secret = {}
      BY <1>1, <1>2, <2>3 DEF TasksOK, Clean
    <3>6. ASSUME Clean', NEW i \in Concern' PROVE i \in Concern /\ Secrets(i)' \subseteq Secrets(i)
      <4>1. i \in Ino /\ i \notin missed /\ i \notin missed' /\ Mixed(i)'
        BY <3>4, <3>6 DEF Concern
      <4>2. CASE i # k
        <5>1. Names(i)' \subseteq Names(i) /\ Secret' = Secret
          BY <3>3, <4>1, <4>2 DEF Secret
        <5>2. Mixed(i) /\ Secrets(i)' \subseteq Secrets(i)
          BY <4>1, <5>1, Shrinks
        <5> QED
          BY <4>1, <5>2 DEF Concern
      <4>3. CASE i = k
        <5>1. {t.from, t.to} \intersect Secret = {}
          BY <3>4, <3>5, <3>6, <4>1, <4>3
        <5>2. Mixed(i) /\ Secrets(i)' \subseteq Secrets(i)
          BY <3>3, <4>1, <4>3, <5>1, Shrinks
        <5> QED
          BY <4>1, <5>2 DEF Concern
      <4> QED
        BY <4>2, <4>3
    <3> QED
      BY <3>3, <3>6 DEF OnlyShrinks
  <2> QED
    BY <1>2, <2>1, <2>2, <2>3 DEF Operation
<1>7. IndexTypes'
  BY <1>2, <1>5, <1>6 DEF IndexTypes, SeenTask, OpTask
<1>8. KnownOK' /\ ScanOK'
  BY <1>2, <1>6, FsKeeps DEF Clean
<1> QED
  BY <1>4, <1>7, <1>8

\* Nobody is asked: no secret is concerned, or a message is missing.
LEMMA UnseenKeeps ==
  ASSUME IndexInv, NEW op \in Operation, NEW from \in Name, NEW to \in Name, Unseen(op, from, to)
  PROVE  IndexInv'
<1> USE DEF IndexInv
<1>1. PICK t : t = [op |-> op, from |-> from, to |-> to]
  OBVIOUS
<1>2. /\ Asked(t.op, t.from, t.to) /\ fs' = Done(t)
      /\ (~Delivered(t) /\ UNCHANGED gap) \/ gap' = TRUE
      /\ UNCHANGED <<index, refreshNeeded, repair, task, scan, missed>>
  BY <1>1 DEF Unseen
<1>3. fs' \in [File -> 0..MaxIno] /\ (Clean' => OnlyShrinks)
  <2>1. CASE op = "move"
    <3>1. t.from \in Dir /\ t.op = "move"
      BY <1>1, <1>2, <2>1 DEF Asked
    <3>2. ASSUME Clean' PROVE Contents[t.from] \intersect Secret = {}
      <4>1. t.from \notin Selected
        BY <1>2, <3>2 DEF Clean, Delivered
      <4> QED
        BY <3>1, <4>1, IndexAssumption
    <3> QED
      BY <1>2, <3>1, <3>2, DirMove DEF OnlyShrinks, Concern
  <2>2. CASE op # "move"
    <3>1. t.op \in {"rename", "link"} /\ t.from \in File /\ t.to \in File /\ t.to # t.from
      BY <1>1, <1>2, <2>2 DEF Asked, Operation
    <3>2. PICK k : k = fs[t.from]
      OBVIOUS
    <3>3. /\ fs' \in [File -> 0..MaxIno]
          /\ \A i \in Ino \ {k} : Names(i)' \subseteq Names(i)
          /\ {t.from, t.to} \intersect Secret = {} =>
               /\ (Names(k) \intersect Secret)' \subseteq Names(k)
               /\ t.from \in Names(k) \ Secret
      BY <1>2, <3>1, <3>2, FileOp
    <3>4. ASSUME Clean' PROVE {t.from, t.to} \intersect Secret = {}
      <4>1. t.from \notin Selected /\ t.to \notin Selected
        BY <1>2, <3>4 DEF Clean, Delivered
      <4> QED
        BY <4>1, IndexAssumption
    <3>5. ASSUME Clean', NEW i \in Concern' PROVE i \in Concern /\ Secrets(i)' \subseteq Secrets(i)
      <4>1. i \in Ino /\ i \notin missed /\ Mixed(i)' /\ Secret' = Secret
        BY <1>2, <3>5 DEF Concern, Secret
      <4>2. Mixed(i) /\ Secrets(i)' \subseteq Secrets(i)
        BY <3>3, <3>4, <3>5, <4>1, Shrinks
      <4> QED
        BY <4>1, <4>2 DEF Concern
    <3> QED
      BY <3>3, <3>5 DEF OnlyShrinks
  <2> QED
    BY <2>1, <2>2
<1>4. IndexTypes'
  BY <1>2, <1>3 DEF IndexTypes
<1>5. Clean' => Clean
  BY <1>2 DEF Clean
<1>6. KnownOK' /\ ScanOK'
  BY <1>2, <1>3, <1>5, FsKeeps
<1>7. TasksOK'
  BY <1>2 DEF TasksOK
<1> QED
  BY <1>4, <1>6, <1>7

\* A new inode has one name.
LEMMA CreateKeeps ==
  ASSUME IndexInv, NEW n \in File, Create(n)
  PROVE  IndexInv'
<1> USE DEF IndexInv
<1>1. PICK k : k = Min(FreeIno)
  OBVIOUS
<1>2. k \in Ino /\ Names(k) = {}
  <2>1. FreeIno \subseteq Nat /\ FreeIno # {}
    BY InoIsFinite DEF FreeIno, Create
  <2> QED
    BY <1>1, <2>1, MinIn DEF FreeIno
<1>3. /\ fs' = [fs EXCEPT ![n] = k]
      /\ UNCHANGED <<index, refreshNeeded, repair, task, gap, scan, missed>>
  BY <1>1 DEF Create
<1>4. fs \in [File -> 0..MaxIno] /\ k \in 0..MaxIno
  BY <1>2, IndexAssumption DEF IndexTypes, Ino
<1>5. fs' \in [File -> 0..MaxIno] /\ fs'[n] = k /\ \A m \in File \ {n} : fs'[m] = fs[m]
  BY <1>3, <1>4
<1>6. OnlyShrinks
  <2> SUFFICES ASSUME NEW i \in Concern' PROVE i \in Concern /\ Secrets(i)' \subseteq Secrets(i)
    BY DEF OnlyShrinks
  <2>1. i \in Ino /\ i \notin missed /\ Mixed(i)' /\ Secret' = Secret
    BY <1>3 DEF Concern, Secret
  <2>2. i # k
    <3>1. Names(k)' \subseteq {n}
      BY <1>2, <1>5 DEF Names
    <3> QED
      BY <2>1, <3>1 DEF Mixed, Secrets
  <2>3. Names(i)' \subseteq Names(i)
    BY <1>5, <2>2 DEF Names
  <2>4. Mixed(i) /\ Secrets(i)' \subseteq Secrets(i)
    BY <2>1, <2>3, Shrinks
  <2> QED
    BY <2>1, <2>4 DEF Concern
<1>7. IndexTypes'
  BY <1>3, <1>5 DEF IndexTypes
<1>8. KnownOK' /\ ScanOK'
  BY <1>3, <1>6, FsKeeps DEF Clean
<1>9. TasksOK'
  BY <1>3 DEF TasksOK
<1> QED
  BY <1>7, <1>8, <1>9

LEMMA UnlinkKeeps ==
  ASSUME IndexInv, NEW n \in File, Unlink(n)
  PROVE  IndexInv'
<1> USE DEF IndexInv
<1>1. /\ fs' = [fs EXCEPT ![n] = 0]
      /\ UNCHANGED <<index, refreshNeeded, repair, task, gap, scan, missed>>
  BY DEF Unlink
<1>2. fs' \in [File -> 0..MaxIno] /\ fs'[n] = 0 /\ \A m \in File \ {n} : fs'[m] = fs[m]
  BY <1>1, IndexAssumption DEF IndexTypes
<1>3. OnlyShrinks
  <2> SUFFICES ASSUME NEW i \in Concern' PROVE i \in Concern /\ Secrets(i)' \subseteq Secrets(i)
    BY DEF OnlyShrinks
  <2>1. i \in Ino /\ i # 0 /\ i \notin missed /\ Mixed(i)' /\ Secret' = Secret
    BY <1>1, InoIsFinite DEF Concern, Secret
  <2>2. Names(i)' \subseteq Names(i)
    BY <1>2, <2>1 DEF Names
  <2>3. Mixed(i) /\ Secrets(i)' \subseteq Secrets(i)
    BY <2>1, <2>2, Shrinks
  <2> QED
    BY <2>1, <2>3 DEF Concern
<1>4. IndexTypes'
  BY <1>1, <1>2 DEF IndexTypes
<1>5. KnownOK' /\ ScanOK'
  BY <1>1, <1>3, FsKeeps DEF Clean
<1>6. TasksOK'
  BY <1>1 DEF TasksOK
<1> QED
  BY <1>4, <1>5, <1>6

\* An open finds an inode that is not in the index ...
LEMMA OpenKeeps ==
  ASSUME IndexInv, NEW p \in Process, NEW n \in File, Open(p, n)
  PROVE  IndexInv'
<1> USE DEF IndexInv
<1>1. PICK t : t = [op |-> "observe", source |-> fs[n], resource |-> View(n)]
  OBVIOUS
<1>2. /\ Exists(n) /\ View(n) # None
      /\ Delivery(FALSE)
      /\ task' = [task EXCEPT ![p] = t]
      /\ UNCHANGED <<fs, index, repair, scan, missed>>
  BY <1>1 DEF Open
<1>3. t \in SeenTask
  <2>1. fs[n] \in 0..MaxIno /\ fs[n] # 0
    BY <1>2, IndexAssumption DEF IndexTypes, Exists
  <2>2. fs[n] \in Ino
    BY <2>1, IndexAssumption DEF Ino
  <2>3. View(n) \in Resource
    BY ViewIsResource DEF Name, Resource
  <2> QED
    BY <1>1, <1>2, <2>2, <2>3 DEF SeenTask
<1>4. /\ {refreshNeeded', gap'} \subseteq BOOLEAN
      /\ Clean' => Clean
      /\ refreshNeeded => refreshNeeded'
  BY <1>2 DEF Delivery, IndexTypes, Clean
<1>5. IndexTypes'
  <2>1. task' \in [Process -> {Free} \union SeenTask \union OpTask]
    BY <1>2, <1>3 DEF IndexTypes, SeenTask, OpTask
  <2> QED
    BY <1>2, <1>4, <2>1 DEF IndexTypes, SeenTask, OpTask
<1>6. KnownOK' /\ ScanOK'
  BY <1>2, <1>4, NoFsKeeps
<1>7. TasksOK'
  <2>1. ASSUME NEW q \in Process PROVE task'[q] = task[q] \/ task'[q].op = "observe"
    BY <1>1, <1>2 DEF IndexTypes
  <2> QED
    BY <1>4, <2>1 DEF TasksOK
<1> QED
  BY <1>5, <1>6, <1>7

\* ... and adds it.
LEMMA ObserveKeeps ==
  ASSUME IndexInv, NEW p \in Process, Observe(p)
  PROVE  IndexInv'
<1> USE DEF IndexInv
<1>1. PICK t : t = task[p]
  OBVIOUS
<1>2. /\ t.op = "observe"
      /\ index' = ObserveAlias(index, t.source, t.resource)
      /\ task' = [task EXCEPT ![p] = Free]
      /\ UNCHANGED <<fs, refreshNeeded, repair, gap, scan, missed>>
  BY <1>1 DEF Observe
<1>3. t.source \in Ino /\ t.resource \in Resource \ {None} /\ index \in Index
  BY <1>1, <1>2 DEF IndexTypes, Free, Operation
<1>4. /\ index' \in Index
      /\ index'.unresolved = index.unresolved
      /\ ~index'.saturated => ~index.saturated
      /\ \A j \in Ino : Concrete(index, j) # None => Concrete(index', j) # None
  BY <1>2, <1>3, AliasAdded
<1>5. IndexTypes'
  BY <1>2, <1>4 DEF IndexTypes
<1>6. Concern' = Concern
  BY <1>2 DEF Concern, Mixed, Secrets, Names
<1>7. KnownOK'
  BY <1>2, <1>4, <1>6 DEF KnownOK, Clean, Concern
<1>8. ScanOK'
  BY <1>2, <1>6 DEF ScanOK, Clean, Met, Secrets, Names
<1>9. TasksOK'
  <2>1. ASSUME NEW q \in Process PROVE task'[q] = task[q] \/ task'[q] = Free
    BY <1>2 DEF IndexTypes
  <2> QED
    BY <1>2, <2>1 DEF TasksOK, Free
<1> QED
  BY <1>5, <1>7, <1>8, <1>9

-----------------------------------------------------------------------------
\* A scan starts with everything to meet, and serves whoever has asked.
LEMMA RepairStartsKeeps ==
  ASSUME IndexInv, RepairStarts
  PROVE  IndexInv'
<1> USE DEF IndexInv
<1>1. PICK copy : copy = [index EXCEPT !.aliases = NoAliases, !.saturated = FALSE, !.unresolved = 0]
  OBVIOUS
<1>2. /\ repair' = [pc |-> "scan", todo |-> ScanRoots, copy |-> copy,
                    links |-> [i \in Ino |-> 0], nlink |-> [i \in Ino |-> 0]]
      /\ task' = [p \in Process |->
           IF task[p].op \in Operation THEN [task[p] EXCEPT !.served = TRUE] ELSE task[p]]
      /\ UNCHANGED <<fs, index, gap, scan>> /\ refreshNeeded' = FALSE
  BY <1>1 DEF RepairStarts, Operation
<1>3. copy \in Index
  BY <1>1 DEF IndexTypes, Index, NoAliases, Resource
<1>4. ASSUME NEW p \in Process
      PROVE  \/ task'[p] = task[p] /\ task[p].op \notin Operation
             \/ /\ task[p] \in OpTask /\ task'[p] \in OpTask
                /\ task'[p].served /\ task'[p].op = task[p].op /\ task'[p].from = task[p].from
  <2>1. task[p].op \in Operation => task[p] \in OpTask
    BY DEF IndexTypes, OpTask, Operation, Free
  <2> QED
    BY <1>2, <2>1 DEF OpTask
<1>5. TasksOK'
  BY <1>4 DEF TasksOK, Operation
<1>6. IndexTypes'
  <2>1. task' \in [Process -> {Free} \union SeenTask \union OpTask]
    BY <1>2, <1>4 DEF IndexTypes, SeenTask, OpTask
  <2>2. repair' \in [pc : {"scan"}, todo : SUBSET File, copy : Index,
                     links : [Ino -> Nat], nlink : [Ino -> Nat]]
    BY <1>2, <1>3 DEF ScanRoots
  <2> QED
    BY <1>2, <2>1, <2>2 DEF IndexTypes, SeenTask, OpTask
<1>7. KnownOK'
  BY <1>2 DEF KnownOK, NoRepair
<1>8. ScanOK'
  <2>1. ASSUME NEW i \in Ino PROVE Met(i)'
    <3>1. Secrets(i)' \subseteq ScanRoots
      BY DEF Secrets, Names, Secret, ScanRoots
    <3> QED
      BY <1>2, <3>1 DEF Met
  <2> QED
    BY <2>1 DEF ScanOK, Concern
<1> QED
  BY <1>5, <1>6, <1>7, <1>8

\* The scan meets a name.  A secret one counts as a link of its inode, and is
\* no longer to be met.
LEMMA ScanKeeps ==
  ASSUME IndexInv, NEW n \in File, Scan(n)
  PROVE  IndexInv'
<1> USE DEF IndexInv
<1>1. PICK i, old, new : i = fs[n] /\ old = repair /\ new = repair'
  OBVIOUS
<1>2. PICK found : found = ObserveAlias(old.copy, i, PathResource(n))
  OBVIOUS
<1>3. /\ old.pc = "scan" /\ n \in old.todo
      /\ new = IF i = 0 \/ PathResource(n) = None THEN [old EXCEPT !.todo = @ \ {n}]
               ELSE [old EXCEPT
                 !.copy = found,
                 !.todo = IF found.saturated THEN {} ELSE @ \ {n},
                 !.links[i] = @ + 1,
                 !.nlink[i] = IF @ = 0 THEN Cardinality(Names(i)) ELSE @]
      /\ UNCHANGED <<fs, index, refreshNeeded, task, gap, scan, missed>>
  BY <1>1, <1>2 DEF Scan
<1> DEFINE Scanning == [pc : {"scan"}, todo : SUBSET File, copy : Index,
                        links : [Ino -> Nat], nlink : [Ino -> Nat]]
<1>4. old \in Scanning /\ fs \in [File -> 0..MaxIno]
  BY <1>1, <1>3 DEF IndexTypes, NoRepair
<1>5. TasksOK' /\ Concern' = Concern
  BY <1>3 DEF TasksOK, Concern, Mixed, Secrets, Names
<1>6. KnownOK'
  <2>1. new.pc = "scan"
    BY <1>3, <1>4
  <2> QED
    BY <1>1, <2>1 DEF KnownOK, NoRepair
<1>7. CASE i = 0 \/ PathResource(n) = None
  <2>1. /\ new.todo = old.todo \ {n} /\ new \in Scanning
        /\ new.copy = old.copy /\ new.links = old.links /\ new.nlink = old.nlink
    BY <1>3, <1>4, <1>7
  <2>2. ASSUME NEW j \in Concern PROVE Secrets(j)' = Secrets(j) /\ n \notin Secrets(j)
    <3>1. j # 0 /\ j \in Ino
      BY <2>2, InoIsFinite DEF Concern
    <3> QED
      BY <1>1, <1>3, <1>7, <3>1, SecretsAreClassified DEF Secrets, Names, Secret
  <2>3. ScanOK'
    <3>1. ASSUME ~old.copy.saturated, Clean, NEW j \in Concern PROVE Met(j)'
      <4>1. Met(j)
        BY <1>1, <1>4, <3>1 DEF ScanOK, NoRepair
      <4>2. Secrets(j)' \intersect new.todo = Secrets(j) \intersect old.todo
        BY <2>1, <2>2
      <4> QED
        BY <1>1, <2>1, <2>2, <4>1, <4>2 DEF Met
    <3> QED
      BY <1>1, <1>3, <1>5, <2>1, <3>1 DEF ScanOK, Clean
  <2>4. IndexTypes'
    BY <1>1, <1>3, <2>1 DEF IndexTypes
  <2> QED
    BY <1>5, <1>6, <2>3, <2>4
<1>8. CASE i # 0 /\ PathResource(n) # None
  <2>1. i \in Ino /\ PathResource(n) \in Resource \ {None} /\ n \in Secrets(i)
    BY <1>1, <1>4, <1>8, IndexAssumption, SecretsAreClassified DEF Ino, Resource, Secrets, Names
  <2>2. /\ found \in Index
        /\ ~found.saturated => ~old.copy.saturated /\ Concrete(found, i) # None
        /\ \A j \in Ino : Concrete(old.copy, j) # None => Concrete(found, j) # None
    BY <1>2, <1>4, <2>1, AliasAdded
  <2>3. PICK links, nlink, todo :
          /\ links = [old.links EXCEPT ![i] = old.links[i] + 1]
          /\ nlink = [old.nlink EXCEPT ![i] = IF old.nlink[i] = 0 THEN Cardinality(Names(i)) ELSE old.nlink[i]]
          /\ todo = IF found.saturated THEN {} ELSE old.todo \ {n}
    OBVIOUS
  <2>4. new = [pc |-> "scan", todo |-> todo, copy |-> found, links |-> links, nlink |-> nlink]
    BY <1>3, <1>4, <1>8, <2>3
  <2>5. Cardinality(Names(i)) \in Nat
    BY NamesAreFinite
  <2>6. links \in [Ino -> Nat] /\ nlink \in [Ino -> Nat] /\ todo \in SUBSET File
    BY <1>4, <2>1, <2>3, <2>5
  <2>7. IndexTypes'
    <3>1. new \in Scanning
      BY <2>2, <2>4, <2>6
    <3>2. new \in {NoRepair} \union Scanning
      BY <3>1
    <3> HIDE DEF Scanning
    <3>3. repair' \in {NoRepair} \union Scanning
      BY <1>1, <3>2
    <3> USE DEF Scanning
    <3> QED
      BY <1>3, <3>3 DEF IndexTypes
  <2>8. ASSUME ~found.saturated, Clean, NEW j \in Concern PROVE Met(j)'
    <3>1. Met(j) /\ j \in Ino /\ Mixed(j)
      BY <1>1, <1>4, <2>2, <2>8 DEF ScanOK, NoRepair, Concern
    <3>2. Secrets(j)' = Secrets(j)
      BY <1>3 DEF Secrets, Names
    <3>3. CASE j # i
      <4>1. n \notin Secrets(j)
        BY <1>1, <3>3 DEF Secrets, Names
      <4>2. Secrets(j)' \intersect todo = Secrets(j) \intersect old.todo
        BY <2>3, <2>8, <3>2, <4>1
      <4>3. links[j] = old.links[j] /\ nlink[j] = old.nlink[j]
        BY <1>4, <2>3, <3>1, <3>3
      <4>4. Concrete(old.copy, j) # None => Concrete(found, j) # None
        BY <2>2, <3>1
      <4>5. Secrets(j) \subseteq old.todo => Secrets(j)' \subseteq todo
        BY <2>3, <2>8, <3>2, <4>1
      <4> QED
        BY <1>1, <2>4, <3>1, <4>2, <4>3, <4>4, <4>5 DEF Met
    <3>4. CASE j = i
      <4>1. PICK met, left, all :
              /\ met = Secrets(i) \intersect old.todo /\ left = Secrets(i)' \intersect todo
              /\ all = Names(i)
        OBVIOUS
      <4>2. left = met \ {n} /\ n \in met /\ met \subseteq Secrets(i)
        BY <1>3, <2>1, <2>3, <2>8, <3>2, <3>4, <4>1
      <4>3. /\ IsFiniteSet(met) /\ Cardinality(left) = Cardinality(met) - 1
            /\ Cardinality(met) \in Nat /\ Cardinality(met) # 0
        <5>1. IsFiniteSet(met)
          BY <4>2, NamesAreFinite, FS_Subset
        <5>2. Cardinality(met) \in Nat /\ Cardinality(met) # 0
          BY <4>2, <5>1, FS_CardinalityType, FS_EmptySet
        <5>3. Cardinality(left) = Cardinality(met) - 1
          BY <4>2, <5>1, FS_RemoveElement
        <5> QED
          BY <5>1, <5>2, <5>3
      <4>4. Cardinality(met) < Cardinality(all) /\ Cardinality(all) \in Nat
        <5>1. met \subseteq all /\ met # all /\ IsFiniteSet(all)
          BY <3>1, <3>4, <4>1, <4>2, NamesAreFinite DEF Mixed, Secrets
        <5> QED
          BY <4>3, <5>1, FS_Subset, FS_CardinalityType
      <4>5. links[i] = old.links[i] + 1 /\ old.links[i] \in Nat /\ old.nlink[i] \in Nat
        BY <1>4, <2>1, <2>3
      <4>6. nlink[i] = IF old.nlink[i] = 0 THEN Cardinality(all) ELSE old.nlink[i]
        BY <1>4, <2>1, <2>3, <4>1
      <4>7. /\ old.nlink[i] = 0 => old.links[i] = 0
            /\ old.nlink[i] # 0 => old.links[i] + Cardinality(met) < old.nlink[i]
        BY <1>1, <3>1, <3>4, <4>1 DEF Met
      <4>8. nlink[i] # 0 /\ links[i] + Cardinality(left) < nlink[i]
        BY <4>3, <4>4, <4>5, <4>6, <4>7
      <4>9. new.nlink = nlink /\ new.links = links /\ new.copy = found /\ new.todo = todo
        BY <2>4
      <4> QED
        BY <1>1, <2>2, <2>8, <3>4, <4>1, <4>8, <4>9 DEF Met
    <3> QED
      BY <3>3, <3>4
  <2>9. ScanOK'
    BY <1>1, <1>3, <1>5, <2>4, <2>8 DEF ScanOK, Clean
  <2> QED
    BY <1>5, <1>6, <2>7, <2>9
<1> QED
  BY <1>7, <1>8

\* A scan that met everything knows what it has to.
LEMMA RepairEndsKeeps ==
  ASSUME IndexInv, RepairEnds
  PROVE  IndexInv'
<1> USE DEF IndexInv
<1> DEFINE short == {i \in Ino : Concrete(repair.copy, i) # None /\ repair.links[i] < repair.nlink[i]}
<1>1. /\ repair.pc = "scan" /\ repair.todo = {}
      /\ index' = [repair.copy EXCEPT !.unresolved = Unresolved]
      /\ repair' = NoRepair
      /\ UNCHANGED <<fs, refreshNeeded, task, gap, missed>>
  BY DEF RepairEnds
<1>2. repair.copy \in Index /\ repair.links \in [Ino -> Nat] /\ repair.nlink \in [Ino -> Nat]
  BY <1>1 DEF IndexTypes, NoRepair
<1>3. IsFiniteSet(short) /\ Cardinality(short) \in Nat /\ (short # {} => Cardinality(short) # 0)
  <2>1. IsFiniteSet(short)
    BY InoIsFinite, FS_Subset
  <2> QED
    BY <2>1, FS_CardinalityType, FS_EmptySet
<1>4. Unresolved \in Nat /\ (~repair.copy.saturated => Unresolved = Cardinality(short))
  BY <1>3 DEF Unresolved
<1> HIDE DEF short
<1>5. /\ index' \in Index /\ index'.unresolved = Unresolved
      /\ index'.saturated = repair.copy.saturated
      /\ \A i \in Ino : Concrete(index', i) = Concrete(repair.copy, i)
  BY <1>1, <1>2, <1>4 DEF Index, Concrete
<1>6. IndexTypes'
  BY <1>1, <1>5 DEF IndexTypes
<1>7. TasksOK' /\ Concern' = Concern /\ ScanOK'
  BY <1>1 DEF TasksOK, Concern, Mixed, Secrets, Names, ScanOK
<1>8. KnownOK'
  <2>1. ASSUME Clean, ~repair.copy.saturated, NEW i \in Concern
        PROVE  Concrete(repair.copy, i) # None /\ Unresolved # 0
    <3>1. Met(i) /\ i \in Ino /\ Secrets(i) # {}
      BY <1>1, <2>1 DEF ScanOK, NoRepair, Concern, Mixed
    <3>2. repair.nlink[i] # 0
      BY <1>1, <3>1 DEF Met
    <3>3. Secrets(i) \intersect repair.todo = {} /\ Cardinality({}) = 0
      BY <1>1, FS_EmptySet
    <3>4. repair.links[i] \in Nat /\ repair.nlink[i] \in Nat
      BY <1>2, <3>1
    <3>5. Concrete(repair.copy, i) # None /\ repair.links[i] < repair.nlink[i]
      BY <3>1, <3>2, <3>3, <3>4 DEF Met
    <3> QED
      BY <1>3, <1>4, <2>1, <3>1, <3>5 DEF short
  <2> QED
    BY <1>1, <1>5, <1>7, <2>1 DEF KnownOK, Clean, Concern
<1> QED
  BY <1>6, <1>7, <1>8

LEMMA RepairFailsKeeps ==
  ASSUME IndexInv, RepairFails
  PROVE  IndexInv'
<1>1. /\ repair' = NoRepair /\ scan' = "failed"
      /\ UNCHANGED <<fs, index, refreshNeeded, task, gap, missed>>
  BY DEF RepairFails
<1> QED
  BY <1>1 DEF IndexInv, IndexTypes, TasksOK, KnownOK, ScanOK

\* Each step keeps what the index knows.
LEMMA IndexStep == IndexInv /\ [IndexNext]_indexVars => IndexInv'
<1> SUFFICES ASSUME IndexInv, [IndexNext]_indexVars PROVE IndexInv'
  OBVIOUS
<1>1. CASE UNCHANGED indexVars
  <2>1. UNCHANGED <<fs, index, refreshNeeded, repair, task, gap, scan, missed>>
    BY <1>1 DEF indexVars
  <2>2. IndexTypes' /\ TasksOK'
    BY <2>1 DEF IndexInv, IndexTypes, TasksOK
  <2>3. KnownOK' /\ ScanOK'
    BY <2>1, NoFsKeeps DEF IndexInv, Clean
  <2> QED
    BY <2>2, <2>3 DEF IndexInv
<1>2. ASSUME NEW p \in Process, NEW op \in Operation, NEW from \in Name, NEW to \in Name,
             HandleNamespace(p, op, from, to)
      PROVE  IndexInv'
  BY <1>2, HandleKeeps
<1>3. ASSUME NEW p \in Process, Happens(p) \/ Observe(p) \/ \E n \in File : Open(p, n)
      PROVE  IndexInv'
  BY <1>3, HappensKeeps, ObserveKeeps, OpenKeeps
<1>4. ASSUME NEW op \in Operation, NEW from \in Name, NEW to \in Name, Unseen(op, from, to)
      PROVE  IndexInv'
  BY <1>4, UnseenKeeps
<1>5. ASSUME NEW n \in File, Create(n) \/ Unlink(n) \/ Scan(n)
      PROVE  IndexInv'
  BY <1>5, CreateKeeps, UnlinkKeeps, ScanKeeps
<1>6. ASSUME RepairStarts \/ RepairEnds \/ RepairFails
      PROVE  IndexInv'
  BY <1>6, RepairStartsKeeps, RepairEndsKeeps, RepairFailsKeeps
<1> QED
  BY <1>1, <1>2, <1>3, <1>4, <1>5, <1>6 DEF IndexNext

-----------------------------------------------------------------------------
\* What the index knows, and a scan has met, at any time.
THEOREM IndexInvariance == IndexSpec => []IndexInv
<1> QED
  BY InitIsGood, IndexStep, PTL DEF IndexSpec

\* Once nothing is left to repair, a file with a protected name is recognised
\* under its other names, and the backend says so if one of them is outside
\* what it protects, whatever was renamed, linked, dropped or opened while it
\* scanned.
THEOREM SettledIndexIsTrue == IndexSpec => []IndexIsTrueWhenSettled
<1>1. IndexInv => IndexIsTrueWhenSettled
  <2> SUFFICES ASSUME IndexInv, Settled, NEW i \in Exposed \ missed
               PROVE  /\ \A n \in Names(i) \intersect Selected : Classify(n, i) # None
                      /\ (scan = "whole" /\ index.unresolved = 0) =>
                           \A n \in Names(i) : PathResource(n) # None
    BY DEF IndexIsTrueWhenSettled
  <2>1. i \in Ino /\ i # 0 /\ i \notin missed /\ Secrets(i) # {}
    BY InoIsFinite, SecretsAreClassified DEF Exposed, Secrets
  <2>2. CASE i \in Concern
    <3>1. Concrete(index, i) # None /\ (scan = "whole" => index.unresolved # 0)
      BY <2>2 DEF IndexInv, KnownOK, Settled, Clean
    <3> QED
      BY <2>1, <3>1 DEF Classify
  <2>3. CASE i \notin Concern
    <3>1. Names(i) \subseteq Secret
      BY <2>1, <2>3 DEF Concern, Mixed, Secrets
    <3> QED
      BY <3>1, SecretsAreClassified DEF Classify
  <2> QED
    BY <2>2, <2>3
<1> QED
  BY <1>1, IndexInvariance, PTL
=============================================================================
