---------------------------- MODULE DesktopProofs ----------------------------
(***************************************************************************)
(* Four safety invariants of the clients, for any number of requests,      *)
(* loads and slots, and every scene:                                       *)
(*                                                                         *)
(* SlotsAreCounted is nearly inductive (Slots); what takes an argument is  *)
(* that a handler which leaves takes a slot with it from the count of      *)
(* those that run, wherever in the list it stood.                          *)
(*                                                                         *)
(* NoStrandedChild rests on where a lease can be before the broker has     *)
(* it: with the thread that is about to answer, in the answer, in the      *)
(* broker's hands (Guarded).                                               *)
(*                                                                         *)
(* AnswersMeetTheirRequest rests on ids that each life of the extension    *)
(* gives out once (Births), and on every message being about a request     *)
(* that has arrived (Aims).  The window shows only such requests (Window), *)
(* and a Block or an Allow is about what it shows when it is sent, for at  *)
(* most one exchange of the resolving worker is open, and none once its    *)
(* dialog is gone (Exchange).                                              *)
(*                                                                         *)
(* FeedsAreComplete rests on a page having no gap to the log it will join  *)
(* (Fits), from the moment it is read: the cursor that was sent is still   *)
(* the log's while its answer is waited for (Asks), for at most one poll   *)
(* is on its way and none once its worker has given up (Trips).  What the  *)
(* notifier was answered with has all that a full page did not hide        *)
(* (NotifyTold), and rows that are written later change nothing of this    *)
(* (Grown).                                                                *)
(***************************************************************************)
EXTENDS Desktop, CollectionLemmas, FiniteSetTheorems

-----------------------------------------------------------------------------
\* Lists

\* What is left of a list when one of its positions is taken out.
LEMMA RemoveAtPlaces ==
  ASSUME NEW S, NEW s \in Seq(S), NEW i \in DOMAIN s
  PROVE  /\ RemoveAt(s, i) \in Seq(S)
         /\ Len(RemoveAt(s, i)) = Len(s) - 1
         /\ \A k \in 1..(Len(s) - 1) : RemoveAt(s, i)[k] = s[IF k < i THEN k ELSE k + 1]
<1>1. Len(s) \in Nat /\ DOMAIN s = 1..Len(s) /\ i \in 1..Len(s)
  OBVIOUS
<1> DEFINE a == SubSeq(s, 1, i - 1)  b == SubSeq(s, i + 1, Len(s))
<1>2. a \in Seq(S) /\ Len(a) = i - 1 /\ \A k \in 1..(i - 1) : a[k] = s[k]
  BY <1>1
<1>3. b \in Seq(S) /\ Len(b) = Len(s) - i /\ \A k \in 1..(Len(s) - i) : b[k] = s[k + i]
  BY <1>1
<1>4. RemoveAt(s, i) = a \o b
  BY DEF RemoveAt
<1> HIDE DEF a, b
<1>b. \A x, y \in Seq(S) : x \o y \in Seq(S) /\ Len(x \o y) = Len(x) + Len(y)
  OBVIOUS
<1>a. a \o b \in Seq(S) /\ Len(a \o b) = Len(a) + Len(b)
  BY <1>2, <1>3, <1>b
<1>5. a \o b \in Seq(S) /\ Len(a \o b) = Len(s) - 1
  BY <1>1, <1>2, <1>3, <1>a
<1>6. ASSUME NEW k \in 1..(Len(s) - 1) PROVE (a \o b)[k] = s[IF k < i THEN k ELSE k + 1]
  <2>1. CASE k < i
    BY <1>1, <1>2, <1>3, <2>1
  <2>2. CASE ~(k < i)
    <3>1. (a \o b)[k] = b[k - (i - 1)]
      BY <1>1, <1>2, <1>3, <2>2
    <3>2. k - (i - 1) \in 1..(Len(s) - i) /\ (k - (i - 1)) + i = k + 1
      BY <1>1, <2>2
    <3> QED
      BY <1>3, <2>2, <3>1, <3>2
  <2> QED
    BY <2>1, <2>2
<1> QED
  BY <1>4, <1>5, <1>6

-----------------------------------------------------------------------------
\* A list is one of what it holds.
LEMMA OwnRange ==
  ASSUME NEW S, NEW s \in Seq(S)
  PROVE  s \in Seq(Range(s))
<1>1. Len(s) \in Nat /\ DOMAIN s = 1..Len(s) /\ s \in [1..Len(s) -> S]
  OBVIOUS
<1>2. s \in [1..Len(s) -> Range(s)]
  BY <1>1 DEF Range
<1> QED
  BY <1>1, <1>2

\* Every rank below its size is that of a member of a finite set of places.
LEMMA RankTaken ==
  ASSUME NEW n \in Nat, NEW P \in SUBSET (1..n), NEW k \in 1..Cardinality(P)
  PROVE  \E i \in P : Cardinality({j \in P : j < i}) = k - 1
<1> DEFINE below(i) == {j \in P : j < i}
           c == Cardinality(P)
           T == 0..(c - 1)
           rank == [i \in P |-> Cardinality(below(i))]
<1>1. IsFiniteSet(P) /\ c \in Nat
  <2>1. IsFiniteSet(1..n)
    BY FS_Interval
  <2> QED
    BY <2>1, FS_Subset, FS_CardinalityType
<1>2. \A i \in P : i \in Nat
  OBVIOUS
<1>3. ASSUME NEW i \in P PROVE Cardinality(below(i)) \in T
  <2>1. IsFiniteSet(P \ {i}) /\ Cardinality(P \ {i}) = c - 1
    BY <1>1, FS_RemoveElement
  <2>2. below(i) \in SUBSET (P \ {i})
    BY <1>2
  <2>3. IsFiniteSet(below(i)) /\ Cardinality(below(i)) <= c - 1
    BY <2>1, <2>2, FS_Subset
  <2>4. Cardinality(below(i)) \in Nat
    BY <2>3, FS_CardinalityType
  <2> QED
    BY <1>1, <2>3, <2>4
<1>4. ASSUME NEW i \in P, NEW j \in P, i < j PROVE Cardinality(below(i)) # Cardinality(below(j))
  <2>a. \A h \in P : h < i => h < j
    BY <1>2, <1>4
  <2>b. below(i) \in SUBSET below(j) /\ below(j) \in SUBSET P
    BY <2>a
  <2>c. i \in below(j)
    BY <1>4
  <2>d. i \notin below(i)
    BY <1>2
  <2>1. below(i) \in SUBSET below(j) /\ i \in below(j) /\ i \notin below(i) /\ below(j) \in SUBSET P
    BY <2>b, <2>c, <2>d
  <2>2. IsFiniteSet(below(j))
    BY <1>1, <2>1, FS_Subset
  <2> QED
    BY <2>1, <2>2, FS_Subset
<1> HIDE DEF below
<1>5. rank \in [P -> T]
  BY <1>3
<1>6. \A i, j \in P : rank[i] = rank[j] => i = j
  <2> SUFFICES ASSUME NEW i \in P, NEW j \in P, i # j PROVE rank[i] # rank[j]
    OBVIOUS
  <2>1. i < j \/ j < i
    BY <1>2
  <2> QED
    BY <1>4, <2>1
<1>7. rank \in Injection(P, T)
  BY <1>5, <1>6 DEF Injection, IsInjective
<1>8. IsFiniteSet(T) /\ Cardinality(T) = c
  <2>1. c - 1 \in Int /\ 0 \in Int
    BY <1>1
  <2>2. IsFiniteSet(T) /\ Cardinality(T) = IF 0 > c - 1 THEN 0 ELSE (c - 1) - 0 + 1
    BY <2>1, FS_Interval
  <2> QED
    BY <1>1, <2>2
<1>9. rank \in Surjection(P, T)
  BY <1>7, <1>8, FS_Injection
<1>10. k - 1 \in T
  BY <1>1
<1>11. PICK i \in P : rank[i] = k - 1
  BY <1>9, <1>10 DEF Surjection
<1> QED
  BY <1>11 DEF below

\* What is kept of a list was in it.
LEMMA KeptIn ==
  ASSUME NEW S, NEW s \in Seq(S), NEW P \in SUBSET DOMAIN s
  PROVE  Kept(s, P) \in Seq(S)
<1>1. Len(s) \in Nat /\ DOMAIN s = 1..Len(s) /\ \A i \in DOMAIN s : s[i] \in S
  OBVIOUS
<1>2. Cardinality(P) \in Nat
  <2>1. IsFiniteSet(1..Len(s))
    BY <1>1, FS_Interval
  <2> QED
    BY <1>1, <2>1, FS_Subset, FS_CardinalityType
<1> DEFINE place(k) == CHOOSE i \in P : Cardinality({j \in P : j < i}) = k - 1
<1>3. \A k \in 1..Cardinality(P) : place(k) \in P
  BY <1>1, RankTaken
<1> HIDE DEF place
<1>4. \A k \in 1..Cardinality(P) : s[place(k)] \in S
  BY <1>1, <1>3
<1>5. [k \in 1..Cardinality(P) |-> s[place(k)]] \in Seq(S)
  BY <1>2, <1>4
<1> QED
  BY <1>5 DEF Kept, place

-----------------------------------------------------------------------------
\* What is inside is at one of three places in its handler.
Entry(e) == e \in [conn : {e.conn}, stage : {"refuse", "handle", "leave"}]

\* Who takes up a slot.
Running(s) == {i \in DOMAIN s : s[i].stage # "refuse"}

\* The inductive invariant of the slots.
Slots ==
  /\ inside \in Seq(Range(inside)) /\ \A i \in DOMAIN inside : Entry(inside[i])
  /\ active \in Nat
  /\ SlotsAreCounted

\* No more can run than are inside.
LEMMA RunningBound ==
  ASSUME NEW S, NEW s \in Seq(S)
  PROVE  IsFiniteSet(Running(s)) /\ Cardinality(Running(s)) \in Nat /\ Cardinality(Running(s)) <= Len(s)
<1>1. Len(s) \in Nat /\ DOMAIN s = 1..Len(s)
  OBVIOUS
<1>2. IsFiniteSet(1..Len(s)) /\ Cardinality(1..Len(s)) = Len(s)
  BY <1>1, FS_Interval
<1>3. Running(s) \in SUBSET (1..Len(s))
  BY <1>1 DEF Running
<1> QED
  BY <1>2, <1>3, FS_Subset, FS_CardinalityType

\* Whoever leaves, no more run than before.
LEMMA RunningLess ==
  ASSUME NEW S, NEW s \in Seq(S), NEW i \in DOMAIN s
  PROVE  Cardinality(Running(RemoveAt(s, i))) <= Cardinality(Running(s))
<1> DEFINE t == RemoveAt(s, i)
           f == [k \in Running(t) |-> IF k < i THEN k ELSE k + 1]
<1>1. Len(s) \in Nat /\ DOMAIN s = 1..Len(s)
  OBVIOUS
<1>a. /\ t \in Seq(S) /\ Len(t) = Len(s) - 1
      /\ \A k \in 1..(Len(s) - 1) : t[k] = s[IF k < i THEN k ELSE k + 1]
  BY RemoveAtPlaces
<1> HIDE DEF t
<1>2. /\ t \in Seq(S) /\ Len(t) = Len(s) - 1 /\ DOMAIN t = 1..(Len(s) - 1)
      /\ \A k \in 1..(Len(s) - 1) : t[k] = s[IF k < i THEN k ELSE k + 1]
  BY <1>1, <1>a
<1>3. \A k \in Running(t) : k \in 1..(Len(s) - 1) /\ f[k] \in Running(s)
  <2> TAKE k \in Running(t)
  <2>1. k \in 1..(Len(s) - 1) /\ t[k].stage # "refuse"
    BY <1>2 DEF Running
  <2>2. f[k] = (IF k < i THEN k ELSE k + 1) /\ f[k] \in DOMAIN s
    BY <1>1, <2>1
  <2> QED
    BY <1>2, <2>1, <2>2 DEF Running
<1>4. \A j, k \in Running(t) : f[j] = f[k] => j = k
  BY <1>3
<1>5. f \in Injection(Running(t), Running(s))
  BY <1>3, <1>4 DEF Injection, IsInjective
<1>6. IsFiniteSet(Running(s))
  BY RunningBound
<1> QED
  BY <1>5, <1>6, FS_Injection DEF t

\* Who runs is told by the stages alone.
LEMMA RunningSame ==
  ASSUME NEW s, NEW t, DOMAIN t = DOMAIN s,
         \A i \in DOMAIN s : t[i].stage # "refuse" <=> s[i].stage # "refuse"
  PROVE  Running(t) = Running(s)
BY DEF Running

-----------------------------------------------------------------------------
\* Nothing but the server's threads, a hangup and a restart changes who is inside.
LEMMA ServerSteps ==
  ASSUME [DesktopNext]_desktop
  PROVE  \/ UNCHANGED macServer
         \/ Enter \/ NoRoom \/ Handle \/ Depart
         \/ \E c \in Asker : MacTimesOut(c)
         \/ ExtensionRestarts
<1> USE DEF macVars, macServer
<1>1. CASE UNCHANGED desktop
  BY <1>1 DEF desktop
<1>2. CASE Linux(Next)
  BY <1>2 DEF Linux
<1>3. CASE Mac(MacServer)
  BY <1>3 DEF Mac, MacServer
<1>4. CASE Mac(MacNotify)
  BY <1>4 DEF Mac, MacNotify, MacNotifierPolls, MacNotifierReads
<1>5. CASE Mac(MacPollStep)
  BY <1>5 DEF Mac, MacPollStep, MacPollLists, MacPollFails
<1>6. CASE Mac(\E c \in Asker : MacAsker(c))
  BY <1>6 DEF Mac, MacAsker, PanelTimesOut, Send
<1>7. CASE Mac(CliReturns)
  BY <1>7 DEF Mac, CliReturns
<1>8. CASE Mac(\E d \in Request \union {"cli"} : Expire(d))
  BY <1>8 DEF Mac, Expire
<1>9. CASE Mac(MacEnvironment)
  BY <1>9 DEF Mac, MacEnvironment, MacArrive, MacClickAllow, CliStarts, PanelPasses, PanelRefuses, Freeze, Thaw
<1>10. CASE Shared(MacShared) \/ Shared(MacPoll) \/ Shared(Resolve)
  BY <1>10 DEF Shared
<1> QED
  BY <1>1, <1>2, <1>3, <1>4, <1>5, <1>6, <1>7, <1>8, <1>9, <1>10 DEF DesktopNext

\* Nobody is inside at the start.
LEMMA SlotsInit ==
  ASSUME DesktopInit
  PROVE  Slots
<1>1. inside = <<>> /\ active = 0
  BY DEF DesktopInit, MacInit
<1>2. Len(inside) = 0 /\ DOMAIN inside = {} /\ inside \in Seq(Range(inside))
  BY <1>1
<1>3. {i \in DOMAIN inside : inside[i].stage # "refuse"} = {}
  BY <1>2
<1> QED
  BY <1>1, <1>2, <1>3, FS_EmptySet, SlotAssumption DEF Slots, SlotsAreCounted

\* Whoever comes in or goes out is counted, and every other step leaves the server alone.
LEMMA SlotsStep ==
  ASSUME Slots, [DesktopNext]_desktop
  PROVE  Slots'
<1> DEFINE In == Range(inside)
<1>1. /\ inside \in Seq(In) /\ \A i \in DOMAIN inside : Entry(inside[i])
      /\ active \in Nat /\ active = Len(inside)
      /\ DOMAIN inside = 1..Len(inside) /\ Cardinality(Running(inside)) <= MaxConcurrent
  BY DEF Slots, SlotsAreCounted, Running
<1> HIDE DEF In
<1>r. ASSUME inside' \in Seq(Range(inside')), \A i \in DOMAIN inside' : Entry(inside'[i]),
             active' = Len(inside'), Cardinality(Running(inside')) <= MaxConcurrent
      PROVE  Slots'
  BY <1>r DEF Slots, SlotsAreCounted, Running, Entry
<1>2. CASE UNCHANGED macServer
  BY <1>2 DEF macServer, Slots, SlotsAreCounted, Entry
<1>o. ASSUME NEW i \in DOMAIN inside, inside' = RemoveAt(inside, i), active' = active - 1
      PROVE  Slots'
  <2>1. /\ inside' \in Seq(In) /\ Len(inside') = Len(inside) - 1
        /\ \A k \in 1..(Len(inside) - 1) : inside'[k] = inside[IF k < i THEN k ELSE k + 1]
    BY <1>1, <1>o, RemoveAtPlaces
  <2>2. \A k \in DOMAIN inside' : \E j \in DOMAIN inside : inside'[k] = inside[j]
    BY <1>1, <2>1
  <2>3. inside' \in Seq(Range(inside'))
    BY <2>1 DEF Range
  <2>4. Cardinality(Running(inside')) <= Cardinality(Running(inside))
    BY <1>1, <1>o, RunningLess
  <2>5. Cardinality(Running(inside')) \in Nat /\ Cardinality(Running(inside)) \in Nat
    BY <1>1, <2>1, RunningBound
  <2> QED
    BY <1>1, <1>o, <1>r, <2>1, <2>2, <2>3, <2>4, <2>5, SlotAssumption
<1>s. ASSUME DOMAIN inside' = DOMAIN inside, inside' \in Seq(Range(inside')), active' = active,
             \A i \in DOMAIN inside : Entry(inside'[i]) /\ (inside'[i].stage # "refuse" <=> inside[i].stage # "refuse")
      PROVE  Slots'
  <2>1. Running(inside') = Running(inside)
    BY <1>s, RunningSame
  <2>2. Len(inside') = Len(inside)
    BY <1>1, <1>s
  <2> QED
    BY <1>1, <1>r, <1>s, <2>1, <2>2
<1>3. CASE Enter
  <2>1. PICK i \in DOMAIN line : /\ active' = active + 1
           /\ inside' = Append(inside,
                [conn |-> line[i], stage |-> IF active >= MaxConcurrent THEN "refuse" ELSE "handle"])
    BY <1>3 DEF Enter
  <2> DEFINE e == [conn |-> line[i], stage |-> IF active >= MaxConcurrent THEN "refuse" ELSE "handle"]
  <2>2. Entry(e)
    BY DEF Entry
  <2>3. e.stage = IF active >= MaxConcurrent THEN "refuse" ELSE "handle"
    OBVIOUS
  <2> HIDE DEF e
  <2>4. /\ inside' \in Seq(In \union {e}) /\ Len(inside') = Len(inside) + 1 /\ DOMAIN inside' = 1..(Len(inside) + 1)
        /\ \A k \in 1..Len(inside) : inside'[k] = inside[k]
        /\ inside'[Len(inside) + 1] = e
    BY <1>1, <2>1 DEF e
  <2>5. inside' \in Seq(Range(inside'))
    BY <2>4 DEF Range
  <2>6. \A k \in DOMAIN inside' : Entry(inside'[k])
    BY <1>1, <2>2, <2>4
  <2>7. Cardinality(Running(inside')) <= MaxConcurrent
    <3>1. CASE active >= MaxConcurrent
      <4>1. Running(inside') = Running(inside)
        BY <1>1, <2>3, <2>4, <3>1 DEF Running
      <4> QED
        BY <1>1, <4>1
    <3>2. CASE ~(active >= MaxConcurrent)
      <4>1. Cardinality(Running(inside')) \in Nat /\ Cardinality(Running(inside')) <= Len(inside) + 1
        BY <2>4, RunningBound
      <4> QED
        BY <1>1, <3>2, <4>1, SlotAssumption
    <3> QED
      BY <3>1, <3>2
  <2> QED
    BY <1>1, <1>r, <2>1, <2>4, <2>5, <2>6, <2>7
<1>4. CASE NoRoom
  BY <1>4, <1>o DEF NoRoom, TurnAway, Out
<1>5. CASE Depart
  BY <1>5, <1>o DEF Depart, Out
<1>6. CASE Handle
  <2>1. PICK i \in DOMAIN inside : /\ inside[i].stage = "handle" /\ active' = active
                                   /\ inside' = [inside EXCEPT ![i].stage = "leave"]
    BY <1>6 DEF Handle
  <2> DEFINE e == [inside[i] EXCEPT !.stage = "leave"]
  <2>2. Entry(e) /\ e.stage = "leave"
    BY <1>1 DEF Entry
  <2>3. inside' = [inside EXCEPT ![i] = e]
    BY <2>1
  <2> HIDE DEF e
  <2>4. inside' \in Seq(In \union {e}) /\ DOMAIN inside' = DOMAIN inside
    BY <1>1, <2>3, ExceptOK
  <2>5. inside' \in Seq(Range(inside'))
    BY <2>4 DEF Range
  <2> QED
    BY <1>1, <1>s, <2>1, <2>2, <2>3, <2>4, <2>5
<1>7. CASE \E c \in Asker : MacTimesOut(c)
  <2>1. PICK c \in Asker : active' = active
           /\ inside' = [i \in DOMAIN inside |-> [inside[i] EXCEPT !.conn = Hangup(@, {c})]]
    BY <1>7 DEF MacTimesOut
  <2>2. \A i \in DOMAIN inside : Entry(inside'[i]) /\ inside'[i].stage = inside[i].stage
    BY <1>1, <2>1 DEF Entry
  <2>3. DOMAIN inside' = 1..Len(inside) /\ Len(inside) \in Nat
    BY <1>1, <2>1
  <2>4. inside' \in [1..Len(inside) -> Range(inside')]
    BY <2>1, <2>3 DEF Range
  <2>5. inside' \in Seq(Range(inside'))
    BY <2>3, <2>4
  <2> QED
    BY <1>1, <1>s, <2>1, <2>2, <2>3, <2>5
<1>8. CASE ExtensionRestarts
  <2>1. inside' = <<>> /\ active' = 0
    BY <1>8 DEF ExtensionRestarts
  <2>2. Len(inside') = 0 /\ DOMAIN inside' = {} /\ inside' \in Seq(Range(inside')) /\ Running(inside') = {}
    BY <2>1 DEF Running
  <2> QED
    BY <1>r, <2>1, <2>2, FS_EmptySet, SlotAssumption
<1> QED
  BY <1>2, <1>3, <1>4, <1>5, <1>6, <1>7, <1>8, ServerSteps

\* The extension counts the requests it serves, and never runs more than its limit.
THEOREM SlotsHold == DesktopSpec => []SlotsAreCounted
<1>1. DesktopInit => Slots
  BY SlotsInit
<1>2. Slots /\ [DesktopNext]_desktop => Slots'
  BY SlotsStep
<1>3. Slots => SlotsAreCounted
  BY DEF Slots
<1> QED
  BY <1>1, <1>2, <1>3, PTL DEF DesktopSpec

-----------------------------------------------------------------------------
\* A message is about anything.
Message(m) ==
  /\ m \in [op : {m.op}, about : {m.about}, from : Client, open : BOOLEAN]
  /\ m.op # "none"
  /\ m.op = "load" => m.from \in Load

\* The line holds messages, whichever system reads it.
Lines == line \in Seq(Range(line)) /\ \A m \in Range(line) : Message(m)

\* The thread answers with a lease that is recorded.
Serving ==
  /\ ipc \in [pc : {"accept", "flush", "polkit", "answer"}, conn : {ipc.conn}, answer : {ipc.answer}]
  /\ IF ipc.pc = "accept" THEN ipc.conn = NoOp ELSE Message(ipc.conn)
  /\ ipc.pc = "answer" => ipc.conn.op = "load" /\ lease[ipc.conn.from] # "none"

\* A load is told of a lease that was recorded.
Replies ==
  /\ DOMAIN reply = Client
  /\ \A l \in Load : reply[l].op = "lease" => lease[l] # "none"

\* A broker goes on with a lease that was recorded, and gives up when its child is gone.
Children ==
  /\ DOMAIN broker = Load /\ DOMAIN child = Load /\ DOMAIN lease = Load
  /\ \A l \in Load :
       /\ child[l] \in {"supplied", "running"} => lease[l] # "none"
       /\ broker[l] = "supply" => lease[l] # "none"
       /\ broker[l] \in {"failed", "revoke", "revoking", "done"} => child[l] = "gone"

\* The inductive invariant of the loads.
Guarded == Lines /\ Serving /\ Replies /\ Children

\* A lease may end, but it is not forgotten.
LeasesStay ==
  /\ DOMAIN lease' = Load
  /\ \A l \in Load : lease[l] # "none" => lease'[l] # "none"

\* Asking adds a message to the line.
LEMMA AskKeeps ==
  ASSUME Lines, NEW c \in Client, NEW op, NEW about, Ask(c, op, about), op # "none",
         op = "load" => c \in Load
  PROVE  Lines' /\ UNCHANGED <<ipc, reply>>
<1> DEFINE m == [op |-> op, about |-> about, from |-> c, open |-> TRUE]
<1>1. Message(m)
  BY DEF Message
<1>2. line' = Append(line, m) /\ line \in Seq(Range(line))
  BY DEF Ask, Lines
<1> HIDE DEF m
<1>3. Range(line') = Range(line) \union {m}
  BY <1>2, AppendRange
<1>4. line' \in Seq(Range(line) \union {m})
  BY <1>2
<1>5. line' \in Seq(Range(line'))
  BY <1>3, <1>4
<1>6. \A n \in Range(line') : Message(n)
  BY <1>1, <1>3 DEF Lines
<1> QED
  BY <1>5, <1>6 DEF Lines, Ask, Message

\* The server takes the first one.
LEMMA TakenKeeps ==
  ASSUME Lines, line # <<>>, line' = Tail(line)
  PROVE  Lines' /\ Message(Head(line))
<1>1. /\ Head(line) \in Range(line) /\ Tail(line) \in Seq(Range(line))
      /\ Range(line) = {Head(line)} \union Range(Tail(line))
  BY TailRange DEF Lines
<1>2. Tail(line) \in Seq(Range(Tail(line)))
  BY <1>1, OwnRange
<1> QED
  BY <1>1, <1>2 DEF Lines, Message

\* A message whose sender hangs up is the same but for its open end.
LEMMA HangupKeeps ==
  ASSUME NEW m, NEW cs, Message(m)
  PROVE  Message(Hangup(m, cs)) /\ Hangup(m, cs).op = m.op /\ Hangup(m, cs).from = m.from
         /\ Hangup(m, cs).about = m.about
BY DEF Message, Hangup

\* Who hangs up leaves the messages in their places.
LEMMA HangupsKeep ==
  ASSUME Lines, NEW cs, line' = [i \in DOMAIN line |-> Hangup(line[i], cs)]
  PROVE  Lines'
<1>1. Len(line) \in Nat /\ DOMAIN line = 1..Len(line)
  BY DEF Lines
<1>2. line' \in [1..Len(line) -> Range(line')]
  BY <1>1 DEF Range
<1>3. line' \in Seq(Range(line'))
  BY <1>1, <1>2
<1>4. ASSUME NEW m \in Range(line') PROVE Message(m)
  <2>1. PICK i \in DOMAIN line : m = Hangup(line[i], cs)
    BY DEF Range
  <2> QED
    BY <2>1, HangupKeeps DEF Lines, Range
<1> QED
  BY <1>3, <1>4 DEF Lines, Message

\* The thread stays as it is while no lease is forgotten.
LEMMA ServingStays ==
  ASSUME Serving, UNCHANGED ipc, LeasesStay, Message(ipc.conn) \/ ipc.pc = "accept"
  PROVE  Serving'
BY DEF Serving, LeasesStay, Message

\* Clients that close take back what they were told, and nothing else.
LEMMA CloseKeeps ==
  ASSUME Lines, Serving, Replies, NEW cs, Close(cs), UNCHANGED lease
  PROVE  Lines' /\ Serving' /\ Replies'
<1>1. Lines'
  BY HangupsKeep DEF Close
<1>2. Serving'
  <2> DEFINE conn == Hangup(ipc.conn, cs)
  <2>1. ipc' = [ipc EXCEPT !.conn = conn]
    BY DEF Close
  <2>2. IF ipc.pc = "accept" THEN conn = NoOp
        ELSE Message(conn) /\ conn.op = ipc.conn.op /\ conn.from = ipc.conn.from
    <3>1. CASE ipc.pc = "accept"
      BY <3>1 DEF Serving, Hangup, NoOp
    <3>2. CASE ipc.pc # "accept"
      BY <3>2, HangupKeeps DEF Serving
    <3> QED
      BY <3>1, <3>2
  <2> HIDE DEF conn
  <2>3. ipc'.pc = ipc.pc /\ ipc'.conn = conn /\ ipc'.answer = ipc.answer
        /\ ipc' \in [pc : {"accept", "flush", "polkit", "answer"}, conn : {ipc'.conn}, answer : {ipc'.answer}]
    BY <2>1 DEF Serving
  <2> QED
    BY <2>2, <2>3 DEF Serving, Message, NoOp
<1>3. Replies'
  BY DEF Close, Replies, NoOp, Client
<1> QED
  BY <1>1, <1>2, <1>3

\* Hearing an answer takes it away.
LEMMA HearKeeps ==
  ASSUME Replies, NEW c \in Client, reply' = [reply EXCEPT ![c] = NoOp], LeasesStay
  PROVE  Replies'
BY DEF Replies, NoOp, LeasesStay, Client

\* An answer may be a lease if that lease is recorded.
LEMMA DeliverKeeps ==
  ASSUME Replies, NEW conn, NEW answer, Message(conn), Deliver(conn, answer), LeasesStay,
         answer.op = "lease" /\ conn.from \in Load => lease'[conn.from] # "none"
  PROVE  Replies'
BY DEF Replies, Deliver, Message, LeasesStay, Client

\* The thread that has answered is free.
LEMMA SayKeeps ==
  ASSUME Replies, NEW conn, NEW answer, Message(conn), Say(conn, answer), LeasesStay,
         answer.op = "lease" /\ conn.from \in Load => lease'[conn.from] # "none"
  PROVE  Replies' /\ Serving' /\ ipc' = Accepting
<1>1. Replies'
  BY DeliverKeeps DEF Say
<1>2. Serving'
  BY DEF Say, Serving, Accepting
<1> QED
  BY <1>1, <1>2 DEF Say

\* The children stay as they are while no lease is forgotten.
LEMMA ChildrenStay ==
  ASSUME Children, UNCHANGED loads, LeasesStay
  PROVE  Children'
BY DEF Children, loads, LeasesStay

-----------------------------------------------------------------------------
\* A lease that stays is not forgotten,
LEMMA SameLeases ==
  ASSUME Children, UNCHANGED lease
  PROVE  LeasesStay
BY DEF LeasesStay, Children

\* and neither is one that is revoked.
LEMMA RevokeStays ==
  ASSUME Children, NEW l, Revoke(l)
  PROVE  LeasesStay
BY DEF LeasesStay, Children, Revoke

\* A step that leaves wire, leases and children alone.
LEMMA GuardedElsewhere ==
  ASSUME Guarded, UNCHANGED <<wire, loads, lease>>
  PROVE  Guarded'
<1>1. LeasesStay
  BY SameLeases DEF Guarded
<1>2. Lines' /\ Replies'
  BY <1>1 DEF Guarded, wire, Lines, Replies, Message, LeasesStay
<1>3. Serving'
  BY <1>1, ServingStays DEF Guarded, wire, Serving
<1> QED
  BY <1>1, <1>2, <1>3, ChildrenStay DEF Guarded

\* A step in which a client asks.
LEMMA AsksGuarded ==
  ASSUME Guarded, NEW c \in Client, NEW op, NEW about, Ask(c, op, about), op # "none",
         op = "load" => c \in Load, UNCHANGED lease
  PROVE  Lines' /\ Serving' /\ Replies'
<1>1. LeasesStay
  BY SameLeases DEF Guarded
<1>2. Lines' /\ UNCHANGED <<ipc, reply>>
  BY AskKeeps DEF Guarded
<1>3. Serving'
  BY <1>1, <1>2, ServingStays DEF Guarded, Serving
<1> QED
  BY <1>1, <1>2, <1>3 DEF Guarded, Replies, LeasesStay

\* ... or hears
LEMMA HearsGuarded ==
  ASSUME Guarded, NEW c \in Client, Hear(c), UNCHANGED lease
  PROVE  Lines' /\ Serving' /\ Replies'
<1>1. LeasesStay
  BY SameLeases DEF Guarded
<1>2. Serving' /\ Lines'
  BY <1>1, ServingStays DEF Guarded, Serving, Hear, Lines, Message
<1>3. Replies'
  BY <1>1, HearKeeps DEF Guarded, Hear
<1> QED
  BY <1>2, <1>3

\* ... or is answered from the head of the line
LEMMA ServedGuarded ==
  ASSUME Guarded, NEW answer, line # <<>>, line' = Tail(line), Say(Head(line), answer), answer.op # "lease",
         LeasesStay
  PROVE  Lines' /\ Serving' /\ Replies'
<1>1. Lines' /\ Message(Head(line))
  BY TakenKeeps DEF Guarded
<1> QED
  BY <1>1, SayKeeps DEF Guarded

\* ... or by the thread that holds its connection.
LEMMA SaidGuarded ==
  ASSUME Guarded, NEW answer, ipc.pc # "accept", UNCHANGED line, Say(ipc.conn, answer), answer.op # "lease",
         LeasesStay
  PROVE  Lines' /\ Serving' /\ Replies'
<1>1. Lines' /\ Message(ipc.conn)
  BY DEF Guarded, Serving, Lines, Message
<1> QED
  BY <1>1, SayKeeps DEF Guarded

-----------------------------------------------------------------------------
\* The invariant of the loads holds at the start.
LEMMA GuardedInit ==
  ASSUME DesktopInit
  PROVE  Guarded
<1>1. line = <<>> /\ Range(line) = {} /\ line \in Seq(Range(line))
  BY EmptyRange DEF DesktopInit, Init
<1>2. Lines
  BY <1>1 DEF Lines
<1>3. Serving
  BY DEF DesktopInit, Init, Serving, Accepting
<1>4. Replies
  BY DEF DesktopInit, Init, Replies, NoOp, Client
<1>5. Children
  BY DEF DesktopInit, Init, Children
<1> QED
  BY <1>2, <1>3, <1>4, <1>5 DEF Guarded

-----------------------------------------------------------------------------
\* The thread of guardd
LEMMA IpcGuarded ==
  ASSUME Guarded, Ipc
  PROVE  Guarded'
<1>r. ASSUME Lines', Serving', Replies', LeasesStay, UNCHANGED loads PROVE Guarded'
  BY <1>r, ChildrenStay DEF Guarded
<1>l. ASSUME UNCHANGED lease PROVE LeasesStay
  BY <1>l, SameLeases DEF Guarded
<1>1. CASE ServeEvents
  <2>1. line # <<>> /\ line' = Tail(line) /\ UNCHANGED <<lease, loads, reply>>
        /\ ipc' = [pc |-> "flush", conn |-> Head(line), answer |-> NoOp]
    BY <1>1 DEF ServeEvents, Accept
  <2>2. Lines' /\ Message(Head(line))
    BY <2>1, TakenKeeps DEF Guarded
  <2>3. Serving'
    BY <2>1, <2>2 DEF Serving, Message
  <2>4. Replies'
    BY <2>1 DEF Guarded, Replies
  <2> QED
    BY <1>l, <1>r, <2>1, <2>2, <2>3, <2>4
<1>2. CASE AnswerEvents
  <2> DEFINE answer == [op |-> "events", polled |-> Len(committed),
                        page |-> IF ipc.conn.about = 0 THEN FirstPage ELSE PageAfter(ipc.conn.about)]
  <2>1. ipc.pc # "accept" /\ UNCHANGED <<line, lease, loads>> /\ Say(ipc.conn, answer)
    BY <1>2 DEF AnswerEvents, loads, grants
  <2>2. answer.op # "lease"
    OBVIOUS
  <2> HIDE DEF answer
  <2> QED
    BY <1>l, <1>r, <2>1, <2>2, SaidGuarded
<1>3. CASE ServeBlock
  <2> DEFINE answer == IF Head(line).about \in pending THEN Ok ELSE Refuse("already resolved")
  <2>1. line # <<>> /\ line' = Tail(line) /\ UNCHANGED <<lease, loads>> /\ Say(Head(line), answer)
    BY <1>3 DEF ServeBlock, Accept
  <2>2. answer.op # "lease"
    BY DEF Ok, Refuse
  <2> HIDE DEF answer
  <2> QED
    BY <1>l, <1>r, <2>1, <2>2, ServedGuarded
<1>s. ASSUME NEW op \in {"allow", "load"}, NEW valid, NEW error, ServeSensitive(op, valid, error)
      PROVE  Guarded'
  <2>1. line # <<>> /\ line' = Tail(line) /\ UNCHANGED <<lease, loads>>
    BY <1>s DEF ServeSensitive, Accept
  <2>2. CASE ipc' = [pc |-> "polkit", conn |-> Head(line), answer |-> NoOp] /\ UNCHANGED <<asking, reply>>
    <3>1. Lines' /\ Message(Head(line))
      BY <2>1, TakenKeeps DEF Guarded
    <3>2. Serving'
      BY <2>2, <3>1 DEF Serving, Message
    <3>3. Replies'
      BY <2>1, <2>2 DEF Guarded, Replies
    <3> QED
      BY <1>l, <1>r, <2>1, <3>1, <3>2, <3>3
  <2>3. CASE Say(Head(line), Refuse(error))
    <3>1. Refuse(error).op # "lease"
      BY DEF Refuse
    <3> QED
      BY <1>l, <1>r, <2>1, <2>3, <3>1, ServedGuarded
  <2> QED
    BY <1>s, <2>2, <2>3 DEF ServeSensitive
<1>4. CASE ServeAllow
  BY <1>4, <1>s DEF ServeAllow
<1>5. CASE ServeLoad
  BY <1>5, <1>s DEF ServeLoad
<1>6. CASE ServeRevoke
  <2>1. line # <<>> /\ line' = Tail(line) /\ UNCHANGED loads /\ Say(Head(line), Ok) /\ Revoke(Head(line).about)
    BY <1>6 DEF ServeRevoke
  <2>2. LeasesStay
    BY <2>1, RevokeStays DEF Guarded
  <2>3. Ok.op # "lease"
    BY DEF Ok
  <2> QED
    BY <1>r, <2>1, <2>2, <2>3, ServedGuarded
<1>7. CASE PolkitEnds
  <2>1. ipc.pc # "accept" /\ UNCHANGED <<line, lease, loads>> /\ Say(ipc.conn, Refuse("denied"))
        /\ Refuse("denied").op # "lease"
    BY <1>7 DEF PolkitEnds, loads, grants, Refuse
  <2> QED
    BY <1>l, <1>r, <2>1, SaidGuarded
<1>8. CASE PolkitAllows
  <2> DEFINE answer == IF ipc.conn.about \in pending THEN Ok ELSE Refuse("already resolved")
  <2>1. ipc.pc # "accept" /\ UNCHANGED <<line, lease, loads>> /\ Say(ipc.conn, answer)
    BY <1>8 DEF PolkitAllows, loads, grants
  <2>2. answer.op # "lease"
    BY DEF Ok, Refuse
  <2> HIDE DEF answer
  <2> QED
    BY <1>l, <1>r, <2>1, <2>2, SaidGuarded
<1>9. CASE PolkitLoads
  <2>1. ipc.pc # "accept" /\ ipc.conn.op = "load" /\ UNCHANGED <<line, loads>>
    BY <1>9 DEF PolkitLoads, loads
  <2>2. Message(ipc.conn) /\ ipc.conn.from \in Load
    BY <2>1 DEF Guarded, Serving, Message
  <2>3. CASE /\ lease' = [lease EXCEPT ![ipc.conn.from] = "active"]
             /\ ipc' = [ipc EXCEPT !.pc = "answer", !.answer = [op |-> "lease"]]
             /\ UNCHANGED <<asking, reply>>
    <3>1. LeasesStay /\ lease'[ipc.conn.from] # "none"
      BY <2>2, <2>3 DEF Guarded, Children, LeasesStay
    <3>2. ipc'.pc = "answer" /\ ipc'.conn = ipc.conn
          /\ ipc' \in [pc : {"accept", "flush", "polkit", "answer"}, conn : {ipc'.conn}, answer : {ipc'.answer}]
      BY <2>3 DEF Guarded, Serving
    <3>3. Serving'
      BY <2>1, <2>2, <3>1, <3>2 DEF Serving, Message
    <3>4. Replies'
      BY <2>3, <3>1 DEF Guarded, Replies, LeasesStay
    <3>5. Lines'
      BY <2>1 DEF Guarded, Lines, Message
    <3> QED
      BY <1>r, <2>1, <3>1, <3>3, <3>4, <3>5
  <2>4. CASE Say(ipc.conn, Refuse("child or agent changed")) /\ UNCHANGED grants
    <3>1. UNCHANGED lease /\ Refuse("child or agent changed").op # "lease"
      BY <2>4 DEF grants, Refuse
    <3> QED
      BY <1>l, <1>r, <2>1, <2>4, <3>1, SaidGuarded
  <2> QED
    BY <1>9, <2>3, <2>4 DEF PolkitLoads
<1>10. CASE Answer
  <2>1. ipc.pc = "answer" /\ Say(ipc.conn, ipc.answer) /\ UNCHANGED <<line, loads>>
    BY <1>10 DEF Answer
  <2>2. LeasesStay
    BY <1>10, <1>l, RevokeStays DEF Answer, RevokeUnreceived, grants, Guarded
  <2>3. Message(ipc.conn) /\ ipc.conn.from \in Load /\ lease[ipc.conn.from] # "none"
    BY <2>1 DEF Guarded, Serving, Message
  <2>4. Replies' /\ Serving'
    BY <2>1, <2>2, <2>3, SayKeeps DEF Guarded, LeasesStay
  <2>5. Lines'
    BY <2>1 DEF Guarded, Lines, Message
  <2> QED
    BY <1>r, <2>1, <2>2, <2>4, <2>5
<1> QED
  BY <1>1, <1>2, <1>3, <1>4, <1>5, <1>6, <1>7, <1>8, <1>9, <1>10 DEF Ipc

-----------------------------------------------------------------------------
\* guardctl ssh load
LEMMA BrokerGuarded ==
  ASSUME Guarded, NEW l \in Load,
         Broker(l) \/ Fork(l) \/ ChildDies(l) \/ BrokerDies(l) \/ OrphanResumes(l)
  PROVE  Guarded'
<1> USE DEF Idle
<1>r. ASSUME Lines', Serving', Replies', Children' PROVE Guarded'
  BY <1>r DEF Guarded
<1>k. UNCHANGED lease
  BY DEF Broker, Fork, ChildDies, BrokerDies, OrphanResumes, ChildStops, BrokerAsks, WaitForStopFails, BrokerHears,
    BrokerTimesOut, BrokerSupplies, BrokerContinues, ChildExits, BrokerWaits, BrokerRevokes, BrokerReturns, grants
<1>c. l \in Client
  BY DEF Client
<1>w. ASSUME UNCHANGED wire PROVE Lines' /\ Serving' /\ Replies'
  BY <1>k, <1>w, SameLeases, ServingStays DEF wire, Guarded, Lines, Message, Replies, Serving
<1>1. CASE Fork(l)
  <2>1. Children'
    BY <1>1, <1>k DEF Fork, Guarded, Children
  <2> QED
    BY <1>1, <1>r, <1>w, <2>1 DEF Fork
<1>2. CASE ChildStops(l)
  <2>1. Children'
    BY <1>2, <1>k DEF ChildStops, Guarded, Children
  <2> QED
    BY <1>2, <1>r, <1>w, <2>1 DEF ChildStops
<1>3. CASE BrokerAsks(l)
  <2>1. Children'
    BY <1>3, <1>k DEF BrokerAsks, Guarded, Children
  <2> QED
    <3>1. Ask(l, "load", None)
      BY <1>3 DEF BrokerAsks
    <3>2. Lines' /\ Serving' /\ Replies'
      BY <1>c, <1>k, <3>1, AsksGuarded
    <3> QED
      BY <1>r, <2>1, <3>2
<1>4. CASE WaitForStopFails(l)
  <2>1. Children'
    BY <1>4, <1>k DEF WaitForStopFails, Reap, Guarded, Children
  <2> QED
    BY <1>4, <1>r, <1>w, <2>1 DEF WaitForStopFails
<1>5. CASE BrokerHears(l)
  <2>1. Children'
    BY <1>5, <1>k DEF BrokerHears, Reap, Guarded, Children, Replies
  <2> QED
    BY <1>5, <1>c, <1>k, <1>r, <2>1, HearsGuarded DEF BrokerHears
<1>6. CASE BrokerTimesOut(l)
  <2>1. Children'
    BY <1>6, <1>k DEF BrokerTimesOut, ReapFailed, Reap, Guarded, Children
  <2> QED
    BY <1>6, <1>k, <1>r, <2>1, CloseKeeps DEF BrokerTimesOut, TimesOut, Guarded
<1>7. CASE BrokerSupplies(l)
  <2>1. Children'
    BY <1>7, <1>k DEF BrokerSupplies, Reap, Guarded, Children
  <2> QED
    BY <1>7, <1>r, <1>w, <2>1 DEF BrokerSupplies
<1>8. CASE BrokerContinues(l)
  <2>1. Children'
    BY <1>8, <1>k DEF BrokerContinues, Guarded, Children
  <2> QED
    BY <1>8, <1>r, <1>w, <2>1 DEF BrokerContinues
<1>9. CASE ChildExits(l)
  <2>1. Children'
    BY <1>9, <1>k DEF ChildExits, Guarded, Children
  <2> QED
    BY <1>9, <1>r, <1>w, <2>1 DEF ChildExits
<1>10. CASE BrokerWaits(l)
  <2>1. Children'
    BY <1>10, <1>k DEF BrokerWaits, Guarded, Children
  <2> QED
    BY <1>10, <1>r, <1>w, <2>1 DEF BrokerWaits
<1>11. CASE BrokerRevokes(l)
  <2>1. Children'
    BY <1>11, <1>k DEF BrokerRevokes, Guarded, Children
  <2> QED
    <3>1. Ask(l, "revoke", l)
      BY <1>11 DEF BrokerRevokes
    <3>2. Lines' /\ Serving' /\ Replies'
      BY <1>c, <1>k, <3>1, AsksGuarded
    <3> QED
      BY <1>r, <2>1, <3>2
<1>12. CASE BrokerReturns(l)
  <2>1. Children'
    BY <1>12, <1>k DEF BrokerReturns, Guarded, Children
  <2>2. Lines' /\ Serving' /\ Replies'
    BY <1>12, <1>c, <1>k, HearsGuarded, CloseKeeps DEF BrokerReturns, TimesOut, Guarded
  <2> QED
    BY <1>r, <2>1, <2>2
<1>13. CASE ChildDies(l)
  <2>1. Children'
    BY <1>13, <1>k DEF ChildDies, Guarded, Children
  <2> QED
    BY <1>13, <1>r, <1>w, <2>1 DEF ChildDies
<1>14. CASE BrokerDies(l)
  <2>1. Children'
    BY <1>14, <1>k DEF BrokerDies, Guarded, Children
  <2> QED
    BY <1>14, <1>k, <1>r, <2>1, CloseKeeps DEF BrokerDies, Guarded
<1>15. CASE OrphanResumes(l)
  <2>1. Children'
    BY <1>15, <1>k DEF OrphanResumes, OrphanRuns, Guarded, Children
  <2> QED
    BY <1>15, <1>r, <1>w, <2>1 DEF OrphanResumes
<1> QED
  BY <1>1, <1>2, <1>3, <1>4, <1>5, <1>6, <1>7, <1>8, <1>9, <1>10, <1>11, <1>12, <1>13, <1>14, <1>15 DEF Broker

-----------------------------------------------------------------------------
\* guard-notify, guard-ui, the audit trail and the requests; common to both systems.
LEMMA ResolveGuarded ==
  ASSUME Guarded, Resolve
  PROVE  Guarded'
<1>1. UNCHANGED <<lease, loads>> /\ "resolve" \in Client
  BY DEF Resolve, ResolveFails, ResolveCompletes, loads, grants, Client
<1>2. Lines' /\ Serving' /\ Replies'
  <2>1. CASE Hear("resolve")
    BY <1>1, <2>1, HearsGuarded
  <2>2. CASE Close({"resolve", "poll"})
    BY <1>1, <2>2, CloseKeeps DEF Guarded
  <2> QED
    BY <2>1, <2>2 DEF Resolve, ResolveFails, ResolveCompletes
<1> QED
  BY <1>1, <1>2, SameLeases, ChildrenStay DEF Guarded

\* The steps both systems share.
LEMMA SharedGuarded ==
  ASSUME Guarded, MacShared \/ MacPoll \/ (\E r \in Request : Arrive(r))
  PROVE  Guarded'
<1>1. CASE \E r \in Request : Leave(r) \/ Arrive(r)
  BY <1>1, GuardedElsewhere DEF Leave, Arrive, loads, grants
<1>2. CASE \E decision \in Decision : Decide(decision)
  BY <1>2, GuardedElsewhere DEF Decide, loads, grants
<1>3. CASE Write
  BY <1>3, GuardedElsewhere DEF Write, loads, grants
<1>4. CASE NotifierRestarts
  <2>1. UNCHANGED <<lease, loads>> /\ Close({"notify"})
    BY <1>4 DEF NotifierRestarts, grants
  <2>2. Lines' /\ Serving' /\ Replies'
    BY <2>1, CloseKeeps DEF Guarded
  <2> QED
    BY <2>1, <2>2, SameLeases, ChildrenStay DEF Guarded
<1>5. CASE Click("allow") \/ Click("block")
  <2>1. PICK op \in {"allow", "block"} : Click(op)
    BY <1>5
  <2>2. UNCHANGED <<lease, loads>> /\ Ask("resolve", op, dialog.active) /\ "resolve" \in Client
    BY <2>1 DEF Click, loads, grants, Client
  <2>3. op # "load" /\ op # "none"
    BY <2>1
  <2>4. Lines' /\ Serving' /\ Replies'
    BY <2>2, <2>3, AsksGuarded
  <2> QED
    BY <2>2, <2>4, SameLeases, ChildrenStay DEF Guarded
<1>6. CASE PollStarts
  BY <1>6, GuardedElsewhere DEF PollStarts, loads, grants
<1>7. CASE PollApplies
  BY <1>7, GuardedElsewhere DEF PollApplies, loads, grants
<1> QED
  BY <1>1, <1>2, <1>3, <1>4, <1>5, <1>6, <1>7 DEF MacShared, MacPoll, ClickBlock

\* Every step on Linux keeps the invariant of the loads.
LEMMA NextGuarded ==
  ASSUME Guarded, Next
  PROVE  Guarded'
<1>c. "notify" \in Client /\ "poll" \in Client
  BY DEF Client
<1>r. ASSUME Lines', Serving', Replies', UNCHANGED <<lease, loads>> PROVE Guarded'
  BY <1>r, SameLeases, ChildrenStay DEF Guarded
<1>1. CASE Ipc
  BY <1>1, IpcGuarded
<1>2. CASE NotifierAsks
  <2>1. Ask("notify", "events", 0) /\ UNCHANGED <<lease, loads>>
    BY <1>2 DEF NotifierAsks, loads, grants
  <2> QED
    BY <1>c, <1>r, <2>1, AsksGuarded
<1>3. CASE NotifierHearsEvents
  BY <1>3, <1>c, <1>r, HearsGuarded DEF NotifierHearsEvents, loads, grants
<1>4. CASE NotifierPolls
  BY <1>4, GuardedElsewhere DEF NotifierPolls, grants
<1>5. CASE \E r \in Request : Delay(r)
  BY <1>5, GuardedElsewhere DEF Delay, grants
<1>6. CASE PollAsks
  <2> DEFINE cursor == IF log = <<>> THEN 0 ELSE Head(log)
  <2>1. Ask("poll", "events", cursor) /\ UNCHANGED <<lease, loads>>
    BY <1>6 DEF PollAsks, loads, grants
  <2> HIDE DEF cursor
  <2> QED
    BY <1>c, <1>r, <2>1, AsksGuarded
<1>7. CASE PollHears
  BY <1>7, <1>c, <1>r, HearsGuarded DEF PollHears, loads, grants
<1>8. CASE PollLists
  BY <1>8, GuardedElsewhere DEF PollLists, grants
<1>9. CASE PollTimesOut
  BY <1>9, <1>r, CloseKeeps DEF PollTimesOut, loads, grants, Guarded
<1>10. CASE Resolve
  BY <1>10, ResolveGuarded
<1>11. CASE ClickAllow
  <2>1. Ask("resolve", "allow", dialog.active) /\ UNCHANGED <<lease, loads>> /\ "resolve" \in Client
    BY <1>11 DEF ClickAllow, Click, loads, grants, Client
  <2> QED
    BY <1>r, <2>1, AsksGuarded
<1>12. CASE \E l \in Load : Broker(l) \/ Fork(l) \/ ChildDies(l) \/ BrokerDies(l) \/ OrphanResumes(l)
  BY <1>12, BrokerGuarded
<1>13. CASE MacShared \/ MacPoll \/ (\E r \in Request : Arrive(r))
  BY <1>13, SharedGuarded
<1> QED
  BY <1>1, <1>2, <1>3, <1>4, <1>5, <1>6, <1>7, <1>8, <1>9, <1>10, <1>11, <1>12, <1>13
    DEF Next, Notify, Poll, Environment, MacShared, MacPoll

-----------------------------------------------------------------------------
\* What the extension serves are messages.
Guests == \A i \in DOMAIN inside : Message(inside[i].conn)

\* They stay when nobody comes or goes,
LEMMA GuestsStay ==
  ASSUME Guests, UNCHANGED inside
  PROVE  Guests'
BY DEF Guests, Message

\* and when one goes.
LEMMA GuestLeaves ==
  ASSUME Guests, Slots, NEW i \in DOMAIN inside, Out(i)
  PROVE  Guests'
<1> DEFINE In == Range(inside)
<1>1. inside \in Seq(In) /\ Len(inside) \in Nat /\ DOMAIN inside = 1..Len(inside)
  BY DEF Slots
<1> HIDE DEF In
<1>2. /\ inside' \in Seq(In) /\ Len(inside') = Len(inside) - 1
      /\ \A k \in 1..(Len(inside) - 1) : inside'[k] = inside[IF k < i THEN k ELSE k + 1]
  BY <1>1, RemoveAtPlaces DEF Out
<1>3. \A k \in DOMAIN inside' : \E j \in DOMAIN inside : inside'[k] = inside[j]
  BY <1>1, <1>2
<1> QED
  BY <1>3 DEF Guests, Message

\* A client that fails by itself is not told of a lease.
LEMMA FailsKeep ==
  ASSUME Guarded, NEW c \in Asker, NEW op, NEW error, Fails(c, op, error), UNCHANGED <<lease, loads>>
  PROVE  Guarded'
<1>1. LeasesStay
  BY SameLeases DEF Guarded
<1>2. Lines' /\ Serving'
  BY <1>1, ServingStays DEF Guarded, Fails, Lines, Message, Serving
<1>3. Replies'
  BY <1>1 DEF Guarded, Fails, Refuse, Replies, LeasesStay
<1> QED
  BY <1>1, <1>2, <1>3, ChildrenStay DEF Guarded

\* The extension never answers with a lease of a load.
LEMMA DeliveredKeeps ==
  ASSUME Guarded, NEW conn, NEW answer, Message(conn), Deliver(conn, answer), answer.op # "lease",
         UNCHANGED <<line, ipc, lease, loads>>
  PROVE  Guarded'
<1>1. LeasesStay
  BY SameLeases DEF Guarded
<1>2. Lines' /\ Serving'
  BY <1>1, ServingStays DEF Guarded, Lines, Message, Serving
<1>3. Replies'
  BY <1>1, DeliverKeeps DEF Guarded
<1> QED
  BY <1>1, <1>2, <1>3, ChildrenStay DEF Guarded

-----------------------------------------------------------------------------
\* The server of the extension
LEMMA MacServerGuarded ==
  ASSUME Guarded, Guests, Slots, MacServer
  PROVE  Guarded' /\ Guests'
<1> USE DEF Elsewhere
<1>1. CASE Enter
  <2>1. PICK i \in DOMAIN line : /\ line' = RemoveAt(line, i) /\ UNCHANGED <<lease, loads, ipc, reply>>
           /\ inside' = Append(inside,
                [conn |-> line[i], stage |-> IF active >= MaxConcurrent THEN "refuse" ELSE "handle"])
    BY <1>1 DEF Enter, grants
  <2> DEFINE L == Range(line)
             In == Range(inside)
             e == [conn |-> line[i], stage |-> IF active >= MaxConcurrent THEN "refuse" ELSE "handle"]
  <2>2. line \in Seq(L) /\ Len(line) \in Nat /\ DOMAIN line = 1..Len(line)
    BY DEF Guarded, Lines
  <2>3. \A k \in DOMAIN line : Message(line[k])
    BY DEF Guarded, Lines, Range
  <2>4. e.conn = line[i]
    OBVIOUS
  <2> HIDE DEF L, e
  <2>5. /\ line' \in Seq(L) /\ Len(line') = Len(line) - 1
        /\ \A k \in 1..(Len(line) - 1) : line'[k] = line[IF k < i THEN k ELSE k + 1]
    BY <2>1, <2>2, RemoveAtPlaces
  <2>6. \A k \in DOMAIN line' : \E j \in DOMAIN line : line'[k] = line[j]
    BY <2>2, <2>5
  <2>7. line' \in Seq(Range(line'))
    BY <2>5, OwnRange
  <2>8. Lines'
    BY <2>3, <2>6, <2>7 DEF Lines, Range, Message
  <2>9. inside \in Seq(In) /\ Len(inside) \in Nat /\ DOMAIN inside = 1..Len(inside)
    BY DEF Slots
  <2> HIDE DEF In
  <2>10. /\ DOMAIN inside' = 1..(Len(inside) + 1)
         /\ \A k \in 1..Len(inside) : inside'[k] = inside[k]
         /\ inside'[Len(inside) + 1] = e
    BY <2>1, <2>9 DEF e
  <2>11. \A k \in DOMAIN inside' : Message(inside'[k].conn)
    BY <2>3, <2>4, <2>9, <2>10 DEF Guests
  <2>12. LeasesStay
    BY <2>1, SameLeases DEF Guarded
  <2>13. Serving' /\ Replies'
    BY <2>1, <2>12, ServingStays DEF Guarded, Serving, Replies
  <2> QED
    BY <2>1, <2>8, <2>11, <2>12, <2>13, ChildrenStay DEF Guarded, Guests, Message
<1>2. CASE NoRoom
  <2>1. PICK i \in DOMAIN inside : /\ Out(i) /\ Deliver(inside[i].conn, Refuse("concurrency limit"))
                                   /\ UNCHANGED <<line, ipc, lease, loads>>
    BY <1>2 DEF NoRoom, TurnAway, grants
  <2>2. Refuse("concurrency limit").op # "lease" /\ Message(inside[i].conn)
    BY DEF Refuse, Guests
  <2> QED
    BY <2>1, <2>2, GuestLeaves, DeliveredKeeps
<1>3. CASE Handle
  <2>1. PICK i \in DOMAIN inside : /\ inside' = [inside EXCEPT ![i].stage = "leave"]
           /\ UNCHANGED <<line, ipc, lease, loads>>
           /\ \/ Deliver(inside[i].conn, Ok)
              \/ Deliver(inside[i].conn, IF Meant(inside[i].conn.about) = {} THEN Refuse("already_resolved") ELSE Ok)
    BY <1>3 DEF Handle, grants
  <2>2. PICK answer : Deliver(inside[i].conn, answer) /\ answer.op # "lease"
    <3>1. Ok.op # "lease" /\ Refuse("already_resolved").op # "lease"
      BY DEF Ok, Refuse
    <3> QED
      BY <2>1, <3>1
  <2>3. Message(inside[i].conn)
    BY DEF Guests
  <2>4. Guarded'
    BY <2>1, <2>2, <2>3, DeliveredKeeps
  <2>5. \A k \in DOMAIN inside' : k \in DOMAIN inside /\ inside'[k].conn = inside[k].conn
    BY <2>1 DEF Slots, Entry
  <2> QED
    BY <2>4, <2>5 DEF Guests, Message
<1>4. CASE Depart
  <2>1. PICK i \in DOMAIN inside : Out(i) /\ UNCHANGED <<wire, loads, lease>>
    BY <1>4 DEF Depart, grants
  <2> QED
    BY <2>1, GuestLeaves, GuardedElsewhere
<1> QED
  BY <1>1, <1>2, <1>3, <1>4 DEF MacServer

-----------------------------------------------------------------------------
\* Its clients
LEMMA MacTimesOutGuarded ==
  ASSUME Guarded, Guests, Slots, NEW c \in Asker, MacTimesOut(c)
  PROVE  Guarded' /\ Guests'
<1> USE DEF Elsewhere
<1>1. /\ reply' = [reply EXCEPT ![c] = Refuse("timed out")]
      /\ line' = [i \in DOMAIN line |-> Hangup(line[i], {c})]
      /\ inside' = [i \in DOMAIN inside |-> [inside[i] EXCEPT !.conn = Hangup(@, {c})]]
      /\ UNCHANGED <<ipc, lease, loads>>
  BY DEF MacTimesOut, grants
<1>2. LeasesStay
  BY <1>1, SameLeases DEF Guarded
<1>3. Lines'
  BY <1>1, HangupsKeep DEF Guarded
<1>4. Serving'
  BY <1>1, <1>2, ServingStays DEF Guarded, Serving
<1>5. Replies'
  BY <1>1, <1>2 DEF Guarded, Refuse, Replies, LeasesStay, Client
<1>6. \A k \in DOMAIN inside' : k \in DOMAIN inside /\ inside'[k].conn = Hangup(inside[k].conn, {c})
  BY <1>1 DEF Slots, Entry
<1>7. Guests'
  BY <1>6, HangupKeeps DEF Guests, Message
<1> QED
  BY <1>1, <1>2, <1>3, <1>4, <1>5, <1>7, ChildrenStay DEF Guarded

\* A message sent after the panel is one of a client that asks for no load.
LEMMA SendGuarded ==
  ASSUME Guarded, NEW c \in Asker, Send(c)
  PROVE  Guarded'
<1>1. UNCHANGED <<lease, loads>>
  BY DEF Send, Elsewhere, grants
<1>2. CASE Fails(c, Sensitive(c), "timed out")
  BY <1>1, <1>2, FailsKeep
<1>3. CASE Ask(c, Sensitive(c), Deadline(c))
  <2>1. Sensitive(c) # "load" /\ Sensitive(c) # "none" /\ c \in Client
    BY DEF Sensitive, Asker, Client
  <2>2. Lines' /\ Serving' /\ Replies'
    BY <1>1, <1>3, <2>1, AsksGuarded
  <2> QED
    BY <1>1, <2>2, SameLeases, ChildrenStay DEF Guarded
<1> QED
  BY <1>2, <1>3 DEF Send

\* A restart of the extension empties the line and fails who waits.
LEMMA RestartGuarded ==
  ASSUME Guarded, ExtensionRestarts
  PROVE  Guarded' /\ Guests'
<1>1. /\ line' = <<>> /\ inside' = <<>> /\ UNCHANGED <<ipc, lease, loads>>
      /\ reply' = [c \in Client |->
           IF asking[c] # "none" /\ reply[c] = NoOp THEN Refuse("connection failed") ELSE reply[c]]
  BY DEF ExtensionRestarts, grants
<1>2. LeasesStay
  BY <1>1, SameLeases DEF Guarded
<1>3. Range(<<>>) = {} /\ <<>> \in Seq(Range(<<>>)) /\ DOMAIN <<>> = {}
  BY EmptyRange
<1>4. Lines' /\ Guests'
  BY <1>1, <1>3 DEF Lines, Guests
<1>5. Serving'
  BY <1>1, <1>2, ServingStays DEF Guarded, Serving
<1>6. Replies'
  BY <1>1, <1>2 DEF Guarded, Refuse, Replies, LeasesStay, Client
<1> QED
  BY <1>1, <1>2, <1>4, <1>5, <1>6, ChildrenStay DEF Guarded

\* The user and the extension's fate.
LEMMA MacEnvironmentGuarded ==
  ASSUME Guarded, Guests, MacEnvironment
  PROVE  Guarded' /\ Guests'
<1> USE DEF Elsewhere
<1>1. CASE ExtensionRestarts
  BY <1>1, RestartGuarded
<1>2. ASSUME ~ExtensionRestarts PROVE UNCHANGED <<inside, lease, loads>>
  BY <1>2 DEF MacEnvironment, MacArrive, MacClickAllow, CliStarts, PanelPasses, PanelRefuses, Freeze, Thaw,
    macVars, macServer, grants, loads
<1>3. ASSUME ~ExtensionRestarts
      PROVE  UNCHANGED wire \/ \E c \in Asker, op \in {"allow", "protect"}, error \in {"denied", "timed out"} :
                                 Fails(c, op, error)
  BY <1>3 DEF MacEnvironment, MacArrive, MacClickAllow, CliStarts, PanelPasses, PanelRefuses, Freeze, Thaw,
    Asker, Sensitive
<1> QED
  BY <1>1, <1>2, <1>3, GuardedElsewhere, FailsKeep, GuestsStay

-----------------------------------------------------------------------------
\* Every step of either system keeps the invariant of the loads.
LEMMA DesktopGuarded ==
  ASSUME Guarded, Guests, Slots, [DesktopNext]_desktop
  PROVE  Guarded' /\ Guests'
<1>1. CASE UNCHANGED desktop
  BY <1>1, GuardedElsewhere, GuestsStay DEF desktop, vars, macVars, macServer, grants
<1>2. CASE Linux(Next)
  BY <1>2, NextGuarded, GuestsStay DEF Linux, macVars, macServer
<1>3. CASE Mac(MacServer)
  BY <1>3, MacServerGuarded DEF Mac
<1>4. CASE Mac(MacNotify)
  BY <1>4, GuardedElsewhere, GuestsStay DEF Mac, MacNotify, MacNotifierPolls, MacNotifierReads, macVars, macServer, grants
<1>5. CASE Mac(MacPollStep)
  BY <1>5, GuardedElsewhere, GuestsStay DEF Mac, MacPollStep, MacPollLists, MacPollFails, macVars, macServer, grants
<1>6. CASE Mac(\E c \in Asker : MacAsker(c))
  <2>1. PICK c \in Asker : MacAsker(c)
    BY <1>6 DEF Mac
  <2>2. CASE PanelTimesOut(c)
    BY <2>2, FailsKeep, GuestsStay DEF PanelTimesOut, macServer, Elsewhere, grants
  <2>3. CASE Send(c)
    BY <2>3, SendGuarded, GuestsStay DEF Send, macServer
  <2>4. CASE MacTimesOut(c)
    BY <2>4, MacTimesOutGuarded
  <2> QED
    BY <2>1, <2>2, <2>3, <2>4 DEF MacAsker
<1>7. CASE Mac(CliReturns)
  <2>1. Hear("cli") /\ UNCHANGED <<inside, lease, loads>> /\ "cli" \in Client
    BY <1>7 DEF Mac, CliReturns, macVars, macServer, Elsewhere, grants, Client
  <2>2. Lines' /\ Serving' /\ Replies'
    BY <2>1, HearsGuarded
  <2> QED
    BY <2>1, <2>2, GuestsStay, SameLeases, ChildrenStay DEF Guarded
<1>8. CASE Mac(\E d \in Request \union {"cli"} : Expire(d))
  BY <1>8, GuardedElsewhere, GuestsStay DEF Mac, Expire, macServer, grants
<1>9. CASE Mac(MacEnvironment)
  BY <1>9, MacEnvironmentGuarded DEF Mac
<1>10. CASE Shared(MacShared) \/ Shared(MacPoll)
  BY <1>10, SharedGuarded, GuestsStay DEF Shared, macVars, macServer
<1>11. CASE Shared(Resolve)
  BY <1>11, ResolveGuarded, GuestsStay DEF Shared, macVars, macServer
<1> QED
  BY <1>1, <1>2, <1>3, <1>4, <1>5, <1>6, <1>7, <1>8, <1>9, <1>10, <1>11 DEF DesktopNext

\* guardctl ssh load leaves no child behind, and none runs without a lease.
THEOREM NoChildIsStranded == DesktopSpec => []NoStrandedChild
<1>1. DesktopInit => Slots /\ Guarded /\ Guests
  BY SlotsInit, GuardedInit DEF DesktopInit, MacInit, Guests
<1>2. Slots /\ Guarded /\ Guests /\ [DesktopNext]_desktop => (Slots /\ Guarded /\ Guests)'
  BY SlotsStep, DesktopGuarded
<1>3. Guarded => NoStrandedChild
  BY DEF Guarded, Children, NoStrandedChild, Returned
<1> QED
  BY <1>1, <1>2, <1>3, PTL DEF DesktopSpec

-----------------------------------------------------------------------------
\* What a dialog shows and queues are requests of S, and it shows one if it is up.
DialogOf(d, S) ==
  /\ d \in [active : {d.active}, state : {"none", "choice", "authorizing"}, queue : Seq(S), known : {d.known}]
  /\ d.state # "none" => d.active \in S

\* What is added to the queue was listed.
LEMMA ReconcileOf ==
  ASSUME NEW S, NEW d, DialogOf(d, S), NEW listing \in Seq(S)
  PROVE  LET e == Reconcile(d, listing) IN DialogOf(e, S) /\ e.active = d.active /\ e.state = d.state
<1> DEFINE fresh == {i \in DOMAIN listing :
             /\ Session[listing[i]] \notin d.known
             /\ \A j \in 1..(i - 1) : Session[listing[j]] # Session[listing[i]]}
           kept == Kept(listing, fresh)
           known == d.known \union Keys(listing)
<1>1. kept \in Seq(S)
  <2>1. fresh \in SUBSET DOMAIN listing
    OBVIOUS
  <2> HIDE DEF fresh
  <2> QED
    BY <2>1, KeptIn
<1>2. Reconcile(d, listing) = [d EXCEPT !.queue = @ \o kept, !.known = known]
  BY DEF Reconcile
<1> HIDE DEF kept, known
<1>3. d.queue \o kept \in Seq(S)
  BY <1>1 DEF DialogOf
<1> QED
  BY <1>2, <1>3 DEF DialogOf

\* A snapshot takes from the queue before it adds.
LEMMA SnapshotOf ==
  ASSUME NEW S, NEW d, DialogOf(d, S), NEW listing \in Seq(S)
  PROVE  LET e == ReconcileSnapshot(d, listing) IN DialogOf(e, S) /\ e.active = d.active /\ e.state = d.state
<1> DEFINE present == {i \in DOMAIN d.queue : Session[d.queue[i]] \in Keys(listing)}
           kept == Kept(d.queue, present)
           e == [d EXCEPT !.queue = kept]
           known == {k \in e.known : \/ e.active # None /\ k = Session[e.active]
                                     \/ k \in Keys(e.queue)}
           f == [e EXCEPT !.known = known]
<1>1. kept \in Seq(S)
  <2>1. present \in SUBSET DOMAIN d.queue /\ d.queue \in Seq(S)
    BY DEF DialogOf
  <2> HIDE DEF present
  <2> QED
    BY <2>1, KeptIn
<1>2. Forgotten(e) = f
  BY DEF Forgotten
<1>3. ReconcileSnapshot(d, listing) = Reconcile(f, listing)
  BY <1>2 DEF ReconcileSnapshot
<1> HIDE DEF kept
<1>4. DialogOf(e, S) /\ e.active = d.active /\ e.state = d.state
  BY <1>1 DEF DialogOf
<1> HIDE DEF e, known
<1>5. DialogOf(f, S) /\ f.active = d.active /\ f.state = d.state
  BY <1>4 DEF DialogOf
<1> HIDE DEF f
<1> QED
  BY <1>3, <1>5, ReconcileOf

\* activate_next shows a request only where none was shown.
LEMMA ActivateOf ==
  ASSUME NEW S, NEW d, DialogOf(d, S)
  PROVE  LET e == ActivateNext(d) IN
           /\ DialogOf(e, S)
           /\ \/ e.state = d.state
              \/ d.active = None /\ e.state = "choice"
<1> DEFINE e == [d EXCEPT !.active = Head(d.queue), !.state = "choice", !.queue = Tail(@)]
<1>1. CASE d.active # None \/ d.queue = <<>>
  BY <1>1 DEF ActivateNext
<1>2. CASE d.active = None /\ d.queue # <<>>
  <2>1. Head(d.queue) \in S /\ Tail(d.queue) \in Seq(S)
    BY <1>2 DEF DialogOf
  <2>2. ActivateNext(d) = e
    BY <1>2 DEF ActivateNext
  <2>3. e.active = Head(d.queue) /\ e.state = "choice" /\ e.queue = Tail(d.queue) /\ DialogOf(e, S)
    BY <2>1 DEF DialogOf
  <2> HIDE DEF e
  <2> QED
    BY <1>2, <2>2, <2>3
<1> QED
  BY <1>1, <1>2

\* What polling brought adds what was listed, and leaves an answer that is given alone.
LEMMA KnownOf ==
  ASSUME NEW S, DialogOf(dialog, S), NEW listing \in Seq(S)
  PROVE  LET e == Known(listing) IN
           /\ DialogOf(e, S)
           /\ \/ e.state = dialog.state
              \/ dialog.active = None /\ e.state = "choice"
<1> DEFINE d == IF Complete THEN ReconcileSnapshot(dialog, listing) ELSE Reconcile(dialog, listing)
<1>1. DialogOf(d, S) /\ d.active = dialog.active /\ d.state = dialog.state
  BY ReconcileOf, SnapshotOf
<1> HIDE DEF d
<1>2. LET e == ActivateNext(d) IN
        /\ DialogOf(e, S)
        /\ \/ e.state = d.state
           \/ d.active = None /\ e.state = "choice"
  BY <1>1, ActivateOf
<1> QED
  BY <1>1, <1>2 DEF Known, d

\* A listing of arrived requests is a list of such.
LEMMA ListingsOf ==
  ASSUME NEW S, IsFiniteSet(S), NEW R \in SUBSET S, NEW listing \in Listings(R)
  PROVE  listing \in Seq(S)
<1>1. Cardinality(R) \in Nat
  BY FS_Subset, FS_CardinalityType
<1>2. listing \in [1..Cardinality(R) -> R]
  BY DEF Listings, SetToSeqs
<1> QED
  BY <1>1, <1>2

-----------------------------------------------------------------------------
\* Who was born when, in ids that each life gives out once.
Births ==
  /\ extension \in [life : Nat, issued : {extension.issued}, born : [Request -> Nat], frozen : BOOLEAN]
  /\ extension.life > 0
  /\ \A r \in Request :
       /\ extension.born[r] <= extension.life
       /\ extension.born[r] = extension.life => Session[r] \in extension.issued
  /\ \A q, r \in Request :
       extension.born[q] = extension.life /\ extension.born[r] = extension.life /\ Session[q] = Session[r] => q = r
  /\ arrived \subseteq Request /\ IsFiniteSet(arrived)
  /\ pending \subseteq arrived
  /\ \A r \in pending : extension.born[r] = extension.life
  /\ \A pair \in answered :
       /\ pair[1] \in arrived /\ pair[2] \in arrived
       /\ pair[1] = pair[2] \/ extension.born[pair[1]] < extension.born[pair[2]]

\* What the window shows and lists has arrived.
Window ==
  /\ DialogOf(dialog, arrived)
  /\ ui \in [win : {ui.win}, busy : {ui.busy}, todo : {ui.todo}, ssh : SUBSET arrived, mig : SUBSET arrived,
             failed : {ui.failed}, page : {ui.page}]

\* A message about a request is about one that has arrived.
Aimed(m) == m.op # "protect" => m.about \in arrived

\* ... wherever the message is.
Aims ==
  /\ \A i \in DOMAIN line : Aimed(line[i])
  /\ \A i \in DOMAIN inside : Aimed(inside[i].conn)

\* The worker that resolves waits for one answer, and for none when its dialog is not authorizing.
Live(m) == m.open /\ m.from = "resolve"

\* Its messages in the line,
InLine == {i \in DOMAIN line : Live(line[i])}
\* those a handler has not answered,
Inside == {i \in DOMAIN inside : inside[i].stage # "leave" /\ Live(inside[i].conn)}
\* and that there are none.
Unheard == InLine = {} /\ Inside = {}

\* One exchange at a time.
Exchange ==
  /\ DOMAIN asking = Client /\ DOMAIN panel = Asker
  /\ \A i, j \in InLine : i = j
  /\ \A i, j \in Inside : i = j
  /\ InLine = {} \/ Inside = {}
  /\ reply["resolve"] # NoOp => Unheard
  /\ panel["resolve"] # "none" => Unheard /\ reply["resolve"] = NoOp /\ asking["resolve"] = "none"
  /\ dialog.state # "authorizing" =>
       Unheard /\ reply["resolve"] = NoOp /\ asking["resolve"] = "none" /\ panel["resolve"] = "none"

\* What ScenarioAssumption says of a scene.
Scene ==
  [system : {"linux", "macos"}, requests : SUBSET Request, migrations : SUBSET Request,
   loads : SUBSET Load, polls : Seq({"events", "ssh", "mig"}), records : Nat, maxAllows : Nat,
   notify : BOOLEAN, pendingOnly : BOOLEAN, restarts : BOOLEAN, kills : BOOLEAN,
   stalls : BOOLEAN, crashes : BOOLEAN, cli : BOOLEAN]

\* The inductive invariant of the answers on macOS.
OnMac == Births /\ Window /\ Aims /\ Exchange

\* The history of answers is the extension's; on Linux it stays empty.
Addressed ==
  /\ scene \in Scene
  /\ IF scene.system = "macos" THEN OnMac ELSE answered = {}

-----------------------------------------------------------------------------
\* A scene stays in its system.
LEMMA SceneStays ==
  ASSUME scene \in Scene, [DesktopNext]_desktop
  PROVE  scene' \in Scene /\ scene'.system = scene.system
<1>1. \/ UNCHANGED scene
      \/ scene' = [scene EXCEPT !.cli = FALSE] \/ scene' = [scene EXCEPT !.stalls = FALSE]
      \/ scene' = [scene EXCEPT !.crashes = FALSE] \/ scene' = [scene EXCEPT !.restarts = FALSE]
      \/ scene' = [scene EXCEPT !.kills = FALSE]
  <2>1. CASE UNCHANGED desktop
    BY <2>1 DEF desktop, vars
  <2>2. CASE Linux(Next)
    <3>1. CASE Ipc
      BY <3>1 DEF Ipc, ServeEvents, AnswerEvents, ServeBlock, ServeAllow, ServeLoad, ServeSensitive, ServeRevoke,
        PolkitEnds, PolkitAllows, PolkitLoads, Answer
    <3>2. CASE Write \/ Notify \/ (\E r \in Request : Delay(r)) \/ Poll \/ Resolve \/ ClickBlock
      BY <3>2 DEF Write, Notify, NotifierAsks, NotifierHearsEvents, NotifierPolls, Delay, Poll, PollStarts, PollAsks,
        PollHears, PollLists, PollTimesOut, PollApplies, Resolve, ResolveFails, ResolveCompletes, ClickBlock, Click
    <3>3. CASE \E l \in Load : Broker(l)
      BY <3>3 DEF Broker, ChildStops, BrokerAsks, WaitForStopFails, BrokerHears, BrokerTimesOut, BrokerSupplies,
        BrokerContinues, ChildExits, BrokerWaits, BrokerRevokes, BrokerReturns, Idle
    <3>4. CASE Environment
      BY <3>4 DEF Environment, Arrive, Leave, Decide, NotifierRestarts, ClickAllow, Click, Fork, ChildDies, BrokerDies,
        OrphanResumes, Idle
    <3> QED
      BY <2>2, <3>1, <3>2, <3>3, <3>4 DEF Linux, Next
  <2>3. CASE Mac(MacServer) \/ Mac(MacNotify) \/ Mac(MacPollStep)
    BY <2>3 DEF Mac, MacServer, Enter, NoRoom, Handle, Depart, MacNotify, MacNotifierPolls, MacNotifierReads,
      MacPollStep, MacPollLists, MacPollFails, Elsewhere
  <2>4. CASE Mac(\E c \in Asker : MacAsker(c)) \/ Mac(CliReturns) \/ Mac(\E d \in Request \union {"cli"} : Expire(d))
    BY <2>4 DEF Mac, MacAsker, PanelTimesOut, Send, MacTimesOut, CliReturns, Expire, Elsewhere
  <2>5. CASE Mac(MacEnvironment)
    BY <2>5 DEF Mac, MacEnvironment, MacArrive, MacClickAllow, CliStarts, PanelPasses, PanelRefuses, Freeze, Thaw,
      ExtensionRestarts, Elsewhere
  <2>6. CASE Shared(MacShared) \/ Shared(MacPoll) \/ Shared(Resolve)
    BY <2>6 DEF Shared, MacShared, MacPoll, Resolve, Leave, Decide, Write, NotifierRestarts, ClickBlock, Click,
      PollStarts, PollApplies, ResolveFails, ResolveCompletes
  <2> QED
    BY <2>1, <2>2, <2>3, <2>4, <2>5, <2>6 DEF DesktopNext
<1> QED
  BY <1>1 DEF Scene

\* It holds at the start.
LEMMA AddressedInit ==
  ASSUME DesktopInit
  PROVE  Addressed
<1>1. scene \in Scene
  BY ScenarioAssumption DEF DesktopInit, Init, Scene
<1>2. arrived = {} /\ pending = {} /\ answered = {} /\ line = <<>> /\ inside = <<>>
  BY DEF DesktopInit, Init, MacInit
<1>3. Births
  <2>1. extension = [life |-> 1, issued |-> {}, born |-> [r \in Request |-> 0], frozen |-> FALSE]
    BY DEF DesktopInit, MacInit, NewExtension
  <2>2. /\ extension.life = 1 /\ extension.born = [r \in Request |-> 0]
        /\ extension \in [life : Nat, issued : {extension.issued}, born : [Request -> Nat], frozen : BOOLEAN]
    BY <2>1
  <2> QED
    BY <1>2, <2>2, FS_EmptySet DEF Births
<1>4. Window
  <2>1. dialog = NoDialog /\ ui = [NoWindow EXCEPT !.win = ~scene.pendingOnly]
    BY DEF DesktopInit, Init
  <2>2. DialogOf(dialog, arrived)
    BY <2>1 DEF DialogOf, NoDialog
  <2> QED
    BY <2>1, <2>2 DEF Window, NoWindow
<1>5. DOMAIN line = {} /\ DOMAIN inside = {}
  BY <1>2
<1>6. Aims
  BY <1>5 DEF Aims
<1>7. Exchange
  BY <1>5 DEF DesktopInit, Init, MacInit, Exchange, Unheard, InLine, Inside, Client, Asker
<1> QED
  BY <1>1, <1>2, <1>3, <1>4, <1>6, <1>7 DEF Addressed, OnMac

-----------------------------------------------------------------------------
\* The extension's requests
LEMMA BirthsStay ==
  ASSUME Births, UNCHANGED <<extension, arrived, answered>>, pending' \subseteq pending
  PROVE  Births'
BY DEF Births

\* Only one request of this life is meant by an id, and what was pending in an earlier life is gone.
LEMMA BirthsStep ==
  ASSUME Births, Aims, DesktopNext, scene.system = "macos"
  PROVE  Births' /\ arrived \subseteq arrived'
<1> USE DEF macVars, Elsewhere, store
<1>1. CASE Mac(Handle)
  <2>1. PICK i \in DOMAIN inside : LET m == inside[i].conn IN
          /\ UNCHANGED <<extension, arrived>>
          /\ \/ UNCHANGED <<pending, answered>>
             \/ /\ m.op # "protect"
                /\ pending' = pending \ Meant(m.about)
                /\ answered' = answered \union ({m.about} \X Meant(m.about))
    BY <1>1 DEF Mac, Handle
  <2> DEFINE m == inside[i].conn
  <2>2. CASE UNCHANGED <<pending, answered>>
    BY <2>1, <2>2 DEF Births
  <2>3. CASE /\ m.op # "protect" /\ pending' = pending \ Meant(m.about)
             /\ answered' = answered \union ({m.about} \X Meant(m.about))
    <3>1. m.about \in arrived
      BY <2>3 DEF Aims, Aimed
    <3>2. \A q \in Meant(m.about) : q \in pending /\ Session[q] = Session[m.about]
      BY DEF Meant
    <3>3. ASSUME NEW q \in Meant(m.about)
          PROVE  q \in arrived /\ (m.about = q \/ extension.born[m.about] < extension.born[q])
      <4>1. q \in Request /\ m.about \in Request /\ q \in arrived /\ extension.born[q] = extension.life
        BY <3>1, <3>2, <3>3 DEF Births
      <4>2. extension.born[m.about] \in Nat /\ extension.life \in Nat /\ extension.born[m.about] <= extension.life
        BY <4>1 DEF Births
      <4>3. extension.born[m.about] = extension.life => m.about = q
        BY <3>2, <3>3, <4>1 DEF Births
      <4> QED
        BY <4>1, <4>2, <4>3
    <3> HIDE DEF m
    <3>4. \A pair \in {m.about} \X Meant(m.about) : pair[1] = m.about /\ pair[2] \in Meant(m.about)
      OBVIOUS
    <3>5. \A pair \in answered' :
            /\ pair[1] \in arrived /\ pair[2] \in arrived
            /\ pair[1] = pair[2] \/ extension.born[pair[1]] < extension.born[pair[2]]
      BY <2>3, <3>1, <3>3, <3>4 DEF Births
    <3> QED
      BY <2>1, <2>3, <3>5 DEF Births
  <2> QED
    BY <2>1, <2>2, <2>3
<1>2. CASE Mac(\E r \in Request : MacArrive(r))
  <2>1. PICK r \in Request : /\ r \notin arrived /\ Session[r] \notin extension.issued
          /\ pending' = pending \union {r} /\ arrived' = arrived \union {r}
          /\ extension' = [extension EXCEPT !.issued = @ \union {Session[r]}, !.born[r] = extension.life]
          /\ UNCHANGED answered
    BY <1>2 DEF Mac, MacArrive, FreshId, macServer, macUser
  <2> DEFINE born == [extension.born EXCEPT ![r] = extension.life]
             issued == extension.issued \union {Session[r]}
  <2>2. extension' = [extension EXCEPT !.issued = issued, !.born = born]
    BY <2>1
  <2>3. born \in [Request -> Nat]
    BY DEF Births
  <2> HIDE DEF born, issued
  <2>4. /\ extension'.life = extension.life /\ extension'.issued = issued /\ extension'.born = born
        /\ extension' \in [life : Nat, issued : {extension'.issued}, born : [Request -> Nat], frozen : BOOLEAN]
    BY <2>2, <2>3 DEF Births
  <2>5. \A q \in Request : born[q] = IF q = r THEN extension.life ELSE extension.born[q]
    BY DEF born, Births
  <2>6. IsFiniteSet(arrived')
    BY <2>1, FS_AddElement DEF Births
  <2>7. extension.life \in Nat /\ extension.life > 0 /\ extension.life <= extension.life
    BY DEF Births
  <2>8. \A q \in Request :
          /\ born[q] <= extension.life
          /\ born[q] = extension.life => Session[q] \in issued
    BY <2>5, <2>7 DEF Births, issued
  <2>9. \A p, q \in Request :
          born[p] = extension.life /\ born[q] = extension.life /\ Session[p] = Session[q] => p = q
    BY <2>1, <2>5 DEF Births
  <2>10. \A pair \in answered : pair[1] # r /\ pair[2] # r /\ pair[1] \in Request /\ pair[2] \in Request
    BY <2>1 DEF Births
  <2>11. \A pair \in answered' :
           /\ pair[1] \in arrived' /\ pair[2] \in arrived'
           /\ pair[1] = pair[2] \/ born[pair[1]] < born[pair[2]]
    BY <2>1, <2>5, <2>10 DEF Births
  <2>12. \A q \in pending' : born[q] = extension.life
    BY <2>1, <2>5 DEF Births
  <2>13. arrived' \subseteq Request /\ pending' \subseteq arrived'
    BY <2>1 DEF Births
  <2> QED
    BY <2>1, <2>4, <2>6, <2>7, <2>8, <2>9, <2>11, <2>12, <2>13 DEF Births
<1>3. CASE Mac(Freeze) \/ Mac(Thaw)
  <2>1. PICK frozen \in BOOLEAN : extension' = [extension EXCEPT !.frozen = frozen] /\ UNCHANGED <<arrived, pending, answered>>
    BY <1>3 DEF Mac, Freeze, Thaw, macServer, macUser
  <2>2. /\ extension'.life = extension.life /\ extension'.issued = extension.issued /\ extension'.born = extension.born
        /\ extension' \in [life : Nat, issued : {extension'.issued}, born : [Request -> Nat], frozen : BOOLEAN]
    BY <2>1 DEF Births
  <2> QED
    BY <2>1, <2>2 DEF Births
<1>4. CASE Mac(ExtensionRestarts)
  <2>1. extension' = [NewExtension(extension.life + 1) EXCEPT !.born = extension.born] /\ pending' = {}
        /\ UNCHANGED <<arrived, answered>>
    BY <1>4 DEF Mac, ExtensionRestarts
  <2> DEFINE new == NewExtension(extension.life + 1)
  <2>n. /\ new.life = extension.life + 1 /\ extension.life + 1 \in Nat /\ extension.born \in [Request -> Nat]
        /\ new \in [life : Nat, issued : {new.issued}, born : [Request -> Nat], frozen : BOOLEAN]
    BY DEF Births, NewExtension
  <2> HIDE DEF new
  <2>2. /\ extension'.life = extension.life + 1 /\ extension'.born = extension.born
        /\ extension' \in [life : Nat, issued : {extension'.issued}, born : [Request -> Nat], frozen : BOOLEAN]
    BY <2>1, <2>n DEF new
  <2>3. \A r \in Request : extension.born[r] \in Nat /\ extension.life \in Nat /\ extension.born[r] <= extension.life
    BY DEF Births
  <2>4. \A r \in Request : extension.born[r] < extension.life + 1
    BY <2>3
  <2>5. extension.life + 1 > 0
    BY DEF Births
  <2>6. \A r \in Request : extension'.born[r] <= extension'.life /\ extension'.born[r] # extension'.life
    BY <2>2, <2>3, <2>4
  <2> QED
    BY <2>1, <2>2, <2>5, <2>6 DEF Births
<1>5. CASE UNCHANGED <<extension, arrived, answered>> /\ pending' \subseteq pending
  BY <1>5, BirthsStay
<1>6. \/ Mac(Handle) \/ Mac(\E r \in Request : MacArrive(r)) \/ Mac(Freeze) \/ Mac(Thaw) \/ Mac(ExtensionRestarts)
      \/ UNCHANGED <<extension, arrived, answered>> /\ pending' \subseteq pending
  <2>1. CASE Mac(MacServer)
    BY <2>1 DEF Mac, MacServer, Enter, NoRoom, Depart
  <2>2. CASE Mac(MacNotify) \/ Mac(MacPollStep) \/ Mac(CliReturns)
    BY <2>2 DEF Mac, MacNotify, MacNotifierPolls, MacNotifierReads, MacPollStep, MacPollLists, MacPollFails, CliReturns
  <2>3. CASE Mac(\E c \in Asker : MacAsker(c)) \/ Mac(\E d \in Request \union {"cli"} : Expire(d))
    BY <2>3 DEF Mac, MacAsker, PanelTimesOut, Send, MacTimesOut, Expire
  <2>4. CASE Mac(MacEnvironment)
    BY <2>4 DEF Mac, MacEnvironment, MacClickAllow, CliStarts, PanelPasses, PanelRefuses
  <2>5. CASE Shared(MacShared)
    BY <2>5 DEF Shared, MacShared, Leave, Decide, Write, NotifierRestarts, ClickBlock, Click
  <2>6. CASE Shared(MacPoll) \/ Shared(Resolve)
    BY <2>6 DEF Shared, MacPoll, Resolve, PollStarts, PollApplies, ResolveFails, ResolveCompletes
  <2>7. ~Linux(Next)
    BY DEF Linux
  <2> QED
    BY <2>1, <2>2, <2>3, <2>4, <2>5, <2>6, <2>7 DEF DesktopNext
<1> QED
  BY <1>1, <1>2, <1>3, <1>4, <1>5, <1>6

-----------------------------------------------------------------------------
\* The window
LEMMA DialogMore ==
  ASSUME NEW S, NEW T, S \subseteq T, NEW d, DialogOf(d, S)
  PROVE  DialogOf(d, T)
<1>1. d.queue \in Seq(S) /\ Seq(S) \subseteq Seq(T)
  BY DEF DialogOf
<1> QED
  BY <1>1 DEF DialogOf

\* The window stays while requests arrive.
LEMMA WindowStays ==
  ASSUME Window, UNCHANGED <<dialog, ui>>, arrived \subseteq arrived'
  PROVE  Window'
<1>1. DialogOf(dialog, arrived')
  BY DialogMore DEF Window
<1> QED
  BY <1>1 DEF Window, DialogOf

\* The window is only told of what is pending.
LEMMA WindowStep ==
  ASSUME Births, Window, Exchange, DesktopNext, scene.system = "macos", arrived \subseteq arrived'
  PROVE  Window'
<1> USE DEF macVars, Elsewhere, desk
<1>u. ASSUME UNCHANGED arrived,
             ui' \in [win : {ui'.win}, busy : {ui'.busy}, todo : {ui'.todo}, ssh : SUBSET arrived, mig : SUBSET arrived,
                      failed : {ui'.failed}, page : {ui'.page}],
             DialogOf(dialog', arrived)
      PROVE  Window'
  BY <1>u DEF Window, DialogOf
<1>w. ASSUME NEW todo, NEW win, NEW busy
      PROVE  LET u == [NoWindow EXCEPT !.win = win, !.busy = busy, !.todo = todo] IN
             u \in [win : {u.win}, busy : {u.busy}, todo : {u.todo}, ssh : SUBSET arrived, mig : SUBSET arrived,
                    failed : {u.failed}, page : {u.page}]
  BY DEF NoWindow
<1>v. LET u == [NoWindow EXCEPT !.win = TRUE] IN
        u \in [win : {u.win}, busy : {u.busy}, todo : {u.todo}, ssh : SUBSET arrived, mig : SUBSET arrived,
               failed : {u.failed}, page : {u.page}]
  BY DEF NoWindow
<1>c. CloseWindow /\ UNCHANGED arrived => Window'
  <2>1. DialogOf(NoDialog, arrived)
    BY DEF DialogOf, NoDialog
  <2>2. LET u == NoWindow IN u \in
          [win : {u.win}, busy : {u.busy}, todo : {u.todo}, ssh : SUBSET arrived, mig : SUBSET arrived,
           failed : {u.failed}, page : {u.page}]
    BY DEF NoWindow
  <2> QED
    BY <1>u, <2>1, <2>2 DEF CloseWindow
<1>b. ASSUME dialog' = Begin(dialog), dialog.state = "choice", UNCHANGED <<arrived, ui>>
      PROVE  Window'
  <2>1. DialogOf(dialog', arrived)
    BY <1>b DEF Begin, Window, DialogOf
  <2> QED
    BY <1>b, <1>u, <2>1 DEF Window
<1>1. CASE Mac(MacClickAllow)
  BY <1>1, <1>b DEF Mac, MacClickAllow, store
<1>2. CASE Shared(ClickBlock)
  BY <1>2, <1>b DEF Shared, ClickBlock, Click, store
<1>3. CASE Mac(MacNotifierPolls)
  <2>1. UNCHANGED <<arrived, dialog>> /\ (UNCHANGED ui \/ ui' = [NoWindow EXCEPT !.win = TRUE])
    BY <1>3 DEF Mac, MacNotifierPolls, ActivateGuardUi, store
  <2> QED
    BY <1>u, <1>v, <2>1 DEF Window
<1>4. CASE Mac(MacPollLists)
  <2>1. UNCHANGED <<arrived, dialog>> /\
        \/ ui' = [ui EXCEPT !.todo = Tail(@), !.ssh = pending \ Migrations]
        \/ ui' = [ui EXCEPT !.todo = Tail(@), !.mig = Migrations]
    BY <1>4 DEF Mac, MacPollLists, store
  <2>2. pending \ Migrations \in SUBSET arrived /\ Migrations \in SUBSET arrived
    BY DEF Births, Migrations
  <2> QED
    BY <1>u, <2>1, <2>2 DEF Window
<1>5. CASE Mac(MacPollFails)
  <2>1. UNCHANGED <<arrived, dialog>> /\ ui' = [ui EXCEPT !.todo = Tail(@), !.failed = @ \union {Head(ui.todo)}]
    BY <1>5 DEF Mac, MacPollFails, store
  <2> QED
    BY <1>u, <2>1 DEF Window
<1>6. CASE Shared(PollStarts)
  <2>1. UNCHANGED <<arrived, dialog>> /\ ui' = [NoWindow EXCEPT !.win = TRUE, !.busy = TRUE, !.todo = scene.polls]
    BY <1>6 DEF Shared, PollStarts, store
  <2> QED
    BY <1>u, <1>w, <2>1 DEF Window
<1>7. CASE Shared(PollApplies)
  <2>1. PICK migrations \in Listings(ui.mig), reads \in Listings(ui.ssh) :
          /\ UNCHANGED arrived
          /\ \/ CloseWindow
             \/ dialog' = Known(migrations \o reads) /\ ui' = [NoWindow EXCEPT !.win = TRUE]
    BY <1>7 DEF Shared, PollApplies, store
  <2>2. migrations \in Seq(arrived) /\ reads \in Seq(arrived)
    <3>1. IsFiniteSet(arrived) /\ ui.mig \in SUBSET arrived /\ ui.ssh \in SUBSET arrived
      BY DEF Births, Window
    <3> QED
      BY <2>1, <3>1, ListingsOf
  <2>3. migrations \o reads \in Seq(arrived)
    BY <2>2
  <2>4. DialogOf(Known(migrations \o reads), arrived)
    BY <2>3, KnownOf DEF Window
  <2> QED
    BY <1>c, <1>u, <1>v, <2>1, <2>4
<1>8. CASE Shared(ResolveFails)
  <2>1. dialog.state = "authorizing" /\ dialog' = Retry(dialog) /\ UNCHANGED <<arrived, ui>>
    BY <1>8 DEF Shared, ResolveFails, Answered, Exchange, store
  <2>2. DialogOf(dialog', arrived)
    BY <2>1 DEF Retry, Window, DialogOf
  <2> QED
    BY <1>u, <2>1, <2>2 DEF Window
<1>9. CASE Shared(ResolveCompletes)
  <2>1. UNCHANGED arrived /\ (CloseWindow \/ (dialog' = ActivateNext(Released(dialog)) /\ UNCHANGED ui))
    BY <1>9 DEF Shared, ResolveCompletes, store
  <2>2. DialogOf(Released(dialog), arrived)
    BY DEF Released, Window, DialogOf
  <2>3. DialogOf(ActivateNext(Released(dialog)), arrived)
    BY <2>2, ActivateOf
  <2> QED
    BY <1>c, <1>u, <2>1, <2>3 DEF Window
<1>10. CASE UNCHANGED <<dialog, ui>>
  BY <1>10, WindowStays
<1>11. \/ Mac(MacClickAllow) \/ Shared(ClickBlock) \/ Mac(MacNotifierPolls) \/ Mac(MacPollLists) \/ Mac(MacPollFails)
       \/ Shared(PollStarts) \/ Shared(PollApplies) \/ Shared(ResolveFails) \/ Shared(ResolveCompletes)
       \/ UNCHANGED <<dialog, ui>>
  <2>1. CASE Mac(MacServer)
    BY <2>1 DEF Mac, MacServer, Enter, NoRoom, Handle, Depart
  <2>2. CASE Mac(MacNotify) \/ Mac(MacPollStep) \/ Mac(CliReturns)
    BY <2>2 DEF Mac, MacNotify, MacNotifierReads, MacPollStep, CliReturns
  <2>3. CASE Mac(\E c \in Asker : MacAsker(c)) \/ Mac(\E d \in Request \union {"cli"} : Expire(d))
    BY <2>3 DEF Mac, MacAsker, PanelTimesOut, Send, MacTimesOut, Expire
  <2>4. CASE Mac(MacEnvironment)
    BY <2>4 DEF Mac, MacEnvironment, MacArrive, CliStarts, PanelPasses, PanelRefuses, Freeze, Thaw, ExtensionRestarts
  <2>5. CASE Shared(MacShared)
    BY <2>5 DEF Shared, MacShared, Leave, Decide, Write, NotifierRestarts
  <2>6. CASE Shared(MacPoll) \/ Shared(Resolve)
    BY <2>6 DEF Shared, MacPoll, Resolve
  <2>7. ~Linux(Next)
    BY DEF Linux
  <2> QED
    BY <2>1, <2>2, <2>3, <2>4, <2>5, <2>6, <2>7 DEF DesktopNext
<1> QED
  BY <1>1, <1>2, <1>3, <1>4, <1>5, <1>6, <1>7, <1>8, <1>9, <1>10, <1>11

-----------------------------------------------------------------------------
\* Where the messages of a step come from.
LEMMA AskPlaces ==
  ASSUME Lines, NEW c, NEW op, NEW about, Ask(c, op, about)
  PROVE  /\ Len(line) \in Nat /\ DOMAIN line = 1..Len(line) /\ DOMAIN line' = 1..(Len(line) + 1)
         /\ \A k \in 1..Len(line) : line'[k] = line[k]
         /\ LET m == line'[Len(line) + 1] IN m.op = op /\ m.about = about /\ m.from = c /\ m.open
         /\ UNCHANGED reply /\ asking' = [asking EXCEPT ![c] = op]
<1> DEFINE m == [op |-> op, about |-> about, from |-> c, open |-> TRUE]
           L == Range(line)
<1>1. line' = Append(line, m) /\ line \in Seq(L) /\ UNCHANGED reply /\ asking' = [asking EXCEPT ![c] = op]
  BY DEF Ask, Lines
<1>m. m.op = op /\ m.about = about /\ m.from = c /\ m.open
  OBVIOUS
<1> HIDE DEF m, L
<1>2. /\ Len(line) \in Nat /\ DOMAIN line = 1..Len(line) /\ DOMAIN line' = 1..(Len(line) + 1)
      /\ \A k \in 1..Len(line) : line'[k] = line[k]
      /\ line'[Len(line) + 1] = m
  BY <1>1
<1> QED
  BY <1>1, <1>2, <1>m

\* A handler takes one message up.
LEMMA EnterPlaces ==
  ASSUME Lines, Slots, Enter
  PROVE  \E i \in DOMAIN line :
           /\ Len(line) \in Nat /\ DOMAIN line = 1..Len(line) /\ DOMAIN line' = 1..(Len(line) - 1)
           /\ \A k \in DOMAIN line' : line'[k] = line[IF k < i THEN k ELSE k + 1]
           /\ Len(inside) \in Nat /\ DOMAIN inside = 1..Len(inside) /\ DOMAIN inside' = 1..(Len(inside) + 1)
           /\ \A k \in DOMAIN inside : inside'[k] = inside[k]
           /\ inside'[Len(inside) + 1].conn = line[i]
<1>1. PICK i \in DOMAIN line : /\ line' = RemoveAt(line, i)
         /\ inside' = Append(inside,
              [conn |-> line[i], stage |-> IF active >= MaxConcurrent THEN "refuse" ELSE "handle"])
  BY DEF Enter
<1> DEFINE L == Range(line)
           In == Range(inside)
           e == [conn |-> line[i], stage |-> IF active >= MaxConcurrent THEN "refuse" ELSE "handle"]
<1>2. line \in Seq(L) /\ Len(line) \in Nat /\ DOMAIN line = 1..Len(line)
  BY DEF Lines
<1>3. inside \in Seq(In) /\ Len(inside) \in Nat /\ DOMAIN inside = 1..Len(inside)
  BY DEF Slots
<1>4. e.conn = line[i]
  OBVIOUS
<1> HIDE DEF L, In, e
<1>5. /\ line' \in Seq(L) /\ Len(line') = Len(line) - 1
      /\ \A k \in 1..(Len(line) - 1) : line'[k] = line[IF k < i THEN k ELSE k + 1]
  BY <1>1, <1>2, RemoveAtPlaces
<1>6. /\ DOMAIN inside' = 1..(Len(inside) + 1)
      /\ \A k \in 1..Len(inside) : inside'[k] = inside[k]
      /\ inside'[Len(inside) + 1] = e
  BY <1>1, <1>3 DEF e
<1>7. DOMAIN line' = 1..(Len(line) - 1)
  BY <1>2, <1>5
<1> QED
  BY <1>2, <1>3, <1>4, <1>5, <1>6, <1>7

\* A handler leaves.
LEMMA OutPlaces ==
  ASSUME Slots, NEW i \in DOMAIN inside, Out(i)
  PROVE  /\ Len(inside) \in Nat /\ DOMAIN inside = 1..Len(inside) /\ DOMAIN inside' = 1..(Len(inside) - 1)
         /\ \A k \in DOMAIN inside' : inside'[k] = inside[IF k < i THEN k ELSE k + 1]
<1> DEFINE In == Range(inside)
<1>1. inside \in Seq(In) /\ Len(inside) \in Nat /\ DOMAIN inside = 1..Len(inside)
  BY DEF Slots
<1> HIDE DEF In
<1>2. /\ inside' \in Seq(In) /\ Len(inside') = Len(inside) - 1
      /\ \A k \in 1..(Len(inside) - 1) : inside'[k] = inside[IF k < i THEN k ELSE k + 1]
  BY <1>1, RemoveAtPlaces DEF Out
<1>3. DOMAIN inside' = 1..(Len(inside) - 1)
  BY <1>1, <1>2
<1> QED
  BY <1>1, <1>2, <1>3

\* A client that waited too long leaves its messages where they are.
LEMMA TimesOutPlaces ==
  ASSUME Slots, NEW c, MacTimesOut(c)
  PROVE  /\ DOMAIN line' = DOMAIN line /\ \A i \in DOMAIN line : line'[i] = Hangup(line[i], {c})
         /\ DOMAIN inside' = DOMAIN inside
         /\ \A i \in DOMAIN inside : inside'[i].conn = Hangup(inside[i].conn, {c}) /\ inside'[i].stage = inside[i].stage
<1>1. /\ line' = [i \in DOMAIN line |-> Hangup(line[i], {c})]
      /\ inside' = [i \in DOMAIN inside |-> [inside[i] EXCEPT !.conn = Hangup(@, {c})]]
  BY DEF MacTimesOut
<1> QED
  BY <1>1 DEF Slots, Entry

-----------------------------------------------------------------------------
\* What is asked about has arrived.
LEMMA AimsStep ==
  ASSUME Window, Aims, Exchange, Guarded, Guests, Slots, DesktopNext, scene.system = "macos", arrived \subseteq arrived'
  PROVE  Aims'
<1> USE DEF macVars, macServer, Elsewhere, wire
<1>r. ASSUME \A i \in DOMAIN line' : line'[i].op # "protect" => line'[i].about \in arrived',
             \A i \in DOMAIN inside' : inside'[i].conn.op # "protect" => inside'[i].conn.about \in arrived'
      PROVE  Aims'
  BY <1>r DEF Aims, Aimed
<1>l. \A i \in DOMAIN line : line[i].op # "protect" => line[i].about \in arrived'
  BY DEF Aims, Aimed
<1>i. \A i \in DOMAIN inside : inside[i].conn.op # "protect" => inside[i].conn.about \in arrived'
  BY DEF Aims, Aimed
<1>m. \A i \in DOMAIN line : Message(line[i])
  BY DEF Guarded, Lines, Range
<1>a. ASSUME NEW c, NEW op, NEW about, Ask(c, op, about), op # "protect" => about \in arrived, UNCHANGED inside
      PROVE  Aims'
  <2>1. /\ Len(line) \in Nat /\ DOMAIN line = 1..Len(line) /\ DOMAIN line' = 1..(Len(line) + 1)
        /\ \A k \in 1..Len(line) : line'[k] = line[k]
        /\ line'[Len(line) + 1].op = op /\ line'[Len(line) + 1].about = about
    BY <1>a, AskPlaces DEF Guarded
  <2>2. \A k \in DOMAIN line' : k \in DOMAIN line \/ k = Len(line) + 1
    BY <2>1
  <2> QED
    BY <1>a, <1>l, <1>i, <1>r, <2>1, <2>2
<1>c. ASSUME NEW cs, Close(cs), UNCHANGED inside PROVE Aims'
  <2>1. DOMAIN line' = DOMAIN line /\ \A i \in DOMAIN line : line'[i] = Hangup(line[i], cs)
    BY <1>c DEF Close
  <2>2. \A i \in DOMAIN line : line'[i].op = line[i].op /\ line'[i].about = line[i].about
    BY <1>m, <2>1, HangupKeeps
  <2> QED
    BY <1>c, <1>l, <1>i, <1>r, <2>1, <2>2
<1>o. ASSUME NEW i \in DOMAIN inside, Out(i), UNCHANGED line PROVE Aims'
  <2>1. \A k \in DOMAIN inside' : \E j \in DOMAIN inside : inside'[k] = inside[j]
    BY <1>o, OutPlaces
  <2> QED
    BY <1>l, <1>i, <1>o, <1>r, <2>1
<1>q. UNCHANGED <<line, inside>> => Aims'
  BY <1>l, <1>i, <1>r
<1>1. CASE Mac(Enter)
  <2>1. PICK i \in DOMAIN line :
          /\ Len(line) \in Nat /\ DOMAIN line = 1..Len(line) /\ DOMAIN line' = 1..(Len(line) - 1)
          /\ \A k \in DOMAIN line' : line'[k] = line[IF k < i THEN k ELSE k + 1]
          /\ Len(inside) \in Nat /\ DOMAIN inside = 1..Len(inside) /\ DOMAIN inside' = 1..(Len(inside) + 1)
          /\ \A k \in DOMAIN inside : inside'[k] = inside[k]
          /\ inside'[Len(inside) + 1].conn = line[i]
    BY <1>1, EnterPlaces DEF Mac, Guarded
  <2>2. \A k \in DOMAIN line' : \E j \in DOMAIN line : line'[k] = line[j]
    BY <2>1
  <2>3. \A k \in DOMAIN inside' : k \in DOMAIN inside \/ k = Len(inside) + 1
    BY <2>1
  <2> QED
    BY <1>l, <1>i, <1>r, <2>1, <2>2, <2>3
<1>2. CASE Mac(NoRoom) \/ Mac(Depart)
  BY <1>2, <1>o DEF Mac, NoRoom, TurnAway, Depart
<1>3. CASE Mac(Handle)
  <2>1. PICK i \in DOMAIN inside : inside' = [inside EXCEPT ![i].stage = "leave"] /\ UNCHANGED line
    BY <1>3 DEF Mac, Handle
  <2>2. \A k \in DOMAIN inside' : k \in DOMAIN inside /\ inside'[k].conn = inside[k].conn
    BY <2>1 DEF Slots, Entry
  <2> QED
    BY <1>l, <1>i, <1>r, <2>1, <2>2
<1>4. CASE \E c \in Asker : MacTimesOut(c)
  <2>1. PICK c \in Asker : MacTimesOut(c)
    BY <1>4
  <2>2. /\ DOMAIN line' = DOMAIN line /\ \A i \in DOMAIN line : line'[i] = Hangup(line[i], {c})
        /\ DOMAIN inside' = DOMAIN inside
        /\ \A i \in DOMAIN inside : inside'[i].conn = Hangup(inside[i].conn, {c})
    BY <2>1, TimesOutPlaces
  <2>3. \A i \in DOMAIN line : line'[i].op = line[i].op /\ line'[i].about = line[i].about
    BY <1>m, <2>2, HangupKeeps
  <2>4. \A i \in DOMAIN inside : inside'[i].conn.op = inside[i].conn.op /\ inside'[i].conn.about = inside[i].conn.about
    BY <2>2, HangupKeeps DEF Guests
  <2> QED
    BY <1>l, <1>i, <1>r, <2>2, <2>3, <2>4
<1>5. CASE \E c \in Asker : Send(c)
  <2>1. PICK c \in Asker : Send(c)
    BY <1>5
  <2>2. Sensitive(c) # "protect" => Deadline(c) \in arrived
    <3>1. ASSUME c # "cli" PROVE dialog.active \in arrived
      <4>1. panel["resolve"] # "none"
        BY <2>1, <3>1 DEF Send, Asker
      <4> QED
        BY <4>1 DEF Exchange, Window, DialogOf
    <3> QED
      BY <3>1 DEF Sensitive, Deadline
  <2>3. CASE Fails(c, Sensitive(c), "timed out")
    BY <1>q, <2>1, <2>3 DEF Fails, Send
  <2>4. CASE Ask(c, Sensitive(c), Deadline(c))
    BY <1>a, <2>1, <2>2, <2>4 DEF Send
  <2> QED
    BY <2>1, <2>3, <2>4 DEF Send
<1>6. CASE Mac(ExtensionRestarts)
  <2>1. line' = <<>> /\ inside' = <<>>
    BY <1>6 DEF Mac, ExtensionRestarts
  <2>2. DOMAIN <<>> = {}
    OBVIOUS
  <2> QED
    BY <1>r, <2>1, <2>2
<1>7. CASE Shared(NotifierRestarts)
  BY <1>7, <1>c DEF Shared, NotifierRestarts
<1>8. CASE Shared(ClickBlock)
  <2>1. Ask("resolve", "block", dialog.active) /\ dialog.state = "choice" /\ UNCHANGED inside
    BY <1>8 DEF Shared, ClickBlock, Click
  <2>2. dialog.active \in arrived
    BY <2>1 DEF Window, DialogOf
  <2> QED
    BY <1>a, <2>1, <2>2
<1>9. CASE Shared(Resolve)
  <2>1. Hear("resolve") \/ Close({"resolve", "poll"})
    BY <1>9 DEF Shared, Resolve, ResolveFails, ResolveCompletes
  <2> QED
    BY <1>9, <1>c, <1>q, <2>1 DEF Shared, Hear
<1>10. \/ Mac(Enter) \/ Mac(NoRoom) \/ Mac(Handle) \/ Mac(Depart) \/ (\E c \in Asker : MacTimesOut(c) \/ Send(c))
       \/ Mac(ExtensionRestarts) \/ Shared(NotifierRestarts) \/ Shared(ClickBlock) \/ Shared(Resolve)
       \/ UNCHANGED <<line, inside>>
  <2>1. CASE Mac(MacServer)
    BY <2>1 DEF Mac, MacServer
  <2>2. CASE Mac(MacNotify) \/ Mac(MacPollStep) \/ Mac(CliReturns)
    BY <2>2 DEF Mac, MacNotify, MacNotifierPolls, MacNotifierReads, MacPollStep, MacPollLists, MacPollFails, CliReturns, Hear
  <2>3. CASE Mac(\E c \in Asker : MacAsker(c)) \/ Mac(\E d \in Request \union {"cli"} : Expire(d))
    BY <2>3 DEF Mac, MacAsker, PanelTimesOut, Expire, Fails
  <2>4. CASE Mac(MacEnvironment)
    BY <2>4 DEF Mac, MacEnvironment, MacArrive, MacClickAllow, CliStarts, PanelPasses, PanelRefuses, Freeze, Thaw, Fails
  <2>5. CASE Shared(MacShared)
    BY <2>5 DEF Shared, MacShared, Leave, Decide, Write
  <2>6. CASE Shared(MacPoll) \/ Shared(Resolve)
    BY <2>6 DEF Shared, MacPoll, PollStarts, PollApplies
  <2>7. ~Linux(Next)
    BY DEF Linux
  <2> QED
    BY <2>1, <2>2, <2>3, <2>4, <2>5, <2>6, <2>7 DEF DesktopNext
<1> QED
  BY <1>1, <1>2, <1>3, <1>4, <1>5, <1>6, <1>7, <1>8, <1>9, <1>10, <1>q

-----------------------------------------------------------------------------
\* One exchange at a time
LEMMA ExchangeStays ==
  ASSUME Exchange, DOMAIN asking' = Client, DOMAIN panel' = Asker,
         UNCHANGED <<line, inside>>,
         reply'["resolve"] = reply["resolve"], asking'["resolve"] = asking["resolve"],
         panel'["resolve"] = panel["resolve"],
         dialog'.state = dialog.state \/ (dialog'.state # "authorizing" /\ dialog.state # "authorizing")
  PROVE  Exchange'
<1>1. InLine' = InLine /\ Inside' = Inside
  BY DEF InLine, Inside
<1> QED
  BY <1>1 DEF Exchange, Unheard

\* It stays at one when messages only go, or lose their sender.
LEMMA ExchangeFewer ==
  ASSUME Exchange, DOMAIN asking' = Client, DOMAIN panel' = Asker, UNCHANGED dialog,
         InLine' \subseteq InLine, Inside' \subseteq Inside,
         reply'["resolve"] = reply["resolve"] \/ (Unheard' /\ panel["resolve"] = "none" /\ dialog.state = "authorizing"),
         asking'["resolve"] = asking["resolve"], panel'["resolve"] = panel["resolve"]
  PROVE  Exchange'
BY DEF Exchange, Unheard

\* It begins when there is none.
LEMMA ExchangeBegins ==
  ASSUME Exchange, Guarded, NEW op, NEW about, Ask("resolve", op, about),
         DOMAIN panel' = Asker, panel'["resolve"] = "none", UNCHANGED inside,
         Unheard, reply["resolve"] = NoOp, dialog'.state = "authorizing"
  PROVE  Exchange'
<1> DEFINE n == Len(line) + 1
<1>1. /\ DOMAIN line = 1..Len(line) /\ DOMAIN line' = 1..(Len(line) + 1)
      /\ \A k \in 1..Len(line) : line'[k] = line[k]
      /\ UNCHANGED reply /\ asking' = [asking EXCEPT !["resolve"] = op]
  BY AskPlaces DEF Guarded
<1>2. Len(line) \in Nat
  BY AskPlaces DEF Guarded
<1>3. InLine' \subseteq {n}
  <2>1. \A k \in DOMAIN line' : k \in DOMAIN line \/ k = n
    BY <1>1, <1>2
  <2> QED
    BY <1>1, <2>1 DEF InLine, Unheard
<1>4. Inside' = {}
  BY DEF Inside, Unheard
<1>5. DOMAIN asking' = Client
  BY <1>1 DEF Exchange
<1> QED
  BY <1>1, <1>3, <1>4, <1>5 DEF Exchange

\* A message that is taken up is in the line no more.
LEMMA ExchangeEnters ==
  ASSUME Exchange, Guarded, Slots, Enter
  PROVE  Exchange'
<1>1. PICK i \in DOMAIN line :
        /\ Len(line) \in Nat /\ DOMAIN line = 1..Len(line) /\ DOMAIN line' = 1..(Len(line) - 1)
        /\ \A k \in DOMAIN line' : line'[k] = line[IF k < i THEN k ELSE k + 1]
        /\ Len(inside) \in Nat /\ DOMAIN inside = 1..Len(inside) /\ DOMAIN inside' = 1..(Len(inside) + 1)
        /\ \A k \in DOMAIN inside : inside'[k] = inside[k]
        /\ inside'[Len(inside) + 1].conn = line[i]
  BY EnterPlaces DEF Guarded
<1>2. UNCHANGED <<asking, reply, panel, dialog>>
  BY DEF Enter, Elsewhere, desk, macUser
<1> DEFINE was(k) == IF k < i THEN k ELSE k + 1
           n == Len(inside) + 1
<1>3. \A k \in InLine' : was(k) \in InLine /\ was(k) # i
  <2> TAKE k \in InLine'
  <2>1. k \in 1..(Len(line) - 1) /\ line'[k] = line[was(k)] /\ Live(line'[k])
    BY <1>1 DEF InLine, Live
  <2>2. was(k) \in 1..Len(line) /\ was(k) # i
    BY <1>1, <2>1
  <2> QED
    BY <1>1, <2>1, <2>2 DEF InLine
<1>4. \A j, k \in InLine' : was(j) = was(k) => j = k
  <2>1. \A k \in InLine' : k \in Int
    BY <1>1 DEF InLine
  <2> QED
    BY <1>1, <2>1
<1>5. \A k \in Inside' : k \in Inside \/ (k = n /\ Live(line[i]))
  <2> TAKE k \in Inside'
  <2>1. k \in DOMAIN inside' /\ inside'[k].stage # "leave" /\ Live(inside'[k].conn)
    BY DEF Inside, Live
  <2>2. k \in DOMAIN inside \/ k = n
    BY <1>1, <2>1
  <2> QED
    BY <1>1, <2>1, <2>2 DEF Inside
<1>6. Live(line[i]) => i \in InLine
  BY DEF InLine
<1> HIDE DEF was, n
<1>7. /\ \A j, k \in InLine' : j = k
      /\ \A j, k \in Inside' : j = k
      /\ InLine' = {} \/ Inside' = {}
      /\ Unheard => Unheard'
  BY <1>3, <1>4, <1>5, <1>6 DEF Exchange, Unheard
<1> QED
  BY <1>2, <1>7 DEF Exchange

\* Whoever is answered has no other message on its way.
LEMMA ExchangeAnswered ==
  ASSUME Exchange, NEW i \in DOMAIN inside, inside[i].stage # "leave", NEW answer, Deliver(inside[i].conn, answer),
         Message(inside[i].conn), DOMAIN reply = Client,
         UNCHANGED <<line, asking, panel, dialog>>,
         \A k \in Inside' : \E j \in Inside : j # i,
         \A h, k \in Inside' : h = k
  PROVE  Exchange'
<1>1. InLine' = InLine
  BY DEF InLine
<1>2. Inside # {} \/ Inside' = {}
  OBVIOUS
<1>4. Live(inside[i].conn) => i \in Inside
  BY DEF Inside
<1>5. i \in Inside => Inside' = {} /\ InLine = {} /\ panel["resolve"] = "none" /\ dialog.state = "authorizing"
  BY DEF Exchange, Unheard
<1>6. ~Live(inside[i].conn) => reply'["resolve"] = reply["resolve"]
  BY DEF Live, Deliver, Message, Client
<1> QED
  BY <1>1, <1>2, <1>4, <1>5, <1>6 DEF Exchange, Unheard

\* Who is left inside was there before, and was somebody else.
LEMMA OutInside ==
  ASSUME Exchange, Slots, NEW i \in DOMAIN inside, Out(i)
  PROVE  /\ \A k \in Inside' : \E j \in Inside : j # i
         /\ \A h, k \in Inside' : h = k
<1>1. /\ Len(inside) \in Nat /\ DOMAIN inside = 1..Len(inside) /\ DOMAIN inside' = 1..(Len(inside) - 1)
      /\ \A k \in DOMAIN inside' : inside'[k] = inside[IF k < i THEN k ELSE k + 1]
  BY OutPlaces
<1> DEFINE was(k) == IF k < i THEN k ELSE k + 1
<1>2. \A k \in Inside' : was(k) \in Inside /\ was(k) # i
  <2> TAKE k \in Inside'
  <2>1. k \in 1..(Len(inside) - 1) /\ inside'[k] = inside[was(k)] /\ inside'[k].stage # "leave" /\ Live(inside'[k].conn)
    BY <1>1 DEF Inside, Live
  <2>2. was(k) \in 1..Len(inside) /\ was(k) # i
    BY <1>1, <2>1
  <2> QED
    BY <1>1, <2>1, <2>2 DEF Inside
<1>3. \A j, k \in Inside' : was(j) = was(k) => j = k
  <2>1. \A k \in Inside' : k \in Int
    BY <1>1 DEF Inside
  <2> QED
    BY <1>1, <2>1
<1> HIDE DEF was
<1> QED
  BY <1>2, <1>3 DEF Exchange

\* The server answers a live message once.
LEMMA ExchangeServed ==
  ASSUME Exchange, Guarded, Guests, Slots, MacServer
  PROVE  Exchange'
<1> USE DEF Elsewhere, desk, macUser, wire
<1>d. DOMAIN reply = Client
  BY DEF Guarded, Replies
<1>g. \A i \in DOMAIN inside : Message(inside[i].conn)
  BY DEF Guests
<1>1. CASE Enter
  BY <1>1, ExchangeEnters
<1>2. CASE NoRoom
  <2>1. PICK i \in DOMAIN inside : /\ inside[i].stage = "refuse" /\ Out(i) /\ Deliver(inside[i].conn, Refuse("concurrency limit"))
                                   /\ UNCHANGED <<line, asking, panel, dialog>>
    BY <1>2 DEF NoRoom, TurnAway
  <2>2. /\ \A k \in Inside' : \E j \in Inside : j # i
        /\ \A h, k \in Inside' : h = k
    BY <2>1, OutInside
  <2> QED
    BY <1>d, <1>g, <2>1, <2>2, ExchangeAnswered
<1>3. CASE Handle
  <2>1. PICK i \in DOMAIN inside : /\ inside[i].stage = "handle"
           /\ inside' = [inside EXCEPT ![i].stage = "leave"]
           /\ UNCHANGED <<line, asking, panel, dialog>>
           /\ \/ Deliver(inside[i].conn, Ok)
              \/ Deliver(inside[i].conn, IF Meant(inside[i].conn.about) = {} THEN Refuse("already_resolved") ELSE Ok)
    BY <1>3 DEF Handle
  <2>2. \A k \in DOMAIN inside' : /\ k \in DOMAIN inside /\ inside'[k].conn = inside[k].conn
                                  /\ inside'[k].stage = IF k = i THEN "leave" ELSE inside[k].stage
    BY <2>1 DEF Slots, Entry
  <2>3. \A k \in Inside' : k \in Inside /\ k # i
    BY <2>2 DEF Inside, Live
  <2>4. \A h, k \in Inside' : h = k
    BY <2>3 DEF Exchange
  <2>5. PICK answer : Deliver(inside[i].conn, answer)
    BY <2>1
  <2> QED
    BY <1>d, <1>g, <2>1, <2>3, <2>4, <2>5, ExchangeAnswered
<1>4. CASE Depart
  <2>1. PICK i \in DOMAIN inside : inside[i].stage = "leave" /\ Out(i) /\ UNCHANGED <<line, asking, reply, panel, dialog>>
    BY <1>4 DEF Depart
  <2>2. /\ \A k \in Inside' : \E j \in Inside : j # i
        /\ \A h, k \in Inside' : h = k
    BY <2>1, OutInside
  <2>3. InLine' = InLine
    BY <2>1 DEF InLine
  <2> QED
    BY <2>1, <2>2, <2>3 DEF Exchange, Unheard
<1> QED
  BY <1>1, <1>2, <1>3, <1>4 DEF MacServer

\* A hangup takes no message away, and makes none live.
LEMMA HangupLive ==
  ASSUME NEW m, Message(m), NEW cs
  PROVE  /\ Live(Hangup(m, cs)) => Live(m)
         /\ "resolve" \in cs => ~Live(Hangup(m, cs))
BY DEF Hangup, Live, Message

\* Who gives up has no live message any more.
LEMMA ExchangeTimesOut ==
  ASSUME Exchange, Guarded, Guests, Slots, NEW c \in Asker, MacTimesOut(c)
  PROVE  Exchange'
<1>1. /\ DOMAIN line' = DOMAIN line /\ \A i \in DOMAIN line : line'[i] = Hangup(line[i], {c})
      /\ DOMAIN inside' = DOMAIN inside
      /\ \A i \in DOMAIN inside : inside'[i].conn = Hangup(inside[i].conn, {c}) /\ inside'[i].stage = inside[i].stage
  BY TimesOutPlaces
<1>2. /\ asking[c] # "none" /\ reply' = [reply EXCEPT ![c] = Refuse("timed out")]
      /\ UNCHANGED <<asking, panel, dialog>>
  BY DEF MacTimesOut, Elsewhere, desk, macUser
<1>3. \A i \in DOMAIN line : Message(line[i])
  BY DEF Guarded, Lines, Range
<1>4. InLine' \subseteq InLine /\ (c = "resolve" => InLine' = {})
  <2>1. \A i \in InLine' : i \in DOMAIN line /\ Live(Hangup(line[i], {c}))
    BY <1>1 DEF InLine, Live
  <2> QED
    BY <1>3, <2>1, HangupLive DEF InLine
<1>5. Inside' \subseteq Inside /\ (c = "resolve" => Inside' = {})
  <2>1. \A i \in Inside' : i \in DOMAIN inside /\ inside[i].stage # "leave" /\ Live(Hangup(inside[i].conn, {c}))
    BY <1>1 DEF Inside, Live
  <2> QED
    BY <2>1, HangupLive DEF Inside, Guests
<1>6. c # "resolve" => reply'["resolve"] = reply["resolve"]
  BY <1>2 DEF Guarded, Replies, Client
<1>7. c = "resolve" => Unheard' /\ panel["resolve"] = "none" /\ dialog.state = "authorizing"
  BY <1>2, <1>4, <1>5 DEF Exchange, Unheard
<1> QED
  BY <1>2, <1>4, <1>5, <1>6, <1>7, ExchangeFewer DEF Exchange

\* The client fails before it has asked.
LEMMA ExchangeFails ==
  ASSUME Exchange, Guarded, NEW c \in Asker, NEW op, NEW error, Fails(c, op, error), UNCHANGED inside,
         DOMAIN panel' = Asker, c = "resolve" => panel'[c] = "none" /\ Unheard /\ dialog'.state = "authorizing",
         c # "resolve" => panel'["resolve"] = panel["resolve"] /\ dialog'.state = dialog.state
  PROVE  Exchange'
<1>1. /\ asking' = [asking EXCEPT ![c] = op] /\ reply' = [reply EXCEPT ![c] = Refuse(error)] /\ UNCHANGED line
  BY DEF Fails
<1>2. InLine' = InLine /\ Inside' = Inside /\ DOMAIN asking' = Client
  BY <1>1 DEF InLine, Inside, Exchange
<1>3. CASE c # "resolve"
  <2>1. asking'["resolve"] = asking["resolve"] /\ reply'["resolve"] = reply["resolve"]
    BY <1>1, <1>3
  <2> QED
    BY <1>1, <1>2, <1>3, <2>1, ExchangeStays
<1>4. CASE c = "resolve"
  BY <1>2, <1>4 DEF Exchange, Unheard
<1> QED
  BY <1>3, <1>4

\* What the user does with the panel, and what becomes of it
LEMMA ExchangePanel ==
  ASSUME Exchange, Guarded, scene.system = "macos",
         \/ MacClickAllow \/ CliStarts
         \/ \E c \in Asker : PanelPasses(c) \/ PanelRefuses(c) \/ PanelTimesOut(c) \/ Send(c)
  PROVE  Exchange'
<1> USE DEF Elsewhere, desk, macServer, wire
<1>1. CASE MacClickAllow
  <2>1. dialog.state = "choice" /\ dialog'.state = "authorizing" /\ UNCHANGED inside
    <3>1. dialog.state = "choice" /\ dialog' = Begin(dialog) /\ UNCHANGED inside
      BY <1>1 DEF MacClickAllow
    <3> QED
      BY <3>1 DEF Begin
  <2>2. CASE Fails("resolve", "allow", "timed out") /\ UNCHANGED panel
    BY <2>1, <2>2, ExchangeFails DEF Exchange, Asker
  <2>3. CASE Show("resolve") /\ UNCHANGED wire
    <3>1. DOMAIN panel' = Asker /\ InLine' = InLine /\ Inside' = Inside /\ UNCHANGED <<asking, reply>>
      BY <2>1, <2>3 DEF Show, Exchange, InLine, Inside
    <3> QED
      BY <2>1, <3>1 DEF Exchange, Unheard
  <2> QED
    BY <1>1, <2>2, <2>3 DEF MacClickAllow
<1>2. CASE CliStarts
  <2>1. UNCHANGED <<line, inside, asking, reply, dialog>> /\ panel' = [panel EXCEPT !["cli"] = "shown"]
    BY <1>2 DEF CliStarts, Show
  <2> QED
    BY <2>1, ExchangeStays DEF Exchange
<1>3. ASSUME NEW c \in Asker, PanelPasses(c) PROVE Exchange'
  <2>1. panel[c] = "shown" /\ panel' = [panel EXCEPT ![c] = "passed"] /\ UNCHANGED <<line, inside, asking, reply, dialog>>
    BY <1>3 DEF PanelPasses
  <2>2. InLine' = InLine /\ Inside' = Inside
    BY <2>1 DEF InLine, Inside
  <2> QED
    BY <2>1, <2>2 DEF Exchange, Unheard
<1>4. ASSUME NEW c \in Asker, panel[c] # "none", Drop(c), UNCHANGED <<inside, dialog>>,
             \E op, error : Fails(c, op, error)
      PROVE  Exchange'
  <2>1. DOMAIN panel' = Asker /\ panel'[c] = "none" /\ (c # "resolve" => panel'["resolve"] = panel["resolve"])
    BY <1>4 DEF Drop, Exchange, Asker
  <2>2. c = "resolve" => Unheard /\ dialog.state = "authorizing"
    BY <1>4 DEF Exchange
  <2> QED
    BY <1>4, <2>1, <2>2, ExchangeFails
<1>5. ASSUME NEW c \in Asker, PanelRefuses(c) \/ PanelTimesOut(c) PROVE Exchange'
  <2>1. panel[c] # "none" /\ Drop(c) /\ UNCHANGED <<inside, dialog>> /\ (\E op, error : Fails(c, op, error))
    BY <1>5 DEF PanelRefuses, PanelTimesOut
  <2> QED
    BY <1>4, <2>1
<1>6. ASSUME NEW c \in Asker, Send(c) PROVE Exchange'
  <2>1. panel[c] = "passed" /\ Drop(c) /\ UNCHANGED <<inside, dialog>>
    BY <1>6 DEF Send
  <2>2. CASE Fails(c, Sensitive(c), "timed out")
    BY <1>4, <2>1, <2>2
  <2>3. CASE Ask(c, Sensitive(c), Deadline(c))
    <3>1. DOMAIN panel' = Asker /\ panel'[c] = "none" /\ (c # "resolve" => panel'["resolve"] = panel["resolve"])
      BY <2>1 DEF Drop, Exchange, Asker
    <3>2. CASE c = "resolve"
      BY <2>1, <2>3, <3>1, <3>2, ExchangeBegins DEF Exchange
    <3>3. CASE c = "cli"
      <4>1. /\ Len(line) \in Nat /\ DOMAIN line = 1..Len(line) /\ DOMAIN line' = 1..(Len(line) + 1)
            /\ \A k \in 1..Len(line) : line'[k] = line[k]
            /\ line'[Len(line) + 1].from = c
            /\ UNCHANGED reply /\ asking' = [asking EXCEPT ![c] = Sensitive(c)]
        BY <2>3, AskPlaces DEF Guarded
      <4>2. \A k \in DOMAIN line' : k \in DOMAIN line \/ k = Len(line) + 1
        BY <4>1
      <4>3. InLine' \subseteq InLine
        BY <3>3, <4>1, <4>2 DEF InLine, Live
      <4>4. Inside' = Inside
        BY <2>1 DEF Inside
      <4>5. DOMAIN asking' = Client /\ asking'["resolve"] = asking["resolve"] /\ panel'["resolve"] = panel["resolve"]
        BY <3>1, <3>3, <4>1 DEF Exchange
      <4> QED
        BY <2>1, <3>1, <4>1, <4>3, <4>4, <4>5, ExchangeFewer
    <3> QED
      BY <3>2, <3>3 DEF Asker
  <2> QED
    BY <1>6, <2>2, <2>3 DEF Send
<1> QED
  BY <1>1, <1>2, <1>3, <1>5, <1>6

-----------------------------------------------------------------------------
\* The extension's end, and its connections with it
LEMMA ExchangeCut ==
  ASSUME Exchange, ExtensionRestarts
  PROVE  Exchange'
<1>1. /\ line' = <<>> /\ inside' = <<>> /\ UNCHANGED <<asking, panel, dialog>>
      /\ reply'["resolve"] = IF asking["resolve"] # "none" /\ reply["resolve"] = NoOp
           THEN Refuse("connection failed") ELSE reply["resolve"]
  BY DEF ExtensionRestarts, desk, macUser, Client
<1>2. DOMAIN <<>> = {}
  OBVIOUS
<1>3. InLine' = {} /\ Inside' = {}
  BY <1>1, <1>2 DEF InLine, Inside
<1> QED
  BY <1>1, <1>3 DEF Exchange, Unheard

\* Closing takes the live messages of who closes.
LEMMA ExchangeClosed ==
  ASSUME Exchange, Guarded, NEW cs, Close(cs), UNCHANGED inside
  PROVE  /\ DOMAIN asking' = Client
         /\ InLine' \subseteq InLine /\ Inside' = Inside
         /\ "resolve" \in cs => InLine' = {} /\ asking'["resolve"] = "none" /\ reply'["resolve"] = NoOp
         /\ "resolve" \notin cs => asking'["resolve"] = asking["resolve"] /\ reply'["resolve"] = reply["resolve"]
<1>1. /\ DOMAIN line' = DOMAIN line /\ \A i \in DOMAIN line : line'[i] = Hangup(line[i], cs)
      /\ asking' = [c \in Client |-> IF c \in cs THEN "none" ELSE asking[c]]
      /\ reply' = [c \in Client |-> IF c \in cs THEN NoOp ELSE reply[c]]
  BY DEF Close
<1>2. \A i \in DOMAIN line : Message(line[i])
  BY DEF Guarded, Lines, Range
<1>3. \A i \in InLine' : i \in DOMAIN line /\ Live(Hangup(line[i], cs))
  BY <1>1 DEF InLine, Live
<1>4. InLine' \subseteq InLine /\ ("resolve" \in cs => InLine' = {})
  BY <1>2, <1>3, HangupLive DEF InLine
<1>5. Inside' = Inside
  BY DEF Inside
<1> QED
  BY <1>1, <1>4, <1>5 DEF Client

\* An answer that is heard ends the exchange.
LEMMA ExchangeHeard ==
  ASSUME Exchange, Guarded, Resolve, UNCHANGED macVars
  PROVE  Exchange'
<1> USE DEF macVars, macServer, macUser
<1>1. UNCHANGED <<inside, panel>> /\ reply["resolve"] # NoOp
  BY DEF Resolve, ResolveFails, ResolveCompletes, Answered
<1>2. Unheard /\ panel["resolve"] = "none"
  BY <1>1 DEF Exchange
<1>h. Hear("resolve") =>
        /\ InLine' = InLine /\ Inside' = Inside /\ DOMAIN asking' = Client
        /\ asking'["resolve"] = "none" /\ reply'["resolve"] = NoOp
  BY <1>1 DEF Hear, InLine, Inside, Exchange, Guarded, Replies, Client
<1>3. CASE Hear("resolve")
  BY <1>1, <1>2, <1>3, <1>h DEF Exchange, Unheard
<1>4. CASE Close({"resolve", "poll"})
  BY <1>1, <1>2, <1>4, ExchangeClosed DEF Exchange, Unheard
<1> QED
  BY <1>3, <1>4 DEF Resolve, ResolveFails, ResolveCompletes

\* What the poll brought leaves an exchange alone.
LEMMA ExchangePolled ==
  ASSUME Births, Window, Exchange, PollApplies, UNCHANGED macVars
  PROVE  Exchange'
<1> USE DEF macVars, macServer, macUser, wire
<1>1. UNCHANGED <<line, inside, asking, reply, panel>>
  BY DEF PollApplies
<1>2. PICK migrations \in Listings(ui.mig), reads \in Listings(ui.ssh) :
        \/ CloseWindow /\ NothingLeft(Known(migrations \o reads))
        \/ dialog' = Known(migrations \o reads)
  BY DEF PollApplies
<1>3. migrations \in Seq(arrived) /\ reads \in Seq(arrived)
  BY ListingsOf DEF Births, Window
<1>4. migrations \o reads \in Seq(arrived)
  BY <1>3
<1> DEFINE d == Known(migrations \o reads)
<1>5. \/ d.state = dialog.state
      \/ dialog.active = None /\ d.state = "choice"
  BY <1>4, KnownOf DEF Window
<1>6. dialog.active = None => dialog.state # "authorizing"
  BY ScenarioAssumption DEF Window, DialogOf, Births
<1>7. d.active = None => dialog.state # "authorizing"
  <2>1. d.state # "none" => d.active \in arrived
    BY <1>4, KnownOf DEF Window, DialogOf
  <2>2. d.active = None => d.state = "none"
    BY <2>1, ScenarioAssumption DEF Births
  <2> QED
    BY <1>5, <2>2
<1> HIDE DEF d
<1>8. dialog'.state = dialog.state \/ (dialog'.state # "authorizing" /\ dialog.state # "authorizing")
  <2>1. CASE CloseWindow /\ NothingLeft(d)
    BY <1>7, <2>1 DEF CloseWindow, NothingLeft, Empty, NoDialog
  <2>2. CASE dialog' = d
    BY <1>5, <1>6, <2>2
  <2> QED
    BY <1>2, <2>1, <2>2 DEF d
<1> QED
  BY <1>1, <1>8, ExchangeStays DEF Exchange

\* Every step on macOS keeps to one exchange.
LEMMA ExchangeStep ==
  ASSUME Births, Window, Exchange, Guarded, Guests, Slots, DesktopNext, scene.system = "macos"
  PROVE  Exchange'
<1> USE DEF macVars, macServer, macUser, Elsewhere, desk, wire
<1>q. UNCHANGED <<line, inside, asking, reply, panel, dialog>> => Exchange'
  BY ExchangeStays DEF Exchange
<1>1. CASE Mac(MacServer)
  BY <1>1, ExchangeServed DEF Mac
<1>2. CASE Mac(MacNotify) \/ Mac(MacPollStep)
  <2>1. UNCHANGED <<line, inside, asking, reply, panel, dialog>>
    BY <1>2 DEF Mac, MacNotify, MacNotifierPolls, MacNotifierReads, ActivateGuardUi, MacPollStep, MacPollLists, MacPollFails
  <2> QED
    BY <1>q, <2>1
<1>3. CASE Mac(\E c \in Asker : MacAsker(c))
  <2>1. PICK c \in Asker : PanelTimesOut(c) \/ Send(c) \/ MacTimesOut(c)
    BY <1>3 DEF Mac, MacAsker
  <2> QED
    BY <2>1, ExchangePanel, ExchangeTimesOut
<1>4. CASE Mac(CliReturns)
  <2>1. /\ UNCHANGED <<line, inside, panel, dialog>>
        /\ asking' = [asking EXCEPT !["cli"] = "none"] /\ reply' = [reply EXCEPT !["cli"] = NoOp]
    BY <1>4 DEF Mac, CliReturns, Hear
  <2>2. DOMAIN asking' = Client /\ asking'["resolve"] = asking["resolve"] /\ reply'["resolve"] = reply["resolve"]
    BY <2>1 DEF Exchange, Guarded, Replies, Client
  <2> QED
    BY <2>1, <2>2, ExchangeStays DEF Exchange
<1>5. CASE Mac(\E d \in Request \union {"cli"} : Expire(d))
  <2>1. UNCHANGED <<line, inside, asking, reply, panel, dialog>>
    BY <1>5 DEF Mac, Expire
  <2> QED
    BY <1>q, <2>1
<1>6. CASE Mac(MacEnvironment)
  <2>1. CASE Mac((\E r \in Request : MacArrive(r)) \/ Freeze \/ Thaw)
    <3>1. UNCHANGED <<line, inside, asking, reply, panel, dialog>>
      BY <2>1 DEF Mac, MacArrive, Freeze, Thaw
    <3> QED
      BY <1>q, <3>1
  <2>2. CASE ExtensionRestarts
    BY <2>2, ExchangeCut
  <2>3. CASE MacClickAllow \/ CliStarts \/ \E c \in Asker : PanelPasses(c) \/ PanelRefuses(c)
    BY <2>3, ExchangePanel
  <2> QED
    BY <1>6, <2>1, <2>2, <2>3 DEF Mac, MacEnvironment
<1>7. CASE Shared(NotifierRestarts)
  <2>1. Close({"notify"}) /\ UNCHANGED <<inside, panel, dialog>>
    BY <1>7 DEF Shared, NotifierRestarts
  <2>2. /\ DOMAIN asking' = Client /\ InLine' \subseteq InLine /\ Inside' = Inside
        /\ asking'["resolve"] = asking["resolve"] /\ reply'["resolve"] = reply["resolve"]
    BY <2>1, ExchangeClosed
  <2> QED
    BY <2>1, <2>2, ExchangeFewer DEF Exchange
<1>8. CASE Shared(ClickBlock)
  <2>1. /\ Ask("resolve", "block", dialog.active) /\ UNCHANGED <<inside, panel>>
        /\ dialog.state = "choice" /\ dialog' = Begin(dialog)
    BY <1>8 DEF Shared, ClickBlock, Click
  <2>2. dialog'.state = "authorizing"
    BY <2>1 DEF Begin, Window, DialogOf
  <2>3. Unheard /\ reply["resolve"] = NoOp /\ panel["resolve"] = "none" /\ DOMAIN panel = Asker
    BY <2>1 DEF Exchange
  <2> QED
    BY <2>1, <2>2, <2>3, ExchangeBegins
<1>9. CASE Shared((\E r \in Request : Leave(r)) \/ (\E decision \in Decision : Decide(decision)) \/ Write \/ PollStarts)
  <2>1. UNCHANGED <<line, inside, asking, reply, panel, dialog>>
    BY <1>9 DEF Shared, Leave, Decide, Write, PollStarts
  <2> QED
    BY <1>q, <2>1
<1>10. CASE Shared(PollApplies)
  BY <1>10, ExchangePolled DEF Shared
<1>11. CASE Shared(Resolve)
  BY <1>11, ExchangeHeard DEF Shared
<1>12. ~Linux(Next)
  BY DEF Linux
<1> QED
  BY <1>1, <1>2, <1>3, <1>4, <1>5, <1>6, <1>7, <1>8, <1>9, <1>10, <1>11, <1>12 DEF DesktopNext, Shared, MacShared, MacPoll

\* Every step keeps the invariant of the answers.
LEMMA AddressedStep ==
  ASSUME Addressed, Guarded, Guests, Slots, [DesktopNext]_desktop
  PROVE  Addressed'
<1>1. scene' \in Scene /\ scene'.system = scene.system
  BY SceneStays DEF Addressed
<1>2. CASE UNCHANGED desktop
  <2> USE DEF desktop, vars, store, wire, desk, macVars, macServer, macUser
  <2>1. UNCHANGED <<extension, arrived, answered, pending, dialog, ui, line, inside, reply, asking, panel>>
    BY <1>2
  <2>2. ASSUME OnMac PROVE OnMac'
    <3>1. Births'
      BY <2>1, <2>2, BirthsStay DEF OnMac
    <3>2. Window'
      BY <2>1, <2>2, WindowStays DEF OnMac
    <3>3. Exchange'
      BY <2>1, <2>2, ExchangeStays DEF OnMac, Exchange
    <3>4. Aims'
      BY <2>1, <2>2 DEF OnMac, Aims, Aimed
    <3> QED
      BY <3>1, <3>2, <3>3, <3>4 DEF OnMac
  <2> QED
    BY <1>1, <2>1, <2>2 DEF Addressed
<1>3. CASE DesktopNext /\ scene.system = "macos"
  <2>1. Births /\ Window /\ Aims /\ Exchange
    BY <1>3 DEF Addressed, OnMac
  <2>2. Births' /\ arrived \subseteq arrived'
    BY <1>3, <2>1, BirthsStep
  <2>3. Window' /\ Aims' /\ Exchange'
    BY <1>3, <2>1, <2>2, WindowStep, AimsStep, ExchangeStep
  <2> QED
    BY <1>1, <1>3, <2>2, <2>3 DEF Addressed, OnMac
<1>4. CASE DesktopNext /\ scene.system # "macos"
  <2>1. UNCHANGED answered
    BY <1>4 DEF DesktopNext, Linux, Mac, Shared, macVars
  <2> QED
    BY <1>1, <1>4, <2>1 DEF Addressed
<1> QED
  BY <1>2, <1>3, <1>4

\* An answer removes the request it was given for, or one that another life of
\* the extension gave the same id: never another of its own life.
THEOREM AnswersFindTheirRequest == DesktopSpec => []AnswersMeetTheirRequest
<1>1. DesktopInit => Slots /\ Guarded /\ Guests /\ Addressed
  BY SlotsInit, GuardedInit, AddressedInit DEF DesktopInit, MacInit, Guests
<1>2. Slots /\ Guarded /\ Guests /\ Addressed /\ [DesktopNext]_desktop => (Slots /\ Guarded /\ Guests /\ Addressed)'
  BY SlotsStep, DesktopGuarded, AddressedStep
<1>3. Addressed => AnswersMeetTheirRequest
  BY DEF Addressed, OnMac, Births, AnswersMeetTheirRequest
<1> QED
  BY <1>1, <1>2, <1>3, PTL DEF DesktopSpec

-----------------------------------------------------------------------------
\* Pages

\* A list in ascending order has every one of its ids.
LEMMA AscendingRange ==
  ASSUME NEW n \in Nat, NEW P \in SUBSET (1..n)
  PROVE  Ascending(P) \in Seq(P) /\ Range(Ascending(P)) = P
<1> DEFINE rank(i) == Cardinality({j \in P : j < i})
           c == Cardinality(P)
           f == [k \in 1..c |-> CHOOSE i \in P : rank(i) = k - 1]
<1>1. IsFiniteSet(P) /\ c \in Nat
  <2>1. IsFiniteSet(1..n)
    BY FS_Interval
  <2> QED
    BY <2>1, FS_Subset, FS_CardinalityType
<1>2. \A k \in 1..c : f[k] \in P /\ rank(f[k]) = k - 1
  BY RankTaken
<1>3. Ascending(P) = f
  BY DEF Ascending
<1> HIDE DEF rank, c
<1>4. f \in [1..c -> P]
  BY <1>2
<1> HIDE DEF f
<1>5. \A h, k \in 1..c : f[h] = f[k] => h = k
  <2> TAKE h, k \in 1..c
  <2> HAVE f[h] = f[k]
  <2>1. h - 1 = k - 1
    BY <1>2
  <2> QED
    BY <1>1, <2>1
<1>6. IsFiniteSet(1..c) /\ Cardinality(1..c) = c
  BY <1>1, FS_Interval
<1>7. f \in Injection(1..c, P)
  BY <1>4, <1>5 DEF Injection, IsInjective
<1>8. f \in Surjection(1..c, P)
  BY <1>1, <1>6, <1>7, FS_Injection DEF c
<1>9. \A i \in P : \E k \in 1..c : f[k] = i
  BY <1>8 DEF Surjection
<1>10. f \in Seq(P)
  BY <1>1, <1>4
<1> QED
  BY <1>3, <1>4, <1>9, <1>10 DEF Range

\* A list of some is a list of more.
LEMMA ListOfMore ==
  ASSUME NEW S, NEW T, S \subseteq T, NEW s \in Seq(S)
  PROVE  s \in Seq(T)
OBVIOUS

\* The order does not change what is in a list.
LEMMA ReverseRange ==
  ASSUME NEW S, NEW s \in Seq(S)
  PROVE  Reverse(s) \in Seq(S) /\ Range(Reverse(s)) = Range(s)
<1> DEFINE t == [i \in 1..Len(s) |-> s[(Len(s) - i) + 1]]
<1>1. Len(s) \in Nat /\ DOMAIN s = 1..Len(s) /\ \A i \in 1..Len(s) : s[i] \in S
  OBVIOUS
<1>2. Reverse(s) = t
  BY DEF Reverse
<1>3. \A i \in 1..Len(s) : (Len(s) - i) + 1 \in 1..Len(s) /\ (Len(s) - ((Len(s) - i) + 1)) + 1 = i
  BY <1>1
<1>4. t \in Seq(S)
  BY <1>1, <1>3
<1>5. \A i \in 1..Len(s) : t[i] \in Range(s) /\ s[i] = t[(Len(s) - i) + 1]
  BY <1>1, <1>3 DEF Range
<1>6. DOMAIN t = 1..Len(s)
  OBVIOUS
<1> HIDE DEF t
<1>7. Range(t) = Range(s)
  BY <1>1, <1>3, <1>5, <1>6 DEF Range
<1> QED
  BY <1>2, <1>4, <1>7

\* What two lists hold, one after the other.
LEMMA JoinedRange ==
  ASSUME NEW S, NEW s \in Seq(S), NEW t \in Seq(S)
  PROVE  s \o t \in Seq(S) /\ Range(s \o t) = Range(s) \union Range(t)
<1>1. Len(s) \in Nat /\ DOMAIN s = 1..Len(s) /\ Len(t) \in Nat /\ DOMAIN t = 1..Len(t)
  OBVIOUS
<1> DEFINE u == s \o t
<1>2. u \in Seq(S) /\ Len(u) = Len(s) + Len(t) /\ DOMAIN u = 1..(Len(s) + Len(t))
  OBVIOUS
<1>3. \A i \in 1..(Len(s) + Len(t)) : u[i] = IF i <= Len(s) THEN s[i] ELSE t[i - Len(s)]
  OBVIOUS
<1> HIDE DEF u
<1>4. \A i \in 1..Len(s) : i \in DOMAIN u /\ u[i] = s[i]
  BY <1>1, <1>2, <1>3
<1>5. \A i \in 1..Len(t) : Len(s) + i \in DOMAIN u /\ u[Len(s) + i] = t[i]
  <2> TAKE i \in 1..Len(t)
  <2>1. Len(s) + i \in 1..(Len(s) + Len(t)) /\ ~(Len(s) + i <= Len(s)) /\ (Len(s) + i) - Len(s) = i
    BY <1>1
  <2> QED
    BY <1>2, <1>3, <2>1
<1>6. \A i \in DOMAIN u : u[i] \in Range(s) \union Range(t)
  BY <1>1, <1>2, <1>3 DEF Range
<1>7. Range(u) = Range(s) \union Range(t)
  BY <1>1, <1>4, <1>5, <1>6 DEF Range
<1> QED
  BY <1>2, <1>7 DEF u

-----------------------------------------------------------------------------
\* A set of ids that has every visible row between two of its own.
Whole(S) == \A i \in Visible(Ids), a, b \in S : a <= i /\ i <= b => i \in S

\* A page that leaves no gap in itself or to what the log has.
Fits(page) ==
  /\ page \in Seq(1..Len(committed))
  /\ Whole(Range(page) \union Range(log))

\* Records are decisions.
Audited ==
  /\ channel \in Seq(Decision \union {Flush})
  /\ batch \in Seq(Decision) /\ committed \in Seq(Decision)

\* Neither the log nor the page that is to join it has a gap.
Logged ==
  /\ log \in Seq(1..Len(committed)) /\ Whole(Range(log))
  /\ Fits(ui.page)

\* The row after which the window asks.
Cursor == IF log = <<>> THEN 0 ELSE Head(log)

\* The rows that are kept are among those there were.
LEMMA IdsKept ==
  ASSUME Audited
  PROVE  /\ Len(committed) \in Nat /\ Pruned \in Nat /\ Pruned <= Len(committed)
         /\ Ids \in SUBSET (1..Len(committed)) /\ IsFiniteSet(Ids) /\ Ids \subseteq Nat
<1>1. Len(committed) \in Nat
  BY DEF Audited
<1>2. Pruned \in Nat /\ Pruned <= Len(committed)
  BY <1>1, PageAssumption DEF Pruned
<1>3. Ids \in SUBSET (1..Len(committed))
  BY <1>1, <1>2 DEF Ids
<1>4. IsFiniteSet(1..Len(committed)) /\ Ids \subseteq Nat
  BY <1>1, <1>3, FS_Interval
<1> QED
  BY <1>1, <1>2, <1>3, <1>4, FS_Subset

\* No more ids are on one side of an id than on the same side of one between.
LEMMA FewerBeyond ==
  ASSUME NEW P, IsFiniteSet(P), P \subseteq Nat, NEW a \in Nat, NEW b \in Nat, a <= b
  PROVE  /\ Cardinality({j \in P : j < a}) <= Cardinality({j \in P : j < b})
         /\ Cardinality({j \in P : j > b}) <= Cardinality({j \in P : j > a})
         /\ \A i \in Nat : Cardinality({j \in P : j < i}) \in Nat /\ Cardinality({j \in P : j > i}) \in Nat
<1>1. \A i \in Nat : {j \in P : j < i} \in SUBSET P /\ {j \in P : j > i} \in SUBSET P
  OBVIOUS
<1>2. \A i \in Nat : IsFiniteSet({j \in P : j < i}) /\ IsFiniteSet({j \in P : j > i})
  BY <1>1, FS_Subset
<1>a. \A j \in P : (j < a => j < b) /\ (j > b => j > a)
  OBVIOUS
<1>3. {j \in P : j < a} \in SUBSET {j \in P : j < b} /\ {j \in P : j > b} \in SUBSET {j \in P : j > a}
  BY <1>a
<1> QED
  BY <1>2, <1>3, FS_Subset, FS_CardinalityType

\* The rows of the two pages
LEMMA PageRows ==
  ASSUME Audited
  PROVE  /\ FirstPage \in Seq(1..Len(committed)) /\ Range(FirstPage) = Visible(Newest(Ids))
         /\ \A c \in Nat : /\ PageAfter(c) \in Seq(1..Len(committed))
                           /\ Range(PageAfter(c)) = Visible(Oldest({i \in Ids : i > c}))
<1> DEFINE n == Len(committed)
<1>1. n \in Nat /\ Ids \in SUBSET (1..n)
  BY IdsKept
<1>2. \A P \in SUBSET (1..n) : Visible(P) \in SUBSET (1..n) /\ Newest(P) \in SUBSET (1..n) /\ Oldest(P) \in SUBSET (1..n)
  BY DEF Visible, Newest, Oldest
<1> HIDE DEF n
<1>3. \A P \in SUBSET (1..n) : Ascending(P) \in Seq(1..n) /\ Range(Ascending(P)) = P
  <2> TAKE P \in SUBSET (1..n)
  <2>1. Ascending(P) \in Seq(P) /\ Range(Ascending(P)) = P
    BY <1>1, AscendingRange
  <2> QED
    BY <2>1, ListOfMore
<1>4. Visible(Newest(Ids)) \in SUBSET (1..n)
  BY <1>1, <1>2
<1>5. FirstPage \in Seq(1..n) /\ Range(FirstPage) = Visible(Newest(Ids))
  BY <1>3, <1>4, ReverseRange DEF FirstPage
<1>6. ASSUME NEW c \in Nat
      PROVE  PageAfter(c) \in Seq(1..n) /\ Range(PageAfter(c)) = Visible(Oldest({i \in Ids : i > c}))
  <2>1. {i \in Ids : i > c} \in SUBSET (1..n)
    BY <1>1
  <2>2. Visible(Oldest({i \in Ids : i > c})) \in SUBSET (1..n)
    BY <1>2, <2>1
  <2> QED
    BY <1>3, <2>2 DEF PageAfter
<1> QED
  BY <1>5, <1>6 DEF n

\* What the window gets fits its log.
LEMMA PagesFit ==
  ASSUME Audited, Logged
  PROVE  Fits(IF Cursor = 0 THEN FirstPage ELSE PageAfter(Cursor)) /\ Cursor \in Nat
<1> DEFINE n == Len(committed)  L == Range(log)
<1>1. n \in Nat /\ Ids \in SUBSET (1..n) /\ IsFiniteSet(Ids) /\ Ids \subseteq Nat
  BY IdsKept
<1>2. log \in Seq(1..n) /\ L \subseteq 1..n /\ Whole(L)
  BY InRange DEF Logged
<1>3. CASE log = <<>>
  <2>1. Cursor = 0 /\ L = {}
    BY <1>3, EmptyRange DEF Cursor
  <2>2. FirstPage \in Seq(1..n) /\ Range(FirstPage) = Visible(Newest(Ids))
    BY PageRows
  <2> HIDE DEF n, L
  <2>3. ASSUME NEW i \in Visible(Ids), NEW a \in Visible(Newest(Ids)), a <= i PROVE i \in Visible(Newest(Ids))
    <3>1. i \in Ids /\ i \in Nat /\ a \in Nat /\ a \in Newest(Ids)
      BY <1>1 DEF Visible, Newest
    <3>2. Cardinality({j \in Ids : j > i}) <= Cardinality({j \in Ids : j > a})
          /\ Cardinality({j \in Ids : j > i}) \in Nat /\ Cardinality({j \in Ids : j > a}) \in Nat
      BY <1>1, <2>3, <3>1, FewerBeyond
    <3> QED
      BY <2>3, <3>1, <3>2, PageAssumption DEF Newest, Visible
  <2>4. Fits(FirstPage)
    BY <2>1, <2>2, <2>3 DEF Fits, Whole, n, L
  <2> QED
    BY <2>1, <2>4
<1>4. CASE log # <<>>
  <2> DEFINE h == Head(log)  P == {i \in Ids : i > h}
  <2>1. h \in L /\ h \in 1..n /\ Cursor = h /\ Cursor # 0 /\ Cursor \in Nat
    BY <1>1, <1>2, <1>4, TailRange DEF Cursor
  <2> HIDE DEF n, L, h
  <2>2. PageAfter(h) \in Seq(1..n) /\ Range(PageAfter(h)) = Visible(Oldest(P))
    BY <2>1, PageRows DEF n
  <2>3. P \subseteq Nat /\ IsFiniteSet(P)
    <3>1. P \in SUBSET Ids
      OBVIOUS
    <3> QED
      BY <1>1, <3>1, FS_Subset
  <2>4. ASSUME NEW i \in Visible(Ids), NEW a \in Visible(Oldest(P)) \union L,
               NEW b \in Visible(Oldest(P)) \union L, a <= i, i <= b
        PROVE  i \in Visible(Oldest(P)) \union L
    <3>1. i \in Ids /\ i \in Nat /\ a \in Nat /\ b \in Nat /\ h \in Nat
      BY <1>1, <1>2, <2>1 DEF Visible, Oldest
    <3>2. CASE i <= h
      <4>1. a \in L
        BY <2>4, <3>1, <3>2 DEF Visible, Oldest
      <4> QED
        BY <1>2, <2>1, <2>4, <3>2, <4>1 DEF Whole
    <3>3. CASE ~(i <= h) /\ b \in L
      BY <1>2, <2>1, <2>4, <3>1, <3>3 DEF Whole
    <3>4. CASE ~(i <= h) /\ b \in Visible(Oldest(P))
      <4>1. i \in P /\ b \in Oldest(P)
        BY <3>1, <3>4 DEF Visible
      <4>2. Cardinality({j \in P : j < i}) <= Cardinality({j \in P : j < b})
            /\ Cardinality({j \in P : j < i}) \in Nat /\ Cardinality({j \in P : j < b}) \in Nat
        BY <2>3, <2>4, <3>1, FewerBeyond
      <4> HIDE DEF P
      <4>3. i \in Oldest(P)
        BY <4>1, <4>2, PageAssumption DEF Oldest
      <4> QED
        BY <2>4, <4>3 DEF Visible
    <3> QED
      BY <2>4, <3>2, <3>3, <3>4
  <2>5. Fits(PageAfter(h))
    BY <2>2, <2>4 DEF Fits, Whole, n, L
  <2> QED
    BY <2>1, <2>5
<1> QED
  BY <1>3, <1>4
-----------------------------------------------------------------------------
\* Rows are added to what was committed, and stay as they are.
Grown ==
  /\ Audited /\ Audited'
  /\ Len(committed) <= Len(committed')
  /\ \A i \in 1..Len(committed) : committed'[i] = committed[i]

\* What a step does to the audit trail.
LEMMA AuditSteps ==
  ASSUME [DesktopNext]_desktop
  PROVE  \/ UNCHANGED <<channel, batch, committed>>
         \/ SendFlush \/ (\E decision \in Decision : Record(decision)) \/ Writer
<1> USE DEF vars, audit, Elsewhere
<1>1. CASE UNCHANGED desktop
  BY <1>1 DEF desktop
<1>2. CASE Linux(Next)
  <2>1. CASE Ipc
    BY <2>1 DEF Ipc, ServeEvents, AnswerEvents, ServeBlock, ServeAllow, ServeLoad, ServeSensitive, ServeRevoke,
      PolkitEnds, PolkitAllows, PolkitLoads, Answer, TakeFlushed
  <2>2. CASE Write \/ Notify \/ (\E r \in Request : Delay(r)) \/ Poll \/ Resolve \/ ClickBlock
    BY <2>2 DEF Write, Notify, NotifierAsks, NotifierHearsEvents, NotifierPolls, Delay, Poll, PollStarts, PollAsks,
      PollHears, PollLists, PollTimesOut, PollApplies, Resolve, ResolveFails, ResolveCompletes, ClickBlock, Click
  <2>3. CASE \E l \in Load : Broker(l)
    BY <2>3 DEF Broker, ChildStops, BrokerAsks, WaitForStopFails, BrokerHears, BrokerTimesOut, BrokerSupplies,
      BrokerContinues, ChildExits, BrokerWaits, BrokerRevokes, BrokerReturns, Idle
  <2>4. CASE Environment
    BY <2>4 DEF Environment, Arrive, Leave, Decide, NotifierRestarts, ClickAllow, Click, Fork, ChildDies, BrokerDies,
      OrphanResumes, Idle
  <2> QED
    BY <1>2, <2>1, <2>2, <2>3, <2>4 DEF Linux, Next
<1>3. CASE Mac(MacServer) \/ Mac(MacNotify) \/ Mac(MacPollStep)
  BY <1>3 DEF Mac, MacServer, Enter, NoRoom, Handle, Depart, MacNotify, MacNotifierPolls, MacNotifierReads,
    MacPollStep, MacPollLists, MacPollFails
<1>4. CASE Mac(\E c \in Asker : MacAsker(c)) \/ Mac(CliReturns) \/ Mac(\E d \in Request \union {"cli"} : Expire(d))
  BY <1>4 DEF Mac, MacAsker, PanelTimesOut, Send, MacTimesOut, CliReturns, Expire
<1>5. CASE Mac(MacEnvironment)
  BY <1>5 DEF Mac, MacEnvironment, MacArrive, MacClickAllow, CliStarts, PanelPasses, PanelRefuses, Freeze, Thaw,
    ExtensionRestarts
<1>6. CASE Shared(MacShared) \/ Shared(MacPoll) \/ Shared(Resolve)
  BY <1>6 DEF Shared, MacShared, MacPoll, Resolve, Leave, Decide, Write, NotifierRestarts, ClickBlock, Click,
    PollStarts, PollApplies, ResolveFails, ResolveCompletes
<1> QED
  BY <1>1, <1>2, <1>3, <1>4, <1>5, <1>6 DEF DesktopNext

\* Committing a batch adds it to the rows, or gives it up.
LEMMA CommitGrows ==
  ASSUME Audited, NEW records \in Seq(Decision), Commit(records), channel' \in Seq(Decision \union {Flush})
  PROVE  Grown
<1>1. CASE committed' = committed \o records /\ batch' = <<>>
  <2>1. committed' \in Seq(Decision) /\ batch' \in Seq(Decision)
    BY <1>1 DEF Audited
  <2>2. Len(committed) <= Len(committed') /\ \A i \in 1..Len(committed) : committed'[i] = committed[i]
    BY <1>1 DEF Audited
  <2> QED
    BY <2>1, <2>2 DEF Grown, Audited
<1>2. CASE Discard(records)
  BY <1>2 DEF Discard, Grown, Audited
<1> QED
  BY <1>1, <1>2 DEF Commit

LEMMA AuditGrows ==
  ASSUME Audited, [DesktopNext]_desktop
  PROVE  Grown
<1>c. channel \in Seq(Decision \union {Flush}) /\ batch \in Seq(Decision) /\ committed \in Seq(Decision)
  BY DEF Audited
<1>s. ASSUME UNCHANGED committed, channel' \in Seq(Decision \union {Flush}), batch' \in Seq(Decision) PROVE Grown
  BY <1>c, <1>s DEF Grown, Audited
<1>1. CASE UNCHANGED <<channel, batch, committed>>
  BY <1>1, <1>s, <1>c
<1>2. CASE SendFlush
  BY <1>2, <1>s, <1>c DEF SendFlush
<1>3. CASE \E decision \in Decision : Record(decision)
  <2>1. PICK decision \in Decision : Record(decision)
    BY <1>3
  <2>2. Append(channel, decision) \in Seq(Decision \union {Flush})
    BY <1>c
  <2>3. channel' \in Seq(Decision \union {Flush}) /\ UNCHANGED <<batch, committed>>
    BY <1>c, <2>1, <2>2 DEF Record
  <2> QED
    BY <1>s, <1>c, <2>3
<1>4. CASE WriteRecord
  <2> DEFINE records == Append(batch, Head(channel))
  <2>1. channel # <<>> /\ Head(channel) # Flush /\ channel' = Tail(channel)
    BY <1>4 DEF WriteRecord
  <2>2. Head(channel) \in Decision /\ channel' \in Seq(Decision \union {Flush})
    BY <1>c, <2>1, TailRange
  <2>3. records \in Seq(Decision)
    BY <1>c, <2>2
  <2>4. Commit(records) \/ (batch' = records /\ UNCHANGED committed)
    BY <1>4 DEF WriteRecord
  <2> HIDE DEF records
  <2> QED
    BY <1>s, <2>2, <2>3, <2>4, CommitGrows
<1>5. CASE WriteFlush
  <2>1. Commit(batch) /\ channel' \in Seq(Decision \union {Flush})
    BY <1>5, <1>c, TailRange DEF WriteFlush
  <2> QED
    BY <1>c, <2>1, CommitGrows
<1> QED
  BY <1>1, <1>2, <1>3, <1>4, <1>5, AuditSteps DEF Writer

\* Rows that were visible may be pruned; rows that come are newer.
LEMMA VisibleStay ==
  ASSUME Grown
  PROVE  /\ \A P \in SUBSET (1..Len(committed)) : Visible(P)' = Visible(P)
         /\ \A i \in Visible(Ids)' : i \in Nat /\ (i \in Visible(Ids) \/ i > Len(committed))
         /\ Len(committed) \in Nat /\ Len(committed') \in Nat
<1>1. Len(committed) \in Nat /\ Len(committed') \in Nat
  BY DEF Grown, Audited
<1>2. Pruned \in Nat /\ Pruned' \in Nat /\ Pruned <= Pruned'
  BY <1>1, PageAssumption DEF Pruned, Grown
<1>3. ASSUME NEW P \in SUBSET (1..Len(committed)) PROVE Visible(P)' = Visible(P)
  <2>1. \A i \in P : committed'[i] = committed[i]
    BY DEF Grown
  <2> QED
    BY <2>1 DEF Visible
<1>4. ASSUME NEW i \in Visible(Ids)' PROVE i \in Nat /\ (i \in Visible(Ids) \/ i > Len(committed))
  <2>0. PICK p \in Nat, q \in Nat, n \in Nat, m \in Nat :
          p = Pruned /\ q = Pruned' /\ p <= q /\ n = Len(committed) /\ m = Len(committed')
    BY <1>1, <1>2
  <2>1. i \in (q + 1)..m /\ committed'[i] = "deny"
    BY <2>0 DEF Visible, Ids
  <2>2. i \in Nat /\ i > p
    <3>1. p <= q /\ i \in (q + 1)..m
      BY <2>0, <2>1
    <3>2. i \in Int /\ q + 1 <= i
      BY <3>1
    <3> QED
      BY <3>1, <3>2
  <2>3. CASE i <= n
    <3>1. i \in (p + 1)..n /\ i \in 1..n
      BY <2>0, <2>2, <2>3
    <3>2. i \in Ids /\ i \in 1..Len(committed)
      BY <2>0, <3>1 DEF Ids
    <3> QED
      BY <2>1, <2>2, <3>2 DEF Visible, Grown
  <2> QED
    BY <2>0, <2>2, <2>3
<1> QED
  BY <1>1, <1>3, <1>4

\* What has no gap gets none.
LEMMA WholeStays ==
  ASSUME Grown, NEW S \in SUBSET (1..Len(committed)), Whole(S)
  PROVE  Whole(S)'
<1> SUFFICES ASSUME NEW i \in Visible(Ids)', NEW a \in S, NEW b \in S, a <= i, i <= b
             PROVE  i \in S
  BY DEF Whole
<1>1. i \in Nat /\ (i \in Visible(Ids) \/ i > Len(committed)) /\ Len(committed) \in Nat
  BY VisibleStay
<1>2. b \in 1..Len(committed)
  OBVIOUS
<1> QED
  BY <1>1, <1>2 DEF Whole

\* A page that fits still does.
LEMMA FitsStays ==
  ASSUME Grown, Logged, NEW page, Fits(page), UNCHANGED log
  PROVE  Fits(page)'
<1>0. PICK S : S = Range(page) \union Range(log)
  OBVIOUS
<1>1. page \in Seq(1..Len(committed)) /\ log \in Seq(1..Len(committed)) /\ Whole(S)
  BY <1>0 DEF Fits, Logged
<1>2. S \in SUBSET (1..Len(committed))
  BY <1>0, <1>1, InRange
<1>3. 1..Len(committed) \subseteq 1..Len(committed')
  BY VisibleStay DEF Grown
<1>4. page \in Seq(1..Len(committed'))
  BY <1>1, <1>3, ListOfMore
<1>5. Whole(S)'
  BY <1>1, <1>2, WholeStays
<1> QED
  BY <1>0, <1>4, <1>5 DEF Fits, Whole

\* ... and so the log stays whole, whatever is written.
LEMMA LogStays ==
  ASSUME Grown, Logged, UNCHANGED log
  PROVE  log' \in Seq(1..Len(committed')) /\ Whole(Range(log))' /\ Fits(<<>>)'
<1>1. log \in Seq(1..Len(committed)) /\ Whole(Range(log))
  BY DEF Logged
<1>2. Range(log) \in SUBSET (1..Len(committed))
  BY <1>1, InRange
<1>3. 1..Len(committed) \subseteq 1..Len(committed')
  BY VisibleStay DEF Grown
<1>4. log' \in Seq(1..Len(committed'))
  BY <1>1, <1>3, ListOfMore
<1>5. PICK S : S = Range(log)
  OBVIOUS
<1>6. Whole(S)'
  BY <1>1, <1>2, <1>5, WholeStays
<1>7. Whole(Range(log))'
  BY <1>5, <1>6 DEF Whole
<1>8. Range(<<>>) = {} /\ <<>> \in Seq(1..Len(committed'))
  BY EmptyRange
<1>9. Fits(<<>>)'
  BY <1>7, <1>8 DEF Fits, Whole
<1> QED
  BY <1>4, <1>7, <1>9

\* An empty log is whole.
LEMMA EmptyLog ==
  ASSUME log = <<>>, ui.page = <<>>
  PROVE  Logged
<1>1. Range(<<>>) = {} /\ <<>> \in Seq(1..Len(committed))
  BY EmptyRange
<1> QED
  BY <1>1 DEF Logged, Fits, Whole
-----------------------------------------------------------------------------
\* What the notifier has been shown is no more than there is, and it knows where
\* each visible row since its baseline went.
Examined ==
  /\ notifier \in [attempts : {notifier.attempts}, ready : {notifier.ready}, last : {notifier.last},
                   since : Nat, polled : 0..Len(committed),
                   examined : {notifier.examined}, overrun : {notifier.overrun}]
  /\ notifier.last # None =>
       /\ notifier.last \in 0..notifier.polled
       /\ \A i \in Visible((notifier.since + 1)..notifier.polled) :
            i \in notifier.examined \union notifier.overrun

\* Of the notifier only what it knows of the prompts changes.
SameReading ==
  notifier' \in [attempts : {notifier'.attempts}, ready : {notifier'.ready}, last : {notifier.last},
                 since : {notifier.since}, polled : {notifier.polled},
                 examined : {notifier.examined}, overrun : {notifier.overrun}]

LEMMA ExaminedStays ==
  ASSUME Grown, Examined, SameReading
  PROVE  Examined'
<1>1. /\ notifier'.last = notifier.last /\ notifier'.since = notifier.since /\ notifier'.polled = notifier.polled
      /\ notifier'.examined = notifier.examined /\ notifier'.overrun = notifier.overrun
  BY DEF SameReading
<1>2. Len(committed) \in Nat /\ Len(committed') \in Nat /\ Len(committed) <= Len(committed')
  BY VisibleStay DEF Grown
<1>3. notifier.since \in Nat /\ notifier.polled \in 0..Len(committed)
  BY DEF Examined
<1>4. (notifier.since + 1)..notifier.polled \in SUBSET (1..Len(committed))
  BY <1>2, <1>3
<1>5. PICK P : P = (notifier.since + 1)..notifier.polled
  OBVIOUS
<1>6. Visible(P)' = Visible(P)
  BY <1>4, <1>5, VisibleStay
<1>7. notifier.polled \in 0..Len(committed')
  BY <1>2, <1>3
<1>8. notifier' \in [attempts : {notifier'.attempts}, ready : {notifier'.ready}, last : {notifier'.last},
                   since : Nat, polled : 0..Len(committed'),
                   examined : {notifier'.examined}, overrun : {notifier'.overrun}]
  BY <1>1, <1>3, <1>7 DEF SameReading
<1>9. \A i \in Visible(P)' : i \in Visible(P)
  BY <1>6
<1>10. ASSUME notifier'.last # None
       PROVE  /\ notifier'.last \in 0..notifier'.polled
              /\ \A i \in Visible((notifier.since + 1)..notifier.polled)' :
                   i \in notifier'.examined \union notifier'.overrun
  <2>1. (notifier'.since + 1)..notifier'.polled = P
    BY <1>1, <1>5
  <2>2. Visible((notifier.since + 1)..notifier.polled)' = Visible(P)'
    BY <2>1 DEF Visible
  <2> QED
    BY <1>1, <1>5, <1>9, <1>10, <2>2 DEF Examined
<1> QED
  BY <1>8, <1>10 DEF Examined

\* A new notifier has been shown nothing.
LEMMA NewExamined ==
  ASSUME Len(committed) \in Nat, notifier = NewNotifier
  PROVE  Examined
BY DEF Examined, NewNotifier

\* Below the last row of a page nothing is left out.
LEMMA PageBelow ==
  ASSUME Audited, NEW c \in Nat, NEW P, P = {i \in Ids : i > c},
         NEW b \in Oldest(P), NEW i \in P, i <= b
  PROVE  i \in Oldest(P)
<1>1. Ids \subseteq Nat /\ IsFiniteSet(Ids)
  BY IdsKept
<1>2. P \in SUBSET Ids
  OBVIOUS
<1>3. P \subseteq Nat /\ IsFiniteSet(P) /\ b \in P
  BY <1>1, <1>2, FS_Subset DEF Oldest
<1>4. Cardinality({j \in P : j < i}) <= Cardinality({j \in P : j < b})
      /\ Cardinality({j \in P : j < i}) \in Nat /\ Cardinality({j \in P : j < b}) \in Nat
  BY <1>3, FewerBeyond
<1> QED
  BY <1>4, PageAssumption DEF Oldest

-----------------------------------------------------------------------------
\* macOS: the window shows no log, and the notifier has read all up to the last row it was shown.
MacFeeds == log = <<>> /\ ui.page = <<>> /\ (notifier.last # None => notifier.last = notifier.polled)

\* The window
IsWindow(w) ==
  w \in [win : BOOLEAN, busy : BOOLEAN, todo : Seq({"events", "ssh", "mig"}), ssh : {w.ssh}, mig : {w.mig},
         failed : {w.failed}, page : {w.page}]
Windowed == IsWindow(ui)

LEMMA MacReads ==
  ASSUME Grown, Examined, MacFeeds, MacNotifierReads
  PROVE  Examined' /\ (notifier'.last # None => notifier'.last = notifier'.polled)
<1> DEFINE newest == Max(MacPage)
<1>1. /\ UNCHANGED committed /\ MacPage # {}
      /\ notifier' = IF notifier.last = None
           THEN [notifier EXCEPT !.last = newest, !.since = newest, !.polled = newest]
           ELSE [notifier EXCEPT !.last = newest, !.polled = newest,
                   !.examined = @ \union MacPage,
                   !.overrun = @ \union ((notifier.last + 1)..Pruned)]
  BY DEF MacNotifierReads, audit
<1>2. PICK n \in Nat : n = Len(committed)
  BY VisibleStay
<1>3. Ids \in SUBSET (1..n)
  BY <1>2, IdsKept DEF Grown
<1>4. MacPage \in SUBSET (1..n)
  BY <1>3 DEF MacPage, Newest, Oldest
<1>5. MacPage \subseteq 0..n
  BY <1>2, <1>4
<1>6. newest \in MacPage /\ newest \in 1..n
  BY <1>1, <1>4, <1>5, MaxIn
<1>7. PICK new, page : new = newest /\ page = MacPage
  OBVIOUS
<1> HIDE DEF newest
<1>8. Len(committed') = n
  BY <1>1, <1>2
<1>9. CASE notifier.last = None
  <2>1. /\ notifier'.last = new /\ notifier'.since = new /\ notifier'.polled = new
        /\ notifier' \in [attempts : {notifier'.attempts}, ready : {notifier'.ready}, last : {notifier'.last},
             since : {new}, polled : {new}, examined : {notifier'.examined}, overrun : {notifier'.overrun}]
    BY <1>1, <1>7, <1>9 DEF Examined
  <2>2. (new + 1)..new = {} /\ new \in Nat /\ new \in 0..n
    BY <1>2, <1>6, <1>7
  <2>3. Visible((notifier.since + 1)..notifier.polled)' = {}
    BY <2>1, <2>2 DEF Visible
  <2> QED
    BY <1>8, <2>1, <2>2, <2>3 DEF Examined
<1>10. CASE notifier.last # None
  <2>0. PICK last, since : last = notifier.last /\ since = notifier.since
    OBVIOUS
  <2>1. /\ notifier'.last = new /\ notifier'.since = since /\ notifier'.polled = new
        /\ notifier'.examined = notifier.examined \union page
        /\ notifier'.overrun = notifier.overrun \union ((last + 1)..Pruned)
        /\ notifier' \in [attempts : {notifier'.attempts}, ready : {notifier'.ready}, last : {notifier'.last},
             since : {since}, polled : {new}, examined : {notifier'.examined}, overrun : {notifier'.overrun}]
    BY <1>1, <1>7, <1>10, <2>0 DEF Examined
  <2>2. since \in Nat /\ last \in Nat /\ notifier.polled = last
    BY <1>2, <1>10, <2>0 DEF Examined, MacFeeds
  <2>3. ASSUME NEW i \in (since + 1)..new, committed[i] = "deny"
        PROVE  i \in notifier'.examined \union notifier'.overrun
    <3>1. i \in Nat /\ i <= new
      BY <1>2, <1>6, <1>7, <2>2
    <3>2. CASE i <= last
      <4>1. i \in (since + 1)..last
        BY <2>2, <2>3, <3>1, <3>2
      <4>2. i \in Visible((notifier.since + 1)..notifier.polled)
        BY <2>0, <2>2, <2>3, <4>1 DEF Visible
      <4>3. i \in notifier.examined \union notifier.overrun
        BY <1>10, <4>2 DEF Examined
      <4> QED
        BY <2>1, <4>3
    <3>3. CASE ~(i <= last) /\ i <= Pruned
      <4>1. Pruned \in Nat
        BY IdsKept DEF Grown
      <4>2. i \in (last + 1)..Pruned
        BY <2>2, <3>1, <3>3, <4>1
      <4> QED
        BY <2>1, <4>2
    <3>4. CASE ~(i <= last) /\ ~(i <= Pruned)
      <4>1. PICK p \in Nat : p = Pruned
        BY IdsKept DEF Grown
      <4>2. i \in (p + 1)..n
        BY <1>2, <1>6, <1>7, <3>1, <3>4, <4>1
      <4>3. i \in Ids
        BY <1>2, <4>1, <4>2 DEF Ids
      <4>4. PICK P : P = {j \in Ids : j > last}
        OBVIOUS
      <4>5. page = Oldest(P) /\ i \in P
        BY <1>7, <1>10, <2>0, <2>2, <3>1, <3>4, <4>3, <4>4 DEF MacPage
      <4>6. i \in page
        BY <1>6, <1>7, <2>2, <3>1, <4>4, <4>5, PageBelow DEF Grown
      <4> QED
        BY <2>1, <4>6
    <3> QED
      BY <3>2, <3>3, <3>4
  <2>4. new \in 0..n
    BY <1>2, <1>6, <1>7
  <2>5. \A i \in Visible((notifier.since + 1)..notifier.polled)' : i \in (since + 1)..new /\ committed[i] = "deny"
    BY <1>1, <2>1 DEF Visible
  <2>6. new \in 0..new
    BY <1>2, <1>6, <1>7
  <2>7. /\ notifier' \in [attempts : {notifier'.attempts}, ready : {notifier'.ready}, last : {notifier'.last},
                   since : Nat, polled : 0..Len(committed'),
                   examined : {notifier'.examined}, overrun : {notifier'.overrun}]
        /\ notifier'.last \in 0..notifier'.polled
    BY <1>8, <2>1, <2>2, <2>4, <2>6
  <2> QED
    BY <2>1, <2>3, <2>5, <2>7 DEF Examined
<1> QED
  BY <1>9, <1>10

\* What a step on macOS does to the window, its log and the notifier.
LEMMA MacFeedSteps ==
  ASSUME [DesktopNext]_desktop, scene.system = "macos"
  PROVE  \/ UNCHANGED <<ui, log, notifier>>
         \/ UNCHANGED <<ui, log>> /\ (MacNotifierReads \/ NotifierRestarts)
         \/ MacNotifierPolls
         \/ UNCHANGED <<notifier, log>> /\ (MacPollLists \/ MacPollFails \/ PollStarts)
         \/ UNCHANGED notifier /\ (PollApplies \/ ResolveCompletes)
<1> USE DEF desk, Elsewhere
<1>1. CASE UNCHANGED desktop
  BY <1>1 DEF desktop, vars
<1>2. CASE Linux(Next)
  BY <1>2 DEF Linux
<1>3. CASE Mac(MacServer) \/ Mac(MacNotify) \/ Mac(MacPollStep)
  BY <1>3 DEF Mac, MacServer, Enter, NoRoom, Handle, Depart, MacNotify, MacNotifierReads,
    MacPollStep, MacPollLists, MacPollFails
<1>4. CASE Mac(\E c \in Asker : MacAsker(c)) \/ Mac(CliReturns) \/ Mac(\E d \in Request \union {"cli"} : Expire(d))
  BY <1>4 DEF Mac, MacAsker, PanelTimesOut, Send, MacTimesOut, CliReturns, Expire
<1>5. CASE Mac(MacEnvironment)
  BY <1>5 DEF Mac, MacEnvironment, MacArrive, MacClickAllow, CliStarts, PanelPasses, PanelRefuses, Freeze, Thaw,
    ExtensionRestarts
<1>6. CASE Shared(MacShared) \/ Shared(MacPoll) \/ Shared(Resolve)
  BY <1>6 DEF Shared, MacShared, MacPoll, Resolve, Leave, Decide, Write, NotifierRestarts, ClickBlock, Click,
    PollStarts, PollApplies, ResolveFails, ResolveCompletes
<1> QED
  BY <1>1, <1>2, <1>3, <1>4, <1>5, <1>6 DEF DesktopNext

\* A new window has nothing to show, to do or to apply.
LEMMA NewWindow ==
  ASSUME NEW open \in BOOLEAN, NEW w, w = [NoWindow EXCEPT !.win = open]
  PROVE  IsWindow(w) /\ w.page = <<>> /\ w.todo = <<>> /\ w.win = open
<1>1. w = [win |-> open, busy |-> FALSE, todo |-> <<>>, ssh |-> {}, mig |-> {}, failed |-> {}, page |-> <<>>]
  BY DEF NoWindow
<1>2. <<>> \in Seq({"events", "ssh", "mig"})
  OBVIOUS
<1>3. /\ w.page = <<>> /\ w.todo = <<>> /\ w.win = open /\ w.busy = FALSE
      /\ w.ssh = {} /\ w.mig = {} /\ w.failed = {}
  BY <1>1
<1>4. w \in [win : {open}, busy : {FALSE}, todo : {<<>>}, ssh : {w.ssh}, mig : {w.mig}, failed : {w.failed},
             page : {w.page}]
  BY <1>1, <1>3
<1> QED
  BY <1>2, <1>3, <1>4 DEF IsWindow

\* A poll starts with all it is to ask.
LEMMA PollBegins ==
  ASSUME scene \in Scene, PollStarts
  PROVE  Windowed' /\ ui'.page = <<>> /\ ui'.win /\ ui'.busy /\ ui'.todo = scene.polls
<1>1. scene.polls \in Seq({"events", "ssh", "mig"})
  BY DEF Scene
<1>2. ui' = [NoWindow EXCEPT !.win = TRUE, !.busy = TRUE, !.todo = scene.polls]
  BY DEF PollStarts
<1> QED
  BY <1>1, <1>2 DEF Windowed, IsWindow, NoWindow

LEMMA MacFeedsStep ==
  ASSUME scene \in Scene, Grown, Examined, Windowed, MacFeeds, [DesktopNext]_desktop, scene.system = "macos"
  PROVE  Examined' /\ Windowed' /\ MacFeeds' /\ Logged'
<1>w. ASSUME UNCHANGED ui PROVE Windowed'
  BY <1>w DEF Windowed
<1>n. ASSUME UNCHANGED notifier PROVE Examined' /\ (notifier'.last # None => notifier'.last = notifier'.polled)
  <2>1. SameReading
    BY <1>n DEF Examined, SameReading
  <2> QED
    BY <1>n, <2>1, ExaminedStays DEF MacFeeds
<1>r. ASSUME Examined', Windowed', log' = <<>>, ui'.page = <<>>,
             notifier'.last # None => notifier'.last = notifier'.polled
      PROVE  Examined' /\ Windowed' /\ MacFeeds' /\ Logged'
  <2>1. Logged'
    BY <1>r, EmptyRange DEF Logged, Fits, Whole
  <2> QED
    BY <1>r, <2>1 DEF MacFeeds
<1>t. ui.todo # <<>> => Tail(ui.todo) \in Seq({"events", "ssh", "mig"})
  BY TailRange DEF Windowed, IsWindow
<1>1. CASE UNCHANGED <<ui, log, notifier>>
  BY <1>1, <1>w, <1>n, <1>r DEF MacFeeds
<1>2. CASE UNCHANGED <<ui, log>> /\ MacNotifierReads
  BY <1>2, <1>w, <1>r, MacReads DEF MacFeeds
<1>3. CASE UNCHANGED <<ui, log>> /\ NotifierRestarts
  <2>1. notifier' = NewNotifier
    BY <1>3 DEF NotifierRestarts
  <2>2. Examined' /\ notifier'.last = None
    BY <2>1, VisibleStay DEF Examined, NewNotifier
  <2> QED
    BY <1>3, <1>w, <1>r, <2>2 DEF MacFeeds
<1>4. CASE MacNotifierPolls
  <2>1. notifier' = [notifier EXCEPT !.attempts = [r \in Request |-> IF r \in pending THEN 1 ELSE 0]]
    BY <1>4 DEF MacNotifierPolls
  <2>2. SameReading /\ notifier'.last = notifier.last /\ notifier'.polled = notifier.polled
    BY <2>1 DEF SameReading, Examined
  <2>3. UNCHANGED desk \/ ActivateGuardUi
    BY <1>4 DEF MacNotifierPolls
  <2>4. CASE UNCHANGED desk
    BY <1>w, <1>r, <2>2, <2>4, ExaminedStays DEF MacFeeds, desk
  <2>5. CASE ui' = [NoWindow EXCEPT !.win = TRUE] /\ UNCHANGED log
    <3>1. Windowed' /\ ui'.page = <<>>
      BY <2>5, NewWindow DEF Windowed
    <3> QED
      BY <1>r, <2>2, <2>5, <3>1, ExaminedStays DEF MacFeeds
  <2> QED
    BY <2>3, <2>4, <2>5 DEF ActivateGuardUi
<1>5. CASE UNCHANGED <<notifier, log>> /\ (MacPollLists \/ MacPollFails)
  <2>1. Windowed' /\ ui'.page = ui.page
    BY <1>5, <1>t DEF MacPollLists, MacPollFails, Windowed, IsWindow
  <2> QED
    BY <1>5, <1>n, <1>r, <2>1 DEF MacFeeds
<1>6. CASE UNCHANGED <<notifier, log>> /\ PollStarts
  BY <1>6, <1>n, <1>r, PollBegins DEF MacFeeds
<1>c. ASSUME CloseWindow PROVE Windowed' /\ ui'.page = <<>> /\ log' = <<>>
  BY <1>c DEF CloseWindow, NoWindow, Windowed, IsWindow
<1>7. CASE UNCHANGED notifier /\ PollApplies
  <2>1. CloseWindow \/ (log' = ui.page \o log /\ ui' = [NoWindow EXCEPT !.win = TRUE])
    BY <1>7 DEF PollApplies
  <2>2. CASE log' = ui.page \o log /\ ui' = [NoWindow EXCEPT !.win = TRUE]
    <3>1. log' = <<>>
      BY <2>2 DEF MacFeeds
    <3>2. Windowed' /\ ui'.page = <<>>
      BY <2>2, NewWindow DEF Windowed
    <3> QED
      BY <1>7, <1>n, <1>r, <3>1, <3>2
  <2> QED
    BY <1>7, <1>c, <1>n, <1>r, <2>1, <2>2
<1>8. CASE UNCHANGED notifier /\ ResolveCompletes
  <2>1. CloseWindow \/ UNCHANGED <<ui, log>>
    BY <1>8 DEF ResolveCompletes
  <2> QED
    BY <1>8, <1>c, <1>n, <1>r, <1>w, <2>1 DEF MacFeeds
<1> QED
  BY <1>1, <1>2, <1>3, <1>4, <1>5, <1>6, <1>7, <1>8, MacFeedSteps
-----------------------------------------------------------------------------
\* Linux: only the notifier and the polls ask for events, the notifier without a
\* cursor, and a poll whose answer is waited for with that of the log.
Feed == {"notify", "poll"}

Asks(m) ==
  /\ m.op = "events" <=> m.from \in Feed
  /\ m.from = "notify" => m.about = 0
  /\ m.from = "poll" /\ m.open => m.about = Cursor

Requested ==
  /\ \A i \in DOMAIN line : Asks(line[i])
  /\ ipc.pc # "accept" => Asks(ipc.conn) /\ (ipc.pc = "flush" <=> ipc.conn.op = "events")

\* A poll's message, in the line or with the thread
Polling(m) == m.open /\ m.from = "poll"
PollsInLine == {i \in DOMAIN line : Polling(line[i])}
PollServed == ipc.pc # "accept" /\ Polling(ipc.conn)

\* One exchange at a time.
Trips ==
  /\ DOMAIN asking = Client
  /\ \A i, j \in PollsInLine : i = j
  /\ PollsInLine = {} \/ ~PollServed
  /\ asking["poll"] = "none" \/ reply["poll"] # NoOp => PollsInLine = {} /\ ~PollServed
  /\ asking["poll"] = "none" => reply["poll"] = NoOp

\* The window that polls is there, and its worker waits for what it asked.
Polled ==
  /\ asking["poll"] # "none" => ui.todo # <<>> /\ Head(ui.todo) = "events"
  /\ ui.todo # <<>> => ui.win /\ ui.busy

\* The page a poll was answered with has no gap to the log.
PollTold == reply["poll"] # NoOp => reply["poll"].op = "events" /\ Fits(reply["poll"].page)

\* The page the notifier was answered with has every visible row that was not too far back.
NotifyTold ==
  reply["notify"] # NoOp =>
    /\ reply["notify"].op = "events"
    /\ LET last == reply["notify"].polled  page == reply["notify"].page IN
         /\ last \in notifier.polled..Len(committed)
         /\ page \in Seq(1..last)
         /\ \A i \in Visible(1..last) : i + Limit > last => i \in Range(page)

LinuxFeeds == Requested /\ Trips /\ Polled /\ PollTold /\ NotifyTold

-----------------------------------------------------------------------------
\* A message is like another if its sender has hung up, at most.
Like(m, n) == m.op = n.op /\ m.about = n.about /\ m.from = n.from /\ (m.open => n.open)

LEMMA AsksLike ==
  ASSUME NEW m, NEW n, Like(m, n), Asks(n), UNCHANGED log \/ ~Polling(m)
  PROVE  Asks(m)'
BY DEF Like, Asks, Polling, Cursor

LEMMA HangupLike ==
  ASSUME NEW m, NEW cs, Message(m)
  PROVE  /\ Like(Hangup(m, cs), m)
         /\ Polling(Hangup(m, cs)) => Polling(m) /\ "poll" \notin cs
BY DEF Message, Hangup, Like, Polling

LEMMA TailPlaces ==
  ASSUME Lines, line # <<>>, line' = Tail(line)
  PROVE  /\ DOMAIN line' \subseteq Nat \ {0}
         /\ \A k \in DOMAIN line' : k + 1 \in DOMAIN line /\ line'[k] = line[k + 1]
         /\ 1 \in DOMAIN line /\ Head(line) = line[1]
<1>1. Len(line) \in Nat /\ DOMAIN line = 1..Len(line) /\ Len(line) > 0 /\ Head(line) = line[1]
  BY DEF Lines
<1>2. DOMAIN line' = 1..(Len(line) - 1) /\ \A k \in 1..(Len(line) - 1) : line'[k] = line[k + 1]
  BY <1>1 DEF Lines
<1> QED
  BY <1>1, <1>2

LEMMA ClosePlaces ==
  ASSUME Lines, Serving, NEW cs, Close(cs)
  PROVE  /\ DOMAIN line' = DOMAIN line
         /\ \A i \in DOMAIN line : Message(line[i]) /\ line'[i] = Hangup(line[i], cs)
         /\ ipc'.pc = ipc.pc /\ ipc'.conn = Hangup(ipc.conn, cs)
         /\ ipc.pc # "accept" => Message(ipc.conn)
         /\ asking' = [c \in Client |-> IF c \in cs THEN "none" ELSE asking[c]]
         /\ reply' = [c \in Client |-> IF c \in cs THEN NoOp ELSE reply[c]]
<1>1. \A i \in DOMAIN line : Message(line[i])
  BY DEF Lines, Range
<1>2. ipc'.pc = ipc.pc /\ ipc'.conn = Hangup(ipc.conn, cs) /\ (ipc.pc # "accept" => Message(ipc.conn))
  BY DEF Close, Serving
<1> QED
  BY <1>1, <1>2 DEF Close

\* A page that waits to be heard stays true,
LEMMA PollToldStays ==
  ASSUME Grown, Logged, PollTold, UNCHANGED log, reply'["poll"] \in {reply["poll"], NoOp}
  PROVE  PollTold'
<1> SUFFICES ASSUME reply'["poll"] # NoOp PROVE reply'["poll"].op = "events" /\ Fits(reply["poll"].page)'
  BY DEF PollTold
<1>1. PICK page : page = reply["poll"].page
  OBVIOUS
<1>2. reply'["poll"] = reply["poll"] /\ reply["poll"].op = "events" /\ Fits(page)
  BY <1>1 DEF PollTold
<1>3. Fits(page)'
  BY <1>2, FitsStays
<1> QED
  BY <1>1, <1>2, <1>3 DEF Fits

\* ... and so does the notifier's.
LEMMA NotifyToldStays ==
  ASSUME Grown, NotifyTold, notifier'.polled = notifier.polled, reply'["notify"] \in {reply["notify"], NoOp}
  PROVE  NotifyTold'
<1> SUFFICES ASSUME reply'["notify"] # NoOp PROVE NotifyTold'
  BY DEF NotifyTold
<1>1. PICK last, page : last = reply["notify"].polled /\ page = reply["notify"].page
  OBVIOUS
<1>2. /\ reply'["notify"] = reply["notify"] /\ reply["notify"].op = "events"
      /\ last \in notifier.polled..Len(committed) /\ page \in Seq(1..last)
      /\ \A i \in Visible(1..last) : i + Limit > last => i \in Range(page)
  BY <1>1 DEF NotifyTold
<1>3. PICK n \in Nat, m \in Nat : n = Len(committed) /\ m = Len(committed') /\ n <= m
  BY VisibleStay DEF Grown
<1>4. last \in notifier.polled..m /\ last \in Int /\ last <= n
  BY <1>2, <1>3
<1>5. PICK P : P = 1..last
  OBVIOUS
<1>6. P \in SUBSET (1..Len(committed))
  BY <1>3, <1>4, <1>5
<1>7. Visible(P)' = Visible(P)
  BY <1>6, VisibleStay
<1>8. \A i \in Visible(P)' : i + Limit > last => i \in Range(page)
  BY <1>2, <1>5, <1>7
<1>9. reply'["notify"].polled = last /\ reply'["notify"].page = page
  BY <1>1, <1>2
<1> QED
  BY <1>2, <1>3, <1>4, <1>5, <1>8, <1>9 DEF NotifyTold, Visible

\* No more polls than before are on their way.
LEMMA TripsFewer ==
  ASSUME Trips, DOMAIN asking' = Client, asking'["poll"] = asking["poll"], reply'["poll"] = reply["poll"],
         NEW d \in Nat, \A i \in PollsInLine' : i \in Nat /\ i + d \in PollsInLine,
         PollServed' => PollServed
  PROVE  Trips'
<1>1. \A i, j \in PollsInLine' : i = j
  <2> TAKE i, j \in PollsInLine'
  <2>1. i \in Nat /\ j \in Nat /\ i + d = j + d
    BY DEF Trips
  <2> QED
    BY <2>1
<1>2. PollsInLine = {} => PollsInLine' = {}
  OBVIOUS
<1> QED
  BY <1>1, <1>2 DEF Trips

\* None is.
LEMMA TripsOver ==
  ASSUME DOMAIN asking' = Client, PollsInLine' = {}, ~PollServed', asking'["poll"] = "none" => reply'["poll"] = NoOp
  PROVE  Trips'
BY DEF Trips
-----------------------------------------------------------------------------
\* The window and its log stay as they are,
LEMMA DeskStays ==
  ASSUME Grown, Logged, Windowed, UNCHANGED <<ui, log>>
  PROVE  Logged' /\ Windowed'
<1>1. PICK page : page = ui.page
  OBVIOUS
<1>2. Fits(page)'
  BY <1>1, FitsStays DEF Logged
<1>3. Fits(ui.page)'
  BY <1>1, <1>2 DEF Fits
<1> QED
  BY <1>3, LogStays DEF Logged, Windowed

\* ... or what the notifier has read.
LEMMA ReadingStays ==
  ASSUME Grown, Examined, UNCHANGED notifier
  PROVE  Examined'
<1>1. SameReading
  BY DEF Examined, SameReading
<1> QED
  BY <1>1, ExaminedStays

\* A client asks.
LEMMA AskFeeds ==
  ASSUME LinuxFeeds, Logged, Grown, Lines, NEW c \in Client, NEW op, NEW about, Ask(c, op, about),
         op = "events" <=> c \in Feed, c = "notify" => about = 0,
         c = "poll" => /\ op # "none" /\ about = Cursor
                       /\ asking["poll"] = "none" /\ ui.todo # <<>> /\ Head(ui.todo) = "events",
         UNCHANGED <<ui, log, notifier>>
  PROVE  LinuxFeeds'
<1> DEFINE n == Len(line) + 1
<1>1. /\ n \in Nat /\ DOMAIN line' = 1..n /\ DOMAIN line = 1..(n - 1)
      /\ \A k \in DOMAIN line' : IF k = n THEN line'[n].op = op /\ line'[n].about = about /\ line'[n].from = c
                                 ELSE k \in DOMAIN line /\ line'[k] = line[k]
      /\ UNCHANGED reply /\ asking' = [asking EXCEPT ![c] = op] /\ UNCHANGED ipc
  <2>1. /\ Len(line) \in Nat /\ DOMAIN line = 1..Len(line) /\ DOMAIN line' = 1..(Len(line) + 1)
        /\ \A k \in 1..Len(line) : line'[k] = line[k]
        /\ line'[n].op = op /\ line'[n].about = about /\ line'[n].from = c
        /\ UNCHANGED reply /\ asking' = [asking EXCEPT ![c] = op]
    BY AskPlaces
  <2>2. \A k \in DOMAIN line' : k = n \/ k \in 1..Len(line)
    BY <2>1
  <2> QED
    BY <2>1, <2>2 DEF Ask
<1>2. DOMAIN asking = Client /\ Requested /\ Trips /\ Polled /\ PollTold /\ NotifyTold
  BY DEF LinuxFeeds, Trips
<1> HIDE DEF n
<1>3. Requested'
  <2>1. ASSUME NEW k \in DOMAIN line' PROVE Asks(line[k])'
    BY <1>1, <1>2 DEF Requested, Asks, Cursor
  <2>2. ipc.pc # "accept" => Asks(ipc.conn)' /\ (ipc.pc = "flush" <=> ipc.conn.op = "events")
    BY <1>1, <1>2 DEF Requested, Asks, Cursor
  <2> QED
    BY <1>1, <2>1, <2>2 DEF Requested
<1>4. PollServed' = PollServed
  BY <1>1 DEF PollServed, Polling
<1>5. Trips'
  <2>1. CASE c # "poll"
    <3>1. \A i \in PollsInLine' : i \in Nat /\ i + 0 \in PollsInLine
      BY <1>1, <2>1 DEF PollsInLine, Polling
    <3>2. DOMAIN asking' = Client /\ asking'["poll"] = asking["poll"] /\ reply'["poll"] = reply["poll"]
      BY <1>1, <1>2, <2>1
    <3> QED
      BY <1>2, <1>4, <3>1, <3>2, TripsFewer
  <2>2. CASE c = "poll"
    <3>1. PollsInLine = {} /\ ~PollServed /\ reply["poll"] = NoOp
      BY <1>2, <2>2 DEF Trips
    <3>2. PollsInLine' \subseteq {n}
      BY <1>1, <3>1 DEF PollsInLine
    <3>3. DOMAIN asking' = Client /\ asking'["poll"] # "none" /\ reply'["poll"] = NoOp
      BY <1>1, <1>2, <2>2, <3>1
    <3> QED
      BY <1>4, <3>1, <3>2, <3>3 DEF Trips
  <2> QED
    BY <2>1, <2>2
<1>6. Polled'
  BY <1>1, <1>2 DEF Polled
<1>7. PollTold' /\ NotifyTold'
  BY <1>1, <1>2, PollToldStays, NotifyToldStays
<1> QED
  BY <1>3, <1>5, <1>6, <1>7 DEF LinuxFeeds

\* Nothing is asked or answered.
LEMMA QuietFeeds ==
  ASSUME LinuxFeeds, Logged, Grown, UNCHANGED <<wire, log>>, notifier'.polled = notifier.polled, Polled'
  PROVE  LinuxFeeds'
<1>1. UNCHANGED <<line, ipc, asking, reply>>
  BY DEF wire
<1>2. Requested'
  BY <1>1 DEF LinuxFeeds, Requested, Asks, Cursor
<1>3. Trips'
  BY <1>1 DEF LinuxFeeds, Trips, PollsInLine, PollServed, Polling
<1>4. PollTold' /\ NotifyTold'
  BY <1>1, PollToldStays, NotifyToldStays DEF LinuxFeeds
<1> QED
  BY <1>2, <1>3, <1>4 DEF LinuxFeeds

\* A client other than the poll hears its answer.
LEMMA HearFeeds ==
  ASSUME LinuxFeeds, Logged, Grown, Replies, NEW c \in Client \ {"poll"}, Hear(c), UNCHANGED <<ui, log>>,
         c # "notify" => notifier'.polled = notifier.polled
  PROVE  LinuxFeeds'
<1>1. /\ asking' = [asking EXCEPT ![c] = "none"] /\ reply' = [reply EXCEPT ![c] = NoOp] /\ UNCHANGED <<line, ipc>>
      /\ DOMAIN asking = Client /\ DOMAIN reply = Client
  BY DEF Hear, LinuxFeeds, Trips, Replies
<1>2. DOMAIN asking' = Client /\ asking'["poll"] = asking["poll"] /\ reply'["poll"] = reply["poll"]
      /\ reply'["notify"] \in {reply["notify"], NoOp} /\ (c = "notify" => reply'["notify"] = NoOp)
  BY <1>1
<1>3. Requested'
  BY <1>1 DEF LinuxFeeds, Requested, Asks, Cursor
<1>4. Trips'
  <2>1. PollsInLine' = PollsInLine /\ PollServed' = PollServed
    BY <1>1 DEF PollsInLine, PollServed, Polling
  <2> QED
    BY <1>2, <2>1 DEF LinuxFeeds, Trips
<1>5. Polled'
  BY <1>2 DEF LinuxFeeds, Polled
<1>6. PollTold'
  BY <1>2, PollToldStays DEF LinuxFeeds
<1>7. NotifyTold'
  BY <1>2, NotifyToldStays DEF LinuxFeeds, NotifyTold
<1> QED
  BY <1>3, <1>4, <1>5, <1>6, <1>7 DEF LinuxFeeds

\* Clients other than the poll close.
LEMMA CloseFeeds ==
  ASSUME LinuxFeeds, Logged, Grown, Lines, Serving, NEW cs, "poll" \notin cs, Close(cs), UNCHANGED <<ui, log>>,
         "notify" \notin cs => notifier'.polled = notifier.polled
  PROVE  LinuxFeeds'
<1>1. /\ DOMAIN line' = DOMAIN line
      /\ \A i \in DOMAIN line : Message(line[i]) /\ line'[i] = Hangup(line[i], cs)
      /\ ipc'.pc = ipc.pc /\ ipc'.conn = Hangup(ipc.conn, cs)
      /\ ipc.pc # "accept" => Message(ipc.conn)
      /\ asking' = [c \in Client |-> IF c \in cs THEN "none" ELSE asking[c]]
      /\ reply' = [c \in Client |-> IF c \in cs THEN NoOp ELSE reply[c]]
  BY ClosePlaces
<1>2. /\ DOMAIN asking' = Client /\ asking'["poll"] = asking["poll"] /\ reply'["poll"] = reply["poll"]
      /\ reply'["notify"] \in {reply["notify"], NoOp} /\ ("notify" \in cs => reply'["notify"] = NoOp)
  BY <1>1 DEF Client
<1>3. \A i \in DOMAIN line : Like(line'[i], line[i]) /\ (Polling(line'[i]) => Polling(line[i]))
  BY <1>1, HangupLike
<1>4. ipc.pc # "accept" => Like(ipc'.conn, ipc.conn) /\ (Polling(ipc'.conn) => Polling(ipc.conn))
  BY <1>1, HangupLike
<1>5. Requested'
  <2>1. \A i \in DOMAIN line' : Asks(line[i])'
    BY <1>1, <1>3 DEF LinuxFeeds, Requested, Asks, Like, Cursor
  <2>2. ipc'.pc # "accept" => Asks(ipc.conn)' /\ (ipc'.pc = "flush" <=> ipc'.conn.op = "events")
    BY <1>1, <1>4 DEF LinuxFeeds, Requested, Asks, Like, Cursor
  <2> QED
    BY <2>1, <2>2 DEF Requested
<1>6. Trips'
  <2>1. \A i \in PollsInLine' : i \in PollsInLine
    BY <1>1, <1>3 DEF PollsInLine
  <2>2. PollServed' => PollServed
    BY <1>1, <1>4 DEF PollServed
  <2> QED
    BY <1>2, <2>1, <2>2 DEF LinuxFeeds, Trips
<1>7. Polled'
  BY <1>2 DEF LinuxFeeds, Polled
<1>8. PollTold'
  BY <1>2, PollToldStays DEF LinuxFeeds
<1>9. NotifyTold'
  BY <1>2, NotifyToldStays DEF LinuxFeeds, NotifyTold
<1> QED
  BY <1>5, <1>6, <1>7, <1>8, <1>9 DEF LinuxFeeds

\* The poll gives up, or its window closes.
LEMMA ClosePollFeeds ==
  ASSUME LinuxFeeds, Grown, Lines, Serving, NEW cs, "poll" \in cs, Close(cs), UNCHANGED notifier,
         ui'.todo # <<>> => ui'.win /\ ui'.busy
  PROVE  LinuxFeeds'
<1>1. /\ DOMAIN line' = DOMAIN line
      /\ \A i \in DOMAIN line : Message(line[i]) /\ line'[i] = Hangup(line[i], cs)
      /\ ipc'.pc = ipc.pc /\ ipc'.conn = Hangup(ipc.conn, cs)
      /\ ipc.pc # "accept" => Message(ipc.conn)
      /\ asking' = [c \in Client |-> IF c \in cs THEN "none" ELSE asking[c]]
      /\ reply' = [c \in Client |-> IF c \in cs THEN NoOp ELSE reply[c]]
  BY ClosePlaces
<1>2. /\ DOMAIN asking' = Client /\ asking'["poll"] = "none" /\ reply'["poll"] = NoOp
      /\ reply'["notify"] \in {reply["notify"], NoOp}
  BY <1>1 DEF Client
<1>3. \A i \in DOMAIN line : Like(line'[i], line[i]) /\ ~Polling(line'[i])
  BY <1>1, HangupLike
<1>4. ipc.pc # "accept" => Like(ipc'.conn, ipc.conn) /\ ~Polling(ipc'.conn)
  BY <1>1, HangupLike
<1>5. Requested'
  <2>1. \A i \in DOMAIN line' : Asks(line[i])'
    BY <1>1, <1>3 DEF LinuxFeeds, Requested, Asks, Like, Polling
  <2>2. ipc'.pc # "accept" => Asks(ipc.conn)' /\ (ipc'.pc = "flush" <=> ipc'.conn.op = "events")
    BY <1>1, <1>4 DEF LinuxFeeds, Requested, Asks, Like, Polling
  <2> QED
    BY <2>1, <2>2 DEF Requested
<1>6. Trips'
  <2>1. PollsInLine' = {} /\ ~PollServed'
    BY <1>1, <1>3, <1>4 DEF PollsInLine, PollServed
  <2> QED
    BY <1>2, <2>1, TripsOver
<1>7. Polled' /\ PollTold'
  BY <1>2 DEF Polled, PollTold
<1>8. NotifyTold'
  BY <1>2, NotifyToldStays DEF LinuxFeeds
<1> QED
  BY <1>5, <1>6, <1>7, <1>8 DEF LinuxFeeds
-----------------------------------------------------------------------------
\* The thread takes the first message up,
LEMMA TakenFeeds ==
  ASSUME LinuxFeeds, Logged, Grown, Lines, line # <<>>, ipc.pc = "accept", line' = Tail(line),
         ipc'.conn = Head(line), ipc'.pc # "accept", ipc'.pc = "flush" <=> Head(line).op = "events",
         UNCHANGED <<asking, reply, ui, log, notifier>>
  PROVE  LinuxFeeds'
<1>1. /\ DOMAIN line' \subseteq Nat \ {0}
      /\ \A k \in DOMAIN line' : k + 1 \in DOMAIN line /\ line'[k] = line[k + 1]
      /\ 1 \in DOMAIN line /\ Head(line) = line[1]
  BY TailPlaces
<1>2. Requested /\ Trips /\ Polled /\ PollTold /\ NotifyTold
  BY DEF LinuxFeeds
<1>3. Requested'
  <2>1. \A k \in DOMAIN line' : Asks(line[k])'
    BY <1>1, <1>2 DEF Requested, Asks, Cursor
  <2>2. Asks(ipc.conn)'
    BY <1>1, <1>2 DEF Requested, Asks, Cursor
  <2> QED
    BY <2>1, <2>2 DEF Requested
<1>4. \A k \in PollsInLine' : k + 1 \in PollsInLine /\ k + 1 # 1
  <2> TAKE k \in PollsInLine'
  <2>1. k \in DOMAIN line' /\ Polling(line'[k])
    BY DEF PollsInLine
  <2>2. k \in Nat /\ k # 0 /\ k + 1 \in DOMAIN line /\ Polling(line[k + 1])
    BY <1>1, <2>1
  <2> QED
    BY <2>2 DEF PollsInLine
<1>5. Trips'
  <2>1. PollServed' => 1 \in PollsInLine
    BY <1>1 DEF PollServed, PollsInLine
  <2>2. PollServed' => PollsInLine' = {}
    BY <1>2, <1>4, <2>1 DEF Trips
  <2>3. \A i, j \in PollsInLine' : i = j
    <3> TAKE i, j \in PollsInLine'
    <3>1. i \in Nat /\ j \in Nat /\ i + 1 = j + 1
      BY <1>1, <1>2, <1>4 DEF Trips, PollsInLine
    <3> QED
      BY <3>1
  <2>4. PollsInLine = {} => PollsInLine' = {} /\ ~PollServed'
    BY <1>4, <2>1
  <2> QED
    BY <1>2, <2>2, <2>3, <2>4 DEF Trips
<1>6. Polled'
  BY <1>2 DEF Polled
<1>7. PollTold' /\ NotifyTold'
  BY <1>2, PollToldStays, NotifyToldStays
<1> QED
  BY <1>3, <1>5, <1>6, <1>7 DEF LinuxFeeds

\* An answer is told to who asked.
LEMMA SaidToOthers ==
  ASSUME Replies, NEW conn, NEW answer, conn.from \notin Feed, Say(conn, answer)
  PROVE  ipc'.pc = "accept" /\ UNCHANGED asking /\ reply'["poll"] = reply["poll"] /\ reply'["notify"] = reply["notify"]
<1>1. PICK c : c = conn.from /\ c # "poll" /\ c # "notify"
  BY DEF Feed
<1>2. \/ reply' = [reply EXCEPT ![c] = answer]
      \/ UNCHANGED reply
  BY <1>1 DEF Say, Deliver
<1>3. reply'["poll"] = reply["poll"] /\ reply'["notify"] = reply["notify"]
  BY <1>1, <1>2 DEF Replies, Client
<1>4. ipc' = Accepting /\ UNCHANGED asking
  BY DEF Say
<1> QED
  BY <1>3, <1>4 DEF Accepting

\* ... and may answer it at once: that was no request for events.
LEMMA ServedFeeds ==
  ASSUME LinuxFeeds, Logged, Grown, Lines, Replies, line # <<>>, ipc.pc = "accept", line' = Tail(line),
         Head(line).op # "events", NEW answer, Say(Head(line), answer), UNCHANGED <<ui, log, notifier>>
  PROVE  LinuxFeeds'
<1>1. /\ DOMAIN line' \subseteq Nat \ {0}
      /\ \A k \in DOMAIN line' : k + 1 \in DOMAIN line /\ line'[k] = line[k + 1]
      /\ 1 \in DOMAIN line /\ Head(line) = line[1]
  BY TailPlaces
<1>2. Requested /\ Trips /\ Polled /\ PollTold /\ NotifyTold
  BY DEF LinuxFeeds
<1>a. Head(line).from \notin Feed
  BY <1>1, <1>2 DEF Requested, Asks
<1>b. ipc'.pc = "accept" /\ UNCHANGED asking /\ reply'["poll"] = reply["poll"] /\ reply'["notify"] = reply["notify"]
  BY <1>a, SaidToOthers
<1>3. Requested'
  BY <1>1, <1>2, <1>b DEF Requested, Asks, Cursor
<1>4. \A k \in PollsInLine' : k \in Nat /\ k + 1 \in PollsInLine
  BY <1>1 DEF PollsInLine, Polling
<1>5. Trips'
  <2>1. ~PollServed' /\ DOMAIN asking' = Client /\ asking'["poll"] = asking["poll"]
    BY <1>2, <1>b DEF PollServed, Trips
  <2> QED
    BY <1>2, <1>4, <1>b, <2>1, TripsFewer
<1>6. Polled'
  BY <1>2, <1>b DEF Polled
<1>7. PollTold' /\ NotifyTold'
  BY <1>2, <1>b, PollToldStays, NotifyToldStays
<1> QED
  BY <1>3, <1>5, <1>6, <1>7 DEF LinuxFeeds

\* Who waited for a human is no poll.
LEMMA HeldFeeds ==
  ASSUME LinuxFeeds, Logged, Grown, Replies, ipc.pc \notin {"accept", "flush"}, UNCHANGED line,
         \/ \E answer : Say(ipc.conn, answer)
         \/ ipc'.pc = "answer" /\ ipc'.conn = ipc.conn /\ UNCHANGED <<asking, reply>>,
         UNCHANGED <<ui, log, notifier>>
  PROVE  LinuxFeeds'
<1>2. Requested /\ Trips /\ Polled /\ PollTold /\ NotifyTold
  BY DEF LinuxFeeds
<1>a. ipc.conn.from \notin Feed /\ Asks(ipc.conn) /\ ipc.conn.op # "events"
  BY <1>2 DEF Requested, Asks
<1>b. /\ UNCHANGED asking /\ reply'["poll"] = reply["poll"] /\ reply'["notify"] = reply["notify"]
      /\ ipc'.pc = "accept" \/ (ipc'.pc = "answer" /\ ipc'.conn = ipc.conn)
  BY <1>a, SaidToOthers
<1>3. Requested'
  <2>1. \A k \in DOMAIN line' : Asks(line[k])'
    BY <1>2 DEF Requested, Asks, Cursor
  <2>2. ipc'.pc # "accept" => Asks(ipc.conn)' /\ (ipc'.pc = "flush" <=> ipc'.conn.op = "events")
    BY <1>a, <1>b DEF Asks, Cursor
  <2> QED
    BY <2>1, <2>2 DEF Requested
<1>4. PollsInLine' = PollsInLine /\ ~PollServed'
  BY <1>a, <1>b DEF PollsInLine, PollServed, Polling, Feed
<1>5. Trips'
  BY <1>2, <1>b, <1>4 DEF Trips
<1>6. Polled'
  BY <1>2, <1>b DEF Polled
<1>7. PollTold' /\ NotifyTold'
  BY <1>2, <1>b, PollToldStays, NotifyToldStays
<1> QED
  BY <1>3, <1>5, <1>6, <1>7 DEF LinuxFeeds

\* The first page has every visible row that was not too far back.
LEMMA FirstPageHas ==
  ASSUME Audited, NEW i \in Visible(1..Len(committed)), i + Limit > Len(committed)
  PROVE  i \in Range(FirstPage)
<1>1. PICK n \in Nat, p \in Nat : n = Len(committed) /\ p = Pruned /\ p <= n /\ Ids = (p + 1)..n
  BY IdsKept DEF Ids
<1>2. i \in 1..n /\ committed[i] = "deny" /\ Limit \in Nat /\ Limit <= Retained /\ Retained \in Nat
  BY <1>1, PageAssumption DEF Visible
<1>3. p = IF n > Retained THEN n - Retained ELSE 0
  BY <1>1 DEF Pruned
<1>4. i > p /\ n - i < Limit
  BY <1>1, <1>2, <1>3
<1>5. i \in Ids
  BY <1>1, <1>2, <1>4
<1>6. {j \in Ids : j > i} = (i + 1)..n
  BY <1>1, <1>2, <1>4
<1>7. Cardinality((i + 1)..n) = n - i
  <2>1. i + 1 \in Int /\ n \in Int
    BY <1>1, <1>2
  <2>2. Cardinality((i + 1)..n) = IF i + 1 > n THEN 0 ELSE n - (i + 1) + 1
    BY <2>1, FS_Interval
  <2> QED
    BY <1>1, <1>2, <2>2
<1>8. i \in Newest(Ids)
  BY <1>4, <1>5, <1>6, <1>7 DEF Newest
<1>9. i \in Visible(Newest(Ids))
  BY <1>2, <1>8 DEF Visible
<1> QED
  BY <1>9, PageRows

\* The flush is acknowledged, and the page goes to who asked for it.
LEMMA PageFeeds ==
  ASSUME LinuxFeeds, Logged, Examined, Grown, Replies, Serving, AnswerEvents
  PROVE  LinuxFeeds'
<1> DEFINE page == IF ipc.conn.about = 0 THEN FirstPage ELSE PageAfter(ipc.conn.about)
           answer == [op |-> "events", polled |-> Len(committed), page |-> page]
<1>1. /\ ipc.pc = "flush" /\ Say(ipc.conn, answer) /\ UNCHANGED <<line, committed, ui, log, notifier>>
  BY DEF AnswerEvents, desk
<1>2. Requested /\ Trips /\ Polled /\ PollTold /\ NotifyTold
  BY DEF LinuxFeeds
<1>a. Asks(ipc.conn) /\ ipc.conn.op = "events" /\ Message(ipc.conn) /\ ipc.conn.from \in Feed
  BY <1>1, <1>2 DEF Requested, Asks, Serving
<1>b. /\ ipc'.pc = "accept" /\ UNCHANGED asking /\ DOMAIN reply = Client
      /\ reply' = IF ipc.conn.open THEN [reply EXCEPT ![ipc.conn.from] = answer] ELSE reply
  BY <1>1 DEF Say, Deliver, Accepting, Replies
<1>c. answer.op = "events" /\ answer.polled = Len(committed) /\ answer.page = page /\ answer # NoOp
  BY DEF NoOp
<1>d. Audited /\ Len(committed) \in Nat
  BY VisibleStay DEF Grown
<1> HIDE DEF answer, page
<1>e. PICK rows, n, told : rows = page /\ n = Len(committed) /\ told = answer
  OBVIOUS
<1>f. told.op = "events" /\ told.polled = n /\ told.page = rows /\ told # NoOp
  BY <1>c, <1>e
<1>g. reply' = IF ipc.conn.open THEN [reply EXCEPT ![ipc.conn.from] = told] ELSE reply
  BY <1>b, <1>e
<1>3. Requested'
  BY <1>1, <1>2, <1>b DEF Requested, Asks, Cursor
<1>4. PollsInLine' = PollsInLine /\ ~PollServed'
  BY <1>1, <1>b DEF PollsInLine, PollServed, Polling
<1>5. Trips'
  <2>1. CASE ipc.conn.open /\ ipc.conn.from = "poll"
    <3>1. PollServed
      BY <1>1, <2>1 DEF PollServed, Polling
    <3>2. PollsInLine = {} /\ asking["poll"] # "none"
      BY <1>2, <3>1 DEF Trips
    <3> QED
      BY <1>2, <1>4, <1>b, <3>2 DEF Trips
  <2>2. CASE ~(ipc.conn.open /\ ipc.conn.from = "poll")
    <3>1. reply'["poll"] = reply["poll"]
      BY <1>g, <1>b, <2>2
    <3> QED
      BY <1>2, <1>4, <1>b, <3>1 DEF Trips
  <2> QED
    BY <2>1, <2>2
<1>6. Polled'
  BY <1>1, <1>2, <1>b DEF Polled
<1>7. PollTold'
  <2>1. CASE ipc.conn.open /\ ipc.conn.from = "poll"
    <3>1. ipc.conn.about = Cursor
      BY <1>a, <2>1 DEF Asks
    <3>2. Fits(rows)
      BY <1>d, <1>e, <3>1, PagesFit DEF page
    <3>3. Fits(rows)'
      BY <1>1, <3>2, FitsStays
    <3>4. reply'["poll"] = told
      BY <1>g, <1>b, <2>1 DEF Client
    <3>5. reply'["poll"].op = "events" /\ reply'["poll"].page = rows
      BY <1>f, <3>4
    <3> QED
      BY <3>3, <3>5 DEF PollTold, Fits
  <2>2. CASE ~(ipc.conn.open /\ ipc.conn.from = "poll")
    <3>1. reply'["poll"] = reply["poll"]
      BY <1>g, <1>b, <2>2
    <3> QED
      BY <1>1, <1>2, <3>1, PollToldStays
  <2> QED
    BY <2>1, <2>2
<1>8. NotifyTold'
  <2>1. CASE ipc.conn.open /\ ipc.conn.from = "notify"
    <3>1. rows = FirstPage
      BY <1>a, <1>e, <2>1 DEF Asks, page
    <3>2. rows \in Seq(1..n)
      BY <1>d, <1>e, <3>1, PageRows
    <3>3. \A i \in Visible(1..n) : i + Limit > n => i \in Range(rows)
      BY <1>d, <1>e, <3>1, FirstPageHas
    <3>4. n \in notifier.polled..Len(committed)
      BY <1>e DEF Examined
    <3>5. reply'["notify"].op = "events" /\ reply'["notify"].polled = n /\ reply'["notify"].page = rows
      BY <1>f, <1>g, <1>b, <2>1 DEF Client
    <3>6. Visible(1..n)' = Visible(1..n) /\ Len(committed') = Len(committed)
      BY <1>1 DEF Visible
    <3> QED
      BY <1>1, <3>2, <3>3, <3>4, <3>5, <3>6 DEF NotifyTold, Visible
  <2>2. CASE ~(ipc.conn.open /\ ipc.conn.from = "notify")
    <3>1. reply'["notify"] = reply["notify"]
      BY <1>g, <1>b, <2>2
    <3> QED
      BY <1>1, <1>2, <3>1, NotifyToldStays
  <2> QED
    BY <2>1, <2>2
<1> QED
  BY <1>3, <1>5, <1>6, <1>7, <1>8 DEF LinuxFeeds

\* Whatever the thread does, what it tells is true.
LEMMA IpcFeeds ==
  ASSUME LinuxFeeds, Logged, Examined, Windowed, Grown, Guarded, Ipc
  PROVE  LinuxFeeds' /\ Logged' /\ Examined' /\ Windowed'
<1> USE DEF desk, grants, loads
<1>0. UNCHANGED <<ui, log, notifier>>
  BY DEF Ipc, ServeEvents, AnswerEvents, ServeBlock, ServeAllow, ServeLoad, ServeSensitive, ServeRevoke,
    PolkitEnds, PolkitAllows, PolkitLoads, Answer
<1>g. Lines /\ Serving /\ Replies
  BY DEF Guarded
<1>r. Logged' /\ Examined' /\ Windowed'
  BY <1>0, DeskStays, ReadingStays
<1>1. CASE ServeEvents
  <2>1. /\ ipc.pc = "accept" /\ line # <<>> /\ line' = Tail(line) /\ Head(line).op = "events"
        /\ ipc' = [pc |-> "flush", conn |-> Head(line), answer |-> NoOp] /\ UNCHANGED <<asking, reply>>
    BY <1>1 DEF ServeEvents, Accept
  <2> QED
    BY <1>0, <1>g, <1>r, <2>1, TakenFeeds
<1>2. CASE AnswerEvents
  BY <1>2, <1>g, <1>r, PageFeeds
<1>3. CASE ServeBlock
  <2>1. /\ ipc.pc = "accept" /\ line # <<>> /\ line' = Tail(line) /\ Head(line).op = "block"
        /\ \E answer : Say(Head(line), answer)
    BY <1>3 DEF ServeBlock, Accept
  <2> QED
    BY <1>0, <1>g, <1>r, <2>1, ServedFeeds
<1>s. ASSUME NEW op \in {"allow", "load"}, NEW valid, NEW error, ServeSensitive(op, valid, error)
      PROVE  LinuxFeeds'
  <2>1. ipc.pc = "accept" /\ line # <<>> /\ line' = Tail(line) /\ Head(line).op = op
    BY <1>s DEF ServeSensitive, Accept
  <2>2. CASE ipc' = [pc |-> "polkit", conn |-> Head(line), answer |-> NoOp] /\ UNCHANGED <<asking, reply>>
    BY <1>0, <1>g, <2>1, <2>2, TakenFeeds
  <2>3. CASE Say(Head(line), Refuse(error))
    BY <1>0, <1>g, <2>1, <2>3, ServedFeeds
  <2> QED
    BY <1>s, <2>2, <2>3 DEF ServeSensitive
<1>4. CASE ServeAllow \/ ServeLoad
  BY <1>4, <1>s, <1>r DEF ServeAllow, ServeLoad
<1>5. CASE ServeRevoke
  <2>1. /\ ipc.pc = "accept" /\ line # <<>> /\ line' = Tail(line) /\ Head(line).op = "revoke"
        /\ \E answer : Say(Head(line), answer)
    BY <1>5 DEF ServeRevoke
  <2> QED
    BY <1>0, <1>g, <1>r, <2>1, ServedFeeds
<1>6. CASE PolkitEnds \/ PolkitAllows \/ PolkitLoads \/ Answer
  <2>1. ipc.pc \notin {"accept", "flush"} /\ UNCHANGED line
    BY <1>6 DEF PolkitEnds, PolkitAllows, PolkitLoads, Answer
  <2>2. \/ \E answer : Say(ipc.conn, answer)
        \/ ipc' = [ipc EXCEPT !.pc = "answer", !.answer = [op |-> "lease"]] /\ UNCHANGED <<asking, reply>>
    <3>1. CASE PolkitEnds
      BY <3>1 DEF PolkitEnds
    <3>2. CASE PolkitAllows
      BY <3>2 DEF PolkitAllows
    <3>3. CASE PolkitLoads
      BY <3>3 DEF PolkitLoads
    <3>4. CASE Answer
      BY <3>4 DEF Answer
    <3> QED
      BY <1>6, <3>1, <3>2, <3>3, <3>4
  <2>3. \/ \E answer : Say(ipc.conn, answer)
        \/ ipc'.pc = "answer" /\ ipc'.conn = ipc.conn /\ UNCHANGED <<asking, reply>>
    BY <1>g, <2>2 DEF Serving
  <2> QED
    BY <1>0, <1>g, <1>r, <2>1, <2>3, HeldFeeds
<1> QED
  BY <1>1, <1>2, <1>3, <1>4, <1>5, <1>6 DEF Ipc
-----------------------------------------------------------------------------
\* No client and no thread takes part.
LEMMA QuietStep ==
  ASSUME LinuxFeeds, Logged, Examined, Windowed, Grown, UNCHANGED <<wire, ui, log, notifier>>
  PROVE  LinuxFeeds' /\ Logged' /\ Examined' /\ Windowed'
<1>1. Polled'
  BY DEF LinuxFeeds, Polled, wire
<1> QED
  BY <1>1, QuietFeeds, DeskStays, ReadingStays

\* A client that asks for something else, hears of it or hangs up.
LEMMA OtherStep ==
  ASSUME LinuxFeeds, Logged, Examined, Windowed, Grown, Guarded, NEW c \in Client \ Feed,
         \/ Hear(c) \/ Close({c})
         \/ \E op, about : Ask(c, op, about) /\ op # "events",
         UNCHANGED <<ui, log, notifier>>
  PROVE  LinuxFeeds' /\ Logged' /\ Examined' /\ Windowed'
<1>1. Logged' /\ Examined' /\ Windowed'
  BY DeskStays, ReadingStays
<1>2. CASE Hear(c)
  BY <1>1, <1>2, HearFeeds DEF Guarded, Feed
<1>3. CASE Close({c})
  <2>1. "poll" \notin {c}
    BY DEF Feed
  <2> QED
    BY <1>1, <1>3, <2>1, CloseFeeds DEF Guarded
<1>4. CASE \E op, about : Ask(c, op, about) /\ op # "events"
  BY <1>1, <1>4, AskFeeds DEF Guarded, Feed
<1> QED
  BY <1>2, <1>3, <1>4

\* guardctl ssh load
LEMMA BrokerFeeds ==
  ASSUME LinuxFeeds, Logged, Examined, Windowed, Grown, Guarded, NEW l \in Load,
         Broker(l) \/ Fork(l) \/ ChildDies(l) \/ BrokerDies(l) \/ OrphanResumes(l)
  PROVE  LinuxFeeds' /\ Logged' /\ Examined' /\ Windowed'
<1>1. UNCHANGED <<ui, log, notifier>>
  BY DEF Broker, Fork, ChildDies, BrokerDies, OrphanResumes, ChildStops, BrokerAsks, WaitForStopFails, BrokerHears,
    BrokerTimesOut, BrokerSupplies, BrokerContinues, ChildExits, BrokerWaits, BrokerRevokes, BrokerReturns, Idle, desk
<1>2. l \in Client \ Feed
  BY ScenarioAssumption DEF Client, Feed
<1>3. \/ UNCHANGED wire \/ Hear(l) \/ Close({l})
      \/ Ask(l, "load", None) \/ Ask(l, "revoke", l)
  BY DEF Broker, Fork, ChildDies, BrokerDies, OrphanResumes, ChildStops, BrokerAsks, WaitForStopFails, BrokerHears,
    BrokerTimesOut, BrokerSupplies, BrokerContinues, ChildExits, BrokerWaits, BrokerRevokes, BrokerReturns, TimesOut
<1>4. \/ UNCHANGED wire \/ Hear(l) \/ Close({l})
      \/ \E op, about : Ask(l, op, about) /\ op # "events"
  BY <1>3
<1> QED
  BY <1>1, <1>2, <1>4, QuietStep, OtherStep

-----------------------------------------------------------------------------
\* The notifier examines what it is told, and knows what a full page hid.
LEMMA NotifierReads ==
  ASSUME Grown, Examined, NotifyTold, NotifierHearsEvents
  PROVE  Examined'
<1>0. PICK last, since, polled, examined, overrun, page, told :
        /\ last = notifier.last /\ since = notifier.since /\ polled = notifier.polled
        /\ examined = notifier.examined /\ overrun = notifier.overrun
        /\ page = reply["notify"].page /\ told = reply["notify"].polled
  OBVIOUS
<1>1. UNCHANGED committed
  BY DEF NotifierHearsEvents, audit
<1>2. PICK n \in Nat : n = Len(committed)
  BY VisibleStay
<1>3. /\ told \in polled..n /\ page \in Seq(1..told)
      /\ \A i \in Visible(1..told) : i + Limit > told => i \in Range(page)
  BY <1>0, <1>2 DEF NotifierHearsEvents, Answered, NotifyTold
<1>4. since \in Nat /\ polled \in 0..n /\ polled \in Nat /\ told \in Nat /\ told <= n /\ polled <= told
  BY <1>0, <1>2, <1>3 DEF Examined
<1>p. page # <<>> => Head(page) \in 1..told
  BY <1>3, TailRange
<1>5. CASE last = None
  <2>1. notifier' = [notifier EXCEPT !.last = Baseline(page), !.since = told, !.polled = told]
    BY <1>0, <1>5 DEF NotifierHearsEvents
  <2>2. PICK base : base = Baseline(page)
    OBVIOUS
  <2>3. base \in 0..told
    BY <1>4, <1>p, <2>2 DEF Baseline
  <2>4. /\ notifier'.last = base /\ notifier'.since = told /\ notifier'.polled = told
        /\ notifier' \in [attempts : {notifier'.attempts}, ready : {notifier'.ready}, last : {notifier'.last},
             since : {told}, polled : {told}, examined : {notifier'.examined}, overrun : {notifier'.overrun}]
    BY <2>1, <2>2 DEF Examined
  <2>5. (told + 1)..told = {} /\ told \in 0..n
    BY <1>4
  <2>6. Visible((notifier.since + 1)..notifier.polled)' = {}
    BY <2>4, <2>5 DEF Visible
  <2> QED
    BY <1>1, <1>2, <1>4, <2>3, <2>4, <2>5, <2>6 DEF Examined
<1>6. CASE last # None
  <2>1. notifier' = [notifier EXCEPT
          !.last = IF page = <<>> THEN @ ELSE Max({@, Head(page)}),
          !.examined = @ \union {i \in Range(page) : i > last},
          !.overrun = @ \union {i \in 1..told : i > polled /\ i + Limit <= told},
          !.polled = told]
    BY <1>0, <1>6 DEF NotifierHearsEvents
  <2>2. PICK next : next = IF page = <<>> THEN last ELSE Max({last, Head(page)})
    OBVIOUS
  <2>3. last \in 0..polled
    BY <1>0, <1>6 DEF Examined
  <2>4. next \in 0..told
    <3>1. CASE page = <<>>
      BY <1>4, <2>2, <2>3, <3>1
    <3>2. CASE page # <<>>
      <4>1. {last, Head(page)} \subseteq 0..told
        BY <1>4, <1>p, <2>3, <3>2
      <4>2. next \in {last, Head(page)}
        BY <1>4, <2>2, <3>2, <4>1, MaxIn
      <4> QED
        BY <4>1, <4>2
    <3> QED
      BY <3>1, <3>2
  <2>5. /\ notifier'.last = next /\ notifier'.since = since /\ notifier'.polled = told
        /\ notifier'.examined = examined \union {i \in Range(page) : i > last}
        /\ notifier'.overrun = overrun \union {i \in 1..told : i > polled /\ i + Limit <= told}
        /\ notifier' \in [attempts : {notifier'.attempts}, ready : {notifier'.ready}, last : {notifier'.last},
             since : {since}, polled : {told}, examined : {notifier'.examined}, overrun : {notifier'.overrun}]
    BY <1>0, <2>1, <2>2 DEF Examined
  <2>6. ASSUME NEW i \in (since + 1)..told, committed[i] = "deny"
        PROVE  i \in notifier'.examined \union notifier'.overrun
    <3>0. i \in Nat /\ i <= told /\ i >= 1 /\ Limit \in Nat
      BY <1>4, PageAssumption
    <3>1. CASE i <= polled
      <4>1. i \in (since + 1)..polled
        BY <1>4, <3>0, <3>1
      <4>2. i \in Visible((notifier.since + 1)..notifier.polled)
        BY <1>0, <2>6, <4>1 DEF Visible
      <4>3. i \in examined \union overrun
        BY <1>0, <1>6, <4>2 DEF Examined
      <4> QED
        BY <2>5, <4>3
    <3>2. CASE ~(i <= polled) /\ i + Limit <= told
      <4>1. i \in 1..told /\ i > polled
        BY <1>4, <3>0, <3>2
      <4> QED
        BY <2>5, <3>2, <4>1
    <3>3. CASE ~(i <= polled) /\ ~(i + Limit <= told)
      <4>1. i \in 1..told /\ i > last /\ i + Limit > told
        BY <1>4, <2>3, <3>0, <3>3
      <4>2. i \in Range(page)
        BY <1>3, <2>6, <4>1 DEF Visible
      <4> QED
        BY <2>5, <4>1, <4>2
    <3> QED
      BY <3>1, <3>2, <3>3
  <2>7. \A i \in Visible((notifier.since + 1)..notifier.polled)' : i \in (since + 1)..told /\ committed[i] = "deny"
    BY <1>1, <2>5 DEF Visible
  <2>8. /\ notifier' \in [attempts : {notifier'.attempts}, ready : {notifier'.ready}, last : {notifier'.last},
                   since : Nat, polled : 0..Len(committed'),
                   examined : {notifier'.examined}, overrun : {notifier'.overrun}]
        /\ notifier'.last \in 0..notifier'.polled
    BY <1>1, <1>2, <1>4, <2>4, <2>5
  <2> QED
    BY <2>5, <2>6, <2>7, <2>8 DEF Examined
<1> QED
  BY <1>5, <1>6

\* A step of the notifier
LEMMA NotifyFeeds ==
  ASSUME LinuxFeeds, Logged, Examined, Windowed, Grown, Guarded, Notify \/ NotifierRestarts
  PROVE  LinuxFeeds' /\ Logged' /\ Examined' /\ Windowed'
<1>c. "notify" \in Client \ {"poll"}
  BY DEF Client
<1>g. Lines /\ Serving /\ Replies
  BY DEF Guarded
<1>d. ASSUME UNCHANGED desk PROVE UNCHANGED <<ui, log>> /\ Logged' /\ Windowed'
  BY <1>d, DeskStays DEF desk
<1>1. CASE NotifierAsks
  <2>1. Ask("notify", "events", 0) /\ UNCHANGED <<notifier, desk>>
    BY <1>1 DEF NotifierAsks
  <2> QED
    BY <1>c, <1>d, <1>g, <2>1, AskFeeds, ReadingStays DEF Feed
<1>2. CASE NotifierHearsEvents
  <2>1. Hear("notify") /\ UNCHANGED desk
    BY <1>2 DEF NotifierHearsEvents
  <2> QED
    BY <1>2, <1>c, <1>d, <1>g, <2>1, HearFeeds, NotifierReads DEF LinuxFeeds
<1>3. CASE NotifierPolls
  <2>1. SameReading /\ notifier'.polled = notifier.polled
    <3>1. PICK attempts, ready : notifier' = [notifier EXCEPT !.attempts = attempts, !.ready = ready]
      BY <1>3 DEF NotifierPolls
    <3> QED
      BY <3>1 DEF SameReading, Examined
  <2>2. Examined' /\ UNCHANGED wire
    BY <1>3, <2>1, ExaminedStays DEF NotifierPolls
  <2>3. CASE UNCHANGED desk
    <3>1. Polled'
      BY <1>d, <2>2, <2>3 DEF LinuxFeeds, Polled, wire
    <3> QED
      BY <1>d, <2>1, <2>2, <2>3, <3>1, QuietFeeds
  <2>4. CASE ~ui.win /\ ui' = [NoWindow EXCEPT !.win = TRUE] /\ UNCHANGED log
    <3>1. Windowed' /\ ui'.page = <<>> /\ ui'.todo = <<>>
      BY <2>4, NewWindow DEF Windowed
    <3>2. asking["poll"] = "none"
      BY <2>4 DEF LinuxFeeds, Polled
    <3>3. Polled'
      BY <2>2, <3>1, <3>2 DEF Polled, wire
    <3>4. Logged'
      BY <2>4, <3>1, LogStays DEF Logged, Fits
    <3> QED
      BY <2>1, <2>2, <2>4, <3>1, <3>3, <3>4, QuietFeeds
  <2> QED
    BY <1>3, <2>3, <2>4 DEF NotifierPolls, ActivateGuardUi
<1>4. CASE NotifierRestarts
  <2>1. notifier' = NewNotifier /\ Close({"notify"}) /\ UNCHANGED desk
    BY <1>4 DEF NotifierRestarts
  <2>2. Examined'
    BY <2>1, VisibleStay DEF Examined, NewNotifier
  <2>3. LinuxFeeds'
    BY <1>d, <1>g, <2>1, CloseFeeds
  <2> QED
    BY <1>d, <2>1, <2>2, <2>3
<1> QED
  BY <1>1, <1>2, <1>3, <1>4 DEF Notify
-----------------------------------------------------------------------------
\* The window waits for no answer, whatever becomes of it.
LEMMA UnaskedFeeds ==
  ASSUME LinuxFeeds, Grown, asking["poll"] = "none", UNCHANGED <<wire, notifier>>, Polled'
  PROVE  LinuxFeeds'
<1>1. UNCHANGED <<line, ipc, asking, reply>>
  BY DEF wire
<1>2. Requested /\ Trips /\ NotifyTold /\ PollsInLine = {} /\ ~PollServed /\ reply["poll"] = NoOp
  BY DEF LinuxFeeds, Trips
<1>3. Requested'
  <2>1. \A i \in DOMAIN line : ~Polling(line[i])
    BY <1>2 DEF PollsInLine
  <2>2. \A i \in DOMAIN line' : Asks(line[i])'
    BY <1>1, <1>2, <2>1 DEF Requested, Asks, Polling
  <2>3. ipc'.pc # "accept" => Asks(ipc.conn)' /\ (ipc'.pc = "flush" <=> ipc'.conn.op = "events")
    BY <1>1, <1>2 DEF Requested, Asks, PollServed, Polling
  <2> QED
    BY <2>2, <2>3 DEF Requested
<1>4. Trips'
  BY <1>1, <1>2 DEF Trips, PollsInLine, PollServed, Polling
<1>5. PollTold' /\ NotifyTold'
  BY <1>1, <1>2, NotifyToldStays DEF PollTold
<1> QED
  BY <1>3, <1>4, <1>5 DEF LinuxFeeds

\* The window closes, and its log goes with it.
LEMMA ClosedWindow ==
  ASSUME CloseWindow
  PROVE  Logged' /\ Windowed' /\ ui'.todo = <<>>
<1>1. ui' = NoWindow /\ log' = <<>>
  BY DEF CloseWindow
<1>2. ui'.page = <<>> /\ ui'.todo = <<>> /\ Windowed'
  BY <1>1 DEF NoWindow, Windowed, IsWindow
<1>3. Logged'
  BY <1>1, <1>2, EmptyRange DEF Logged, Fits, Whole
<1> QED
  BY <1>2, <1>3

\* The page that was fetched joins the log.
LEMMA PageJoins ==
  ASSUME Grown, Logged, log' = ui.page \o log, ui'.page = <<>>
  PROVE  Logged'
<1>1. PICK page, shown : page = ui.page /\ shown = log
  OBVIOUS
<1>2. PICK n \in Nat, m \in Nat : n = Len(committed) /\ m = Len(committed') /\ n <= m
  BY VisibleStay DEF Grown
<1>3. page \in Seq(1..n) /\ shown \in Seq(1..n) /\ Whole(Range(page) \union Range(shown))
  BY <1>1, <1>2 DEF Logged, Fits
<1>4. log' \in Seq(1..n) /\ Range(log') = Range(page) \union Range(shown)
  BY <1>1, <1>3, JoinedRange
<1>5. log' \in Seq(1..m)
  <2>1. 1..n \subseteq 1..m
    BY <1>2
  <2> QED
    BY <1>4, <2>1, ListOfMore
<1>6. PICK S : S = Range(page) \union Range(shown)
  OBVIOUS
<1>7. S \in SUBSET (1..Len(committed)) /\ Whole(S)
  BY <1>2, <1>3, <1>6, InRange
<1>8. Whole(S)'
  BY <1>7, WholeStays
<1>9. Range(log)' = S /\ Range(<<>>) = {} /\ <<>> \in Seq(1..m)
  BY <1>4, <1>6, EmptyRange
<1>10. Whole(Range(log))' /\ Whole(Range(<<>>) \union Range(log))'
  BY <1>8, <1>9 DEF Whole
<1> QED
  BY <1>2, <1>5, <1>9, <1>10 DEF Logged, Fits

\* Its page, the list of what it has to ask and what failed are all that changes of a window.
LEMMA WindowGoesOn ==
  ASSUME Windowed, ui.todo # <<>>, NEW w, NEW page, NEW failed, NEW ssh, NEW mig,
         w = [win |-> ui.win, busy |-> ui.busy, todo |-> Tail(ui.todo), ssh |-> ssh, mig |-> mig, failed |-> failed,
              page |-> page]
  PROVE  IsWindow(w) /\ w.page = page /\ w.todo = Tail(ui.todo) /\ w.win = ui.win /\ w.busy = ui.busy
<1>1. Tail(ui.todo) \in Seq({"events", "ssh", "mig"})
  BY TailRange DEF Windowed, IsWindow
<1> QED
  BY <1>1 DEF Windowed, IsWindow

\* The poll's worker hears its page.
LEMMA PollHearsFeeds ==
  ASSUME LinuxFeeds, Logged, Examined, Windowed, Grown, Replies, PollHears
  PROVE  LinuxFeeds' /\ Logged' /\ Examined' /\ Windowed'
<1>1. /\ ui' = [ui EXCEPT !.todo = Tail(@), !.page = reply["poll"].page]
      /\ Hear("poll") /\ reply["poll"] # NoOp /\ asking["poll"] = "events" /\ UNCHANGED <<log, notifier>>
  BY DEF PollHears, Answered, Waits
<1>2. Requested /\ Trips /\ Polled /\ PollTold /\ NotifyTold
  BY DEF LinuxFeeds
<1>3. PollsInLine = {} /\ ~PollServed /\ ui.todo # <<>> /\ ui.win /\ ui.busy
  BY <1>1, <1>2 DEF Trips, Polled
<1>4. PICK page : page = reply["poll"].page
  OBVIOUS
<1>5. Windowed' /\ ui'.page = page /\ ui'.win /\ ui'.busy
  <2>1. ui' = [win |-> ui.win, busy |-> ui.busy, todo |-> Tail(ui.todo), ssh |-> ui.ssh, mig |-> ui.mig,
                  failed |-> ui.failed, page |-> page]
    BY <1>1, <1>4 DEF Windowed, IsWindow
  <2> QED
    BY <1>3, <2>1, WindowGoesOn DEF Windowed
<1>6. Fits(page)'
  BY <1>1, <1>2, <1>4, FitsStays DEF PollTold
<1>7. Logged'
  BY <1>1, <1>5, <1>6, LogStays DEF Logged, Fits
<1>8. /\ DOMAIN asking' = Client /\ asking'["poll"] = "none" /\ reply'["poll"] = NoOp
      /\ reply'["notify"] = reply["notify"] /\ UNCHANGED <<line, ipc>>
  BY <1>1, <1>2 DEF Hear, Trips, Replies, Client
<1>9. Requested'
  BY <1>1, <1>2, <1>8 DEF Requested, Asks, Cursor
<1>10. Trips'
  BY <1>2, <1>3, <1>8 DEF Trips, PollsInLine, PollServed, Polling
<1>11. Polled' /\ PollTold' /\ NotifyTold'
  BY <1>1, <1>2, <1>5, <1>8, NotifyToldStays DEF Polled, PollTold
<1> QED
  BY <1>1, <1>5, <1>7, <1>9, <1>10, <1>11, ReadingStays DEF LinuxFeeds

\* A step of the polling worker
LEMMA PollFeeds ==
  ASSUME LinuxFeeds, Logged, Examined, Windowed, Grown, Guarded, scene \in Scene, Poll
  PROVE  LinuxFeeds' /\ Logged' /\ Examined' /\ Windowed'
<1>c. "poll" \in Client
  BY DEF Client
<1>g. Lines /\ Serving /\ Replies /\ Requested /\ Trips /\ Polled
  BY DEF Guarded, LinuxFeeds
<1>n. UNCHANGED notifier /\ Examined'
  <2>1. UNCHANGED notifier
    BY DEF Poll, PollStarts, PollAsks, PollHears, PollLists, PollTimesOut, PollApplies
  <2> QED
    BY <2>1, ReadingStays
<1>p. ASSUME UNCHANGED log, ui'.page = ui.page PROVE Logged'
  <2>1. PICK page : page = ui.page
    OBVIOUS
  <2>2. Fits(page)'
    BY <1>p, <2>1, FitsStays DEF Logged
  <2> QED
    BY <1>p, <2>1, <2>2, LogStays DEF Logged, Fits
<1>1. CASE PollStarts
  <2>1. ~ui.busy /\ UNCHANGED <<wire, log>> /\ UNCHANGED <<asking, reply>>
    BY <1>1 DEF PollStarts, wire
  <2>2. asking["poll"] = "none"
    BY <1>g, <2>1 DEF Polled
  <2>3. Windowed' /\ ui'.page = <<>> /\ Polled'
    BY <1>1, <2>1, <2>2, PollBegins DEF Polled
  <2>4. Logged'
    BY <2>1, <2>3, LogStays DEF Logged, Fits
  <2> QED
    BY <1>n, <2>1, <2>2, <2>3, <2>4, UnaskedFeeds
<1>2. CASE PollAsks
  <2>1. /\ Ask("poll", "events", Cursor) /\ UNCHANGED <<ui, log>>
        /\ asking["poll"] = "none" /\ ui.todo # <<>> /\ Head(ui.todo) = "events"
    BY <1>2 DEF PollAsks, desk, Cursor
  <2> QED
    BY <1>c, <1>g, <1>n, <2>1, AskFeeds, DeskStays DEF Feed
<1>3. CASE PollHears
  BY <1>3, <1>g, PollHearsFeeds
<1>4. CASE PollLists
  <2>1. /\ ui.todo # <<>> /\ Head(ui.todo) \in {"ssh", "mig"} /\ UNCHANGED <<wire, log>> /\ UNCHANGED <<asking, reply>>
        /\ \/ ui' = [ui EXCEPT !.todo = Tail(@), !.ssh = pending \ Migrations]
           \/ ui' = [ui EXCEPT !.todo = Tail(@), !.mig = Migrations]
    BY <1>4 DEF PollLists, wire
  <2>2. asking["poll"] = "none" /\ ui.win /\ ui.busy
    BY <1>g, <2>1 DEF Polled
  <2>3. \E ssh, mig : ui' = [win |-> ui.win, busy |-> ui.busy, todo |-> Tail(ui.todo), ssh |-> ssh, mig |-> mig,
                                failed |-> ui.failed, page |-> ui.page]
    <3>1. CASE ui' = [ui EXCEPT !.todo = Tail(@), !.ssh = pending \ Migrations]
      <4>1. ui' = [win |-> ui.win, busy |-> ui.busy, todo |-> Tail(ui.todo), ssh |-> pending \ Migrations, mig |-> ui.mig,
                    failed |-> ui.failed, page |-> ui.page]
        BY <3>1 DEF Windowed, IsWindow
      <4> QED
        BY <4>1
    <3>2. CASE ui' = [ui EXCEPT !.todo = Tail(@), !.mig = Migrations]
      <4>1. ui' = [win |-> ui.win, busy |-> ui.busy, todo |-> Tail(ui.todo), ssh |-> ui.ssh, mig |-> Migrations,
                    failed |-> ui.failed, page |-> ui.page]
        BY <3>2 DEF Windowed, IsWindow
      <4> QED
        BY <4>1
    <3> QED
      BY <2>1, <3>1, <3>2
  <2>4. Windowed' /\ ui'.page = ui.page /\ ui'.win /\ ui'.busy
    BY <2>1, <2>2, <2>3, WindowGoesOn DEF Windowed
  <2>5. Polled'
    BY <2>1, <2>2, <2>4 DEF Polled
  <2> QED
    BY <1>n, <1>p, <2>1, <2>2, <2>4, <2>5, UnaskedFeeds
<1>5. CASE PollTimesOut
  <2>1. /\ ui.todo # <<>> /\ Close({"poll"}) /\ UNCHANGED log
        /\ ui' = [ui EXCEPT !.todo = Tail(@), !.failed = @ \union {Head(ui.todo)}]
    BY <1>5 DEF PollTimesOut
  <2>2. ui.win /\ ui.busy
    BY <1>g, <2>1 DEF Polled
  <2>3. ui' = [win |-> ui.win, busy |-> ui.busy, todo |-> Tail(ui.todo), ssh |-> ui.ssh, mig |-> ui.mig,
                  failed |-> ui.failed \union {Head(ui.todo)}, page |-> ui.page]
    BY <2>1 DEF Windowed, IsWindow
  <2>4. Windowed' /\ ui'.page = ui.page /\ ui'.win /\ ui'.busy
    BY <2>1, <2>2, <2>3, WindowGoesOn DEF Windowed
  <2>5. LinuxFeeds'
    BY <1>g, <1>n, <2>1, <2>4, ClosePollFeeds
  <2> QED
    BY <1>n, <1>p, <2>1, <2>4, <2>5
<1>6. CASE PollApplies
  <2>1. /\ ui.busy /\ ui.todo = <<>> /\ UNCHANGED wire /\ UNCHANGED <<asking, reply>>
        /\ CloseWindow \/ (log' = ui.page \o log /\ ui' = [NoWindow EXCEPT !.win = TRUE])
    BY <1>6 DEF PollApplies, wire
  <2>2. asking["poll"] = "none"
    BY <1>g, <2>1 DEF Polled
  <2>3. CASE CloseWindow
    <3>1. Logged' /\ Windowed' /\ ui'.todo = <<>>
      BY <2>3, ClosedWindow
    <3>2. Polled'
      BY <2>1, <2>2, <3>1 DEF Polled
    <3> QED
      BY <1>n, <2>1, <2>2, <3>1, <3>2, UnaskedFeeds
  <2>4. CASE log' = ui.page \o log /\ ui' = [NoWindow EXCEPT !.win = TRUE]
    <3>1. Windowed' /\ ui'.page = <<>> /\ ui'.todo = <<>>
      BY <2>4, NewWindow DEF Windowed
    <3>2. Polled'
      BY <2>1, <2>2, <3>1 DEF Polled
    <3>3. Logged'
      BY <2>4, <3>1, PageJoins
    <3> QED
      BY <1>n, <2>1, <2>2, <3>1, <3>2, <3>3, UnaskedFeeds
  <2> QED
    BY <2>1, <2>3, <2>4
<1> QED
  BY <1>1, <1>2, <1>3, <1>4, <1>5, <1>6 DEF Poll

\* A prompt is answered.
LEMMA ResolveFeeds ==
  ASSUME LinuxFeeds, Logged, Examined, Windowed, Grown, Guarded, Resolve \/ ClickAllow \/ ClickBlock
  PROVE  LinuxFeeds' /\ Logged' /\ Examined' /\ Windowed'
<1>c. "resolve" \in Client \ Feed
  BY DEF Client, Feed
<1>1. CASE ResolveFails
  <2>1. Hear("resolve") /\ UNCHANGED <<ui, log, notifier>>
    BY <1>1 DEF ResolveFails
  <2> QED
    BY <1>c, <2>1, OtherStep
<1>2. CASE ClickAllow \/ ClickBlock
  <2>1. UNCHANGED <<ui, log, notifier>> /\ \E op, about : Ask("resolve", op, about) /\ op # "events"
    BY <1>2 DEF ClickAllow, ClickBlock, Click
  <2> QED
    BY <1>c, <2>1, OtherStep
<1>3. CASE ResolveCompletes
  <2>1. /\ UNCHANGED notifier
        /\ \/ CloseWindow /\ Close({"resolve", "poll"})
           \/ Hear("resolve") /\ UNCHANGED <<ui, log>>
    BY <1>3 DEF ResolveCompletes
  <2>2. CASE CloseWindow /\ Close({"resolve", "poll"})
    <3>1. Logged' /\ Windowed' /\ ui'.todo = <<>>
      BY <2>2, ClosedWindow
    <3>2. LinuxFeeds'
      BY <2>1, <2>2, <3>1, ClosePollFeeds DEF Guarded
    <3> QED
      BY <2>1, <3>1, <3>2, ReadingStays
  <2>3. CASE Hear("resolve") /\ UNCHANGED <<ui, log>>
    BY <1>c, <2>1, <2>3, OtherStep
  <2> QED
    BY <2>1, <2>2, <2>3
<1> QED
  BY <1>1, <1>2, <1>3 DEF Resolve

\* PENDING_ACTIVATION_RETRY_DELAY passes.
LEMMA DelayFeeds ==
  ASSUME LinuxFeeds, Logged, Examined, Windowed, Grown, NEW r, Delay(r)
  PROVE  LinuxFeeds' /\ Logged' /\ Examined' /\ Windowed'
<1>1. UNCHANGED <<wire, ui, log>> /\ notifier' = [notifier EXCEPT !.ready = @ \union {r}]
  BY DEF Delay, desk
<1>2. SameReading /\ notifier'.polled = notifier.polled
  BY <1>1 DEF SameReading, Examined
<1>3. Polled'
  BY <1>1 DEF LinuxFeeds, Polled, wire
<1> QED
  BY <1>1, <1>2, <1>3, QuietFeeds, DeskStays, ExaminedStays

\* Every step on Linux
LEMMA LinuxFeedsStep ==
  ASSUME scene \in Scene, Grown, Guarded, LinuxFeeds, Logged, Examined, Windowed, Next
  PROVE  LinuxFeeds' /\ Logged' /\ Examined' /\ Windowed'
<1>1. CASE Ipc
  BY <1>1, IpcFeeds
<1>2. CASE Write \/ \E decision \in Decision : Decide(decision)
  BY <1>2, QuietStep DEF Write, Decide, desk
<1>3. CASE Notify \/ NotifierRestarts
  BY <1>3, NotifyFeeds
<1>4. CASE \E r \in Request : Delay(r)
  BY <1>4, DelayFeeds
<1>5. CASE Poll
  BY <1>5, PollFeeds
<1>6. CASE Resolve \/ ClickAllow \/ ClickBlock
  BY <1>6, ResolveFeeds
<1>7. CASE \E l \in Load : Broker(l) \/ Fork(l) \/ ChildDies(l) \/ BrokerDies(l) \/ OrphanResumes(l)
  BY <1>7, BrokerFeeds
<1>8. CASE \E r \in Request : Arrive(r) \/ Leave(r)
  BY <1>8, QuietStep DEF Arrive, Leave, desk
<1> QED
  BY <1>1, <1>2, <1>3, <1>4, <1>5, <1>6, <1>7, <1>8 DEF Next, Environment

-----------------------------------------------------------------------------
\* The inductive invariant of the feeds.
Feeds ==
  /\ scene \in Scene /\ Audited /\ Logged /\ Examined /\ Windowed
  /\ IF scene.system = "macos" THEN MacFeeds ELSE LinuxFeeds

\* Nothing is recorded, asked or shown at the start.
LEMMA FeedsInit ==
  ASSUME DesktopInit
  PROVE  Feeds
<1>1. scene \in Scene
  BY ScenarioAssumption DEF DesktopInit, Init, Scene
<1>2. /\ channel = <<>> /\ batch = <<>> /\ committed = <<>> /\ log = <<>> /\ line = <<>> /\ ipc = Accepting
      /\ asking = [c \in Client |-> "none"] /\ reply = [c \in Client |-> NoOp]
      /\ notifier = NewNotifier /\ ui = [NoWindow EXCEPT !.win = ~scene.pendingOnly]
  BY DEF DesktopInit, Init, AuditInit
<1>3. Audited
  BY <1>2 DEF Audited
<1>4. PICK open \in BOOLEAN : open = ~scene.pendingOnly
  BY Zenon
<1>5. Windowed /\ ui.page = <<>> /\ ui.todo = <<>>
  BY <1>2, <1>4, NewWindow DEF Windowed
<1>6. Logged
  BY <1>2, <1>5, EmptyLog
<1>7. Len(committed) = 0
  BY <1>2
<1>8. Examined /\ notifier.last = None /\ notifier.polled = 0
  BY <1>2, <1>7, NewExamined DEF NewNotifier
<1>9. MacFeeds
  BY <1>2, <1>5, <1>8 DEF MacFeeds
<1>10. /\ DOMAIN asking = Client /\ asking["poll"] = "none"
       /\ reply["poll"] = NoOp /\ reply["notify"] = NoOp /\ DOMAIN line = {} /\ ipc.pc = "accept"
  BY <1>2 DEF Client, Accepting
<1>11. Requested /\ Trips /\ Polled /\ PollTold /\ NotifyTold
  BY <1>5, <1>10 DEF Requested, Trips, PollsInLine, PollServed, Polled, PollTold, NotifyTold
<1> QED
  BY <1>1, <1>3, <1>5, <1>6, <1>8, <1>9, <1>11 DEF Feeds, LinuxFeeds

\* Every step of either system keeps it.
LEMMA FeedsStep ==
  ASSUME Feeds, Guarded, [DesktopNext]_desktop
  PROVE  Feeds'
<1>1. scene' \in Scene /\ scene'.system = scene.system
  BY SceneStays DEF Feeds
<1>2. Grown /\ Audited'
  BY AuditGrows DEF Feeds, Grown
<1>3. CASE scene.system = "macos"
  BY <1>1, <1>2, <1>3, MacFeedsStep DEF Feeds
<1>4. CASE scene.system # "macos"
  <2>1. LinuxFeeds /\ scene \in Scene /\ Logged /\ Examined /\ Windowed
    BY <1>4 DEF Feeds
  <2>2. CASE UNCHANGED desktop
    <3>1. UNCHANGED <<wire, ui, log, notifier>>
      BY <2>2 DEF desktop, vars, desk
    <3> QED
      BY <1>1, <1>2, <1>4, <2>1, <3>1, QuietStep DEF Feeds
  <2>3. CASE DesktopNext
    <3>1. Next
      BY <1>4, <2>3 DEF DesktopNext, Linux, Mac, Shared
    <3> QED
      BY <1>1, <1>2, <1>4, <2>1, <3>1, LinuxFeedsStep DEF Feeds
  <2> QED
    BY <2>2, <2>3
<1> QED
  BY <1>3, <1>4

\* Between the oldest and the newest event it shows, the log shows every visible
\* one that is kept, and the notifier knows each denial since its baseline, but
\* those a full page hid from it.
THEOREM FeedsHaveNoGaps == DesktopSpec => []FeedsAreComplete
<1>1. DesktopInit => Slots /\ Guarded /\ Guests /\ Feeds
  BY SlotsInit, GuardedInit, FeedsInit DEF DesktopInit, MacInit, Guests
<1>2. Slots /\ Guarded /\ Guests /\ Feeds /\ [DesktopNext]_desktop => (Slots /\ Guarded /\ Guests /\ Feeds)'
  BY SlotsStep, DesktopGuarded, FeedsStep
<1>3. ASSUME Feeds PROVE FeedsAreComplete
  <2>1. ASSUME log # <<>>, NEW i \in Visible(Ids), i \in Min(Range(log))..Max(Range(log))
        PROVE  i \in Range(log)
    <3>1. Len(committed) \in Nat /\ i \in Nat
      BY <1>3, IdsKept DEF Feeds, Visible
    <3>2. log \in Seq(1..Len(committed)) /\ Whole(Range(log))
      BY <1>3 DEF Feeds, Logged
    <3>3. Range(log) \subseteq 1..Len(committed) /\ Range(log) # {}
      BY <2>1, <3>2, InRange, TailRange
    <3>4. Range(log) \subseteq Nat /\ Range(log) \subseteq 0..Len(committed)
      BY <3>1, <3>3
    <3>5. Min(Range(log)) \in Range(log) /\ Max(Range(log)) \in Range(log)
      BY <3>1, <3>3, <3>4, MinIn, MaxIn
    <3>6. Min(Range(log)) <= i /\ i <= Max(Range(log))
      BY <2>1, <3>4, <3>5
    <3> QED
      BY <3>2, <3>5, <3>6 DEF Whole
  <2> QED
    BY <1>3, <2>1 DEF FeedsAreComplete, Feeds, Examined
<1> QED
  BY <1>1, <1>2, <1>3, PTL DEF DesktopSpec
=============================================================================
