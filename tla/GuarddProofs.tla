---------------------------- MODULE GuarddProofs ----------------------------
(***************************************************************************)
(* The Linux daemon keeps its promises for every machine: any processes,   *)
(* files, users, clients and limits.                                       *)
(*                                                                         *)
(* Custody says who owns which permission.  The sets of hands name what    *)
(* the kernel's queue, the two threads and the two stores have; the state  *)
(* of a permission says which of them it is in, and every action moves     *)
(* permissions from one hand to another or answers them.                   *)
(*                                                                         *)
(* The inductive invariant is Custody with the types of everything the     *)
(* daemon keeps: an identity it has resolved is one of the pid it was      *)
(* resolved from, and what a prompt is about is of the kind of the file.   *)
(***************************************************************************)
EXTENDS Guardd, CollectionLemmas, FiniteSetTheorems

\* The hands a permission can be in.
Unread     == Range(queue)
Batch      == Range(main.batch)
Recent     == IF main.pc = "recent" THEN {Event} ELSE {}
MigPerms   == PermsOf(migRequests)
SshPerms   == PermsOf(sshRequests)
Taking     == IF "perms" \in DOMAIN ipc THEN ipc.perms ELSE {}
Swept      == IF "siblings" \in DOMAIN ipc THEN ipc.siblings ELSE {}
SweptPerms == PermsOf(Swept)

WithBatch == {"decide", "details", "enqueue", "recent"}

\* What a thread has depends on where it is.
MainShape ==
  /\ DOMAIN main = {"pc", "batch", "about"}
  /\ main.pc \in {"expireMigrations", "expireReads", "read"} \union WithBatch
  /\ main.batch \in Seq(Perm) /\ queue \in Seq(Perm)
  /\ main.pc \in WithBatch <=> main.batch # <<>>
  /\ IsInjective(queue) /\ IsInjective(main.batch)

IpcShape ==
  /\ ipc.pc \in {"idle", "authenticate", "take", "deny", "approve", "record", "allow",
                 "siblings", "grant", "deliver"}
  /\ "pc" \in DOMAIN ipc
  /\ "perms" \in DOMAIN ipc <=> ipc.pc \in {"deny", "approve", "record", "allow"}
  /\ "siblings" \in DOMAIN ipc <=> ipc.pc \in {"allow", "siblings"}

RequestShape ==
  \A r \in migRequests \union sshRequests \union Swept :
    DOMAIN r = {"id", "details", "perms", "expires"}

\* The state of a permission says in whose hands it is.
StatesOK ==
  /\ DOMAIN ask = Perm
  /\ perm \in [Perm -> Mig!PermState]
  /\ \A p \in Perm :
       /\ ask[p] = None => perm[p] = "free"
       /\ perm[p] = "free" /\ ask[p] # None <=> p \in Unread \union (Batch \ Recent)
       /\ perm[p] = "held" <=> p \in MigPerms \union SshPerms
       /\ perm[p] = "taken" <=> p \in Recent \union Taking \union SweptPerms

\* Two hands never have the same permission.
HandsApart ==
  /\ Unread \cap Batch = {} /\ MigPerms \cap SshPerms = {}
  /\ Taking \cap SweptPerms = {} /\ Recent \cap (Taking \union SweptPerms) = {}
  /\ MigPerms \union SshPerms \union Taking \union SweptPerms \subseteq Perm
  /\ Apart(migRequests) /\ Apart(sshRequests) /\ Apart(Swept)

Custody == MainShape /\ IpcShape /\ RequestShape /\ StatesOK /\ HandsApart

-----------------------------------------------------------------------------
\* Answering permissions, or taking them from one hand to the next.
LEMMA MarkedPerm ==
  ASSUME perm \in [Perm -> Mig!PermState], NEW P, NEW s \in Mig!PermState,
         perm' = Mig!Marked(P, s)
  PROVE  /\ perm' \in [Perm -> Mig!PermState]
         /\ \A p \in Perm : p \in P => perm'[p] = s
         /\ \A p \in Perm : p \notin P => perm'[p] = perm[p]
BY DEF Mig!Marked

-----------------------------------------------------------------------------
(***************************************************************************)
(* What a call of a store does to who owns what.                           *)
(***************************************************************************)
\* enqueue answers the permission, hands it back or lets a request have it.
LEMMA MigEnqueues ==
  ASSUME Custody, NEW p \in Perm, p \notin MigPerms, NEW d, Mig!Enqueue(p, d)
  PROVE  \/ UNCHANGED migRequests /\ \E s \in {"denied", "taken"} : perm' = Mig!Marked({p}, s)
         \/ /\ perm' = Mig!Marked({p}, "held")
            /\ MigPerms' = MigPerms \union {p} /\ Apart(migRequests')
            /\ \A r \in migRequests' : DOMAIN r = {"id", "details", "perms", "expires"}
<1>1. CASE \/ Mig!DenySuppressed(p, d) \/ Mig!DenyFullRequest(p, d) \/ Mig!DenyFullStore(p, d)
           \/ Mig!ReturnRecentlyApproved(p, d)
  BY <1>1 DEF Mig!DenySuppressed, Mig!DenyFullRequest, Mig!DenyFullStore, Mig!ReturnRecentlyApproved
<1>2. CASE Mig!JoinRequest(p, d)
  <2>1. PICK r \in migRequests : migRequests' = (migRequests \ {r}) \union {[r EXCEPT !.perms = @ \union {p}]}
    BY <1>2 DEF Mig!JoinRequest, Mig!Pending
  <2> DEFINE n == [r EXCEPT !.perms = @ \union {p}]
  <2>2. n.perms = r.perms \union {p} /\ DOMAIN n = {"id", "details", "perms", "expires"}
    BY DEF Custody, RequestShape
  <2> HIDE DEF n
  <2>3. migRequests' = (migRequests \ {r}) \union {n}
    BY <2>1 DEF n
  <2>4. MigPerms' = MigPerms \union {p} /\ Apart(migRequests')
    BY <2>2, <2>3, JoinApart DEF MigPerms, Custody, HandsApart
  <2> QED
    BY <1>2, <2>2, <2>3, <2>4 DEF Mig!JoinRequest, Custody, RequestShape
<1>3. CASE Mig!CreateRequest(p, d)
  <2> DEFINE n == [id |-> migNextId + 1, details |-> d, perms |-> {p},
                   expires |-> Mig!SatAdd(now, Timeout)]
  <2>1. n.perms = {p} /\ DOMAIN n = {"id", "details", "perms", "expires"}
    OBVIOUS
  <2>2. migRequests' = migRequests \union {n}
    BY <1>3 DEF Mig!CreateRequest
  <2> HIDE DEF n
  <2>3. MigPerms' = MigPerms \union {p} /\ Apart(migRequests')
    BY <2>1, <2>2, AddApart DEF MigPerms, Custody, HandsApart
  <2> QED
    BY <1>3, <2>1, <2>2, <2>3 DEF Mig!CreateRequest, Custody, RequestShape
<1> QED
  BY <1>1, <1>2, <1>3 DEF Mig!Enqueue

LEMMA SshEnqueues ==
  ASSUME Custody, NEW p \in Perm, p \notin SshPerms, NEW d \in SshDetailsSet, Ssh!Enqueue(p, d)
  PROVE  \/ UNCHANGED sshRequests /\ perm' = Mig!Marked({p}, "denied")
         \/ /\ perm' = Mig!Marked({p}, "held")
            /\ SshPerms' = SshPerms \union {p} /\ Apart(sshRequests')
            /\ \A r \in sshRequests' : DOMAIN r = {"id", "details", "perms", "expires"}
<1>1. CASE Ssh!DenySuppressed(p, d) \/ Ssh!DenyFullRequest(p, d) \/ Ssh!DenyFullStore(p, d)
  BY <1>1 DEF Ssh!DenySuppressed, Ssh!DenyFullRequest, Ssh!DenyFullStore, Mig!Marked, Ssh!Marked
<1>4. ~Ssh!ReturnRecentlyApproved(p, d)
  BY DEF Ssh!ReturnRecentlyApproved, Ssh!RecentlyApproved, Ssh!Cleanup
<1>2. CASE Ssh!JoinRequest(p, d)
  <2>1. PICK r \in sshRequests : sshRequests' = (sshRequests \ {r}) \union {[r EXCEPT !.perms = @ \union {p}]}
    BY <1>2 DEF Ssh!JoinRequest, Ssh!Pending
  <2> DEFINE n == [r EXCEPT !.perms = @ \union {p}]
  <2>2. n.perms = r.perms \union {p} /\ DOMAIN n = {"id", "details", "perms", "expires"}
    BY DEF Custody, RequestShape
  <2> HIDE DEF n
  <2>3. sshRequests' = (sshRequests \ {r}) \union {n}
    BY <2>1 DEF n
  <2>4. SshPerms' = SshPerms \union {p} /\ Apart(sshRequests')
    BY <2>2, <2>3, JoinApart DEF SshPerms, Custody, HandsApart
  <2> QED
    BY <1>2, <2>2, <2>3, <2>4 DEF Ssh!JoinRequest, Custody, RequestShape, Mig!Marked, Ssh!Marked
<1>3. CASE Ssh!CreateRequest(p, d)
  <2> DEFINE n == [id |-> sshNextId + 1, details |-> d, perms |-> {p},
                   expires |-> Ssh!SatAdd(now, Timeout)]
  <2>1. n.perms = {p} /\ DOMAIN n = {"id", "details", "perms", "expires"}
    OBVIOUS
  <2>2. sshRequests' = sshRequests \union {n}
    BY <1>3 DEF Ssh!CreateRequest
  <2> HIDE DEF n
  <2>3. SshPerms' = SshPerms \union {p} /\ Apart(sshRequests')
    BY <2>1, <2>2, AddApart DEF SshPerms, Custody, HandsApart
  <2> QED
    BY <1>3, <2>1, <2>2, <2>3 DEF Ssh!CreateRequest, Custody, RequestShape, Mig!Marked, Ssh!Marked
<1> QED
  BY <1>1, <1>2, <1>3, <1>4 DEF Ssh!Enqueue

-----------------------------------------------------------------------------
(***************************************************************************)
(* Every action keeps custody.                                             *)
(***************************************************************************)
LEMMA InitCustody == Init => Custody
<1> SUFFICES ASSUME Init PROVE Custody
  OBVIOUS
<1>1. /\ Unread = {} /\ Batch = {} /\ Recent = {} /\ MigPerms = {} /\ SshPerms = {}
      /\ Taking = {} /\ Swept = {} /\ SweptPerms = {}
  BY EmptyRange DEF Init, Unread, Batch, Recent, MigPerms, SshPerms, Taking, Swept, SweptPerms,
     PermsOf, Idle
<1>2. MainShape /\ IpcShape /\ RequestShape
  BY <1>1, EmptyRange DEF Init, MainShape, IpcShape, RequestShape, Idle, WithBatch
<1>3. StatesOK
  BY <1>1 DEF Init, StatesOK, Mig!PermState
<1>4. HandsApart
  BY <1>1 DEF Init, HandsApart, Apart
<1> QED
  BY <1>2, <1>3, <1>4 DEF Custody

\* A step in which nobody passes a permission on: the thread may go elsewhere.
LEMMA StillKeeps ==
  ASSUME Custody, MainShape', IpcShape', UNCHANGED <<ask, perm, queue, main.batch, migRequests, sshRequests>>,
         Recent' = Recent, Taking' = Taking, Swept' = Swept
  PROVE  Custody'
<1>1. /\ Unread' = Unread /\ Batch' = Batch /\ MigPerms' = MigPerms /\ SshPerms' = SshPerms
      /\ SweptPerms' = SweptPerms
  BY DEF Unread, Batch, MigPerms, SshPerms, SweptPerms
<1>2. RequestShape' /\ StatesOK' /\ HandsApart'
  BY <1>1 DEF Custody, RequestShape, StatesOK, HandsApart
<1> QED
  BY <1>2 DEF Custody

\* Processes come, change and go, time passes, and the main loop panics.
LEMMA WorldKeeps ==
  ASSUME Custody, UNCHANGED <<ask, perm, queue, main, ipc, migRequests, sshRequests>>
  PROVE  Custody'
<1>1. Recent' = Recent /\ Taking' = Taking /\ Swept' = Swept
  BY DEF Recent, Event, Taking, Swept
<1>2. MainShape' /\ IpcShape'
  BY DEF Custody, MainShape, IpcShape
<1> QED
  BY <1>1, <1>2, StillKeeps

\* The main loop goes on with the event it has, but not to a recent approval.
LEMMA MainGoesOn ==
  ASSUME Custody, NEW pc, UNCHANGED <<ask, perm, queue, ipc, migRequests, sshRequests>>,
         main' = [main EXCEPT !.pc = pc] \/ \E x : main' = [main EXCEPT !.pc = pc, !.about = x],
         pc \in {"expireMigrations", "expireReads", "read", "decide", "details", "enqueue"},
         main.pc # "recent", pc \in WithBatch <=> main.pc \in WithBatch
  PROVE  Custody'
<1>1. main'.pc = pc /\ main'.batch = main.batch /\ DOMAIN main' = DOMAIN main
  BY DEF Custody, MainShape
<1>2. Recent' = Recent /\ Taking' = Taking /\ Swept' = Swept
  BY <1>1 DEF Recent, Event, Taking, Swept
<1>3. MainShape'
  <2>1. /\ main'.pc \in {"expireMigrations", "expireReads", "read"} \union WithBatch
        /\ main'.pc \in WithBatch <=> main'.batch # <<>>
    BY <1>1 DEF Custody, MainShape, WithBatch
  <2> QED
    BY <1>1, <2>1 DEF Custody, MainShape
<1>4. IpcShape'
  BY DEF Custody, IpcShape
<1> QED
  BY <1>1, <1>2, <1>3, <1>4, StillKeeps

\* The IPC thread goes on with the permissions it has.
LEMMA IpcGoesOn ==
  ASSUME Custody, UNCHANGED <<ask, perm, queue, main, migRequests, sshRequests>>,
         IpcShape', Taking' = Taking, Swept' = Swept
  PROVE  Custody'
<1>1. Recent' = Recent /\ MainShape'
  BY DEF Recent, Event, Custody, MainShape
<1> QED
  BY <1>1, StillKeeps

-----------------------------------------------------------------------------
(***************************************************************************)
(* The processes and the main loop.                                        *)
(***************************************************************************)
\* The shapes, when the main loop does not move.
LEMMA ShapesStay ==
  ASSUME Custody
  PROVE  /\ UNCHANGED <<main, queue>> => MainShape'
         /\ UNCHANGED ipc => IpcShape' /\ Taking' = Taking /\ Swept' = Swept
         /\ UNCHANGED <<main, queue>> => Unread' = Unread /\ Batch' = Batch /\ Recent' = Recent
<1>1. UNCHANGED <<main, queue>> => MainShape'
  BY DEF Custody, MainShape
<1>2. UNCHANGED ipc => IpcShape'
  BY DEF Custody, IpcShape
<1> QED
  BY <1>1, <1>2 DEF Taking, Swept, Unread, Batch, Recent, Event

\* The kernel queues an open.
LEMMA OpenKeeps ==
  ASSUME Custody, NEW p \in Perm, NEW a \in Opens, Open(p, a), scenario \in Scenario
  PROVE  Custody'
<1>1. /\ ask[p] = None /\ ask' = [ask EXCEPT ![p] = a] /\ queue' = Append(queue, p)
      /\ UNCHANGED <<perm, main, ipc, migRequests, sshRequests>>
  BY DEF Open, daemon, migStore, sshStore
<1>2. a # None
  BY GuarddAssumption DEF Opens
<1>3. /\ perm[p] = "free" /\ p \notin Unread \union (Batch \ Recent) /\ p \notin Batch
      /\ p \notin MigPerms \union SshPerms \union Recent \union Taking \union SweptPerms
  BY <1>1 DEF Custody, StatesOK
<1>4. Unread' = Unread \union {p} /\ IsInjective(queue') /\ queue' \in Seq(Perm)
  BY <1>1, <1>3, AppendRange, AppendOnce DEF Custody, MainShape, Unread
<1>5. /\ Batch' = Batch /\ Recent' = Recent /\ MigPerms' = MigPerms /\ SshPerms' = SshPerms
      /\ Taking' = Taking /\ Swept' = Swept /\ SweptPerms' = SweptPerms
  BY <1>1 DEF Batch, Recent, Event, MigPerms, SshPerms, Taking, Swept, SweptPerms
<1>6. MainShape' /\ IpcShape' /\ RequestShape'
  <2>1. MainShape'
    BY <1>1, <1>4 DEF Custody, MainShape
  <2>2. IpcShape' /\ RequestShape'
    BY <1>1, <1>5 DEF Custody, IpcShape, RequestShape
  <2> QED
    BY <2>1, <2>2
<1>7. StatesOK'
  <2>1. DOMAIN ask' = Perm /\ ask'[p] = a /\ \A q \in Perm : q # p => ask'[q] = ask[q]
    BY <1>1 DEF Custody, StatesOK
  <2> QED
    BY <1>1, <1>2, <1>3, <1>4, <1>5, <2>1 DEF Custody, StatesOK
<1>8. HandsApart'
  BY <1>1, <1>3, <1>4, <1>5 DEF Custody, HandsApart
<1> QED
  BY <1>6, <1>7, <1>8 DEF Custody

\* The expired requests of one of the stores are denied.
LEMMA MainExpireMigrationsKeeps == Custody /\ MainExpireMigrations => Custody'
<1> SUFFICES ASSUME Custody, MainExpireMigrations PROVE Custody'
  OBVIOUS
<1>1. PICK S \in SUBSET migRequests :
        migRequests' = migRequests \ S /\ perm' = Mig!Marked(PermsOf(S), "denied")
  <2> DEFINE S == {r \in migRequests : MigKeyOf[r.details] \notin {k \in MigKey : Alive(k.root)}
                                      \/ now >= r.expires}
  <2>1. migRequests' = migRequests \ S /\ perm' = Mig!Marked(PermsOf(S), "denied")
    BY DEF MainExpireMigrations, Mig!Expire, Mig!Remove, Mig!Marked, Mig!Marked, PermsOf
  <2> QED
    BY <2>1
<1>2. /\ main.pc \notin WithBatch /\ main' = [main EXCEPT !.pc = "expireReads"]
      /\ UNCHANGED <<ask, queue, ipc, sshRequests>>
  BY DEF MainExpireMigrations, MainAt, Goto, outside, migStore, sshStore, WithBatch
<1>3. /\ MigPerms' = MigPerms \ PermsOf(S) /\ PermsOf(S) \subseteq MigPerms
      /\ Apart(migRequests')
  BY <1>1, RemoveApart DEF MigPerms, Custody, HandsApart
<1>4. main'.pc = "expireReads" /\ main'.batch = main.batch /\ DOMAIN main' = DOMAIN main
  BY <1>2 DEF Custody, MainShape
<1>5. /\ Unread' = Unread /\ Batch' = Batch /\ Recent' = Recent /\ SshPerms' = SshPerms
      /\ Taking' = Taking /\ Swept' = Swept /\ SweptPerms' = SweptPerms
  BY <1>2, <1>4 DEF Unread, Batch, Recent, MigPerms, SshPerms, Taking, Swept, SweptPerms, WithBatch
<1>6. MainShape' /\ IpcShape'
  <2>1. MainShape'
    BY <1>2, <1>4 DEF Custody, MainShape, WithBatch
  <2> QED
    BY <2>1, <1>2, ShapesStay
<1>7. RequestShape'
  BY <1>1, <1>2, <1>5 DEF Custody, RequestShape
<1>8. StatesOK'
  BY <1>1, <1>2, <1>3, <1>5, MarkedPerm DEF Custody, StatesOK, HandsApart, Mig!PermState
<1>9. HandsApart'
  BY <1>2, <1>3, <1>5 DEF Custody, HandsApart
<1> QED
  BY <1>6, <1>7, <1>8, <1>9 DEF Custody

\* The same in the other store.
LEMMA MainExpireReadsKeeps == Custody /\ MainExpireReads => Custody'
<1> SUFFICES ASSUME Custody, MainExpireReads PROVE Custody'
  OBVIOUS
<1>1. PICK S \in SUBSET sshRequests :
        sshRequests' = sshRequests \ S /\ perm' = Mig!Marked(PermsOf(S), "denied")
  <2> DEFINE S == {r \in sshRequests : SshKeyOf[r.details] \notin {k \in SshKey : Alive(k.root)}
                                      \/ now >= r.expires}
  <2>1. sshRequests' = sshRequests \ S /\ perm' = Mig!Marked(PermsOf(S), "denied")
    BY DEF MainExpireReads, Ssh!Expire, Ssh!Remove, Ssh!Marked, Mig!Marked, PermsOf
  <2> QED
    BY <2>1
<1>2. /\ main.pc \notin WithBatch /\ main' = [main EXCEPT !.pc = "read"]
      /\ UNCHANGED <<ask, queue, ipc, migRequests>>
  BY DEF MainExpireReads, MainAt, Goto, outside, migStore, sshStore, WithBatch
<1>3. /\ SshPerms' = SshPerms \ PermsOf(S) /\ PermsOf(S) \subseteq SshPerms
      /\ Apart(sshRequests')
  BY <1>1, RemoveApart DEF SshPerms, Custody, HandsApart
<1>4. main'.pc = "read" /\ main'.batch = main.batch /\ DOMAIN main' = DOMAIN main
  BY <1>2 DEF Custody, MainShape
<1>5. /\ Unread' = Unread /\ Batch' = Batch /\ Recent' = Recent /\ MigPerms' = MigPerms
      /\ Taking' = Taking /\ Swept' = Swept /\ SweptPerms' = SweptPerms
  BY <1>2, <1>4 DEF Unread, Batch, Recent, MigPerms, SshPerms, Taking, Swept, SweptPerms, WithBatch
<1>6. MainShape' /\ IpcShape'
  <2>1. MainShape'
    BY <1>2, <1>4 DEF Custody, MainShape, WithBatch
  <2> QED
    BY <2>1, <1>2, ShapesStay
<1>7. RequestShape'
  BY <1>1, <1>2, <1>5 DEF Custody, RequestShape
<1>8. StatesOK'
  BY <1>1, <1>2, <1>3, <1>5, MarkedPerm DEF Custody, StatesOK, HandsApart, Mig!PermState
<1>9. HandsApart'
  BY <1>2, <1>3, <1>5 DEF Custody, HandsApart
<1> QED
  BY <1>6, <1>7, <1>8, <1>9 DEF Custody

\* The main loop reads what the kernel has queued.
LEMMA MainReadKeeps == Custody /\ MainRead => Custody'
<1> SUFFICES ASSUME Custody, MainRead PROVE Custody'
  OBVIOUS
<1>1. /\ main.pc = "read" /\ main.batch = <<>>
      /\ UNCHANGED <<ask, perm, ipc, migRequests, sshRequests>>
  BY DEF MainRead, MainAt, outside, migStore, sshStore, Custody, MainShape, WithBatch
<1>2. CASE queue = <<>>
  BY <1>1, <1>2, MainGoesOn DEF MainRead, Goto, WithBatch
<1>3. CASE queue # <<>>
  <2>1. main' = [main EXCEPT !.pc = "decide", !.batch = queue] /\ queue' = <<>>
    BY <1>3 DEF MainRead
  <2>2. main'.pc = "decide" /\ main'.batch = queue /\ DOMAIN main' = DOMAIN main
    BY <2>1 DEF Custody, MainShape
  <2>3. /\ Unread' = {} /\ Batch = {} /\ Batch' = Unread /\ Recent = {} /\ Recent' = {}
        /\ MigPerms' = MigPerms /\ SshPerms' = SshPerms
        /\ Taking' = Taking /\ Swept' = Swept /\ SweptPerms' = SweptPerms
    BY <1>1, <2>1, <2>2, EmptyRange DEF Unread, Batch, Recent, MigPerms, SshPerms, Taking, Swept,
       SweptPerms
  <2>4. MainShape'
    BY <1>3, <2>1, <2>2, EmptyRange DEF Custody, MainShape, WithBatch
  <2>5. IpcShape' /\ RequestShape'
    BY <1>1, <2>3, ShapesStay DEF Custody, RequestShape
  <2>6. StatesOK' /\ HandsApart'
    BY <1>1, <2>3 DEF Custody, StatesOK, HandsApart
  <2> QED
    BY <2>4, <2>5, <2>6 DEF Custody
<1> QED
  BY <1>2, <1>3

\* What the next event of the batch is about.
LEMMA AtEvent ==
  ASSUME Custody, main.pc \in WithBatch
  PROVE  /\ Event \in Perm /\ Event \in Batch /\ Event \notin Unread
         /\ Recent \subseteq {Event} /\ perm[Event] = (IF main.pc = "recent" THEN "taken" ELSE "free")
         /\ Event \notin MigPerms \union SshPerms \union Taking \union SweptPerms
         /\ main.batch # <<>> /\ ask[Event] # None
<1>1. main.batch # <<>> /\ main.batch \in Seq(Perm)
  BY DEF Custody, MainShape
<1>2. Event \in Perm /\ Event \in Batch
  BY <1>1, TailRange DEF Event, Batch
<1>3. Event \notin Unread /\ Recent \subseteq {Event}
  BY <1>2 DEF Custody, HandsApart, Recent
<1>4. CASE main.pc = "recent"
  BY <1>1, <1>2, <1>3, <1>4 DEF Custody, StatesOK, HandsApart, Recent
<1>5. CASE main.pc # "recent"
  BY <1>1, <1>2, <1>3, <1>5 DEF Custody, StatesOK, HandsApart, Recent
<1> QED
  BY <1>4, <1>5, <1>1, <1>2, <1>3

\* The batch without the event that is dealt with.
LEMMA NextBatch ==
  ASSUME Custody, main.pc \in WithBatch, NextEvent
  PROVE  /\ Batch = {Event} \union Batch' /\ Event \notin Batch' /\ Recent' = {}
         /\ UNCHANGED queue => MainShape'
<1>1. main.batch # <<>> /\ main.batch \in Seq(Perm) /\ IsInjective(main.batch)
  BY DEF Custody, MainShape
<1>2. /\ DOMAIN main' = {"pc", "batch", "about"} /\ main'.batch = Tail(main.batch)
      /\ main'.pc = IF Len(main.batch) = 1 THEN "expireMigrations" ELSE "decide"
  BY DEF NextEvent
<1>3. Batch = {Event} \union Batch' /\ Event \notin Batch'
  BY <1>1, <1>2, TailRange, TailOnce DEF Batch, Event
<1>4. Recent' = {}
  BY <1>2 DEF Recent
<1>5. Tail(main.batch) \in Seq(Perm) /\ IsInjective(Tail(main.batch))
  BY <1>1, TailRange, TailOnce
<1>6. Len(main.batch) = 1 <=> Tail(main.batch) = <<>>
  BY <1>1, TailEmpty
<1>7. UNCHANGED queue => MainShape'
  BY <1>2, <1>5, <1>6 DEF Custody, MainShape, WithBatch
<1> QED
  BY <1>3, <1>4, <1>7

\* The main loop answers its event and takes the next.
LEMMA FinishKeeps ==
  ASSUME Custody, main.pc \in WithBatch, NEW v \in {"allowed", "denied"}, Finish(v),
         UNCHANGED <<ask, queue, ipc, migRequests, sshRequests>>
  PROVE  Custody'
<1>1. perm' = Mig!Marked({Event}, v) /\ NextEvent
  BY DEF Finish, Answer
<1>2. /\ Batch = {Event} \union Batch' /\ Event \notin Batch' /\ Recent' = {} /\ MainShape'
  BY <1>1, NextBatch
<1>3. /\ Unread' = Unread /\ MigPerms' = MigPerms /\ SshPerms' = SshPerms
      /\ Taking' = Taking /\ Swept' = Swept /\ SweptPerms' = SweptPerms
  BY DEF Unread, MigPerms, SshPerms, Taking, Swept, SweptPerms
<1>4. IpcShape' /\ RequestShape'
  BY <1>3, ShapesStay DEF Custody, RequestShape
<1>5. /\ perm' \in [Perm -> Mig!PermState] /\ perm'[Event] = v
      /\ \A p \in Perm : p # Event => perm'[p] = perm[p]
  <2>1. v \in Mig!PermState /\ perm \in [Perm -> Mig!PermState] /\ Event \in Perm
    BY AtEvent DEF Custody, StatesOK, Mig!PermState
  <2> QED
    BY <1>1, <2>1, MarkedPerm
<1>6. StatesOK'
  <2>1. DOMAIN ask' = Perm
    BY DEF Custody, StatesOK
  <2>2. ASSUME NEW p \in Perm, p # Event
        PROVE  /\ p \in Unread' \union (Batch' \ Recent') <=> p \in Unread \union (Batch \ Recent)
               /\ p \in Recent' \union Taking' \union SweptPerms' <=> p \in Recent \union Taking \union SweptPerms
    BY <1>2, <1>3, <2>2, AtEvent
  <2>3. ASSUME NEW p \in Perm, p # Event
        PROVE  /\ ask'[p] = None => perm'[p] = "free"
               /\ perm'[p] = "free" /\ ask'[p] # None <=> p \in Unread' \union (Batch' \ Recent')
               /\ perm'[p] = "held" <=> p \in MigPerms' \union SshPerms'
               /\ perm'[p] = "taken" <=> p \in Recent' \union Taking' \union SweptPerms'
    BY <1>3, <1>5, <2>2, <2>3 DEF Custody, StatesOK
  <2> QED
    BY <1>2, <1>3, <1>5, <2>1, <2>3, AtEvent DEF StatesOK
<1>7. HandsApart'
  BY <1>2, <1>3 DEF Custody, HandsApart
<1> QED
  BY <1>2, <1>4, <1>6, <1>7 DEF Custody
\* A prompt owns the event, or the approval of an import hands it back.
LEMMA MainEnqueueMigrationKeeps == Custody /\ MainEnqueueMigration => Custody'
<1> SUFFICES ASSUME Custody, MainEnqueueMigration PROVE Custody'
  OBVIOUS
<1>1. /\ main.pc = "enqueue" /\ main.pc \in WithBatch /\ Mig!Enqueue(Event, main.about)
      /\ UNCHANGED <<ask, queue, ipc, sshRequests>>
  BY DEF MainEnqueueMigration, MainAt, outside, migStore, sshStore, WithBatch
<1>2. Event \in Perm /\ Event \notin MigPerms
  BY <1>1, AtEvent
<1>3. CASE perm' = Mig!Marked({Event}, "denied") /\ UNCHANGED migRequests
  <2>1. perm'[Event] = "denied"
    BY <1>2, <1>3 DEF Mig!Marked
  <2>2. Finish("denied")
    BY <1>3, <2>1 DEF MainEnqueueMigration, Finish, Answer
  <2> QED
    BY <1>1, <1>3, <2>2, FinishKeeps
<1>4. CASE perm' = Mig!Marked({Event}, "taken") /\ UNCHANGED migRequests
  <2>1. perm'[Event] = "taken"
    BY <1>2, <1>4 DEF Mig!Marked
  <2>2. main' = [main EXCEPT !.pc = "recent"]
    BY <2>1 DEF MainEnqueueMigration, Goto
  <2>3. main'.pc = "recent" /\ main'.batch = main.batch /\ DOMAIN main' = DOMAIN main
    BY <2>2 DEF Custody, MainShape
  <2>4. /\ Unread' = Unread /\ Batch' = Batch /\ Recent = {} /\ Recent' = {Event}
        /\ MigPerms' = MigPerms /\ SshPerms' = SshPerms
        /\ Taking' = Taking /\ Swept' = Swept /\ SweptPerms' = SweptPerms
    BY <1>1, <1>4, <2>3 DEF Unread, Batch, Recent, Event, MigPerms, SshPerms, Taking, Swept, SweptPerms
  <2>5. MainShape'
    BY <1>1, <2>3 DEF Custody, MainShape, WithBatch
  <2>6. IpcShape' /\ RequestShape'
    BY <1>1, <1>4, <2>4, ShapesStay DEF Custody, RequestShape
  <2>7. /\ perm' \in [Perm -> Mig!PermState]
        /\ \A p \in Perm : p # Event => perm'[p] = perm[p]
    <3>1. "taken" \in Mig!PermState /\ perm \in [Perm -> Mig!PermState]
      BY DEF Custody, StatesOK, Mig!PermState
    <3> QED
      BY <1>2, <1>4, <3>1, MarkedPerm
  <2>8. StatesOK'
    <3>1. DOMAIN ask' = Perm
      BY <1>1 DEF Custody, StatesOK
    <3>2. ASSUME NEW p \in Perm, p # Event
          PROVE  /\ ask'[p] = None => perm'[p] = "free"
                 /\ perm'[p] = "free" /\ ask'[p] # None <=> p \in Unread' \union (Batch' \ Recent')
                 /\ perm'[p] = "held" <=> p \in MigPerms' \union SshPerms'
                 /\ perm'[p] = "taken" <=> p \in Recent' \union Taking' \union SweptPerms'
      BY <1>1, <2>4, <2>7, <3>2 DEF Custody, StatesOK
    <3> QED
      BY <1>1, <2>1, <2>4, <2>7, <3>1, <3>2, AtEvent DEF StatesOK
  <2>9. HandsApart'
    BY <1>1, <1>4, <2>4, AtEvent DEF Custody, HandsApart
  <2> QED
    BY <2>5, <2>6, <2>8, <2>9 DEF Custody
<1>5. CASE /\ perm' = Mig!Marked({Event}, "held")
              /\ MigPerms' = MigPerms \union {Event} /\ Apart(migRequests')
              /\ \A r \in migRequests' : DOMAIN r = {"id", "details", "perms", "expires"}
  <2>1. perm'[Event] = "held"
    BY <1>2, <1>5 DEF Mig!Marked
  <2>2. NextEvent
    BY <2>1 DEF MainEnqueueMigration
  <2>3. /\ Batch = {Event} \union Batch' /\ Event \notin Batch' /\ Recent = {} /\ Recent' = {} /\ MainShape'
    BY <1>1, <2>2, NextBatch DEF Recent
  <2>4. /\ Unread' = Unread /\ SshPerms' = SshPerms
        /\ Taking' = Taking /\ Swept' = Swept /\ SweptPerms' = SweptPerms
    BY <1>1 DEF Unread, MigPerms, SshPerms, Taking, Swept, SweptPerms
  <2>5. IpcShape'
    BY <1>1, ShapesStay
  <2>6. RequestShape'
    BY <1>1, <1>5, <2>4 DEF Custody, RequestShape
  <2>7. /\ perm' \in [Perm -> Mig!PermState]
        /\ \A p \in Perm : p # Event => perm'[p] = perm[p]
    <3>1. "held" \in Mig!PermState /\ perm \in [Perm -> Mig!PermState]
      BY DEF Custody, StatesOK, Mig!PermState
    <3> QED
      BY <1>2, <1>5, <3>1, MarkedPerm
  <2>8. StatesOK'
    <3>1. DOMAIN ask' = Perm
      BY <1>1 DEF Custody, StatesOK
    <3>2. ASSUME NEW p \in Perm, p # Event
          PROVE  /\ ask'[p] = None => perm'[p] = "free"
                 /\ perm'[p] = "free" /\ ask'[p] # None <=> p \in Unread' \union (Batch' \ Recent')
                 /\ perm'[p] = "held" <=> p \in MigPerms' \union SshPerms'
                 /\ perm'[p] = "taken" <=> p \in Recent' \union Taking' \union SweptPerms'
      <4>1. /\ p \in Unread' \union (Batch' \ Recent') <=> p \in Unread \union (Batch \ Recent)
            /\ p \in MigPerms' \union SshPerms' <=> p \in MigPerms \union SshPerms
            /\ p \in Recent' \union Taking' \union SweptPerms' <=> p \in Recent \union Taking \union SweptPerms
        BY <1>5, <2>3, <2>4, <3>2
      <4>2. perm'[p] = perm[p] /\ ask'[p] = ask[p]
        BY <1>1, <2>7, <3>2
      <4> QED
        BY <4>1, <4>2 DEF Custody, StatesOK
    <3> QED
      BY <1>1, <1>2, <1>5, <2>1, <2>3, <2>4, <2>7, <3>1, <3>2, AtEvent DEF StatesOK
  <2>9. HandsApart'
    <3>1. /\ MigPerms' \cap SshPerms' = {}
          /\ MigPerms' \union SshPerms' \union Taking' \union SweptPerms' \subseteq Perm
      BY <1>1, <1>2, <1>5, <2>4, AtEvent DEF Custody, HandsApart
    <3> QED
      BY <1>1, <1>5, <2>3, <2>4, <3>1 DEF Custody, HandsApart
  <2> QED
    BY <2>3, <2>5, <2>6, <2>8, <2>9 DEF Custody
<1> QED
  BY <1>1, <1>2, <1>3, <1>4, <1>5, MigEnqueues

\* A prompt owns the event.
LEMMA MainEnqueueReadKeeps == Custody /\ MainEnqueueRead /\ main.about \in SshDetailsSet => Custody'
<1> SUFFICES ASSUME Custody, MainEnqueueRead, main.about \in SshDetailsSet PROVE Custody'
  OBVIOUS
<1>1. /\ main.pc = "enqueue" /\ main.pc \in WithBatch /\ Ssh!Enqueue(Event, main.about)
      /\ UNCHANGED <<ask, queue, ipc, migRequests>>
  BY DEF MainEnqueueRead, MainAt, outside, migStore, sshStore, WithBatch
<1>2. Event \in Perm /\ Event \notin SshPerms
  BY <1>1, AtEvent
<1>3. CASE perm' = Mig!Marked({Event}, "denied") /\ UNCHANGED sshRequests
  <2>1. perm'[Event] = "denied"
    BY <1>2, <1>3 DEF Mig!Marked
  <2>2. Finish("denied")
    BY <1>3, <2>1 DEF MainEnqueueRead, Finish, Answer
  <2> QED
    BY <1>1, <1>3, <2>2, FinishKeeps
<1>5. CASE /\ perm' = Mig!Marked({Event}, "held")
              /\ SshPerms' = SshPerms \union {Event} /\ Apart(sshRequests')
              /\ \A r \in sshRequests' : DOMAIN r = {"id", "details", "perms", "expires"}
  <2>1. perm'[Event] = "held"
    BY <1>2, <1>5 DEF Mig!Marked
  <2>2. NextEvent
    BY <2>1 DEF MainEnqueueRead
  <2>3. /\ Batch = {Event} \union Batch' /\ Event \notin Batch' /\ Recent = {} /\ Recent' = {} /\ MainShape'
    BY <1>1, <2>2, NextBatch DEF Recent
  <2>4. /\ Unread' = Unread /\ MigPerms' = MigPerms
        /\ Taking' = Taking /\ Swept' = Swept /\ SweptPerms' = SweptPerms
    BY <1>1 DEF Unread, MigPerms, SshPerms, Taking, Swept, SweptPerms
  <2>5. IpcShape'
    BY <1>1, ShapesStay
  <2>6. RequestShape'
    BY <1>1, <1>5, <2>4 DEF Custody, RequestShape
  <2>7. /\ perm' \in [Perm -> Mig!PermState]
        /\ \A p \in Perm : p # Event => perm'[p] = perm[p]
    <3>1. "held" \in Mig!PermState /\ perm \in [Perm -> Mig!PermState]
      BY DEF Custody, StatesOK, Mig!PermState
    <3> QED
      BY <1>2, <1>5, <3>1, MarkedPerm
  <2>8. StatesOK'
    <3>1. DOMAIN ask' = Perm
      BY <1>1 DEF Custody, StatesOK
    <3>2. ASSUME NEW p \in Perm, p # Event
          PROVE  /\ ask'[p] = None => perm'[p] = "free"
                 /\ perm'[p] = "free" /\ ask'[p] # None <=> p \in Unread' \union (Batch' \ Recent')
                 /\ perm'[p] = "held" <=> p \in MigPerms' \union SshPerms'
                 /\ perm'[p] = "taken" <=> p \in Recent' \union Taking' \union SweptPerms'
      <4>1. /\ p \in Unread' \union (Batch' \ Recent') <=> p \in Unread \union (Batch \ Recent)
            /\ p \in MigPerms' \union SshPerms' <=> p \in MigPerms \union SshPerms
            /\ p \in Recent' \union Taking' \union SweptPerms' <=> p \in Recent \union Taking \union SweptPerms
        BY <1>5, <2>3, <2>4, <3>2
      <4>2. perm'[p] = perm[p] /\ ask'[p] = ask[p]
        BY <1>1, <2>7, <3>2
      <4> QED
        BY <4>1, <4>2 DEF Custody, StatesOK
    <3> QED
      BY <1>1, <1>2, <1>5, <2>1, <2>3, <2>4, <2>7, <3>1, <3>2, AtEvent DEF StatesOK
  <2>9. HandsApart'
    <3>1. /\ MigPerms' \cap SshPerms' = {}
          /\ MigPerms' \union SshPerms' \union Taking' \union SweptPerms' \subseteq Perm
      BY <1>1, <1>2, <1>5, <2>4, AtEvent DEF Custody, HandsApart
    <3> QED
      BY <1>1, <1>5, <2>3, <2>4, <3>1 DEF Custody, HandsApart
  <2> QED
    BY <2>3, <2>5, <2>6, <2>8, <2>9 DEF Custody
<1> QED
  BY <1>1, <1>2, <1>3, <1>5, SshEnqueues

-----------------------------------------------------------------------------
(***************************************************************************)
(* The IPC thread.                                                         *)
(***************************************************************************)
\* The thread takes a request out of a store, or the store denies it.
LEMMA IpcTakeMigrationKeeps == Custody /\ IpcTakeMigration => Custody'
<1> SUFFICES ASSUME Custody, IpcTakeMigration PROVE Custody'
  OBVIOUS
<1>1. /\ ipc.pc = "take" /\ Taking = {} /\ Swept = {} /\ SweptPerms = {}
      /\ UNCHANGED <<ask, main, queue, sshRequests>>
  BY DEF IpcTakeMigration, IpcAt, beside, migStore, sshStore, Custody, IpcShape, Taking, Swept,
     SweptPerms, PermsOf
<1>2. CASE ipc' = Idle /\ UNCHANGED <<perm, migRequests>>
  <2>1. IpcShape' /\ Taking' = {} /\ Swept' = {}
    BY <1>2 DEF Idle, IpcShape, Taking, Swept
  <2> QED
    BY <1>1, <1>2, <2>1, IpcGoesOn
<1>3. CASE \E r \in migRequests : /\ migRequests' = migRequests \ {r}
                                /\ \/ perm' = Mig!Marked(r.perms, "denied") /\ ipc' = Idle
                                   \/ perm' = Mig!Marked(r.perms, "taken") /\ ipc' = Taken(r)
  <2>1. PICK r \in migRequests : /\ migRequests' = migRequests \ {r}
                              /\ \/ perm' = Mig!Marked(r.perms, "denied") /\ ipc' = Idle
                                 \/ perm' = Mig!Marked(r.perms, "taken") /\ ipc' = Taken(r)
    BY <1>3
  <2>2. /\ MigPerms' = MigPerms \ r.perms /\ r.perms \subseteq MigPerms /\ Apart(migRequests')
    BY <2>1, RemoveOne DEF MigPerms, Custody, HandsApart
  <2>3. /\ Unread' = Unread /\ Batch' = Batch /\ Recent' = Recent /\ SshPerms' = SshPerms
        /\ MainShape'
    BY <1>1, ShapesStay DEF MigPerms, SshPerms
  <2>4. /\ IpcShape' /\ Swept' = {} /\ SweptPerms' = {}
        /\ Taking' = IF ipc' = Idle THEN {} ELSE r.perms
    <3>1. CASE ipc' = Idle
      BY <3>1 DEF Idle, IpcShape, Taking, Swept, SweptPerms, PermsOf
    <3>2. CASE ipc' = Taken(r)
      <4>1. /\ DOMAIN ipc' = {"pc", "job", "perms"} /\ ipc'.perms = r.perms
            /\ ipc'.pc \in {"deny", "approve"} /\ ipc' # Idle
        BY <3>2 DEF Taken, Idle
      <4> QED
        BY <4>1 DEF IpcShape, Taking, Swept, SweptPerms, PermsOf
    <3> QED
      BY <2>1, <3>1, <3>2
  <2>5. RequestShape'
    BY <1>1, <2>1, <2>4 DEF Custody, RequestShape
  <2>6. \E s \in {"denied", "taken"} :
          perm' = Mig!Marked(r.perms, s) /\ (s = "denied" <=> ipc' = Idle)
    BY <2>1 DEF Taken, Idle
  <2>7. StatesOK'
    BY <1>1, <2>2, <2>3, <2>4, <2>6, MarkedPerm DEF Custody, StatesOK, HandsApart, Mig!PermState
  <2>8. HandsApart'
    <3>1. Apart({})
      BY OneRequest
    <3>2. \A p \in r.perms : perm[p] = "held" /\ p \notin Recent
      BY <2>2 DEF Custody, HandsApart, StatesOK
    <3> QED
      BY <1>1, <2>2, <2>3, <2>4, <3>1, <3>2 DEF Custody, HandsApart
  <2> QED
    BY <2>3, <2>4, <2>5, <2>7, <2>8 DEF Custody
<1>4. \A r \in WithId(migRequests) : r \in migRequests
  BY DEF WithId
<1> QED
  BY <1>2, <1>3, <1>4 DEF IpcTakeMigration, Mig!TakeTimedOut, Mig!TakeReady, Mig!Remove, Mig!Marked,
     Mig!Marked, migStore, sshStore

\* The same in the other store.
LEMMA IpcTakeReadKeeps == Custody /\ IpcTakeRead => Custody'
<1> SUFFICES ASSUME Custody, IpcTakeRead PROVE Custody'
  OBVIOUS
<1>1. /\ ipc.pc = "take" /\ Taking = {} /\ Swept = {} /\ SweptPerms = {}
      /\ UNCHANGED <<ask, main, queue, migRequests>>
  BY DEF IpcTakeRead, IpcAt, beside, migStore, sshStore, Custody, IpcShape, Taking, Swept,
     SweptPerms, PermsOf
<1>2. CASE ipc' = Idle /\ UNCHANGED <<perm, sshRequests>>
  <2>1. IpcShape' /\ Taking' = {} /\ Swept' = {}
    BY <1>2 DEF Idle, IpcShape, Taking, Swept
  <2> QED
    BY <1>1, <1>2, <2>1, IpcGoesOn
<1>3. CASE \E r \in sshRequests : /\ sshRequests' = sshRequests \ {r}
                                /\ \/ perm' = Mig!Marked(r.perms, "denied") /\ ipc' = Idle
                                   \/ perm' = Mig!Marked(r.perms, "taken") /\ ipc' = Taken(r)
  <2>1. PICK r \in sshRequests : /\ sshRequests' = sshRequests \ {r}
                              /\ \/ perm' = Mig!Marked(r.perms, "denied") /\ ipc' = Idle
                                 \/ perm' = Mig!Marked(r.perms, "taken") /\ ipc' = Taken(r)
    BY <1>3
  <2>2. /\ SshPerms' = SshPerms \ r.perms /\ r.perms \subseteq SshPerms /\ Apart(sshRequests')
    BY <2>1, RemoveOne DEF SshPerms, Custody, HandsApart
  <2>3. /\ Unread' = Unread /\ Batch' = Batch /\ Recent' = Recent /\ MigPerms' = MigPerms
        /\ MainShape'
    BY <1>1, ShapesStay DEF MigPerms, SshPerms
  <2>4. /\ IpcShape' /\ Swept' = {} /\ SweptPerms' = {}
        /\ Taking' = IF ipc' = Idle THEN {} ELSE r.perms
    <3>1. CASE ipc' = Idle
      BY <3>1 DEF Idle, IpcShape, Taking, Swept, SweptPerms, PermsOf
    <3>2. CASE ipc' = Taken(r)
      <4>1. /\ DOMAIN ipc' = {"pc", "job", "perms"} /\ ipc'.perms = r.perms
            /\ ipc'.pc \in {"deny", "approve"} /\ ipc' # Idle
        BY <3>2 DEF Taken, Idle
      <4> QED
        BY <4>1 DEF IpcShape, Taking, Swept, SweptPerms, PermsOf
    <3> QED
      BY <2>1, <3>1, <3>2
  <2>5. RequestShape'
    BY <1>1, <2>1, <2>4 DEF Custody, RequestShape
  <2>6. \E s \in {"denied", "taken"} :
          perm' = Mig!Marked(r.perms, s) /\ (s = "denied" <=> ipc' = Idle)
    BY <2>1 DEF Taken, Idle
  <2>7. StatesOK'
    BY <1>1, <2>2, <2>3, <2>4, <2>6, MarkedPerm DEF Custody, StatesOK, HandsApart, Mig!PermState
  <2>8. HandsApart'
    <3>1. Apart({})
      BY OneRequest
    <3>2. \A p \in r.perms : perm[p] = "held" /\ p \notin Recent
      BY <2>2 DEF Custody, HandsApart, StatesOK
    <3> QED
      BY <1>1, <2>2, <2>3, <2>4, <3>1, <3>2 DEF Custody, HandsApart
  <2> QED
    BY <2>3, <2>4, <2>5, <2>7, <2>8 DEF Custody
<1>4. \A r \in WithId(sshRequests) : r \in sshRequests
  BY DEF WithId
<1> QED
  BY <1>2, <1>3, <1>4 DEF IpcTakeRead, Ssh!TakeTimedOut, Ssh!TakeReady, Ssh!Remove, Ssh!Marked,
     Mig!Marked, migStore, sshStore

\* The thread answers a request it has taken; what was swept with it it keeps.
LEMMA AnswersTaken ==
  ASSUME Custody, ipc.pc \in {"deny", "approve", "allow"}, NEW v \in {"allowed", "denied"},
         perm' = Mig!Marked(ipc.perms, v),
         UNCHANGED <<ask, main, queue, migRequests, sshRequests>>,
         IpcShape', Taking' = {}, Swept' = Swept
  PROVE  Custody'
<1>1. Taking = ipc.perms
  BY DEF Custody, IpcShape, Taking
<1>2. /\ Unread' = Unread /\ Batch' = Batch /\ Recent' = Recent /\ MigPerms' = MigPerms
      /\ SshPerms' = SshPerms /\ SweptPerms' = SweptPerms /\ MainShape'
  BY ShapesStay DEF MigPerms, SshPerms, SweptPerms
<1>3. RequestShape'
  BY DEF Custody, RequestShape
<1>4. perm' \in [Perm -> Mig!PermState]
  <2>1. v \in Mig!PermState /\ perm \in [Perm -> Mig!PermState]
    BY DEF Custody, StatesOK, Mig!PermState
  <2> QED
    BY <2>1, MarkedPerm
<1>5. \A p \in Perm : perm'[p] = IF p \in Taking THEN v ELSE perm[p]
  BY <1>1 DEF Mig!Marked
<1>6. StatesOK'
  BY <1>2, <1>4, <1>5 DEF Custody, StatesOK, HandsApart
<1>7. HandsApart'
  BY <1>2 DEF Custody, HandsApart
<1> QED
  BY <1>2, <1>3, <1>6, <1>7 DEF Custody

LEMMA IpcAnswersKeep == Custody /\ (IpcDeny \/ IpcApproveRead \/ IpcAllow) => Custody'
<1> SUFFICES ASSUME Custody, IpcDeny \/ IpcApproveRead \/ IpcAllow PROVE Custody'
  OBVIOUS
<1>1. /\ ipc.pc \in {"deny", "approve", "allow"}
      /\ UNCHANGED <<ask, main, queue, migRequests, sshRequests>>
  BY DEF IpcDeny, IpcApproveRead, IpcAllow, IpcAt, beside, migStore, sshStore
<1>2. \E v \in {"allowed", "denied"} : perm' = Mig!Marked(ipc.perms, v)
  BY DEF IpcDeny, IpcApproveRead, IpcAllow, Answer
<1>3. IpcShape' /\ Taking' = {} /\ Swept' = Swept
  <2>1. CASE IpcDeny \/ IpcApproveRead
    <3>1. ipc' = Idle /\ Swept = {}
      BY <2>1 DEF IpcDeny, IpcApproveRead, IpcAt, Custody, IpcShape, Swept
    <3> QED
      BY <3>1 DEF Idle, IpcShape, Taking, Swept
  <2>2. CASE IpcAllow
    <3>1. ipc' = Siblings(ipc.siblings) /\ Swept = ipc.siblings
      BY <2>2 DEF IpcAllow, IpcAt, Custody, IpcShape, Swept
    <3>2. CASE ipc.siblings = {}
      BY <3>1, <3>2 DEF Siblings, Idle, IpcShape, Taking, Swept
    <3>3. CASE ipc.siblings # {}
      BY <3>1, <3>3 DEF Siblings, IpcShape, Taking, Swept
    <3> QED
      BY <3>2, <3>3
  <2> QED
    BY <2>1, <2>2
<1> QED
  BY <1>1, <1>2, <1>3, AnswersTaken

\* An approval sweeps the other requests of its scope out of the store.
LEMMA IpcRecordKeeps == Custody /\ IpcRecord => Custody'
<1> SUFFICES ASSUME Custody, IpcRecord PROVE Custody'
  OBVIOUS
<1> DEFINE S == Mig!Siblings(MigScopeOf[ipc.job.details])
<1>1. /\ ipc.pc = "record" /\ UNCHANGED <<ask, main, queue, sshRequests>>
      /\ S \in SUBSET migRequests /\ migRequests' = migRequests \ S
      /\ perm' = Mig!Marked(PermsOf(S), "taken")
      /\ ipc' = [pc |-> "allow", job |-> ipc.job, perms |-> ipc.perms, siblings |-> S]
  BY DEF IpcRecord, IpcAt, beside, sshStore, Mig!RecordApproval, Mig!Remove, Mig!Siblings, PermsOf
<1> HIDE DEF S
<1>2. /\ DOMAIN ipc' = {"pc", "job", "perms", "siblings"} /\ ipc'.pc = "allow"
      /\ ipc'.perms = ipc.perms /\ ipc'.siblings = S
  BY <1>1
<1>3. /\ IpcShape' /\ Taking' = Taking /\ Swept' = S /\ Swept = {}
      /\ SweptPerms' = PermsOf(S) /\ SweptPerms = {}
  BY <1>1, <1>2, OneRequest DEF Custody, IpcShape, Taking, Swept, SweptPerms
<1>4. /\ MigPerms' = MigPerms \ PermsOf(S) /\ PermsOf(S) \subseteq MigPerms
      /\ Apart(migRequests') /\ Apart(S)
  BY <1>1, RemoveApart DEF MigPerms, Custody, HandsApart
<1>5. /\ Unread' = Unread /\ Batch' = Batch /\ Recent' = Recent /\ SshPerms' = SshPerms /\ MainShape'
  BY <1>1, ShapesStay DEF SshPerms
<1>6. RequestShape'
  BY <1>1, <1>3 DEF Custody, RequestShape
<1>7. StatesOK'
  BY <1>1, <1>3, <1>4, <1>5, MarkedPerm DEF Custody, StatesOK, HandsApart, Mig!PermState
<1>8. HandsApart'
  <2>1. \A p \in PermsOf(S) : perm[p] = "held" /\ p \notin Recent /\ p \notin Taking
    BY <1>4 DEF Custody, HandsApart, StatesOK
  <2> QED
    BY <1>1, <1>3, <1>4, <1>5, <2>1 DEF Custody, HandsApart
<1> QED
  BY <1>3, <1>5, <1>6, <1>7, <1>8 DEF Custody

\* One request of those swept is answered.
LEMMA IpcSiblingKeeps == Custody /\ IpcSibling => Custody'
<1> SUFFICES ASSUME Custody, IpcSibling PROVE Custody'
  OBVIOUS
<1>1. /\ ipc.pc = "siblings" /\ UNCHANGED <<ask, main, queue, migRequests, sshRequests>>
      /\ Taking = {} /\ Swept = ipc.siblings
  BY DEF IpcSibling, IpcAt, beside, migStore, sshStore, Custody, IpcShape, Taking, Swept
<1>2. PICK r \in Swept, v \in {"allowed", "denied"} :
        perm' = Mig!Marked(r.perms, v) /\ ipc' = Siblings(Swept \ {r})
  BY <1>1 DEF IpcSibling, Answer
<1>3. IpcShape' /\ Taking' = {} /\ Swept' = Swept \ {r}
  <2>1. CASE Swept \ {r} = {}
    BY <1>2, <2>1 DEF Siblings, Idle, IpcShape, Taking, Swept
  <2>2. CASE Swept \ {r} # {}
    <3>1. DOMAIN ipc' = {"pc", "siblings"} /\ ipc'.pc = "siblings" /\ ipc'.siblings = Swept \ {r}
      BY <1>2, <2>2 DEF Siblings
    <3> QED
      BY <3>1 DEF IpcShape, Taking, Swept
  <2> QED
    BY <2>1, <2>2
<1>4. /\ SweptPerms' = SweptPerms \ r.perms /\ r.perms \subseteq SweptPerms /\ Apart(Swept')
  BY <1>3, RemoveOne DEF SweptPerms, Custody, HandsApart
<1>5. /\ Unread' = Unread /\ Batch' = Batch /\ Recent' = Recent /\ MigPerms' = MigPerms
      /\ SshPerms' = SshPerms /\ MainShape'
  BY <1>1, ShapesStay DEF MigPerms, SshPerms
<1>6. RequestShape'
  BY <1>1, <1>3 DEF Custody, RequestShape
<1>7. StatesOK'
  <2>1. perm' \in [Perm -> Mig!PermState]
    <3>1. v \in Mig!PermState /\ perm \in [Perm -> Mig!PermState]
      BY DEF Custody, StatesOK, Mig!PermState
    <3> QED
      BY <1>2, <3>1, MarkedPerm
  <2>2. \A p \in Perm : perm'[p] = IF p \in r.perms THEN v ELSE perm[p]
    BY <1>2 DEF Mig!Marked
  <2> QED
    BY <1>1, <1>3, <1>4, <1>5, <2>1, <2>2 DEF Custody, StatesOK, HandsApart
<1>8. HandsApart'
  BY <1>1, <1>3, <1>4, <1>5 DEF Custody, HandsApart
<1> QED
  BY <1>3, <1>5, <1>6, <1>7, <1>8 DEF Custody

\* The steps of the thread in which it passes no permission on.
LEMMA IpcQuietKeeps ==
  ASSUME Custody,
         \/ \E job, block : Begin(job, block)
         \/ IpcAuthenticate \/ IpcApproveMigration \/ IpcArm \/ IpcLoad \/ IpcDeliver
  PROVE  Custody'
<1>1. UNCHANGED <<ask, perm, queue, main, migRequests, sshRequests>>
  BY DEF Begin, IpcAuthenticate, IpcApproveMigration, IpcArm, IpcLoad, IpcDeliver, beside, migStore,
     sshStore
<1>2. IpcShape' /\ Taking' = Taking /\ Swept' = Swept
  <2>1. CASE IpcApproveMigration
    <3>1. \E pc \in {"record", "deny"} : ipc' = [ipc EXCEPT !.pc = pc]
      BY <2>1 DEF IpcApproveMigration
    <3>2. /\ ipc.pc = "approve" /\ DOMAIN ipc' = DOMAIN ipc /\ ipc'.pc \in {"record", "deny"}
          /\ ("perms" \in DOMAIN ipc => ipc'.perms = ipc.perms)
      BY <2>1, <3>1 DEF IpcApproveMigration, IpcAt, Custody, IpcShape
    <3> QED
      BY <3>2 DEF Custody, IpcShape, Taking, Swept
  <2>2. CASE IpcAuthenticate
    <3>1. ipc.pc = "authenticate" /\ "perms" \notin DOMAIN ipc /\ "siblings" \notin DOMAIN ipc
          /\ "pc" \in DOMAIN ipc
      BY <2>2 DEF IpcAuthenticate, IpcAt, Custody, IpcShape
    <3>2. ipc' = Idle \/ \E pc \in {"take", "grant"} : ipc' = [ipc EXCEPT !.pc = pc]
      BY <2>2 DEF IpcAuthenticate
    <3>3. CASE ipc' = Idle
      BY <3>1, <3>3 DEF Idle, IpcShape, Taking, Swept
    <3>4. CASE \E pc \in {"take", "grant"} : ipc' = [ipc EXCEPT !.pc = pc]
      <4>1. DOMAIN ipc' = DOMAIN ipc /\ ipc'.pc \in {"take", "grant"}
        BY <3>1, <3>4
      <4> QED
        BY <3>1, <4>1 DEF IpcShape, Taking, Swept
    <3> QED
      BY <3>2, <3>3, <3>4
  <2>3. CASE (\E job, block : Begin(job, block)) \/ IpcArm \/ IpcLoad \/ IpcDeliver
    <3>1. Taking = {} /\ Swept = {}
      BY <2>3 DEF Begin, IpcArm, IpcLoad, IpcDeliver, IpcAt, Idle, Custody, IpcShape, Taking, Swept
    <3>2. /\ "pc" \in DOMAIN ipc' /\ "perms" \notin DOMAIN ipc' /\ "siblings" \notin DOMAIN ipc'
          /\ ipc'.pc \in {"idle", "authenticate", "take", "grant", "deliver"}
      BY <2>3 DEF Begin, IpcArm, IpcLoad, IpcDeliver, Idle
    <3> QED
      BY <3>1, <3>2 DEF IpcShape, Taking, Swept
  <2> QED
    BY <2>1, <2>2, <2>3
<1> QED
  BY <1>1, <1>2, IpcGoesOn

-----------------------------------------------------------------------------
(***************************************************************************)
(* Every step.                                                             *)
(***************************************************************************)
\* The main loop.
LEMMA MainKeeps ==
  ASSUME Custody, MainStep, MainEnqueueRead => main.about \in SshDetailsSet
  PROVE  Custody'
<1>1. CASE MainExpireMigrations \/ MainExpireReads \/ MainRead
  BY <1>1, MainExpireMigrationsKeeps, MainExpireReadsKeeps, MainReadKeeps
<1>2. CASE MainEnqueueMigration \/ MainEnqueueRead
  BY <1>2, MainEnqueueMigrationKeeps, MainEnqueueReadKeeps
<1>3. CASE MainPanic
  BY <1>3, WorldKeeps DEF MainPanic, outside, migStore, sshStore
<1>4. CASE MainDecideOpen \/ MainDecideUnknown \/ MainDecide \/ MainDetails \/ MainRecent
  <2>1. /\ main.pc \in WithBatch
        /\ UNCHANGED <<ask, queue, ipc, migRequests, sshRequests>>
    BY <1>4 DEF MainDecideOpen, MainDecideUnknown, MainDecide, MainDetails, MainRecent, ToDecide,
       MainAt, outside, migStore, sshStore, WithBatch
  <2>2. \/ \E v \in {"allowed", "denied"} : Finish(v)
        \/ /\ UNCHANGED perm /\ main.pc # "recent"
           /\ \E pc \in {"details", "enqueue"} : \E x : main' = [main EXCEPT !.pc = pc, !.about = x]
    BY <1>4 DEF MainDecideOpen, MainDecideUnknown, MainDecide, MainDetails, MainRecent, ToDecide,
       MainAt
  <2>3. ASSUME NEW v \in {"allowed", "denied"}, Finish(v) PROVE Custody'
    BY <2>1, <2>3, FinishKeeps
  <2>4. ASSUME UNCHANGED perm, main.pc # "recent", NEW pc \in {"details", "enqueue"},
               \E x : main' = [main EXCEPT !.pc = pc, !.about = x]
        PROVE  Custody'
    BY <2>1, <2>4, MainGoesOn DEF WithBatch
  <2> QED
    BY <2>2, <2>3, <2>4
<1> QED
  BY <1>1, <1>2, <1>3, <1>4 DEF MainStep

\* The IPC thread.
LEMMA IpcKeeps == Custody /\ (IpcRequest \/ IpcStep) => Custody'
<1> SUFFICES ASSUME Custody, IpcRequest \/ IpcStep PROVE Custody'
  OBVIOUS
<1>1. CASE IpcRequest
  <2>1. (\E job, block : Begin(job, block)) \/ \E u : IpcRevoke(u)
    BY <1>1 DEF IpcRequest, IpcResolveMigration, IpcResolveRead, IpcAuthorizeMigration, IpcAuthorizeLoad
  <2>2. CASE \E u : IpcRevoke(u)
    BY <2>2, WorldKeeps DEF IpcRevoke, beside, migStore, sshStore
  <2> QED
    BY <2>1, <2>2, IpcQuietKeeps
<1>2. CASE IpcStep
  BY <1>2, IpcQuietKeeps, IpcTakeMigrationKeeps, IpcTakeReadKeeps, IpcAnswersKeep, IpcRecordKeeps,
     IpcSiblingKeeps DEF IpcStep
<1> QED
  BY <1>1, <1>2

LEMMA NextKeepsCustody ==
  ASSUME Custody, [Next]_vars, scenario \in Scenario, MainEnqueueRead => main.about \in SshDetailsSet
  PROVE  Custody'
<1>1. CASE Environment
  <2>1. CASE \E p \in Perm, a \in Opens : Open(p, a)
    BY <2>1, OpenKeeps
  <2>2. CASE ~ \E p \in Perm, a \in Opens : Open(p, a)
    BY <1>1, <2>2, WorldKeeps DEF Environment, Spawn, Exit, Exec, daemon, migStore, sshStore
  <2> QED
    BY <2>1, <2>2
<1>2. CASE Tick
  BY <1>2, WorldKeeps DEF Tick, daemon, migStore, sshStore
<1>3. CASE MainStep
  BY <1>3, MainKeeps
<1>4. CASE IpcRequest \/ IpcStep
  BY <1>4, IpcKeeps
<1>5. CASE UNCHANGED vars
  BY <1>5, WorldKeeps DEF vars, migStore, sshStore
<1> QED
  BY <1>1, <1>2, <1>3, <1>4, <1>5 DEF Next

\* What custody says of the hands of a permission.
LEMMA HandsOf ==
  ASSUME Custody, NEW p \in Perm
  PROVE  Hands(p) =
           {h \in {"queue", "main", "migrations", "reads", "ipc", "siblings"} :
              \/ h = "queue" /\ p \in Unread
              \/ h = "main" /\ p \in Batch
              \/ h = "migrations" /\ p \in MigPerms
              \/ h = "reads" /\ p \in SshPerms
              \/ h = "ipc" /\ p \in Taking
              \/ h = "siblings" /\ p \in SweptPerms}
<1>1. \A R : Held(R, p) <=> p \in PermsOf(R)
  BY DEF Held, PermsOf
<1>2. /\ p \in Unread <=> \E k \in DOMAIN queue : queue[k] = p
      /\ p \in Batch <=> \E k \in DOMAIN main.batch : main.batch[k] = p
  BY DEF Unread, Batch, Range
<1>3. /\ p \in Taking <=> "perms" \in DOMAIN ipc /\ p \in ipc.perms
      /\ p \in SweptPerms <=> "siblings" \in DOMAIN ipc /\ Held(ipc.siblings, p)
  BY <1>1 DEF Taking, Swept, SweptPerms, PermsOf
<1> QED
  BY <1>1, <1>2, <1>3 DEF Hands, MigPerms, SshPerms

LEMMA CustodyOneHand == Custody => OneHand
<1> SUFFICES ASSUME Custody, NEW p \in Perm
             PROVE  Cardinality(Hands(p)) = IF ask[p] # None /\ perm[p] \notin {"allowed", "denied"}
                                            THEN 1 ELSE 0
  BY DEF OneHand
<1>1. perm[p] \in {"free", "held", "taken", "allowed", "denied"}
  BY DEF Custody, StatesOK, Mig!PermState
<1>2. CASE ask[p] = None \/ perm[p] \in {"allowed", "denied"}
  <2>1. /\ p \notin Unread /\ p \notin Batch \ Recent /\ p \notin MigPerms /\ p \notin SshPerms
        /\ p \notin Recent /\ p \notin Taking /\ p \notin SweptPerms
    BY <1>2 DEF Custody, StatesOK
  <2>2. Hands(p) = {}
    BY <2>1, HandsOf
  <2> QED
    BY <1>1, <1>2, <2>2, FS_EmptySet
<1>3. CASE ask[p] # None /\ perm[p] \notin {"allowed", "denied"}
  <2>1. \E h : Hands(p) = {h}
    <3>1. CASE perm[p] = "free"
      <4>1. /\ p \in Unread \/ p \in Batch
            /\ ~(p \in Unread /\ p \in Batch)
            /\ p \notin MigPerms /\ p \notin SshPerms /\ p \notin Taking /\ p \notin SweptPerms
        BY <1>3, <3>1 DEF Custody, StatesOK, HandsApart
      <4>2. Hands(p) = {"queue"} \/ Hands(p) = {"main"}
        BY <4>1, HandsOf
      <4> QED
        BY <4>2
    <3>2. CASE perm[p] = "held"
      <4>1. /\ p \in MigPerms \/ p \in SshPerms
            /\ ~(p \in MigPerms /\ p \in SshPerms)
            /\ p \notin Unread /\ p \notin Batch /\ p \notin Taking /\ p \notin SweptPerms
        BY <1>3, <3>2 DEF Custody, StatesOK, HandsApart
      <4>2. Hands(p) = {"migrations"} \/ Hands(p) = {"reads"}
        BY <4>1, HandsOf
      <4> QED
        BY <4>2
    <3>3. CASE perm[p] = "taken"
      <4>1. /\ p \in Recent \/ p \in Taking \/ p \in SweptPerms
            /\ p \in Recent <=> p \in Batch
            /\ ~(p \in Recent /\ (p \in Taking \/ p \in SweptPerms)) /\ ~(p \in Taking /\ p \in SweptPerms)
            /\ p \notin Unread /\ p \notin MigPerms /\ p \notin SshPerms
        <5>1. p \in Recent => p \in Batch
          BY AtEvent DEF Recent, WithBatch
        <5> QED
          BY <1>3, <3>3, <5>1 DEF Custody, StatesOK, HandsApart
      <4>2. Hands(p) = {"main"} \/ Hands(p) = {"ipc"} \/ Hands(p) = {"siblings"}
        BY <4>1, HandsOf
      <4> QED
        BY <4>2
    <3> QED
      BY <1>1, <1>3, <3>1, <3>2, <3>3
  <2> QED
    BY <1>3, <2>1, FS_Singleton
<1> QED
  BY <1>2, <1>3

-----------------------------------------------------------------------------
(***************************************************************************)
(* Types.                                                                  *)
(***************************************************************************)
Access == [inst : Proc, res : Resource, op : {"open", "access"}]

World ==
  /\ now \in 0..MaxNow /\ scenario \in Scenario
  /\ life \in [Proc -> {"unborn", "live", "gone"}] /\ exe \in [Proc -> Exe]
  /\ ask \in [Perm -> Access \union {None}]

\* An identity of a process with this pid: its ancestors are of its lineage.
IdentityOf(id, pid) ==
  /\ id \in Identity /\ PidOf[id.self.inst] = pid
  /\ \A k \in DOMAIN id.ancestors : id.ancestors[k].inst \in Range(Lineage[id.self.inst])

CacheOK ==
  /\ DOMAIN cache = Pid
  /\ \A pid \in Pid : cache[pid] = None \/ IdentityOf(cache[pid], pid)

LeasesOK ==
  migration \in Seq(MigrationLease) /\ sshLoad \in Seq(SshLoadLease) /\ sshRead \in Seq(SshReadLease)

MigOK ==
  /\ migRequests \subseteq Mig!Request /\ migNextId \in Nat
  /\ migBlocked \in [MigKey -> 0..MaxNow] /\ migRecent \in [MigScope -> 0..MaxNow]

SshOK ==
  /\ sshRequests \subseteq Ssh!Request /\ sshNextId \in Nat
  /\ sshBlocked \in [SshKey -> 0..MaxNow]

\* What the main loop asks about fits the file that is opened.
AboutOK ==
  /\ main.about \in MainAbouts
  /\ main.pc = "enqueue" => main.about \in (IF KindOf[Res] = "ssh" THEN SshDetailsSet ELSE MigDetails)
  /\ main.pc = "recent" => main.about \in MigDetails

Job ==
  [op : {"migration"}, id : Nat, details : MigDetails, uid : Uid, block : BOOLEAN]
    \union [op : {"read"}, id : Nat, details : SshDetailsSet, uid : Uid, block : BOOLEAN]
    \union [op : {"arm"}, uid : Uid, profile : Profile, exe : {e \in Exe : BrowserOfExe[e] # None}]
    \union [op : {"load"}, uid : Uid, child : Proc, res : Resource, agent : Agent]

\* A job passes through the places its operation has.
IpcOK ==
  /\ ipc.pc \in {"authenticate", "take", "deny", "approve", "record", "allow", "grant"} =>
       "job" \in DOMAIN ipc /\ ipc.job \in Job
  /\ ipc.pc \in {"take", "deny", "approve"} => ipc.job.op \in {"migration", "read"}
  /\ ipc.pc \in {"record", "allow"} => ipc.job.op = "migration"
  /\ ipc.pc = "grant" => ipc.job.op \in {"arm", "load"}
  /\ Swept \subseteq Mig!Request

Typed == World /\ CacheOK /\ LeasesOK /\ MigOK /\ SshOK /\ AboutOK /\ IpcOK

-----------------------------------------------------------------------------
(***************************************************************************)
(* What /proc shows, and what a prompt is about.                           *)
(***************************************************************************)
\* Cached or looked up, an identity is one of the pid, seen live.
LEMMA ObserveOK ==
  ASSUME World, NEW i \in Live
  PROVE  IdentityOf(Observe(i), PidOf[i]) /\ Observe(i).self = Seen(i)
<1>1. i \in Proc /\ Lineage[i] \in Seq(Proc)
  BY ProcessAssumption DEF Live
<1> DEFINE L == Lineage[i]
           D == {n \in 0..Len(L) : n <= MaxAncestors /\ \A k \in 1..n : L[k] \in Live}
           depth == Max(D)
<1>2. depth \in 0..Len(L)
  <2>1. Len(L) \in Nat /\ D \subseteq 0..Len(L)
    BY <1>1
  <2>2. 0 \in D
    BY <1>1, EngineAssumption
  <2>3. D # {}
    BY <2>2
  <2> HIDE DEF D
  <2> QED
    BY <2>1, <2>3, MaxIn
<1>3. Observe(i) = [self |-> Seen(i), ancestors |-> [k \in 1..depth |-> Seen(L[k])]]
  BY DEF Observe, LiveAncestors
<1> HIDE DEF depth
<1>4. \A k \in 1..depth : L[k] \in Proc /\ L[k] \in Range(L)
  BY <1>1, <1>2 DEF Range
<1>5. \A j \in Proc : Seen(j) \in Stable /\ Seen(j).inst = j
  BY DEF Seen, Stable, World
<1>6. [k \in 1..depth |-> Seen(L[k])] \in Seq(Stable)
  <2>1. \A k \in 1..depth : Seen(L[k]) \in Stable
    BY <1>4, <1>5
  <2> QED
    BY <1>2, <2>1
<1> QED
  BY <1>1, <1>3, <1>4, <1>5, <1>6 DEF IdentityOf, Identity

LEMMA FreshOK ==
  ASSUME World, NEW pid, Fresh(pid) # None
  PROVE  IdentityOf(Fresh(pid), pid) /\ Fresh(pid).self.inst \in At(pid)
<1>1. At(pid) # {} /\ Fresh(pid) = Observe(CHOOSE i \in At(pid) : TRUE)
  BY DEF Fresh
<1>2. PICK i \in At(pid) : Fresh(pid) = Observe(i)
  BY <1>1
<1>3. i \in Live /\ PidOf[i] = pid
  BY DEF At
<1>4. IdentityOf(Observe(i), PidOf[i]) /\ Observe(i).self = Seen(i)
  BY <1>3, ObserveOK
<1>5. Observe(i).self.inst = i
  BY <1>4 DEF Seen
<1> QED
  BY <1>2, <1>3, <1>4, <1>5

LEMMA ResolveOK ==
  ASSUME World, CacheOK, NEW pid \in Pid, Resolve(pid) # None
  PROVE  IdentityOf(Resolve(pid), pid) /\ Resolve(pid).self.inst \in At(pid)
BY FreshOK DEF Resolve, CacheOK

\* The identity stays in the cache.
LEMMA RememberOK ==
  ASSUME CacheOK, NEW pid \in Pid, NEW id, id = None \/ IdentityOf(id, pid), Remember(pid, id)
  PROVE  CacheOK'
<1>1. DOMAIN cache' = Pid /\ \A q \in Pid : cache'[q] = IF q = pid THEN id ELSE cache[q]
  BY DEF Remember, CacheOK
<1> QED
  BY <1>1 DEF CacheOK, IdentityOf, Pid

LEMMA ClosestOK ==
  ASSUME NEW id \in Identity, NEW e, Closest(id, e) # None
  PROVE  Closest(id, e) \in Stable /\ Closest(id, e).exe = e /\ InTree(id, Closest(id, e))
<1> DEFINE found == {k \in DOMAIN id.ancestors : id.ancestors[k].exe = e}
<1>1. id.ancestors \in Seq(Stable) /\ id.self \in Stable
  BY DEF Identity
<1>2. found \subseteq Nat /\ found \subseteq DOMAIN id.ancestors
  BY <1>1
<1>3. found # {} => Min(found) \in found
  <2> HIDE DEF found
  <2> QED
    BY <1>2, MinIn
<1>4. Closest(id, e) = (CASE id.self.exe = e                 -> id.self
                          [] id.self.exe # e /\ found # {}   -> id.ancestors[Min(found)]
                          [] OTHER                           -> None)
  BY DEF Closest
<1>5. CASE id.self.exe = e
  BY <1>1, <1>4, <1>5 DEF InTree
<1>6. CASE id.self.exe # e
  <2>1. found # {} /\ Closest(id, e) = id.ancestors[Min(found)]
    BY <1>4, <1>6
  <2>2. Min(found) \in DOMAIN id.ancestors /\ id.ancestors[Min(found)].exe = e
    BY <1>3, <2>1
  <2> HIDE DEF found
  <2> QED
    BY <1>1, <2>1, <2>2 DEF InTree
<1> QED
  BY <1>5, <1>6

\* The root of a prompt runs what the target runs.
LEMMA BrowserRootOK ==
  ASSUME NEW id \in Identity
  PROVE  /\ BrowserRoot(id) \in Stable /\ BrowserRoot(id).exe = id.self.exe
         /\ InTree(id, BrowserRoot(id))
<1> DEFINE same == {k \in DOMAIN id.ancestors : id.ancestors[k].exe = id.self.exe}
<1>1. id.ancestors \in Seq(Stable) /\ id.self \in Stable
  BY DEF Identity
<1>2. Len(id.ancestors) \in Nat /\ same \subseteq 0..Len(id.ancestors)
  BY <1>1
<1>3. BrowserRoot(id) = IF same = {} THEN id.self ELSE id.ancestors[Max(same)]
  BY DEF BrowserRoot
<1>4. same # {} => Max(same) \in same
  <2> HIDE DEF same
  <2> QED
    BY <1>2, MaxIn
<1>5. CASE same = {}
  BY <1>1, <1>3, <1>5 DEF InTree
<1>6. CASE same # {}
  <2>1. Max(same) \in DOMAIN id.ancestors /\ id.ancestors[Max(same)].exe = id.self.exe
    BY <1>4, <1>6
  <2> HIDE DEF same
  <2> QED
    BY <1>1, <1>3, <1>6, <2>1 DEF InTree
<1> QED
  BY <1>5, <1>6

\* A process of a tree descends from its root.
LEMMA InTreeOK ==
  ASSUME NEW pid, NEW id, IdentityOf(id, pid), NEW root, InTree(id, root)
  PROVE  root \in Stable /\ root.inst \in {id.self.inst} \union Range(Lineage[id.self.inst])
BY DEF IdentityOf, Identity, InTree

LEMMA MigrationDetailsOK ==
  ASSUME NEW pid, NEW id, IdentityOf(id, pid), IsTrustedBrowser(id),
         NEW r \in Resource, KindOf[r] = "browser"
  PROVE  MigrationDetails(r, id) \in MigDetails
<1> DEFINE i == id.self.inst
           e == id.self.exe
           j == BrowserRoot(id).inst
<1>1. id \in Identity /\ id.self \in Stable /\ i \in Proc /\ e \in Exe
  BY DEF IdentityOf, Identity, Stable
<1>2. e \in Trusted
  BY <1>1 DEF IsTrustedBrowser, BrowserOfIdentity, Trusted
<1>3. BrowserRoot(id) \in Stable /\ BrowserRoot(id).exe = e /\ InTree(id, BrowserRoot(id))
  BY <1>1, BrowserRootOK
<1>4. j \in {i} \union Range(Lineage[i])
  BY <1>3, InTreeOK
<1>5. j \in {i} \union {Lineage[i][k] : k \in DOMAIN Lineage[i]}
  BY <1>4 DEF Range
<1>6. ProfileOf[r] \in Profile
  BY CoreAssumption
<1>7. /\ id.self = [inst |-> i, exe |-> e] /\ BrowserRoot(id) = [inst |-> j, exe |-> e]
  BY <1>1, <1>3 DEF Stable
<1> HIDE DEF i, e, j
<1>8. MigrationDetails(r, id) = [target |-> [inst |-> i, exe |-> e], root |-> [inst |-> j, exe |-> e],
                                 profile |-> ProfileOf[r]]
  BY <1>7 DEF MigrationDetails
<1> QED
  BY <1>1, <1>2, <1>5, <1>6, <1>8 DEF MigDetails

LEMMA SshDetailsOK ==
  ASSUME NEW pid, NEW id, IdentityOf(id, pid), NEW r \in Resource, KindOf[r] = "ssh"
  PROVE  SshDetails(r, id) \in SshDetailsSet
BY DEF IdentityOf, Identity, SshDetails, SshDetailsSet, SshKeys

\* What the details of a migration are.
LEMMA MigDetailsAre ==
  ASSUME NEW d \in MigDetails
  PROVE  /\ d.target \in Stable /\ d.root \in Stable /\ d.profile \in Profile
         /\ d.target.exe \in Trusted /\ d.root.exe = d.target.exe
         /\ MigKeyOf[d] \in MigKey /\ MigScopeOf[d] \in MigScope
         /\ MigKeyOf[d] = [uid |-> UidOf[d.target.inst], root |-> d.root, profile |-> d.profile]
         /\ MigScopeOf[d] = [uid |-> UidOf[d.target.inst], profile |-> d.profile, exe |-> d.target.exe]
<1>1. PICK i \in Proc : \E j \in {i} \union {Lineage[i][k] : k \in DOMAIN Lineage[i]},
                           e \in Trusted, f \in Profile :
        d = [target |-> [inst |-> i, exe |-> e], root |-> [inst |-> j, exe |-> e], profile |-> f]
  BY DEF MigDetails
<1>2. PICK j \in {i} \union {Lineage[i][k] : k \in DOMAIN Lineage[i]}, e \in Trusted, f \in Profile :
        d = [target |-> [inst |-> i, exe |-> e], root |-> [inst |-> j, exe |-> e], profile |-> f]
  BY <1>1
<1>3. j \in Proc /\ e \in Exe
  BY ProcessAssumption, CoreAssumption DEF Trusted
<1>4. /\ d.target \in Stable /\ d.root \in Stable /\ d.profile \in Profile
      /\ d.target.exe \in Trusted /\ d.root.exe = d.target.exe
  BY <1>2, <1>3 DEF Stable
<1> QED
  BY <1>4 DEF MigKeyOf, MigScopeOf, MigKey, MigScope

LEMMA SshDetailsAre ==
  ASSUME NEW d \in SshDetailsSet
  PROVE  /\ d.target \in Stable /\ d.res \in SshKeys /\ d.res \in Resource
         /\ SshKeyOf[d] \in SshKey
         /\ SshKeyOf[d] = [uid |-> UidOf[d.target.inst], res |-> d.res, root |-> d.target]
BY DEF SshDetailsSet, SshKeys, SshKey, SshKeyOf

-----------------------------------------------------------------------------
(***************************************************************************)
(* The stores and the leases keep their types.                             *)
(***************************************************************************)
LEMMA MigCleanupOK ==
  ASSUME World, MigOK
  PROVE  /\ Mig!Cleanup(migBlocked) \in [MigKey -> 0..MaxNow]
         /\ Mig!Cleanup(migRecent) \in [MigScope -> 0..MaxNow]
BY EngineAssumption DEF World, MigOK, Mig!Cleanup

LEMMA SshCleanupOK ==
  ASSUME World, SshOK
  PROVE  Ssh!Cleanup(sshBlocked) \in [SshKey -> 0..MaxNow]
BY EngineAssumption DEF World, SshOK, Ssh!Cleanup

\* The store keeps its types: a request joins, comes or goes.
LEMMA MigEnqueueOK ==
  ASSUME World, MigOK, NEW p \in Perm, NEW d \in MigDetails, Mig!Enqueue(p, d)
  PROVE  MigOK'
<1>1. Mig!SatAdd(now, Timeout) \in 0..MaxNow
  <2>1. now \in 0..MaxNow /\ Timeout \in Nat /\ MaxNow \in Nat
    BY GuarddAssumption, EngineAssumption DEF World
  <2> QED
    BY <2>1 DEF Mig!SatAdd
<1>2. migRequests' \subseteq Mig!Request /\ migNextId' \in Nat
  <2>1. CASE UNCHANGED <<migRequests, migNextId>>
    BY <2>1 DEF MigOK
  <2>2. CASE Mig!JoinRequest(p, d)
    <3>1. PICK r \in migRequests : migRequests' = (migRequests \ {r}) \union {[r EXCEPT !.perms = @ \union {p}]}
      BY <2>2 DEF Mig!JoinRequest, Mig!Pending
    <3>2. r \in Mig!Request
      BY DEF MigOK
    <3>3. [r EXCEPT !.perms = @ \union {p}] \in Mig!Request
      BY <3>2 DEF Mig!Request
    <3> QED
      BY <2>2, <3>1, <3>3 DEF MigOK, Mig!JoinRequest
  <2>3. CASE Mig!CreateRequest(p, d)
    <3>1. /\ migNextId' = migNextId + 1
          /\ migRequests' = migRequests \union {[id |-> migNextId + 1, details |-> d, perms |-> {p},
                                             expires |-> Mig!SatAdd(now, Timeout)]}
      BY <2>3 DEF Mig!CreateRequest
    <3>2. [id |-> migNextId + 1, details |-> d, perms |-> {p}, expires |-> Mig!SatAdd(now, Timeout)]
            \in Mig!Request
      BY <1>1 DEF MigOK, Mig!Request
    <3>3. migRequests \subseteq Mig!Request /\ migNextId \in Nat
      BY DEF MigOK
    <3> QED
      BY <3>1, <3>2, <3>3
  <2> QED
    BY <2>1, <2>2, <2>3 DEF Mig!Enqueue, Mig!DenySuppressed, Mig!DenyFullRequest,
       Mig!ReturnRecentlyApproved, Mig!DenyFullStore
<1>3. migBlocked' = Mig!Cleanup(migBlocked) /\ migRecent' = Mig!Cleanup(migRecent)
  BY DEF Mig!Enqueue
<1> QED
  BY <1>2, <1>3, MigCleanupOK DEF MigOK

LEMMA MigRemoveOK ==
  ASSUME World, MigOK, UNCHANGED migNextId, migRequests' \subseteq migRequests,
         \/ migBlocked' = Mig!Cleanup(migBlocked)
         \/ migBlocked' = migBlocked
         \/ \E d \in MigDetails : migBlocked' = [migBlocked EXCEPT ![MigKeyOf[d]] = Mig!SatAdd(now, BlockSuppression)],
         \/ migRecent' = Mig!Cleanup(migRecent)
         \/ migRecent' = migRecent
         \/ \E kept \in {migRecent, Mig!Cleanup(migRecent)}, s \in MigScope :
              migRecent' = [kept EXCEPT ![s] = Mig!SatAdd(now, ApprovalGrace)]
  PROVE  MigOK'
<1>1. \A x \in Nat : Mig!SatAdd(now, x) \in 0..MaxNow
  <2>1. now \in 0..MaxNow /\ MaxNow \in Nat
    BY EngineAssumption DEF World
  <2> QED
    BY <2>1 DEF Mig!SatAdd
<1>2. BlockSuppression \in Nat /\ ApprovalGrace \in Nat
  BY GuarddAssumption
<1>3. migBlocked' \in [MigKey -> 0..MaxNow]
  BY <1>1, <1>2, MigCleanupOK, MigDetailsAre DEF MigOK
<1>4. migRecent' \in [MigScope -> 0..MaxNow]
  BY <1>1, <1>2, MigCleanupOK DEF MigOK
<1> QED
  BY <1>3, <1>4 DEF MigOK

\* The store keeps its types: a request joins, comes or goes.
LEMMA SshEnqueueOK ==
  ASSUME World, SshOK, NEW p \in Perm, NEW d \in SshDetailsSet, Ssh!Enqueue(p, d)
  PROVE  SshOK'
<1>1. Ssh!SatAdd(now, Timeout) \in 0..MaxNow
  <2>1. now \in 0..MaxNow /\ Timeout \in Nat /\ MaxNow \in Nat
    BY GuarddAssumption, EngineAssumption DEF World
  <2> QED
    BY <2>1 DEF Ssh!SatAdd
<1>2. sshRequests' \subseteq Ssh!Request /\ sshNextId' \in Nat
  <2>1. CASE UNCHANGED <<sshRequests, sshNextId>>
    BY <2>1 DEF SshOK
  <2>2. CASE Ssh!JoinRequest(p, d)
    <3>1. PICK r \in sshRequests : sshRequests' = (sshRequests \ {r}) \union {[r EXCEPT !.perms = @ \union {p}]}
      BY <2>2 DEF Ssh!JoinRequest, Ssh!Pending
    <3>2. r \in Ssh!Request
      BY DEF SshOK
    <3>3. [r EXCEPT !.perms = @ \union {p}] \in Ssh!Request
      BY <3>2 DEF Ssh!Request
    <3> QED
      BY <2>2, <3>1, <3>3 DEF SshOK, Ssh!JoinRequest
  <2>3. CASE Ssh!CreateRequest(p, d)
    <3>1. /\ sshNextId' = sshNextId + 1
          /\ sshRequests' = sshRequests \union {[id |-> sshNextId + 1, details |-> d, perms |-> {p},
                                             expires |-> Ssh!SatAdd(now, Timeout)]}
      BY <2>3 DEF Ssh!CreateRequest
    <3>2. [id |-> sshNextId + 1, details |-> d, perms |-> {p}, expires |-> Ssh!SatAdd(now, Timeout)]
            \in Ssh!Request
      BY <1>1 DEF SshOK, Ssh!Request
    <3>3. sshRequests \subseteq Ssh!Request /\ sshNextId \in Nat
      BY DEF SshOK
    <3> QED
      BY <3>1, <3>2, <3>3
  <2> QED
    BY <2>1, <2>2, <2>3 DEF Ssh!Enqueue, Ssh!DenySuppressed, Ssh!DenyFullRequest,
       Ssh!ReturnRecentlyApproved, Ssh!DenyFullStore
<1>3. sshBlocked' = Ssh!Cleanup(sshBlocked)
  BY DEF Ssh!Enqueue
<1> QED
  BY <1>2, <1>3, SshCleanupOK DEF SshOK

LEMMA SshRemoveOK ==
  ASSUME World, SshOK, UNCHANGED sshNextId, sshRequests' \subseteq sshRequests,
         \/ sshBlocked' = Ssh!Cleanup(sshBlocked)
         \/ sshBlocked' = sshBlocked
         \/ \E d \in SshDetailsSet : sshBlocked' = [sshBlocked EXCEPT ![SshKeyOf[d]] = Ssh!SatAdd(now, BlockSuppression)]
  PROVE  SshOK'
<1>1. \A x \in Nat : Ssh!SatAdd(now, x) \in 0..MaxNow
  <2>1. now \in 0..MaxNow /\ MaxNow \in Nat
    BY EngineAssumption DEF World
  <2> QED
    BY <2>1 DEF Ssh!SatAdd
<1>2. BlockSuppression \in Nat /\ ApprovalGrace \in Nat
  BY GuarddAssumption
<1>3. sshBlocked' \in [SshKey -> 0..MaxNow]
  BY <1>1, <1>2, SshCleanupOK, SshDetailsAre DEF SshOK
<1> QED
  BY <1>3 DEF SshOK

\* A lease of a process or an executable is pushed, changed or revoked.
LEMMA ExpiryOK ==
  ASSUME World, NEW x \in Nat
  PROVE  Expiry(x) \in Nat
<1>1. now \in Nat /\ MaxNow \in Nat
  BY EngineAssumption DEF World
<1> QED
  BY <1>1 DEF Expiry

LEMMA RefreshOK ==
  ASSUME LeasesOK, NEW pid, NEW id, IdentityOf(id, pid), NEW r
  PROVE  /\ Refreshed(r, id) \in Seq(MigrationLease) /\ DOMAIN Refreshed(r, id) = DOMAIN migration
         /\ RefreshedReads \in Seq(SshReadLease) /\ DOMAIN RefreshedReads = DOMAIN sshRead
<1>1. ASSUME NEW l \in MigrationLease PROVE RefreshLease(l, r, id) \in MigrationLease
  <2>1. Closest(id, l.exe) # None => Closest(id, l.exe) \in Stable
    BY ClosestOK DEF IdentityOf
  <2> QED
    BY <2>1 DEF RefreshLease, MigrationLease
<1>2. /\ migration \in Seq(MigrationLease) /\ Len(migration) \in Nat
      /\ DOMAIN migration = 1..Len(migration) /\ \A k \in DOMAIN migration : migration[k] \in MigrationLease
  BY DEF LeasesOK
<1>3. Refreshed(r, id) \in Seq(MigrationLease) /\ DOMAIN Refreshed(r, id) = DOMAIN migration
  BY <1>1, <1>2 DEF Refreshed
<1>4. /\ sshRead \in Seq(SshReadLease) /\ Len(sshRead) \in Nat
      /\ DOMAIN sshRead = 1..Len(sshRead) /\ \A k \in DOMAIN sshRead : sshRead[k] \in SshReadLease
  BY DEF LeasesOK
<1>5. \A k \in DOMAIN sshRead :
        [sshRead[k] EXCEPT !.revoked = @ \/ ~Alive(sshRead[k].root)] \in SshReadLease
  BY <1>4 DEF SshReadLease
<1>6. RefreshedReads \in Seq(SshReadLease) /\ DOMAIN RefreshedReads = DOMAIN sshRead
  BY <1>4, <1>5 DEF RefreshedReads
<1> QED
  BY <1>3, <1>6

LEMMA ApplyOK ==
  ASSUME LeasesOK, NEW pid, NEW id, IdentityOf(id, pid), NEW r, Apply(r, id)
  PROVE  LeasesOK'
<1>1. migration' \in Seq(MigrationLease) /\ sshRead' \in Seq(SshReadLease)
  BY RefreshOK DEF Apply
<1>2. \A k : [sshLoad EXCEPT ![k].used = TRUE] \in Seq(SshLoadLease)
  <2>1. \A l \in SshLoadLease : [l EXCEPT !.used = TRUE] \in SshLoadLease
    BY DEF SshLoadLease
  <2>2. \A k \in DOMAIN sshLoad : sshLoad[k] \in SshLoadLease
    BY DEF LeasesOK
  <2> QED
    BY <2>1, <2>2, ExceptOK DEF LeasesOK
<1>3. sshLoad' \in Seq(SshLoadLease)
  BY <1>2 DEF Apply, LeasesOK
<1> QED
  BY <1>1, <1>3 DEF LeasesOK

LEMMA ApproveMigrationOK ==
  ASSUME World, LeasesOK, NEW d \in MigDetails, NEW ok \in BOOLEAN, ApproveMigration(d, ok)
  PROVE  LeasesOK'
<1>1. Expiry(MigrationDuration) \in Nat
  BY ExpiryOK, EngineAssumption
<1>2. BoundLease(d, Expiry(MigrationDuration)) \in MigrationLease
  <2>1. /\ d.target.inst \in Proc /\ d.root \in Stable /\ d.root.exe \in Exe /\ d.profile \in Profile
        /\ d.target.exe \in Trusted
    BY MigDetailsAre DEF Stable
  <2>2. BrowserOfExe[d.target.exe] \in Browser /\ UidOf[d.target.inst] \in Uid
    BY <2>1, CoreAssumption DEF Trusted
  <2> QED
    BY <1>1, <2>1, <2>2 DEF BoundLease, MigrationLease
<1> QED
  BY <1>2 DEF LeasesOK, ApproveMigration

LEMMA ApproveReadOK ==
  ASSUME World, LeasesOK, NEW d \in SshDetailsSet, NEW ok \in BOOLEAN, ApproveRead(d, ok)
  PROVE  LeasesOK'
<1>1. Expiry(ReadDuration) \in Nat
  BY ExpiryOK, EngineAssumption
<1>2. ReadLease(d, Expiry(ReadDuration)) \in SshReadLease
  <2>1. d.target \in Stable /\ d.target.inst \in Proc /\ d.res \in Resource
    BY SshDetailsAre DEF Stable
  <2>2. UidOf[d.target.inst] \in Uid
    BY <2>1, CoreAssumption
  <2> QED
    BY <1>1, <2>1, <2>2 DEF ReadLease, SshReadLease
<1> QED
  BY <1>2 DEF LeasesOK, ApproveRead

\* Whichever of the two is approved, the cache has what /proc shows now.
LEMMA ApprovalCacheOK ==
  ASSUME World, CacheOK, NEW i \in Proc, Remember(PidOf[i], Fresh(PidOf[i]))
  PROVE  CacheOK'
<1>1. PidOf[i] \in Pid
  BY DEF Pid
<1> QED
  BY <1>1, FreshOK, RememberOK

LEMMA GrantOK ==
  ASSUME World, LeasesOK, ipc.job \in Job,
         \/ ipc.job.op = "arm" /\ Arm(ipc.job.profile, ipc.job.exe, ipc.job.uid)
         \/ ipc.job.op = "load" /\ AuthorizeLoad(ipc.job.res, ipc.job.uid, ipc.job.child, ipc.job.agent)
  PROVE  LeasesOK'
<1>1. Expiry(MigrationDuration) \in Nat /\ Expiry(LoadDuration) \in Nat
  BY ExpiryOK, EngineAssumption
<1>2. CASE ipc.job.op = "arm" /\ Arm(ipc.job.profile, ipc.job.exe, ipc.job.uid)
  <2>1. ipc.job.profile \in Profile /\ ipc.job.exe \in {e \in Exe : BrowserOfExe[e] # None} /\ ipc.job.uid \in Uid
    BY <1>2 DEF Job
  <2>2. BrowserOfExe[ipc.job.exe] \in Browser
    BY <2>1, CoreAssumption
  <2>3. [profile |-> ipc.job.profile, target |-> BrowserOfExe[ipc.job.exe], uid |-> ipc.job.uid,
         state |-> "armed", exe |-> ipc.job.exe, root |-> None,
         expires |-> Expiry(MigrationDuration), revoked |-> FALSE] \in MigrationLease
    BY <1>1, <2>1, <2>2 DEF MigrationLease
  <2> QED
    BY <1>2, <2>3 DEF Arm, LeasesOK
<1>3. CASE /\ ipc.job.op = "load"
           /\ AuthorizeLoad(ipc.job.res, ipc.job.uid, ipc.job.child, ipc.job.agent)
  <2>1. ipc.job.res \in Resource /\ ipc.job.uid \in Uid /\ ipc.job.child \in Proc /\ ipc.job.agent \in Agent
    BY <1>3 DEF Job
  <2>2. StartOf[ipc.job.child] \in Nat /\ SshAdd \in Exe
    BY <2>1, CoreAssumption, EngineAssumption
  <2>3. [res |-> ipc.job.res, uid |-> ipc.job.uid, agent |-> ipc.job.agent,
         target |-> [exe |-> SshAdd, start |-> StartOf[ipc.job.child]],
         expires |-> Expiry(LoadDuration), revoked |-> FALSE, used |-> FALSE] \in SshLoadLease
    BY <1>1, <2>1, <2>2 DEF SshLoadLease
  <2> QED
    BY <1>3, <2>3 DEF AuthorizeLoad, LeasesOK
<1> QED
  BY <1>2, <1>3

LEMMA RevokeOK ==
  ASSUME LeasesOK, NEW k, RevokeMigration(k) \/ RevokeLoad(k) \/ RevokeRead(k)
  PROVE  LeasesOK'
<1>1. [migration EXCEPT ![k].revoked = TRUE] \in Seq(MigrationLease)
  <2>1. \A l \in MigrationLease : [l EXCEPT !.revoked = TRUE] \in MigrationLease
    BY DEF MigrationLease
  <2>2. k \in DOMAIN migration => migration[k] \in MigrationLease
    BY DEF LeasesOK
  <2> QED
    BY <2>1, <2>2, ExceptOK DEF LeasesOK
<1>2. [sshLoad EXCEPT ![k].revoked = TRUE] \in Seq(SshLoadLease)
  <2>1. \A l \in SshLoadLease : [l EXCEPT !.revoked = TRUE] \in SshLoadLease
    BY DEF SshLoadLease
  <2>2. k \in DOMAIN sshLoad => sshLoad[k] \in SshLoadLease
    BY DEF LeasesOK
  <2> QED
    BY <2>1, <2>2, ExceptOK DEF LeasesOK
<1>3. [sshRead EXCEPT ![k].revoked = TRUE] \in Seq(SshReadLease)
  <2>1. \A l \in SshReadLease : [l EXCEPT !.revoked = TRUE] \in SshReadLease
    BY DEF SshReadLease
  <2>2. k \in DOMAIN sshRead => sshRead[k] \in SshReadLease
    BY DEF LeasesOK
  <2> QED
    BY <2>1, <2>2, ExceptOK DEF LeasesOK
<1> QED
  BY <1>1, <1>2, <1>3 DEF RevokeMigration, RevokeLoad, RevokeRead, LeasesOK

-----------------------------------------------------------------------------
(***************************************************************************)
(* Every step keeps the types.                                             *)
(***************************************************************************)
LEMMA InitTyped == Init => Typed
<1> SUFFICES ASSUME Init PROVE Typed
  OBVIOUS
<1>1. World
  BY ProcessAssumption, EngineAssumption DEF Init, InitProcs, World
<1>2. CacheOK /\ LeasesOK
  BY DEF Init, CacheOK, LeasesOK
<1>3. MigOK /\ SshOK
  BY EngineAssumption DEF Init, MigOK, SshOK
<1>4. AboutOK
  BY DEF Init, AboutOK, MainAbouts
<1>5. IpcOK
  BY DEF Init, IpcOK, Idle, Swept
<1> QED
  BY <1>1, <1>2, <1>3, <1>4, <1>5 DEF Typed

LEMMA WorldNext == World /\ [Next]_vars => World'
<1> SUFFICES ASSUME World, [Next]_vars PROVE World'
  OBVIOUS
<1>1. CASE (\E i \in Proc : Spawn(i)) \/ \E i \in Mortal : Exit(i)
  BY <1>1 DEF World, Spawn, Exit, SpawnProc, ExitProc
<1>2. CASE \E x \in Execs : Exec(x[1], x[2])
  <2>1. PICK x \in Execs : Exec(x[1], x[2])
    BY <1>2
  <2>2. x[2] \in Exe
    BY ProcessAssumption DEF World, Execs
  <2> QED
    BY <2>1, <2>2 DEF World, Exec, ExecProc
<1>3. CASE \E p \in Perm, a \in Opens : Open(p, a)
  <2>1. PICK p \in Perm, a \in Opens : Open(p, a)
    BY <1>3
  <2>2. a \in Access
    BY GuarddAssumption DEF World, Opens, Access
  <2> QED
    BY <2>1, <2>2 DEF World, Open, procs
<1>4. CASE Tick
  <2>1. now \in Nat /\ Horizon \in 0..MaxNow /\ MaxNow \in Nat
    BY GuarddAssumption, EngineAssumption DEF World, Horizon
  <2>2. now + 1 \in 0..MaxNow
    BY <1>4, <2>1 DEF Tick
  <2> QED
    BY <1>4, <2>2 DEF World, Tick, procs
<1>5. CASE MainStep
  <2>1. UNCHANGED <<now, life, exe, scenario, ask>>
    BY <1>5 DEF MainStep, MainExpireMigrations, MainExpireReads, MainRead, MainDecideOpen,
       MainDecideUnknown, MainPanic, MainDecide, MainDetails, MainEnqueueMigration, MainEnqueueRead,
       MainRecent, outside, procs
  <2> QED
    BY <2>1 DEF World
<1>6. CASE IpcRequest \/ IpcStep
  <2>1. UNCHANGED <<now, life, exe, scenario, ask>>
    BY <1>6 DEF IpcRequest, IpcResolveMigration, IpcResolveRead, IpcAuthorizeMigration,
       IpcAuthorizeLoad, Begin, IpcRevoke, IpcStep, IpcAuthenticate, IpcTakeMigration, IpcTakeRead,
       IpcDeny, IpcApproveMigration, IpcApproveRead, IpcRecord, IpcAllow, IpcSibling, IpcArm, IpcLoad,
       IpcDeliver, beside, procs
  <2> QED
    BY <2>1 DEF World
<1>7. CASE UNCHANGED vars
  BY <1>7 DEF vars, procs, World
<1> QED
  BY <1>1, <1>2, <1>3, <1>4, <1>5, <1>6, <1>7 DEF Next, Environment

\* What a step leaves alone keeps its type.
LEMMA Still ==
  ASSUME Typed
  PROVE  /\ UNCHANGED cache => CacheOK'
         /\ UNCHANGED leases => LeasesOK'
         /\ UNCHANGED migStore => MigOK'
         /\ UNCHANGED sshStore => SshOK'
         /\ UNCHANGED ipc => IpcOK'
BY DEF Typed, CacheOK, IdentityOf, leases, LeasesOK, migStore, MigOK, sshStore, SshOK, IpcOK, Swept

\* Processes and time.
LEMMA EnvironmentTyped ==
  ASSUME Custody, Typed, World', Environment \/ Tick \/ UNCHANGED vars
  PROVE  Typed'
<1>1. UNCHANGED <<cache, leases, migStore, sshStore, main, ipc>>
  BY DEF Environment, Spawn, Exit, Exec, Open, Tick, daemon, engine, leases, vars
<1>2. CacheOK' /\ LeasesOK' /\ MigOK' /\ SshOK' /\ IpcOK'
  BY <1>1, Still
<1>3. main.pc \in WithBatch => Res' = Res
  <2>1. Event' = Event
    BY <1>1 DEF Event
  <2>2. main.pc \in WithBatch => Event \in Perm /\ ask[Event] # None
    BY AtEvent
  <2>3. main.pc \in WithBatch => ask'[Event] = ask[Event]
    BY <2>2 DEF Typed, World, Environment, Spawn, Exit, Exec, Open, Tick, vars
  <2> QED
    BY <2>1, <2>3 DEF Res
<1>4. AboutOK'
  BY <1>1, <1>3 DEF Typed, AboutOK, WithBatch
<1> QED
  BY <1>2, <1>4 DEF Typed

\* The event the main loop is at was opened by a process, with a pid.
LEMMA EventOK ==
  ASSUME Custody, World, main.pc \in WithBatch
  PROVE  Res \in Resource /\ ask[Event].inst \in Proc /\ EvPid \in Pid
<1>1. ask[Event] \in Access
  BY AtEvent DEF World
<1> QED
  BY <1>1 DEF Access, Res, EvPid, Pid

\* The types of what the main loop asks about.
LEMMA AboutMoves ==
  ASSUME Custody, AboutOK
  PROVE  /\ NextEvent => AboutOK'
         /\ \A pc \in {"expireMigrations", "expireReads", "read", "decide"} : Goto(pc) => AboutOK'
         /\ MainRead => AboutOK'
<1>1. DOMAIN main = {"pc", "batch", "about"}
  BY DEF Custody, MainShape
<1>2. NextEvent => AboutOK'
  BY DEF NextEvent, AboutOK, MainAbouts
<1>3. ASSUME NEW pc \in {"expireMigrations", "expireReads", "read", "decide"}, Goto(pc)
      PROVE  AboutOK'
  BY <1>1, <1>3 DEF Goto, AboutOK
<1>4. ASSUME MainRead PROVE AboutOK'
  <2>1. main'.about = main.about /\ main'.pc \in {"expireMigrations", "decide"}
    BY <1>1, <1>4 DEF MainRead, Goto
  <2> QED
    BY <2>1 DEF AboutOK
<1> QED
  BY <1>2, <1>3, <1>4

LEMMA MainTyped ==
  ASSUME Custody, Typed, World', MainStep
  PROVE  Typed'
<1> USE DEF Typed
<1>1. CASE MainExpireMigrations
  <2>1. MigOK'
    <3>1. /\ UNCHANGED migNextId /\ migRequests' \subseteq migRequests
          /\ migBlocked' = Mig!Cleanup(migBlocked) /\ migRecent' = Mig!Cleanup(migRecent)
      BY <1>1 DEF MainExpireMigrations, Mig!Expire, Mig!Remove
    <3> QED
      BY <3>1, MigRemoveOK
  <2>2. CacheOK' /\ LeasesOK' /\ SshOK' /\ IpcOK'
    BY <1>1, Still DEF MainExpireMigrations, engine, leases
  <2>3. AboutOK'
    BY <1>1, AboutMoves DEF MainExpireMigrations
  <2> QED
    BY <2>1, <2>2, <2>3
<1>2. CASE MainExpireReads
  <2>1. SshOK'
    <3>1. /\ UNCHANGED sshNextId /\ sshRequests' \subseteq sshRequests
          /\ sshBlocked' = Ssh!Cleanup(sshBlocked)
      BY <1>2 DEF MainExpireReads, Ssh!Expire, Ssh!Remove
    <3> QED
      BY <3>1, SshRemoveOK
  <2>2. CacheOK' /\ LeasesOK' /\ MigOK' /\ IpcOK'
    BY <1>2, Still DEF MainExpireReads, engine, leases
  <2>3. AboutOK'
    BY <1>2, AboutMoves DEF MainExpireReads
  <2> QED
    BY <2>1, <2>2, <2>3
<1>3. CASE MainRead \/ MainDecideOpen \/ MainPanic
  <2>1. CacheOK' /\ LeasesOK' /\ MigOK' /\ SshOK' /\ IpcOK'
    BY <1>3, Still DEF MainRead, MainDecideOpen, MainPanic, engine, leases
  <2>2. AboutOK'
    <3>1. MainPanic => UNCHANGED <<main, ask>>
      BY DEF MainPanic, outside
    <3> QED
      BY <1>3, <3>1, AboutMoves DEF MainDecideOpen, Finish, AboutOK, Res, Event
  <2> QED
    BY <2>1, <2>2
<1>4. CASE MainDecideUnknown
  <2>1. main.pc \in WithBatch
    BY <1>4 DEF MainDecideUnknown, ToDecide, MainAt, WithBatch
  <2>2. CacheOK'
    BY <1>4, <2>1, EventOK, RememberOK DEF MainDecideUnknown
  <2>3. LeasesOK' /\ MigOK' /\ SshOK' /\ IpcOK'
    BY <1>4, Still DEF MainDecideUnknown
  <2>4. AboutOK'
    BY <1>4, AboutMoves DEF MainDecideUnknown, Finish
  <2> QED
    BY <2>2, <2>3, <2>4
<1>5. CASE MainDecide
  <2> DEFINE id == Resolve(EvPid)
  <2>1. main.pc \in WithBatch /\ main.pc = "decide"
    BY <1>5 DEF MainDecide, ToDecide, MainAt, WithBatch
  <2>2. EvPid \in Pid /\ IdentityOf(id, EvPid)
    BY <1>5, <2>1, EventOK, ResolveOK DEF MainDecide
  <2>3. CacheOK'
    BY <1>5, <2>2, RememberOK DEF MainDecide
  <2>4. LeasesOK'
    BY <1>5, <2>2, ApplyOK DEF MainDecide
  <2>5. MigOK' /\ SshOK' /\ IpcOK'
    BY <1>5, Still DEF MainDecide
  <2>6. AboutOK'
    <3>1. NextEvent \/ main' = [main EXCEPT !.pc = "details", !.about = BrowserOfIdentity(id)]
      BY <1>5 DEF MainDecide, Finish
    <3>2. BrowserOfIdentity(id) \in Browser \union {None}
      BY <2>2, CoreAssumption DEF BrowserOfIdentity, IdentityOf, Identity, Stable
    <3>3. CASE main' = [main EXCEPT !.pc = "details", !.about = BrowserOfIdentity(id)]
      <4>1. main'.pc = "details" /\ main'.about = BrowserOfIdentity(id)
        BY <3>3 DEF Custody, MainShape
      <4> QED
        BY <3>2, <4>1 DEF AboutOK, MainAbouts
    <3> QED
      BY <3>1, <3>3, AboutMoves
  <2> QED
    BY <2>3, <2>4, <2>5, <2>6
<1>6. CASE MainDetails
  <2> DEFINE id == Resolve(EvPid)
             d == IF KindOf[Res] = "ssh" THEN SshDetails(Res, id) ELSE MigrationDetails(Res, id)
  <2>1. main.pc \in WithBatch /\ main.pc = "details"
    BY <1>6 DEF MainDetails, MainAt, WithBatch
  <2>2. EvPid \in Pid /\ (id # None => IdentityOf(id, EvPid)) /\ Res \in Resource
    BY <2>1, EventOK, ResolveOK
  <2>3. CacheOK'
    BY <1>6, <2>2, RememberOK DEF MainDetails
  <2>4. LeasesOK' /\ MigOK' /\ SshOK' /\ IpcOK'
    BY <1>6, Still DEF MainDetails
  <2>5. AboutOK'
    <3>1. CASE NextEvent
      BY <3>1, AboutMoves
    <3>2. CASE ~NextEvent
      <4>1. /\ main' = [main EXCEPT !.pc = "enqueue", !.about = d] /\ id # None
            /\ IF KindOf[Res] = "ssh" THEN UidOfIdentity(id) = OwnerOf[Res]
               ELSE MayAskMigration(Res, id, main.about)
            /\ UNCHANGED ask
        BY <1>6, <3>2 DEF MainDetails, Finish, outside
      <4>2. d \in IF KindOf[Res] = "ssh" THEN SshDetailsSet ELSE MigDetails
        <5>1. CASE KindOf[Res] = "ssh"
          BY <2>2, <4>1, <5>1, SshDetailsOK
        <5>2. CASE KindOf[Res] # "ssh"
          <6>1. KindOf[Res] = "browser" /\ IsTrustedBrowser(id)
            BY <2>2, <4>1, <5>2, CoreAssumption DEF MayAskMigration
          <6> QED
            BY <2>2, <4>1, <5>2, <6>1, MigrationDetailsOK
        <5> QED
          BY <5>1, <5>2
      <4> HIDE DEF d
      <4>3. main'.pc = "enqueue" /\ main'.about = d /\ main'.batch = main.batch
        BY <4>1 DEF Custody, MainShape
      <4>4. Res' = Res
        BY <4>1, <4>3 DEF Res, Event
      <4> QED
        BY <4>2, <4>3, <4>4 DEF AboutOK, MainAbouts
    <3> QED
      BY <3>1, <3>2
  <2> QED
    BY <2>3, <2>4, <2>5
<1>7. CASE MainEnqueueMigration
  <2>1. /\ main.pc = "enqueue" /\ main.pc \in WithBatch /\ KindOf[Res] # "ssh"
        /\ Mig!Enqueue(Event, main.about)
    BY <1>7 DEF MainEnqueueMigration, MainAt, WithBatch
  <2>2. Event \in Perm /\ main.about \in MigDetails
    BY <2>1, AtEvent DEF AboutOK
  <2>3. MigOK'
    BY <2>1, <2>2, MigEnqueueOK
  <2>4. CacheOK' /\ LeasesOK' /\ SshOK' /\ IpcOK'
    BY <1>7, Still DEF MainEnqueueMigration, engine, leases
  <2>5. AboutOK'
    <3>1. Goto("recent") \/ NextEvent
      BY <1>7 DEF MainEnqueueMigration
    <3>2. CASE Goto("recent")
      <4>1. main'.pc = "recent" /\ main'.about = main.about
        BY <3>2 DEF Goto, Custody, MainShape
      <4> QED
        BY <2>2, <4>1 DEF AboutOK
    <3> QED
      BY <3>1, <3>2, AboutMoves
  <2> QED
    BY <2>3, <2>4, <2>5
<1>8. CASE MainEnqueueRead
  <2>1. /\ main.pc = "enqueue" /\ main.pc \in WithBatch /\ KindOf[Res] = "ssh"
        /\ Ssh!Enqueue(Event, main.about)
    BY <1>8 DEF MainEnqueueRead, MainAt, WithBatch
  <2>2. Event \in Perm /\ main.about \in SshDetailsSet
    BY <2>1, AtEvent DEF AboutOK
  <2>3. SshOK'
    BY <2>1, <2>2, SshEnqueueOK
  <2>4. CacheOK' /\ LeasesOK' /\ MigOK' /\ IpcOK'
    BY <1>8, Still DEF MainEnqueueRead, engine, leases
  <2>5. AboutOK'
    BY <1>8, AboutMoves DEF MainEnqueueRead
  <2> QED
    BY <2>3, <2>4, <2>5
<1>9. CASE MainRecent
  <2>1. PICK ok \in BOOLEAN : ApproveMigration(main.about, ok)
    BY <1>9 DEF MainRecent
  <2>2. main.about \in MigDetails
    BY <1>9 DEF MainRecent, MainAt, AboutOK
  <2>3. LeasesOK'
    BY <2>1, <2>2, ApproveMigrationOK
  <2>4. CacheOK'
    <3>1. main.about.target.inst \in Proc
      BY <2>2, MigDetailsAre DEF Stable
    <3> QED
      BY <2>1, <3>1, ApprovalCacheOK DEF ApproveMigration
  <2>5. MigOK' /\ SshOK' /\ IpcOK'
    BY <1>9, Still DEF MainRecent
  <2>6. AboutOK'
    BY <1>9, AboutMoves DEF MainRecent, Finish
  <2> QED
    BY <2>3, <2>4, <2>5, <2>6
<1> QED
  BY <1>1, <1>2, <1>3, <1>4, <1>5, <1>6, <1>7, <1>8, <1>9 DEF MainStep

\* The IPC thread has what it had, in another place its job has.
LEMMA IpcMoves ==
  ASSUME IpcOK, Custody, ipc.pc \in {"authenticate", "approve"}, NEW pc, ipc' = [ipc EXCEPT !.pc = pc],
         \/ pc = "take" /\ ipc.job.op \in {"migration", "read"}
         \/ pc = "grant" /\ ipc.job.op \notin {"migration", "read"}
         \/ pc = "record" /\ ipc.job.op = "migration" /\ ipc.pc = "approve"
         \/ pc = "deny" /\ ipc.pc = "approve"
  PROVE  IpcOK'
<1>1. /\ DOMAIN ipc' = DOMAIN ipc /\ ipc'.pc = pc /\ "job" \in DOMAIN ipc /\ ipc.job \in Job
      /\ ipc'.job = ipc.job /\ "siblings" \notin DOMAIN ipc
  BY DEF IpcOK, Custody, IpcShape
<1>2. ipc.job.op \in {"migration", "read", "arm", "load"}
  BY <1>1 DEF Job
<1> QED
  BY <1>1, <1>2 DEF IpcOK, Swept

LEMMA IpcIdle == ipc' = Idle => IpcOK'
BY DEF Idle, IpcOK, Swept

\* A client's request starts a job.
LEMMA JobBegins ==
  ASSUME NEW job \in Job, NEW block \in BOOLEAN, Begin(job, block),
         block => job.op \in {"migration", "read"}
  PROVE  IpcOK'
<1>1. /\ DOMAIN ipc' = {"pc", "job"} /\ ipc'.job = job
      /\ ipc'.pc = IF block THEN "take" ELSE "authenticate"
  BY DEF Begin
<1> QED
  BY <1>1 DEF IpcOK, Swept

LEMMA RequestTyped ==
  ASSUME Custody, Typed, World', IpcRequest
  PROVE  Typed'
<1> USE DEF Typed
<1>1. CASE \E u \in Clients : IpcRevoke(u)
  <2>1. LeasesOK'
    BY <1>1, RevokeOK DEF IpcRevoke
  <2>2. CacheOK' /\ MigOK' /\ SshOK' /\ IpcOK'
    BY <1>1, Still DEF IpcRevoke, RevokeMigration, RevokeLoad, RevokeRead
  <2>3. AboutOK'
    BY <1>1 DEF IpcRevoke, beside, AboutOK, Res, Event
  <2> QED
    BY <2>1, <2>2, <2>3
<1>2. ASSUME NEW job \in Job, NEW block \in BOOLEAN, Begin(job, block),
             block => job.op \in {"migration", "read"}
      PROVE  Typed'
  <2>1. CacheOK' /\ LeasesOK' /\ MigOK' /\ SshOK'
    BY <1>2, Still DEF Begin, engine, leases
  <2>2. AboutOK'
    BY <1>2 DEF Begin, beside, AboutOK, Res, Event
  <2> QED
    BY <1>2, <2>1, <2>2, JobBegins
<1>3. Clients \subseteq Uid
  BY GuarddAssumption DEF Clients, World
<1>4. ASSUME NEW u \in Clients, NEW block \in BOOLEAN, NEW r \in migRequests,
             IpcResolveMigration(r, u, block)
      PROVE  Typed'
  <2>1. r.id \in Nat /\ r.details \in MigDetails
    BY DEF MigOK, Mig!Request
  <2>2. /\ Resolution("migration", r.id, r.details, u, block) \in Job
        /\ Resolution("migration", r.id, r.details, u, block).op = "migration"
    BY <1>3, <2>1 DEF Resolution, Job
  <2> QED
    BY <1>2, <1>4, <2>2 DEF IpcResolveMigration
<1>5. ASSUME NEW u \in Clients, NEW block \in BOOLEAN, NEW r \in sshRequests,
             IpcResolveRead(r, u, block)
      PROVE  Typed'
  <2>1. r.id \in Nat /\ r.details \in SshDetailsSet
    BY DEF SshOK, Ssh!Request
  <2>2. /\ Resolution("read", r.id, r.details, u, block) \in Job
        /\ Resolution("read", r.id, r.details, u, block).op = "read"
    BY <1>3, <2>1 DEF Resolution, Job
  <2> QED
    BY <1>2, <1>5, <2>2 DEF IpcResolveRead
<1>6. ASSUME NEW x \in ArmRequests, IpcAuthorizeMigration(x[1], x[2], x[3])
      PROVE  Typed'
  <2>1. x \in Uid \X Profile \X {e \in Exe : BrowserOfExe[e] # None}
    BY GuarddAssumption DEF ArmRequests, World
  <2>2. [op |-> "arm", uid |-> x[1], profile |-> x[2], exe |-> x[3]] \in Job
    BY <2>1 DEF Job
  <2> QED
    BY <1>2, <1>6, <2>2 DEF IpcAuthorizeMigration
<1>7. ASSUME NEW x \in LoadRequests, IpcAuthorizeLoad(x[1], x[2], x[3])
      PROVE  Typed'
  <2>1. x \in Proc \X Resource \X Agent
    BY GuarddAssumption DEF LoadRequests, World
  <2>2. UidOf[x[1]] \in Uid
    BY <2>1, CoreAssumption
  <2>3. [op |-> "load", uid |-> UidOf[x[1]], child |-> x[1], res |-> x[2], agent |-> x[3]] \in Job
    BY <2>1, <2>2 DEF Job
  <2> QED
    BY <1>2, <1>7, <2>3 DEF IpcAuthorizeLoad
<1> QED
  BY <1>1, <1>4, <1>5, <1>6, <1>7 DEF IpcRequest

\* A request the thread takes out of a store is in its hand.
LEMMA TakenOK ==
  ASSUME Typed, ipc.pc = "take", NEW r, ipc' = Taken(r)
  PROVE  IpcOK'
<1>1. /\ DOMAIN ipc' = {"pc", "job", "perms"} /\ ipc'.job = ipc.job
      /\ ipc'.pc \in {"deny", "approve"}
  BY DEF Taken
<1> QED
  BY <1>1 DEF Typed, IpcOK, Swept

LEMMA IpcTyped ==
  ASSUME Custody, Typed, World', IpcStep
  PROVE  Typed'
<1> USE DEF Typed
<1>1. AboutOK'
  <2>1. UNCHANGED <<main, ask>>
    BY DEF IpcStep, IpcAuthenticate, IpcTakeMigration, IpcTakeRead, IpcDeny, IpcApproveMigration,
       IpcApproveRead, IpcRecord, IpcAllow, IpcSibling, IpcArm, IpcLoad, IpcDeliver, beside
  <2> QED
    BY <2>1 DEF AboutOK, Res, Event
<1>2. CASE IpcAuthenticate
  <2>1. CacheOK' /\ LeasesOK' /\ MigOK' /\ SshOK'
    BY <1>2, Still DEF IpcAuthenticate, engine, leases
  <2>2. IpcOK'
    <3>1. ipc.pc = "authenticate"
      BY <1>2 DEF IpcAuthenticate, IpcAt
    <3>2. CASE ipc' = Idle
      BY <3>2, IpcIdle
    <3>3. CASE ipc' = [ipc EXCEPT !.pc = IF ipc.job.op \in {"migration", "read"} THEN "take" ELSE "grant"]
      <4>1. CASE ipc.job.op \in {"migration", "read"}
        BY <3>1, <3>3, <4>1, IpcMoves
      <4>2. CASE ipc.job.op \notin {"migration", "read"}
        BY <3>1, <3>3, <4>2, IpcMoves
      <4> QED
        BY <4>1, <4>2
    <3> QED
      BY <1>2, <3>2, <3>3 DEF IpcAuthenticate
  <2> QED
    BY <1>1, <2>1, <2>2
<1>3. CASE IpcTakeMigration
  <2>1. ipc.pc = "take"
    BY <1>3 DEF IpcTakeMigration, IpcAt
  <2>2. MigOK'
    <3>1. CASE UNCHANGED migStore
      BY <3>1, Still
    <3>2. CASE \E r \in WithId(migRequests) : \/ Mig!TakeTimedOut(r, ipc.job.uid)
                                             \/ Mig!TakeReady(r, ipc.job.uid, ipc.job.block)
      <4>1. PICK r \in migRequests : \/ Mig!TakeTimedOut(r, ipc.job.uid)
                                     \/ Mig!TakeReady(r, ipc.job.uid, ipc.job.block)
        BY <3>2 DEF WithId
      <4>2. r.details \in MigDetails
        BY DEF MigOK, Mig!Request
      <4>3. /\ UNCHANGED <<migNextId, migRecent>> /\ migRequests' \subseteq migRequests
            /\ \/ migBlocked' = migBlocked
               \/ migBlocked' = [migBlocked EXCEPT ![MigKeyOf[r.details]] = Mig!SatAdd(now, BlockSuppression)]
        BY <4>1 DEF Mig!TakeTimedOut, Mig!TakeReady, Mig!Remove
      <4> QED
        BY <4>2, <4>3, MigRemoveOK
    <3> QED
      BY <1>3, <3>1, <3>2 DEF IpcTakeMigration
  <2>3. CacheOK' /\ LeasesOK' /\ SshOK'
    BY <1>3, Still DEF IpcTakeMigration, engine, leases
  <2>4. IpcOK'
    BY <1>3, <2>1, IpcIdle, TakenOK DEF IpcTakeMigration
  <2> QED
    BY <1>1, <2>2, <2>3, <2>4
<1>4. CASE IpcTakeRead
  <2>1. ipc.pc = "take"
    BY <1>4 DEF IpcTakeRead, IpcAt
  <2>2. SshOK'
    <3>1. CASE UNCHANGED sshStore
      BY <3>1, Still
    <3>2. CASE \E r \in WithId(sshRequests) : \/ Ssh!TakeTimedOut(r, ipc.job.uid)
                                             \/ Ssh!TakeReady(r, ipc.job.uid, ipc.job.block)
      <4>1. PICK r \in sshRequests : \/ Ssh!TakeTimedOut(r, ipc.job.uid)
                                     \/ Ssh!TakeReady(r, ipc.job.uid, ipc.job.block)
        BY <3>2 DEF WithId
      <4>2. r.details \in SshDetailsSet
        BY DEF SshOK, Ssh!Request
      <4>3. /\ UNCHANGED sshNextId /\ sshRequests' \subseteq sshRequests
            /\ \/ sshBlocked' = sshBlocked
               \/ sshBlocked' = [sshBlocked EXCEPT ![SshKeyOf[r.details]] = Ssh!SatAdd(now, BlockSuppression)]
        BY <4>1 DEF Ssh!TakeTimedOut, Ssh!TakeReady, Ssh!Remove
      <4> QED
        BY <4>2, <4>3, SshRemoveOK
    <3> QED
      BY <1>4, <3>1, <3>2 DEF IpcTakeRead
  <2>3. CacheOK' /\ LeasesOK' /\ MigOK'
    BY <1>4, Still DEF IpcTakeRead, engine, leases
  <2>4. IpcOK'
    BY <1>4, <2>1, IpcIdle, TakenOK DEF IpcTakeRead
  <2> QED
    BY <1>1, <2>2, <2>3, <2>4
<1>5. CASE IpcDeny \/ IpcAllow
  <2>1. CacheOK' /\ LeasesOK' /\ MigOK' /\ SshOK'
    BY <1>5, Still DEF IpcDeny, IpcAllow, engine, leases
  <2>2. IpcOK'
    <3>1. CASE ipc' = Idle
      BY <3>1, IpcIdle
    <3>2. CASE IpcAllow /\ ipc.siblings # {}
      <4>1. DOMAIN ipc' = {"pc", "siblings"} /\ ipc'.pc = "siblings" /\ ipc'.siblings = ipc.siblings
        BY <3>2 DEF IpcAllow, Siblings
      <4>2. ipc.siblings = Swept
        BY <3>2 DEF IpcAllow, IpcAt, Custody, IpcShape, Swept
      <4> QED
        BY <4>1, <4>2 DEF IpcOK, Swept
    <3> QED
      BY <1>5, <3>1, <3>2 DEF IpcDeny, IpcAllow, Siblings
  <2> QED
    BY <1>1, <2>1, <2>2
<1>6. CASE IpcApproveMigration
  <2>1. PICK ok \in BOOLEAN : /\ ApproveMigration(ipc.job.details, ok)
                              /\ ipc' = [ipc EXCEPT !.pc = IF ok THEN "record" ELSE "deny"]
    BY <1>6 DEF IpcApproveMigration
  <2>2. ipc.pc = "approve" /\ ipc.job.op = "migration" /\ ipc.job.details \in MigDetails
    BY <1>6 DEF IpcApproveMigration, IpcAt, IpcOK, Job
  <2>3. LeasesOK'
    BY <2>1, <2>2, ApproveMigrationOK
  <2>4. CacheOK'
    <3>1. ipc.job.details.target.inst \in Proc
      BY <2>2, MigDetailsAre DEF Stable
    <3> QED
      BY <2>1, <3>1, ApprovalCacheOK DEF ApproveMigration
  <2>5. MigOK' /\ SshOK'
    BY <1>6, Still DEF IpcApproveMigration
  <2>6. IpcOK'
    BY <2>1, <2>2, IpcMoves
  <2> QED
    BY <1>1, <2>3, <2>4, <2>5, <2>6
<1>7. CASE IpcApproveRead
  <2>1. PICK ok \in BOOLEAN : ApproveRead(ipc.job.details, ok)
    BY <1>7 DEF IpcApproveRead
  <2>2. ipc.job.details \in SshDetailsSet
    BY <1>7 DEF IpcApproveRead, IpcAt, IpcOK, Job
  <2>3. LeasesOK'
    BY <2>1, <2>2, ApproveReadOK
  <2>4. CacheOK'
    <3>1. ipc.job.details.target.inst \in Proc
      BY <2>2, SshDetailsAre DEF Stable
    <3> QED
      BY <2>1, <3>1, ApprovalCacheOK DEF ApproveRead
  <2>5. MigOK' /\ SshOK' /\ IpcOK'
    BY <1>7, Still, IpcIdle DEF IpcApproveRead
  <2> QED
    BY <1>1, <2>3, <2>4, <2>5
<1>8. CASE IpcRecord
  <2> DEFINE scope == MigScopeOf[ipc.job.details]
             S == Mig!Siblings(scope)
  <2>1. ipc.pc = "record" /\ ipc.job \in Job /\ ipc.job.op = "migration" /\ ipc.job.details \in MigDetails
    BY <1>8 DEF IpcRecord, IpcAt, IpcOK, Job
  <2>2. scope \in MigScope
    BY <2>1, MigDetailsAre
  <2>3. S \subseteq Mig!Request
    BY DEF Mig!Siblings, MigOK
  <2>4. /\ Mig!RecordApproval(scope)
        /\ ipc' = [pc |-> "allow", job |-> ipc.job, perms |-> ipc.perms, siblings |-> S]
    BY <1>8 DEF IpcRecord
  <2> HIDE DEF S, scope
  <2>5. MigOK'
    <3>1. /\ UNCHANGED migNextId /\ migRequests' \subseteq migRequests
          /\ migBlocked' = Mig!Cleanup(migBlocked)
          /\ \/ migRecent' = Mig!Cleanup(migRecent)
             \/ migRecent' = [Mig!Cleanup(migRecent) EXCEPT ![scope] = Mig!SatAdd(now, ApprovalGrace)]
      BY <2>4 DEF Mig!RecordApproval, Mig!Remove
    <3> QED
      BY <2>2, <3>1, MigRemoveOK
  <2>6. CacheOK' /\ LeasesOK' /\ SshOK'
    BY <1>8, Still DEF IpcRecord, engine, leases
  <2>7. IpcOK'
    <3>1. /\ DOMAIN ipc' = {"pc", "job", "perms", "siblings"} /\ ipc'.pc = "allow"
          /\ ipc'.job = ipc.job /\ ipc'.siblings = S
      BY <2>4
    <3> QED
      BY <2>1, <2>3, <3>1 DEF IpcOK, Swept
  <2> QED
    BY <1>1, <2>5, <2>6, <2>7
<1>9. CASE IpcSibling
  <2>1. ipc.pc = "siblings" /\ ipc.siblings = Swept
    BY <1>9 DEF IpcSibling, IpcAt, Custody, IpcShape, Swept
  <2>2. PICK r \in Swept, ok \in BOOLEAN : ApproveMigration(r.details, ok) /\ ipc' = Siblings(Swept \ {r})
    BY <1>9, <2>1 DEF IpcSibling
  <2>3. r.details \in MigDetails
    BY DEF IpcOK, Mig!Request
  <2>4. LeasesOK'
    BY <2>2, <2>3, ApproveMigrationOK
  <2>5. CacheOK'
    <3>1. r.details.target.inst \in Proc
      BY <2>3, MigDetailsAre DEF Stable
    <3> QED
      BY <2>2, <3>1, ApprovalCacheOK DEF ApproveMigration
  <2>6. MigOK' /\ SshOK'
    BY <1>9, Still DEF IpcSibling
  <2>7. IpcOK'
    <3>1. CASE Swept \ {r} = {}
      BY <2>2, <3>1, IpcIdle DEF Siblings
    <3>2. CASE Swept \ {r} # {}
      <4>1. DOMAIN ipc' = {"pc", "siblings"} /\ ipc'.pc = "siblings" /\ ipc'.siblings = Swept \ {r}
        BY <2>2, <3>2 DEF Siblings
      <4>2. Swept \ {r} \subseteq Mig!Request
        BY DEF IpcOK
      <4> QED
        BY <4>1, <4>2 DEF IpcOK, Swept
    <3> QED
      BY <3>1, <3>2
  <2> QED
    BY <1>1, <2>4, <2>5, <2>6, <2>7
<1>10. CASE IpcArm \/ IpcLoad \/ IpcDeliver
  <2>1. LeasesOK'
    <3>1. CASE IpcDeliver
      BY <3>1, RevokeOK, Still DEF IpcDeliver, engine, leases
    <3>2. CASE IpcArm \/ IpcLoad
      <4>1. ipc.job \in Job
        BY <3>2 DEF IpcArm, IpcLoad, IpcAt, IpcOK
      <4> QED
        BY <3>2, <4>1, GrantOK, Still DEF IpcArm, IpcLoad, engine, leases
    <3> QED
      BY <1>10, <3>1, <3>2
  <2>2. CacheOK' /\ MigOK' /\ SshOK'
    BY <1>10, Still DEF IpcArm, IpcLoad, IpcDeliver, Arm, AuthorizeLoad, RevokeMigration, RevokeLoad, engine
  <2>3. IpcOK'
    <3>1. CASE ipc' = Idle
      BY <3>1, IpcIdle
    <3>2. CASE ipc' # Idle
      <4>1. ipc'.pc = "deliver" /\ "siblings" \notin DOMAIN ipc'
        BY <1>10, <3>2 DEF IpcArm, IpcLoad, IpcDeliver
      <4> QED
        BY <4>1 DEF IpcOK, Swept
    <3> QED
      BY <3>1, <3>2
  <2> QED
    BY <1>1, <2>1, <2>2, <2>3
<1> QED
  BY <1>2, <1>3, <1>4, <1>5, <1>6, <1>7, <1>8, <1>9, <1>10 DEF IpcStep

-----------------------------------------------------------------------------
(***************************************************************************)
(* The theorems.                                                           *)
(***************************************************************************)
IInv == Custody /\ Typed

\* Each thread always has what its place in the code needs, and every permission
\* is in one hand.
THEOREM Invariance == Spec => []IInv
<1>1. Init => IInv
  BY InitCustody, InitTyped DEF IInv
<1>2. IInv /\ [Next]_vars => IInv'
  <2> SUFFICES ASSUME IInv, [Next]_vars PROVE IInv'
    OBVIOUS
  <2>1. World' /\ Custody /\ Typed
    BY WorldNext DEF IInv, Typed
  <2>2. Custody'
    <3>1. MainEnqueueRead => main.about \in SshDetailsSet
      BY <2>1 DEF MainEnqueueRead, MainAt, Typed, AboutOK
    <3> QED
      BY <2>1, <3>1, NextKeepsCustody DEF Typed, World
  <2>3. Typed'
    BY <2>1, EnvironmentTyped, MainTyped, RequestTyped, IpcTyped DEF Next
  <2> QED
    BY <2>2, <2>3 DEF IInv
<1> QED
  BY <1>1, <1>2, PTL DEF Spec

\* OneHand, for every machine: an open that waits is in exactly one hand and an
\* answered one in none (the Mutex<PendingStore>s, the event batch of main.rs and
\* the requests ipc.rs has taken).
THEOREM OneHandAlways == Spec => []OneHand
<1>1. IInv => OneHand
  BY CustodyOneHand DEF IInv
<1> QED
  BY <1>1, Invariance, PTL

\* TypeOK, for every machine.
THEOREM TypeCorrect == Spec => []TypeOK
<1>1. IInv => TypeOK
  <2> SUFFICES ASSUME IInv PROVE TypeOK
    OBVIOUS
  <2>1. now \in 0..MaxNow /\ perm \in [Perm -> Mig!PermState]
    BY DEF IInv, Typed, World, Custody, StatesOK
  <2>2. Mig!TypeOK
    BY <2>1 DEF IInv, Typed, MigOK, Mig!TypeOK
  <2>3. Ssh!TypeOK
    BY <2>1, EngineAssumption DEF IInv, Typed, SshOK, Ssh!TypeOK, Mig!PermState, Ssh!PermState
  <2>4. /\ \A k \in DOMAIN migration : migration[k] \in MigrationLease
        /\ \A k \in DOMAIN sshLoad : sshLoad[k] \in SshLoadLease
        /\ \A k \in DOMAIN sshRead : sshRead[k] \in SshReadLease
    BY DEF IInv, Typed, LeasesOK
  <2>5. \A pid \in Pid : cache[pid] # None =>
          cache[pid].self \in Stable /\ PidOf[cache[pid].self.inst] = pid
    BY DEF IInv, Typed, CacheOK, IdentityOf, Identity
  <2>6. main.pc = "decide" => main.batch # <<>>
    BY DEF IInv, Custody, MainShape, WithBatch
  <2> QED
    BY <2>1, <2>2, <2>3, <2>4, <2>5, <2>6 DEF TypeOK, IInv, Typed, World, AboutOK
<1> QED
  BY <1>1, Invariance, PTL

-----------------------------------------------------------------------------
(***************************************************************************)
(* The Linux daemon implements the consent gate, for every machine.        *)
(*                                                                         *)
(* The inductive invariant relates what the daemon keeps to the history    *)
(* that the gate is about: an identity names what has run, a lease and a   *)
(* recent approval stem from a consent, a prompt is about the file and the *)
(* process tree of everyone who waits for it, and a job is done under the  *)
(* consent of the client that asked for it.                                *)
(*                                                                         *)
(* From it follow the three properties of the answers themselves: they     *)
(* are given to the process that was shown, never against a refusal that   *)
(* holds, and one read for each load.                                      *)
(***************************************************************************)

\* The instance that opened a file is no longer there to be answered, and its
\* pid names another.
Gone(p) == life[ask[p].inst] = "gone" /\ PidReused(ask[p])

\* A pid is reused by a younger instance than the one before.
Succession ==
  /\ \A i \in Proc, j \in Later : PidOf[i] = PidOf[j] /\ life[i] # "unborn" /\ life[j] = "unborn" =>
       StartOf[i] < StartOf[j]
  /\ \A i \in Proc, j \in Live : PidOf[i] = PidOf[j] /\ life[i] = "gone" => StartOf[i] < StartOf[j]

\* The kernel: one live instance of a pid, and what each has run.
Kernel ==
  /\ ran \in [Proc -> SUBSET Exe] /\ \A i \in Proc : exe[i] \in ran[i]
  /\ \A i, j \in Live : PidOf[i] = PidOf[j] => i = j
  /\ Succession
  /\ \A p \in Perm : ask[p] # None => life[ask[p].inst] # "unborn"

\* Everyone an identity names has run what it names.
HasRun(s) == s.exe \in ran[s.inst]

SeenToRun(id) == HasRun(id.self) /\ \A k \in DOMAIN id.ancestors : HasRun(id.ancestors[k])

CacheSeen == \A pid \in Pid : cache[pid] # None => SeenToRun(cache[pid])

\* The consents that leases and recent approvals stem from.
MigrationConsent(uid, profile, e) ==
  \E c \in consents : c.kind = "migration" /\ c.uid = uid /\ c.what = profile /\ c.exe = e

KeyConsent(kind, uid, res, e, start) ==
  \E c \in consents : c.kind = kind /\ c.uid = uid /\ c.what = res /\ c.exe = e /\ c.start = start

ScopeConsent(s) == MigrationConsent(s.uid, s.profile, s.exe)

LeasesGiven ==
  /\ \A k \in DOMAIN migration :
       /\ MigrationConsent(migration[k].uid, migration[k].profile, migration[k].exe)
       /\ migration[k].state = "bound" => migration[k].root.exe = migration[k].exe
  /\ \A k \in DOMAIN sshLoad :
       KeyConsent("load", sshLoad[k].uid, sshLoad[k].res, sshLoad[k].target.exe, sshLoad[k].target.start)
  /\ \A k \in DOMAIN sshRead :
       KeyConsent("read", sshRead[k].uid, sshRead[k].res, sshRead[k].root.exe,
                  StartOf[sshRead[k].root.inst])
  /\ \A s \in MigScope : migRecent[s] # 0 => ScopeConsent(s)

\* A prompt is about what is opened and about the tree of the one who opens it.
MigFits(p, d) ==
  \/ Gone(p)
  \/ /\ KindOf[ask[p].res] = "browser" /\ ProfileOf[ask[p].res] = d.profile
     /\ UidOf[ask[p].inst] = UidOf[d.target.inst] /\ UidOf[ask[p].inst] = OwnerOf[ask[p].res]
     /\ d.root.inst \in Gate!Tree(ask[p].inst) /\ HasRun(d.root)

ReadFits(p, d) ==
  \/ Gone(p)
  \/ /\ ask[p].res = d.res /\ ask[p].inst = d.target.inst
     /\ UidOf[ask[p].inst] = OwnerOf[ask[p].res] /\ HasRun(d.target)

\* An id names one request.
Named(requests) == \A r, q \in requests : r.id = q.id => r = q

RequestsFit ==
  /\ Named(migRequests) /\ Named(sshRequests)
  /\ \A r \in migRequests : r.id <= migNextId /\ \A p \in r.perms : MigFits(p, r.details)
  /\ \A r \in sshRequests : r.id <= sshNextId /\ \A p \in r.perms : ReadFits(p, r.details)

MainFits ==
  /\ main.pc = "enqueue" => IF KindOf[Res] = "ssh" THEN ReadFits(Event, main.about)
                            ELSE MigFits(Event, main.about)
  /\ main.pc = "recent" => MigFits(Event, main.about) /\ ScopeConsent(MigScopeOf[main.about])

\* A client has asked for what it may, the request it named is still the one it
\* named, and what it has consented to is recorded before anything is done.
JobAsked ==
  ipc.pc \in {"authenticate", "take", "approve", "record", "allow", "grant"} =>
    ipc.job.uid \in {Root, ConsentOf(ipc.job).uid}

JobNamed ==
  ipc.pc \in {"authenticate", "take"} =>
    /\ ipc.job.op = "migration" =>
         ipc.job.id <= migNextId /\ \A r \in WithId(migRequests) : r.details = ipc.job.details
    /\ ipc.job.op = "read" =>
         ipc.job.id <= sshNextId /\ \A r \in WithId(sshRequests) : r.details = ipc.job.details

JobConsented ==
  \/ ipc.pc \in {"approve", "record", "allow", "grant"}
  \/ ipc.pc = "take" /\ ~ipc.job.block
  => ConsentOf(ipc.job) \in consents

JobFits ==
  /\ ipc.pc \in {"approve", "record", "allow"} => \A p \in ipc.perms :
       IF ipc.job.op = "migration" THEN MigFits(p, ipc.job.details) ELSE ReadFits(p, ipc.job.details)
  /\ \A r \in Swept : ScopeConsent(MigScopeOf[r.details]) /\ \A p \in r.perms : MigFits(p, r.details)

JobOK == JobAsked /\ JobNamed /\ JobConsented /\ JobFits

Grounds == Kernel /\ CacheSeen /\ LeasesGiven /\ RequestsFit /\ MainFits /\ JobOK

-----------------------------------------------------------------------------
(***************************************************************************)
(* History only grows, and what was true of it stays true.                 *)
(***************************************************************************)
Grows ==
  /\ \A i \in Proc : ran[i] \subseteq ran'[i] 
       /\ (life[i] = "gone" => life'[i] = "gone") /\ (life[i] # "unborn" => life'[i] # "unborn")
  /\ consents \subseteq consents'
  /\ \A p \in Perm : ask[p] # None => ask'[p] = ask[p]

\* Whatever happens, the history only grows and the kernel keeps its order.
LEMMA NextGrows == World /\ Kernel /\ [Next]_vars => Grows /\ Kernel'
<1> SUFFICES ASSUME World, Kernel, [Next]_vars PROVE Grows /\ Kernel'
  OBVIOUS
<1>1. CASE \E i \in Proc : Spawn(i)
  <2>1. PICK i \in Proc : Spawn(i)
    BY <1>1
  <2>2. /\ i \in Later /\ life[i] = "unborn" /\ life' = [life EXCEPT ![i] = "live"]
        /\ UNCHANGED <<exe, ran, ask, consents, scenario>>
        /\ \A j \in Proc \ {i} : PidOf[j] = PidOf[i] =>
             life[j] = "gone" \/ (life[j] = "unborn" /\ StartOf[j] > StartOf[i])
    BY <2>1 DEF Spawn, SpawnProc
  <2>3. Grows
    BY <2>2 DEF Grows, World
  <2>4. Kernel'
    <3>1. Live' = Live \union {i} /\ \A j \in Live : j # i => PidOf[j] # PidOf[i]
      BY <2>2 DEF Live, World
    <3>2. \A p \in Perm : ask[p] # None => ask[p].inst \in Proc
      BY DEF World, Access
    <3>3. Later' = Later
      BY <2>2 DEF Later
    <3>4. ASSUME NEW k \in Proc, NEW j \in Later, PidOf[k] = PidOf[j], life'[k] # "unborn", life'[j] = "unborn"
          PROVE  StartOf[k] < StartOf[j]
      <4>1. j \in Proc
        BY ProcessAssumption DEF World, Later
      <4>2. life[j] = "unborn" /\ j # i
        BY <2>2, <3>4, <4>1 DEF World
      <4>3. CASE k = i
        BY <2>2, <3>4, <4>1, <4>2, <4>3, CoreAssumption
      <4>4. CASE k # i
        <5>1. life[k] # "unborn"
          BY <2>2, <3>4, <4>4 DEF World
        <5> QED
          BY <3>4, <4>2, <5>1 DEF Kernel, Succession
      <4> QED
        BY <4>3, <4>4
    <3>5. ASSUME NEW k \in Proc, NEW j \in Live', PidOf[k] = PidOf[j], life'[k] = "gone"
          PROVE  StartOf[k] < StartOf[j]
      <4>1. life[k] = "gone"
        BY <2>2, <3>5 DEF World
      <4>2. CASE j = i
        BY <2>2, <3>5, <4>1, <4>2 DEF Kernel, Succession
      <4>3. CASE j \in Live
        BY <3>5, <4>1, <4>3 DEF Kernel, Succession
      <4> QED
        BY <3>1, <4>2, <4>3
    <3>6. Succession'
      BY <3>3, <3>4, <3>5 DEF Succession
    <3> QED
      BY <2>2, <3>1, <3>2, <3>6 DEF Kernel, World
  <2> QED
    BY <2>3, <2>4
<1>2. CASE \E i \in Mortal : Exit(i)
  <2>1. PICK i : Exit(i)
    BY <1>2
  <2>2. /\ i \in Live /\ life' = [life EXCEPT ![i] = "gone"]
        /\ UNCHANGED <<exe, ran, ask, consents, scenario>>
    BY <2>1 DEF Exit, ExitProc
  <2>3. Grows
    BY <2>2 DEF Grows, World
  <2>4. Kernel'
    <3>1. Live' = Live \ {i}
      BY <2>2 DEF Live, World
    <3>2. \A p \in Perm : ask[p] # None => ask[p].inst \in Proc
      BY DEF World, Access
    <3>3. Later' = Later /\ Later \subseteq Proc
      BY <2>2, ProcessAssumption DEF World, Later
    <3>4. \A k \in Proc, j \in Later : life'[j] = "unborn" => life[j] = "unborn"
      BY <2>2, <3>3 DEF World
    <3>5. \A k \in Proc : life'[k] # "unborn" => life[k] # "unborn"
      BY <2>2 DEF World, Live
    <3>6. ASSUME NEW k \in Proc, NEW j \in Live', PidOf[k] = PidOf[j], life'[k] = "gone"
          PROVE  StartOf[k] < StartOf[j]
      <4>1. k # i
        BY <2>2, <3>1, <3>6 DEF Kernel
      <4>2. life[k] = "gone"
        BY <2>2, <3>6, <4>1 DEF World
      <4> QED
        BY <3>1, <3>6, <4>2 DEF Kernel, Succession
    <3>7. Succession'
      BY <3>3, <3>4, <3>5, <3>6 DEF Kernel, Succession
    <3> QED
      BY <2>2, <3>1, <3>2, <3>7 DEF Kernel, World
  <2> QED
    BY <2>3, <2>4
<1>3. CASE \E x \in Execs : Exec(x[1], x[2])
  <2>1. PICK x \in Execs : Exec(x[1], x[2])
    BY <1>3
  <2>2. /\ exe' = [exe EXCEPT ![x[1]] = x[2]] /\ ran' = [ran EXCEPT ![x[1]] = @ \union {x[2]}]
        /\ UNCHANGED <<life, ask, consents, scenario>>
    BY <2>1 DEF Exec, ExecProc
  <2>3. x[1] \in Proc /\ x[2] \in Exe
    BY ProcessAssumption DEF World, Execs
  <2>4. Grows
    BY <2>2, <2>3 DEF Grows, Kernel
  <2>5. Kernel'
    <3>1. ran' \in [Proc -> SUBSET Exe] /\ \A i \in Proc : exe'[i] \in ran'[i]
      BY <2>2, <2>3 DEF Kernel, World
    <3> QED
      BY <2>2, <3>1 DEF Kernel, Live, Succession, Later
  <2> QED
    BY <2>4, <2>5
<1>4. CASE \E p \in Perm, a \in Opens : Open(p, a)
  <2>1. PICK p \in Perm, a \in Opens : Open(p, a)
    BY <1>4
  <2>2. /\ ask[p] = None /\ a.inst \in Live /\ ask' = [ask EXCEPT ![p] = a]
        /\ UNCHANGED <<life, exe, ran, consents, scenario>>
    BY <2>1 DEF Open, procs
  <2>3. Grows
    BY <2>2 DEF Grows, World
  <2>4. Kernel'
    BY <2>2 DEF Kernel, World, Live, Succession, Later
  <2> QED
    BY <2>3, <2>4
<1>5. CASE Tick \/ UNCHANGED vars
  <2>1. UNCHANGED <<life, exe, ran, ask, consents, scenario>>
    BY <1>5 DEF Tick, procs, vars
  <2> QED
    BY <2>1 DEF Grows, Kernel, Live, Succession, Later
<1>6. CASE MainStep
  <2>1. UNCHANGED <<life, exe, ran, ask, consents, scenario>>
    BY <1>6 DEF MainStep, MainExpireMigrations, MainExpireReads, MainRead, MainDecideOpen,
       MainDecideUnknown, MainPanic, MainDecide, MainDetails, MainEnqueueMigration, MainEnqueueRead,
       MainRecent, outside, procs
  <2> QED
    BY <2>1 DEF Grows, Kernel, Live, Succession, Later
<1>7. CASE IpcRequest \/ IpcStep
  <2>1. UNCHANGED <<life, exe, ran, ask, scenario>>
    BY <1>7 DEF IpcRequest, IpcResolveMigration, IpcResolveRead, IpcAuthorizeMigration,
       IpcAuthorizeLoad, Begin, IpcRevoke, IpcStep, IpcAuthenticate, IpcTakeMigration, IpcTakeRead,
       IpcDeny, IpcApproveMigration, IpcApproveRead, IpcRecord, IpcAllow, IpcSibling, IpcArm, IpcLoad,
       IpcDeliver, beside, procs
  <2>2. consents \subseteq consents'
    BY <1>7 DEF IpcRequest, IpcResolveMigration, IpcResolveRead, IpcAuthorizeMigration,
       IpcAuthorizeLoad, Begin, IpcRevoke, IpcStep, IpcAuthenticate, IpcTakeMigration, IpcTakeRead,
       IpcDeny, IpcApproveMigration, IpcApproveRead, IpcRecord, IpcAllow, IpcSibling, IpcArm, IpcLoad,
       IpcDeliver
  <2> QED
    BY <2>1, <2>2 DEF Grows, Kernel, Live, Succession, Later
<1> QED
  BY <1>1, <1>2, <1>3, <1>4, <1>5, <1>6, <1>7 DEF Next, Environment

\* What was seen to run, consented to and asked about still is.
LEMMA StillSo ==
  ASSUME World, Grows
  PROVE  /\ \A s \in Stable : HasRun(s) => HasRun(s)'
         /\ \A u, f, e : MigrationConsent(u, f, e) => MigrationConsent(u, f, e)'
         /\ \A k, u, r, e, t : KeyConsent(k, u, r, e, t) => KeyConsent(k, u, r, e, t)'
         /\ \A s : ScopeConsent(s) => ScopeConsent(s)'
         /\ \A p \in Perm, d \in MigDetails : ask[p] # None /\ MigFits(p, d) => MigFits(p, d)'
         /\ \A p \in Perm, d \in SshDetailsSet : ask[p] # None /\ ReadFits(p, d) => ReadFits(p, d)'
<1>1. \A s \in Stable : HasRun(s) => HasRun(s)'
  BY DEF HasRun, Grows, Stable
<1>2. /\ \A u, f, e : MigrationConsent(u, f, e) => MigrationConsent(u, f, e)'
      /\ \A s : ScopeConsent(s) => ScopeConsent(s)'
  BY DEF MigrationConsent, ScopeConsent, Grows
<1>3. \A k, u, r, e, t : KeyConsent(k, u, r, e, t) => KeyConsent(k, u, r, e, t)'
  BY DEF KeyConsent, Grows
<1>4. \A p \in Perm : ask[p] # None => ask'[p] = ask[p] /\ (Gone(p) => Gone(p)')
  BY DEF World, Access, Grows, Gone, PidReused
<1>5. ASSUME NEW p \in Perm, NEW d \in MigDetails, ask[p] # None, MigFits(p, d)
      PROVE  MigFits(p, d)'
  <2>1. d.root \in Stable
    BY MigDetailsAre
  <2> QED
    BY <1>1, <1>4, <1>5, <2>1 DEF MigFits, Gate!Tree
<1>6. ASSUME NEW p \in Perm, NEW d \in SshDetailsSet, ask[p] # None, ReadFits(p, d)
      PROVE  ReadFits(p, d)'
  <2>1. d.target \in Stable
    BY SshDetailsAre
  <2> QED
    BY <1>1, <1>4, <1>6, <2>1 DEF ReadFits
<1> QED
  BY <1>1, <1>2, <1>3, <1>5, <1>6

\* Whoever waits in a hand of the daemon has opened a file.
LEMMA WaitersAsked ==
  ASSUME IInv
  PROVE  /\ \A r \in migRequests \union Swept : r.details \in MigDetails
         /\ \A r \in sshRequests : r.details \in SshDetailsSet
         /\ \A r \in migRequests \union sshRequests \union Swept : \A p \in r.perms :
              p \in Perm /\ ask[p] # None /\ perm[p] \in {"held", "taken"}
         /\ \A p \in Taking : p \in Perm /\ ask[p] # None /\ perm[p] = "taken"
<1>1. MigPerms \union SshPerms \union Taking \union SweptPerms \subseteq Perm
  BY DEF IInv, Custody, HandsApart
<1>2. \A p \in MigPerms \union SshPerms \union Taking \union SweptPerms :
        ask[p] # None /\ perm[p] \in {"held", "taken"}
  BY <1>1 DEF IInv, Custody, StatesOK
<1>3. \A p \in Taking : perm[p] = "taken"
  BY <1>1 DEF IInv, Custody, StatesOK
<1>4. \A r \in migRequests \union sshRequests \union Swept : \A p \in r.perms :
        p \in MigPerms \union SshPerms \union SweptPerms
  BY DEF MigPerms, SshPerms, SweptPerms, PermsOf
<1>5. /\ \A r \in migRequests \union Swept : r.details \in MigDetails
      /\ \A r \in sshRequests : r.details \in SshDetailsSet
  BY DEF IInv, Typed, MigOK, SshOK, IpcOK, Mig!Request, Ssh!Request
<1> QED
  BY <1>1, <1>2, <1>3, <1>4, <1>5

\* Requests that stay, or go, still fit those who wait for them.
LEMMA RequestsGo ==
  ASSUME IInv, Grounds, Grows, migRequests' \subseteq migRequests, sshRequests' \subseteq sshRequests,
         UNCHANGED <<migNextId, sshNextId>>
  PROVE  RequestsFit'
<1>1. ASSUME NEW r \in migRequests, NEW p \in r.perms PROVE MigFits(p, r.details)'
  <2>1. MigFits(p, r.details) /\ p \in Perm /\ ask[p] # None /\ r.details \in MigDetails
    BY WaitersAsked DEF Grounds, RequestsFit
  <2> QED
    BY <2>1, StillSo DEF IInv, Typed
<1>2. ASSUME NEW r \in sshRequests, NEW p \in r.perms PROVE ReadFits(p, r.details)'
  <2>1. ReadFits(p, r.details) /\ p \in Perm /\ ask[p] # None /\ r.details \in SshDetailsSet
    BY WaitersAsked DEF Grounds, RequestsFit
  <2> QED
    BY <2>1, StillSo DEF IInv, Typed
<1> QED
  BY <1>1, <1>2 DEF Grounds, RequestsFit, Named

\* A job that waits is about the request it names, whatever becomes of that one.
LEMMA JobStill ==
  ASSUME IInv, Grounds, Grows, UNCHANGED ipc,
         migNextId' >= migNextId, sshNextId' >= sshNextId, migNextId' \in Nat, sshNextId' \in Nat,
         \A r \in migRequests' : r.id > migNextId
           \/ \E q \in migRequests : r.id = q.id /\ r.details = q.details,
         \A r \in sshRequests' : r.id > sshNextId
           \/ \E q \in sshRequests : r.id = q.id /\ r.details = q.details
  PROVE  JobOK'
<1>1. JobAsked'
  BY DEF Grounds, JobOK, JobAsked, ConsentOf
<1>2. JobNamed'
  <2> SUFFICES ASSUME ipc.pc \in {"authenticate", "take"} PROVE JobNamed'
    BY DEF JobNamed
  <2>1. ipc.job \in Job /\ JobNamed /\ migNextId \in Nat /\ sshNextId \in Nat
    BY DEF IInv, Typed, IpcOK, Grounds, JobOK, MigOK, SshOK
  <2>2. CASE ipc.job.op = "migration"
    <3>1. ipc.job.id \in Nat
      BY <2>1, <2>2 DEF Job
    <3>2. ipc.job.id <= migNextId /\ \A r \in migRequests : r.id = ipc.job.id => r.details = ipc.job.details
      BY <2>1, <2>2 DEF JobNamed, WithId
    <3>3. \A r \in migRequests' : r.id = ipc.job.id => r.details = ipc.job.details
      BY <2>1, <3>1, <3>2
    <3> QED
      BY <2>1, <2>2, <3>1, <3>2, <3>3 DEF JobNamed, WithId
  <2>3. CASE ipc.job.op = "read"
    <3>1. ipc.job.id \in Nat
      BY <2>1, <2>3 DEF Job
    <3>2. ipc.job.id <= sshNextId /\ \A r \in sshRequests : r.id = ipc.job.id => r.details = ipc.job.details
      BY <2>1, <2>3 DEF JobNamed, WithId
    <3>3. \A r \in sshRequests' : r.id = ipc.job.id => r.details = ipc.job.details
      BY <2>1, <3>1, <3>2
    <3> QED
      BY <2>1, <2>3, <3>1, <3>2, <3>3 DEF JobNamed, WithId
  <2> QED
    BY <2>2, <2>3 DEF JobNamed
<1>3. JobConsented'
  BY DEF Grounds, JobOK, JobConsented, ConsentOf, Grows
<1>4. JobFits'
  <2>1. ASSUME ipc.pc \in {"approve", "record", "allow"}, NEW p \in ipc.perms
        PROVE  (IF ipc.job.op = "migration" THEN MigFits(p, ipc.job.details)
                ELSE ReadFits(p, ipc.job.details))'
    <3>1. /\ p \in Taking /\ ipc.job \in Job /\ ipc.job.op \in {"migration", "read"}
          /\ IF ipc.job.op = "migration" THEN MigFits(p, ipc.job.details) ELSE ReadFits(p, ipc.job.details)
      BY <2>1 DEF IInv, Custody, IpcShape, Typed, IpcOK, Grounds, JobOK, JobFits, Taking
    <3>2. p \in Perm /\ ask[p] # None
      BY <3>1, WaitersAsked
    <3>3. CASE ipc.job.op = "migration"
      <4>1. ipc.job.details \in MigDetails
        BY <3>1, <3>3 DEF Job
      <4> QED
        BY <3>1, <3>2, <3>3, <4>1, StillSo DEF IInv, Typed
    <3>4. CASE ipc.job.op = "read"
      <4>1. ipc.job.details \in SshDetailsSet
        BY <3>1, <3>4 DEF Job
      <4> QED
        BY <3>1, <3>2, <3>4, <4>1, StillSo DEF IInv, Typed
    <3> QED
      BY <3>1, <3>3, <3>4
  <2>2. ASSUME NEW r \in Swept PROVE ScopeConsent(MigScopeOf[r.details])' /\ \A p \in r.perms : MigFits(p, r.details)'
    <3>1. ScopeConsent(MigScopeOf[r.details]) /\ \A p \in r.perms : MigFits(p, r.details)
      BY DEF Grounds, JobOK, JobFits
    <3>2. r.details \in MigDetails /\ \A p \in r.perms : p \in Perm /\ ask[p] # None
      BY WaitersAsked
    <3> QED
      BY <3>1, <3>2, StillSo DEF IInv, Typed
  <2> QED
    BY <2>1, <2>2 DEF JobFits, Swept
<1> QED
  BY <1>1, <1>2, <1>3, <1>4 DEF JobOK

\* The main loop goes on with what it has.
LEMMA MainStill ==
  ASSUME IInv, Grounds, Grows, UNCHANGED main
  PROVE  MainFits'
<1>1. Event' = Event /\ main'.pc = main.pc /\ main'.about = main.about
  BY DEF Event
<1>2. CASE main.pc \notin {"enqueue", "recent"}
  BY <1>1, <1>2 DEF MainFits
<1>3. CASE main.pc \in {"enqueue", "recent"}
  <2>1. main.pc \in WithBatch
    BY <1>3 DEF WithBatch
  <2>2. Event \in Perm /\ ask[Event] # None /\ Res' = Res
    BY <1>1, <2>1, AtEvent DEF IInv, Grows, Res
  <2>3. /\ main.pc = "enqueue" => main.about \in (IF KindOf[Res] = "ssh" THEN SshDetailsSet ELSE MigDetails)
        /\ main.pc = "recent" => main.about \in MigDetails
    BY DEF IInv, Typed, AboutOK
  <2>4. main.pc = "enqueue" => (IF KindOf[Res] = "ssh" THEN ReadFits(Event, main.about)
                                ELSE MigFits(Event, main.about))'
    BY <1>1, <2>2, <2>3, StillSo DEF IInv, Typed, Grounds, MainFits
  <2>5. main.pc = "recent" => MigFits(Event, main.about)' /\ ScopeConsent(MigScopeOf[main.about])'
    BY <1>1, <2>2, <2>3, StillSo DEF IInv, Typed, Grounds, MainFits
  <2> QED
    BY <1>1, <2>2, <2>4, <2>5 DEF MainFits
<1> QED
  BY <1>2, <1>3

\* The leases and the cache keep their grounds.
LEMMA LeasesStill ==
  ASSUME IInv, Grounds, Grows, UNCHANGED <<leases, migRecent>>
  PROVE  LeasesGiven'
BY StillSo DEF IInv, Typed, Grounds, LeasesGiven, leases

\* What the cache names has still run what it names.
LEMMA CacheStill ==
  ASSUME IInv, Grounds, Grows, UNCHANGED cache
  PROVE  CacheSeen'
<1>1. ASSUME NEW pid \in Pid, cache[pid] # None PROVE SeenToRun(cache[pid])'
  <2>1. cache[pid].self \in Stable /\ \A k \in DOMAIN cache[pid].ancestors : cache[pid].ancestors[k] \in Stable
    BY <1>1 DEF IInv, Typed, CacheOK, IdentityOf, Identity
  <2> QED
    BY <1>1, <2>1, StillSo DEF IInv, Typed, Grounds, CacheSeen, SeenToRun
<1> QED
  BY <1>1 DEF CacheSeen

-----------------------------------------------------------------------------
(***************************************************************************)
(* What an identity says is true.                                          *)
(***************************************************************************)
LEMMA FreshSeen ==
  ASSUME World, Kernel, NEW pid, Fresh(pid) # None
  PROVE  SeenToRun(Fresh(pid))
<1> DEFINE i == CHOOSE j \in At(pid) : TRUE
<1>1. At(pid) # {} /\ Fresh(pid) = Observe(i)
  BY DEF Fresh
<1>2. i \in Live
  BY <1>1 DEF At
<1> HIDE DEF i
<1>3. Observe(i) \in Identity /\ Observe(i).self = Seen(i)
  BY <1>2, ObserveOK DEF IdentityOf
<1>4. i \in Proc
  BY <1>2 DEF Live
<1>5. HasRun(Seen(i))
  BY <1>4 DEF Kernel, HasRun, Seen
<1>6. ASSUME NEW k \in DOMAIN Observe(i).ancestors PROVE HasRun(Observe(i).ancestors[k])
  <2>1. Observe(i).ancestors[k] = Seen(Lineage[i][k])
    BY DEF Observe, LiveAncestors
  <2>2. Observe(i).ancestors[k] \in Stable
    BY <1>3 DEF Identity
  <2>3. Lineage[i][k] \in Proc
    BY <2>1, <2>2 DEF Seen, Stable
  <2> QED
    BY <2>1, <2>3 DEF Kernel, HasRun, Seen
<1> QED
  BY <1>1, <1>3, <1>5, <1>6 DEF SeenToRun

\* What is resolved, observed or cached, was seen to run.
LEMMA ResolveSeen ==
  ASSUME World, Kernel, CacheSeen, NEW pid \in Pid, Resolve(pid) # None
  PROVE  SeenToRun(Resolve(pid))
BY FreshSeen DEF Resolve, CacheSeen

\* Remembering what was resolved, or nothing, keeps the cache true.
LEMMA RememberSeen ==
  ASSUME IInv, Grounds, Grows, NEW pid \in Pid, NEW id,
         id = None \/ (SeenToRun(id) /\ IdentityOf(id, pid)), Remember(pid, id)
  PROVE  CacheSeen'
<1>1. ASSUME NEW x \in Pid, cache'[x] # None PROVE SeenToRun(cache[x])'
  <2>1. DOMAIN cache = Pid /\ cache'[x] = IF x = pid THEN id ELSE cache[x]
    BY DEF IInv, Typed, CacheOK, Remember
  <2>2. SeenToRun(cache'[x]) /\ IdentityOf(cache'[x], x)
    BY <1>1, <2>1 DEF IInv, Typed, CacheOK, Grounds, CacheSeen
  <2>3. cache'[x].self \in Stable /\ \A k \in DOMAIN cache'[x].ancestors : cache'[x].ancestors[k] \in Stable
    BY <2>2 DEF IdentityOf, Identity
  <2> QED
    BY <2>2, <2>3, StillSo DEF IInv, Typed, SeenToRun
<1> QED
  BY <1>1 DEF CacheSeen

\* Members of the tree an identity shows are of the process tree, and have run.
LEMMA TreeSeen ==
  ASSUME NEW pid, NEW id, IdentityOf(id, pid), SeenToRun(id), NEW root, InTree(id, root)
  PROVE  root \in Stable /\ root.inst \in Gate!Tree(id.self.inst) /\ HasRun(root)
<1>1. root \in Stable /\ root.inst \in {id.self.inst} \union Range(Lineage[id.self.inst])
  BY InTreeOK
<1>2. HasRun(root)
  BY DEF InTree, SeenToRun
<1> QED
  BY <1>1, <1>2 DEF Gate!Tree, Range

\* The process the main loop finds at the pid of an open is the one that opened
\* the file, if that is still there.
LEMMA WhoOpens ==
  ASSUME IInv, Grounds, main.pc \in WithBatch, Resolve(EvPid) # None
  PROVE  /\ IdentityOf(Resolve(EvPid), EvPid) /\ SeenToRun(Resolve(EvPid))
         /\ Gone(Event) \/ Resolve(EvPid).self.inst = ask[Event].inst
<1>1. EvPid \in Pid /\ ask[Event].inst \in Proc /\ ask[Event] # None /\ Event \in Perm
  BY EventOK, AtEvent DEF IInv, Typed
<1>2. IdentityOf(Resolve(EvPid), EvPid) /\ Resolve(EvPid).self.inst \in At(EvPid)
  BY <1>1, ResolveOK DEF IInv, Typed
<1>3. SeenToRun(Resolve(EvPid))
  BY <1>1, ResolveSeen DEF IInv, Typed, Grounds
<1>4. ASSUME ~Gone(Event) PROVE Resolve(EvPid).self.inst = ask[Event].inst
  <2> DEFINE i == Resolve(EvPid).self.inst
  <2>0. i \in Live /\ i \in Proc /\ PidOf[i] = PidOf[ask[Event].inst]
    BY <1>2 DEF At, EvPid, Live
  <2>1. ask[Event].inst \in Live
    <3>1. CASE life[ask[Event].inst] = "gone"
      <4>1. StartOf[ask[Event].inst] < StartOf[i]
        BY <1>1, <2>0, <3>1 DEF Grounds, Kernel, Succession
      <4>2. PidReused(ask[Event])
        BY <1>1, <2>0, <4>1, CoreAssumption DEF PidReused, Live
      <4> QED
        BY <1>4, <3>1, <4>2 DEF Gone
    <3> QED
      BY <1>1, <3>1 DEF IInv, Typed, World, Grounds, Kernel, Live
  <2> QED
    BY <1>2, <2>1 DEF At, EvPid, Grounds, Kernel
<1> QED
  BY <1>2, <1>3, <1>4

-----------------------------------------------------------------------------
(***************************************************************************)
(* Leases stem from consents.                                              *)
(***************************************************************************)
\* A refreshed lease has the consent it had, and binds only to its executable.
LEMMA RefreshGiven ==
  ASSUME IInv, Grounds, NEW pid, NEW id, IdentityOf(id, pid), NEW r, NEW k \in DOMAIN migration
  PROVE  LET l == Refreshed(r, id)[k] IN
         /\ l.profile = migration[k].profile /\ l.uid = migration[k].uid /\ l.exe = migration[k].exe
         /\ MigrationConsent(l.uid, l.profile, l.exe)
         /\ l.state = "bound" => l.root.exe = l.exe
<1>1. migration[k] \in MigrationLease
  BY DEF IInv, Typed, LeasesOK
<1>2. Refreshed(r, id)[k] = RefreshLease(migration[k], r, id)
  BY DEF Refreshed
<1>3. /\ MigrationConsent(migration[k].uid, migration[k].profile, migration[k].exe)
      /\ migration[k].state = "bound" => migration[k].root.exe = migration[k].exe
  BY DEF Grounds, LeasesGiven
<1>4. Closest(id, migration[k].exe) # None => Closest(id, migration[k].exe).exe = migration[k].exe
  BY ClosestOK DEF IdentityOf
<1> QED
  BY <1>1, <1>2, <1>3, <1>4 DEF RefreshLease, MigrationLease

\* Applying a change of leases keeps the grounds of all that stay.
LEMMA ApplyGiven ==
  ASSUME IInv, Grounds, Grows, NEW pid, NEW id, IdentityOf(id, pid), NEW r, Apply(r, id),
         UNCHANGED migRecent
  PROVE  LeasesGiven'
<1>1. ASSUME NEW k \in DOMAIN migration'
      PROVE  /\ MigrationConsent(migration[k].uid, migration[k].profile, migration[k].exe)'
             /\ migration'[k].state = "bound" => migration'[k].root.exe = migration'[k].exe
  <2>1. migration' = Refreshed(r, id) /\ k \in DOMAIN migration
    BY RefreshOK DEF Apply, IInv, Typed
  <2> QED
    BY <2>1, RefreshGiven, StillSo DEF IInv, Typed
<1>2. ASSUME NEW k \in DOMAIN sshLoad'
      PROVE  KeyConsent("load", sshLoad[k].uid, sshLoad[k].res, sshLoad[k].target.exe, sshLoad[k].target.start)'
  <2>1. PICK i : sshLoad' = sshLoad \/ sshLoad' = [sshLoad EXCEPT ![i].used = TRUE]
    BY DEF Apply
  <2>2. sshLoad \in Seq(SshLoadLease) /\ k \in DOMAIN sshLoad /\ sshLoad[k] \in SshLoadLease
    BY <2>1 DEF IInv, Typed, LeasesOK
  <2>3. sshLoad'[k].uid = sshLoad[k].uid /\ sshLoad'[k].res = sshLoad[k].res /\ sshLoad'[k].target = sshLoad[k].target
    <3>1. sshLoad'[k] = sshLoad[k] \/ sshLoad'[k] = [sshLoad[k] EXCEPT !.used = TRUE]
      BY <2>1, <2>2
    <3>2. LET l == [sshLoad[k] EXCEPT !.used = TRUE] IN
            l.uid = sshLoad[k].uid /\ l.res = sshLoad[k].res /\ l.target = sshLoad[k].target
      BY <2>2 DEF SshLoadLease
    <3> QED
      BY <3>1, <3>2
  <2> QED
    BY <2>2, <2>3, StillSo DEF IInv, Typed, Grounds, LeasesGiven
<1>3. ASSUME NEW k \in DOMAIN sshRead'
      PROVE  KeyConsent("read", sshRead[k].uid, sshRead[k].res, sshRead[k].root.exe, StartOf[sshRead[k].root.inst])'
  <2>1. sshRead' = RefreshedReads /\ k \in DOMAIN sshRead
    BY DEF Apply, RefreshedReads
  <2>2. sshRead[k] \in SshReadLease
    BY <2>1 DEF IInv, Typed, LeasesOK
  <2>3. sshRead'[k].uid = sshRead[k].uid /\ sshRead'[k].res = sshRead[k].res /\ sshRead'[k].root = sshRead[k].root
    BY <2>1, <2>2 DEF RefreshedReads, SshReadLease
  <2> QED
    BY <2>1, <2>3, StillSo DEF IInv, Typed, Grounds, LeasesGiven
<1>4. \A s \in MigScope : migRecent'[s] # 0 => ScopeConsent(s)'
  BY StillSo DEF IInv, Typed, Grounds, LeasesGiven
<1> QED
  BY <1>1, <1>2, <1>3, <1>4 DEF LeasesGiven

\* Revoking leases leaves the others as they were given.
LEMMA RevokeGiven ==
  ASSUME IInv, Grounds, Grows, NEW k, RevokeMigration(k) \/ RevokeLoad(k) \/ RevokeRead(k),
         UNCHANGED migRecent
  PROVE  LeasesGiven'
<1>1. /\ migration \in Seq(MigrationLease) /\ sshLoad \in Seq(SshLoadLease) /\ sshRead \in Seq(SshReadLease)
  BY DEF IInv, Typed, LeasesOK
<1>2. /\ DOMAIN migration' = DOMAIN migration
      /\ \A x \in DOMAIN migration : migration'[x] = migration[x] \/ migration'[x] = [migration[x] EXCEPT !.revoked = TRUE]
  BY <1>1 DEF RevokeMigration, RevokeLoad, RevokeRead
<1>3. /\ DOMAIN sshLoad' = DOMAIN sshLoad
      /\ \A x \in DOMAIN sshLoad : sshLoad'[x] = sshLoad[x] \/ sshLoad'[x] = [sshLoad[x] EXCEPT !.revoked = TRUE]
  BY <1>1 DEF RevokeMigration, RevokeLoad, RevokeRead
<1>4. /\ DOMAIN sshRead' = DOMAIN sshRead
      /\ \A x \in DOMAIN sshRead : sshRead'[x] = sshRead[x] \/ sshRead'[x] = [sshRead[x] EXCEPT !.revoked = TRUE]
  BY <1>1 DEF RevokeMigration, RevokeLoad, RevokeRead
<1>5. ASSUME NEW x \in DOMAIN migration
      PROVE  /\ migration'[x].uid = migration[x].uid /\ migration'[x].profile = migration[x].profile
             /\ migration'[x].exe = migration[x].exe /\ migration'[x].state = migration[x].state
             /\ migration'[x].root = migration[x].root
  <2>1. LET l == [migration[x] EXCEPT !.revoked = TRUE] IN
          l.uid = migration[x].uid /\ l.profile = migration[x].profile /\ l.exe = migration[x].exe /\ l.state = migration[x].state /\ l.root = migration[x].root
    <3>1. migration[x] \in MigrationLease
      BY <1>1
    <3> QED
      BY <3>1 DEF MigrationLease
  <2> QED
    BY <1>2, <2>1
<1>6. ASSUME NEW x \in DOMAIN sshLoad
      PROVE  /\ sshLoad'[x].uid = sshLoad[x].uid /\ sshLoad'[x].res = sshLoad[x].res
             /\ sshLoad'[x].target = sshLoad[x].target
  <2>1. LET l == [sshLoad[x] EXCEPT !.revoked = TRUE] IN
          l.uid = sshLoad[x].uid /\ l.res = sshLoad[x].res /\ l.target = sshLoad[x].target
    <3>1. sshLoad[x] \in SshLoadLease
      BY <1>1
    <3> QED
      BY <3>1 DEF SshLoadLease
  <2> QED
    BY <1>3, <2>1
<1>7. ASSUME NEW x \in DOMAIN sshRead
      PROVE  /\ sshRead'[x].uid = sshRead[x].uid /\ sshRead'[x].res = sshRead[x].res
             /\ sshRead'[x].root = sshRead[x].root
  <2>1. LET l == [sshRead[x] EXCEPT !.revoked = TRUE] IN
          l.uid = sshRead[x].uid /\ l.res = sshRead[x].res /\ l.root = sshRead[x].root
    <3>1. sshRead[x] \in SshReadLease
      BY <1>1
    <3> QED
      BY <3>1 DEF SshReadLease
  <2> QED
    BY <1>4, <2>1
<1>8. \A s \in MigScope : migRecent'[s] # 0 => ScopeConsent(s)'
  BY StillSo DEF IInv, Typed, Grounds, LeasesGiven
<1>9. \A x \in DOMAIN migration' :
        /\ MigrationConsent(migration[x].uid, migration[x].profile, migration[x].exe)'
        /\ migration'[x].state = "bound" => migration'[x].root.exe = migration'[x].exe
  BY <1>2, <1>5, StillSo DEF IInv, Typed, Grounds, LeasesGiven
<1>10. \A x \in DOMAIN sshLoad' :
         KeyConsent("load", sshLoad[x].uid, sshLoad[x].res, sshLoad[x].target.exe, sshLoad[x].target.start)'
  BY <1>3, <1>6, StillSo DEF IInv, Typed, Grounds, LeasesGiven
<1>11. \A x \in DOMAIN sshRead' :
         KeyConsent("read", sshRead[x].uid, sshRead[x].res, sshRead[x].root.exe, StartOf[sshRead[x].root.inst])'
  BY <1>4, <1>7, StillSo DEF IInv, Typed, Grounds, LeasesGiven
<1> QED
  BY <1>8, <1>9, <1>10, <1>11 DEF LeasesGiven

\* An approval pushes a lease only under the consent it was given.
LEMMA ApproveMigrationGiven ==
  ASSUME IInv, Grounds, Grows, NEW d \in MigDetails, NEW ok \in BOOLEAN, ApproveMigration(d, ok),
         ScopeConsent(MigScopeOf[d]), UNCHANGED migRecent
  PROVE  LeasesGiven' /\ CacheSeen'
<1> DEFINE l == BoundLease(d, Expiry(MigrationDuration))
<1>1. migration \in Seq(MigrationLease) /\ UNCHANGED <<sshLoad, sshRead>>
  BY DEF IInv, Typed, LeasesOK, ApproveMigration
<1>2. migration' = migration \/ migration' = Append(migration, l)
  BY DEF ApproveMigration
<1>3. MigrationConsent(l.uid, l.profile, l.exe) /\ l.root.exe = l.exe
  <2>1. /\ MigScopeOf[d] = [uid |-> UidOf[d.target.inst], profile |-> d.profile, exe |-> d.target.exe]
        /\ d.root.exe = d.target.exe
    BY MigDetailsAre
  <2> QED
    BY <2>1 DEF ScopeConsent, BoundLease
<1> HIDE DEF l
<1>4. \A k \in DOMAIN migration' : (k \in DOMAIN migration /\ migration'[k] = migration[k]) \/ migration'[k] = l
  BY <1>1, <1>2
<1>5. \A k \in DOMAIN migration' :
        /\ MigrationConsent(migration'[k].uid, migration'[k].profile, migration'[k].exe)
        /\ migration'[k].state = "bound" => migration'[k].root.exe = migration'[k].exe
  BY <1>3, <1>4 DEF Grounds, LeasesGiven
<1>6. LeasesGiven'
  BY <1>1, <1>5, StillSo DEF IInv, Typed, Grounds, LeasesGiven
<1>7. CacheSeen'
  <2>1. d.target.inst \in Proc /\ PidOf[d.target.inst] \in Pid
    BY MigDetailsAre DEF Stable, Pid
  <2>2. Fresh(PidOf[d.target.inst]) = None \/ (SeenToRun(Fresh(PidOf[d.target.inst]))
          /\ IdentityOf(Fresh(PidOf[d.target.inst]), PidOf[d.target.inst]))
    BY FreshOK, FreshSeen DEF IInv, Typed, Grounds
  <2> QED
    BY <2>1, <2>2, RememberSeen DEF ApproveMigration
<1> QED
  BY <1>6, <1>7

\* The same of a read of a key.
LEMMA ApproveReadGiven ==
  ASSUME IInv, Grounds, Grows, NEW d \in SshDetailsSet, NEW ok \in BOOLEAN, ApproveRead(d, ok),
         KeyConsent("read", UidOf[d.target.inst], d.res, d.target.exe, StartOf[d.target.inst]),
         UNCHANGED migRecent
  PROVE  LeasesGiven' /\ CacheSeen'
<1> DEFINE l == ReadLease(d, Expiry(ReadDuration))
<1>1. sshRead \in Seq(SshReadLease) /\ UNCHANGED <<migration, sshLoad>>
  BY DEF IInv, Typed, LeasesOK, ApproveRead
<1>2. sshRead' = sshRead \/ sshRead' = Append(sshRead, l)
  BY DEF ApproveRead
<1>3. KeyConsent("read", l.uid, l.res, l.root.exe, StartOf[l.root.inst])
  BY DEF ReadLease
<1> HIDE DEF l
<1>4. \A k \in DOMAIN sshRead' : (k \in DOMAIN sshRead /\ sshRead'[k] = sshRead[k]) \/ sshRead'[k] = l
  BY <1>1, <1>2
<1>5. \A k \in DOMAIN sshRead' :
        KeyConsent("read", sshRead'[k].uid, sshRead'[k].res, sshRead'[k].root.exe, StartOf[sshRead'[k].root.inst])
  BY <1>3, <1>4 DEF Grounds, LeasesGiven
<1>6. LeasesGiven'
  BY <1>1, <1>5, StillSo DEF IInv, Typed, Grounds, LeasesGiven
<1>7. CacheSeen'
  <2>1. d.target.inst \in Proc /\ PidOf[d.target.inst] \in Pid
    BY SshDetailsAre DEF Stable, Pid
  <2>2. Fresh(PidOf[d.target.inst]) = None \/ (SeenToRun(Fresh(PidOf[d.target.inst]))
          /\ IdentityOf(Fresh(PidOf[d.target.inst]), PidOf[d.target.inst]))
    BY FreshOK, FreshSeen DEF IInv, Typed, Grounds
  <2> QED
    BY <2>1, <2>2, RememberSeen DEF ApproveRead
<1> QED
  BY <1>6, <1>7

\* What a client is granted it has consented to.
LEMMA GrantGiven ==
  ASSUME IInv, Grounds, Grows, ipc.job \in Job, ConsentOf(ipc.job) \in consents,
         \/ ipc.job.op = "arm" /\ Arm(ipc.job.profile, ipc.job.exe, ipc.job.uid)
         \/ ipc.job.op = "load" /\ AuthorizeLoad(ipc.job.res, ipc.job.uid, ipc.job.child, ipc.job.agent),
         UNCHANGED migRecent
  PROVE  LeasesGiven'
<1>1. CASE ipc.job.op = "arm"
  <2> DEFINE l == [profile |-> ipc.job.profile, target |-> BrowserOfExe[ipc.job.exe], uid |-> ipc.job.uid,
                   state |-> "armed", exe |-> ipc.job.exe, root |-> None,
                   expires |-> Expiry(MigrationDuration), revoked |-> FALSE]
  <2>1. migration \in Seq(MigrationLease) /\ migration' = Append(migration, l) /\ UNCHANGED <<sshLoad, sshRead>>
    BY <1>1 DEF IInv, Typed, LeasesOK, Arm
  <2>2. MigrationConsent(l.uid, l.profile, l.exe) /\ l.state # "bound"
    BY <1>1 DEF MigrationConsent, ConsentOf
  <2> HIDE DEF l
  <2>3. \A k \in DOMAIN migration' : (k \in DOMAIN migration /\ migration'[k] = migration[k]) \/ migration'[k] = l
    BY <2>1
  <2>4. \A k \in DOMAIN migration' :
          /\ MigrationConsent(migration'[k].uid, migration'[k].profile, migration'[k].exe)
          /\ migration'[k].state = "bound" => migration'[k].root.exe = migration'[k].exe
    BY <2>2, <2>3 DEF Grounds, LeasesGiven
  <2> QED
    BY <2>1, <2>4, StillSo DEF IInv, Typed, Grounds, LeasesGiven
<1>2. CASE ipc.job.op = "load"
  <2> DEFINE l == [res |-> ipc.job.res, uid |-> ipc.job.uid, agent |-> ipc.job.agent,
                   target |-> [exe |-> SshAdd, start |-> StartOf[ipc.job.child]],
                   expires |-> Expiry(LoadDuration), revoked |-> FALSE, used |-> FALSE]
  <2>1. sshLoad \in Seq(SshLoadLease) /\ sshLoad' = Append(sshLoad, l) /\ UNCHANGED <<migration, sshRead>>
    BY <1>2 DEF IInv, Typed, LeasesOK, AuthorizeLoad
  <2>2. KeyConsent("load", l.uid, l.res, l.target.exe, l.target.start)
    BY <1>2 DEF KeyConsent, ConsentOf
  <2> HIDE DEF l
  <2>3. \A k \in DOMAIN sshLoad' : (k \in DOMAIN sshLoad /\ sshLoad'[k] = sshLoad[k]) \/ sshLoad'[k] = l
    BY <2>1
  <2>4. \A k \in DOMAIN sshLoad' :
          KeyConsent("load", sshLoad'[k].uid, sshLoad'[k].res, sshLoad'[k].target.exe, sshLoad'[k].target.start)
    BY <2>2, <2>3 DEF Grounds, LeasesGiven
  <2> QED
    BY <2>1, <2>4, StillSo DEF IInv, Typed, Grounds, LeasesGiven
<1> QED
  BY <1>1, <1>2

-----------------------------------------------------------------------------
(***************************************************************************)
(* What a prompt is about.                                                 *)
(***************************************************************************)
\* The second look records the file that is opened and who opens it.
LEMMA DetailsFit ==
  ASSUME IInv, Grounds, main.pc = "details", Resolve(EvPid) # None
  PROVE  /\ KindOf[Res] = "ssh" /\ UidOfIdentity(Resolve(EvPid)) = OwnerOf[Res]
              => ReadFits(Event, SshDetails(Res, Resolve(EvPid)))
         /\ KindOf[Res] # "ssh" /\ UidOfIdentity(Resolve(EvPid)) = OwnerOf[Res]
              => MigFits(Event, MigrationDetails(Res, Resolve(EvPid)))
<1> DEFINE id == Resolve(EvPid)
<1>1. main.pc \in WithBatch
  BY DEF WithBatch
<1>2. /\ IdentityOf(id, EvPid) /\ SeenToRun(id) /\ id \in Identity
      /\ Gone(Event) \/ id.self.inst = ask[Event].inst
  BY <1>1, WhoOpens DEF IdentityOf
<1>3. Res \in Resource /\ KindOf[Res] \in {"browser", "ssh"}
  BY <1>1, EventOK, CoreAssumption DEF IInv, Typed
<1>4. BrowserRoot(id).inst \in Gate!Tree(id.self.inst) /\ HasRun(BrowserRoot(id)) /\ HasRun(id.self)
  BY <1>2, BrowserRootOK, TreeSeen DEF SeenToRun
<1> HIDE DEF id
<1>5. KindOf[Res] = "ssh" /\ UidOfIdentity(id) = OwnerOf[Res] => ReadFits(Event, SshDetails(Res, id))
  BY <1>2, <1>4 DEF ReadFits, SshDetails, UidOfIdentity, Res
<1>6. KindOf[Res] # "ssh" /\ UidOfIdentity(id) = OwnerOf[Res] => MigFits(Event, MigrationDetails(Res, id))
  BY <1>2, <1>3, <1>4 DEF MigFits, MigrationDetails, UidOfIdentity, Res
<1> QED
  BY <1>5, <1>6 DEF id

\* Requests of one key are about the same file, user and tree.
LEMMA SameKeyFits ==
  ASSUME NEW p \in Perm, NEW d \in MigDetails, NEW e \in MigDetails, MigKeyOf[d] = MigKeyOf[e], MigFits(p, d)
  PROVE  MigFits(p, e)
<1>1. MigKeyOf[d].uid = UidOf[d.target.inst] /\ MigKeyOf[d].root = d.root /\ MigKeyOf[d].profile = d.profile
  <2>1. MigKeyOf[d] = [uid |-> UidOf[d.target.inst], root |-> d.root, profile |-> d.profile]
    BY MigDetailsAre
  <2> QED
    BY <2>1
<1>2. MigKeyOf[e].uid = UidOf[e.target.inst] /\ MigKeyOf[e].root = e.root /\ MigKeyOf[e].profile = e.profile
  <2>1. MigKeyOf[e] = [uid |-> UidOf[e.target.inst], root |-> e.root, profile |-> e.profile]
    BY MigDetailsAre
  <2> QED
    BY <2>1
<1>3. UidOf[d.target.inst] = UidOf[e.target.inst] /\ d.root = e.root /\ d.profile = e.profile
  BY <1>1, <1>2
<1> QED
  BY <1>3 DEF MigFits

\* The same of the SSH store.
LEMMA SameSshKeyFits ==
  ASSUME NEW p \in Perm, NEW d \in SshDetailsSet, NEW e \in SshDetailsSet,
         SshKeyOf[d] = SshKeyOf[e], ReadFits(p, d)
  PROVE  ReadFits(p, e)
<1>1. SshKeyOf[d].res = d.res /\ SshKeyOf[d].root = d.target
  <2>1. SshKeyOf[d] = [uid |-> UidOf[d.target.inst], res |-> d.res, root |-> d.target]
    BY SshDetailsAre
  <2> QED
    BY <2>1
<1>2. SshKeyOf[e].res = e.res /\ SshKeyOf[e].root = e.target
  <2>1. SshKeyOf[e] = [uid |-> UidOf[e.target.inst], res |-> e.res, root |-> e.target]
    BY SshDetailsAre
  <2> QED
    BY <2>1
<1>3. d.res = e.res /\ d.target = e.target
  BY <1>1, <1>2
<1> QED
  BY <1>3 DEF ReadFits

\* A permission joins the requests, or the requests stay as they are.
LEMMA MigEnqueueFits ==
  ASSUME IInv, Grounds, Grows, NEW p \in Perm, NEW d \in MigDetails, Mig!Enqueue(p, d),
         MigFits(p, d), ask[p] # None, UNCHANGED <<sshRequests, sshNextId>>
  PROVE  /\ RequestsFit'
         /\ migNextId' >= migNextId /\ migNextId' \in Nat
         /\ \A r \in migRequests' : r.id > migNextId
              \/ \E q \in migRequests : r.id = q.id /\ r.details = q.details
<1>1. /\ migNextId \in Nat /\ \A r \in migRequests : r.id \in Nat /\ r.id <= migNextId /\ r \in Mig!Request
  BY DEF IInv, Typed, MigOK, Mig!Request, Grounds, RequestsFit
<1>2. \A r \in sshRequests : r.id <= sshNextId /\ (\A q \in r.perms : ReadFits(q, r.details)')
  BY WaitersAsked, StillSo DEF IInv, Typed, Grounds, RequestsFit
<1>3. MigFits(p, d)'
  BY StillSo DEF IInv, Typed
<1>4. \A r \in migRequests : \A q \in r.perms : MigFits(q, r.details)'
  BY WaitersAsked, StillSo DEF IInv, Typed, Grounds, RequestsFit
<1>5. CASE UNCHANGED <<migRequests, migNextId>>
  <2>1. \A r \in migRequests' : r.id <= migNextId' /\ (\A q \in r.perms : MigFits(q, r.details)')
    BY <1>1, <1>4, <1>5
  <2> QED
    BY <1>1, <1>2, <1>5, <2>1 DEF Grounds, RequestsFit, Named
<1>6. CASE Mig!JoinRequest(p, d)
  <2>1. PICK r \in migRequests :
          /\ MigKeyOf[r.details] = MigKeyOf[d]
          /\ migRequests' = (migRequests \ {r}) \union {[r EXCEPT !.perms = @ \union {p}]}
    BY <1>6 DEF Mig!JoinRequest, Mig!Pending
  <2> DEFINE n == [r EXCEPT !.perms = @ \union {p}]
  <2>2. n.id = r.id /\ n.details = r.details /\ n.perms = r.perms \union {p} /\ r.details \in MigDetails
    BY <1>1 DEF Mig!Request
  <2> HIDE DEF n
  <2>3. migNextId' = migNextId /\ migRequests' = (migRequests \ {r}) \union {n}
    BY <1>6, <2>1 DEF Mig!JoinRequest, n
  <2>4. MigFits(p, r.details)
    BY <2>1, <2>2, SameKeyFits
  <2>5. MigFits(p, r.details)'
    BY <2>2, <2>4, StillSo DEF IInv, Typed
  <2>6. \A x \in migRequests' : x.id <= migNextId' /\ (\A q \in x.perms : MigFits(q, x.details)')
    BY <1>1, <1>4, <2>2, <2>3, <2>5
  <2>7. \A x \in migRequests' : \E q \in migRequests : x.id = q.id /\ x.details = q.details
    BY <2>2, <2>3
  <2>8. Named(migRequests)' /\ Named(sshRequests)'
    BY <2>2, <2>3 DEF Grounds, RequestsFit, Named
  <2> QED
    BY <1>1, <1>2, <2>3, <2>6, <2>7, <2>8 DEF RequestsFit
<1>7. CASE Mig!CreateRequest(p, d)
  <2> DEFINE n == [id |-> migNextId + 1, details |-> d, perms |-> {p}, expires |-> Mig!SatAdd(now, Timeout)]
  <2>1. n.id = migNextId + 1 /\ n.details = d /\ n.perms = {p}
    OBVIOUS
  <2>2. migNextId' = migNextId + 1 /\ migRequests' = migRequests \union {n}
    BY <1>7 DEF Mig!CreateRequest
  <2> HIDE DEF n
  <2>3. \A x \in migRequests' : x.id <= migNextId' /\ (\A q \in x.perms : MigFits(q, x.details)')
    BY <1>1, <1>3, <1>4, <2>1, <2>2
  <2>4. \A r \in migRequests' : r.id > migNextId \/ \E q \in migRequests : r.id = q.id /\ r.details = q.details
    BY <1>1, <2>1, <2>2
  <2>5. \A r \in migRequests : r.id # n.id
    BY <1>1, <2>1
  <2>6. Named(migRequests)' /\ Named(sshRequests)'
    BY <2>2, <2>5 DEF Grounds, RequestsFit, Named
  <2> QED
    BY <1>1, <1>2, <2>2, <2>3, <2>4, <2>6 DEF RequestsFit
<1> QED
  BY <1>5, <1>6, <1>7 DEF Mig!Enqueue, Mig!DenySuppressed, Mig!DenyFullRequest,
     Mig!ReturnRecentlyApproved, Mig!DenyFullStore

\* The same of the SSH store.
LEMMA SshEnqueueFits ==
  ASSUME IInv, Grounds, Grows, NEW p \in Perm, NEW d \in SshDetailsSet, Ssh!Enqueue(p, d),
         ReadFits(p, d), ask[p] # None, UNCHANGED <<migRequests, migNextId>>
  PROVE  /\ RequestsFit'
         /\ sshNextId' >= sshNextId /\ sshNextId' \in Nat
         /\ \A r \in sshRequests' : r.id > sshNextId
              \/ \E q \in sshRequests : r.id = q.id /\ r.details = q.details
<1>1. /\ sshNextId \in Nat /\ \A r \in sshRequests : r.id \in Nat /\ r.id <= sshNextId /\ r \in Ssh!Request
  BY DEF IInv, Typed, SshOK, Ssh!Request, Grounds, RequestsFit
<1>2. \A r \in migRequests : r.id <= migNextId /\ (\A q \in r.perms : MigFits(q, r.details)')
  BY WaitersAsked, StillSo DEF IInv, Typed, Grounds, RequestsFit
<1>3. ReadFits(p, d)'
  BY StillSo DEF IInv, Typed
<1>4. \A r \in sshRequests : \A q \in r.perms : ReadFits(q, r.details)'
  BY WaitersAsked, StillSo DEF IInv, Typed, Grounds, RequestsFit
<1>5. CASE UNCHANGED <<sshRequests, sshNextId>>
  <2>1. \A r \in sshRequests' : r.id <= sshNextId' /\ (\A q \in r.perms : ReadFits(q, r.details)')
    BY <1>1, <1>4, <1>5
  <2> QED
    BY <1>1, <1>2, <1>5, <2>1 DEF Grounds, RequestsFit, Named
<1>6. CASE Ssh!JoinRequest(p, d)
  <2>1. PICK r \in sshRequests :
          /\ SshKeyOf[r.details] = SshKeyOf[d]
          /\ sshRequests' = (sshRequests \ {r}) \union {[r EXCEPT !.perms = @ \union {p}]}
    BY <1>6 DEF Ssh!JoinRequest, Ssh!Pending
  <2> DEFINE n == [r EXCEPT !.perms = @ \union {p}]
  <2>2. n.id = r.id /\ n.details = r.details /\ n.perms = r.perms \union {p} /\ r.details \in SshDetailsSet
    BY <1>1 DEF Ssh!Request
  <2> HIDE DEF n
  <2>3. sshNextId' = sshNextId /\ sshRequests' = (sshRequests \ {r}) \union {n}
    BY <1>6, <2>1 DEF Ssh!JoinRequest, n
  <2>4. ReadFits(p, r.details)
    BY <2>1, <2>2, SameSshKeyFits
  <2>5. ReadFits(p, r.details)'
    BY <2>2, <2>4, StillSo DEF IInv, Typed
  <2>6. \A x \in sshRequests' : x.id <= sshNextId' /\ (\A q \in x.perms : ReadFits(q, x.details)')
    BY <1>1, <1>4, <2>2, <2>3, <2>5
  <2>7. \A x \in sshRequests' : \E q \in sshRequests : x.id = q.id /\ x.details = q.details
    BY <2>2, <2>3
  <2>8. Named(sshRequests)' /\ Named(migRequests)'
    BY <2>2, <2>3 DEF Grounds, RequestsFit, Named
  <2> QED
    BY <1>1, <1>2, <2>3, <2>6, <2>7, <2>8 DEF RequestsFit
<1>7. CASE Ssh!CreateRequest(p, d)
  <2> DEFINE n == [id |-> sshNextId + 1, details |-> d, perms |-> {p}, expires |-> Ssh!SatAdd(now, Timeout)]
  <2>1. n.id = sshNextId + 1 /\ n.details = d /\ n.perms = {p}
    OBVIOUS
  <2>2. sshNextId' = sshNextId + 1 /\ sshRequests' = sshRequests \union {n}
    BY <1>7 DEF Ssh!CreateRequest
  <2> HIDE DEF n
  <2>3. \A x \in sshRequests' : x.id <= sshNextId' /\ (\A q \in x.perms : ReadFits(q, x.details)')
    BY <1>1, <1>3, <1>4, <2>1, <2>2
  <2>4. \A r \in sshRequests' : r.id > sshNextId \/ \E q \in sshRequests : r.id = q.id /\ r.details = q.details
    BY <1>1, <2>1, <2>2
  <2>5. \A r \in sshRequests : r.id # n.id
    BY <1>1, <2>1
  <2>6. Named(sshRequests)' /\ Named(migRequests)'
    BY <2>2, <2>5 DEF Grounds, RequestsFit, Named
  <2> QED
    BY <1>1, <1>2, <2>2, <2>3, <2>4, <2>6 DEF RequestsFit
<1> QED
  BY <1>5, <1>6, <1>7 DEF Ssh!Enqueue, Ssh!DenySuppressed, Ssh!DenyFullRequest,
     Ssh!ReturnRecentlyApproved, Ssh!DenyFullStore, Ssh!RecentlyApproved, Ssh!Cleanup

-----------------------------------------------------------------------------
(***************************************************************************)
(* Every step keeps the grounds.                                           *)
(***************************************************************************)
\* What a step leaves alone, or only lets go, keeps its grounds.
LEMMA Untouched ==
  ASSUME IInv, Grounds, Grows
  PROVE  /\ UNCHANGED cache => CacheSeen'
         /\ UNCHANGED <<leases, migRecent>> => LeasesGiven'
         /\ UNCHANGED main => MainFits'
         /\ migRequests' \subseteq migRequests /\ sshRequests' \subseteq sshRequests
              /\ UNCHANGED <<migNextId, sshNextId>> => RequestsFit' /\ (UNCHANGED ipc => JobOK')
<1>1. /\ UNCHANGED cache => CacheSeen'
      /\ UNCHANGED <<leases, migRecent>> => LeasesGiven'
      /\ UNCHANGED main => MainFits'
  BY CacheStill, LeasesStill, MainStill
<1>2. ASSUME migRequests' \subseteq migRequests, sshRequests' \subseteq sshRequests,
             UNCHANGED <<migNextId, sshNextId>>
      PROVE  RequestsFit' /\ (UNCHANGED ipc => JobOK')
  <2>1. RequestsFit'
    BY <1>2, RequestsGo
  <2>2. migNextId \in Nat /\ sshNextId \in Nat
    BY DEF IInv, Typed, MigOK, SshOK
  <2>3. migNextId' >= migNextId /\ sshNextId' >= sshNextId /\ migNextId' \in Nat /\ sshNextId' \in Nat
    BY <1>2, <2>2
  <2> QED
    BY <1>2, <2>1, <2>3, JobStill
<1> QED
  BY <1>1, <1>2

\* A store's cleanup lets recent approvals go.
LEMMA RecentCleaned ==
  ASSUME IInv, Grounds, Grows, UNCHANGED leases, migRecent' = Mig!Cleanup(migRecent)
  PROVE  LeasesGiven'
<1>1. \A s \in MigScope : migRecent'[s] # 0 => migRecent[s] # 0
  BY DEF IInv, Typed, MigOK, Mig!Cleanup
<1> QED
  BY <1>1, StillSo DEF IInv, Typed, Grounds, LeasesGiven, leases

\* The main loop is done with an event, or has none.
LEMMA MainElsewhere ==
  ASSUME IInv,
         \/ NextEvent \/ MainRead
         \/ \E pc \in {"expireMigrations", "expireReads", "read", "details"} :
              Goto(pc) \/ \E x : main' = [main EXCEPT !.pc = pc, !.about = x]
  PROVE  MainFits'
<1>1. DOMAIN main = {"pc", "batch", "about"}
  BY DEF IInv, Custody, MainShape
<1>2. NextEvent \/ MainRead => main'.pc \notin {"enqueue", "recent"}
  <2>1. NextEvent => main'.pc \in {"expireMigrations", "decide"}
    BY DEF NextEvent
  <2>2. MainRead => main'.pc \in {"expireMigrations", "decide"}
    BY <1>1 DEF MainRead, Goto
  <2> QED
    BY <2>1, <2>2
<1>3. ASSUME NEW pc \in {"expireMigrations", "expireReads", "read", "details"},
             Goto(pc) \/ \E x : main' = [main EXCEPT !.pc = pc, !.about = x]
      PROVE  main'.pc = pc
  BY <1>1, <1>3 DEF Goto
<1> QED
  BY <1>2, <1>3 DEF MainFits

\* Processes, clients' openings and time leave the daemon its grounds.
LEMMA EnvironmentGrounds ==
  ASSUME IInv, Grounds, Grows, Environment \/ Tick \/ UNCHANGED vars
  PROVE  CacheSeen' /\ LeasesGiven' /\ RequestsFit' /\ MainFits' /\ JobOK'
<1>1. UNCHANGED <<cache, leases, migStore, sshStore, main, ipc>>
  BY DEF Environment, Spawn, Exit, Exec, Open, Tick, daemon, engine, leases, vars
<1> QED
  BY <1>1, Untouched DEF migStore, sshStore

\* Every step of the main loop keeps the grounds.
LEMMA MainGrounds ==
  ASSUME IInv, Grounds, Grows, MainStep
  PROVE  CacheSeen' /\ LeasesGiven' /\ RequestsFit' /\ MainFits' /\ JobOK'
<1>1. CASE MainExpireMigrations
  <2>1. /\ migRequests' \subseteq migRequests /\ migRecent' = Mig!Cleanup(migRecent)
        /\ UNCHANGED <<cache, leases, migNextId, sshRequests, sshNextId, ipc>> /\ Goto("expireReads")
    BY <1>1 DEF MainExpireMigrations, Mig!Expire, Mig!Remove, engine, leases, sshStore
  <2> QED
    BY <2>1, Untouched, RecentCleaned, MainElsewhere
<1>2. CASE MainExpireReads
  <2>1. /\ sshRequests' \subseteq sshRequests /\ Goto("read")
        /\ UNCHANGED <<cache, leases, migRecent, migNextId, sshNextId, migRequests, ipc>>
    BY <1>2 DEF MainExpireReads, Ssh!Expire, Ssh!Remove, engine, leases, migStore
  <2> QED
    BY <2>1, Untouched, MainElsewhere
<1>3. CASE MainRead
  <2>1. UNCHANGED <<cache, leases, migRecent, migRequests, migNextId, sshRequests, sshNextId, ipc>>
    BY <1>3 DEF MainRead, engine, leases, migStore, sshStore
  <2> QED
    BY <1>3, <2>1, Untouched, MainElsewhere
<1>4. CASE MainDecideOpen
  <2>1. /\ UNCHANGED <<cache, leases, migRecent, migRequests, migNextId, sshRequests, sshNextId, ipc>>
        /\ NextEvent
    BY <1>4 DEF MainDecideOpen, engine, leases, migStore, sshStore, Finish
  <2> QED
    BY <2>1, Untouched, MainElsewhere
<1>5. CASE MainDecideUnknown
  <2>1. /\ UNCHANGED <<leases, migRecent, migRequests, migNextId, sshRequests, sshNextId, ipc>>
        /\ NextEvent /\ Remember(EvPid, None) /\ main.pc \in WithBatch
    BY <1>5 DEF MainDecideUnknown, ToDecide, MainAt, WithBatch, migStore, sshStore, Finish
  <2>2. CacheSeen'
    BY <2>1, EventOK, RememberSeen DEF IInv, Typed
  <2> QED
    BY <2>1, <2>2, Untouched, MainElsewhere
<1>6. CASE MainPanic
  <2>1. UNCHANGED <<cache, leases, migRecent, migRequests, migNextId, sshRequests, sshNextId, ipc, main>>
    BY <1>6 DEF MainPanic, engine, leases, migStore, sshStore
  <2> QED
    BY <2>1, Untouched
<1>7. CASE MainDecide
  <2>1. /\ UNCHANGED <<migRecent, migRequests, migNextId, sshRequests, sshNextId, ipc>>
        /\ NextEvent \/ \E x : main' = [main EXCEPT !.pc = "details", !.about = x]
        /\ main.pc \in WithBatch /\ Resolve(EvPid) # None
        /\ Remember(EvPid, Resolve(EvPid)) /\ Apply(Res, Resolve(EvPid))
    BY <1>7 DEF MainDecide, ToDecide, MainAt, WithBatch, migStore, sshStore, Finish
  <2>2. /\ EvPid \in Pid /\ IdentityOf(Resolve(EvPid), EvPid) /\ SeenToRun(Resolve(EvPid))
    BY <2>1, EventOK, WhoOpens DEF IInv, Typed
  <2>3. CacheSeen' /\ LeasesGiven'
    BY <2>1, <2>2, RememberSeen, ApplyGiven
  <2>4. MainFits'
    BY <2>1, MainElsewhere
  <2> QED
    BY <2>1, <2>3, <2>4, Untouched
<1>8. CASE MainDetails
  <2>1. /\ UNCHANGED <<leases, migRecent, migRequests, migNextId, sshRequests, sshNextId, ipc, ask>>
        /\ main.pc = "details" /\ main.pc \in WithBatch /\ Remember(EvPid, Resolve(EvPid))
    BY <1>8 DEF MainDetails, MainAt, WithBatch, migStore, sshStore, outside
  <2>2. /\ EvPid \in Pid
        /\ Resolve(EvPid) # None => IdentityOf(Resolve(EvPid), EvPid) /\ SeenToRun(Resolve(EvPid))
    BY <2>1, EventOK, WhoOpens DEF IInv, Typed
  <2>3. CacheSeen'
    BY <2>1, <2>2, RememberSeen
  <2>4. MainFits'
    <3>1. CASE NextEvent
      BY <3>1, MainElsewhere
    <3>2. CASE /\ Resolve(EvPid) # None /\ UidOfIdentity(Resolve(EvPid)) = OwnerOf[Res]
               /\ main' = [main EXCEPT !.pc = "enqueue",
                    !.about = IF KindOf[Res] = "ssh" THEN SshDetails(Res, Resolve(EvPid))
                              ELSE MigrationDetails(Res, Resolve(EvPid))]
      <4>1. DOMAIN main = {"pc", "batch", "about"}
        BY DEF IInv, Custody, MainShape
      <4>2. /\ main'.pc = "enqueue" /\ Event' = Event
            /\ main'.about = IF KindOf[Res] = "ssh" THEN SshDetails(Res, Resolve(EvPid))
                             ELSE MigrationDetails(Res, Resolve(EvPid))
        BY <3>2, <4>1 DEF Event
      <4>3. Res' = Res
        BY <2>1, <4>2 DEF Res
      <4>4. IF KindOf[Res] = "ssh" THEN ReadFits(Event, main'.about) ELSE MigFits(Event, main'.about)
        BY <2>1, <3>2, <4>2, DetailsFit
      <4>5. Event \in Perm /\ ask[Event] # None
        BY <2>1, AtEvent DEF IInv
      <4>6. main'.about \in (IF KindOf[Res] = "ssh" THEN SshDetailsSet ELSE MigDetails)
        <5>1. CASE KindOf[Res] = "ssh"
          BY <2>1, <2>2, <3>2, <4>2, <5>1, EventOK, SshDetailsOK DEF IInv, Typed
        <5>2. CASE KindOf[Res] # "ssh"
          <6>1. /\ IsTrustedBrowser(Resolve(EvPid)) /\ Res \in Resource /\ KindOf[Res] = "browser"
            BY <1>8, <2>1, <3>2, <4>1, <4>2, <5>2, EventOK, CoreAssumption
               DEF MainDetails, MayAskMigration, Finish, NextEvent, IInv, Typed
          <6> QED
            BY <2>2, <3>2, <4>2, <5>2, <6>1, MigrationDetailsOK
        <5> QED
          BY <5>1, <5>2
      <4>7. KindOf[Res] = "ssh" => ReadFits(Event, main.about)'
        <5>1. ASSUME NEW d \in SshDetailsSet, d = main'.about, ReadFits(Event, d) PROVE ReadFits(Event, main.about)'
          BY <4>2, <4>5, <5>1, StillSo DEF IInv, Typed
        <5> QED
          BY <4>4, <4>6, <5>1
      <4>8. KindOf[Res] # "ssh" => MigFits(Event, main.about)'
        <5>1. ASSUME NEW d \in MigDetails, d = main'.about, MigFits(Event, d) PROVE MigFits(Event, main.about)'
          BY <4>2, <4>5, <5>1, StillSo DEF IInv, Typed
        <5> QED
          BY <4>4, <4>6, <5>1
      <4> QED
        BY <4>2, <4>3, <4>7, <4>8 DEF MainFits
    <3> QED
      BY <1>8, <3>1, <3>2 DEF MainDetails, Finish, MayAskMigration
  <2> QED
    BY <2>1, <2>3, <2>4, Untouched
<1>9. CASE MainEnqueueMigration
  <2>1. /\ UNCHANGED <<cache, leases, sshRequests, sshNextId, ipc>>
        /\ main.pc = "enqueue" /\ main.pc \in WithBatch /\ KindOf[Res] # "ssh"
        /\ Mig!Enqueue(Event, main.about) /\ migRecent' = Mig!Cleanup(migRecent)
    BY <1>9 DEF MainEnqueueMigration, MainAt, WithBatch, engine, leases, sshStore, Mig!Enqueue
  <2>2. main.about \in MigDetails /\ MigFits(Event, main.about) /\ Event \in Perm /\ ask[Event] # None
    BY <2>1, AtEvent DEF IInv, Typed, AboutOK, Grounds, MainFits
  <2>3. RequestsFit' /\ JobOK'
    <3>1. sshNextId' >= sshNextId /\ sshNextId' \in Nat
      BY <2>1 DEF IInv, Typed, SshOK
    <3>2. /\ RequestsFit' /\ migNextId' >= migNextId /\ migNextId' \in Nat
          /\ \A r \in migRequests' : r.id > migNextId
               \/ \E q \in migRequests : r.id = q.id /\ r.details = q.details
      BY <2>1, <2>2, MigEnqueueFits
    <3> QED
      BY <2>1, <3>1, <3>2, JobStill
  <2>4. CacheSeen' /\ LeasesGiven'
    BY <2>1, Untouched, RecentCleaned
  <2>5. MainFits'
    <3>1. CASE perm'[Event] # "taken"
      BY <1>9, <3>1, MainElsewhere DEF MainEnqueueMigration
    <3>2. CASE perm'[Event] = "taken"
      <4>1. DOMAIN main = {"pc", "batch", "about"}
        BY DEF IInv, Custody, MainShape
      <4>2. main'.pc = "recent" /\ main'.about = main.about /\ Event' = Event
        BY <1>9, <3>2, <4>1 DEF MainEnqueueMigration, Goto, Event
      <4>3. Mig!RecentlyApproved(MigScopeOf[main.about])
        BY <2>1, <2>2, <3>2 DEF Mig!Enqueue, Mig!DenySuppressed, Mig!JoinRequest, Mig!DenyFullRequest,
           Mig!ReturnRecentlyApproved, Mig!DenyFullStore, Mig!CreateRequest, Mig!Marked
      <4>4. MigScopeOf[main.about] \in MigScope /\ DOMAIN migRecent = MigScope
        BY <2>2, MigDetailsAre DEF IInv, Typed, MigOK
      <4>5. ScopeConsent(MigScopeOf[main.about])
        BY <4>3, <4>4 DEF Mig!RecentlyApproved, Mig!Cleanup, Grounds, LeasesGiven
      <4>6. ASSUME NEW d \in MigDetails, d = main.about
            PROVE  MigFits(Event, main.about)' /\ ScopeConsent(MigScopeOf[main.about])'
        BY <2>2, <4>2, <4>5, <4>6, StillSo DEF IInv, Typed
      <4> QED
        BY <2>2, <4>2, <4>6 DEF MainFits
    <3> QED
      BY <3>1, <3>2
  <2> QED
    BY <2>3, <2>4, <2>5
<1>10. CASE MainEnqueueRead
  <2>1. /\ UNCHANGED <<cache, leases, migRecent, migRequests, migNextId, ipc>>
        /\ main.pc = "enqueue" /\ main.pc \in WithBatch /\ KindOf[Res] = "ssh"
        /\ Ssh!Enqueue(Event, main.about) /\ NextEvent
    BY <1>10 DEF MainEnqueueRead, MainAt, WithBatch, engine, leases, migStore
  <2>2. main.about \in SshDetailsSet /\ ReadFits(Event, main.about) /\ Event \in Perm /\ ask[Event] # None
    BY <2>1, AtEvent DEF IInv, Typed, AboutOK, Grounds, MainFits
  <2>3. RequestsFit' /\ JobOK'
    <3>1. migNextId' >= migNextId /\ migNextId' \in Nat
      BY <2>1 DEF IInv, Typed, MigOK
    <3>2. /\ RequestsFit' /\ sshNextId' >= sshNextId /\ sshNextId' \in Nat
          /\ \A r \in sshRequests' : r.id > sshNextId
               \/ \E q \in sshRequests : r.id = q.id /\ r.details = q.details
      BY <2>1, <2>2, SshEnqueueFits
    <3> QED
      BY <2>1, <3>1, <3>2, JobStill
  <2> QED
    BY <2>1, <2>3, Untouched, MainElsewhere
<1>11. CASE MainRecent
  <2>1. /\ UNCHANGED <<migRecent, migRequests, migNextId, sshRequests, sshNextId, ipc>>
        /\ main.pc = "recent" /\ NextEvent /\ \E ok \in BOOLEAN : ApproveMigration(main.about, ok)
    BY <1>11 DEF MainRecent, MainAt, migStore, sshStore, Finish
  <2>2. main.about \in MigDetails /\ ScopeConsent(MigScopeOf[main.about])
    BY <2>1 DEF IInv, Typed, AboutOK, Grounds, MainFits
  <2>3. CacheSeen' /\ LeasesGiven'
    BY <2>1, <2>2, ApproveMigrationGiven
  <2> QED
    BY <2>1, <2>3, Untouched, MainElsewhere
<1> QED
  BY <1>1, <1>2, <1>3, <1>4, <1>5, <1>6, <1>7, <1>8, <1>9, <1>10, <1>11 DEF MainStep

\* Where the IPC thread has no job, no job has to be justified.
LEMMA JobIdle == ipc' = Idle => JobOK'
BY DEF Idle, JobOK, JobAsked, JobNamed, JobConsented, JobFits, Swept

\* A client asks for what it may, and names a request that is there.
LEMMA JobAsks ==
  ASSUME NEW job, NEW block \in BOOLEAN, Begin(job, block), job.uid \in {Root, ConsentOf(job).uid},
         block => job.op \in {"migration", "read"} /\ job.block,
         job.op = "migration" => /\ job.id <= migNextId'
                                 /\ \A r \in migRequests' : r.id = job.id => r.details = job.details,
         job.op = "read" => /\ job.id <= sshNextId'
                            /\ \A r \in sshRequests' : r.id = job.id => r.details = job.details
  PROVE  JobOK'
<1>1. /\ DOMAIN ipc' = {"pc", "job"} /\ ipc'.job = job
      /\ ipc'.pc = IF block THEN "take" ELSE "authenticate"
  BY DEF Begin
<1>2. JobAsked'
  BY <1>1 DEF JobAsked, ConsentOf
<1>3. JobNamed'
  BY <1>1 DEF JobNamed, WithId
<1>4. JobConsented'
  BY <1>1 DEF JobConsented
<1>5. JobFits'
  BY <1>1 DEF JobFits, Swept
<1> QED
  BY <1>2, <1>3, <1>4, <1>5 DEF JobOK

\* Whom a resolution is about.
LEMMA ConsentIs ==
  ASSUME NEW job
  PROVE  /\ job.op = "migration" => ConsentOf(job) =
              [kind |-> "migration", uid |-> UidOf[job.details.target.inst], by |-> job.uid,
               what |-> job.details.profile, exe |-> job.details.target.exe, start |-> 1]
         /\ job.op = "read" => ConsentOf(job) =
              [kind |-> "read", uid |-> UidOf[job.details.target.inst], by |-> job.uid,
               what |-> job.details.res, exe |-> job.details.target.exe,
               start |-> StartOf[job.details.target.inst]]
         /\ job.op \in {"arm", "load"} => ConsentOf(job).uid = job.uid
BY DEF ConsentOf

\* A client's request starts with its grounds.
LEMMA RequestGrounds ==
  ASSUME IInv, Grounds, Grows, IpcRequest
  PROVE  CacheSeen' /\ LeasesGiven' /\ RequestsFit' /\ MainFits' /\ JobOK'
<1>1. ASSUME NEW u \in Clients, IpcRevoke(u)
      PROVE  CacheSeen' /\ LeasesGiven' /\ RequestsFit' /\ MainFits' /\ JobOK'
  <2>1. /\ UNCHANGED <<main, ipc, cache, migRecent, migRequests, migNextId, sshRequests, sshNextId>>
        /\ \E k : RevokeMigration(k) \/ RevokeLoad(k) \/ RevokeRead(k)
    BY <1>1 DEF IpcRevoke, beside, migStore, sshStore, RevokeMigration, RevokeLoad, RevokeRead
  <2> QED
    BY <2>1, RevokeGiven, Untouched
<1>2. ASSUME NEW job, NEW block, Begin(job, block)
      PROVE  CacheSeen' /\ LeasesGiven' /\ RequestsFit' /\ MainFits'
             /\ UNCHANGED <<migRequests, migNextId, sshRequests, sshNextId>>
  <2>1. UNCHANGED <<main, cache, leases, migRecent, migRequests, migNextId, sshRequests, sshNextId>>
    BY <1>2 DEF Begin, beside, engine, leases, migStore, sshStore
  <2> QED
    BY <2>1, Untouched
<1>3. ASSUME NEW u \in Clients, NEW block \in BOOLEAN, NEW r \in migRequests, IpcResolveMigration(r, u, block)
      PROVE  JobOK'
  <2> DEFINE job == Resolution("migration", r.id, r.details, u, block)
  <2>1. job.op = "migration" /\ job.id = r.id /\ job.details = r.details /\ job.uid = u /\ job.block = block
    BY DEF Resolution
  <2>2. Begin(job, block) /\ Mig!MayResolve(u, r.details)
    BY <1>3 DEF IpcResolveMigration
  <2> HIDE DEF job
  <2>3. r.details \in MigDetails
    BY WaitersAsked
  <2>4. u \in {Root, UidOf[r.details.target.inst]}
    <3>1. MigKeyOf[r.details] \in MigKey /\
          MigKeyOf[r.details] = [uid |-> UidOf[r.details.target.inst], root |-> r.details.root,
                                 profile |-> r.details.profile]
      BY <2>3, MigDetailsAre
    <3>2. MigKeyOf[r.details].uid = UidOf[r.details.target.inst]
      BY <3>1
    <3> QED
      BY <2>2, <3>1, <3>2 DEF Mig!MayResolve
  <2>5. job.uid \in {Root, ConsentOf(job).uid}
    BY <2>1, <2>4, ConsentIs
  <2>6. r.id <= migNextId /\ \A q \in migRequests : q.id = r.id => q.details = r.details
    BY DEF Grounds, RequestsFit, Named
  <2> QED
    BY <1>2, <2>1, <2>2, <2>5, <2>6, JobAsks
<1>4. ASSUME NEW u \in Clients, NEW block \in BOOLEAN, NEW r \in sshRequests, IpcResolveRead(r, u, block)
      PROVE  JobOK'
  <2> DEFINE job == Resolution("read", r.id, r.details, u, block)
  <2>1. job.op = "read" /\ job.id = r.id /\ job.details = r.details /\ job.uid = u /\ job.block = block
    BY DEF Resolution
  <2>2. Begin(job, block) /\ Ssh!MayResolve(u, r.details)
    BY <1>4 DEF IpcResolveRead
  <2> HIDE DEF job
  <2>3. r.details \in SshDetailsSet
    BY WaitersAsked
  <2>4. u \in {Root, UidOf[r.details.target.inst]}
    <3>1. SshKeyOf[r.details] \in SshKey /\
          SshKeyOf[r.details] = [uid |-> UidOf[r.details.target.inst], res |-> r.details.res,
                                 root |-> r.details.target]
      BY <2>3, SshDetailsAre
    <3>2. SshKeyOf[r.details].uid = UidOf[r.details.target.inst]
      BY <3>1
    <3> QED
      BY <2>2, <3>1, <3>2 DEF Ssh!MayResolve
  <2>5. job.uid \in {Root, ConsentOf(job).uid}
    BY <2>1, <2>4, ConsentIs
  <2>6. r.id <= sshNextId /\ \A q \in sshRequests : q.id = r.id => q.details = r.details
    BY DEF Grounds, RequestsFit, Named
  <2> QED
    BY <1>2, <2>1, <2>2, <2>5, <2>6, JobAsks
<1>5. ASSUME NEW x \in ArmRequests, IpcAuthorizeMigration(x[1], x[2], x[3])
      PROVE  JobOK'
  <2> DEFINE job == [op |-> "arm", uid |-> x[1], profile |-> x[2], exe |-> x[3]]
  <2>1. job.op = "arm" /\ Begin(job, FALSE)
    BY <1>5 DEF IpcAuthorizeMigration
  <2> HIDE DEF job
  <2>2. job.uid \in {Root, ConsentOf(job).uid}
    BY <2>1, ConsentIs
  <2> QED
    BY <2>1, <2>2, JobAsks
<1>6. ASSUME NEW x \in LoadRequests, IpcAuthorizeLoad(x[1], x[2], x[3])
      PROVE  JobOK'
  <2> DEFINE job == [op |-> "load", uid |-> UidOf[x[1]], child |-> x[1], res |-> x[2], agent |-> x[3]]
  <2>1. job.op = "load" /\ Begin(job, FALSE)
    BY <1>6 DEF IpcAuthorizeLoad
  <2> HIDE DEF job
  <2>2. job.uid \in {Root, ConsentOf(job).uid}
    BY <2>1, ConsentIs
  <2> QED
    BY <2>1, <2>2, JobAsks
<1>7. CASE \E u \in Clients : IpcRevoke(u)
  BY <1>1, <1>7
<1>8. CASE \/ \E u \in Clients, block \in BOOLEAN : \/ \E r \in migRequests : IpcResolveMigration(r, u, block)
                                                    \/ \E r \in sshRequests : IpcResolveRead(r, u, block)
           \/ \E x \in ArmRequests : IpcAuthorizeMigration(x[1], x[2], x[3])
           \/ \E x \in LoadRequests : IpcAuthorizeLoad(x[1], x[2], x[3])
  <2>1. JobOK'
    BY <1>3, <1>4, <1>5, <1>6, <1>8
  <2>2. \E job, block : Begin(job, block)
    BY <1>8 DEF IpcResolveMigration, IpcResolveRead, IpcAuthorizeMigration, IpcAuthorizeLoad
  <2> QED
    BY <1>2, <2>1, <2>2
<1> QED
  BY <1>7, <1>8 DEF IpcRequest

\* A request in the thread's hand is the one the job named.
LEMMA TakenFits ==
  ASSUME IInv, Grounds, Grows, ipc.pc = "take", NEW r,
         \/ ipc.job.op = "migration" /\ r \in WithId(migRequests)
         \/ ipc.job.op = "read" /\ r \in WithId(sshRequests),
         ipc' = Taken(r)
  PROVE  JobOK'
<1>1. /\ DOMAIN ipc' = {"pc", "job", "perms"} /\ ipc'.job = ipc.job /\ ipc'.perms = r.perms
      /\ ipc'.pc = IF ipc.job.block THEN "deny" ELSE "approve"
  BY DEF Taken
<1>2. JobAsked /\ JobNamed /\ JobConsented
  BY DEF Grounds, JobOK
<1>3. JobAsked' /\ JobNamed' /\ JobConsented'
  <2>1. JobAsked'
    BY <1>1, <1>2 DEF JobAsked, ConsentOf
  <2>2. JobNamed'
    BY <1>1 DEF JobNamed
  <2>3. JobConsented'
    BY <1>1, <1>2 DEF JobConsented, ConsentOf, Grows
  <2> QED
    BY <2>1, <2>2, <2>3
<1>4. CASE ipc.job.op = "migration" /\ r \in WithId(migRequests)
  <2>1. r \in migRequests /\ r.details = ipc.job.details /\ r.details \in MigDetails
    BY <1>2, <1>4, WaitersAsked DEF JobNamed, WithId
  <2>2. \A p \in r.perms : MigFits(p, r.details) /\ p \in Perm /\ ask[p] # None
    BY <2>1, WaitersAsked DEF Grounds, RequestsFit
  <2>3. \A p \in r.perms : MigFits(p, r.details)'
    BY <2>1, <2>2, StillSo DEF IInv, Typed
  <2> QED
    BY <1>1, <1>3, <1>4, <2>1, <2>3 DEF JobOK, JobFits, Swept
<1>5. CASE ipc.job.op = "read" /\ r \in WithId(sshRequests)
  <2>1. r \in sshRequests /\ r.details = ipc.job.details /\ r.details \in SshDetailsSet
    BY <1>2, <1>5, WaitersAsked DEF JobNamed, WithId
  <2>2. \A p \in r.perms : ReadFits(p, r.details) /\ p \in Perm /\ ask[p] # None
    BY <2>1, WaitersAsked DEF Grounds, RequestsFit
  <2>3. \A p \in r.perms : ReadFits(p, r.details)'
    BY <2>1, <2>2, StillSo DEF IInv, Typed
  <2> QED
    BY <1>1, <1>3, <1>5, <2>1, <2>3 DEF JobOK, JobFits, Swept
<1> QED
  BY <1>4, <1>5

\* The consent of a job is the one its leases need.
LEMMA ConsentedJob ==
  ASSUME IInv, Grounds, ipc.pc \in {"approve", "record", "allow"}
  PROVE  /\ ipc.job \in Job /\ ipc.job.op \in {"migration", "read"}
         /\ ipc.job.op = "migration" =>
              ipc.job.details \in MigDetails /\ ScopeConsent(MigScopeOf[ipc.job.details])
         /\ ipc.job.op = "read" =>
              /\ ipc.job.details \in SshDetailsSet
              /\ KeyConsent("read", UidOf[ipc.job.details.target.inst], ipc.job.details.res,
                            ipc.job.details.target.exe, StartOf[ipc.job.details.target.inst])
<1>1. ipc.job \in Job /\ ipc.job.op \in {"migration", "read"}
  BY DEF IInv, Typed, IpcOK
<1>2. ConsentOf(ipc.job) \in consents
  BY DEF Grounds, JobOK, JobConsented
<1>3. CASE ipc.job.op = "migration"
  <2>1. ipc.job.details \in MigDetails
    BY <1>1, <1>3 DEF Job
  <2>2. MigScopeOf[ipc.job.details] = [uid |-> UidOf[ipc.job.details.target.inst],
          profile |-> ipc.job.details.profile, exe |-> ipc.job.details.target.exe]
    BY <2>1, MigDetailsAre
  <2> QED
    BY <1>1, <1>2, <1>3, <2>1, <2>2, ConsentIs DEF ScopeConsent, MigrationConsent
<1>4. CASE ipc.job.op = "read"
  <2>1. ipc.job.details \in SshDetailsSet
    BY <1>1, <1>4 DEF Job
  <2> QED
    BY <1>1, <1>2, <1>4, <2>1, ConsentIs DEF KeyConsent
<1> QED
  BY <1>1, <1>3, <1>4

\* The siblings the thread still has keep what they stem from.
LEMMA SweptFits ==
  ASSUME IInv, Grounds, Grows, ipc'.pc = "siblings", Swept' \subseteq Swept
  PROVE  JobOK'
<1>1. ASSUME NEW r \in Swept
      PROVE  ScopeConsent(MigScopeOf[r.details])' /\ \A p \in r.perms : MigFits(p, r.details)'
  <2>1. ScopeConsent(MigScopeOf[r.details]) /\ \A p \in r.perms : MigFits(p, r.details)
    BY DEF Grounds, JobOK, JobFits
  <2>2. r.details \in MigDetails /\ \A p \in r.perms : p \in Perm /\ ask[p] # None
    BY WaitersAsked
  <2> QED
    BY <2>1, <2>2, StillSo DEF IInv, Typed
<1> QED
  BY <1>1 DEF JobOK, JobAsked, JobNamed, JobConsented, JobFits, Swept

\* The siblings of an approved request were asked under the same scope.
LEMMA SiblingsFit ==
  ASSUME IInv, Grounds, Grows, NEW R \in SUBSET Swept, ipc' = Siblings(R)
  PROVE  JobOK'
<1>1. CASE R = {}
  BY <1>1, JobIdle DEF Siblings
<1>2. CASE R # {}
  <2>1. ipc'.pc = "siblings" /\ Swept' = R
    BY <1>2 DEF Siblings, Swept
  <2> QED
    BY <2>1, SweptFits
<1> QED
  BY <1>1, <1>2

\* Every step of the IPC thread keeps the grounds.
LEMMA IpcGrounds ==
  ASSUME IInv, Grounds, Grows, IpcStep
  PROVE  CacheSeen' /\ LeasesGiven' /\ RequestsFit' /\ MainFits' /\ JobOK'
<1>1. CASE IpcAuthenticate
  <2>1. /\ UNCHANGED <<main, cache, leases, migRecent, migRequests, migNextId, sshRequests, sshNextId>>
        /\ ipc.pc = "authenticate"
    BY <1>1 DEF IpcAuthenticate, IpcAt, beside, engine, leases, migStore, sshStore
  <2>2. JobOK'
    <3>1. CASE ipc' = Idle
      BY <3>1, JobIdle
    <3>2. CASE /\ consents' = consents \union {ConsentOf(ipc.job)}
               /\ ipc' = [ipc EXCEPT !.pc = IF ipc.job.op \in {"migration", "read"} THEN "take" ELSE "grant"]
      <4>1. /\ ipc'.pc \in {"take", "grant"} /\ ipc'.job = ipc.job /\ DOMAIN ipc' = DOMAIN ipc
            /\ "siblings" \notin DOMAIN ipc
        BY <2>1, <3>2 DEF IInv, Custody, IpcShape
      <4>2. JobAsked /\ JobNamed
        BY DEF Grounds, JobOK
      <4>3. JobAsked'
        BY <2>1, <4>1, <4>2 DEF JobAsked, ConsentOf
      <4>4. JobNamed'
        BY <2>1, <4>1, <4>2 DEF JobNamed, WithId
      <4>5. JobConsented'
        <5>1. ConsentOf(ipc.job)' = ConsentOf(ipc.job)
          BY <4>1 DEF ConsentOf
        <5> QED
          BY <3>2, <5>1 DEF JobConsented
      <4>6. JobFits'
        BY <4>1 DEF JobFits, Swept
      <4> QED
        BY <4>3, <4>4, <4>5, <4>6 DEF JobOK
    <3> QED
      BY <1>1, <3>1, <3>2 DEF IpcAuthenticate
  <2> QED
    BY <2>1, <2>2, Untouched
<1>2. CASE IpcTakeMigration
  <2>1. /\ UNCHANGED <<main, cache, leases, sshRequests, sshNextId>>
        /\ ipc.pc = "take" /\ ipc.job.op = "migration"
    BY <1>2 DEF IpcTakeMigration, IpcAt, beside, engine, leases, sshStore
  <2>2. migRequests' \subseteq migRequests /\ UNCHANGED <<migRecent, migNextId>>
    BY <1>2 DEF IpcTakeMigration, migStore, Mig!TakeTimedOut, Mig!TakeReady, Mig!Remove
  <2>3. JobOK'
    BY <1>2, <2>1, JobIdle, TakenFits DEF IpcTakeMigration
  <2> QED
    BY <2>1, <2>2, <2>3, Untouched
<1>3. CASE IpcTakeRead
  <2>1. /\ UNCHANGED <<main, cache, leases, migRequests, migNextId, migRecent>>
        /\ ipc.pc = "take" /\ ipc.job.op = "read"
    BY <1>3 DEF IpcTakeRead, IpcAt, beside, engine, leases, migStore
  <2>2. sshRequests' \subseteq sshRequests /\ UNCHANGED sshNextId
    BY <1>3 DEF IpcTakeRead, sshStore, Ssh!TakeTimedOut, Ssh!TakeReady, Ssh!Remove
  <2>3. JobOK'
    BY <1>3, <2>1, JobIdle, TakenFits DEF IpcTakeRead
  <2> QED
    BY <2>1, <2>2, <2>3, Untouched
<1>4. CASE IpcDeny
  <2>1. /\ UNCHANGED <<main, cache, leases, migRecent, migRequests, migNextId, sshRequests, sshNextId>>
        /\ ipc' = Idle
    BY <1>4 DEF IpcDeny, beside, engine, leases, migStore, sshStore
  <2> QED
    BY <2>1, Untouched, JobIdle
<1>5. CASE IpcApproveMigration
  <2>1. /\ UNCHANGED <<main, migRecent, migRequests, migNextId, sshRequests, sshNextId>>
        /\ ipc.pc = "approve" /\ ipc.job.op = "migration"
    BY <1>5 DEF IpcApproveMigration, IpcAt, beside, migStore, sshStore
  <2>2. PICK ok \in BOOLEAN : /\ ApproveMigration(ipc.job.details, ok)
                              /\ ipc' = [ipc EXCEPT !.pc = IF ok THEN "record" ELSE "deny"]
    BY <1>5 DEF IpcApproveMigration
  <2>3. CacheSeen' /\ LeasesGiven'
    BY <2>1, <2>2, ConsentedJob, ApproveMigrationGiven
  <2>4. JobOK'
    <3>1. /\ ipc'.pc \in {"record", "deny"} /\ ipc'.job = ipc.job /\ ipc'.perms = ipc.perms
          /\ DOMAIN ipc' = DOMAIN ipc /\ "siblings" \notin DOMAIN ipc
      BY <2>1, <2>2 DEF IInv, Custody, IpcShape
    <3>2. JobAsked /\ JobConsented /\ JobFits /\ ipc.job.details \in MigDetails
      BY <2>1, ConsentedJob DEF Grounds, JobOK
    <3>3. JobAsked' /\ JobNamed' /\ JobConsented'
      BY <2>1, <3>1, <3>2 DEF JobAsked, JobNamed, JobConsented, ConsentOf, Grows
    <3>4. \A p \in ipc.perms : MigFits(p, ipc.job.details)'
      <4>1. \A p \in ipc.perms : p \in Taking /\ MigFits(p, ipc.job.details)
        BY <2>1, <3>2 DEF JobFits, Taking, IInv, Custody, IpcShape
      <4>2. \A p \in ipc.perms : p \in Perm /\ ask[p] # None
        BY <4>1, WaitersAsked
      <4> QED
        BY <3>1, <3>2, <4>1, <4>2, StillSo DEF IInv, Typed
    <3> QED
      BY <2>1, <3>1, <3>3, <3>4 DEF JobOK, JobFits, Swept
  <2> QED
    BY <2>1, <2>3, <2>4, Untouched
<1>6. CASE IpcApproveRead
  <2>1. /\ UNCHANGED <<main, migRecent, migRequests, migNextId, sshRequests, sshNextId>>
        /\ ipc.pc = "approve" /\ ipc.job.op = "read" /\ ipc' = Idle
        /\ \E ok \in BOOLEAN : ApproveRead(ipc.job.details, ok)
    BY <1>6 DEF IpcApproveRead, IpcAt, beside, migStore, sshStore
  <2>2. CacheSeen' /\ LeasesGiven'
    BY <2>1, ConsentedJob, ApproveReadGiven
  <2> QED
    BY <2>1, <2>2, Untouched, JobIdle
<1>7. CASE IpcRecord
  <2> DEFINE scope == MigScopeOf[ipc.job.details]
             S == Mig!Siblings(scope)
  <2>1. /\ UNCHANGED <<main, cache, leases, sshRequests, sshNextId>>
        /\ ipc.pc = "record" /\ ipc.job.op = "migration"
    BY <1>7, ConsentedJob DEF IpcRecord, IpcAt, beside, engine, leases, sshStore, IInv, Typed, IpcOK
  <2>2. ipc.job.details \in MigDetails /\ ScopeConsent(scope) /\ scope \in MigScope
    BY <2>1, ConsentedJob, MigDetailsAre
  <2>3. /\ ipc' = [pc |-> "allow", job |-> ipc.job, perms |-> ipc.perms, siblings |-> S]
        /\ Mig!RecordApproval(scope) /\ S \subseteq migRequests
        /\ \A r \in S : MigScopeOf[r.details] = scope
    BY <1>7 DEF IpcRecord, Mig!Siblings
  <2> HIDE DEF S, scope
  <2>4. migRequests' \subseteq migRequests /\ UNCHANGED migNextId
    BY <2>3 DEF Mig!RecordApproval, Mig!Remove
  <2>5. LeasesGiven'
    <3>1. \A s \in MigScope : migRecent'[s] # 0 => migRecent[s] # 0 \/ s = scope
      <4>1. \/ migRecent' = Mig!Cleanup(migRecent)
            \/ migRecent' = [Mig!Cleanup(migRecent) EXCEPT ![scope] = Mig!SatAdd(now, ApprovalGrace)]
        BY <2>3 DEF Mig!RecordApproval
      <4> QED
        BY <2>2, <4>1 DEF IInv, Typed, MigOK, Mig!Cleanup
    <3> QED
      BY <2>1, <2>2, <3>1, StillSo DEF IInv, Typed, Grounds, LeasesGiven, leases
  <2>6. JobOK'
    <3>1. /\ ipc'.pc = "allow" /\ ipc'.job = ipc.job /\ ipc'.perms = ipc.perms /\ Swept' = S
      BY <2>3 DEF Swept
    <3>2. JobAsked /\ JobConsented /\ JobFits
      BY DEF Grounds, JobOK
    <3>3. JobAsked' /\ JobNamed' /\ JobConsented'
      BY <2>1, <3>1, <3>2 DEF JobAsked, JobNamed, JobConsented, ConsentOf, Grows
    <3>4. \A p \in ipc.perms : MigFits(p, ipc.job.details)'
      <4>1. \A p \in ipc.perms : p \in Taking /\ MigFits(p, ipc.job.details)
        BY <2>1, <3>2 DEF JobFits, Taking, IInv, Custody, IpcShape
      <4>2. \A p \in ipc.perms : p \in Perm /\ ask[p] # None
        BY <4>1, WaitersAsked
      <4> QED
        BY <2>2, <3>1, <4>1, <4>2, StillSo DEF IInv, Typed
    <3>5. ASSUME NEW r \in S
          PROVE  ScopeConsent(MigScopeOf[r.details])' /\ \A p \in r.perms : MigFits(p, r.details)'
      <4>1. r \in migRequests /\ MigScopeOf[r.details] = scope
        BY <2>3, <3>5
      <4>2. r.details \in MigDetails /\ \A p \in r.perms : p \in Perm /\ ask[p] # None /\ MigFits(p, r.details)
        BY <4>1, WaitersAsked DEF Grounds, RequestsFit
      <4> QED
        BY <2>2, <3>1, <4>1, <4>2, StillSo DEF IInv, Typed
    <3> QED
      BY <2>1, <3>1, <3>3, <3>4, <3>5 DEF JobOK, JobFits
  <2> QED
    BY <2>1, <2>4, <2>5, <2>6, Untouched
<1>8. CASE IpcAllow
  <2>1. /\ UNCHANGED <<main, cache, leases, migRecent, migRequests, migNextId, sshRequests, sshNextId>>
        /\ ipc' = Siblings(ipc.siblings) /\ ipc.siblings = Swept
    BY <1>8 DEF IpcAllow, IpcAt, beside, engine, leases, migStore, sshStore, Swept, IInv, Custody, IpcShape
  <2> QED
    BY <2>1, SiblingsFit, Untouched
<1>9. CASE IpcSibling
  <2>1. /\ UNCHANGED <<main, migRecent, migRequests, migNextId, sshRequests, sshNextId>>
        /\ ipc.siblings = Swept
    BY <1>9 DEF IpcSibling, IpcAt, beside, migStore, sshStore, Swept, IInv, Custody, IpcShape
  <2>2. PICK r \in Swept, ok \in BOOLEAN : ApproveMigration(r.details, ok) /\ ipc' = Siblings(Swept \ {r})
    BY <1>9, <2>1 DEF IpcSibling
  <2>3. r.details \in MigDetails /\ ScopeConsent(MigScopeOf[r.details])
    BY WaitersAsked DEF Grounds, JobOK, JobFits
  <2>4. CacheSeen' /\ LeasesGiven'
    BY <2>1, <2>2, <2>3, ApproveMigrationGiven
  <2>5. JobOK'
    BY <2>2, SiblingsFit
  <2> QED
    BY <2>1, <2>4, <2>5, Untouched
<1>10. CASE IpcArm \/ IpcLoad
  <2>1. /\ UNCHANGED <<main, migRecent, migRequests, migNextId, sshRequests, sshNextId, cache>>
        /\ ipc.pc = "grant" /\ ipc.job \in Job /\ ConsentOf(ipc.job) \in consents
    <3>1. ipc.pc = "grant" /\ UNCHANGED <<main, migRecent, migRequests, migNextId, sshRequests, sshNextId, cache>>
      BY <1>10 DEF IpcArm, IpcLoad, IpcAt, beside, migStore, sshStore, Arm, AuthorizeLoad, engine
    <3> QED
      BY <3>1 DEF IInv, Typed, IpcOK, Grounds, JobOK, JobConsented
  <2>2. \/ UNCHANGED leases
        \/ ipc.job.op = "arm" /\ Arm(ipc.job.profile, ipc.job.exe, ipc.job.uid)
        \/ ipc.job.op = "load" /\ AuthorizeLoad(ipc.job.res, ipc.job.uid, ipc.job.child, ipc.job.agent)
    BY <1>10 DEF IpcArm, IpcLoad, engine, leases
  <2>3. LeasesGiven'
    BY <2>1, <2>2, GrantGiven, Untouched
  <2>4. JobOK'
    <3>1. CASE ipc' = Idle
      BY <3>1, JobIdle
    <3>2. CASE ipc' # Idle
      <4>1. ipc'.pc = "deliver" /\ "siblings" \notin DOMAIN ipc'
        BY <1>10, <3>2 DEF IpcArm, IpcLoad
      <4> QED
        BY <4>1 DEF JobOK, JobAsked, JobNamed, JobConsented, JobFits, Swept
    <3> QED
      BY <3>1, <3>2
  <2> QED
    BY <2>1, <2>3, <2>4, Untouched
<1>11. CASE IpcDeliver
  <2>1. /\ UNCHANGED <<main, cache, migRecent, migRequests, migNextId, sshRequests, sshNextId>>
        /\ ipc' = Idle
        /\ UNCHANGED leases \/ \E k : RevokeMigration(k) \/ RevokeLoad(k) \/ RevokeRead(k)
    BY <1>11 DEF IpcDeliver, beside, migStore, sshStore, engine, leases, RevokeMigration, RevokeLoad
  <2> QED
    BY <2>1, RevokeGiven, Untouched, JobIdle
<1> QED
  BY <1>1, <1>2, <1>3, <1>4, <1>5, <1>6, <1>7, <1>8, <1>9, <1>10, <1>11 DEF IpcStep

\* A daemon that has just started keeps nothing that needs grounds.
LEMMA InitGrounds == Init => Grounds
<1> SUFFICES ASSUME Init PROVE Grounds
  OBVIOUS
<1>1. Kernel
  <2>1. ran = [i \in Proc |-> {BirthExe[i]}] /\ exe = BirthExe /\ scenario \in Scenario
        /\ life = [i \in Proc |-> IF i \in scenario.initial THEN "live" ELSE "unborn"]
        /\ ask = [p \in Perm |-> None]
    BY DEF Init, InitProcs
  <2>2. ran \in [Proc -> SUBSET Exe] /\ \A i \in Proc : exe[i] \in ran[i]
    BY <2>1, ProcessAssumption
  <2>3. \A i, j \in Live : PidOf[i] = PidOf[j] => i = j
    BY <2>1, ProcessAssumption DEF Live
  <2>4. Succession
    BY <2>1, ProcessAssumption DEF Succession, Later, Live
  <2> QED
    BY <2>1, <2>2, <2>3, <2>4 DEF Kernel
<1>2. CacheSeen /\ LeasesGiven
  BY DEF Init, CacheSeen, LeasesGiven
<1>3. RequestsFit /\ MainFits
  BY DEF Init, RequestsFit, Named, MainFits
<1>4. JobOK
  BY DEF Init, Idle, JobOK, JobAsked, JobNamed, JobConsented, JobFits, Swept
<1> QED
  BY <1>1, <1>2, <1>3, <1>4 DEF Grounds

\* What the daemon keeps always has its grounds in the history.
THEOREM GroundsHold == Spec => [](IInv /\ Grounds)
<1>1. Init => Grounds
  BY InitGrounds
<1>2. IInv /\ Grounds /\ [Next]_vars => Grounds'
  <2> SUFFICES ASSUME IInv, Grounds, [Next]_vars PROVE Grounds'
    OBVIOUS
  <2>1. Grows /\ Kernel'
    BY NextGrows DEF IInv, Typed, Grounds
  <2>2. CacheSeen' /\ LeasesGiven' /\ RequestsFit' /\ MainFits' /\ JobOK'
    BY <2>1, EnvironmentGrounds, MainGrounds, RequestGrounds, IpcGrounds DEF Next
  <2> QED
    BY <2>1, <2>2 DEF Grounds
<1> QED
  BY <1>1, <1>2, Invariance, PTL DEF Spec

-----------------------------------------------------------------------------
(***************************************************************************)
(* What the daemon allows is justified.                                    *)
(***************************************************************************)
\* An import under a consent for the scope of its prompt.
LEMMA MigJustified ==
  ASSUME NEW p \in Perm, ask[p] \in Access, NEW d \in MigDetails, MigFits(p, d), ScopeConsent(MigScopeOf[d])
  PROVE  Gate!Justified(ask[p])
<1>1. CASE Gone(p)
  BY <1>1 DEF Gone, Gate!Justified, Access
<1>2. CASE ~Gone(p)
  <2>1. MigScopeOf[d] = [uid |-> UidOf[d.target.inst], profile |-> d.profile, exe |-> d.target.exe]
        /\ d.root.exe = d.target.exe
    BY MigDetailsAre
  <2>2. PICK c \in consents : /\ c.kind = "migration" /\ c.uid = UidOf[d.target.inst]
                              /\ c.what = d.profile /\ c.exe = d.target.exe
    BY <2>1 DEF ScopeConsent, MigrationConsent
  <2>3. /\ KindOf[ask[p].res] = "browser" /\ ProfileOf[ask[p].res] = d.profile
        /\ UidOf[ask[p].inst] = UidOf[d.target.inst] /\ UidOf[ask[p].inst] = OwnerOf[ask[p].res]
        /\ d.root.inst \in Gate!Tree(ask[p].inst) /\ d.root.exe \in ran[d.root.inst]
    BY <1>2 DEF MigFits, HasRun
  <2>4. Gate!Covers(c, ask[p])
    BY <2>1, <2>2, <2>3 DEF Gate!Covers
  <2> QED
    BY <2>4 DEF Gate!Justified
<1> QED
  BY <1>1, <1>2

\* A read under a consent for the key and the process of its prompt.
LEMMA ReadJustified ==
  ASSUME NEW p \in Perm, ask[p] \in Access, NEW d \in SshDetailsSet, ReadFits(p, d),
         KeyConsent("read", UidOf[d.target.inst], d.res, d.target.exe, StartOf[d.target.inst])
  PROVE  Gate!Justified(ask[p])
<1>1. CASE Gone(p)
  BY <1>1 DEF Gone, Gate!Justified, Access
<1>2. CASE ~Gone(p)
  <2>1. PICK c \in consents : /\ c.kind = "read" /\ c.uid = UidOf[d.target.inst] /\ c.what = d.res
                              /\ c.exe = d.target.exe /\ c.start = StartOf[d.target.inst]
    BY DEF KeyConsent
  <2>2. /\ ask[p].res = d.res /\ ask[p].inst = d.target.inst
        /\ UidOf[ask[p].inst] = OwnerOf[ask[p].res] /\ d.target.exe \in ran[d.target.inst]
    BY <1>2 DEF ReadFits, HasRun
  <2>3. ask[p].inst \in Gate!Tree(ask[p].inst)
    BY DEF Gate!Tree
  <2>4. Gate!Covers(c, ask[p])
    BY <2>1, <2>2, <2>3 DEF Gate!Covers
  <2> QED
    BY <2>4 DEF Gate!Justified
<1> QED
  BY <1>1, <1>2

\* A profile under the policy: its own browser, or a lease that was consented to.
LEMMA BrowserJustified ==
  ASSUME IInv, Grounds, NEW pid, NEW id, IdentityOf(id, pid), SeenToRun(id),
         NEW a \in Access, a.inst = id.self.inst, KindOf[a.res] = "browser",
         Grants(DecideBrowser(a.res, id, Refreshed(a.res, id), now))
  PROVE  Gate!OwnBrowser(a) \/ \E c \in consents : Gate!Covers(c, a)
<1> DEFINE r == a.res
           L == Refreshed(r, id)
           scoped == {i \in DOMAIN L : InScope(L[i], r, id)}
           settling == {i \in scoped : Settles(L[i], id, now)}
           first == Min(settling)
<1>1. UidOfIdentity(id) = UidOf[a.inst] /\ id.self.exe \in ran[a.inst]
  BY DEF UidOfIdentity, SeenToRun, HasRun
<1>2. CASE UidOfIdentity(id) # OwnerOf[r]
  BY <1>2 DEF DecideBrowser, Grants, Plain
<1>3. CASE /\ UidOfIdentity(id) = OwnerOf[r] /\ IsTrustedBrowser(id)
           /\ BrowserOfIdentity(id) = BrowserOf[ProfileOf[r]]
  BY <1>1, <1>3 DEF Gate!OwnBrowser, IsTrustedBrowser, BrowserOfIdentity
<1>4. CASE /\ UidOfIdentity(id) = OwnerOf[r]
           /\ ~(IsTrustedBrowser(id) /\ BrowserOfIdentity(id) = BrowserOf[ProfileOf[r]])
  <2>1. DecideBrowser(r, id, L, now) =
          IF settling # {} THEN Settled(L[first], first, now)
          ELSE IF scoped = {} /\ IsTrustedBrowser(id) THEN Plain("askMigration") ELSE Plain("deny")
    BY <1>4 DEF DecideBrowser
  <2>2. settling # {} /\ Grants(Settled(L[first], first, now))
    BY <2>1 DEF Grants, Plain
  <2>3. DOMAIN L = DOMAIN migration /\ DOMAIN L \subseteq Nat
    BY RefreshOK DEF IInv, Typed, LeasesOK
  <2>4. first \in settling
    BY <2>2, <2>3, MinIn
  <2> DEFINE l == L[first]
  <2>5. /\ l.profile = ProfileOf[r] /\ l.uid = UidOfIdentity(id)
        /\ l.state = "bound" /\ InTree(id, l.root)
    BY <2>2, <2>4 DEF InScope, Settles, Settled, Grants, Plain
  <2>6. MigrationConsent(l.uid, l.profile, l.exe) /\ l.root.exe = l.exe
    BY <2>3, <2>4, <2>5, RefreshGiven
  <2> HIDE DEF l, L
  <2>7. l.root.inst \in Gate!Tree(a.inst) /\ l.exe \in ran[l.root.inst]
    BY <2>5, <2>6, TreeSeen DEF HasRun
  <2>8. PICK c \in consents : c.kind = "migration" /\ c.uid = l.uid /\ c.what = l.profile /\ c.exe = l.exe
    BY <2>6 DEF MigrationConsent
  <2>9. Gate!Covers(c, a)
    BY <1>1, <1>4, <2>5, <2>7, <2>8 DEF Gate!Covers
  <2> QED
    BY <2>9
<1> QED
  BY <1>2, <1>3, <1>4

\* A key under the policy: a load or a read that was consented to.
LEMMA KeyJustified ==
  ASSUME IInv, Grounds, NEW pid, NEW id, IdentityOf(id, pid), SeenToRun(id),
         NEW a \in Access, a.inst = id.self.inst, KindOf[a.res] = "ssh",
         Grants(DecideSsh(a.res, id, sshLoad, RefreshedReads, now))
  PROVE  \E c \in consents : Gate!Covers(c, a)
<1> DEFINE r == a.res
           loads == {i \in DOMAIN sshLoad : LoadApplies(sshLoad[i], r, id, now)}
           reads == {i \in DOMAIN RefreshedReads : ReadApplies(RefreshedReads[i], r, id, now)}
<1>1. /\ UidOfIdentity(id) = UidOf[a.inst] /\ id.self.exe \in ran[a.inst]
      /\ id.self.exe \in Exe /\ a.inst \in Proc
  BY DEF UidOfIdentity, SeenToRun, HasRun, IdentityOf, Identity, Stable
<1>2. UidOfIdentity(id) = OwnerOf[r] /\ (loads # {} \/ reads # {})
  BY DEF DecideSsh, Grants, Plain
<1>3. CASE loads # {}
  <2>1. PICK i \in DOMAIN sshLoad : LoadApplies(sshLoad[i], r, id, now)
    BY <1>3
  <2>2. /\ sshLoad[i].res = r /\ sshLoad[i].uid = UidOfIdentity(id)
        /\ sshLoad[i].target.exe = id.self.exe /\ sshLoad[i].target.start = StartOf[a.inst]
    BY <2>1 DEF LoadApplies, StableIdentityOf
  <2>3. PICK c \in consents : /\ c.kind = "load" /\ c.uid = UidOfIdentity(id) /\ c.what = r
                              /\ c.exe = id.self.exe /\ c.start = StartOf[a.inst]
    BY <2>2 DEF Grounds, LeasesGiven, KeyConsent
  <2> QED
    BY <1>1, <1>2, <2>3 DEF Gate!Covers
<1>4. CASE reads # {}
  <2>1. PICK i \in DOMAIN RefreshedReads : ReadApplies(RefreshedReads[i], r, id, now)
    BY <1>4
  <2>2. i \in DOMAIN sshRead /\ sshRead[i] \in SshReadLease
    BY DEF RefreshedReads, IInv, Typed, LeasesOK
  <2>3. /\ RefreshedReads[i].res = sshRead[i].res /\ RefreshedReads[i].uid = sshRead[i].uid
        /\ RefreshedReads[i].root = sshRead[i].root
    BY <2>2 DEF RefreshedReads, SshReadLease
  <2> DEFINE root == sshRead[i].root
  <2>4. sshRead[i].res = r /\ sshRead[i].uid = UidOfIdentity(id) /\ InTree(id, root)
    BY <2>1, <2>3 DEF ReadApplies
  <2>5. root.inst \in Gate!Tree(a.inst) /\ root.exe \in ran[root.inst]
    BY <2>4, TreeSeen DEF HasRun
  <2>6. PICK c \in consents : /\ c.kind = "read" /\ c.uid = UidOfIdentity(id) /\ c.what = r
                              /\ c.exe = root.exe /\ c.start = StartOf[root.inst]
    BY <2>2, <2>4 DEF Grounds, LeasesGiven, KeyConsent
  <2>7. Gate!Covers(c, a)
    BY <1>1, <1>2, <2>5, <2>6 DEF Gate!Covers
  <2> QED
    BY <2>7
<1> QED
  BY <1>2, <1>3, <1>4

\* What the main loop decides by itself.
LEMMA DecisionJustified ==
  ASSUME IInv, Grounds, main.pc \in WithBatch, Resolve(EvPid) # None,
         Grants(Judgement(Res, Resolve(EvPid)))
  PROVE  Gate!Justified(ask[Event])
<1> DEFINE id == Resolve(EvPid)
<1>1. /\ IdentityOf(id, EvPid) /\ SeenToRun(id)
      /\ Gone(Event) \/ id.self.inst = ask[Event].inst
  BY WhoOpens
<1>2. ask[Event] \in Access /\ Res \in Resource
  BY AtEvent, EventOK DEF IInv, Typed, World
<1>3. Grants(Evaluate(Res, id, Refreshed(Res, id), sshLoad, RefreshedReads, now))
  BY DEF Judgement, Grants, Plain
<1> HIDE DEF id
<1>4. CASE Gone(Event)
  BY <1>2, <1>4 DEF Gone, Gate!Justified, Access
<1>5. CASE id.self.inst = ask[Event].inst /\ KindOf[Res] = "ssh"
  BY <1>1, <1>2, <1>3, <1>5, KeyJustified DEF Evaluate, Res, Gate!Justified
<1>6. CASE id.self.inst = ask[Event].inst /\ KindOf[Res] # "ssh"
  <2>1. KindOf[Res] = "browser"
    BY <1>2, <1>6, CoreAssumption
  <2> QED
    BY <1>1, <1>2, <1>3, <1>6, <2>1, BrowserJustified DEF Evaluate, Res, Gate!Justified
<1> QED
  BY <1>1, <1>4, <1>5, <1>6

-----------------------------------------------------------------------------
(***************************************************************************)
(* Every step is a step of the gate, or none.                              *)
(***************************************************************************)
LEMMA GateStill ==
  UNCHANGED <<life, ran, ask, consents, perm>> => [Gate!Next]_(Gate!vars)
BY DEF Gate!vars

\* A thread marks permissions that are in its hand.
LEMMA GateAnswers ==
  ASSUME IInv, UNCHANGED <<life, ran, ask, consents>>,
         NEW P, NEW v \in {"held", "taken", "allowed", "denied"}, perm' = Mig!Marked(P, v),
         \A p \in Perm : p \in P =>
           /\ perm[p] \notin {"allowed", "denied"} /\ ask[p] # None
           /\ v = "allowed" => Gate!Justified(ask[p])
  PROVE  [Gate!Next]_(Gate!vars)
<1> DEFINE was == [p \in Perm |-> IF perm[p] \in {"allowed", "denied"} THEN perm[p] ELSE "none"]
           is  == [p \in Perm |-> IF perm'[p] \in {"allowed", "denied"} THEN perm'[p] ELSE "none"]
<1>1. \A p \in Perm : perm'[p] = IF p \in P THEN v ELSE perm[p]
  BY DEF Mig!Marked
<1>2. \A p \in Perm : is[p] # was[p] =>
        /\ was[p] = "none" /\ ask[p] # None
        /\ is[p] = "denied" \/ (is[p] = "allowed" /\ Gate!Justified(ask[p]))
  BY <1>1
<1>3. CASE is = was
  BY <1>3 DEF Gate!vars
<1>4. CASE is # was
  <2>1. Gate!AnswerSome
    BY <1>2, <1>4 DEF Gate!AnswerSome
  <2> QED
    BY <2>1 DEF Gate!Next
<1> QED
  BY <1>3, <1>4

\* The gate starts as the daemon starts.
LEMMA InitGate == Init => Gate!Init
<1> SUFFICES ASSUME Init PROVE Gate!Init
  OBVIOUS
<1>1. ran \in [Proc -> SUBSET Exe]
  BY ProcessAssumption DEF Init
<1>2. \A i \in Proc : life[i] # "gone"
  BY DEF Init, InitProcs
<1> QED
  BY <1>1, <1>2 DEF Init, Gate!Init

\* Processes and time.
LEMMA EnvironmentGate ==
  ASSUME IInv, Grounds, Grows, Environment \/ Tick \/ UNCHANGED vars
  PROVE  [Gate!Next]_(Gate!vars)
<1>1. CASE (\E i \in Proc : Spawn(i)) \/ (\E i \in Mortal : Exit(i)) \/ (\E x \in Execs : Exec(x[1], x[2]))
  <2>1. UNCHANGED <<ask, perm, consents>>
    BY <1>1 DEF Spawn, Exit, Exec, daemon
  <2>2. Gate!Environment
    BY <2>1 DEF Gate!Environment, Grows
  <2> QED
    BY <2>2 DEF Gate!Next
<1>2. CASE \E p \in Perm, a \in Opens : Open(p, a)
  <2>1. PICK p \in Perm, a \in Opens : Open(p, a)
    BY <1>2
  <2>2. a \in Gate!Ask
    BY GuarddAssumption DEF Opens, IInv, Typed, World, Gate!Ask
  <2>3. Gate!Open(p)
    BY <2>1, <2>2 DEF Open, procs, daemon, Gate!Open
  <2> QED
    BY <2>3 DEF Gate!Next
<1>3. CASE Tick \/ UNCHANGED vars
  BY <1>3, GateStill DEF Tick, vars, procs, daemon
<1> QED
  BY <1>1, <1>2, <1>3 DEF Environment

\* The main loop has a permission in hand that nobody has answered.
LEMMA MainHas ==
  ASSUME IInv, main.pc \in WithBatch
  PROVE  /\ Event \in Perm /\ ask[Event] # None /\ ask[Event] \in Access
         /\ perm[Event] \notin {"allowed", "denied"}
BY AtEvent DEF IInv, Typed, World

\* It finishes with it: a denial needs no justification.
LEMMA GateFinish ==
  ASSUME IInv, UNCHANGED <<life, ran, ask, consents>>, main.pc \in WithBatch,
         NEW v \in {"allowed", "denied"}, Finish(v), v = "allowed" => Gate!Justified(ask[Event])
  PROVE  [Gate!Next]_(Gate!vars)
BY MainHas, GateAnswers DEF Finish, Answer

\* A step of the main loop answers as the gate allows, or is a stutter of it.
LEMMA MainGate ==
  ASSUME IInv, Grounds, Grows, MainStep
  PROVE  [Gate!Next]_(Gate!vars)
<1>0. UNCHANGED <<life, ran, ask, consents>>
  BY DEF MainStep, MainExpireMigrations, MainExpireReads, MainRead, MainDecideOpen, MainDecideUnknown,
     MainPanic, MainDecide, MainDetails, MainEnqueueMigration, MainEnqueueRead, MainRecent, outside, procs
<1>1. CASE MainExpireMigrations
  <2>1. PICK R \in SUBSET migRequests : perm' = Mig!Marked(PermsOf(R), "denied")
    BY <1>1 DEF MainExpireMigrations, Mig!Expire, Mig!Remove, PermsOf
  <2>2. \A p \in PermsOf(R) : perm[p] \notin {"allowed", "denied"} /\ ask[p] # None
    BY WaitersAsked DEF PermsOf
  <2> QED
    BY <1>0, <2>1, <2>2, GateAnswers
<1>2. CASE MainExpireReads
  <2>1. PICK R \in SUBSET sshRequests : perm' = Mig!Marked(PermsOf(R), "denied")
    BY <1>2 DEF MainExpireReads, Ssh!Expire, Ssh!Remove, Ssh!Marked, Mig!Marked, PermsOf
  <2>2. \A p \in PermsOf(R) : perm[p] \notin {"allowed", "denied"} /\ ask[p] # None
    BY WaitersAsked DEF PermsOf
  <2> QED
    BY <1>0, <2>1, <2>2, GateAnswers
<1>3. CASE MainRead \/ MainPanic
  BY <1>0, <1>3, GateStill DEF MainRead, MainPanic
<1>4. CASE MainDecideOpen
  <2>1. main.pc \in WithBatch /\ Finish("allowed") /\ Gate!Justified(ask[Event])
    BY <1>4 DEF MainDecideOpen, MainAt, WithBatch, Res, Gate!Justified, Gate!MereOpenOfKey
  <2> QED
    BY <1>0, <2>1, GateFinish
<1>5. CASE MainDecideUnknown
  BY <1>0, <1>5, GateFinish DEF MainDecideUnknown, ToDecide, MainAt, WithBatch
<1>6. CASE MainDecide
  <2>1. main.pc \in WithBatch /\ Resolve(EvPid) # None
    BY <1>6 DEF MainDecide, ToDecide, MainAt, WithBatch
  <2>2. \/ Finish("denied") \/ UNCHANGED perm
        \/ Finish("allowed") /\ Grants(Judgement(Res, Resolve(EvPid)))
    BY <1>6 DEF MainDecide
  <2> QED
    BY <1>0, <2>1, <2>2, GateFinish, GateStill, DecisionJustified
<1>7. CASE MainDetails
  BY <1>0, <1>7, GateFinish, GateStill DEF MainDetails, MainAt, WithBatch
<1>8. CASE MainEnqueueMigration
  <2>1. main.pc \in WithBatch /\ Mig!Enqueue(Event, main.about)
    BY <1>8 DEF MainEnqueueMigration, MainAt, WithBatch
  <2>2. Event \notin MigPerms
    BY <2>1, AtEvent DEF IInv
  <2>3. PICK v \in {"held", "taken", "denied"} : perm' = Mig!Marked({Event}, v)
    BY <2>1, <2>2, MainHas, MigEnqueues DEF IInv
  <2> QED
    BY <1>0, <2>1, <2>3, MainHas, GateAnswers
<1>9. CASE MainEnqueueRead
  <2>1. main.pc \in WithBatch /\ Ssh!Enqueue(Event, main.about) /\ main.about \in SshDetailsSet
    BY <1>9 DEF MainEnqueueRead, MainAt, WithBatch, IInv, Typed, AboutOK
  <2>2. Event \notin SshPerms
    BY <2>1, AtEvent DEF IInv
  <2>3. PICK v \in {"held", "denied"} : perm' = Mig!Marked({Event}, v)
    BY <2>1, <2>2, MainHas, SshEnqueues DEF IInv
  <2> QED
    BY <1>0, <2>1, <2>3, MainHas, GateAnswers
<1>10. CASE MainRecent
  <2>1. /\ main.pc = "recent" /\ main.pc \in WithBatch
        /\ \E ok \in BOOLEAN : Finish(IF ok THEN "allowed" ELSE "denied")
    BY <1>10 DEF MainRecent, MainAt, WithBatch
  <2>2. main.about \in MigDetails /\ MigFits(Event, main.about) /\ ScopeConsent(MigScopeOf[main.about])
    BY <2>1 DEF IInv, Typed, AboutOK, Grounds, MainFits
  <2>3. Gate!Justified(ask[Event])
    BY <2>1, <2>2, MainHas, MigJustified
  <2> QED
    BY <1>0, <2>1, <2>3, GateFinish
<1> QED
  BY <1>1, <1>2, <1>3, <1>4, <1>5, <1>6, <1>7, <1>8, <1>9, <1>10 DEF MainStep

\* So does a step of the IPC thread, which records a consent before it uses it.
LEMMA IpcGate ==
  ASSUME IInv, Grounds, Grows, IpcRequest \/ IpcStep
  PROVE  [Gate!Next]_(Gate!vars)
<1>0. UNCHANGED <<life, ran, ask>>
  BY DEF IpcRequest, IpcResolveMigration, IpcResolveRead, IpcAuthorizeMigration, IpcAuthorizeLoad, Begin,
     IpcRevoke, IpcStep, IpcAuthenticate, IpcTakeMigration, IpcTakeRead, IpcDeny, IpcApproveMigration,
     IpcApproveRead, IpcRecord, IpcAllow, IpcSibling, IpcArm, IpcLoad, IpcDeliver, beside, procs
<1>1. CASE IpcAuthenticate
  <2>1. UNCHANGED perm /\ ipc.pc = "authenticate"
    BY <1>1 DEF IpcAuthenticate, IpcAt
  <2>2. CASE UNCHANGED consents
    BY <1>0, <2>1, <2>2, GateStill
  <2>3. CASE consents' = consents \union {ConsentOf(ipc.job)}
    <3>1. ipc.job \in Job /\ ipc.job.uid \in {Root, ConsentOf(ipc.job).uid}
      BY <2>1 DEF IInv, Typed, IpcOK, Grounds, JobOK, JobAsked
    <3>2. ipc.job.op \in {"migration", "read", "arm", "load"}
      BY <3>1 DEF Job
    <3>3. ConsentOf(ipc.job).by = ipc.job.uid
      BY <3>2 DEF ConsentOf
    <3>4. Gate!Consent
      BY <1>0, <2>1, <2>3, <3>1, <3>3 DEF Gate!Consent
    <3> QED
      BY <3>4 DEF Gate!Next
  <2> QED
    BY <1>1, <2>2, <2>3 DEF IpcAuthenticate
<1>2. CASE IpcRequest \/ IpcApproveMigration \/ IpcArm \/ IpcLoad \/ IpcDeliver
  <2>1. UNCHANGED <<perm, consents>>
    BY <1>2 DEF IpcRequest, IpcResolveMigration, IpcResolveRead, IpcAuthorizeMigration, IpcAuthorizeLoad,
       Begin, IpcRevoke, IpcApproveMigration, IpcArm, IpcLoad, IpcDeliver, beside
  <2> QED
    BY <1>0, <2>1, GateStill
<1>3. CASE IpcTakeMigration
  <2>1. UNCHANGED consents /\ (UNCHANGED perm \/ \E r \in migRequests, v \in {"denied", "taken"} :
          perm' = Mig!Marked(r.perms, v))
    BY <1>3 DEF IpcTakeMigration, WithId, Mig!TakeTimedOut, Mig!TakeReady, Mig!Remove
  <2> QED
    BY <1>0, <2>1, WaitersAsked, GateAnswers, GateStill
<1>4. CASE IpcTakeRead
  <2>1. UNCHANGED consents /\ (UNCHANGED perm \/ \E r \in sshRequests, v \in {"denied", "taken"} :
          perm' = Mig!Marked(r.perms, v))
    BY <1>4 DEF IpcTakeRead, WithId, Ssh!TakeTimedOut, Ssh!TakeReady, Ssh!Remove, Ssh!Marked, Mig!Marked
  <2> QED
    BY <1>0, <2>1, WaitersAsked, GateAnswers, GateStill
<1>5. CASE IpcDeny \/ IpcAllow \/ IpcApproveRead
  <2>1. /\ ipc.pc \in {"deny", "allow", "approve"} /\ ipc.perms = Taking /\ UNCHANGED consents
        /\ ipc.pc = "allow" \/ ipc.pc = "deny" \/ ipc.job.op = "read"
        /\ \E v \in {"denied", "allowed"} : /\ perm' = Mig!Marked(ipc.perms, v)
                                            /\ v = "allowed" => ipc.pc \in {"allow", "approve"}
    BY <1>5 DEF IpcDeny, IpcAllow, IpcApproveRead, IpcAt, Answer, Taking, IInv, Custody, IpcShape
  <2>2. \A p \in ipc.perms : p \in Perm /\ ask[p] \in Access /\ ask[p] # None /\ perm[p] = "taken"
    BY <2>1, WaitersAsked DEF IInv, Typed, World
  <2>3. ASSUME ipc.pc = "allow", NEW p \in ipc.perms PROVE Gate!Justified(ask[p])
    <3>1. ipc.job.op = "migration"
      BY <2>3 DEF IInv, Typed, IpcOK
    <3>2. ipc.job.details \in MigDetails /\ ScopeConsent(MigScopeOf[ipc.job.details])
      BY <2>3, <3>1, ConsentedJob
    <3>3. MigFits(p, ipc.job.details)
      BY <2>3, <3>1 DEF Grounds, JobOK, JobFits
    <3> QED
      BY <2>2, <3>2, <3>3, MigJustified
  <2>4. ASSUME ipc.pc = "approve", NEW p \in ipc.perms PROVE Gate!Justified(ask[p])
    <3>1. ipc.job.op = "read"
      BY <2>1, <2>4
    <3>2. /\ ipc.job.details \in SshDetailsSet
          /\ KeyConsent("read", UidOf[ipc.job.details.target.inst], ipc.job.details.res,
                        ipc.job.details.target.exe, StartOf[ipc.job.details.target.inst])
      BY <2>4, <3>1, ConsentedJob
    <3>3. ReadFits(p, ipc.job.details)
      BY <2>4, <3>1 DEF Grounds, JobOK, JobFits
    <3> QED
      BY <2>2, <3>2, <3>3, ReadJustified
  <2> QED
    BY <1>0, <2>1, <2>2, <2>3, <2>4, GateAnswers
<1>6. CASE IpcRecord
  <2>1. UNCHANGED consents /\ \E R \in SUBSET migRequests : perm' = Mig!Marked(PermsOf(R), "taken")
    BY <1>6 DEF IpcRecord, Mig!RecordApproval, Mig!Remove, Mig!Siblings, PermsOf
  <2>2. \A p \in MigPerms : perm[p] \notin {"allowed", "denied"} /\ ask[p] # None
    BY WaitersAsked DEF MigPerms, PermsOf
  <2>3. \A R \in SUBSET migRequests : PermsOf(R) \subseteq MigPerms
    BY DEF MigPerms, PermsOf
  <2> QED
    BY <1>0, <2>1, <2>2, <2>3, GateAnswers
<1>7. CASE IpcSibling
  <2>1. UNCHANGED consents /\ \E r \in Swept, v \in {"allowed", "denied"} : perm' = Mig!Marked(r.perms, v)
    BY <1>7 DEF IpcSibling, IpcAt, Answer, Swept, IInv, Custody, IpcShape
  <2>2. \A r \in Swept : \A p \in r.perms :
          perm[p] \notin {"allowed", "denied"} /\ ask[p] # None /\ Gate!Justified(ask[p])
    BY WaitersAsked, MigJustified DEF Grounds, JobOK, JobFits, IInv, Typed, World
  <2> QED
    BY <1>0, <2>1, <2>2, GateAnswers
<1> QED
  BY <1>1, <1>2, <1>3, <1>4, <1>5, <1>6, <1>7 DEF IpcStep

\* GateSpec, for every machine: whatever the processes, the clients and the two
\* threads do between the locks, the daemon answers an open once, and lets it
\* through only to the file's own browser or under a consent its owner or root
\* gave for the process tree that opens it.
THEOREM ImplementsGate == Spec => GateSpec
<1>1. Init => Gate!Init
  BY InitGate
<1>2. IInv /\ Grounds /\ [Next]_vars => [Gate!Next]_(Gate!vars)
  <2> SUFFICES ASSUME IInv, Grounds, [Next]_vars PROVE [Gate!Next]_(Gate!vars)
    OBVIOUS
  <2>1. Grows
    BY NextGrows DEF IInv, Typed, Grounds
  <2> QED
    BY <2>1, EnvironmentGate, MainGate, IpcGate DEF Next
<1> QED
  BY <1>1, <1>2, GroundsHold, PTL DEF Spec, GateSpec, Gate!Spec

-----------------------------------------------------------------------------
(***************************************************************************)
(* Who allows an open.                                                     *)
(***************************************************************************)
\* A step that only denies or takes over allows nothing.
LEMMA MarkedAllowsNone ==
  ASSUME NEW P, NEW v \in {"held", "taken", "denied"}, perm' = Mig!Marked(P, v), NEW p \in Perm
  PROVE  ~Allowed(p)
BY DEF Mig!Marked, Allowed

\* Three ways of the main loop and three of the IPC thread: each has the
\* permission in hand.
LEMMA MainAllows ==
  ASSUME IInv, MainStep, NEW p \in Perm, Allowed(p)
  PROVE  /\ p = Event /\ main.pc \in WithBatch /\ perm' = Mig!Marked({Event}, "allowed")
         /\ MainDecideOpen \/ MainDecide \/ MainRecent
<1>1. CASE MainExpireMigrations
  <2>1. \E P : perm' = Mig!Marked(P, "denied")
    BY <1>1 DEF MainExpireMigrations, Mig!Expire, Mig!Remove
  <2> QED
    BY <2>1, MarkedAllowsNone
<1>2. CASE MainExpireReads
  <2>1. \E P : perm' = Mig!Marked(P, "denied")
    BY <1>2 DEF MainExpireReads, Ssh!Expire, Ssh!Remove, Ssh!Marked, Mig!Marked
  <2> QED
    BY <2>1, MarkedAllowsNone
<1>3. CASE MainRead \/ MainPanic
  BY <1>3 DEF MainRead, MainPanic, Allowed
<1>4. CASE MainDecideUnknown \/ MainDetails
  <2>1. UNCHANGED perm \/ perm' = Mig!Marked({Event}, "denied")
    BY <1>4 DEF MainDecideUnknown, MainDetails, Finish, Answer
  <2> QED
    BY <2>1, MarkedAllowsNone DEF Allowed
<1>5. CASE MainEnqueueMigration
  <2>1. main.pc \in WithBatch /\ Mig!Enqueue(Event, main.about)
    BY <1>5 DEF MainEnqueueMigration, MainAt, WithBatch
  <2>2. Event \notin MigPerms
    BY <2>1, AtEvent DEF IInv
  <2>3. PICK v \in {"held", "taken", "denied"} : perm' = Mig!Marked({Event}, v)
    BY <2>1, <2>2, MainHas, MigEnqueues DEF IInv
  <2> QED
    BY <2>3, MarkedAllowsNone
<1>6. CASE MainEnqueueRead
  <2>1. main.pc \in WithBatch /\ Ssh!Enqueue(Event, main.about) /\ main.about \in SshDetailsSet
    BY <1>6 DEF MainEnqueueRead, MainAt, WithBatch, IInv, Typed, AboutOK
  <2>2. Event \notin SshPerms
    BY <2>1, AtEvent DEF IInv
  <2>3. PICK v \in {"held", "denied"} : perm' = Mig!Marked({Event}, v)
    BY <2>1, <2>2, MainHas, SshEnqueues DEF IInv
  <2> QED
    BY <2>3, MarkedAllowsNone
<1>7. CASE MainDecideOpen \/ MainDecide \/ MainRecent
  <2>1. main.pc \in WithBatch
    BY <1>7 DEF MainDecideOpen, MainDecide, ToDecide, MainRecent, MainAt, WithBatch
  <2>2. UNCHANGED perm \/ \E v \in {"allowed", "denied"} : perm' = Mig!Marked({Event}, v)
    BY <1>7 DEF MainDecideOpen, MainDecide, MainRecent, Finish, Answer
  <2>3. perm' = Mig!Marked({Event}, "allowed")
    BY <2>2, MarkedAllowsNone DEF Allowed
  <2>4. p = Event
    BY <2>3 DEF Mig!Marked, Allowed
  <2> QED
    BY <1>7, <2>1, <2>3, <2>4
<1> QED
  BY <1>1, <1>2, <1>3, <1>4, <1>5, <1>6, <1>7 DEF MainStep

\* The IPC thread answers what it has taken, or a request it swept.
LEMMA IpcAllows ==
  ASSUME IInv, IpcRequest \/ IpcStep, NEW p \in Perm, Allowed(p)
  PROVE  \/ (IpcAllow \/ IpcApproveRead) /\ ipc.perms = Taking /\ p \in Taking
         \/ IpcSibling /\ p \in SweptPerms
<1>1. CASE IpcAuthenticate \/ IpcRequest \/ IpcApproveMigration \/ IpcArm \/ IpcLoad \/ IpcDeliver
  BY <1>1 DEF IpcAuthenticate, IpcRequest, IpcResolveMigration, IpcResolveRead, IpcAuthorizeMigration,
     IpcAuthorizeLoad, Begin, IpcRevoke, IpcApproveMigration, IpcArm, IpcLoad, IpcDeliver, Allowed
<1>2. CASE IpcTakeMigration
  <2>1. UNCHANGED perm \/ \E r \in migRequests, v \in {"denied", "taken"} : perm' = Mig!Marked(r.perms, v)
    BY <1>2 DEF IpcTakeMigration, WithId, Mig!TakeTimedOut, Mig!TakeReady, Mig!Remove
  <2> QED
    BY <2>1, MarkedAllowsNone DEF Allowed
<1>3. CASE IpcTakeRead
  <2>1. UNCHANGED perm \/ \E r \in sshRequests, v \in {"denied", "taken"} : perm' = Mig!Marked(r.perms, v)
    BY <1>3 DEF IpcTakeRead, WithId, Ssh!TakeTimedOut, Ssh!TakeReady, Ssh!Remove, Ssh!Marked, Mig!Marked
  <2> QED
    BY <2>1, MarkedAllowsNone DEF Allowed
<1>4. CASE IpcRecord
  <2>1. \E P : perm' = Mig!Marked(P, "taken")
    BY <1>4 DEF IpcRecord, Mig!RecordApproval, Mig!Remove
  <2> QED
    BY <2>1, MarkedAllowsNone
<1>5. CASE IpcDeny
  BY <1>5, MarkedAllowsNone DEF IpcDeny, Answer
<1>6. CASE IpcAllow \/ IpcApproveRead
  <2>1. ipc.pc \in {"allow", "approve"} /\ \E v \in {"allowed", "denied"} : perm' = Mig!Marked(ipc.perms, v)
    BY <1>6 DEF IpcAllow, IpcApproveRead, IpcAt, Answer
  <2>2. ipc.perms = Taking
    BY <2>1 DEF Taking, IInv, Custody, IpcShape
  <2> QED
    BY <1>6, <2>1, <2>2 DEF Mig!Marked, Allowed
<1>7. CASE IpcSibling
  <2>1. \E r \in Swept, v \in {"allowed", "denied"} : perm' = Mig!Marked(r.perms, v)
    BY <1>7 DEF IpcSibling, IpcAt, Answer, Swept, IInv, Custody, IpcShape
  <2>2. p \in SweptPerms
    BY <2>1 DEF SweptPerms, PermsOf, Mig!Marked, Allowed
  <2> QED
    BY <1>7, <2>2
<1> QED
  BY <1>1, <1>2, <1>3, <1>4, <1>5, <1>6, <1>7 DEF IpcStep

-----------------------------------------------------------------------------
(***************************************************************************)
(* ApprovedAsShown.                                                        *)
(***************************************************************************)
\* A fresh look finds who runs now.
LEMMA FreshRuns ==
  ASSUME IInv, NEW d, d.target \in Stable, StillTarget(d, Fresh(PidOf[d.target.inst]))
  PROVE  Running(d.target)
<1> DEFINE pid == PidOf[d.target.inst]
           i == CHOOSE j \in At(pid) : TRUE
<1>1. At(pid) # {} /\ Fresh(pid) = Observe(i) /\ i \in At(pid)
  BY DEF Fresh, StillTarget
<1> HIDE DEF i
<1>2. d.target = Seen(i) /\ i \in Live
  BY <1>1 DEF StillTarget, Observe, At
<1> QED
  BY <1>2 DEF Running, Alive, Seen

\* Nothing is allowed but what was shown and still runs.
LEMMA StepAsShown ==
  ASSUME IInv, [Next]_vars
  PROVE  [/\ ipc.pc = "approve" /\ (ipc'.pc = "record" \/ \E p \in ipc.perms : Allowed(p)) =>
               Running(ipc.job.details.target)
          /\ ipc.pc = "siblings" => \A r \in ipc.siblings :
               (\E p \in r.perms : Allowed(p)) => Running(r.details.target)
          /\ main.pc = "recent" /\ Allowed(Event) => Running(main.about.target)]_vars
<1> SUFFICES ASSUME Next
    PROVE  /\ ipc.pc = "approve" /\ (ipc'.pc = "record" \/ \E p \in ipc.perms : Allowed(p)) =>
                Running(ipc.job.details.target)
           /\ ipc.pc = "siblings" => \A r \in ipc.siblings :
                (\E p \in r.perms : Allowed(p)) => Running(r.details.target)
           /\ main.pc = "recent" /\ Allowed(Event) => Running(main.about.target)
  OBVIOUS
<1>1. ASSUME NEW p \in Perm, Allowed(p) PROVE MainStep \/ IpcRequest \/ IpcStep
  <2>1. UNCHANGED perm => ~Allowed(p)
    BY DEF Allowed
  <2>2. Environment \/ Tick => UNCHANGED perm
    BY DEF Environment, Spawn, Exit, Exec, Open, Tick, daemon
  <2> QED
    BY <1>1, <2>1, <2>2 DEF Next
<1>2. ASSUME ipc.pc = "approve", ipc'.pc = "record" \/ \E p \in ipc.perms : Allowed(p)
      PROVE  Running(ipc.job.details.target)
  <2>0. ipc.perms \subseteq Perm /\ ipc.perms \subseteq Taking /\ Taking \subseteq Perm
    BY <1>2 DEF IInv, Custody, IpcShape, HandsApart, Taking
  <2>1. IpcApproveMigration \/ IpcApproveRead
    <3>1. CASE ipc'.pc = "record"
      <4>1. ipc.pc # ipc'.pc /\ ipc' # ipc /\ ipc # Idle
        BY <1>2, <3>1 DEF Idle
      <4>2. ~Environment /\ ~Tick
        BY <4>1 DEF Environment, Spawn, Exit, Exec, Open, Tick, daemon
      <4>3. ~MainStep
        BY <4>1 DEF MainStep, MainExpireMigrations, MainExpireReads, MainRead, MainDecideOpen,
           MainDecideUnknown, MainPanic, MainDecide, MainDetails, MainEnqueueMigration, MainEnqueueRead,
           MainRecent
      <4>4. ~IpcRequest
        BY <4>1 DEF IpcRequest, IpcResolveMigration, IpcResolveRead, IpcAuthorizeMigration,
           IpcAuthorizeLoad, Begin, IpcRevoke
      <4> QED
        BY <1>2, <4>2, <4>3, <4>4 DEF Next, IpcStep, IpcAuthenticate, IpcTakeMigration, IpcTakeRead,
           IpcDeny, IpcRecord, IpcAllow, IpcSibling, IpcArm, IpcLoad, IpcDeliver, IpcAt
    <3>2. ASSUME NEW p \in ipc.perms, Allowed(p) PROVE IpcApproveRead
      <4>1. p \in Perm /\ p \in Taking
        BY <2>0
      <4>2. ~MainStep
        <5>1. SUFFICES ASSUME MainStep PROVE FALSE
          OBVIOUS
        <5>2. p = Event /\ main.pc \in WithBatch
          BY <3>2, <4>1, <5>1, MainAllows
        <5>3. perm[p] = "taken" /\ p \notin Recent
          BY <4>1 DEF IInv, Custody, StatesOK, HandsApart
        <5>4. perm[p] = "free"
          BY <5>2, <5>3, AtEvent DEF IInv, Custody, StatesOK
        <5> QED
          BY <5>3, <5>4
      <4> QED
        BY <1>1, <1>2, <3>2, <4>1, <4>2, IpcAllows DEF IpcAllow, IpcSibling, IpcAt
    <3> QED
      BY <1>2, <3>1, <3>2
  <2>2. ipc.job \in Job /\ ipc.job.op \in {"migration", "read"}
    BY <1>2 DEF IInv, Typed, IpcOK
  <2>3. ipc.job.details.target \in Stable
    BY <2>2, MigDetailsAre, SshDetailsAre DEF Job
  <2>4. CASE IpcApproveMigration
    <3>1. PICK ok \in BOOLEAN : ApproveMigration(ipc.job.details, ok)
                                /\ ipc' = [ipc EXCEPT !.pc = IF ok THEN "record" ELSE "deny"]
      BY <2>4 DEF IpcApproveMigration
    <3>2. ipc'.pc = "record"
      <4>1. UNCHANGED perm
        BY <2>4 DEF IpcApproveMigration
      <4> QED
        BY <1>2, <4>1 DEF Allowed
    <3>3. ok = TRUE
      BY <1>2, <3>1, <3>2 DEF IInv, Custody, IpcShape
    <3> QED
      BY <2>3, <3>1, <3>3, FreshRuns DEF ApproveMigration, MayMigrate, MayLease
  <2>5. CASE IpcApproveRead
    <3>1. PICK ok \in BOOLEAN : ApproveRead(ipc.job.details, ok)
                                /\ Answer(ipc.perms, IF ok THEN "allowed" ELSE "denied")
      BY <2>5 DEF IpcApproveRead
    <3>2. PICK p \in ipc.perms : Allowed(p)
      <4>1. ipc' = Idle
        BY <2>5 DEF IpcApproveRead
      <4> QED
        BY <1>2, <4>1 DEF Idle
    <3>3. ok = TRUE
      BY <2>0, <3>1, <3>2, MarkedAllowsNone DEF Answer
    <3>4. PICK d : d = ipc.job.details
      OBVIOUS
    <3>5. StillTarget(d, Fresh(PidOf[d.target.inst]))
      <4>1. MayRead(d, Fresh(PidOf[d.target.inst]))
        BY <3>1, <3>3, <3>4 DEF ApproveRead
      <4> QED
        BY <4>1 DEF MayRead
    <3> QED
      BY <2>3, <3>4, <3>5, FreshRuns
  <2> QED
    BY <2>1, <2>4, <2>5
<1>3. ASSUME ipc.pc = "siblings", NEW r \in ipc.siblings, NEW p \in r.perms, Allowed(p)
      PROVE  Running(r.details.target)
  <2>1. Swept = ipc.siblings /\ p \in SweptPerms /\ p \in Perm /\ ~("perms" \in DOMAIN ipc)
    BY <1>3 DEF IInv, Custody, IpcShape, HandsApart, Swept, SweptPerms, PermsOf
  <2>2. ~MainStep
    <3>1. SUFFICES ASSUME MainStep PROVE FALSE
      OBVIOUS
    <3>2. p = Event /\ main.pc \in WithBatch
      BY <1>3, <2>1, <3>1, MainAllows
    <3>3. perm[p] = "taken" /\ p \notin Recent
      BY <2>1 DEF IInv, Custody, StatesOK, HandsApart
    <3>4. perm[p] = "free"
      BY <3>2, <3>3, AtEvent DEF IInv, Custody, StatesOK
    <3> QED
      BY <3>3, <3>4
  <2>3. Taking = {}
    BY <2>1 DEF Taking
  <2>4. IpcSibling
    BY <1>1, <1>3, <2>1, <2>2, <2>3, IpcAllows
  <2>5. PICK q \in ipc.siblings, ok \in BOOLEAN : ApproveMigration(q.details, ok) /\ Answer(q.perms, IF ok THEN "allowed" ELSE "denied")
    BY <2>4 DEF IpcSibling
  <2>6. ok = TRUE /\ p \in q.perms
    BY <1>3, <2>1, <2>5, MarkedAllowsNone DEF Answer, Mig!Marked, Allowed
  <2>7. q = r
    BY <1>3, <2>1, <2>5, <2>6 DEF IInv, Custody, HandsApart, Apart
  <2>8. r.details.target \in Stable
    BY <2>1, WaitersAsked, MigDetailsAre
  <2> QED
    BY <2>5, <2>6, <2>7, <2>8, FreshRuns DEF ApproveMigration, MayMigrate, MayLease
<1>4. ASSUME main.pc = "recent", Allowed(Event) PROVE Running(main.about.target)
  <2>1. Event \in Perm /\ Event \in Recent
    BY <1>4, MainHas DEF WithBatch, Recent
  <2>2. Event \notin Taking /\ Event \notin SweptPerms
    BY <2>1 DEF IInv, Custody, HandsApart
  <2>3. MainStep
    BY <1>1, <1>4, <2>1, <2>2, IpcAllows
  <2>4. MainRecent
    BY <1>4, <2>1, <2>3, MainAllows DEF MainDecideOpen, MainDecide, ToDecide, MainAt
  <2>5. PICK ok \in BOOLEAN : ApproveMigration(main.about, ok) /\ Finish(IF ok THEN "allowed" ELSE "denied")
    BY <2>4 DEF MainRecent
  <2>6. ok = TRUE
    BY <1>4, <2>1, <2>5, MarkedAllowsNone DEF Finish, Answer
  <2>7. main.about.target \in Stable
    BY <1>4, MigDetailsAre DEF IInv, Typed, AboutOK
  <2> QED
    BY <2>5, <2>6, <2>7, FreshRuns DEF ApproveMigration, MayMigrate, MayLease
<1> QED
  BY <1>2, <1>3, <1>4

\* ApprovedAsShown, for every machine: an import is approved, and a read, a sibling or
\* a recent approval's open is let in, only while the process that was shown is alive
\* and runs what it was shown with, because the
\* check and the lease it gives are made under the engine lock, from what /proc
\* shows then and not from the cache.
THEOREM ApprovesWhatWasShown == Spec => ApprovedAsShown
BY StepAsShown, Invariance, PTL DEF Spec, ApprovedAsShown

-----------------------------------------------------------------------------
(***************************************************************************)
(* RefusalSticks.  What is approved without a prompt was not refused when  *)
(* it left the store, and cannot be refused any more: its key has no       *)
(* request that a client could refuse, or the thread that would serve the  *)
(* client is the one that approves.                                        *)
(***************************************************************************)
NotBlocked(d) == now >= migBlocked[MigKeyOf[d]]

Unrefused ==
  /\ \A r, q \in migRequests : MigKeyOf[r.details] = MigKeyOf[q.details] => r = q
  /\ \A r \in migRequests \union Swept : NotBlocked(r.details)
  /\ main.pc = "recent" =>
       /\ NotBlocked(main.about)
       /\ \A r \in migRequests : MigKeyOf[r.details] # MigKeyOf[main.about]

\* Requests go, blocks end, time passes, threads go on: nothing is refused.
LEMMA QuietUnrefused ==
  ASSUME IInv, Unrefused, migRequests' \subseteq migRequests, now' >= now, now' \in Nat,
         migBlocked' \in [MigKey -> Nat], \A k \in MigKey : migBlocked'[k] <= migBlocked[k],
         main'.pc = "recent" => UNCHANGED main, Swept' \subseteq Swept \union migRequests
  PROVE  Unrefused'
<1>1. /\ \A r \in migRequests \union Swept : r.details \in MigDetails
      /\ main.pc = "recent" => main.about \in MigDetails
  BY WaitersAsked DEF IInv, Typed, AboutOK
<1>2. now \in Nat /\ \A k \in MigKey : migBlocked[k] \in Nat
  BY EngineAssumption DEF IInv, Typed, World, MigOK
<1>3. \A d \in MigDetails : MigKeyOf[d] \in MigKey /\ (NotBlocked(d) => NotBlocked(d)')
  BY <1>2 DEF NotBlocked, MigKey
<1> QED
  BY <1>1, <1>3 DEF Unrefused

\* A prompt is created or joined, or handed back, for what is not refused.
LEMMA EnqueueUnrefused ==
  ASSUME IInv, Unrefused, MainEnqueueMigration, Swept' = Swept
  PROVE  Unrefused'
<1> DEFINE d == main.about
           k == MigKeyOf[d]
<1>1. /\ main.pc = "enqueue" /\ main.pc \in WithBatch /\ KindOf[Res] = "browser" /\ now' = now
      /\ Mig!Enqueue(Event, d) /\ (main' = [main EXCEPT !.pc = "recent"] \/ NextEvent)
  BY DEF MainEnqueueMigration, MainAt, WithBatch, Goto, outside
<1>2. d \in MigDetails /\ k \in MigKey
  BY <1>1 DEF IInv, Typed, AboutOK, MigKey
<1>3. /\ now \in Nat /\ \A x \in MigKey : migBlocked[x] \in Nat
      /\ DOMAIN migBlocked = MigKey /\ DOMAIN MigKeyOf = MigDetails
  BY EngineAssumption DEF IInv, Typed, World, MigOK, MigKeyOf
<1>4. /\ migBlocked' \in [MigKey -> Nat] /\ \A x \in MigKey : migBlocked'[x] <= migBlocked[x]
  <2>1. migBlocked' = Mig!Cleanup(migBlocked)
    BY <1>1 DEF Mig!Enqueue
  <2>2. migBlocked' = [x \in MigKey |-> IF now < migBlocked[x] THEN migBlocked[x] ELSE 0]
    BY <1>3, <2>1 DEF Mig!Cleanup
  <2> QED
    BY <1>3, <2>2
<1>5. \A r \in migRequests \union Swept : r.details \in MigDetails
  BY WaitersAsked
<1>6. \A x \in MigDetails : MigKeyOf[x] \in MigKey /\ (NotBlocked(x) => NotBlocked(x)')
  BY <1>1, <1>3, <1>4 DEF NotBlocked, MigKey
<1>7. ~Mig!Suppressed(k) => now >= migBlocked'[k]
  <2>1. migBlocked' = Mig!Cleanup(migBlocked)
    BY <1>1 DEF Mig!Enqueue
  <2>2. migBlocked' = [x \in MigKey |-> IF now < migBlocked[x] THEN migBlocked[x] ELSE 0]
    BY <1>3, <2>1 DEF Mig!Cleanup
  <2>3. ~Mig!Suppressed(k) => migBlocked'[k] = 0
    BY <2>1 DEF Mig!Suppressed, SuppressesBlocked
  <2> QED
    BY <1>3, <2>3
<1>8. main'.pc = "recent" => perm'[Event] = "taken" /\ main'.about = d
  <2>1. main'.pc = "recent" => main' = [main EXCEPT !.pc = "recent"] /\ perm'[Event] = "taken"
    BY <1>1 DEF MainEnqueueMigration, Goto, NextEvent
  <2> QED
    BY <2>1 DEF IInv, Custody, MainShape
<1>9. Event \in Perm
  BY <1>1, MainHas
<1> HIDE DEF d, k
<1>10. CASE Mig!DenySuppressed(Event, d) \/ Mig!DenyFullRequest(Event, d) \/ Mig!DenyFullStore(Event, d)
  <2>1. UNCHANGED migRequests /\ perm'[Event] = "denied"
    BY <1>9, <1>10 DEF Mig!DenySuppressed, Mig!DenyFullRequest, Mig!DenyFullStore, Mig!Marked
  <2> QED
    BY <1>1, <1>3, <1>4, <1>8, <2>1, QuietUnrefused
<1>11. CASE Mig!ReturnRecentlyApproved(Event, d)
  <2>1. UNCHANGED migRequests /\ ~Mig!Suppressed(MigKeyOf[d]) /\ Mig!Pending(MigKeyOf[d]) = {}
    BY <1>11 DEF Mig!ReturnRecentlyApproved
  <2>2. \A r \in migRequests' : MigKeyOf[r.details] # MigKeyOf[d]
    BY <2>1 DEF Mig!Pending
  <2>3. now' >= migBlocked'[MigKeyOf[d]]
    BY <1>1, <1>7, <2>1 DEF k
  <2>4. main'.pc = "recent" => NotBlocked(main.about)' /\ \A r \in migRequests' : MigKeyOf[r.details] # MigKeyOf[main'.about]
    BY <1>8, <2>2, <2>3 DEF NotBlocked
  <2> QED
    BY <1>5, <1>6, <2>1, <2>4 DEF Unrefused
<1>12. CASE Mig!JoinRequest(Event, d)
  <2>1. PICK r \in migRequests : migRequests' = (migRequests \ {r}) \union {[r EXCEPT !.perms = @ \union {Event}]}
    BY <1>12 DEF Mig!JoinRequest, Mig!Pending
  <2> DEFINE n == [r EXCEPT !.perms = @ \union {Event}]
  <2>2. n.details = r.details
    BY DEF IInv, Custody, RequestShape
  <2> HIDE DEF n
  <2>3. migRequests' = (migRequests \ {r}) \union {n}
    BY <2>1 DEF n
  <2>4. main'.pc # "recent"
    BY <1>8, <1>9, <1>12 DEF Mig!JoinRequest, Mig!Marked
  <2> QED
    BY <1>5, <1>6, <2>2, <2>3, <2>4 DEF Unrefused
<1>13. CASE Mig!CreateRequest(Event, d)
  <2> DEFINE n == [id |-> migNextId + 1, details |-> d, perms |-> {Event},
                   expires |-> Mig!SatAdd(now, Timeout)]
  <2>1. /\ migRequests' = migRequests \union {n} /\ n.details = d
        /\ ~Mig!Suppressed(MigKeyOf[d]) /\ Mig!Pending(MigKeyOf[d]) = {}
    BY <1>13 DEF Mig!CreateRequest
  <2> HIDE DEF n
  <2>2. \A r \in migRequests : MigKeyOf[r.details] # MigKeyOf[d]
    BY <2>1 DEF Mig!Pending
  <2>3. now' >= migBlocked'[MigKeyOf[d]]
    BY <1>1, <1>7, <2>1 DEF k
  <2>4. main'.pc # "recent"
    BY <1>8, <1>9, <1>13 DEF Mig!CreateRequest, Mig!Marked
  <2>6. \A r \in migRequests' \union Swept' : NotBlocked(r.details)'
    <3>1. ASSUME NEW r \in migRequests \union Swept PROVE NotBlocked(r.details)'
      BY <1>5, <1>6 DEF Unrefused
    <3>2. ASSUME NEW r, r.details = d PROVE NotBlocked(r.details)'
      BY <2>3, <3>2 DEF NotBlocked
    <3> QED
      BY <2>1, <3>1, <3>2
  <2> QED
    BY <1>5, <1>6, <2>1, <2>2, <2>4, <2>6 DEF Unrefused
<1> QED
  BY <1>1, <1>10, <1>11, <1>12, <1>13 DEF Mig!Enqueue, d

\* A client refuses one request, and only that one has its key; an approval
\* takes requests that are not refused.
LEMMA TakeUnrefused ==
  ASSUME IInv, IInv', Unrefused, IpcTakeMigration
  PROVE  Unrefused'
<1>1. UNCHANGED <<now, main>> /\ ipc.pc = "take" /\ Swept = {}
  BY DEF IpcTakeMigration, IpcAt, beside, Swept, IInv, Custody, IpcShape
<1>2. Swept' = {}
  BY <1>1 DEF IpcTakeMigration, Idle, Taken, Swept
<1>3. /\ now \in Nat /\ DOMAIN migBlocked = MigKey /\ \A x \in MigKey : migBlocked[x] \in Nat
      /\ migBlocked \in [MigKey -> Nat]
  BY EngineAssumption DEF IInv, Typed, World, MigOK
<1>4. CASE UNCHANGED migBlocked /\ migRequests' \subseteq migRequests
  BY <1>1, <1>2, <1>3, <1>4, QuietUnrefused
<1>5. CASE \E r \in migRequests : Mig!TakeReady(r, ipc.job.uid, ipc.job.block)
  <2>1. PICK r \in migRequests : Mig!TakeReady(r, ipc.job.uid, ipc.job.block)
    BY <1>5
  <2>2. /\ migRequests' = migRequests \ {r}
        /\ \A x \in MigKey : x # MigKeyOf[r.details] => migBlocked'[x] = migBlocked[x]
    BY <1>3, <2>1 DEF Mig!TakeReady, Mig!Remove
  <2>3. \A q \in migRequests' : MigKeyOf[q.details] # MigKeyOf[r.details] /\ q.details \in MigDetails
    BY <2>2, WaitersAsked DEF Unrefused
  <2>4. \A q \in migRequests' : NotBlocked(q.details)'
    BY <1>1, <2>2, <2>3 DEF Unrefused, NotBlocked, MigKey
  <2>5. main.pc = "recent" => NotBlocked(main.about)'
    BY <1>1, <2>2 DEF Unrefused, NotBlocked, MigKey, IInv, Typed, AboutOK
  <2> QED
    BY <1>1, <1>2, <2>2, <2>4, <2>5 DEF Unrefused
<1> QED
  BY <1>4, <1>5 DEF IpcTakeMigration, Mig!TakeTimedOut, Mig!Remove, WithId, migStore

\* So it is with every step.
LEMMA NextUnrefused == IInv /\ IInv' /\ Unrefused /\ [Next]_vars => Unrefused'
<1> SUFFICES ASSUME IInv, IInv', Unrefused, [Next]_vars PROVE Unrefused'
  OBVIOUS
<1>1. /\ now \in Nat /\ now' \in Nat /\ DOMAIN migBlocked = MigKey /\ \A x \in MigKey : migBlocked[x] \in Nat
      /\ migBlocked \in [MigKey -> Nat]
  BY EngineAssumption DEF IInv, Typed, World, MigOK
<1>2. migBlocked' = Mig!Cleanup(migBlocked) =>
        migBlocked' \in [MigKey -> Nat] /\ \A x \in MigKey : migBlocked'[x] <= migBlocked[x]
  <2>1. Mig!Cleanup(migBlocked) = [x \in MigKey |-> IF now < migBlocked[x] THEN migBlocked[x] ELSE 0]
    BY <1>1 DEF Mig!Cleanup
  <2> QED
    BY <1>1, <2>1
<1>3. UNCHANGED migBlocked => migBlocked' \in [MigKey -> Nat] /\ \A x \in MigKey : migBlocked'[x] <= migBlocked[x]
  BY <1>1
<1>4. CASE UNCHANGED vars \/ Tick \/ Environment
  <2>1. UNCHANGED <<main, ipc, migStore>>
    BY <1>4 DEF vars, Tick, Environment, Spawn, Exit, Exec, Open, daemon
  <2>3. now' = now \/ now' = now + 1
    BY <1>4 DEF vars, Tick, Environment, Spawn, Exit, Exec, Open
  <2>4. now' >= now
    BY <1>1, <2>3
  <2>2. Swept' = Swept
    BY <2>1 DEF Swept
  <2> QED
    BY <1>1, <1>3, <2>1, <2>2, <2>4, QuietUnrefused DEF migStore
<1>5. CASE MainStep
  <2>1. UNCHANGED <<now, ipc>> /\ Swept' = Swept
    BY <1>5 DEF MainStep, MainExpireMigrations, MainExpireReads, MainRead, MainDecideOpen,
       MainDecideUnknown, MainPanic, MainDecide, MainDetails, MainEnqueueMigration, MainEnqueueRead,
       MainRecent, outside, Swept
  <2>2. CASE MainEnqueueMigration
    BY <2>1, <2>2, EnqueueUnrefused
  <2>3. CASE MainExpireMigrations
    <3>1. /\ migRequests' \subseteq migRequests /\ migBlocked' = Mig!Cleanup(migBlocked)
          /\ main' = [main EXCEPT !.pc = "expireReads"]
      BY <2>3 DEF MainExpireMigrations, Mig!Expire, Mig!Remove, Goto
    <3>2. main'.pc = "expireReads"
      BY <3>1 DEF IInv, Custody, MainShape
    <3> QED
      BY <1>1, <1>2, <2>1, <3>1, <3>2, QuietUnrefused
  <2>4. CASE ~MainEnqueueMigration /\ ~MainExpireMigrations
    <3>1. UNCHANGED <<migRequests, migBlocked>>
      BY <1>5, <2>4 DEF MainStep, MainExpireReads, MainRead, MainDecideOpen, MainDecideUnknown, MainPanic,
         MainDecide, MainDetails, MainEnqueueRead, MainRecent, migStore
    <3>2. main'.pc # "recent" \/ UNCHANGED main
      <4>1. CASE NextEvent
        BY <4>1 DEF NextEvent
      <4>3. NextEvent \/ UNCHANGED main \/ MainExpireReads \/ MainRead \/ MainDecide \/ MainDetails
        BY <1>5, <2>4 DEF MainStep, MainDecideOpen, MainDecideUnknown, MainPanic, MainEnqueueRead,
           MainRecent, Finish
      <4>4. CASE MainExpireReads \/ MainRead
        BY <4>4 DEF MainExpireReads, MainRead, Goto, IInv, Custody, MainShape
      <4>5. CASE MainDecide
        BY <4>1, <4>5 DEF MainDecide, Finish, IInv, Custody, MainShape
      <4>6. CASE MainDetails
        BY <4>1, <4>6 DEF MainDetails, Finish, IInv, Custody, MainShape
      <4> QED
        BY <4>1, <4>3, <4>4, <4>5, <4>6
    <3> QED
      BY <1>1, <1>3, <2>1, <3>1, <3>2, QuietUnrefused
  <2> QED
    BY <2>2, <2>3, <2>4
<1>6. CASE IpcRequest \/ IpcStep
  <2>1. UNCHANGED <<now, main>>
    BY <1>6 DEF IpcRequest, IpcResolveMigration, IpcResolveRead, IpcAuthorizeMigration, IpcAuthorizeLoad,
       Begin, IpcRevoke, IpcStep, IpcAuthenticate, IpcTakeMigration, IpcTakeRead, IpcDeny,
       IpcApproveMigration, IpcApproveRead, IpcRecord, IpcAllow, IpcSibling, IpcArm, IpcLoad, IpcDeliver,
       beside
  <2>2. CASE IpcTakeMigration
    BY <2>2, TakeUnrefused
  <2>3. CASE IpcRecord
    <3>1. migRequests' \subseteq migRequests /\ migBlocked' = Mig!Cleanup(migBlocked)
      BY <2>3 DEF IpcRecord, Mig!RecordApproval, Mig!Remove
    <3>2. Swept' \subseteq migRequests
      BY <2>3 DEF IpcRecord, Swept, Mig!Siblings
    <3> QED
      BY <1>1, <1>2, <2>1, <3>1, <3>2, QuietUnrefused
  <2>4. CASE ~IpcTakeMigration /\ ~IpcRecord
    <3>1. UNCHANGED <<migRequests, migBlocked>>
      BY <1>6, <2>4 DEF IpcRequest, IpcResolveMigration, IpcResolveRead, IpcAuthorizeMigration,
         IpcAuthorizeLoad, Begin, IpcRevoke, IpcStep, IpcAuthenticate, IpcTakeRead, IpcDeny,
         IpcApproveMigration, IpcApproveRead, IpcAllow, IpcSibling, IpcArm, IpcLoad, IpcDeliver, migStore
    <3>2. Swept' \subseteq Swept
      <4>1. CASE ipc.pc \notin {"allow", "siblings"}
        <5>1. ~("siblings" \in DOMAIN ipc') \/ ipc' = ipc
          <6>1. ~IpcAllow /\ ~IpcSibling
            BY <4>1 DEF IpcAllow, IpcSibling, IpcAt
          <6>2. ipc'.pc \notin {"allow", "siblings"} \/ ipc' = ipc
            BY <1>6, <2>4, <4>1, <6>1 DEF IpcRequest, IpcResolveMigration, IpcResolveRead,
               IpcAuthorizeMigration, IpcAuthorizeLoad, Begin, IpcRevoke, IpcStep, IpcAuthenticate,
               IpcTakeRead, IpcDeny, IpcApproveMigration, IpcApproveRead, IpcArm, IpcLoad, IpcDeliver, Idle,
               Taken, IInv, Custody, IpcShape, IpcAt
          <6> QED
            BY <6>2 DEF IInv, Custody, IpcShape
        <5> QED
          BY <5>1 DEF Swept
      <4>2. CASE ipc.pc \in {"allow", "siblings"}
        <5>1. UNCHANGED ipc \/ IpcAllow \/ IpcSibling
          BY <1>6, <2>4, <4>2 DEF IpcRequest, IpcResolveMigration, IpcResolveRead, IpcAuthorizeMigration,
             IpcAuthorizeLoad, Begin, IpcRevoke, IpcStep, IpcAuthenticate, IpcTakeRead, IpcDeny,
             IpcApproveMigration, IpcApproveRead, IpcArm, IpcLoad, IpcDeliver, IpcAt, Idle
        <5>2. IpcAllow \/ IpcSibling => \E R \in SUBSET ipc.siblings : ipc' = Siblings(R)
          BY DEF IpcAllow, IpcSibling
        <5>3. Swept = ipc.siblings
          BY <4>2 DEF Swept, IInv, Custody, IpcShape
        <5> QED
          BY <5>1, <5>2, <5>3 DEF Swept, Siblings, Idle
      <4> QED
        BY <4>1, <4>2
    <3> QED
      BY <1>1, <1>3, <2>1, <3>1, <3>2, QuietUnrefused
  <2> QED
    BY <2>2, <2>3, <2>4
<1> QED
  BY <1>4, <1>5, <1>6 DEF Next

\* RefusalSticks, for every machine: while a key is blocked, no sibling sweep and
\* no recent approval lets an open of that key through, because a refused key has
\* no request and no open of it is handed back, in any order of the two threads.
THEOREM RefusalsStick == Spec => RefusalSticks
<1>1. Init => Unrefused
  BY DEF Init, Unrefused, Swept, Idle
<1>2. IInv /\ IInv' /\ Unrefused /\ [Next]_vars => Unrefused'
  BY NextUnrefused
<1>3. IInv /\ Unrefused =>
        [/\ main.pc = "recent" /\ Allowed(Event) => now >= migBlocked[MigKeyOf[main.about]]
         /\ ipc.pc = "siblings" => \A r \in ipc.siblings :
              (\E p \in r.perms : Allowed(p)) => now >= migBlocked[MigKeyOf[r.details]]]_vars
  BY DEF Unrefused, NotBlocked, Swept, IInv, Custody, IpcShape
<1> QED
  BY <1>1, <1>2, <1>3, Invariance, PTL DEF Spec, RefusalSticks

-----------------------------------------------------------------------------
(***************************************************************************)
(* OneReadPerLoad.  Every read that only a load justifies has marked a     *)
(* load as used that was not.                                              *)
(***************************************************************************)
Used == {k \in DOMAIN sshLoad : sshLoad[k].used}

LoadsSpent == IsFiniteSet(ByLoadOnly) /\ Cardinality(ByLoadOnly) <= Cardinality(Used)

\* Some consent to read covers an access.
ReadCovers(a) == \E c \in consents : c.kind = "read" /\ Gate!Covers(c, a)

\* Loads are finitely many, used or not.
LEMMA UsedFinite ==
  ASSUME LeasesOK
  PROVE  IsFiniteSet(Used) /\ Cardinality(Used) \in Nat /\ Cardinality(Used) <= Len(sshLoad)
<1>1. PICK n \in Nat : n = Len(sshLoad) /\ DOMAIN sshLoad = 1..n
  BY DEF LeasesOK
<1>2. IsFiniteSet(1..n) /\ Cardinality(1..n) = n
  <2>1. 1 \in Int /\ n \in Int /\ (IF 1 > n THEN 0 ELSE n - 1 + 1) = n
    OBVIOUS
  <2> QED
    BY <2>1, FS_Interval
<1>3. Used \in SUBSET (1..n)
  BY <1>1 DEF Used
<1>4. IsFiniteSet(Used) /\ Cardinality(Used) <= n
  BY <1>2, <1>3, FS_Subset
<1> QED
  BY <1>1, <1>4, FS_CardinalityType

\* A justification, once there, stays.
LEMMA CoverStays ==
  ASSUME Grows
  PROVE  \A a \in Access : /\ PidReused(a) => PidReused(a)'
                           /\ ReadCovers(a) => ReadCovers(a)'
<1> SUFFICES ASSUME NEW a \in Access
    PROVE  (PidReused(a) => PidReused(a)') /\ (ReadCovers(a) => ReadCovers(a)')
  OBVIOUS
<1>1. PidReused(a) => PidReused(a)'
  BY DEF PidReused, Grows
<1>2. a.inst \in Proc /\ \A j \in Gate!Tree(a.inst) : j \in Proc
  BY ProcessAssumption DEF Access, Gate!Tree
<1>3. ASSUME NEW c \in consents, Gate!Covers(c, a) PROVE c \in consents' /\ Gate!Covers(c, a)'
  BY <1>2, <1>3 DEF Gate!Covers, Gate!Tree, Grows
<1>4. ReadCovers(a) => ReadCovers(a)'
  BY <1>3 DEF ReadCovers
<1> QED
  BY <1>1, <1>4

\* A read that was justified otherwise stays so: only what a step allows joins.
LEMMA JoinedNow ==
  ASSUME IInv, IInv', Grows, [Next]_vars, NEW p \in ByLoadOnly', p \notin ByLoadOnly
  PROVE  /\ p \in Perm /\ Allowed(p) /\ ask[p] \in Access
         /\ KindOf[ask[p].res] = "ssh" /\ ask[p].op = "access" /\ ~PidReused(ask[p]) /\ ~ReadCovers(ask[p])
<1>1. p \in Perm /\ perm'[p] = "allowed" /\ KindOf[ask'[p].res] = "ssh" /\ ask'[p].op = "access"
  BY DEF ByLoadOnly
<1>2. UNCHANGED ask \/ UNCHANGED perm
  BY DEF Next, vars, Environment, Spawn, Exit, Exec, Open, procs, daemon, Tick, MainStep, MainExpireMigrations,
     MainExpireReads, MainRead, MainDecideOpen, MainDecideUnknown, MainPanic, MainDecide, MainDetails,
     MainEnqueueMigration, MainEnqueueRead, MainRecent, outside, IpcRequest, IpcResolveMigration,
     IpcResolveRead, IpcAuthorizeMigration, IpcAuthorizeLoad, Begin, IpcRevoke, IpcStep, IpcAuthenticate,
     IpcTakeMigration, IpcTakeRead, IpcDeny, IpcApproveMigration, IpcApproveRead, IpcRecord, IpcAllow,
     IpcSibling, IpcArm, IpcLoad, IpcDeliver, beside
<1>3. (ask[p] = None => perm[p] = "free") /\ (ask'[p] = None => perm'[p] = "free")
  BY <1>1 DEF IInv, Custody, StatesOK
<1>4. ask[p] # None /\ ask[p] \in Access
  BY <1>1, <1>2, <1>3 DEF IInv, Typed, World
<1>5. ask'[p] = ask[p]
  BY <1>1, <1>4 DEF Grows
<1>6. ~PidReused(ask[p]) /\ ~ReadCovers(ask[p])
  <2>1. PICK a \in Access : a = ask[p]
    BY <1>4
  <2>2. a = ask'[p]
    BY <1>5, <2>1
  <2>3. ~PidReused(a)'
    BY <2>2 DEF ByLoadOnly, PidReused
  <2>4. ~ReadCovers(a)'
    BY <2>2 DEF ByLoadOnly, ReadCovers, Gate!Covers, Gate!Tree
  <2> QED
    BY <2>1, <2>3, <2>4, CoverStays
<1>7. perm[p] # "allowed"
  BY <1>1, <1>5, <1>6 DEF ByLoadOnly, ReadCovers
<1> QED
  BY <1>1, <1>4, <1>5, <1>6, <1>7 DEF Allowed

\* A consent to read that a prompt was answered with covers those who wait.
LEMMA ReadCovered ==
  ASSUME NEW p \in Perm, ask[p] \in Access, NEW d \in SshDetailsSet, ReadFits(p, d),
         KeyConsent("read", UidOf[d.target.inst], d.res, d.target.exe, StartOf[d.target.inst])
  PROVE  PidReused(ask[p]) \/ ReadCovers(ask[p])
<1>1. CASE Gone(p)
  BY <1>1 DEF Gone
<1>2. CASE ~Gone(p)
  <2>1. PICK c \in consents : /\ c.kind = "read" /\ c.uid = UidOf[d.target.inst] /\ c.what = d.res
                              /\ c.exe = d.target.exe /\ c.start = StartOf[d.target.inst]
    BY DEF KeyConsent
  <2>2. /\ ask[p].res = d.res /\ ask[p].inst = d.target.inst
        /\ UidOf[ask[p].inst] = OwnerOf[ask[p].res] /\ d.target.exe \in ran[d.target.inst]
    BY <1>2 DEF ReadFits, HasRun
  <2>3. ask[p].inst \in Gate!Tree(ask[p].inst)
    BY DEF Gate!Tree
  <2>4. Gate!Covers(c, ask[p])
    BY <2>1, <2>2, <2>3 DEF Gate!Covers
  <2> QED
    BY <2>1, <2>4 DEF ReadCovers
<1> QED
  BY <1>1, <1>2

\* So does the consent behind a read lease; a load lease is the other reason.
LEMMA KeyCovered ==
  ASSUME IInv, Grounds, NEW pid, NEW id, IdentityOf(id, pid), SeenToRun(id),
         NEW a \in Access, a.inst = id.self.inst, KindOf[a.res] = "ssh",
         Grants(Judgement(a.res, id)), ~ReadCovers(a)
  PROVE  /\ Judgement(a.res, id).kind = "bySshLoad"
         /\ LET k == Judgement(a.res, id).lease IN k \in DOMAIN sshLoad /\ ~sshLoad[k].used
<1> DEFINE r == a.res
           loads == {i \in DOMAIN sshLoad : LoadApplies(sshLoad[i], r, id, now)}
           reads == {i \in DOMAIN RefreshedReads : ReadApplies(RefreshedReads[i], r, id, now)}
<1>1. /\ UidOfIdentity(id) = UidOf[a.inst] /\ id.self.exe \in ran[a.inst]
      /\ id.self.exe \in Exe /\ a.inst \in Proc
  BY DEF UidOfIdentity, SeenToRun, HasRun, IdentityOf, Identity, Stable
<1>2. /\ UidOfIdentity(id) = OwnerOf[r] /\ (loads # {} \/ reads # {})
      /\ loads # {} => Judgement(r, id) = ByLease("bySshLoad", Min(loads))
  BY DEF Judgement, Evaluate, DecideSsh, Grants, Plain, ByLease
<1>3. CASE loads # {}
  <2>1. loads \subseteq Nat
    BY DEF IInv, Typed, LeasesOK
  <2>2. Min(loads) \in loads
    BY <1>3, <2>1, MinIn
  <2>3. Min(loads) \in DOMAIN sshLoad /\ ~sshLoad[Min(loads)].used
    BY <2>2 DEF LoadApplies
  <2> QED
    BY <1>2, <1>3, <2>3 DEF ByLease
<1>4. CASE reads # {}
  <2>1. PICK i \in DOMAIN RefreshedReads : ReadApplies(RefreshedReads[i], r, id, now)
    BY <1>4
  <2>2. i \in DOMAIN sshRead /\ sshRead[i] \in SshReadLease
    BY DEF RefreshedReads, IInv, Typed, LeasesOK
  <2>3. /\ RefreshedReads[i].res = sshRead[i].res /\ RefreshedReads[i].uid = sshRead[i].uid
        /\ RefreshedReads[i].root = sshRead[i].root
    BY <2>2 DEF RefreshedReads, SshReadLease
  <2> DEFINE root == sshRead[i].root
  <2>4. sshRead[i].res = r /\ sshRead[i].uid = UidOfIdentity(id) /\ InTree(id, root)
    BY <2>1, <2>3 DEF ReadApplies
  <2>5. root.inst \in Gate!Tree(a.inst) /\ root.exe \in ran[root.inst]
    BY <2>4, TreeSeen DEF HasRun
  <2>6. PICK c \in consents : /\ c.kind = "read" /\ c.uid = UidOfIdentity(id) /\ c.what = r
                              /\ c.exe = root.exe /\ c.start = StartOf[root.inst]
    BY <2>2, <2>4 DEF Grounds, LeasesGiven, KeyConsent
  <2>7. Gate!Covers(c, a)
    BY <1>1, <1>2, <2>5, <2>6 DEF Gate!Covers
  <2> QED
    BY <2>6, <2>7 DEF ReadCovers
<1> QED
  BY <1>2, <1>3, <1>4

\* What only a load justifies is what the main loop decides by a load.
LEMMA JoinedByLoad ==
  ASSUME IInv, IInv', Grounds, Grows, [Next]_vars, NEW p \in ByLoadOnly', p \notin ByLoadOnly
  PROVE  /\ p = Event /\ MainDecide /\ Judgement(Res, Resolve(EvPid)).kind = "bySshLoad"
         /\ LET k == Judgement(Res, Resolve(EvPid)).lease IN k \in DOMAIN sshLoad /\ ~sshLoad[k].used
<1>1. /\ p \in Perm /\ Allowed(p) /\ ask[p] \in Access
      /\ KindOf[ask[p].res] = "ssh" /\ ask[p].op = "access" /\ ~PidReused(ask[p]) /\ ~ReadCovers(ask[p])
  BY JoinedNow
<1>2. ~Gone(p) /\ \A d \in MigDetails : ~MigFits(p, d)
  BY <1>1 DEF Gone, MigFits
<1>3. MainStep \/ IpcRequest \/ IpcStep
  <2>1. UNCHANGED perm => ~Allowed(p)
    BY DEF Allowed
  <2>2. Environment \/ Tick \/ UNCHANGED vars => UNCHANGED perm
    BY DEF Environment, Spawn, Exit, Exec, Open, Tick, daemon, vars
  <2> QED
    BY <1>1, <2>1, <2>2 DEF Next
<1>4. ~IpcRequest /\ ~IpcStep
  <2> SUFFICES ASSUME IpcRequest \/ IpcStep PROVE FALSE
    OBVIOUS
  <2>1. \/ (IpcAllow \/ IpcApproveRead) /\ ipc.perms = Taking /\ p \in Taking
        \/ IpcSibling /\ p \in SweptPerms
    BY <1>1, IpcAllows
  <2>2. CASE IpcSibling /\ p \in SweptPerms
    <3>1. PICK r \in Swept : p \in r.perms
      BY <2>2 DEF SweptPerms, PermsOf
    <3>2. MigFits(p, r.details) /\ r.details \in MigDetails
      BY <3>1, WaitersAsked DEF Grounds, JobOK, JobFits
    <3> QED
      BY <1>2, <3>2
  <2>3. CASE IpcAllow /\ p \in ipc.perms
    <3>1. ipc.pc = "allow" /\ ipc.job.op = "migration"
      BY <2>3 DEF IpcAllow, IpcAt, IInv, Typed, IpcOK
    <3>2. ipc.job.details \in MigDetails
      BY <3>1, ConsentedJob
    <3>3. MigFits(p, ipc.job.details)
      BY <2>3, <3>1 DEF Grounds, JobOK, JobFits
    <3> QED
      BY <1>2, <3>2, <3>3
  <2>4. CASE IpcApproveRead /\ p \in ipc.perms
    <3>1. ipc.pc = "approve" /\ ipc.job.op = "read"
      BY <2>4 DEF IpcApproveRead, IpcAt
    <3>2. /\ ipc.job.details \in SshDetailsSet
          /\ KeyConsent("read", UidOf[ipc.job.details.target.inst], ipc.job.details.res,
                        ipc.job.details.target.exe, StartOf[ipc.job.details.target.inst])
      BY <3>1, ConsentedJob
    <3>3. ReadFits(p, ipc.job.details)
      BY <2>4, <3>1 DEF Grounds, JobOK, JobFits
    <3> QED
      BY <1>1, <3>2, <3>3, ReadCovered
  <2> QED
    BY <2>1, <2>2, <2>3, <2>4
<1>5. /\ p = Event /\ main.pc \in WithBatch /\ perm' = Mig!Marked({Event}, "allowed")
      /\ MainDecideOpen \/ MainDecide \/ MainRecent
  BY <1>1, <1>3, <1>4, MainAllows
<1>6. ~MainDecideOpen
  BY <1>1, <1>5 DEF MainDecideOpen
<1>7. ~MainRecent
  <2>1. main.pc = "recent" => main.about \in MigDetails /\ MigFits(Event, main.about)
    BY DEF IInv, Typed, AboutOK, Grounds, MainFits
  <2> QED
    BY <1>2, <1>5, <2>1 DEF MainRecent, MainAt
<1>8. MainDecide /\ Resolve(EvPid) # None
  BY <1>5, <1>6, <1>7 DEF MainDecide
<1>9. Grants(Judgement(Res, Resolve(EvPid)))
  <2>1. UNCHANGED perm \/ Finish("denied") => ~Allowed(p)
    BY <1>1, MarkedAllowsNone DEF Allowed, Finish, Answer
  <2> QED
    BY <1>1, <1>8, <2>1 DEF MainDecide
<1>10. /\ IdentityOf(Resolve(EvPid), EvPid) /\ SeenToRun(Resolve(EvPid))
       /\ Resolve(EvPid).self.inst = ask[Event].inst
  BY <1>2, <1>5, <1>8, WhoOpens
<1> QED
  BY <1>1, <1>5, <1>8, <1>9, <1>10, KeyCovered DEF Res

\* A load that is used stays so, whoever gives or revokes leases.
LEMMA UsedStays ==
  ASSUME IInv, [Next]_vars
  PROVE  Used \subseteq Used'
<1> DEFINE n == Len(sshLoad)
<1>1. DOMAIN sshLoad = 1..n /\ n \in Nat /\ \A k \in 1..n : sshLoad[k] \in SshLoadLease
  BY DEF IInv, Typed, LeasesOK
<1>2. CASE UNCHANGED sshLoad
  BY <1>2 DEF Used
<1>3. CASE \E l : sshLoad' = Append(sshLoad, l)
  <2>1. PICK l : sshLoad' = Append(sshLoad, l)
    BY <1>3
  <2>2. 1..n \subseteq DOMAIN sshLoad' /\ \A k \in 1..n : sshLoad'[k] = sshLoad[k]
    BY <1>1, <2>1
  <2> QED
    BY <1>1, <2>2 DEF Used
<1>4. CASE \E k : RevokeLoad(k) \/ sshLoad' = [sshLoad EXCEPT ![k].used = TRUE]
  <2>1. PICK k : sshLoad' = [sshLoad EXCEPT ![k].revoked = TRUE] \/ sshLoad' = [sshLoad EXCEPT ![k].used = TRUE]
    BY <1>4 DEF RevokeLoad
  <2>2. DOMAIN sshLoad' = DOMAIN sshLoad
    BY <2>1
  <2>3. \A j \in DOMAIN sshLoad : sshLoad[j].used => sshLoad'[j].used
    <3>1. \A j \in DOMAIN sshLoad : \/ sshLoad'[j] = sshLoad[j]
                                    \/ sshLoad'[j] = [sshLoad[j] EXCEPT !.revoked = TRUE]
                                    \/ sshLoad'[j] = [sshLoad[j] EXCEPT !.used = TRUE]
      BY <2>1
    <3>2. ASSUME NEW l \in SshLoadLease, l.used
          PROVE  [l EXCEPT !.revoked = TRUE].used /\ [l EXCEPT !.used = TRUE].used
      BY <3>2 DEF SshLoadLease
    <3>3. ASSUME NEW j \in DOMAIN sshLoad, sshLoad[j].used PROVE sshLoad'[j].used
      <4>1. sshLoad[j] \in SshLoadLease
        BY <1>1
      <4>2. [sshLoad[j] EXCEPT !.revoked = TRUE].used /\ [sshLoad[j] EXCEPT !.used = TRUE].used
        BY <3>2, <3>3, <4>1
      <4> QED
        BY <3>1, <3>3, <4>2
    <3> QED
      BY <3>3
  <2> QED
    BY <2>2, <2>3 DEF Used
<1>5. CASE UNCHANGED vars \/ Tick \/ Environment
  BY <1>2, <1>5 DEF vars, engine, Tick, Environment, Spawn, Exit, Exec, Open, daemon
<1>6. CASE MainStep
  <2>1. UNCHANGED sshLoad \/ \E k : sshLoad' = [sshLoad EXCEPT ![k].used = TRUE]
    BY <1>6 DEF MainStep, MainExpireMigrations, MainExpireReads, MainRead, MainDecideOpen, MainDecideUnknown,
       MainPanic, MainDecide, Apply, MainDetails, MainEnqueueMigration, MainEnqueueRead, MainRecent,
       ApproveMigration, engine, leases
  <2> QED
    BY <1>2, <1>4, <2>1
<1>7. CASE IpcRequest \/ IpcStep
  <2>1. UNCHANGED sshLoad \/ (\E l : sshLoad' = Append(sshLoad, l)) \/ \E k : RevokeLoad(k)
    BY <1>7 DEF IpcRequest, IpcResolveMigration, IpcResolveRead, IpcAuthorizeMigration, IpcAuthorizeLoad,
       Begin, IpcRevoke, IpcStep, IpcAuthenticate, IpcTakeMigration, IpcTakeRead, IpcDeny,
       IpcApproveMigration, IpcApproveRead, IpcRecord, IpcAllow, IpcSibling, IpcArm, IpcLoad, IpcDeliver,
       Arm, AuthorizeLoad, RevokeMigration, RevokeRead, ApproveMigration, ApproveRead, engine
  <2> QED
    BY <1>2, <1>3, <1>4, <2>1
<1> QED
  BY <1>5, <1>6, <1>7 DEF Next

\* A read that only a load justifies is paid with a load.
LEMMA NextSpent == IInv /\ IInv' /\ Grounds /\ LoadsSpent /\ [Next]_vars => LoadsSpent'
<1> SUFFICES ASSUME IInv, IInv', Grounds, LoadsSpent, [Next]_vars PROVE LoadsSpent'
  OBVIOUS
<1>1. Grows
  BY NextGrows DEF IInv, Typed, Grounds
<1>2. Used \subseteq Used' /\ IsFiniteSet(Used) /\ IsFiniteSet(Used') /\ Cardinality(Used) <= Cardinality(Used')
      /\ Cardinality(Used) \in Nat /\ Cardinality(Used') \in Nat
  <2>1. Used \subseteq Used' /\ IsFiniteSet(Used) /\ Cardinality(Used) \in Nat
    BY UsedStays, UsedFinite DEF IInv, Typed
  <2>2. IsFiniteSet(Used)' /\ (Cardinality(Used) \in Nat)'
    BY UsedFinite, PTL DEF IInv, Typed
  <2> QED
    BY <2>1, <2>2, FS_Subset
<1>3. Cardinality(ByLoadOnly) \in Nat /\ IsFiniteSet(ByLoadOnly) /\ Cardinality(ByLoadOnly) <= Cardinality(Used)
  BY FS_CardinalityType DEF LoadsSpent
<1>4. CASE ByLoadOnly' \subseteq ByLoadOnly
  <2>1. IsFiniteSet(ByLoadOnly') /\ Cardinality(ByLoadOnly') <= Cardinality(ByLoadOnly)
    BY <1>3, <1>4, FS_Subset
  <2>2. Cardinality(ByLoadOnly') \in Nat
    BY <2>1, FS_CardinalityType
  <2> QED
    BY <1>2, <1>3, <2>1, <2>2 DEF LoadsSpent
<1>5. CASE ~(ByLoadOnly' \subseteq ByLoadOnly)
  <2> DEFINE k == Judgement(Res, Resolve(EvPid)).lease
  <2>1. ByLoadOnly' \subseteq ByLoadOnly \union {Event}
    BY <1>1, JoinedByLoad
  <2>2. MainDecide /\ Judgement(Res, Resolve(EvPid)).kind = "bySshLoad" /\ k \in DOMAIN sshLoad /\ ~sshLoad[k].used
    BY <1>1, <1>5, JoinedByLoad
  <2> HIDE DEF k
  <2>3. sshLoad' = [sshLoad EXCEPT ![k].used = TRUE] /\ k \notin Used
    BY <2>2 DEF MainDecide, Apply, Used, k
  <2>4. k \in Used'
    <3>1. DOMAIN sshLoad' = DOMAIN sshLoad /\ sshLoad[k] \in SshLoadLease
      BY <2>2, <2>3 DEF IInv, Typed, LeasesOK
    <3>2. sshLoad'[k] = [sshLoad[k] EXCEPT !.used = TRUE]
      BY <2>2, <2>3
    <3>3. sshLoad'[k].used
      BY <3>1, <3>2 DEF SshLoadLease
    <3> QED
      BY <2>2, <3>1, <3>3 DEF Used
  <2>5. /\ IsFiniteSet(Used \union {k}) /\ Cardinality(Used \union {k}) = Cardinality(Used) + 1
    BY <1>2, <2>3, FS_AddElement
  <2>6. Cardinality(Used) + 1 <= Cardinality(Used')
    BY <1>2, <2>4, <2>5, FS_Subset
  <2>7. /\ IsFiniteSet(ByLoadOnly \union {Event}) /\ Cardinality(ByLoadOnly \union {Event}) \in Nat
        /\ Cardinality(ByLoadOnly \union {Event}) <= Cardinality(ByLoadOnly) + 1
    <3>1. /\ IsFiniteSet(ByLoadOnly \union {Event})
          /\ Cardinality(ByLoadOnly \union {Event}) =
               IF Event \in ByLoadOnly THEN Cardinality(ByLoadOnly) ELSE Cardinality(ByLoadOnly) + 1
      BY <1>3, FS_AddElement
    <3> QED
      BY <1>3, <3>1
  <2>8. IsFiniteSet(ByLoadOnly') /\ Cardinality(ByLoadOnly') <= Cardinality(ByLoadOnly \union {Event})
    BY <2>1, <2>7, FS_Subset
  <2>9. Cardinality(ByLoadOnly') \in Nat
    BY <2>8, FS_CardinalityType
  <2> QED
    BY <1>2, <1>3, <2>6, <2>7, <2>8, <2>9 DEF LoadsSpent
<1> QED
  BY <1>4, <1>5

\* OneReadPerLoad, for every machine: the reads that only a load can justify are
\* never more than the load leases, whatever the other thread gives or revokes
\* and whoever has the pid by then.
THEOREM LoadsAreReadOnce == Spec => []OneReadPerLoad
<1>1. Init => LoadsSpent
  <2> SUFFICES ASSUME Init PROVE LoadsSpent
    OBVIOUS
  <2>1. ByLoadOnly = {} /\ Used = {}
    BY DEF Init, ByLoadOnly, Used
  <2> QED
    BY <2>1, FS_EmptySet DEF LoadsSpent
<1>2. IInv /\ IInv' /\ Grounds /\ LoadsSpent /\ [Next]_vars => LoadsSpent'
  BY NextSpent
<1>3. IInv /\ LoadsSpent => OneReadPerLoad
  <2> SUFFICES ASSUME IInv, LoadsSpent PROVE OneReadPerLoad
    OBVIOUS
  <2>1. Cardinality(Used) \in Nat /\ Cardinality(Used) <= Len(sshLoad) /\ Len(sshLoad) \in Nat
    BY UsedFinite DEF IInv, Typed, LeasesOK
  <2>2. Cardinality(ByLoadOnly) \in Nat
    BY FS_CardinalityType DEF LoadsSpent
  <2> QED
    BY <2>1, <2>2 DEF LoadsSpent, OneReadPerLoad
<1> QED
  BY <1>1, <1>2, <1>3, GroundsHold, PTL DEF Spec
=============================================================================
