--------------------------- MODULE GuardEsProofs ----------------------------
(***************************************************************************)
(* The macOS policy service keeps its promises for every machine: any      *)
(* processes, files, users, clients, threads, delays and limits.           *)
(*                                                                         *)
(* The invariant has three parts.  Custody says who owns which permission:  *)
(* the callbacks, the queue, a store, or the approval one thread is at, as *)
(* the permission it answers or in the siblings it has yet to approve.     *)
(* Knowledge says that what the service believes of a process was true of  *)
(* some process of that pid.  Work says that requests, tasks and leases    *)
(* fit the opens they are for.                                             *)
(*                                                                         *)
(* On top of it, Grounds says that whatever lets an open through goes back *)
(* to a consent; with it every step is one of ConsentGate.                 *)
(***************************************************************************)
EXTENDS GuardEs, CollectionLemmas, FiniteSetTheorems

Thread == Xpc \union {Main}

\* The hands a permission can be in; a thread's are read off the record of its task.
Told     == Range(messages)
Queued   == Range(queue)
MigPerms == PermsOf(migRequests)
SshPerms == PermsOf(sshRequests)

PermsIn(x) == IF "perms" \in DOMAIN x THEN x.perms ELSE {}
RestIn(x)  == IF "rest" \in DOMAIN x THEN x.rest ELSE {}
OwnedIn(x) == PermsIn(x) \union PermsOf(RestIn(x))

RequestFields == {"id", "details", "perms", "expires"}

\* What a task has depends on where it is: only an import has siblings when it
\* answers, and an approval that is withdrawn has answered its own.
TaskOK(x) ==
  /\ "pc" \in DOMAIN x
  /\ x.pc \in {"idle", "check", "approve", "answer", "withdraw", "refuse"}
  /\ "perms" \in DOMAIN x <=> x.pc # "idle"
  /\ "rest" \in DOMAIN x <=> x.pc \notin {"idle", "refuse"}
  /\ x.pc \notin {"idle", "refuse"} =>
       /\ {"kind", "details"} \subseteq DOMAIN x
       /\ x.kind \in {"import", "sibling", "read"}
       /\ x.kind = "read" \/ (x.kind = "import" /\ x.pc \in {"check", "approve"}) => x.rest = {}
       /\ x.pc = "withdraw" => x.perms = {}
  /\ PermsIn(x) \cap PermsOf(RestIn(x)) = {} /\ Apart(RestIn(x))
  /\ \A r \in RestIn(x) : DOMAIN r = RequestFields

Shapes ==
  /\ main \in {"receive", "recent", "maintainMigrations", "maintainReads"}
  /\ messages \in Seq(Perm) /\ queue \in Seq(Perm)
  /\ IsInjective(messages) /\ IsInjective(queue)
  /\ DOMAIN task = Thread /\ \A t \in Thread : TaskOK(task[t])
  /\ main # "recent" => task[Main].pc = "idle"
  /\ \A r \in migRequests \union sshRequests : DOMAIN r = RequestFields

\* The state of a permission says in whose hands it is.
StatesOK ==
  /\ DOMAIN ask = Perm
  /\ perm \in [Perm -> Mig!PermState]
  /\ \A p \in Perm :
       /\ ask[p] = None => perm[p] = "free"
       /\ perm[p] = "free" /\ ask[p] # None <=> p \in Told \union Queued
       /\ perm[p] = "held" <=> p \in MigPerms \union SshPerms
       /\ perm[p] = "taken" <=> \E t \in Thread : p \in OwnedIn(task[t])

\* Two hands never have the same permission.
HandsApart ==
  /\ Told \cap Queued = {} /\ MigPerms \cap SshPerms = {}
  /\ MigPerms \union SshPerms \subseteq Perm
  /\ \A t \in Thread : OwnedIn(task[t]) \subseteq Perm
  /\ \A t, u \in Thread : t # u => OwnedIn(task[t]) \cap OwnedIn(task[u]) = {}
  /\ Apart(migRequests) /\ Apart(sshRequests)

Custody == Shapes /\ StatesOK /\ HandsApart

-----------------------------------------------------------------------------
(***************************************************************************)
(* What a call of a store does to who owns what.                           *)
(***************************************************************************)
LEMMA IdleOK ==
  /\ TaskOK(Idle) /\ OwnedIn(Idle) = {}
  /\ \A x : TaskOK(x) /\ x.pc = "idle" => OwnedIn(x) = {}
<1>1. PermsOf({}) = {} /\ Apart({})
  BY DEF PermsOf, Apart
<1>2. DOMAIN Idle = {"pc"} /\ Idle.pc = "idle"
  BY DEF Idle
<1>3. PermsIn(Idle) = {} /\ RestIn(Idle) = {}
  BY <1>2 DEF PermsIn, RestIn
<1>4. TaskOK(Idle) /\ OwnedIn(Idle) = {}
  BY <1>1, <1>2, <1>3 DEF TaskOK, OwnedIn
<1>5. ASSUME NEW x, TaskOK(x), x.pc = "idle" PROVE OwnedIn(x) = {}
  BY <1>1, <1>5 DEF TaskOK, OwnedIn, PermsIn, RestIn
<1> QED
  BY <1>4, <1>5

\* Answering permissions, or taking them from one hand to the next.
LEMMA MarkedPerm ==
  ASSUME perm \in [Perm -> Mig!PermState], NEW P, NEW s \in Mig!PermState,
         perm' = Mig!Marked(P, s)
  PROVE  /\ perm' \in [Perm -> Mig!PermState]
         /\ \A p \in Perm : p \in P => perm'[p] = s
         /\ \A p \in Perm : p \notin P => perm'[p] = perm[p]
BY DEF Mig!Marked

LEMMA MarkedOne ==
  ASSUME perm \in [Perm -> Mig!PermState], NEW p \in Perm,
         NEW s \in {"held", "taken", "allowed", "denied"}, perm' = Mig!Marked({p}, s)
  PROVE  /\ perm' \in [Perm -> Mig!PermState] /\ perm'[p] = s
         /\ \A q \in Perm : q # p => perm'[q] = perm[q]
BY DEF Mig!Marked, Mig!PermState

\* enqueue answers the permission, hands it back or lets a request have it.
LEMMA MigEnqueues ==
  ASSUME Custody, NEW p \in Perm, p \notin MigPerms, NEW d, Mig!Enqueue(p, d)
  PROVE  \/ UNCHANGED migRequests /\ \E s \in {"denied", "taken"} : perm' = Mig!Marked({p}, s)
         \/ /\ perm' = Mig!Marked({p}, "held")
            /\ MigPerms' = MigPerms \union {p} /\ Apart(migRequests')
            /\ \A r \in migRequests' : DOMAIN r = RequestFields
<1>1. CASE \/ Mig!DenySuppressed(p, d) \/ Mig!DenyFullRequest(p, d) \/ Mig!DenyFullStore(p, d)
           \/ Mig!ReturnRecentlyApproved(p, d)
  BY <1>1 DEF Mig!DenySuppressed, Mig!DenyFullRequest, Mig!DenyFullStore, Mig!ReturnRecentlyApproved
<1>2. CASE Mig!JoinRequest(p, d)
  <2>1. PICK r \in migRequests : migRequests' = (migRequests \ {r}) \union {[r EXCEPT !.perms = @ \union {p}]}
    BY <1>2 DEF Mig!JoinRequest, Mig!Pending
  <2> DEFINE n == [r EXCEPT !.perms = @ \union {p}]
  <2>2. n.perms = r.perms \union {p} /\ DOMAIN n = RequestFields
    BY DEF Custody, Shapes, RequestFields
  <2> HIDE DEF n
  <2>3. migRequests' = (migRequests \ {r}) \union {n}
    BY <2>1 DEF n
  <2>4. MigPerms' = MigPerms \union {p} /\ Apart(migRequests')
    BY <2>2, <2>3, JoinApart DEF MigPerms, Custody, HandsApart
  <2> QED
    BY <1>2, <2>2, <2>3, <2>4 DEF Mig!JoinRequest, Custody, Shapes
<1>3. CASE Mig!CreateRequest(p, d)
  <2> DEFINE n == [id |-> migNextId + 1, details |-> d, perms |-> {p},
                   expires |-> Mig!SatAdd(now, Timeout)]
  <2>1. n.perms = {p} /\ DOMAIN n = RequestFields
    BY DEF RequestFields
  <2>2. migRequests' = migRequests \union {n}
    BY <1>3 DEF Mig!CreateRequest
  <2> HIDE DEF n
  <2>3. MigPerms' = MigPerms \union {p} /\ Apart(migRequests')
    BY <2>1, <2>2, AddApart DEF MigPerms, Custody, HandsApart
  <2> QED
    BY <1>3, <2>1, <2>2, <2>3 DEF Mig!CreateRequest, Custody, Shapes
<1> QED
  BY <1>1, <1>2, <1>3 DEF Mig!Enqueue

LEMMA SshEnqueues ==
  ASSUME Custody, NEW p \in Perm, p \notin SshPerms, NEW d \in SshDetailsSet, Ssh!Enqueue(p, d)
  PROVE  \/ UNCHANGED sshRequests /\ perm' = Mig!Marked({p}, "denied")
         \/ /\ perm' = Mig!Marked({p}, "held")
            /\ SshPerms' = SshPerms \union {p} /\ Apart(sshRequests')
            /\ \A r \in sshRequests' : DOMAIN r = RequestFields
<1>1. CASE Ssh!DenySuppressed(p, d) \/ Ssh!DenyFullRequest(p, d) \/ Ssh!DenyFullStore(p, d)
  BY <1>1 DEF Ssh!DenySuppressed, Ssh!DenyFullRequest, Ssh!DenyFullStore, Mig!Marked, Ssh!Marked
<1>4. ~Ssh!ReturnRecentlyApproved(p, d)
  BY DEF Ssh!ReturnRecentlyApproved, Ssh!RecentlyApproved, Ssh!Cleanup
<1>2. CASE Ssh!JoinRequest(p, d)
  <2>1. PICK r \in sshRequests : sshRequests' = (sshRequests \ {r}) \union {[r EXCEPT !.perms = @ \union {p}]}
    BY <1>2 DEF Ssh!JoinRequest, Ssh!Pending
  <2> DEFINE n == [r EXCEPT !.perms = @ \union {p}]
  <2>2. n.perms = r.perms \union {p} /\ DOMAIN n = RequestFields
    BY DEF Custody, Shapes, RequestFields
  <2> HIDE DEF n
  <2>3. sshRequests' = (sshRequests \ {r}) \union {n}
    BY <2>1 DEF n
  <2>4. SshPerms' = SshPerms \union {p} /\ Apart(sshRequests')
    BY <2>2, <2>3, JoinApart DEF SshPerms, Custody, HandsApart
  <2> QED
    BY <1>2, <2>2, <2>3, <2>4 DEF Ssh!JoinRequest, Custody, Shapes, Mig!Marked, Ssh!Marked
<1>3. CASE Ssh!CreateRequest(p, d)
  <2> DEFINE n == [id |-> sshNextId + 1, details |-> d, perms |-> {p},
                   expires |-> Ssh!SatAdd(now, Timeout)]
  <2>1. n.perms = {p} /\ DOMAIN n = RequestFields
    BY DEF RequestFields
  <2>2. sshRequests' = sshRequests \union {n}
    BY <1>3 DEF Ssh!CreateRequest
  <2> HIDE DEF n
  <2>3. SshPerms' = SshPerms \union {p} /\ Apart(sshRequests')
    BY <2>1, <2>2, AddApart DEF SshPerms, Custody, HandsApart
  <2> QED
    BY <1>3, <2>1, <2>2, <2>3 DEF Ssh!CreateRequest, Custody, Shapes, Mig!Marked, Ssh!Marked
<1> QED
  BY <1>1, <1>2, <1>3, <1>4 DEF Ssh!Enqueue

-----------------------------------------------------------------------------
(***************************************************************************)
(* How custody passes: not at all, from a task, from a store.              *)
(***************************************************************************)
Mains == {"receive", "recent", "maintainMigrations", "maintainReads"}

LEMMA InitCustody == Init => Custody
<1> SUFFICES ASSUME Init PROVE Custody
  OBVIOUS
<1>1. /\ Told = {} /\ Queued = {} /\ MigPerms = {} /\ SshPerms = {}
      /\ IsInjective(messages) /\ IsInjective(queue)
  BY EmptyRange DEF Init, Told, Queued, MigPerms, SshPerms, PermsOf
<1>2. DOMAIN task = Thread /\ \A t \in Thread : task[t] = Idle
  BY DEF Init, Thread
<1>3. Shapes
  BY <1>1, <1>2, IdleOK DEF Init, Shapes, Thread, Idle
<1>4. StatesOK
  BY <1>1, <1>2, IdleOK DEF Init, StatesOK, Mig!PermState
<1>5. HandsApart
  BY <1>1, <1>2, IdleOK DEF Init, HandsApart, Apart
<1> QED
  BY <1>3, <1>4, <1>5 DEF Custody

\* Nobody passes a permission on: the main loop may go elsewhere.
LEMMA StillKeeps ==
  ASSUME Custody, UNCHANGED <<ask, perm, messages, queue, task, migRequests, sshRequests>>,
         main' \in Mains, main' # "recent" => task[Main].pc = "idle"
  PROVE  Custody'
<1>1. Told' = Told /\ Queued' = Queued /\ MigPerms' = MigPerms /\ SshPerms' = SshPerms
  BY DEF Told, Queued, MigPerms, SshPerms
<1> QED
  BY <1>1 DEF Custody, Shapes, StatesOK, HandsApart, Mains

\* Processes come, change and go, files are replaced, and time passes.
LEMMA WorldKeeps ==
  ASSUME Custody, UNCHANGED <<ask, perm, messages, queue, main, task, migRequests, sshRequests>>
  PROVE  Custody'
<1>1. main' \in Mains /\ (main' # "recent" => task[Main].pc = "idle")
  BY DEF Custody, Shapes, Mains
<1> QED
  BY <1>1, StillKeeps

\* A task goes on with some of its permissions, and answers the others.
LEMMA TaskKeeps ==
  ASSUME Custody, NEW t \in Thread, task[t].pc # "idle",
         NEW x, task' = [task EXCEPT ![t] = x], TaskOK(x),
         NEW P, P \subseteq OwnedIn(task[t]), OwnedIn(x) = OwnedIn(task[t]) \ P,
         NEW v \in {"allowed", "denied"}, perm' = Mig!Marked(P, v),
         UNCHANGED <<ask, messages, queue, main, migRequests, sshRequests>>
  PROVE  Custody'
<1>1. Told' = Told /\ Queued' = Queued /\ MigPerms' = MigPerms /\ SshPerms' = SshPerms
  BY DEF Told, Queued, MigPerms, SshPerms
<1>2. DOMAIN task' = Thread /\ task'[t] = x /\ \A u \in Thread : u # t => task'[u] = task[u]
  BY DEF Custody, Shapes
<1>3. /\ perm' \in [Perm -> Mig!PermState]
      /\ \A p \in Perm : p \in P => perm'[p] = v
      /\ \A p \in Perm : p \notin P => perm'[p] = perm[p]
  BY MarkedPerm DEF Custody, StatesOK, Mig!PermState
<1>4. t = Main => main = "recent"
  BY DEF Custody, Shapes
<1>5. Shapes'
  BY <1>2, <1>4 DEF Custody, Shapes, Thread
<1>6. HandsApart'
  <2>1. \A u \in Thread : OwnedIn(task'[u]) \subseteq OwnedIn(task[u])
    BY <1>2
  <2>2. /\ \A u \in Thread : OwnedIn(task'[u]) \subseteq Perm
        /\ \A u, w \in Thread : u # w => OwnedIn(task'[u]) \cap OwnedIn(task'[w]) = {}
    BY <2>1 DEF Custody, HandsApart
  <2> QED
    BY <1>1, <2>2 DEF Custody, HandsApart
<1>7. StatesOK'
  <2>1. \A p \in Perm : p \in P => perm[p] = "taken" /\ \A u \in Thread : p \notin OwnedIn(task'[u])
    BY <1>2 DEF Custody, StatesOK, HandsApart
  <2>2. \A p \in Perm : p \notin P =>
          ((\E u \in Thread : p \in OwnedIn(task'[u])) <=> \E u \in Thread : p \in OwnedIn(task[u]))
    BY <1>2
  <2>3. ASSUME NEW p \in Perm, p \in P
        PROVE  /\ ask[p] # None /\ perm'[p] = v
               /\ p \notin Told \union Queued /\ p \notin MigPerms \union SshPerms
               /\ ~ \E u \in Thread : p \in OwnedIn(task'[u])
    BY <1>3, <2>1, <2>3 DEF Custody, StatesOK
  <2>4. ASSUME NEW p \in Perm
        PROVE  /\ ask'[p] = None => perm'[p] = "free"
               /\ perm'[p] = "free" /\ ask'[p] # None <=> p \in Told' \union Queued'
               /\ perm'[p] = "held" <=> p \in MigPerms' \union SshPerms'
               /\ perm'[p] = "taken" <=> \E u \in Thread : p \in OwnedIn(task'[u])
    <3>1. CASE p \in P
      BY <1>1, <2>3, <3>1
    <3>2. CASE p \notin P
      BY <1>1, <1>3, <2>2, <3>2 DEF Custody, StatesOK
    <3> QED
      BY <3>1, <3>2
  <2> QED
    BY <1>3, <2>4 DEF Custody, StatesOK
<1> QED
  BY <1>5, <1>6, <1>7 DEF Custody

\* The task goes on with what it has.
LEMMA TaskGoesOn ==
  ASSUME Custody, NEW t \in Thread, task[t].pc # "idle",
         NEW x, task' = [task EXCEPT ![t] = x], TaskOK(x), OwnedIn(x) = OwnedIn(task[t]),
         UNCHANGED <<ask, perm, messages, queue, main, migRequests, sshRequests>>
  PROVE  Custody'
<1>1. perm' = Mig!Marked({}, "denied")
  BY DEF Custody, StatesOK, Mig!Marked
<1> QED
  BY <1>1, TaskKeeps

\* The siblings of an approval follow one another.
LEMMA OnwardOK ==
  ASSUME NEW t, NEW R, Apart(R), \A r \in R : DOMAIN r = RequestFields, Onward(t, R)
  PROVE  \E x : task' = [task EXCEPT ![t] = x] /\ TaskOK(x) /\ OwnedIn(x) = PermsOf(R)
<1>1. CASE R = {} /\ task' = [task EXCEPT ![t] = Idle]
  BY <1>1, IdleOK DEF PermsOf
<1>2. CASE \E r \in R : task' = [task EXCEPT ![t] = Approval("sibling", r.details, r.perms, R \ {r})]
  <2>1. PICK r \in R : task' = [task EXCEPT ![t] = Approval("sibling", r.details, r.perms, R \ {r})]
    BY <1>2
  <2> DEFINE x == Approval("sibling", r.details, r.perms, R \ {r})
  <2>2. /\ DOMAIN x = {"pc", "kind", "details", "perms", "rest"} /\ x.pc = "check"
        /\ x.kind = "sibling" /\ x.perms = r.perms /\ x.rest = R \ {r}
    BY DEF Approval
  <2>3. task' = [task EXCEPT ![t] = x]
    BY <2>1
  <2> HIDE DEF x
  <2>4. PermsOf(R \ {r}) = PermsOf(R) \ r.perms /\ r.perms \subseteq PermsOf(R) /\ Apart(R \ {r})
    BY RemoveOne
  <2>5. PermsIn(x) = r.perms /\ RestIn(x) = R \ {r}
    BY <2>2 DEF PermsIn, RestIn
  <2>6. TaskOK(x) /\ OwnedIn(x) = PermsOf(R)
    BY <2>2, <2>4, <2>5 DEF TaskOK, OwnedIn
  <2> QED
    BY <2>3, <2>6
<1> QED
  BY <1>1, <1>2 DEF Onward

-----------------------------------------------------------------------------
(***************************************************************************)
(* The steps of an approval.                                               *)
(***************************************************************************)
\* What a task has at each of its steps.
LEMMA AtTask ==
  ASSUME Custody, NEW t \in Thread, NEW pc, TaskAt(t, pc), pc # "idle"
  PROVE  /\ task[t].pc = pc /\ TaskOK(task[t])
         /\ PermsIn(task[t]) = task[t].perms
         /\ pc # "refuse" => /\ RestIn(task[t]) = task[t].rest /\ Apart(task[t].rest)
                             /\ task[t].perms \cap PermsOf(task[t].rest) = {}
                             /\ \A r \in task[t].rest : DOMAIN r = RequestFields
         /\ pc = "refuse" => OwnedIn(task[t]) = task[t].perms
<1>1. TaskOK(task[t]) /\ task[t].pc = pc
  BY DEF Custody, Shapes, TaskAt
<1>2. PermsOf({}) = {}
  BY DEF PermsOf
<1> QED
  BY <1>1, <1>2 DEF TaskOK, PermsIn, RestIn, OwnedIn

\* It has answered some of what it had, and goes on with the siblings R.
LEMMA OnwardKeeps ==
  ASSUME Custody, NEW t \in Thread, task[t].pc # "idle", NEW R, Onward(t, R),
         Apart(R), \A r \in R : DOMAIN r = RequestFields,
         NEW P, P \subseteq OwnedIn(task[t]), PermsOf(R) = OwnedIn(task[t]) \ P,
         NEW v \in {"allowed", "denied"}, perm' = Mig!Marked(P, v),
         UNCHANGED <<ask, messages, queue, main, migRequests, sshRequests>>
  PROVE  Custody'
<1>1. PICK x : task' = [task EXCEPT ![t] = x] /\ TaskOK(x) /\ OwnedIn(x) = PermsOf(R)
  BY OnwardOK
<1> QED
  BY <1>1, TaskKeeps

LEMMA CheckKeeps == \A t \in Thread : Custody /\ Check(t) => Custody'
<1> SUFFICES ASSUME NEW t \in Thread, Custody, Check(t) PROVE Custody'
  OBVIOUS
<1>1. UNCHANGED <<ask, messages, queue, main, migRequests, sshRequests>>
  BY DEF Check, own, learning, migStore, sshStore
<1>2. /\ task[t].pc = "check" /\ TaskOK(task[t])
      /\ PermsIn(task[t]) = task[t].perms /\ RestIn(task[t]) = task[t].rest
      /\ Apart(task[t].rest) /\ task[t].perms \cap PermsOf(task[t].rest) = {}
      /\ \A r \in task[t].rest : DOMAIN r = RequestFields
  BY AtTask DEF Check
<1>3. CASE task' = Step(t, "approve") /\ UNCHANGED perm
  <2> DEFINE x == [task[t] EXCEPT !.pc = "approve"]
  <2>1. task' = [task EXCEPT ![t] = x]
    BY <1>2, <1>3 DEF Step
  <2>2. /\ DOMAIN x = DOMAIN task[t] /\ x.pc = "approve"
        /\ x.kind = task[t].kind /\ x.perms = task[t].perms /\ x.rest = task[t].rest
    BY <1>2 DEF TaskOK
  <2> HIDE DEF x
  <2>3. TaskOK(x) /\ OwnedIn(x) = OwnedIn(task[t])
    BY <1>2, <2>2 DEF TaskOK, OwnedIn, PermsIn, RestIn
  <2> QED
    BY <1>1, <1>2, <1>3, <2>1, <2>3, TaskGoesOn
<1>4. CASE Onward(t, task[t].rest) /\ perm' = Mig!Marked(task[t].perms, "denied")
  <2>1. /\ task[t].perms \subseteq OwnedIn(task[t])
        /\ PermsOf(task[t].rest) = OwnedIn(task[t]) \ task[t].perms
    BY <1>2 DEF OwnedIn
  <2> QED
    BY <1>1, <1>2, <1>4, <2>1, OnwardKeeps
<1> QED
  BY <1>3, <1>4 DEF Check

\* The task as a lease was made for it.
LEMMA ApprovedTask ==
  ASSUME Custody, NEW t \in Thread, TaskAt(t, "approve"), NEW lease, NEW R, Approved(t, lease, R)
  PROVE  \E x : /\ task' = [task EXCEPT ![t] = x]
                /\ DOMAIN x = {"pc", "kind", "details", "perms", "rest", "lease"}
                /\ x.pc = "answer" /\ x.kind = task[t].kind /\ x.details = task[t].details
                /\ x.perms = task[t].perms /\ x.rest = R /\ x.lease = lease
<1> DEFINE x == [pc |-> "answer", kind |-> task[t].kind, details |-> task[t].details,
                 perms |-> task[t].perms, rest |-> R, lease |-> lease]
<1>1. task' = [task EXCEPT ![t] = x]
  BY DEF Approved, Custody, Shapes
<1>2. /\ DOMAIN x = {"pc", "kind", "details", "perms", "rest", "lease"}
      /\ x.pc = "answer" /\ x.kind = task[t].kind /\ x.details = task[t].details
      /\ x.perms = task[t].perms /\ x.rest = R /\ x.lease = lease
  OBVIOUS
<1> HIDE DEF x
<1> QED
  BY <1>1, <1>2

LEMMA ApproveKeeps == \A t \in Thread : Custody /\ (ApproveSibling(t) \/ ApproveRead(t)) => Custody'
<1> SUFFICES ASSUME NEW t \in Thread, Custody, ApproveSibling(t) \/ ApproveRead(t) PROVE Custody'
  OBVIOUS
<1>1. UNCHANGED <<ask, perm, messages, queue, main, migRequests, sshRequests>>
  BY DEF ApproveSibling, ApproveRead, own, learning, migStore, sshStore
<1>2. TaskAt(t, "approve") /\ task[t].kind \in {"sibling", "read"}
  BY DEF ApproveSibling, ApproveRead
<1>3. /\ task[t].pc = "approve" /\ TaskOK(task[t]) /\ RestIn(task[t]) = task[t].rest
  BY <1>2, AtTask
<1>4. \E lease : Approved(t, lease, task[t].rest)
  BY <1>2, <1>3 DEF ApproveSibling, ApproveRead, TaskOK
<1>5. PICK lease, x : /\ task' = [task EXCEPT ![t] = x]
                      /\ DOMAIN x = {"pc", "kind", "details", "perms", "rest", "lease"}
                      /\ x.pc = "answer" /\ x.kind = task[t].kind /\ x.details = task[t].details
                      /\ x.perms = task[t].perms /\ x.rest = task[t].rest /\ x.lease = lease
  BY <1>2, <1>4, ApprovedTask
<1>6. TaskOK(x) /\ OwnedIn(x) = OwnedIn(task[t])
  BY <1>2, <1>3, <1>5 DEF TaskOK, OwnedIn, PermsIn, RestIn
<1> QED
  BY <1>1, <1>3, <1>5, <1>6, TaskGoesOn

\* The siblings leave the store: the approval has them now.
LEMMA ApproveImportKeeps == \A t \in Thread : Custody /\ ApproveImport(t) => Custody'
<1> SUFFICES ASSUME NEW t \in Thread, Custody, ApproveImport(t) PROVE Custody'
  OBVIOUS
<1> DEFINE S == Mig!Siblings(MigScopeOf[task[t].details])
<1>1. /\ UNCHANGED <<ask, messages, queue, main, sshRequests>>
      /\ S \subseteq migRequests /\ migRequests' = migRequests \ S
      /\ perm' = Mig!Marked(PermsOf(S), "taken")
  BY DEF ApproveImport, own, learning, sshStore, Mig!RecordApproval, Mig!Remove, Mig!Siblings, PermsOf
<1>2. TaskAt(t, "approve") /\ task[t].kind = "import" /\ \E lease : Approved(t, lease, S)
  BY DEF ApproveImport
<1> HIDE DEF S
<1>3. /\ task[t].pc = "approve" /\ TaskOK(task[t]) /\ PermsIn(task[t]) = task[t].perms
      /\ RestIn(task[t]) = task[t].rest
  BY <1>2, AtTask
<1>4. PICK lease, x : /\ task' = [task EXCEPT ![t] = x]
                      /\ DOMAIN x = {"pc", "kind", "details", "perms", "rest", "lease"}
                      /\ x.pc = "answer" /\ x.kind = task[t].kind /\ x.details = task[t].details
                      /\ x.perms = task[t].perms /\ x.rest = S /\ x.lease = lease
  BY <1>2, ApprovedTask
<1>5. OwnedIn(task[t]) = task[t].perms
  <2>1. task[t].rest = {} /\ PermsOf({}) = {}
    BY <1>2, <1>3 DEF TaskOK, PermsOf
  <2> QED
    BY <1>3, <2>1 DEF OwnedIn
<1>6. /\ MigPerms' = MigPerms \ PermsOf(S) /\ PermsOf(S) \subseteq MigPerms
      /\ Apart(migRequests') /\ Apart(S)
  BY <1>1, RemoveApart DEF MigPerms, Custody, HandsApart
<1>7. \A p \in PermsOf(S) : p \in Perm /\ perm[p] = "held" /\ \A u \in Thread : p \notin OwnedIn(task[u])
  BY <1>6 DEF Custody, StatesOK, HandsApart
<1>8. PermsIn(x) = task[t].perms /\ RestIn(x) = S /\ OwnedIn(x) = OwnedIn(task[t]) \union PermsOf(S)
  BY <1>4, <1>5 DEF PermsIn, RestIn, OwnedIn
<1>9. DOMAIN task' = Thread /\ task'[t] = x /\ \A u \in Thread : u # t => task'[u] = task[u]
  BY <1>4 DEF Custody, Shapes
<1>10. Shapes'
  <2>1. TaskOK(x)
    <3>1. PermsIn(x) \cap PermsOf(RestIn(x)) = {} /\ Apart(RestIn(x))
      BY <1>5, <1>6, <1>7, <1>8
    <3>2. \A r \in RestIn(x) : DOMAIN r = RequestFields
      BY <1>1, <1>8 DEF Custody, Shapes
    <3> QED
      BY <1>2, <1>4, <3>1, <3>2 DEF TaskOK
  <2>2. t = Main => main = "recent"
    BY <1>3 DEF Custody, Shapes
  <2> QED
    BY <1>1, <1>9, <2>1, <2>2 DEF Custody, Shapes, Thread
<1>11. HandsApart'
  <2>1. /\ \A u \in Thread : OwnedIn(task'[u]) \subseteq Perm
        /\ \A u, w \in Thread : u # w => OwnedIn(task'[u]) \cap OwnedIn(task'[w]) = {}
    BY <1>7, <1>8, <1>9 DEF Custody, HandsApart
  <2> QED
    BY <1>1, <1>6, <2>1 DEF Custody, HandsApart, Told, Queued, SshPerms
<1>12. StatesOK'
  <2>1. /\ perm' \in [Perm -> Mig!PermState]
        /\ \A p \in Perm : p \in PermsOf(S) => perm'[p] = "taken"
        /\ \A p \in Perm : p \notin PermsOf(S) => perm'[p] = perm[p]
    BY <1>1, MarkedPerm DEF Custody, StatesOK, Mig!PermState
  <2>2. Told' = Told /\ Queued' = Queued /\ SshPerms' = SshPerms
    BY <1>1 DEF Told, Queued, SshPerms
  <2>3. ASSUME NEW p \in Perm
        PROVE  /\ ask'[p] = None => perm'[p] = "free"
               /\ perm'[p] = "free" /\ ask'[p] # None <=> p \in Told' \union Queued'
               /\ perm'[p] = "held" <=> p \in MigPerms' \union SshPerms'
               /\ perm'[p] = "taken" <=> \E u \in Thread : p \in OwnedIn(task'[u])
    <3>1. CASE p \in PermsOf(S)
      <4>1. p \in OwnedIn(task'[t]) /\ p \notin MigPerms' /\ p \notin SshPerms
        BY <1>6, <1>8, <1>9, <3>1 DEF Custody, HandsApart
      <4>2. ask[p] # None /\ p \notin Told \union Queued
        BY <1>7, <3>1 DEF Custody, StatesOK
      <4> QED
        BY <1>1, <2>1, <2>2, <3>1, <4>1, <4>2
    <3>2. CASE p \notin PermsOf(S)
      <4>1. (\E u \in Thread : p \in OwnedIn(task'[u])) <=> \E u \in Thread : p \in OwnedIn(task[u])
        BY <1>8, <1>9, <3>2
      <4>2. p \in MigPerms' <=> p \in MigPerms
        BY <1>6, <3>2
      <4> QED
        BY <1>1, <2>1, <2>2, <3>2, <4>1, <4>2 DEF Custody, StatesOK
    <3> QED
      BY <3>1, <3>2
  <2> QED
    BY <1>1, <2>1, <2>3 DEF Custody, StatesOK
<1> QED
  BY <1>10, <1>11, <1>12 DEF Custody

LEMMA AnswerKeeps == \A t \in Thread : Custody /\ Answer(t) => Custody'
<1> SUFFICES ASSUME NEW t \in Thread, Custody, Answer(t) PROVE Custody'
  OBVIOUS
<1>1. /\ UNCHANGED <<ask, messages, queue, main, migRequests, sshRequests>>
      /\ perm' = Mig!Marked(task[t].perms, "allowed")
  BY DEF Answer, own, learning, migStore, sshStore
<1>2. /\ task[t].pc = "answer" /\ TaskOK(task[t])
      /\ PermsIn(task[t]) = task[t].perms /\ RestIn(task[t]) = task[t].rest
      /\ Apart(task[t].rest) /\ task[t].perms \cap PermsOf(task[t].rest) = {}
      /\ \A r \in task[t].rest : DOMAIN r = RequestFields
  BY AtTask DEF Answer
<1>3. /\ task[t].perms \subseteq OwnedIn(task[t])
      /\ PermsOf(task[t].rest) = OwnedIn(task[t]) \ task[t].perms
  BY <1>2 DEF OwnedIn
<1>4. CASE task' = [task EXCEPT ![t].pc = "withdraw", ![t].perms = {}]
  <2> DEFINE x == [task[t] EXCEPT !.pc = "withdraw", !.perms = {}]
  <2>1. task' = [task EXCEPT ![t] = x]
    BY <1>2, <1>4 DEF Custody, Shapes
  <2>2. /\ DOMAIN x = DOMAIN task[t] /\ x.pc = "withdraw"
        /\ x.kind = task[t].kind /\ x.perms = {} /\ x.rest = task[t].rest
    BY <1>2 DEF TaskOK
  <2> HIDE DEF x
  <2>3. TaskOK(x) /\ OwnedIn(x) = PermsOf(task[t].rest)
    <3>1. PermsIn(x) = {} /\ RestIn(x) = task[t].rest
      BY <1>2, <2>2 DEF PermsIn, RestIn, TaskOK
    <3> QED
      BY <1>2, <2>2, <3>1 DEF TaskOK, OwnedIn
  <2> QED
    BY <1>1, <1>2, <1>3, <2>1, <2>3, TaskKeeps
<1>5. CASE Onward(t, task[t].rest)
  BY <1>1, <1>2, <1>3, <1>5, OnwardKeeps
<1> QED
  BY <1>4, <1>5 DEF Answer

LEMMA WithdrawKeeps ==
  \A t \in Thread : Custody /\ (WithdrawImport(t) \/ WithdrawSibling(t) \/ WithdrawRead(t)) => Custody'
<1> SUFFICES ASSUME NEW t \in Thread, Custody, WithdrawImport(t) \/ WithdrawSibling(t) \/ WithdrawRead(t)
             PROVE  Custody'
  OBVIOUS
<1>1. UNCHANGED <<ask, messages, queue, main, migRequests, sshRequests>> /\ TaskAt(t, "withdraw")
  BY DEF WithdrawImport, WithdrawSibling, WithdrawRead, own, learning, migStore, sshStore
<1>2. /\ task[t].pc = "withdraw" /\ TaskOK(task[t])
      /\ PermsIn(task[t]) = task[t].perms /\ RestIn(task[t]) = task[t].rest
      /\ Apart(task[t].rest) /\ \A r \in task[t].rest : DOMAIN r = RequestFields
  BY <1>1, AtTask
<1>3. OwnedIn(task[t]) = PermsOf(task[t].rest) /\ PermsOf({}) = {} /\ Apart({})
  BY <1>2 DEF TaskOK, OwnedIn, PermsOf, Apart
<1>4. CASE WithdrawImport(t)
  <2>1. Onward(t, {}) /\ perm' = Mig!Marked(PermsOf(task[t].rest), "denied")
    BY <1>4 DEF WithdrawImport, PermsOf
  <2> QED
    BY <1>1, <1>2, <1>3, <2>1, OnwardKeeps
<1>5. CASE WithdrawSibling(t) \/ WithdrawRead(t)
  <2>1. Onward(t, task[t].rest) /\ UNCHANGED perm
    BY <1>2, <1>5 DEF WithdrawSibling, WithdrawRead, TaskOK
  <2>2. perm' = Mig!Marked({}, "denied")
    BY <2>1 DEF Custody, StatesOK, Mig!Marked
  <2> QED
    BY <1>1, <1>2, <1>3, <2>1, <2>2, OnwardKeeps
<1> QED
  BY <1>4, <1>5

LEMMA RefuseKeeps == \A t \in Thread : Custody /\ Refuse(t) => Custody'
<1> SUFFICES ASSUME NEW t \in Thread, Custody, Refuse(t) PROVE Custody'
  OBVIOUS
<1>1. UNCHANGED <<ask, messages, queue, main, migRequests, sshRequests>>
  BY DEF Refuse, own, learning, migStore, sshStore
<1>2. task[t].pc = "refuse" /\ OwnedIn(task[t]) = task[t].perms
  BY AtTask DEF Refuse
<1>3. PermsOf({}) = {} /\ Apart({})
  BY DEF PermsOf, Apart
<1> QED
  BY <1>1, <1>2, <1>3, OnwardKeeps DEF Refuse

LEMMA TaskStepKeeps == \A t \in Thread : Custody /\ TaskStep(t) => Custody'
BY CheckKeeps, ApproveKeeps, ApproveImportKeeps, AnswerKeeps, WithdrawKeeps, RefuseKeeps DEF TaskStep

-----------------------------------------------------------------------------
(***************************************************************************)
(* Opens, and the main loop.                                               *)
(***************************************************************************)
LEMMA OpenKeeps ==
  ASSUME Custody, scenario \in Scenario, NEW p \in Perm, NEW a \in Opens, Open(p, a)
  PROVE  Custody'
<1>1. /\ ask[p] = None /\ UNCHANGED <<perm, main, task, migRequests, sshRequests>>
      /\ \/ messages' = Append(messages, p) /\ UNCHANGED queue
         \/ queue' = Append(queue, p) /\ UNCHANGED messages
  BY DEF Open, Receive, migStore, sshStore
<1>2. ask'[p] # None /\ DOMAIN ask' = Perm /\ \A q \in Perm : q # p => ask'[q] = ask[q]
  <2>1. a \in [inst : Proc, res : Resource, flags : SUBSET {"read", "write"}]
    BY EsAssumption DEF Opens
  <2>2. \E op \in {"open", "access"} :
          ask' = [ask EXCEPT ![p] = [inst |-> a.inst, res |-> a.res, op |-> op]]
    BY DEF Open
  <2> QED
    BY <2>1, <2>2, EsAssumption DEF Custody, StatesOK
<1>3. /\ perm[p] = "free" /\ p \notin Told \union Queued
      /\ p \notin MigPerms \union SshPerms /\ \A t \in Thread : p \notin OwnedIn(task[t])
  BY <1>1 DEF Custody, StatesOK
<1>4. /\ messages' \in Seq(Perm) /\ queue' \in Seq(Perm)
      /\ IsInjective(messages') /\ IsInjective(queue')
      /\ Told' \union Queued' = Told \union Queued \union {p} /\ Told' \cap Queued' = {}
  <2>1. CASE messages' = Append(messages, p) /\ UNCHANGED queue
    <3>1. messages' \in Seq(Perm) /\ IsInjective(messages') /\ Told' = Told \union {p}
      BY <1>3, <2>1, AppendRange, AppendOnce DEF Custody, Shapes, Told
    <3> QED
      BY <1>3, <2>1, <3>1 DEF Custody, Shapes, HandsApart, Queued
  <2>2. CASE queue' = Append(queue, p) /\ UNCHANGED messages
    <3>1. queue' \in Seq(Perm) /\ IsInjective(queue') /\ Queued' = Queued \union {p}
      BY <1>3, <2>2, AppendRange, AppendOnce DEF Custody, Shapes, Queued
    <3> QED
      BY <1>3, <2>2, <3>1 DEF Custody, Shapes, HandsApart, Told
  <2> QED
    BY <1>1, <2>1, <2>2
<1>5. Shapes' /\ HandsApart'
  BY <1>1, <1>4 DEF Custody, Shapes, HandsApart, MigPerms, SshPerms
<1>6. StatesOK'
  BY <1>1, <1>2, <1>3, <1>4 DEF Custody, StatesOK, MigPerms, SshPerms
<1> QED
  BY <1>5, <1>6 DEF Custody

\* The callback passes an open on.
LEMMA LearnOpenKeeps == Custody /\ LearnOpen => Custody'
<1> SUFFICES ASSUME Custody, LearnOpen PROVE Custody'
  OBVIOUS
<1> DEFINE p == Head(messages)
<1>1. /\ messages # <<>> /\ messages' = Tail(messages) /\ queue' = Append(queue, p)
      /\ UNCHANGED <<ask, perm, main, task, migRequests, sshRequests>>
  BY DEF LearnOpen, Receive, migStore, sshStore
<1>2. /\ p \in Perm /\ p \in Told /\ messages' \in Seq(Perm) /\ Told = {p} \union Told'
      /\ IsInjective(messages') /\ p \notin Told'
  BY <1>1, TailRange, TailOnce DEF Custody, Shapes, Told
<1> HIDE DEF p
<1>3. p \notin Queued
  BY <1>2 DEF Custody, HandsApart
<1>4. queue' \in Seq(Perm) /\ IsInjective(queue') /\ Queued' = Queued \union {p}
  BY <1>1, <1>2, <1>3, AppendRange, AppendOnce DEF Custody, Shapes, Queued
<1>5. Told' \union Queued' = Told \union Queued /\ Told' \cap Queued' = {}
  BY <1>2, <1>4 DEF Custody, HandsApart
<1> QED
  BY <1>1, <1>2, <1>4, <1>5 DEF Custody, Shapes, StatesOK, HandsApart, MigPerms, SshPerms

\* The open the main loop handles is the first of the queue, and in no other hand.
LEMMA AtEvent ==
  ASSUME Custody, Handling
  PROVE  /\ Event \in Perm /\ Event \in Queued /\ ask[Event] # None /\ perm[Event] = "free"
         /\ Event \notin Told /\ Event \notin MigPerms \union SshPerms
         /\ \A t \in Thread : Event \notin OwnedIn(task[t])
         /\ task[Main].pc = "idle" /\ OwnedIn(task[Main]) = {}
         /\ queue' = Tail(queue) =>
              queue' \in Seq(Perm) /\ IsInjective(queue') /\ Queued' = Queued \ {Event}
<1>1. queue # <<>> /\ queue \in Seq(Perm) /\ IsInjective(queue)
  BY DEF Handling, Custody, Shapes
<1>2. /\ Event \in Perm /\ Event \in Queued /\ Tail(queue) \in Seq(Perm)
      /\ IsInjective(Tail(queue)) /\ Range(Tail(queue)) = Queued \ {Event}
  BY <1>1, TailRange, TailOnce DEF Event, Queued
<1>3. ask[Event] # None /\ perm[Event] = "free" /\ Event \notin Told
  BY <1>2 DEF Custody, StatesOK, HandsApart
<1>4. Event \notin MigPerms \union SshPerms /\ \A t \in Thread : Event \notin OwnedIn(task[t])
  BY <1>2, <1>3 DEF Custody, StatesOK
<1>5. task[Main].pc = "idle" /\ OwnedIn(task[Main]) = {}
  BY IdleOK DEF Handling, Custody, Shapes, Thread
<1> QED
  BY <1>2, <1>3, <1>4, <1>5 DEF Queued

\* It answers it ...
LEMMA HandledKeeps ==
  ASSUME Custody, Handling, NEW v \in {"allowed", "denied"}, perm' = Mig!Marked({Event}, v),
         queue' = Tail(queue), main' = "maintainMigrations",
         UNCHANGED <<ask, messages, task, migRequests, sshRequests>>
  PROVE  Custody'
<1>1. /\ Event \in Perm /\ ask[Event] # None
      /\ Event \notin Told /\ Event \notin MigPerms \union SshPerms
      /\ \A t \in Thread : Event \notin OwnedIn(task[t])
      /\ task[Main].pc = "idle"
      /\ queue' \in Seq(Perm) /\ IsInjective(queue') /\ Queued' = Queued \ {Event}
  BY AtEvent
<1>2. /\ perm' \in [Perm -> Mig!PermState] /\ perm'[Event] = v
      /\ \A p \in Perm : p # Event => perm'[p] = perm[p]
  BY <1>1, MarkedOne DEF Custody, StatesOK
<1>3. Shapes' /\ HandsApart'
  BY <1>1 DEF Custody, Shapes, HandsApart, Told, MigPerms, SshPerms
<1>4. StatesOK'
  BY <1>1, <1>2 DEF Custody, StatesOK, Told, MigPerms, SshPerms
<1> QED
  BY <1>3, <1>4 DEF Custody

\* ... or a store has it ...
LEMMA HeldKeeps ==
  ASSUME Custody, Handling, perm' = Mig!Marked({Event}, "held"),
         queue' = Tail(queue), main' = "maintainMigrations",
         UNCHANGED <<ask, messages, task>>,
         \/ MigPerms' = MigPerms \union {Event} /\ UNCHANGED sshRequests
         \/ SshPerms' = SshPerms \union {Event} /\ UNCHANGED migRequests,
         Apart(migRequests'), Apart(sshRequests'),
         \A r \in migRequests' \union sshRequests' : DOMAIN r = RequestFields
  PROVE  Custody'
<1>1. /\ Event \in Perm /\ ask[Event] # None
      /\ Event \notin Told /\ Event \notin MigPerms \union SshPerms
      /\ \A t \in Thread : Event \notin OwnedIn(task[t])
      /\ task[Main].pc = "idle"
      /\ queue' \in Seq(Perm) /\ IsInjective(queue') /\ Queued' = Queued \ {Event}
  BY AtEvent
<1>2. /\ perm' \in [Perm -> Mig!PermState] /\ perm'[Event] = "held"
      /\ \A p \in Perm : p # Event => perm'[p] = perm[p]
  BY <1>1, MarkedOne DEF Custody, StatesOK
<1>3. /\ MigPerms' \union SshPerms' = MigPerms \union SshPerms \union {Event}
      /\ MigPerms' \cap SshPerms' = {}
  BY <1>1 DEF Custody, HandsApart, MigPerms, SshPerms
<1>4. Shapes' /\ HandsApart'
  BY <1>1, <1>3 DEF Custody, Shapes, HandsApart, Told
<1>5. StatesOK'
  BY <1>1, <1>2, <1>3 DEF Custody, StatesOK, Told
<1> QED
  BY <1>4, <1>5 DEF Custody

\* ... or it approves it itself, for a recent approval.
LEMMA RecentKeeps ==
  ASSUME Custody, Handling, perm' = Mig!Marked({Event}, "taken"),
         queue' = Tail(queue), main' = "recent",
         NEW d, task' = [task EXCEPT ![Main] = Approval("sibling", d, {Event}, {})],
         UNCHANGED <<ask, messages, migRequests, sshRequests>>
  PROVE  Custody'
<1>1. /\ Event \in Perm /\ ask[Event] # None
      /\ Event \notin Told /\ Event \notin MigPerms \union SshPerms
      /\ \A t \in Thread : Event \notin OwnedIn(task[t])
      /\ OwnedIn(task[Main]) = {}
      /\ queue' \in Seq(Perm) /\ IsInjective(queue') /\ Queued' = Queued \ {Event}
  BY AtEvent
<1>2. /\ perm' \in [Perm -> Mig!PermState] /\ perm'[Event] = "taken"
      /\ \A p \in Perm : p # Event => perm'[p] = perm[p]
  BY <1>1, MarkedOne DEF Custody, StatesOK
<1> DEFINE x == Approval("sibling", d, {Event}, {})
<1>3. /\ DOMAIN x = {"pc", "kind", "details", "perms", "rest"} /\ x.pc = "check"
      /\ x.kind = "sibling" /\ x.perms = {Event} /\ x.rest = {}
  BY DEF Approval
<1>4. task' = [task EXCEPT ![Main] = x]
  OBVIOUS
<1> HIDE DEF x
<1>5. TaskOK(x) /\ OwnedIn(x) = {Event}
  <2>1. PermsOf({}) = {} /\ Apart({})
    BY DEF PermsOf, Apart
  <2>2. PermsIn(x) = {Event} /\ RestIn(x) = {}
    BY <1>3 DEF PermsIn, RestIn
  <2> QED
    BY <1>3, <2>1, <2>2 DEF TaskOK, OwnedIn
<1>6. /\ Main \in Thread /\ DOMAIN task' = Thread /\ task'[Main] = x
      /\ \A t \in Thread : t # Main => task'[t] = task[t]
  BY <1>4 DEF Custody, Shapes, Thread
<1>7. Shapes'
  BY <1>1, <1>5, <1>6 DEF Custody, Shapes
<1>8. HandsApart'
  <2>1. \A t \in Thread : OwnedIn(task'[t]) = IF t = Main THEN {Event} ELSE OwnedIn(task[t])
    BY <1>5, <1>6
  <2>2. \A t \in Thread : OwnedIn(task'[t]) \subseteq OwnedIn(task[t]) \union {Event}
    BY <2>1
  <2>3. \A t \in Thread : OwnedIn(task'[t]) \subseteq Perm
    BY <1>1, <2>2 DEF Custody, HandsApart
  <2>4. ASSUME NEW t \in Thread, NEW u \in Thread, t # u
        PROVE  OwnedIn(task'[t]) \cap OwnedIn(task'[u]) = {}
    <3>1. OwnedIn(task[t]) \cap OwnedIn(task[u]) = {}
      BY <2>4 DEF Custody, HandsApart
    <3>2. Event \notin OwnedIn(task[t]) /\ Event \notin OwnedIn(task[u])
      BY <1>1
    <3>3. CASE t = Main
      <4>1. OwnedIn(task'[t]) = {Event} /\ OwnedIn(task'[u]) = OwnedIn(task[u])
        BY <2>1, <2>4, <3>3
      <4> QED
        BY <3>2, <4>1
    <3>4. CASE u = Main
      <4>1. OwnedIn(task'[u]) = {Event} /\ OwnedIn(task'[t]) = OwnedIn(task[t])
        BY <2>1, <2>4, <3>4
      <4> QED
        BY <3>2, <4>1
    <3>5. CASE t # Main /\ u # Main
      BY <2>1, <3>1, <3>5
    <3> QED
      BY <3>3, <3>4, <3>5
  <2> QED
    BY <1>1, <2>3, <2>4 DEF Custody, HandsApart, Told, MigPerms, SshPerms
<1>9. StatesOK'
  <2>1. \A p \in Perm : (\E t \in Thread : p \in OwnedIn(task'[t])) <=>
                          p = Event \/ \E t \in Thread : p \in OwnedIn(task[t])
    BY <1>1, <1>5, <1>6
  <2> QED
    BY <1>1, <1>2, <2>1 DEF Custody, StatesOK, Told, MigPerms, SshPerms
<1> QED
  BY <1>7, <1>8, <1>9 DEF Custody

\* What an open of a key is asked about; that it has its type is shown below.
ReadDetails == [target |-> Id.self, res |-> Res, file |-> shown[Event].file]

LEMMA HandleMigrationKeeps == Custody /\ HandleMigration => Custody'
<1> SUFFICES ASSUME Custody, HandleMigration PROVE Custody'
  OBVIOUS
<1>1. PICK d : /\ Handling /\ Mig!Enqueue(Event, d) /\ queue' = Tail(queue)
               /\ UNCHANGED <<ask, messages, sshRequests>>
               /\ IF perm'[Event] = "taken"
                  THEN /\ task' = [task EXCEPT ![Main] = Approval("sibling", d, {Event}, {})]
                       /\ main' = "recent"
                  ELSE main' = "maintainMigrations" /\ UNCHANGED task
  BY DEF HandleMigration, ToJudge, outside, events, sshStore
<1>2. Event \in Perm /\ Event \notin MigPerms
  BY <1>1, AtEvent
<1>3. CASE UNCHANGED migRequests /\ perm' = Mig!Marked({Event}, "denied")
  <2>1. perm'[Event] = "denied"
    BY <1>2, <1>3, MarkedOne DEF Custody, StatesOK
  <2> QED
    BY <1>1, <1>3, <2>1, HandledKeeps
<1>4. CASE UNCHANGED migRequests /\ perm' = Mig!Marked({Event}, "taken")
  <2>1. perm'[Event] = "taken"
    BY <1>2, <1>4, MarkedOne DEF Custody, StatesOK
  <2> QED
    BY <1>1, <1>4, <2>1, RecentKeeps
<1>5. CASE /\ perm' = Mig!Marked({Event}, "held")
           /\ MigPerms' = MigPerms \union {Event} /\ Apart(migRequests')
           /\ \A r \in migRequests' : DOMAIN r = RequestFields
  <2>1. perm'[Event] = "held"
    BY <1>2, <1>5, MarkedOne DEF Custody, StatesOK
  <2>2. Apart(sshRequests') /\ \A r \in sshRequests' : DOMAIN r = RequestFields
    BY <1>1 DEF Custody, Shapes, HandsApart
  <2> QED
    BY <1>1, <1>5, <2>1, <2>2, HeldKeeps
<1>6. \/ UNCHANGED migRequests /\ \E s \in {"denied", "taken"} : perm' = Mig!Marked({Event}, s)
      \/ /\ perm' = Mig!Marked({Event}, "held")
         /\ MigPerms' = MigPerms \union {Event} /\ Apart(migRequests')
         /\ \A r \in migRequests' : DOMAIN r = RequestFields
  BY <1>1, <1>2, MigEnqueues
<1> QED
  BY <1>3, <1>4, <1>5, <1>6

LEMMA HandleReadKeeps == Custody /\ HandleRead /\ ReadDetails \in SshDetailsSet => Custody'
<1> SUFFICES ASSUME Custody, HandleRead, ReadDetails \in SshDetailsSet PROVE Custody'
  OBVIOUS
<1>1. /\ Handling /\ Ssh!Enqueue(Event, ReadDetails) /\ queue' = Tail(queue)
      /\ main' = "maintainMigrations"
      /\ UNCHANGED <<ask, messages, task, migRequests>>
  BY DEF HandleRead, ReadDetails, ToJudge, outside, events, migStore
<1>2. Event \in Perm /\ Event \notin SshPerms
  BY <1>1, AtEvent
<1>3. Apart(migRequests') /\ \A r \in migRequests' : DOMAIN r = RequestFields
  BY <1>1 DEF Custody, Shapes, HandsApart
<1>4. \/ UNCHANGED sshRequests /\ perm' = Mig!Marked({Event}, "denied")
      \/ /\ perm' = Mig!Marked({Event}, "held")
         /\ SshPerms' = SshPerms \union {Event} /\ Apart(sshRequests')
         /\ \A r \in sshRequests' : DOMAIN r = RequestFields
  BY <1>1, <1>2, SshEnqueues
<1> QED
  BY <1>1, <1>3, <1>4, HandledKeeps, HeldKeeps

\* Requests leave a store, denied.
LEMMA DropKeeps ==
  ASSUME Custody, UNCHANGED <<ask, messages, queue, task>>,
         NEW R, R \subseteq migRequests, migRequests' = migRequests \ R,
         NEW Q, Q \subseteq sshRequests, sshRequests' = sshRequests \ Q,
         perm' = Mig!Marked(PermsOf(R) \union PermsOf(Q), "denied"),
         main' \in Mains, main' # "recent" => task[Main].pc = "idle"
  PROVE  Custody'
<1>1. /\ MigPerms' = MigPerms \ PermsOf(R) /\ PermsOf(R) \subseteq MigPerms /\ Apart(migRequests')
      /\ SshPerms' = SshPerms \ PermsOf(Q) /\ PermsOf(Q) \subseteq SshPerms /\ Apart(sshRequests')
  BY RemoveApart DEF MigPerms, SshPerms, Custody, HandsApart
<1> DEFINE P == PermsOf(R) \union PermsOf(Q)
<1>2. perm' = Mig!Marked(P, "denied")
  OBVIOUS
<1>3. MigPerms' \union SshPerms' = (MigPerms \union SshPerms) \ P /\ P \subseteq MigPerms \union SshPerms
  BY <1>1 DEF Custody, HandsApart
<1> HIDE DEF P
<1>4. /\ perm' \in [Perm -> Mig!PermState]
      /\ \A p \in Perm : p \in P => perm'[p] = "denied"
      /\ \A p \in Perm : p \notin P => perm'[p] = perm[p]
  BY <1>2, MarkedPerm DEF Custody, StatesOK, Mig!PermState
<1>5. \A p \in P : p \in Perm /\ perm[p] = "held"
  BY <1>3 DEF Custody, StatesOK, HandsApart
<1>6. Shapes' /\ HandsApart'
  BY <1>1 DEF Custody, Shapes, HandsApart, Told, Queued, Mains
<1>7. StatesOK'
  <2>1. Told' = Told /\ Queued' = Queued
    BY DEF Told, Queued
  <2>2. ASSUME NEW p \in Perm
        PROVE  /\ ask'[p] = None => perm'[p] = "free"
               /\ perm'[p] = "free" /\ ask'[p] # None <=> p \in Told' \union Queued'
               /\ perm'[p] = "held" <=> p \in MigPerms' \union SshPerms'
               /\ perm'[p] = "taken" <=> \E u \in Thread : p \in OwnedIn(task'[u])
    <3>1. CASE p \in P
      <4>1. /\ ask[p] # None /\ p \notin Told \union Queued
            /\ ~ \E u \in Thread : p \in OwnedIn(task[u])
        BY <1>5, <3>1 DEF Custody, StatesOK
      <4> QED
        BY <1>4, <1>3, <2>1, <3>1, <4>1
    <3>2. CASE p \notin P
      BY <1>4, <1>3, <2>1, <3>2 DEF Custody, StatesOK
    <3> QED
      BY <3>1, <3>2
  <2> QED
    BY <1>4, <2>2 DEF Custody, StatesOK
<1> QED
  BY <1>6, <1>7 DEF Custody

\* A thread takes a request from a store.
LEMMA TakeKeeps ==
  ASSUME Custody, NEW x \in Xpc, task[x] = Idle, UNCHANGED <<ask, messages, queue, main>>,
         NEW r, NEW y, task' = [task EXCEPT ![x] = y], TaskOK(y), OwnedIn(y) = r.perms,
         perm' = Mig!Marked(r.perms, "taken"),
         \/ r \in migRequests /\ migRequests' = migRequests \ {r} /\ UNCHANGED sshRequests
         \/ r \in sshRequests /\ sshRequests' = sshRequests \ {r} /\ UNCHANGED migRequests
  PROVE  Custody'
<1>1. /\ MigPerms' \union SshPerms' = (MigPerms \union SshPerms) \ r.perms
      /\ MigPerms' \cap SshPerms' = {} /\ r.perms \subseteq MigPerms \union SshPerms
      /\ Apart(migRequests') /\ Apart(sshRequests')
  <2>1. CASE r \in migRequests /\ migRequests' = migRequests \ {r} /\ UNCHANGED sshRequests
    <3>1. MigPerms' = MigPerms \ r.perms /\ r.perms \subseteq MigPerms /\ Apart(migRequests')
      BY <2>1, RemoveOne DEF MigPerms, Custody, HandsApart
    <3> QED
      BY <2>1, <3>1 DEF Custody, HandsApart, SshPerms
  <2>2. CASE r \in sshRequests /\ sshRequests' = sshRequests \ {r} /\ UNCHANGED migRequests
    <3>1. SshPerms' = SshPerms \ r.perms /\ r.perms \subseteq SshPerms /\ Apart(sshRequests')
      BY <2>2, RemoveOne DEF SshPerms, Custody, HandsApart
    <3> QED
      BY <2>2, <3>1 DEF Custody, HandsApart, MigPerms
  <2> QED
    BY <2>1, <2>2
<1>2. \A p \in r.perms : p \in Perm /\ perm[p] = "held" /\ \A u \in Thread : p \notin OwnedIn(task[u])
  BY <1>1 DEF Custody, StatesOK, HandsApart
<1>3. /\ perm' \in [Perm -> Mig!PermState]
      /\ \A p \in Perm : p \in r.perms => perm'[p] = "taken"
      /\ \A p \in Perm : p \notin r.perms => perm'[p] = perm[p]
  BY MarkedPerm DEF Custody, StatesOK, Mig!PermState
<1>4. /\ x \in Thread /\ x # Main /\ DOMAIN task' = Thread /\ task'[x] = y /\ OwnedIn(task[x]) = {}
      /\ \A u \in Thread : u # x => task'[u] = task[u]
  BY EsAssumption, IdleOK DEF Custody, Shapes, Thread
<1>5. Shapes'
  BY <1>4 DEF Custody, Shapes, Thread
<1>6. \A u \in Thread : OwnedIn(task'[u]) = IF u = x THEN r.perms ELSE OwnedIn(task[u])
  BY <1>4
<1>7. HandsApart'
  <2>1. \A u \in Thread : OwnedIn(task'[u]) \subseteq Perm
    BY <1>2, <1>6 DEF Custody, HandsApart
  <2>2. ASSUME NEW t \in Thread, NEW u \in Thread, t # u
        PROVE  OwnedIn(task'[t]) \cap OwnedIn(task'[u]) = {}
    <3>1. OwnedIn(task[t]) \cap OwnedIn(task[u]) = {}
      BY <2>2 DEF Custody, HandsApart
    <3>2. r.perms \cap OwnedIn(task[t]) = {} /\ r.perms \cap OwnedIn(task[u]) = {}
      BY <1>2
    <3> QED
      BY <1>6, <2>2, <3>1, <3>2
  <2> QED
    BY <1>1, <2>1, <2>2 DEF Custody, HandsApart, Told, Queued
<1>8. StatesOK'
  <2>1. Told' = Told /\ Queued' = Queued
    BY DEF Told, Queued
  <2>2. \A p \in Perm : (\E u \in Thread : p \in OwnedIn(task'[u])) <=>
                          p \in r.perms \/ \E u \in Thread : p \in OwnedIn(task[u])
    BY <1>4, <1>6
  <2>3. ASSUME NEW p \in Perm
        PROVE  /\ ask'[p] = None => perm'[p] = "free"
               /\ perm'[p] = "free" /\ ask'[p] # None <=> p \in Told' \union Queued'
               /\ perm'[p] = "held" <=> p \in MigPerms' \union SshPerms'
               /\ perm'[p] = "taken" <=> \E u \in Thread : p \in OwnedIn(task'[u])
    <3>1. CASE p \in r.perms
      <4>1. ask[p] # None /\ p \notin Told \union Queued
        BY <1>2, <3>1 DEF Custody, StatesOK
      <4> QED
        BY <1>1, <1>3, <2>1, <2>2, <3>1, <4>1
    <3>2. CASE p \notin r.perms
      BY <1>1, <1>3, <2>1, <2>2, <3>2 DEF Custody, StatesOK
    <3> QED
      BY <3>1, <3>2
  <2> QED
    BY <1>3, <2>3 DEF Custody, StatesOK
<1> QED
  BY <1>5, <1>7, <1>8 DEF Custody

LEMMA MaintainKeeps == Custody /\ (MaintainMigrations \/ MaintainReads) => Custody'
<1> SUFFICES ASSUME Custody, MaintainMigrations \/ MaintainReads PROVE Custody'
  OBVIOUS
<1>1. PermsOf({}) = {}
  BY DEF PermsOf
<1>2. CASE MaintainMigrations
  <2> DEFINE R == {r \in migRequests : \/ MigKeyOf[r.details] \notin {k \in MigKey : KnownLive(k.root)}
                                       \/ now >= r.expires}
  <2>1. /\ migRequests' = migRequests \ R /\ perm' = Mig!Marked(PermsOf(R), "denied")
        /\ UNCHANGED <<ask, messages, queue, task, sshRequests>> /\ main' = "maintainReads"
    BY <1>2 DEF MaintainMigrations, Mig!Expire, Mig!Remove, PermsOf, outside, learning, sshStore
  <2>2. R \subseteq migRequests
    OBVIOUS
  <2> HIDE DEF R
  <2>3. PermsOf(R) \union PermsOf({}) = PermsOf(R) /\ sshRequests' = sshRequests \ {}
    BY <1>1, <2>1
  <2>4. task[Main].pc = "idle"
    BY <1>2 DEF MaintainMigrations, Custody, Shapes, Idle
  <2> QED
    BY <2>1, <2>2, <2>3, <2>4, DropKeeps DEF Mains
<1>3. CASE MaintainReads
  <2> DEFINE Q == {r \in sshRequests : \/ SshKeyOf[r.details] \notin {k \in SshKey : KnownLive(k.root)}
                                       \/ now >= r.expires}
  <2>1. /\ sshRequests' = sshRequests \ Q /\ perm' = Mig!Marked(PermsOf(Q), "denied")
        /\ UNCHANGED <<ask, messages, queue, task, migRequests>> /\ main' = "receive"
        /\ main = "maintainReads"
    BY <1>3 DEF MaintainReads, Ssh!Expire, Ssh!Remove, Ssh!Marked, Mig!Marked, PermsOf, outside,
       learning, migStore
  <2>2. Q \subseteq sshRequests
    OBVIOUS
  <2> HIDE DEF Q
  <2>3. PermsOf({}) \union PermsOf(Q) = PermsOf(Q) /\ migRequests' = migRequests \ {}
    BY <1>1, <2>1
  <2>4. task[Main].pc = "idle"
    BY <2>1 DEF Custody, Shapes
  <2> QED
    BY <2>1, <2>2, <2>3, <2>4, DropKeeps DEF Mains
<1> QED
  BY <1>2, <1>3

\* What an answered prompt becomes has its permissions.
LEMMA ResolutionOK ==
  ASSUME NEW x, NEW kind \in {"import", "read"}, NEW r, NEW block, Resolution(x, kind, r, block)
  PROVE  \E y : task' = [task EXCEPT ![x] = y] /\ TaskOK(y) /\ OwnedIn(y) = r.perms
<1>1. PermsOf({}) = {} /\ Apart({})
  BY DEF PermsOf, Apart
<1>2. CASE block
  <2> DEFINE y == [pc |-> "refuse", perms |-> r.perms]
  <2>1. task' = [task EXCEPT ![x] = y]
    BY <1>2 DEF Resolution
  <2>2. DOMAIN y = {"pc", "perms"} /\ y.pc = "refuse" /\ y.perms = r.perms
    OBVIOUS
  <2> HIDE DEF y
  <2>3. PermsIn(y) = r.perms /\ RestIn(y) = {}
    BY <2>2 DEF PermsIn, RestIn
  <2>4. TaskOK(y) /\ OwnedIn(y) = r.perms
    BY <1>1, <2>2, <2>3 DEF TaskOK, OwnedIn
  <2> QED
    BY <2>1, <2>4
<1>3. CASE ~block
  <2> DEFINE y == Approval(kind, r.details, r.perms, {})
  <2>1. task' = [task EXCEPT ![x] = y]
    BY <1>3 DEF Resolution
  <2>2. /\ DOMAIN y = {"pc", "kind", "details", "perms", "rest"} /\ y.pc = "check"
        /\ y.kind = kind /\ y.perms = r.perms /\ y.rest = {}
    BY DEF Approval
  <2> HIDE DEF y
  <2>3. PermsIn(y) = r.perms /\ RestIn(y) = {}
    BY <2>2 DEF PermsIn, RestIn
  <2>4. TaskOK(y) /\ OwnedIn(y) = r.perms
    BY <1>1, <2>2, <2>3 DEF TaskOK, OwnedIn
  <2> QED
    BY <2>1, <2>4
<1> QED
  BY <1>2, <1>3

LEMMA XpcKeeps == \A x \in Xpc : Custody /\ XpcRequest(x) => Custody'
<1> SUFFICES ASSUME NEW x \in Xpc, Custody, XpcRequest(x) PROVE Custody'
  OBVIOUS
<1>1. \A r : PermsOf({r}) = r.perms /\ UNION {q.perms : q \in {r}} = r.perms
  BY DEF PermsOf
<1>2. main \in Mains /\ (main # "recent" => task[Main].pc = "idle") /\ PermsOf({}) = {}
  BY DEF Custody, Shapes, Mains, PermsOf
<1>3. ASSUME NEW r \in migRequests, NEW u, NEW block, XpcResolveMigration(x, r, u, block)
      PROVE  Custody'
  <2>1. UNCHANGED <<ask, messages, queue, main, sshRequests>> /\ task[x] = Idle
    BY <1>3 DEF XpcResolveMigration, Free, outside, learning, sshStore
  <2>2. CASE Mig!TakeTimedOut(r, u) /\ UNCHANGED task
    <3>1. /\ {r} \subseteq migRequests /\ migRequests' = migRequests \ {r}
          /\ {} \subseteq sshRequests /\ sshRequests' = sshRequests \ {}
          /\ perm' = Mig!Marked(PermsOf({r}) \union PermsOf({}), "denied")
      BY <1>1, <1>2, <2>1, <2>2 DEF Mig!TakeTimedOut, Mig!Remove
    <3> QED
      BY <1>2, <2>1, <2>2, <3>1, DropKeeps
  <2>3. CASE Mig!TakeReady(r, u, block) /\ Resolution(x, "import", r, block)
    <3>1. migRequests' = migRequests \ {r} /\ perm' = Mig!Marked(r.perms, "taken")
      BY <1>1, <2>3 DEF Mig!TakeReady, Mig!Remove
    <3>2. PICK y : task' = [task EXCEPT ![x] = y] /\ TaskOK(y) /\ OwnedIn(y) = r.perms
      BY <2>3, ResolutionOK
    <3> QED
      BY <2>1, <3>1, <3>2, TakeKeeps
  <2> QED
    BY <1>3, <2>2, <2>3 DEF XpcResolveMigration
<1>4. ASSUME NEW r \in sshRequests, NEW u, NEW block, XpcResolveRead(x, r, u, block)
      PROVE  Custody'
  <2>1. UNCHANGED <<ask, messages, queue, main, migRequests>> /\ task[x] = Idle
    BY <1>4 DEF XpcResolveRead, Free, outside, learning, migStore
  <2>2. CASE Ssh!TakeTimedOut(r, u) /\ UNCHANGED task
    <3>1. /\ {r} \subseteq sshRequests /\ sshRequests' = sshRequests \ {r}
          /\ {} \subseteq migRequests /\ migRequests' = migRequests \ {}
          /\ perm' = Mig!Marked(PermsOf({}) \union PermsOf({r}), "denied")
      BY <1>1, <1>2, <2>1, <2>2 DEF Ssh!TakeTimedOut, Ssh!Remove, Ssh!Marked, Mig!Marked
    <3> QED
      BY <1>2, <2>1, <2>2, <3>1, DropKeeps
  <2>3. CASE Ssh!TakeReady(r, u, block) /\ Resolution(x, "read", r, block)
    <3>1. sshRequests' = sshRequests \ {r} /\ perm' = Mig!Marked(r.perms, "taken")
      BY <1>1, <2>3 DEF Ssh!TakeReady, Ssh!Remove, Ssh!Marked, Mig!Marked
    <3>2. PICK y : task' = [task EXCEPT ![x] = y] /\ TaskOK(y) /\ OwnedIn(y) = r.perms
      BY <2>3, ResolutionOK
    <3> QED
      BY <2>1, <3>1, <3>2, TakeKeeps
  <2> QED
    BY <1>4, <2>2, <2>3 DEF XpcResolveRead
<1>5. CASE (\E u \in Clients : XpcRevoke(x, u)) \/ \E secs \in 0..MaxDisabled : XpcDisableSuppression(x, secs)
  BY <1>5, WorldKeeps DEF XpcRevoke, XpcDisableSuppression, outside, learning, migStore, sshStore
<1> QED
  BY <1>3, <1>4, <1>5 DEF XpcRequest

LEMMA MainKeeps == Custody /\ MainStep /\ (HandleRead => ReadDetails \in SshDetailsSet) => Custody'
<1> SUFFICES ASSUME Custody, MainStep, HandleRead => ReadDetails \in SshDetailsSet PROVE Custody'
  OBVIOUS
<1>1. CASE HandleUnknown \/ HandleWriteOfKey \/ HandleTool \/ HandleDecided \/ HandleUnasked
  <2>1. Handling /\ \E v \in {"allowed", "denied"}, how \in {"exact", "readOnly"} : Handled(v, how)
    BY <1>1 DEF HandleUnknown, HandleWriteOfKey, HandleTool, HandleDecided, HandleUnasked, ToJudge
  <2> QED
    BY <2>1, HandledKeeps DEF Handled, outside, events, migStore, sshStore
<1>2. CASE ReceiveNothing
  <2>1. UNCHANGED <<ask, perm, messages, queue, task, migRequests, sshRequests>>
    BY <1>2 DEF ReceiveNothing, outside, learning, migStore, sshStore
  <2>2. main' \in Mains /\ task[Main].pc = "idle"
    BY <1>2 DEF ReceiveNothing, Mains, Custody, Shapes
  <2> QED
    BY <2>1, <2>2, StillKeeps
<1> QED
  BY <1>1, <1>2, HandleMigrationKeeps, HandleReadKeeps, MaintainKeeps DEF MainStep

LEMMA NextKeepsCustody ==
  ASSUME Custody, [Next]_vars, scenario \in Scenario, HandleRead => ReadDetails \in SshDetailsSet
  PROVE  Custody'
<1>1. CASE Environment
  <2>1. CASE \E p \in Perm, a \in Opens : Open(p, a)
    BY <2>1, OpenKeeps
  <2>2. CASE LearnOpen
    BY <2>2, LearnOpenKeeps
  <2>3. CASE /\ ~LearnOpen
             /\ ~ \E p \in Perm, a \in Opens : Open(p, a)
    <3>1. UNCHANGED <<ask, perm, messages, queue, main, task, migRequests, sshRequests>>
      BY <1>1, <2>3 DEF Environment, Spawn, Exit, Exec, Tell, EnrolTool, ReplaceFile, LearnNews, TimesOut,
         service, learning, migStore, sshStore
    <3> QED
      BY <3>1, WorldKeeps
  <2> QED
    BY <2>1, <2>2, <2>3
<1>2. CASE Tick
  BY <1>2, WorldKeeps DEF Tick, learning, migStore, sshStore
<1>3. CASE MainStep
  BY <1>3, MainKeeps
<1>4. CASE \E t \in Thread : TaskStep(t)
  BY <1>4, TaskStepKeeps
<1>5. CASE \E x \in Serving : XpcRequest(x)
  BY <1>5, XpcKeeps, EsAssumption DEF Serving
<1>6. CASE UNCHANGED vars
  BY <1>6, WorldKeeps DEF vars, learning, migStore, sshStore
<1> QED
  BY <1>1, <1>2, <1>3, <1>4, <1>5, <1>6 DEF Next, Thread

\* What custody says of the hands of a permission.
LEMMA CustodyOneHand == Custody => OneHand
<1> SUFFICES ASSUME Custody, NEW p \in Perm
             PROVE  Cardinality(Hands(p)) + Cardinality(TaskHands(p)) + Cardinality(SiblingHands(p)) =
                      IF ask[p] # None /\ perm[p] \notin {"allowed", "denied"} THEN 1 ELSE 0
  BY DEF OneHand
<1>1. Hands(p) = {h \in {"messages", "queue", "migrations", "reads"} :
                    \/ h = "messages" /\ p \in Told
                    \/ h = "queue" /\ p \in Queued
                    \/ h = "migrations" /\ p \in MigPerms
                    \/ h = "reads" /\ p \in SshPerms}
  <2>1. \A R : HeldBy(R, p) <=> p \in PermsOf(R)
    BY DEF HeldBy, PermsOf
  <2>2. (In(messages, p) <=> p \in Told) /\ (In(queue, p) <=> p \in Queued)
    BY DEF In, Told, Queued, Range
  <2> QED
    BY <2>1, <2>2 DEF Hands, MigPerms, SshPerms
<1>2. /\ TaskHands(p) = {t \in Thread : p \in PermsIn(task[t])}
      /\ SiblingHands(p) = {t \in Thread : p \in PermsOf(RestIn(task[t]))}
  <2>1. DOMAIN task = Thread
    BY DEF Custody, Shapes
  <2>2. \A x : p \in PermsIn(x) <=> "perms" \in DOMAIN x /\ p \in x.perms
    BY DEF PermsIn
  <2>3. \A x : p \in PermsOf(RestIn(x)) <=> "rest" \in DOMAIN x /\ HeldBy(x.rest, p)
    BY DEF PermsOf, RestIn, HeldBy
  <2> QED
    BY <2>1, <2>2, <2>3 DEF TaskHands, SiblingHands
<1>3. perm[p] \in {"free", "held", "taken", "allowed", "denied"}
  BY DEF Custody, StatesOK, Mig!PermState
<1>4. \A h : Cardinality({h}) = 1 /\ Cardinality({}) = 0
  BY FS_Singleton, FS_EmptySet
<1>5. CASE perm[p] = "taken"
  <2>1. PICK t \in Thread : p \in OwnedIn(task[t])
    BY <1>5 DEF Custody, StatesOK
  <2>2. \A u \in Thread : u # t => p \notin OwnedIn(task[u])
    BY <2>1 DEF Custody, HandsApart
  <2>3. PermsIn(task[t]) \cap PermsOf(RestIn(task[t])) = {}
    BY DEF Custody, Shapes, TaskOK
  <2>4. \/ TaskHands(p) = {t} /\ SiblingHands(p) = {}
        \/ TaskHands(p) = {} /\ SiblingHands(p) = {t}
    BY <1>2, <2>1, <2>2, <2>3 DEF OwnedIn
  <2>5. ask[p] # None /\ Hands(p) = {}
    BY <1>1, <1>5 DEF Custody, StatesOK
  <2>6. /\ Cardinality(Hands(p)) = 0
        /\ \/ Cardinality(TaskHands(p)) = 1 /\ Cardinality(SiblingHands(p)) = 0
           \/ Cardinality(TaskHands(p)) = 0 /\ Cardinality(SiblingHands(p)) = 1
    BY <1>4, <2>4, <2>5
  <2> QED
    BY <1>5, <2>5, <2>6
<1>6. CASE perm[p] # "taken"
  <2>1. \A t \in Thread : p \notin OwnedIn(task[t])
    BY <1>6 DEF Custody, StatesOK
  <2>2. TaskHands(p) = {} /\ SiblingHands(p) = {}
    BY <1>2, <2>1 DEF OwnedIn
  <2>3. CASE ask[p] = None \/ perm[p] \in {"allowed", "denied"}
    <3>1. Hands(p) = {}
      BY <1>1, <2>3 DEF Custody, StatesOK
    <3> QED
      BY <1>4, <2>2, <2>3, <3>1
  <2>4. CASE ask[p] # None /\ perm[p] = "free"
    <3>1. /\ p \in Told \/ p \in Queued
          /\ ~(p \in Told /\ p \in Queued) /\ p \notin MigPerms /\ p \notin SshPerms
      BY <2>4 DEF Custody, StatesOK, HandsApart
    <3>2. Hands(p) = {"messages"} \/ Hands(p) = {"queue"}
      BY <1>1, <3>1
    <3>3. /\ Cardinality(Hands(p)) = 1
          /\ Cardinality(TaskHands(p)) = 0 /\ Cardinality(SiblingHands(p)) = 0
      BY <1>4, <2>2, <3>2
    <3> QED
      BY <2>4, <3>3
  <2>5. CASE ask[p] # None /\ perm[p] = "held"
    <3>1. /\ p \in MigPerms \/ p \in SshPerms
          /\ ~(p \in MigPerms /\ p \in SshPerms) /\ p \notin Told /\ p \notin Queued
      BY <2>5 DEF Custody, StatesOK, HandsApart
    <3>2. Hands(p) = {"migrations"} \/ Hands(p) = {"reads"}
      BY <1>1, <3>1
    <3>3. /\ Cardinality(Hands(p)) = 1
          /\ Cardinality(TaskHands(p)) = 0 /\ Cardinality(SiblingHands(p)) = 0
      BY <1>4, <2>2, <3>2
    <3> QED
      BY <2>5, <3>3
  <2> QED
    BY <1>3, <1>6, <2>3, <2>4, <2>5
<1> QED
  BY <1>5, <1>6

-----------------------------------------------------------------------------
(***************************************************************************)
(* What the service knows, and what it works at.                           *)
(***************************************************************************)
Access == [inst : Proc, res : Resource, op : {"open", "access"}]

Flag == {"read", "write"}

Facts == [exe : Exe, parent : Stable \union {None}, flags : SUBSET Flag, file : 0..MaxFiles]

\* If i has a parent, it is a process that started it.
Descends(i, parent) ==
  parent # None => parent \in Stable /\ Lineage[i] # <<>> /\ parent.inst = Lineage[i][1]

Notice ==
  {n \in [kind : {"fork"}, self : Stable, parent : Stable \union {None}, above : Stable \union {None}] :
     Descends(n.self.inst, n.parent) /\ (n.parent # None => Descends(n.parent.inst, n.above))}
  \union {n \in [kind : {"exec"}, self : Stable, parent : Stable \union {None}] :
            Descends(n.self.inst, n.parent)}
  \union [kind : {"exit"}, self : Stable]

World ==
  /\ now \in 0..MaxNow /\ scenario \in Scenario /\ file \in 0..MaxFiles
  /\ life \in [Proc -> {"unborn", "live", "gone"}] /\ exe \in [Proc -> Exe]
  /\ ran \in [Proc -> SUBSET Exe] /\ \A i \in Proc : exe[i] \in ran[i]
  /\ \A i, j \in Live : PidOf[i] = PidOf[j] => i = j

\* An open is known as it was made.
OpensOK ==
  /\ ask \in [Perm -> Access \union {None}] /\ DOMAIN shown = Perm
  /\ \A p \in Perm : ask[p] # None =>
       /\ life[ask[p].inst] # "unborn"
       /\ shown[p] \in Facts /\ shown[p].exe \in ran[ask[p].inst]
       /\ Descends(ask[p].inst, shown[p].parent)
       /\ KindOf[ask[p].res] = "ssh" /\ "read" \notin shown[p].flags => ask[p].op = "open"

\* An instance that was born, and an executable it has run.
Was(s) == s \in Stable /\ life[s.inst] # "unborn" /\ s.exe \in ran[s.inst]

\* Whoever has a pid had it; and has it, if the service learns of everything at once.
\* Parents are those of the kernel.
Knows(g) ==
  /\ DOMAIN g.current = Pid
  /\ \A pid \in Pid : g.current[pid] # None =>
       /\ Was(g.current[pid]) /\ PidOf[g.current[pid].inst] = pid
       /\ MaxLag = 0 => Running(g.current[pid])
  /\ \A s \in DOMAIN g.parent : s \in Stable /\ Descends(s.inst, g.parent[s])

NoticeOK(n) == Was(n.self) /\ (n.kind = "fork" /\ n.parent # None => Was(n.parent))

GraphOK ==
  /\ Knows(graph)
  /\ news \in Seq(Notice) /\ \A n \in Range(news) : NoticeOK(n)
  /\ MaxLag = 0 => news = <<>> /\ messages = <<>>

Knowledge == World /\ OpensOK /\ GraphOK

\* An open of i may have been judged as one of j.
TakenFor(i, j) == i = j \/ (i \in Mistakable /\ PidOf[i] = PidOf[j])

\* An open that waits for an import, or for a read, is one the details are about.
ForMig(p, d) ==
  /\ ask[p] # None /\ KindOf[ask[p].res] = "browser" /\ ProfileOf[ask[p].res] = d.profile
  /\ "read" \in shown[p].flags /\ TakenFor(ask[p].inst, d.root.inst)

ForRead(p, d) ==
  /\ ask[p] # None /\ KindOf[ask[p].res] = "ssh" /\ ask[p].res = d.res
  /\ "read" \in shown[p].flags /\ TakenFor(ask[p].inst, d.target.inst)
  /\ d.file = shown[p].file

MigRequestOK(r) == r.details \in MigDetails /\ r.perms # {} /\ \A p \in r.perms : ForMig(p, r.details)
SshRequestOK(r) == r.details \in SshDetailsSet /\ r.perms # {} /\ \A p \in r.perms : ForRead(p, r.details)

RequestsOK == (\A r \in migRequests : MigRequestOK(r)) /\ (\A r \in sshRequests : SshRequestOK(r))

Approving == {"check", "approve", "answer", "withdraw"}

\* What an approval is about, and the lease it has made.
MigTaskOK(x) ==
  x.pc \in Approving /\ x.kind # "read" =>
    /\ x.details \in MigDetails /\ \A p \in x.perms : ForMig(p, x.details)
    /\ \A r \in x.rest : MigRequestOK(r)
    /\ x.pc \in {"answer", "withdraw"} =>
         /\ x.lease \in DOMAIN migration
         /\ migration[x.lease].root = x.details.root /\ migration[x.lease].profile = x.details.profile

SshTaskOK(x) ==
  x.pc \in Approving /\ x.kind = "read" =>
    /\ x.details \in SshDetailsSet /\ \A p \in x.perms : ForRead(p, x.details)
    /\ x.pc \in {"answer", "withdraw"} =>
         /\ x.lease \in DOMAIN sshRead
         /\ sshRead[x.lease].root = x.details.target /\ sshRead[x.lease].res = x.details.res

\* What a task is at is consistent.
Fine(x) ==
  MigTaskOK(x) /\ SshTaskOK(x) /\ (x.pc \in {"check", "approve", "answer"} => x.perms # {})

TasksOK == \A t \in Thread : Fine(task[t])

Leases == migration \in Seq(MigrationLease) /\ sshRead \in Seq(SshReadLease)

Work == Leases /\ RequestsOK /\ TasksOK

RepliesOK ==
  /\ reply \in [Perm -> (SUBSET Flag) \union {None}]
  /\ \A p \in Perm : reply[p] # None => ask[p] # None

-----------------------------------------------------------------------------
(***************************************************************************)
(* What is known stays true.                                               *)
(***************************************************************************)
\* The variables knowledge is about; most steps leave them alone.
known == <<procs, file, ask, shown, ran, graph, news, messages>>

LEMMA InitKnowledge == Init => Knowledge
<1> SUFFICES ASSUME Init PROVE Knowledge
  OBVIOUS
<1>1. now \in 0..MaxNow /\ file \in 0..MaxFiles
  BY EsAssumption DEF Init
<1>2. /\ scenario \in Scenario /\ exe = BirthExe /\ ran = [i \in Proc |-> {BirthExe[i]}]
      /\ life = [i \in Proc |-> IF i \in scenario.initial THEN "live" ELSE "unborn"]
  BY DEF Init, InitProcs
<1>3. World
  <2>1. /\ life \in [Proc -> {"unborn", "live", "gone"}] /\ exe \in [Proc -> Exe]
        /\ ran \in [Proc -> SUBSET Exe] /\ \A i \in Proc : exe[i] \in ran[i]
    BY <1>2, ProcessAssumption
  <2>2. \A i \in Live : i \in scenario.initial
    BY <1>2 DEF Live
  <2>3. \A i, j \in Live : PidOf[i] = PidOf[j] => i = j
    BY <1>2, <2>2, ProcessAssumption
  <2> QED
    BY <1>1, <1>2, <2>1, <2>3 DEF World
<1>4. OpensOK
  BY DEF Init, OpensOK
<1>5. GraphOK
  BY EmptyRange DEF Init, GraphOK, Knows
<1> QED
  BY <1>3, <1>4, <1>5 DEF Knowledge

\* Nothing that happened is undone, and an open stays what it was.
LEMMA Grows ==
  ASSUME Knowledge, [Next]_vars
  PROVE  /\ scenario' = scenario /\ MaxLag' = MaxLag
         /\ \A i \in Proc : /\ life[i] # "unborn" => life'[i] # "unborn"
                            /\ life[i] = "gone" => life'[i] = "gone"
                            /\ ran[i] \subseteq ran'[i]
         /\ \A p \in Perm : ask[p] # None => ask'[p] = ask[p] /\ shown'[p] = shown[p]
<1>1. UNCHANGED <<procs, ran>> => UNCHANGED <<life, scenario, ran>>
  BY DEF procs
<1>2. ASSUME NEW i \in Proc, Spawn(i) \/ Exit(i) \/ \E e : Exec(i, e)
      PROVE  /\ scenario' = scenario
             /\ \A j \in Proc : /\ life[j] # "unborn" => life'[j] # "unborn"
                                /\ life[j] = "gone" => life'[j] = "gone"
                                /\ ran[j] \subseteq ran'[j]
  <2>1. life \in [Proc -> {"unborn", "live", "gone"}] /\ ran \in [Proc -> SUBSET Exe]
    BY DEF Knowledge, World
  <2> QED
    BY <1>2, <2>1 DEF Spawn, Exit, Exec, SpawnProc, ExitProc, ExecProc, Live
<1>3. \/ UNCHANGED <<procs, ran>>
      \/ \E i \in Proc : Spawn(i) \/ Exit(i) \/ \E e : Exec(i, e)
  <2>1. CASE Environment
    <3>1. \A x \in Execs : x[1] \in Proc
      BY ProcessAssumption DEF Knowledge, World, Execs
    <3>2. Mortal \subseteq Proc
      BY ProcessAssumption DEF Knowledge, World, Mortal
    <3> QED
      BY <2>1, <3>1, <3>2 DEF Environment, Open, EnrolTool, ReplaceFile, LearnNews, LearnOpen, TimesOut
  <2>2. CASE Tick \/ UNCHANGED vars
    BY <2>2 DEF Tick, vars
  <2>3. CASE MainStep
    BY <2>3 DEF MainStep, HandleUnknown, HandleWriteOfKey, HandleTool, HandleDecided, HandleUnasked,
       HandleMigration, HandleRead, ReceiveNothing, MaintainMigrations, MaintainReads, Handled, outside
  <2>4. CASE \E t \in Thread : TaskStep(t)
    BY <2>4 DEF TaskStep, Check, ApproveImport, ApproveSibling, ApproveRead, Answer, WithdrawImport,
       WithdrawSibling, WithdrawRead, Refuse, own
  <2>5. CASE \E x \in Serving : XpcRequest(x)
    BY <2>5 DEF XpcRequest, XpcResolveMigration, XpcResolveRead, XpcRevoke, XpcDisableSuppression, outside
  <2> QED
    BY <2>1, <2>2, <2>3, <2>4, <2>5 DEF Next, Thread
<1>4. \A p \in Perm : ask[p] # None => ask'[p] = ask[p] /\ shown'[p] = shown[p]
  <2>1. CASE \E q \in Perm, a \in Opens : Open(q, a)
    BY <2>1 DEF Open, Knowledge, OpensOK
  <2>2. CASE Environment /\ ~ \E q \in Perm, a \in Opens : Open(q, a)
    BY <2>2 DEF Environment, Spawn, Exit, Exec, EnrolTool, ReplaceFile, LearnNews, LearnOpen, TimesOut
  <2>3. CASE Tick \/ UNCHANGED vars
    BY <2>3 DEF Tick, vars
  <2>4. CASE MainStep
    BY <2>4 DEF MainStep, HandleUnknown, HandleWriteOfKey, HandleTool, HandleDecided, HandleUnasked,
       HandleMigration, HandleRead, ReceiveNothing, MaintainMigrations, MaintainReads, Handled, outside
  <2>5. CASE \E t \in Thread : TaskStep(t)
    BY <2>5 DEF TaskStep, Check, ApproveImport, ApproveSibling, ApproveRead, Answer, WithdrawImport,
       WithdrawSibling, WithdrawRead, Refuse, own
  <2>6. CASE \E x \in Serving : XpcRequest(x)
    BY <2>6 DEF XpcRequest, XpcResolveMigration, XpcResolveRead, XpcRevoke, XpcDisableSuppression, outside
  <2> QED
    BY <2>1, <2>2, <2>3, <2>4, <2>5, <2>6 DEF Next, Thread
<1>5. /\ scenario' = scenario
      /\ \A i \in Proc : /\ life[i] # "unborn" => life'[i] # "unborn"
                         /\ life[i] = "gone" => life'[i] = "gone"
                         /\ ran[i] \subseteq ran'[i]
  <2>1. CASE UNCHANGED <<procs, ran>>
    BY <1>1, <2>1 DEF procs
  <2>2. CASE \E i \in Proc : Spawn(i) \/ Exit(i) \/ \E e : Exec(i, e)
    BY <1>2, <2>2
  <2> QED
    BY <1>3, <2>1, <2>2
<1>6. MaxLag' = MaxLag
  BY <1>5 DEF MaxLag
<1> QED
  BY <1>4, <1>5, <1>6

\* A process of the graph, or of a notice, was there already.
LEMMA WasStays ==
  ASSUME \A i \in Proc : (life[i] # "unborn" => life'[i] # "unborn") /\ ran[i] \subseteq ran'[i]
  PROVE  \A s \in Stable : Was(s) => Was(s)'
BY DEF Was, Stable

\* What observe and remove_terminal leave of a graph.
LEMMA ObservedKnows ==
  ASSUME NEW g, NEW s \in Stable, NEW parent, Descends(s.inst, parent),
         Knows(g)', Was(s)', MaxLag' = 0 => Running(s)'
  PROVE  Knows(Observed(g, s, parent))'
<1>1. PidOf[s.inst] \in Pid
  BY DEF Pid, Stable
<1>2. Observed(g, s, parent).current = [g.current EXCEPT ![PidOf[s.inst]] = s]
  BY DEF Observed
<1>3. /\ DOMAIN Observed(g, s, parent).parent = DOMAIN g.parent \union {s}
      /\ \A k \in DOMAIN g.parent \union {s} :
           Observed(g, s, parent).parent[k] = IF k = s THEN parent ELSE g.parent[k]
  BY DEF Observed
<1> QED
  BY <1>1, <1>2, <1>3 DEF Knows

LEMMA RemovedKnows ==
  ASSUME NEW g, NEW s, Knows(g)'
  PROVE  Knows(Removed(g, s))'
<1>1. Removed(g, s).current = [pid \in Pid |-> IF g.current[pid] = s THEN None ELSE g.current[pid]]
  BY DEF Removed
<1>2. Removed(g, s).parent = [k \in DOMAIN g.parent \ {s} |-> g.parent[k]]
  BY DEF Removed
<1> QED
  BY <1>1, <1>2 DEF Knows

\* A notice that is true now, or will be learned of later.
LEMMA LearnedKnows ==
  ASSUME NEW g, NEW n \in Notice, Knows(g)', NoticeOK(n)',
         MaxLag' = 0 => /\ n.kind # "exit" => Running(n.self)'
                        /\ n.kind = "fork" /\ n.parent # None => Running(n.parent)'
  PROVE  Knows(Learned(g, n))'
<1>1. CASE n.kind = "fork"
  <2>1. /\ n.self \in Stable /\ n.parent \in Stable \union {None} /\ Descends(n.self.inst, n.parent)
        /\ n.parent # None => Descends(n.parent.inst, n.above)
    BY <1>1 DEF Notice
  <2> DEFINE h == IF n.parent = None THEN g ELSE Observed(g, n.parent, n.above)
  <2>2. Knows(h)'
    <3>1. CASE n.parent = None
      BY <3>1
    <3>2. CASE n.parent # None
      BY <1>1, <2>1, <3>2, ObservedKnows DEF NoticeOK
    <3> QED
      BY <3>1, <3>2
  <2>3. Learned(g, n) = Observed(h, n.self, n.parent)
    BY <1>1 DEF Learned
  <2> HIDE DEF h
  <2> QED
    BY <1>1, <2>1, <2>2, <2>3, ObservedKnows DEF NoticeOK
<1>2. CASE n.kind = "exec"
  <2>1. /\ n.self \in Stable /\ Descends(n.self.inst, n.parent)
        /\ Learned(g, n) = Observed(g, n.self, n.parent)
    BY <1>2 DEF Notice, Learned
  <2> QED
    BY <1>2, <2>1, ObservedKnows DEF NoticeOK
<1>3. CASE n.kind = "exit"
  <2>1. Learned(g, n) = Removed(g, n.self)
    BY <1>3 DEF Learned
  <2> QED
    BY <2>1, RemovedKnows
<1> QED
  BY <1>1, <1>2, <1>3 DEF Notice

\* A notice is of processes there were.
LEMMA NoticesStay ==
  ASSUME \A i \in Proc : (life[i] # "unborn" => life'[i] # "unborn") /\ ran[i] \subseteq ran'[i]
  PROVE  \A n \in Notice : NoticeOK(n) => NoticeOK(n)'
<1> SUFFICES ASSUME NEW n \in Notice, NoticeOK(n) PROVE NoticeOK(n)'
  OBVIOUS
<1>1. n.self \in Stable /\ (n.kind = "fork" /\ n.parent # None => n.parent \in Stable)
  BY DEF Notice
<1> QED
  BY <1>1, WasStays DEF NoticeOK

\* The service hears of a process, at once or as it comes to the notice.
LEMMA Telling ==
  ASSUME Knowledge, NEW n \in Notice, NEW g, g = graph, Tell(n), scenario' = scenario,
         \A i \in Proc : (life[i] # "unborn" => life'[i] # "unborn") /\ ran[i] \subseteq ran'[i],
         NoticeOK(n)', MaxLag = 0 => Knows(Learned(g, n))'
  PROVE  GraphOK'
<1>1. MaxLag' = MaxLag
  BY DEF MaxLag
<1>2. CASE MaxLag = 0
  <2>1. graph' = Learned(g, n) /\ Knows(Learned(g, n))' /\ UNCHANGED <<news, messages>>
    BY <1>2 DEF Tell
  <2>2. Knows(graph)'
    BY <2>1 DEF Knows
  <2> QED
    BY <1>1, <1>2, <2>1, <2>2, EmptyRange DEF Knowledge, GraphOK
<1>3. CASE MaxLag # 0
  <2>1. news' = Append(news, n) /\ UNCHANGED <<graph, messages>>
    BY <1>3 DEF Tell
  <2>2. Knows(graph)'
    BY <1>1, <1>3, <2>1, WasStays DEF Knowledge, GraphOK, Knows, Was
  <2>3. news' \in Seq(Notice) /\ Range(news') = Range(news) \union {n}
    BY <2>1, AppendRange DEF Knowledge, GraphOK
  <2>4. \A m \in Range(news) : m \in Notice
    BY InRange DEF Knowledge, GraphOK, Range
  <2>5. \A m \in Range(news') : NoticeOK(m)'
    BY <2>3, <2>4, NoticesStay DEF Knowledge, GraphOK
  <2> QED
    BY <1>1, <1>3, <2>1, <2>2, <2>3, <2>5 DEF GraphOK
<1> QED
  BY <1>2, <1>3

\* Opens are made by processes there were.
LEMMA OpensStay ==
  ASSUME Knowledge, UNCHANGED <<ask, shown, file>>,
         \A i \in Proc : (life[i] # "unborn" => life'[i] # "unborn") /\ ran[i] \subseteq ran'[i]
  PROVE  OpensOK'
<1>1. \A p \in Perm : ask[p] # None => ask[p].inst \in Proc
  BY DEF Knowledge, OpensOK, Access
<1> QED
  BY <1>1 DEF Knowledge, OpensOK

\* A process that lives is seen as what it is.
LEMMA SeenOK ==
  ASSUME World
  PROVE  /\ \A i \in Proc : Seen(i) \in Stable /\ Seen(i).inst = i /\ Seen(i).exe = exe[i]
         /\ \A i \in Live : Was(Seen(i)) /\ Running(Seen(i))
         /\ \A i \in Proc : Parent(i) \in Stable \union {None} /\ Descends(i, Parent(i))
<1>1. \A i \in Proc : Seen(i) \in Stable /\ Seen(i).inst = i /\ Seen(i).exe = exe[i]
  BY DEF World, Seen, Stable
<1>2. \A i \in Live : Was(Seen(i)) /\ Running(Seen(i))
  BY <1>1 DEF World, Was, Running, Alive, Live
<1>3. \A i \in Proc : Parent(i) \in Stable \union {None} /\ Descends(i, Parent(i))
  BY <1>1 DEF Parent, Live, Descends
<1> QED
  BY <1>1, <1>2, <1>3

LEMMA SpawnKnows == \A i \in Proc : Knowledge /\ Spawn(i) => Knowledge'
<1> SUFFICES ASSUME NEW i \in Proc, Knowledge, Spawn(i) PROVE Knowledge'
  OBVIOUS
<1>1. /\ life' = [life EXCEPT ![i] = "live"] /\ life[i] = "unborn"
      /\ UNCHANGED <<exe, scenario, now, file, ask, shown, ran>>
      /\ \A j \in Proc \ {i} : PidOf[j] = PidOf[i] => life[j] \in {"gone", "unborn"}
  BY DEF Spawn, SpawnProc
<1>2. life' \in [Proc -> {"unborn", "live", "gone"}] /\ Live' = Live \union {i}
  BY <1>1 DEF Knowledge, World, Live
<1>3. \A j \in Proc : (life[j] # "unborn" => life'[j] # "unborn") /\ ran[j] \subseteq ran'[j]
  BY <1>1 DEF Knowledge, World
<1>4. World'
  <2>1. \A j \in Live : PidOf[j] = PidOf[i] => j = i
    BY <1>1 DEF Live
  <2>2. \A j, k \in Live' : PidOf[j] = PidOf[k] => j = k
    BY <1>2, <2>1 DEF Knowledge, World
  <2> QED
    BY <1>1, <1>2, <2>2 DEF Knowledge, World
<1>5. OpensOK'
  BY <1>1, <1>3, OpensStay
<1> DEFINE parent == IF Lineage[i] = <<>> THEN None ELSE Seen(Lineage[i][1])
           above  == IF parent = None THEN None ELSE Parent(parent.inst)
<1>6. PICK p : p = parent
  OBVIOUS
<1>7. PICK a : a = above
  OBVIOUS
<1>8. PICK s : s = Seen(i)
  OBVIOUS
<1>9. PICK g : g = graph
  OBVIOUS
<1>10. /\ p \in Stable \union {None} /\ (p # None => Was(p) /\ Running(p))
       /\ a \in Stable \union {None}
       /\ Descends(i, p) /\ (p # None => Descends(p.inst, a))
  <2>1. Lineage[i] # <<>> => Lineage[i][1] \in Live
    BY DEF Spawn, SpawnProc
  <2>2. p # None => /\ p \in Stable /\ p.inst \in Proc /\ Was(p) /\ Running(p)
                    /\ Lineage[i] # <<>> /\ p.inst = Lineage[i][1]
    BY <1>6, <2>1, SeenOK DEF Knowledge, Live
  <2>3. p # None => a = Parent(p.inst)
    BY <1>6, <1>7
  <2> QED
    BY <1>6, <1>7, <2>2, <2>3, SeenOK DEF Knowledge, Descends
<1>11. s.inst = i /\ s \in Stable /\ Was(s)' /\ Running(s)'
  BY <1>1, <1>2, <1>8, SeenOK DEF Knowledge, World, Was, Running, Alive
<1>12. p # None => Was(p)' /\ Running(p)'
  BY <1>1, <1>2, <1>3, <1>10, WasStays DEF Running, Alive
<1> DEFINE n == [kind |-> "fork", self |-> s, parent |-> p, above |-> a]
<1>13. Tell(n)
  BY <1>6, <1>7, <1>8 DEF Spawn
<1>14. n \in Notice /\ n.kind = "fork" /\ n.self = s /\ n.parent = p
  BY <1>10, <1>11 DEF Notice
<1> HIDE DEF n, parent, above
<1>15. NoticeOK(n)'
  BY <1>11, <1>12, <1>14 DEF NoticeOK
<1>16. MaxLag' = 0 => Knows(g)'
  <2>1. \A r : Running(r) => Running(r)'
    BY <1>1, <1>2 DEF Running, Alive
  <2>2. \A r \in Stable : Was(r) => Was(r)'
    BY <1>3, WasStays
  <2> QED
    BY <1>1, <1>9, <2>1, <2>2 DEF Knowledge, GraphOK, Knows, Was, MaxLag
<1>17. MaxLag = 0 => Knows(Learned(g, n))'
  <2>1. MaxLag' = MaxLag
    BY <1>1 DEF MaxLag
  <2> QED
    BY <1>11, <1>12, <1>14, <1>15, <1>16, <2>1, LearnedKnows
<1>18. GraphOK'
  BY <1>1, <1>3, <1>9, <1>13, <1>14, <1>15, <1>17, Telling
<1> QED
  BY <1>4, <1>5, <1>18 DEF Knowledge

LEMMA ExitKnows == \A i \in Proc : Knowledge /\ Exit(i) => Knowledge'
<1> SUFFICES ASSUME NEW i \in Proc, Knowledge, Exit(i) PROVE Knowledge'
  OBVIOUS
<1>1. /\ life' = [life EXCEPT ![i] = "gone"] /\ i \in Live
      /\ UNCHANGED <<exe, scenario, now, file, ask, shown, ran>>
  BY DEF Exit, ExitProc
<1>2. life' \in [Proc -> {"unborn", "live", "gone"}] /\ Live' = Live \ {i}
  BY <1>1 DEF Knowledge, World, Live
<1>3. \A j \in Proc : (life[j] # "unborn" => life'[j] # "unborn") /\ ran[j] \subseteq ran'[j]
  BY <1>1, <1>2 DEF Knowledge, World
<1>4. World'
  BY <1>1, <1>2 DEF Knowledge, World
<1>5. OpensOK'
  BY <1>1, <1>3, OpensStay
<1>6. PICK s : s = Seen(i)
  OBVIOUS
<1>7. PICK g : g = graph
  OBVIOUS
<1>8. s \in Stable /\ Was(s) /\ Was(s)' /\ s.inst = i /\ s.exe = exe[i]
  BY <1>1, <1>3, <1>6, SeenOK, WasStays DEF Knowledge
<1> DEFINE n == [kind |-> "exit", self |-> s]
<1>9. Tell(n)
  BY <1>6 DEF Exit
<1>10. n \in Notice /\ n.kind = "exit" /\ n.self = s
  BY <1>8 DEF Notice
<1> HIDE DEF n
<1>11. NoticeOK(n)'
  BY <1>8, <1>10 DEF NoticeOK
<1>12. MaxLag = 0 => Knows(Learned(g, n))'
  <2>1. SUFFICES ASSUME MaxLag = 0 PROVE Knows(Learned(g, n))'
    OBVIOUS
  <2>2. /\ Learned(g, n).current = [pid \in Pid |-> IF g.current[pid] = s THEN None ELSE g.current[pid]]
        /\ Learned(g, n).parent = [k \in DOMAIN g.parent \ {s} |-> g.parent[k]]
    BY <1>10 DEF Learned, Removed
  <2>3. \A r \in Stable : Was(r) => Was(r)'
    BY <1>3, WasStays
  <2>4. \A r \in Stable : Running(r) /\ r # s => Running(r)'
    BY <1>1, <1>2, <1>8 DEF Running, Alive, Stable
  <2> QED
    BY <1>7, <2>1, <2>2, <2>3, <2>4 DEF Knowledge, GraphOK, Knows, Was
<1>13. GraphOK'
  BY <1>1, <1>3, <1>7, <1>9, <1>10, <1>11, <1>12, Telling
<1> QED
  BY <1>4, <1>5, <1>13 DEF Knowledge

LEMMA ExecKnows == \A i \in Proc, e \in Exe : Knowledge /\ Exec(i, e) => Knowledge'
<1> SUFFICES ASSUME NEW i \in Proc, NEW e \in Exe, Knowledge, Exec(i, e) PROVE Knowledge'
  OBVIOUS
<1>1. /\ exe' = [exe EXCEPT ![i] = e] /\ i \in Live
      /\ ran' = [ran EXCEPT ![i] = @ \union {e}]
      /\ UNCHANGED <<life, scenario, now, file, ask, shown>>
  BY DEF Exec, ExecProc
<1>2. /\ exe' \in [Proc -> Exe] /\ ran' \in [Proc -> SUBSET Exe] /\ Live' = Live
      /\ exe'[i] = e /\ e \in ran'[i]
  BY <1>1 DEF Knowledge, World, Live
<1>3. \A j \in Proc : (life[j] # "unborn" => life'[j] # "unborn") /\ ran[j] \subseteq ran'[j]
  BY <1>1 DEF Knowledge, World
<1>4. World'
  BY <1>1, <1>2 DEF Knowledge, World
<1>5. OpensOK'
  BY <1>1, <1>3, OpensStay
<1> DEFINE s == [inst |-> i, exe |-> e]
<1>6. PICK a : a = Parent(i)
  OBVIOUS
<1>7. PICK g : g = graph
  OBVIOUS
<1>8. s \in Stable /\ s.inst = i /\ s.exe = e /\ a \in Stable \union {None} /\ Descends(i, a)
  BY <1>6, SeenOK DEF Knowledge, Stable
<1> DEFINE n == [kind |-> "exec", self |-> s, parent |-> a]
<1>9. Tell(n)
  BY <1>6 DEF Exec
<1>10. n \in Notice /\ n.kind = "exec" /\ n.self = s /\ n.parent = a
  BY <1>8 DEF Notice
<1> HIDE DEF n, s
<1>11. Was(s)' /\ Running(s)'
  BY <1>1, <1>2, <1>8 DEF Was, Running, Alive, Live
<1>12. NoticeOK(n)'
  BY <1>10, <1>11 DEF NoticeOK
<1>13. MaxLag = 0 => Knows(Learned(g, n))'
  <2>1. SUFFICES ASSUME MaxLag = 0 PROVE Knows(Learned(g, n))'
    OBVIOUS
  <2>2. /\ Learned(g, n).current = [g.current EXCEPT ![PidOf[i]] = s]
        /\ DOMAIN Learned(g, n).parent = DOMAIN g.parent \union {s}
        /\ \A k \in DOMAIN g.parent \union {s} :
             Learned(g, n).parent[k] = IF k = s THEN a ELSE g.parent[k]
    BY <1>8, <1>10 DEF Learned, Observed
  <2>3. \A r \in Stable : Was(r) => Was(r)'
    BY <1>3, WasStays
  <2>4. \A r \in Stable : Running(r) /\ PidOf[r.inst] # PidOf[i] => Running(r)'
    BY <1>1, <1>2 DEF Running, Alive, Stable
  <2>5. s \in Stable /\ PidOf[s.inst] = PidOf[i] /\ PidOf[i] \in Pid
    BY <1>8 DEF Pid
  <2>6. \A pid \in Pid : g.current[pid] # None =>
          /\ g.current[pid] \in Stable /\ Was(g.current[pid]) /\ Running(g.current[pid])
          /\ PidOf[g.current[pid].inst] = pid
    BY <1>7, <2>1 DEF Knowledge, GraphOK, Knows, Was
  <2>7. DOMAIN g.current = Pid /\ \A k \in DOMAIN g.parent : k \in Stable /\ Descends(k.inst, g.parent[k])
    BY <1>7 DEF Knowledge, GraphOK, Knows
  <2>8. \A k \in DOMAIN Learned(g, n).parent : k \in Stable /\ Descends(k.inst, Learned(g, n).parent[k])
    BY <1>8, <2>2, <2>7
  <2> QED
    BY <1>11, <2>2, <2>3, <2>4, <2>5, <2>6, <2>7, <2>8 DEF Knows
<1>14. GraphOK'
  BY <1>1, <1>3, <1>7, <1>9, <1>10, <1>12, <1>13, Telling
<1> QED
  BY <1>4, <1>5, <1>14 DEF Knowledge

\* An open shows the process that made it, when it is learned of at once.
LEMMA OpenKnows == \A p \in Perm, a \in Opens : Knowledge /\ Open(p, a) => Knowledge'
<1> SUFFICES ASSUME NEW p \in Perm, NEW a \in Opens, Knowledge, Open(p, a) PROVE Knowledge'
  OBVIOUS
<1>1. a.inst \in Live /\ a.inst \in Proc /\ a.res \in Resource /\ a.flags \in SUBSET Flag
  BY EsAssumption DEF Open, Opens, Knowledge, World, Flag
<1>2. UNCHANGED <<now, life, exe, scenario, ran, file, news>> /\ MaxLag' = MaxLag
  BY DEF Open, procs, MaxLag
<1> DEFINE opens == KindOf[a.res] = "ssh" /\ "read" \notin a.flags
           new   == [inst |-> a.inst, res |-> a.res, op |-> IF opens THEN "open" ELSE "access"]
           facts == [exe |-> exe[a.inst], parent |-> Parent(a.inst), flags |-> a.flags, file |-> file]
<1>3. ask' = [ask EXCEPT ![p] = new] /\ shown' = [shown EXCEPT ![p] = facts]
  BY DEF Open
<1>4. /\ new \in Access /\ new.inst = a.inst /\ new.res = a.res
      /\ KindOf[a.res] = "ssh" /\ "read" \notin a.flags => new.op = "open"
  BY <1>1 DEF Access
<1>5. /\ facts \in Facts /\ facts.exe = exe[a.inst] /\ facts.parent = Parent(a.inst) /\ facts.file = file
      /\ facts.flags = a.flags /\ Descends(a.inst, facts.parent)
  BY <1>1, SeenOK DEF Knowledge, World, Facts
<1>6. MaxLag = 0 => /\ UNCHANGED messages
                    /\ graph' = Observed(graph, [inst |-> new.inst, exe |-> facts.exe], facts.parent)
  <2>1. MaxLag = 0 => Receive(p, facts) /\ UNCHANGED messages
    BY DEF Open
  <2>2. ask'[p].inst = new.inst
    BY <1>3, <1>4 DEF Knowledge, OpensOK
  <2> QED
    BY <2>1, <2>2 DEF Receive
<1>7. MaxLag # 0 => UNCHANGED graph
  BY DEF Open
<1> HIDE DEF new, facts
<1>8. World'
  BY <1>2 DEF Knowledge, World, Live
<1>9. OpensOK'
  <2>1. ask' \in [Perm -> Access \union {None}] /\ DOMAIN shown' = Perm
    BY <1>3, <1>4 DEF Knowledge, OpensOK
  <2>2. ASSUME NEW q \in Perm, ask'[q] # None
        PROVE  /\ life'[ask'[q].inst] # "unborn" /\ shown'[q] \in Facts
               /\ shown'[q].exe \in ran'[ask'[q].inst]
               /\ Descends(ask'[q].inst, shown'[q].parent)
               /\ KindOf[ask'[q].res] = "ssh" /\ "read" \notin shown'[q].flags => ask'[q].op = "open"
    <3>1. CASE q = p
      <4>1. ask'[q] = new /\ shown'[q] = facts
        BY <1>3, <3>1 DEF Knowledge, OpensOK
      <4>2. life[a.inst] # "unborn" /\ exe[a.inst] \in ran[a.inst]
        BY <1>1 DEF Knowledge, World, Live
      <4> QED
        BY <1>2, <1>4, <1>5, <4>1, <4>2
    <3>2. CASE q # p
      <4>1. ask'[q] = ask[q] /\ shown'[q] = shown[q]
        BY <1>3, <3>2 DEF Knowledge, OpensOK
      <4> QED
        BY <1>2, <2>2, <4>1 DEF Knowledge, OpensOK
    <3> QED
      BY <3>1, <3>2
  <2> QED
    BY <2>1, <2>2 DEF OpensOK
<1>10. Knows(graph)'
  <2>1. CASE MaxLag = 0
    <3>1. PICK g : g = graph
      OBVIOUS
    <3>2. PICK s : s = [inst |-> new.inst, exe |-> facts.exe]
      OBVIOUS
    <3>3. PICK f : f = facts.parent
      OBVIOUS
    <3>4. s \in Stable /\ s = Seen(a.inst) /\ Descends(s.inst, f)
      BY <1>1, <1>4, <1>5, <3>2, <3>3, SeenOK DEF Seen, Knowledge
    <3>5. Was(s)' /\ Running(s)'
      BY <1>1, <1>2, <3>4, SeenOK DEF Knowledge, Was, Running, Alive, Live
    <3>6. Knows(g)'
      BY <1>2, <3>1 DEF Knowledge, GraphOK, Knows, Was, Running, Alive, Live
    <3>7. Knows(Observed(g, s, f))'
      BY <3>4, <3>5, <3>6, ObservedKnows
    <3>8. graph' = Observed(g, s, f)
      BY <1>6, <2>1, <3>1, <3>2, <3>3
    <3> QED
      BY <3>7, <3>8 DEF Knows
  <2>2. CASE MaxLag # 0
    BY <1>2, <1>7, <2>2 DEF Knowledge, GraphOK, Knows, Was
  <2> QED
    BY <2>1, <2>2
<1>11. GraphOK'
  BY <1>2, <1>6, <1>10 DEF Knowledge, GraphOK, NoticeOK, Was
<1> QED
  BY <1>8, <1>9, <1>11 DEF Knowledge

LEMMA LearnNewsKnows == Knowledge /\ LearnNews => Knowledge'
<1> SUFFICES ASSUME Knowledge, LearnNews PROVE Knowledge'
  OBVIOUS
<1>1. /\ UNCHANGED <<now, life, exe, scenario, ran, file, ask, shown>> /\ MaxLag' = MaxLag
      /\ news # <<>> /\ graph' = Learned(graph, Head(news)) /\ news' = Tail(news)
  BY DEF LearnNews, procs, MaxLag
<1>2. PICK g : g = graph
  OBVIOUS
<1>3. PICK n : n = Head(news)
  OBVIOUS
<1>4. news' \in Seq(Notice) /\ n \in Notice /\ NoticeOK(n) /\ Range(news') \subseteq Range(news)
  BY <1>1, <1>3, TailRange DEF Knowledge, GraphOK
<1>5. NoticeOK(n)' /\ \A m \in Range(news') : NoticeOK(m)'
  BY <1>1, <1>4 DEF Knowledge, GraphOK, NoticeOK, Was
<1>6. MaxLag # 0
  BY <1>1 DEF Knowledge, GraphOK
<1>7. Knows(g)'
  BY <1>1, <1>2, <1>6 DEF Knowledge, GraphOK, Knows, Was
<1>8. Knows(Learned(g, n))'
  BY <1>1, <1>4, <1>5, <1>6, <1>7, LearnedKnows
<1>9. Knows(graph)'
  BY <1>1, <1>2, <1>3, <1>8 DEF Knows
<1>10. World' /\ OpensOK'
  BY <1>1 DEF Knowledge, World, OpensOK, Live
<1> QED
  BY <1>1, <1>4, <1>5, <1>6, <1>9, <1>10 DEF Knowledge, GraphOK

LEMMA LearnOpenKnows == Custody /\ Knowledge /\ LearnOpen => Knowledge'
<1> SUFFICES ASSUME Custody, Knowledge, LearnOpen PROVE Knowledge'
  OBVIOUS
<1>1. /\ UNCHANGED <<now, life, exe, scenario, ran, file, ask, shown, news>> /\ MaxLag' = MaxLag
      /\ messages # <<>>
  BY DEF LearnOpen, procs, MaxLag
<1>2. PICK p : p = Head(messages)
  OBVIOUS
<1>3. p \in Perm /\ ask[p] # None
  BY <1>1, <1>2, TailRange DEF Custody, Shapes, StatesOK, Told
<1>4. MaxLag # 0
  BY <1>1 DEF Knowledge, GraphOK
<1>5. PICK g : g = graph
  OBVIOUS
<1>6. PICK s : s = [inst |-> ask[p].inst, exe |-> shown[p].exe]
  OBVIOUS
<1>7. PICK f : f = shown[p].parent
  OBVIOUS
<1>8. graph' = Observed(g, s, f)
  BY <1>1, <1>2, <1>5, <1>6, <1>7 DEF LearnOpen, Receive
<1>9. s \in Stable /\ Was(s)' /\ Descends(s.inst, f)
  BY <1>1, <1>3, <1>6, <1>7 DEF Knowledge, OpensOK, Access, Facts, Was, Stable
<1>10. Knows(g)'
  BY <1>1, <1>4, <1>5 DEF Knowledge, GraphOK, Knows, Was
<1>11. Knows(Observed(g, s, f))'
  BY <1>1, <1>4, <1>9, <1>10, ObservedKnows
<1>12. Knows(graph)'
  BY <1>8, <1>11 DEF Knows
<1>13. World' /\ OpensOK'
  BY <1>1 DEF Knowledge, World, OpensOK, Live
<1> QED
  BY <1>1, <1>4, <1>12, <1>13 DEF Knowledge, GraphOK, NoticeOK, Was

\* The service itself changes nothing of this: replaced files and time do not matter.
LEMMA RestKnows ==
  ASSUME Knowledge, UNCHANGED <<procs, ask, shown, ran, graph, news, messages>>,
         now' \in 0..MaxNow, file' \in 0..MaxFiles
  PROVE  Knowledge'
<1>1. UNCHANGED <<life, exe, scenario>> /\ MaxLag' = MaxLag
  BY DEF procs, MaxLag
<1>2. World'
  BY <1>1 DEF Knowledge, World, Live
<1>3. OpensOK'
  BY <1>1 DEF Knowledge, OpensOK
<1>4. GraphOK'
  BY <1>1 DEF Knowledge, GraphOK, Knows, NoticeOK, Was, Running, Alive, Live
<1> QED
  BY <1>2, <1>3, <1>4 DEF Knowledge

LEMMA NextKeepsKnowledge ==
  ASSUME Custody, Knowledge, [Next]_vars
  PROVE  Knowledge'
<1>1. now \in 0..MaxNow /\ file \in 0..MaxFiles
  BY EsAssumption DEF Knowledge, World
<1>2. CASE Environment
  <2>1. CASE \E i \in Proc : Spawn(i)
    BY <2>1, SpawnKnows
  <2>2. CASE \E i \in Mortal : Exit(i)
    BY <2>2, ExitKnows, ProcessAssumption DEF Knowledge, World, Mortal
  <2>3. CASE \E x \in Execs : Exec(x[1], x[2])
    BY <2>3, ExecKnows, ProcessAssumption DEF Knowledge, World, Execs
  <2>4. CASE \E p \in Perm, a \in Opens : Open(p, a)
    BY <2>4, OpenKnows
  <2>5. CASE ReplaceFile
    <3>1. scenario.files \in 0..MaxFiles
      BY EsAssumption DEF Knowledge, World
    <3>2. file' \in 0..MaxFiles
      BY <1>1, <2>5, <3>1, EsAssumption DEF ReplaceFile
    <3> QED
      BY <1>1, <2>5, <3>2, RestKnows DEF ReplaceFile, learning
  <2>6. CASE (\E e \in Tool : EnrolTool(e)) \/ \E p \in Perm : TimesOut(p)
    BY <1>1, <2>6, RestKnows DEF EnrolTool, TimesOut, learning
  <2> QED
    BY <1>2, <2>1, <2>2, <2>3, <2>4, <2>5, <2>6, LearnNewsKnows, LearnOpenKnows DEF Environment
<1>3. CASE Tick
  <2>1. Horizon \in 0..MaxNow
    BY EsAssumption DEF Knowledge, World, Horizon
  <2>2. now' \in 0..MaxNow
    BY <1>1, <1>3, <2>1, EsAssumption DEF Tick
  <2> QED
    BY <1>1, <1>3, <2>2, RestKnows DEF Tick, learning
<1>4. CASE MainStep
  BY <1>1, <1>4, RestKnows DEF MainStep, HandleUnknown, HandleWriteOfKey, HandleTool, HandleDecided,
     HandleUnasked, HandleMigration, HandleRead, ReceiveNothing, MaintainMigrations, MaintainReads,
     Handled, outside, events, learning
<1>5. CASE \E t \in Thread : TaskStep(t)
  BY <1>1, <1>5, RestKnows DEF TaskStep, Check, ApproveImport, ApproveSibling, ApproveRead, Answer,
     WithdrawImport, WithdrawSibling, WithdrawRead, Refuse, own, learning
<1>6. CASE \E x \in Serving : XpcRequest(x)
  BY <1>1, <1>6, RestKnows DEF XpcRequest, XpcResolveMigration, XpcResolveRead, XpcRevoke,
     XpcDisableSuppression, outside, learning
<1>7. CASE UNCHANGED vars
  BY <1>1, <1>7, RestKnows DEF vars, learning
<1> QED
  BY <1>2, <1>3, <1>4, <1>5, <1>6, <1>7 DEF Next, Thread

-----------------------------------------------------------------------------
(***************************************************************************)
(* Whom an open is taken for.                                              *)
(***************************************************************************)
\* An open is judged as one of the process that has its pid in the graph.
LEMMA Judged ==
  ASSUME Custody, Knowledge, Handling, Id # None
  PROVE  /\ ask[Event] \in Access /\ shown[Event] \in Facts /\ Res \in Resource
         /\ Id.self \in Stable /\ Was(Id.self) /\ TakenFor(ask[Event].inst, Id.self.inst)
<1>1. ask[Event] \in Access /\ shown[Event] \in Facts /\ life[ask[Event].inst] # "unborn"
  BY AtEvent DEF Knowledge, OpensOK
<1>2. PidOf[ask[Event].inst] \in Pid /\ ask[Event].inst \in Proc
  BY <1>1 DEF Access, Pid
<1>3. Id.self = graph.current[PidOf[ask[Event].inst]] /\ Id.self # None
  BY DEF Id, Resolve
<1>4. /\ Was(Id.self) /\ PidOf[Id.self.inst] = PidOf[ask[Event].inst]
      /\ MaxLag = 0 => Running(Id.self)
  BY <1>2, <1>3 DEF Knowledge, GraphOK, Knows
<1>5. Id.self.inst \in Proc /\ life[Id.self.inst] # "unborn"
  BY <1>4 DEF Was, Stable
<1>6. TakenFor(ask[Event].inst, Id.self.inst)
  <2>1. CASE ask[Event].inst = Id.self.inst
    BY <2>1 DEF TakenFor
  <2>2. CASE ask[Event].inst # Id.self.inst /\ MaxLag = 0
    <3>1. Id.self.inst \in Live
      BY <1>4, <2>2 DEF Running, Alive
    <3>2. ask[Event].inst \notin Live
      BY <1>4, <2>2, <3>1 DEF Knowledge, World
    <3>3. life[ask[Event].inst] = "gone"
      BY <1>1, <1>2, <3>2 DEF Knowledge, World, Live
    <3> QED
      BY <1>2, <1>4, <3>3 DEF TakenFor, Mistakable
  <2>3. CASE ask[Event].inst # Id.self.inst /\ MaxLag # 0
    <3>1. MaxLag > 0
      BY <2>3, EsAssumption DEF Knowledge, World, MaxLag
    <3> QED
      BY <1>1, <1>2, <1>4, <1>5, <2>3, <3>1 DEF TakenFor, Mistakable
  <2> QED
    BY <2>1, <2>2, <2>3
<1> QED
  BY <1>1, <1>4, <1>6 DEF Access, Res, Was

\* Only a key is asked about as a key, and only a profile for an import.
LEMMA JudgedKind ==
  /\ Judgement.kind = "askSsh" => KindOf[Res] = "ssh"
  /\ Judgement.kind = "askMigration" => KindOf[Res] # "ssh" /\ IsTrustedBrowser(Id)
<1>1. ASSUME KindOf[Res] = "ssh" PROVE Judgement.kind # "askMigration"
  BY <1>1 DEF Judgement, Evaluate, DecideSsh, Plain, ByLease
<1>2. ASSUME KindOf[Res] # "ssh"
      PROVE  Judgement.kind # "askSsh" /\ (Judgement.kind = "askMigration" => IsTrustedBrowser(Id))
  BY <1>2 DEF Judgement, Evaluate, DecideBrowser, Settled, Plain, ByLease
<1> QED
  BY <1>1, <1>2

LEMMA ReadDetailsOK == Custody /\ Knowledge /\ HandleRead => ReadDetails \in SshDetailsSet
<1> SUFFICES ASSUME Custody, Knowledge, HandleRead PROVE ReadDetails \in SshDetailsSet
  OBVIOUS
<1>1. Handling /\ Id # None /\ KindOf[Res] = "ssh"
  BY JudgedKind DEF HandleRead, ToJudge
<1>2. Id.self \in Stable /\ Res \in SshKeys /\ shown[Event].file \in 0..MaxFiles
  BY <1>1, Judged DEF Facts, SshKeys
<1> QED
  BY <1>2 DEF ReadDetails, SshDetailsSet

-----------------------------------------------------------------------------
(***************************************************************************)
(* What the service works at.                                              *)
(***************************************************************************)
\* What an open was for, and whom it can be taken for, does not change.
LEMMA ForStays ==
  ASSUME Knowledge, [Next]_vars
  PROVE  /\ \A i \in Proc : \A j : TakenFor(i, j) => TakenFor(i, j)'
         /\ \A p \in Perm : \A d : (ForMig(p, d) => ForMig(p, d)') /\ (ForRead(p, d) => ForRead(p, d)')
<1>1. ASSUME NEW i \in Proc, i \in Mistakable PROVE i \in Mistakable'
  BY <1>1, Grows DEF Mistakable
<1>2. ASSUME NEW i \in Proc, NEW j, TakenFor(i, j) PROVE TakenFor(i, j)'
  BY <1>1, <1>2 DEF TakenFor
<1>3. ASSUME NEW p \in Perm, ask[p] # None
      PROVE  ask[p].inst \in Proc /\ ask'[p] = ask[p] /\ shown'[p] = shown[p]
  BY <1>3, Grows DEF Knowledge, OpensOK, Access
<1>4. ASSUME NEW p \in Perm, NEW d, ForMig(p, d) PROVE ForMig(p, d)'
  BY <1>2, <1>3, <1>4 DEF ForMig
<1>5. ASSUME NEW p \in Perm, NEW d, ForRead(p, d) PROVE ForRead(p, d)'
  BY <1>2, <1>3, <1>5 DEF ForRead
<1> QED
  BY <1>2, <1>4, <1>5

LEMMA RequestStays ==
  ASSUME Knowledge, [Next]_vars, NEW r, r.perms \subseteq Perm
  PROVE  (MigRequestOK(r) => MigRequestOK(r)') /\ (SshRequestOK(r) => SshRequestOK(r)')
BY ForStays DEF MigRequestOK, SshRequestOK

\* A lease that is pushed is one of its kind.
LEMMA NewLease ==
  ASSUME World, NEW d, NEW duration \in Nat
  PROVE  /\ d \in MigDetails => /\ BoundLease(d, Expiry(duration)) \in MigrationLease
                                /\ BoundLease(d, Expiry(duration)).root = d.root
                                /\ BoundLease(d, Expiry(duration)).profile = d.profile
                                /\ BoundLease(d, Expiry(duration)).uid = UidOf[d.root.inst]
         /\ d \in SshDetailsSet => /\ ReadLease(d, Expiry(duration)) \in SshReadLease
                                   /\ ReadLease(d, Expiry(duration)).root = d.target
                                   /\ ReadLease(d, Expiry(duration)).res = d.res
                                   /\ ReadLease(d, Expiry(duration)).uid = UidOf[d.target.inst]
<1>1. Expiry(duration) \in Nat
  BY EsAssumption DEF World, Expiry, Mig!SatAdd
<1>2. ASSUME d \in MigDetails
      PROVE  /\ BoundLease(d, Expiry(duration)) \in MigrationLease
             /\ BoundLease(d, Expiry(duration)).root = d.root
             /\ BoundLease(d, Expiry(duration)).profile = d.profile
             /\ BoundLease(d, Expiry(duration)).uid = UidOf[d.root.inst]
  <2>1. /\ d.profile \in Profile /\ d.target.inst \in Proc /\ d.target.exe \in Trusted
        /\ d.root \in Stable /\ d.root.exe \in Exe /\ d.root = d.target
    BY <1>2, CoreAssumption DEF MigDetails, Stable, Trusted
  <2>2. BrowserOfExe[d.target.exe] \in Browser /\ UidOf[d.target.inst] \in Uid
    BY <2>1, CoreAssumption DEF Trusted
  <2> QED
    BY <1>1, <2>1, <2>2 DEF BoundLease, MigrationLease
<1>3. ASSUME d \in SshDetailsSet
      PROVE  /\ ReadLease(d, Expiry(duration)) \in SshReadLease
             /\ ReadLease(d, Expiry(duration)).root = d.target
             /\ ReadLease(d, Expiry(duration)).res = d.res
             /\ ReadLease(d, Expiry(duration)).uid = UidOf[d.target.inst]
  <2>1. d.res \in Resource /\ d.target \in Stable /\ UidOf[d.target.inst] \in Uid
    BY <1>3, CoreAssumption DEF SshDetailsSet, SshKeys, Stable
  <2> QED
    BY <1>1, <2>1 DEF ReadLease, SshReadLease
<1> QED
  BY <1>2, <1>3

\* Leases are never removed, and what they were given for never changes.
Outlives ==
  /\ \A k \in DOMAIN migration :
       /\ k \in DOMAIN migration'
       /\ migration'[k].root = migration[k].root /\ migration'[k].profile = migration[k].profile
       /\ migration'[k].uid = migration[k].uid
       /\ migration[k].revoked => migration'[k].revoked
  /\ \A k \in DOMAIN sshRead :
       /\ k \in DOMAIN sshRead'
       /\ sshRead'[k].root = sshRead[k].root /\ sshRead'[k].res = sshRead[k].res
       /\ sshRead'[k].uid = sshRead[k].uid
       /\ sshRead[k].revoked => sshRead'[k].revoked

LEMMA EndedOK ==
  \A l \in MigrationLease : /\ Ended(l) \in MigrationLease /\ Ended(l).revoked
                            /\ Ended(l).root = l.root /\ Ended(l).profile = l.profile
                            /\ Ended(l).uid = l.uid
BY DEF Ended, MigrationLease

LEMMA RevokedOK ==
  \A l \in SshReadLease : \A b \in BOOLEAN :
    /\ [l EXCEPT !.revoked = b] \in SshReadLease /\ [l EXCEPT !.revoked = b].revoked = b
    /\ [l EXCEPT !.revoked = b].root = l.root /\ [l EXCEPT !.revoked = b].res = l.res
    /\ [l EXCEPT !.revoked = b].uid = l.uid
BY DEF SshReadLease

\* Every entry of a vector is replaced.
LEMMA EachReplaced ==
  ASSUME NEW S, NEW s \in Seq(S), NEW f \in [DOMAIN s -> S]
  PROVE  f \in Seq(S)
<1>1. Len(s) \in Nat /\ DOMAIN s = 1..Len(s)
  OBVIOUS
<1> QED
  BY <1>1

\* Every step keeps the vectors of leases in order.
LEMMA Unleased ==
  ASSUME Leases, UNCHANGED <<migration, sshRead>>
  PROVE  Leases' /\ Outlives
BY DEF Leases, Outlives

LEMMA Revoking ==
  ASSUME Leases, NEW k,
         \/ k \in DOMAIN migration /\ migration' = [migration EXCEPT ![k] = Ended(@)] /\ UNCHANGED sshRead
         \/ k \in DOMAIN sshRead /\ sshRead' = [sshRead EXCEPT ![k].revoked = TRUE] /\ UNCHANGED migration
  PROVE  Leases' /\ Outlives
<1>1. /\ \A j \in DOMAIN migration : migration[j] \in MigrationLease
      /\ \A j \in DOMAIN sshRead : sshRead[j] \in SshReadLease
  BY DEF Leases
<1>2. CASE k \in DOMAIN migration /\ migration' = [migration EXCEPT ![k] = Ended(@)] /\ UNCHANGED sshRead
  <2>1. PICK l : l = Ended(migration[k])
    OBVIOUS
  <2>2. /\ l \in MigrationLease /\ l.revoked
        /\ l.root = migration[k].root /\ l.profile = migration[k].profile /\ l.uid = migration[k].uid
    BY <1>1, <1>2, <2>1, EndedOK
  <2>3. migration' = [migration EXCEPT ![k] = l]
    BY <1>2, <2>1
  <2>4. migration' \in Seq(MigrationLease) /\ DOMAIN migration' = DOMAIN migration
    BY <2>2, <2>3, ExceptOK DEF Leases
  <2> QED
    BY <1>2, <2>2, <2>3, <2>4 DEF Leases, Outlives
<1>3. CASE k \in DOMAIN sshRead /\ sshRead' = [sshRead EXCEPT ![k].revoked = TRUE] /\ UNCHANGED migration
  <2>1. PICK l : l = [sshRead[k] EXCEPT !.revoked = TRUE]
    OBVIOUS
  <2>2. /\ l \in SshReadLease /\ l.revoked
        /\ l.root = sshRead[k].root /\ l.res = sshRead[k].res /\ l.uid = sshRead[k].uid
    BY <1>1, <1>3, <2>1, RevokedOK
  <2>3. sshRead' = [sshRead EXCEPT ![k] = l]
    BY <1>3, <2>1
  <2>4. sshRead' \in Seq(SshReadLease) /\ DOMAIN sshRead' = DOMAIN sshRead
    BY <2>2, <2>3, ExceptOK DEF Leases
  <2> QED
    BY <1>3, <2>2, <2>3, <2>4 DEF Leases, Outlives
<1> QED
  BY <1>2, <1>3

LEMMA Leasing ==
  ASSUME Leases, NEW l,
         \/ l \in MigrationLease /\ migration' = Append(migration, l) /\ UNCHANGED sshRead
         \/ l \in SshReadLease /\ sshRead' = Append(sshRead, l) /\ UNCHANGED migration
  PROVE  Leases' /\ Outlives
<1>1. CASE l \in MigrationLease /\ migration' = Append(migration, l) /\ UNCHANGED sshRead
  <2>1. migration' \in Seq(MigrationLease)
    BY <1>1 DEF Leases
  <2>2. \A k \in DOMAIN migration : k \in DOMAIN migration' /\ migration'[k] = migration[k]
    BY <1>1 DEF Leases
  <2> QED
    BY <1>1, <2>1, <2>2 DEF Leases, Outlives
<1>2. CASE l \in SshReadLease /\ sshRead' = Append(sshRead, l) /\ UNCHANGED migration
  <2>1. sshRead' \in Seq(SshReadLease)
    BY <1>2 DEF Leases
  <2>2. \A k \in DOMAIN sshRead : k \in DOMAIN sshRead' /\ sshRead'[k] = sshRead[k]
    BY <1>2 DEF Leases
  <2> QED
    BY <1>2, <2>1, <2>2 DEF Leases, Outlives
<1> QED
  BY <1>1, <1>2

LEMMA MaintainingLeases ==
  Leases /\ MaintainMigrations => Leases' /\ Outlives
<1> SUFFICES ASSUME Leases, MaintainMigrations PROVE Leases' /\ Outlives
  OBVIOUS
<1>1. /\ \A j \in DOMAIN migration : migration[j] \in MigrationLease
      /\ \A j \in DOMAIN sshRead : sshRead[j] \in SshReadLease
  BY DEF Leases
<1>2. /\ DOMAIN migration' = DOMAIN migration
      /\ \A j \in DOMAIN migration : migration'[j] \in {migration[j], Ended(migration[j])}
  BY DEF MaintainMigrations
<1>3. /\ DOMAIN sshRead' = DOMAIN sshRead
      /\ \A j \in DOMAIN sshRead : \E b \in BOOLEAN :
           sshRead'[j] = [sshRead[j] EXCEPT !.revoked = b] /\ (sshRead[j].revoked => b)
  <2>1. ASSUME NEW j \in DOMAIN sshRead
        PROVE  \E b \in BOOLEAN :
                 sshRead'[j] = [sshRead[j] EXCEPT !.revoked = b] /\ (sshRead[j].revoked => b)
    <3>1. PICK b \in BOOLEAN : b <=> (sshRead[j].revoked \/ ~KnownLive(sshRead[j].root))
      OBVIOUS
    <3>2. sshRead[j].revoked \in BOOLEAN
      BY <1>1 DEF SshReadLease
    <3>3. sshRead'[j] = [sshRead[j] EXCEPT !.revoked = @ \/ ~KnownLive(sshRead[j].root)]
      BY DEF MaintainMigrations
    <3> QED
      BY <3>1, <3>2, <3>3
  <2> QED
    BY <2>1 DEF MaintainMigrations
<1>4. \A j \in DOMAIN migration :
        /\ migration'[j] \in MigrationLease /\ migration'[j].root = migration[j].root
        /\ migration'[j].profile = migration[j].profile /\ migration'[j].uid = migration[j].uid
        /\ migration[j].revoked => migration'[j].revoked
  BY <1>1, <1>2, EndedOK
<1>5. \A j \in DOMAIN sshRead :
        /\ sshRead'[j] \in SshReadLease /\ sshRead'[j].root = sshRead[j].root
        /\ sshRead'[j].res = sshRead[j].res /\ sshRead'[j].uid = sshRead[j].uid
        /\ sshRead[j].revoked => sshRead'[j].revoked
  <2>1. ASSUME NEW j \in DOMAIN sshRead
        PROVE  /\ sshRead'[j] \in SshReadLease /\ sshRead'[j].root = sshRead[j].root
               /\ sshRead'[j].res = sshRead[j].res /\ sshRead'[j].uid = sshRead[j].uid
               /\ sshRead[j].revoked => sshRead'[j].revoked
    <3>1. PICK b \in BOOLEAN :
            sshRead'[j] = [sshRead[j] EXCEPT !.revoked = b] /\ (sshRead[j].revoked => b)
      BY <1>3
    <3>2. PICK l : l = sshRead[j]
      OBVIOUS
    <3>3. l \in SshReadLease /\ sshRead'[j] = [l EXCEPT !.revoked = b]
      BY <1>1, <3>1, <3>2
    <3> QED
      BY <3>1, <3>2, <3>3, RevokedOK
  <2> QED
    BY <2>1
<1>6. migration' \in Seq(MigrationLease) /\ sshRead' \in Seq(SshReadLease)
  <2>1. /\ migration' \in [DOMAIN migration -> MigrationLease]
        /\ sshRead' \in [DOMAIN sshRead -> SshReadLease]
    BY <1>4, <1>5 DEF MaintainMigrations
  <2> QED
    BY <2>1, EachReplaced DEF Leases
<1> QED
  BY <1>2, <1>3, <1>4, <1>5, <1>6 DEF Leases, Outlives

LEMMA NextKeepsLeases ==
  ASSUME Custody, Knowledge, Work, [Next]_vars
  PROVE  Leases' /\ Outlives
<1>0. Leases
  BY DEF Work
<1>1. CASE Environment \/ Tick \/ UNCHANGED vars
  BY <1>0, <1>1, Unleased DEF Environment, Tick, Spawn, Exit, Exec, Open, EnrolTool, ReplaceFile, LearnNews,
     LearnOpen, TimesOut, service, leases, vars
<1>2. CASE MainStep
  <2>1. CASE MaintainMigrations
    BY <1>0, <2>1, MaintainingLeases
  <2>2. CASE ~MaintainMigrations
    BY <1>0, <1>2, <2>2, Unleased DEF MainStep, HandleUnknown, HandleWriteOfKey, HandleTool, HandleDecided,
       HandleUnasked, HandleMigration, HandleRead, ReceiveNothing, MaintainReads, Handled, leases
  <2> QED
    BY <2>1, <2>2
<1>3. ASSUME NEW t \in Thread, TaskStep(t) PROVE Leases' /\ Outlives
  <2>1. CASE Check(t) \/ Answer(t) \/ Refuse(t)
    BY <1>0, <2>1, Unleased DEF Check, Answer, Refuse, leases
  <2>2. CASE ApproveImport(t) \/ ApproveSibling(t)
    <3>1. /\ task[t].details \in MigDetails
          /\ migration' = Append(migration, BoundLease(task[t].details, Expiry(MigrationDuration)))
          /\ UNCHANGED sshRead
      <4>1. TaskAt(t, "approve") /\ task[t].kind # "read"
        BY <2>2 DEF ApproveImport, ApproveSibling
      <4>2. task[t].details \in MigDetails
        BY <4>1 DEF Work, TasksOK, Fine, MigTaskOK, TaskAt, Approving
      <4> QED
        BY <2>2, <4>2 DEF ApproveImport, ApproveSibling
    <3> QED
      BY <1>0, <3>1, NewLease, Leasing, EsAssumption DEF Knowledge
  <2>3. CASE ApproveRead(t)
    <3>1. /\ task[t].details \in SshDetailsSet
          /\ sshRead' = Append(sshRead, ReadLease(task[t].details, Expiry(ReadDuration)))
          /\ UNCHANGED migration
      BY <2>3 DEF Work, TasksOK, Fine, SshTaskOK, TaskAt, Approving, ApproveRead
    <3> QED
      BY <1>0, <3>1, NewLease, Leasing, EsAssumption DEF Knowledge
  <2>4. CASE WithdrawImport(t) \/ WithdrawSibling(t) \/ WithdrawRead(t)
    <3>1. \/ /\ task[t].lease \in DOMAIN migration /\ UNCHANGED sshRead
             /\ migration' = [migration EXCEPT ![task[t].lease] = Ended(@)]
          \/ /\ task[t].lease \in DOMAIN sshRead /\ UNCHANGED migration
             /\ sshRead' = [sshRead EXCEPT ![task[t].lease].revoked = TRUE]
      BY <2>4 DEF WithdrawImport, WithdrawSibling, WithdrawRead, TaskAt, Work, TasksOK, Fine, SshTaskOK,
         MigTaskOK, Approving
    <3> QED
      BY <1>0, <3>1, Revoking
  <2> QED
    BY <1>3, <2>1, <2>2, <2>3, <2>4 DEF TaskStep
<1>4. ASSUME NEW x \in Xpc, XpcRequest(x) PROVE Leases' /\ Outlives
  <2>1. CASE \E u \in Clients : XpcRevoke(x, u)
    BY <1>0, <2>1, Revoking DEF XpcRevoke
  <2>2. CASE ~ \E u \in Clients : XpcRevoke(x, u)
    BY <1>0, <1>4, <2>2, Unleased DEF XpcRequest, XpcResolveMigration, XpcResolveRead, XpcDisableSuppression, leases
  <2> QED
    BY <2>1, <2>2
<1> QED
  BY <1>1, <1>2, <1>3, <1>4, EsAssumption DEF Next, Thread, Serving, Knowledge, World

\* What has been worked out stays worked out.
LEMMA FineStays ==
  ASSUME Knowledge, [Next]_vars, Outlives, NEW x, Fine(x),
         x.pc \in Approving => x.perms \subseteq Perm /\ \A r \in x.rest : r.perms \subseteq Perm
  PROVE  Fine(x)'
<1>1. MigTaskOK(x)'
  <2> SUFFICES ASSUME x.pc \in Approving, x.kind # "read"
               PROVE  /\ x.details \in MigDetails /\ \A p \in x.perms : ForMig(p, x.details)'
                      /\ \A r \in x.rest : MigRequestOK(r)'
                      /\ x.pc \in {"answer", "withdraw"} =>
                           /\ x.lease \in DOMAIN migration'
                           /\ migration'[x.lease].root = x.details.root
                           /\ migration'[x.lease].profile = x.details.profile
    BY DEF MigTaskOK
  <2>1. MigTaskOK(x)
    BY DEF Fine
  <2>2. x.details \in MigDetails /\ \A p \in x.perms : ForMig(p, x.details)'
    BY <2>1, ForStays DEF MigTaskOK
  <2>3. \A r \in x.rest : MigRequestOK(r)'
    BY <2>1, RequestStays DEF MigTaskOK
  <2> QED
    BY <2>1, <2>2, <2>3 DEF MigTaskOK, Outlives
<1>2. SshTaskOK(x)'
  <2> SUFFICES ASSUME x.pc \in Approving, x.kind = "read"
               PROVE  /\ x.details \in SshDetailsSet /\ \A p \in x.perms : ForRead(p, x.details)'
                      /\ x.pc \in {"answer", "withdraw"} =>
                           /\ x.lease \in DOMAIN sshRead'
                           /\ sshRead'[x.lease].root = x.details.target
                           /\ sshRead'[x.lease].res = x.details.res
    BY DEF SshTaskOK
  <2>1. SshTaskOK(x)
    BY DEF Fine
  <2>2. x.details \in SshDetailsSet /\ \A p \in x.perms : ForRead(p, x.details)'
    BY <2>1, ForStays DEF SshTaskOK
  <2> QED
    BY <2>1, <2>2 DEF SshTaskOK, Outlives
<1> QED
  BY <1>1, <1>2 DEF Fine

\* A step that adds only what is in order leaves all of it in order.
LEMMA WorkFrom ==
  ASSUME Custody, Knowledge, Work, [Next]_vars,
         \A r \in migRequests' : r \in migRequests \/ MigRequestOK(r)',
         \A r \in sshRequests' : r \in sshRequests \/ SshRequestOK(r)',
         \A t \in Thread : task'[t] = task[t] \/ Fine(task[t])'
  PROVE  Work'
<1>1. Leases' /\ Outlives
  BY NextKeepsLeases
<1>2. \A r \in migRequests \union sshRequests : r.perms \subseteq Perm
  BY DEF Custody, HandsApart, MigPerms, SshPerms, PermsOf
<1>3. RequestsOK'
  BY <1>2, RequestStays DEF Work, RequestsOK
<1>4. ASSUME NEW t \in Thread, task'[t] = task[t] PROVE Fine(task[t])'
  <2>1. PICK x : x = task[t]
    OBVIOUS
  <2>2. TaskOK(x) /\ OwnedIn(x) \subseteq Perm /\ Fine(x)
    BY <2>1 DEF Custody, Shapes, HandsApart, Work, TasksOK
  <2>3. x.pc \in Approving => OwnedIn(x) = x.perms \union PermsOf(x.rest)
    BY <2>2 DEF TaskOK, Approving, OwnedIn, PermsIn, RestIn
  <2>4. x.pc \in Approving => x.perms \subseteq Perm /\ \A r \in x.rest : r.perms \subseteq Perm
    BY <2>2, <2>3 DEF PermsOf
  <2>5. Fine(x)'
    BY <1>1, <2>2, <2>4, FineStays
  <2> QED
    BY <1>4, <2>1, <2>5 DEF Fine, MigTaskOK, SshTaskOK
<1> QED
  BY <1>1, <1>3, <1>4 DEF Work, TasksOK

\* The next sibling is approved as it was asked about.
LEMMA OnwardFine ==
  ASSUME DOMAIN task = Thread, NEW t \in Thread, NEW R, Onward(t, R),
         \A r \in R : MigRequestOK(r)'
  PROVE  \A u \in Thread : task'[u] = task[u] \/ Fine(task[u])'
<1>1. CASE task' = [task EXCEPT ![t] = Idle]
  BY <1>1 DEF Fine, MigTaskOK, SshTaskOK, Approving, Idle
<1>2. CASE \E r \in R : task' = [task EXCEPT ![t] = Approval("sibling", r.details, r.perms, R \ {r})]
  <2>1. PICK r \in R : task' = [task EXCEPT ![t] = Approval("sibling", r.details, r.perms, R \ {r})]
    BY <1>2
  <2> DEFINE y == Approval("sibling", r.details, r.perms, R \ {r})
  <2>2. /\ y.pc = "check" /\ y.kind = "sibling" /\ y.details = r.details /\ y.perms = r.perms
        /\ y.rest = R \ {r}
    BY DEF Approval
  <2>3. task' = [task EXCEPT ![t] = y]
    BY <2>1
  <2> HIDE DEF y
  <2>4. Fine(y)'
    BY <2>2 DEF Fine, MigTaskOK, SshTaskOK, MigRequestOK
  <2>5. task'[t] = y /\ \A u \in Thread : u # t => task'[u] = task[u]
    BY <2>3
  <2> QED
    BY <2>4, <2>5 DEF Fine, MigTaskOK, SshTaskOK
<1> QED
  BY <1>1, <1>2 DEF Onward

\* A task goes on as x.
LEMMA GoesOnFine ==
  ASSUME DOMAIN task = Thread, NEW t \in Thread, NEW x, task' = [task EXCEPT ![t] = x], Fine(x)'
  PROVE  \A u \in Thread : task'[u] = task[u] \/ Fine(task[u])'
<1>1. task'[t] = x /\ \A u \in Thread : u # t => task'[u] = task[u]
  OBVIOUS
<1> QED
  BY <1>1 DEF Fine, MigTaskOK, SshTaskOK

\* What an approval holds, whichever its kind.
LEMMA AtWork ==
  ASSUME Custody, Knowledge, Work, [Next]_vars, NEW t \in Thread, NEW pc \in Approving, TaskAt(t, pc)
  PROVE  /\ task[t].pc = pc /\ TaskOK(task[t]) /\ Fine(task[t]) /\ DOMAIN task = Thread
         /\ {"pc", "kind", "details", "perms", "rest"} \subseteq DOMAIN task[t]
         /\ task[t].kind \in {"import", "sibling", "read"}
         /\ task[t].perms \subseteq Perm
         /\ \A r \in task[t].rest : MigRequestOK(r)'
<1>1. /\ task[t].pc = pc /\ TaskOK(task[t]) /\ Fine(task[t]) /\ DOMAIN task = Thread
      /\ OwnedIn(task[t]) \subseteq Perm
  BY DEF Custody, Shapes, HandsApart, Work, TasksOK, TaskAt
<1>2. /\ {"pc", "kind", "details", "perms", "rest"} \subseteq DOMAIN task[t]
      /\ task[t].kind \in {"import", "sibling", "read"}
      /\ task[t].kind = "read" => task[t].rest = {}
      /\ OwnedIn(task[t]) = task[t].perms \union PermsOf(task[t].rest)
  BY <1>1 DEF TaskOK, Approving, OwnedIn, PermsIn, RestIn
<1>3. \A r \in task[t].rest : r.perms \subseteq Perm /\ MigRequestOK(r)
  BY <1>1, <1>2 DEF PermsOf, Fine, MigTaskOK
<1>4. \A r \in task[t].rest : MigRequestOK(r)'
  BY <1>3, RequestStays
<1> QED
  BY <1>1, <1>2, <1>4

LEMMA CheckWorks ==
  ASSUME Custody, Knowledge, Work, [Next]_vars, NEW t \in Thread, Check(t)
  PROVE  \A u \in Thread : task'[u] = task[u] \/ Fine(task[u])'
<1>1. /\ task[t].pc = "check" /\ TaskOK(task[t]) /\ Fine(task[t]) /\ DOMAIN task = Thread
      /\ {"pc", "kind", "details", "perms", "rest"} \subseteq DOMAIN task[t]
      /\ task[t].perms \subseteq Perm /\ \A r \in task[t].rest : MigRequestOK(r)'
  BY AtWork DEF Check, Approving
<1>2. CASE Onward(t, task[t].rest)
  BY <1>1, <1>2, OnwardFine
<1>3. CASE StillAsShown(task[t].kind, task[t].details) /\ task' = Step(t, "approve")
  <2>0. PICK x : x = [task[t] EXCEPT !.pc = "approve"]
    OBVIOUS
  <2>1. task' = [task EXCEPT ![t] = x]
    BY <1>1, <1>3, <2>0 DEF Step
  <2>2. /\ x.pc = "approve" /\ x.kind = task[t].kind /\ x.details = task[t].details
        /\ x.perms = task[t].perms /\ x.rest = task[t].rest
    BY <1>1, <2>0
  <2>3. MigTaskOK(x)'
    <3>1. x.kind # "read" => x.details \in MigDetails /\ \A p \in x.perms : ForMig(p, x.details)'
      BY <1>1, <2>2, ForStays DEF Fine, MigTaskOK, Approving
    <3> QED
      BY <1>1, <2>2, <3>1 DEF MigTaskOK
  <2>4. SshTaskOK(x)'
    <3>1. x.kind = "read" => x.details \in SshDetailsSet /\ \A p \in x.perms : ForRead(p, x.details)'
      BY <1>1, <2>2, ForStays DEF Fine, SshTaskOK, Approving
    <3> QED
      BY <1>1, <2>2, <3>1 DEF SshTaskOK
  <2>5. Fine(x)'
    BY <1>1, <2>2, <2>3, <2>4 DEF Fine
  <2> QED
    BY <1>1, <2>1, <2>5, GoesOnFine
<1> QED
  BY <1>2, <1>3 DEF Check

\* The lease of an approval is the one it has just pushed.
LEMMA ApproveWorks ==
  ASSUME Custody, Knowledge, Work, [Next]_vars, NEW t \in Thread,
         ApproveImport(t) \/ ApproveSibling(t) \/ ApproveRead(t)
  PROVE  \A u \in Thread : task'[u] = task[u] \/ Fine(task[u])'
<1>1. /\ task[t].pc = "approve" /\ TaskOK(task[t]) /\ Fine(task[t]) /\ DOMAIN task = Thread
      /\ {"pc", "kind", "details", "perms", "rest"} \subseteq DOMAIN task[t]
      /\ task[t].perms \subseteq Perm /\ \A r \in task[t].rest : MigRequestOK(r)'
      /\ TaskAt(t, "approve")
  BY AtWork DEF ApproveImport, ApproveSibling, ApproveRead, Approving
<1>2. CASE ApproveImport(t) \/ ApproveSibling(t)
  <2>1. /\ task[t].kind # "read" /\ task[t].details \in MigDetails
        /\ \A p \in task[t].perms : ForMig(p, task[t].details)
    BY <1>1, <1>2 DEF ApproveImport, ApproveSibling, Fine, MigTaskOK, Approving
  <2>2. PICK R : Approved(t, Len(migration) + 1, R) /\ \A r \in R : MigRequestOK(r)'
    <3>1. CASE ApproveSibling(t)
      BY <1>1, <3>1 DEF ApproveSibling
    <3>2. CASE ApproveImport(t)
      <4> DEFINE S == Mig!Siblings(MigScopeOf[task[t].details])
      <4>1. Approved(t, Len(migration) + 1, S) /\ S \subseteq migRequests
        BY <3>2 DEF ApproveImport, Mig!Siblings
      <4>2. \A r \in migRequests : MigRequestOK(r) /\ r.perms \subseteq Perm
        BY DEF Work, RequestsOK, Custody, HandsApart, MigPerms, PermsOf
      <4>3. \A r \in S : MigRequestOK(r)'
        BY <4>1, <4>2, RequestStays
      <4> QED
        BY <4>1, <4>3
    <3> QED
      BY <1>2, <3>1, <3>2
  <2>3. PICK x : /\ task' = [task EXCEPT ![t] = x]
                 /\ x.pc = "answer" /\ x.kind = task[t].kind /\ x.details = task[t].details
                 /\ x.perms = task[t].perms /\ x.rest = R /\ x.lease = Len(migration) + 1
    BY <1>1, <2>2, ApprovedTask
  <2>4. /\ x.lease \in DOMAIN migration'
        /\ migration'[x.lease].root = x.details.root /\ migration'[x.lease].profile = x.details.profile
    <3>1. migration' = Append(migration, BoundLease(task[t].details, Expiry(MigrationDuration)))
      BY <1>2 DEF ApproveImport, ApproveSibling
    <3>2. /\ x.lease \in DOMAIN migration'
          /\ migration'[x.lease] = BoundLease(task[t].details, Expiry(MigrationDuration))
      BY <2>3, <3>1 DEF Work, Leases
    <3> QED
      BY <2>1, <2>3, <3>2, NewLease, EsAssumption DEF Knowledge
  <2>5. \A p \in x.perms : ForMig(p, x.details)'
    BY <1>1, <2>1, <2>3, ForStays
  <2>6. Fine(x)'
    BY <1>1, <2>1, <2>2, <2>3, <2>4, <2>5 DEF Fine, MigTaskOK, SshTaskOK
  <2> QED
    BY <1>1, <2>3, <2>6, GoesOnFine
<1>3. CASE ApproveRead(t)
  <2>1. /\ task[t].kind = "read" /\ task[t].details \in SshDetailsSet
        /\ \A p \in task[t].perms : ForRead(p, task[t].details)
    BY <1>1, <1>3 DEF ApproveRead, Fine, SshTaskOK, Approving
  <2>2. PICK x : /\ task' = [task EXCEPT ![t] = x]
                 /\ x.pc = "answer" /\ x.kind = task[t].kind /\ x.details = task[t].details
                 /\ x.perms = task[t].perms /\ x.rest = {} /\ x.lease = Len(sshRead) + 1
    BY <1>1, <1>3, ApprovedTask DEF ApproveRead
  <2>3. /\ x.lease \in DOMAIN sshRead'
        /\ sshRead'[x.lease].root = x.details.target /\ sshRead'[x.lease].res = x.details.res
    <3>1. sshRead' = Append(sshRead, ReadLease(task[t].details, Expiry(ReadDuration)))
      BY <1>3 DEF ApproveRead
    <3>2. /\ x.lease \in DOMAIN sshRead'
          /\ sshRead'[x.lease] = ReadLease(task[t].details, Expiry(ReadDuration))
      BY <2>2, <3>1 DEF Work, Leases
    <3> QED
      BY <2>1, <2>2, <3>2, NewLease, EsAssumption DEF Knowledge
  <2>4. \A p \in x.perms : ForRead(p, x.details)'
    BY <1>1, <2>1, <2>2, ForStays
  <2>5. Fine(x)'
    BY <1>1, <2>1, <2>2, <2>3, <2>4 DEF Fine, MigTaskOK, SshTaskOK
  <2> QED
    BY <1>1, <2>2, <2>5, GoesOnFine
<1> QED
  BY <1>2, <1>3

LEMMA AnswerWorks ==
  ASSUME Custody, Knowledge, Work, [Next]_vars, NEW t \in Thread, Answer(t)
  PROVE  \A u \in Thread : task'[u] = task[u] \/ Fine(task[u])'
<1>1. /\ task[t].pc = "answer" /\ TaskOK(task[t]) /\ Fine(task[t]) /\ DOMAIN task = Thread
      /\ {"pc", "kind", "details", "perms", "rest"} \subseteq DOMAIN task[t]
      /\ task[t].perms \subseteq Perm /\ \A r \in task[t].rest : MigRequestOK(r)'
  BY AtWork DEF Answer, Approving
<1>2. CASE Onward(t, task[t].rest)
  BY <1>1, <1>2, OnwardFine
<1>3. CASE task' = [task EXCEPT ![t].pc = "withdraw", ![t].perms = {}]
  <2>0. PICK x : x = [task[t] EXCEPT !.pc = "withdraw", !.perms = {}]
    OBVIOUS
  <2>1. task' = [task EXCEPT ![t] = x]
    BY <1>1, <1>3, <2>0
  <2>2. /\ x.pc = "withdraw" /\ x.kind = task[t].kind /\ x.details = task[t].details
        /\ x.perms = {} /\ x.rest = task[t].rest /\ x.lease = task[t].lease
    BY <1>1, <2>0
  <2>3. UNCHANGED <<migration, sshRead>>
    BY DEF Answer, leases
  <2>4. Fine(x)'
    BY <1>1, <2>2, <2>3 DEF Fine, MigTaskOK, SshTaskOK, Approving
  <2> QED
    BY <1>1, <2>1, <2>4, GoesOnFine
<1> QED
  BY <1>2, <1>3 DEF Answer

LEMMA WithdrawWorks ==
  ASSUME Custody, Knowledge, Work, [Next]_vars, NEW t \in Thread,
         WithdrawImport(t) \/ WithdrawSibling(t) \/ WithdrawRead(t) \/ Refuse(t)
  PROVE  \A u \in Thread : task'[u] = task[u] \/ Fine(task[u])'
<1>1. DOMAIN task = Thread
  BY DEF Custody, Shapes
<1>2. CASE WithdrawSibling(t)
  <2>1. \A r \in task[t].rest : MigRequestOK(r)'
    BY <1>2, AtWork DEF WithdrawSibling, Approving
  <2> QED
    BY <1>1, <1>2, <2>1, OnwardFine DEF WithdrawSibling
<1>3. CASE WithdrawImport(t) \/ WithdrawRead(t) \/ Refuse(t)
  <2>1. Onward(t, {})
    BY <1>3 DEF WithdrawImport, WithdrawRead, Refuse
  <2>2. \A r \in {} : MigRequestOK(r)'
    OBVIOUS
  <2> QED
    BY <1>1, <2>1, <2>2, OnwardFine
<1> QED
  BY <1>2, <1>3

LEMMA TaskStepWorks ==
  ASSUME Custody, Knowledge, Work, [Next]_vars, NEW t \in Thread, TaskStep(t)
  PROVE  Work'
<1>1. \A u \in Thread : task'[u] = task[u] \/ Fine(task[u])'
  BY CheckWorks, ApproveWorks, AnswerWorks, WithdrawWorks DEF TaskStep
<1>2. migRequests' \subseteq migRequests /\ sshRequests' = sshRequests
  BY DEF TaskStep, Check, ApproveImport, ApproveSibling, ApproveRead, Answer, WithdrawImport,
     WithdrawSibling, WithdrawRead, Refuse, migStore, sshStore, Mig!RecordApproval, Mig!Remove
<1> QED
  BY <1>1, <1>2, WorkFrom

\* An open joins the request of its import, or is the first of it.
LEMMA HandleMigrationWorks ==
  ASSUME Custody, Knowledge, Work, [Next]_vars, HandleMigration
  PROVE  Work'
<1> DEFINE d == [target |-> Id.self, root |-> Id.self, profile |-> ProfileOf[Res]]
<1>1. /\ Handling /\ Id # None /\ "read" \in Flags /\ Judgement.kind = "askMigration"
      /\ Mig!Enqueue(Event, d) /\ UNCHANGED sshRequests
      /\ IF perm'[Event] = "taken"
         THEN task' = [task EXCEPT ![Main] = Approval("sibling", d, {Event}, {})]
         ELSE UNCHANGED task
  BY DEF HandleMigration, ToJudge, sshStore
<1>2. /\ Event \in Perm /\ ask[Event] # None /\ Res \in Resource /\ Id.self \in Stable
      /\ TakenFor(ask[Event].inst, Id.self.inst)
  BY <1>1, AtEvent, Judged
<1>3. KindOf[Res] = "browser" /\ ProfileOf[Res] \in Profile /\ Id.self.exe \in Trusted
  <2>1. KindOf[Res] = "browser" /\ IsTrustedBrowser(Id)
    BY <1>1, <1>2, JudgedKind, CoreAssumption
  <2>2. Id.self.exe \in Trusted
    BY <2>1 DEF IsTrustedBrowser, BrowserOfIdentity, Trusted
  <2> QED
    BY <1>2, <2>1, <2>2, CoreAssumption
<1>4. PICK e : e = d
  OBVIOUS
<1>5. e \in MigDetails /\ e.root = Id.self /\ e.target = Id.self /\ e.profile = ProfileOf[Res]
  BY <1>2, <1>3, <1>4 DEF MigDetails, Stable
<1>6. /\ Mig!Enqueue(Event, e)
      /\ IF perm'[Event] = "taken"
         THEN task' = [task EXCEPT ![Main] = Approval("sibling", e, {Event}, {})]
         ELSE UNCHANGED task
  BY <1>1, <1>4
<1> HIDE DEF d
<1>7. PICK p \in Perm : p = Event
  BY <1>2
<1>8. \A f \in MigDetails : MigKeyOf[f] = MigKeyOf[e] => ForMig(p, f)
  <2>1. \A f \in MigDetails : MigKeyOf[f].root = f.root /\ MigKeyOf[f].profile = f.profile
    BY DEF MigKeyOf
  <2>2. ForMig(p, e)
    BY <1>1, <1>2, <1>3, <1>5, <1>7 DEF ForMig, Res, Flags
  <2> QED
    BY <1>5, <2>1, <2>2 DEF ForMig
<1>9. \A f \in MigDetails : MigKeyOf[f] = MigKeyOf[e] => ForMig(p, f)'
  BY <1>8, ForStays
<1>10. \A r \in migRequests : MigRequestOK(r) /\ r.perms \subseteq Perm
  BY DEF Work, RequestsOK, Custody, HandsApart, MigPerms, PermsOf
<1>11. \A r \in migRequests' : r \in migRequests \/ MigRequestOK(r)'
  <2>1. CASE Mig!JoinRequest(p, e)
    <3>1. PICK r \in migRequests : /\ MigKeyOf[r.details] = MigKeyOf[e]
            /\ migRequests' = (migRequests \ {r}) \union {[r EXCEPT !.perms = @ \union {p}]}
      BY <2>1 DEF Mig!JoinRequest, Mig!Pending
    <3>2. PICK n : n = [r EXCEPT !.perms = @ \union {p}]
      OBVIOUS
    <3>3. n.perms = r.perms \union {p} /\ n.details = r.details
      BY <3>2 DEF Custody, Shapes, RequestFields
    <3>4. ForMig(p, r.details)' /\ MigRequestOK(r)'
      BY <1>9, <1>10, <3>1, RequestStays DEF MigRequestOK
    <3>5. MigRequestOK(n)'
      BY <3>3, <3>4 DEF MigRequestOK
    <3> QED
      BY <3>1, <3>2, <3>5
  <2>2. CASE Mig!CreateRequest(p, e)
    <3>1. PICK n : n = [id |-> migNextId + 1, details |-> e, perms |-> {p},
                        expires |-> Mig!SatAdd(now, Timeout)]
      OBVIOUS
    <3>2. migRequests' = migRequests \union {n}
      BY <2>2, <3>1 DEF Mig!CreateRequest
    <3>3. n.perms = {p} /\ n.details = e
      BY <3>1
    <3>4. MigRequestOK(n)'
      BY <1>5, <1>9, <3>3 DEF MigRequestOK
    <3> QED
      BY <3>2, <3>4
  <2>3. CASE \/ Mig!DenySuppressed(p, e) \/ Mig!DenyFullRequest(p, e) \/ Mig!DenyFullStore(p, e)
             \/ Mig!ReturnRecentlyApproved(p, e)
    BY <2>3 DEF Mig!DenySuppressed, Mig!DenyFullRequest, Mig!DenyFullStore, Mig!ReturnRecentlyApproved
  <2> QED
    BY <1>6, <1>7, <2>1, <2>2, <2>3 DEF Mig!Enqueue
<1>12. \A u \in Thread : task'[u] = task[u] \/ Fine(task[u])'
  <2>1. CASE UNCHANGED task
    BY <2>1
  <2>2. CASE task' = [task EXCEPT ![Main] = Approval("sibling", e, {p}, {})]
    <3>1. PICK x : x = Approval("sibling", e, {p}, {})
      OBVIOUS
    <3>2. /\ x.pc = "check" /\ x.kind = "sibling" /\ x.details = e /\ x.perms = {p} /\ x.rest = {}
      BY <3>1 DEF Approval
    <3>3. Fine(x)'
      BY <1>5, <1>9, <3>2 DEF Fine, MigTaskOK, SshTaskOK
    <3>4. DOMAIN task = Thread /\ Main \in Thread /\ task' = [task EXCEPT ![Main] = x]
      BY <2>2, <3>1 DEF Custody, Shapes, Thread
    <3> QED
      BY <3>3, <3>4, GoesOnFine
  <2> QED
    BY <1>6, <1>7, <2>1, <2>2
<1> QED
  BY <1>1, <1>11, <1>12, WorkFrom

LEMMA HandleReadWorks ==
  ASSUME Custody, Knowledge, Work, [Next]_vars, HandleRead
  PROVE  Work'
<1>1. /\ Handling /\ Id # None /\ ~ToWriteKey /\ Judgement.kind = "askSsh"
      /\ Ssh!Enqueue(Event, ReadDetails) /\ UNCHANGED <<migRequests, task>>
  BY DEF HandleRead, ToJudge, ReadDetails, migStore
<1>2. /\ Event \in Perm /\ Event \in Queued /\ ask[Event] # None /\ shown[Event] \in Facts
      /\ TakenFor(ask[Event].inst, Id.self.inst)
  BY <1>1, AtEvent, Judged
<1>3. KindOf[Res] = "ssh" /\ "read" \in shown[Event].flags
  BY <1>1, JudgedKind DEF ToWriteKey, Flags
<1>4. PICK e : e = ReadDetails
  OBVIOUS
<1>5. e \in SshDetailsSet /\ e.target = Id.self /\ e.res = Res /\ e.file = shown[Event].file
  BY <1>4, ReadDetailsOK DEF ReadDetails
<1>6. PICK p \in Perm : p = Event
  BY <1>2
<1>7. Ssh!Enqueue(p, e)
  BY <1>1, <1>4, <1>6
<1>8. \A f \in SshDetailsSet : SshKeyOf[f] = SshKeyOf[e] => ForRead(p, f)
  <2>1. \A f \in SshDetailsSet : /\ SshKeyOf[f].root = f.target /\ SshKeyOf[f].res = f.res
                                 /\ SshKeyOf[f].file = f.file
    BY DEF SshKeyOf
  <2>2. /\ ask[p] # None /\ KindOf[ask[p].res] = "ssh" /\ ask[p].res = e.res
        /\ "read" \in shown[p].flags /\ TakenFor(ask[p].inst, e.target.inst)
    BY <1>2, <1>3, <1>5, <1>6 DEF Res
  <2> QED
    BY <1>5, <1>6, <2>1, <2>2 DEF ForRead
<1>9. \A f \in SshDetailsSet : SshKeyOf[f] = SshKeyOf[e] => ForRead(p, f)'
  BY <1>8, ForStays
<1>10. \A r \in sshRequests : SshRequestOK(r) /\ r.perms \subseteq Perm
  BY DEF Work, RequestsOK, Custody, HandsApart, SshPerms, PermsOf
<1>11. \A r \in sshRequests' : r \in sshRequests \/ SshRequestOK(r)'
  <2>1. CASE Ssh!JoinRequest(p, e)
    <3>1. PICK r \in sshRequests : /\ SshKeyOf[r.details] = SshKeyOf[e]
            /\ sshRequests' = (sshRequests \ {r}) \union {[r EXCEPT !.perms = @ \union {p}]}
      BY <2>1 DEF Ssh!JoinRequest, Ssh!Pending
    <3>2. PICK n : n = [r EXCEPT !.perms = @ \union {p}]
      OBVIOUS
    <3>3. n.perms = r.perms \union {p} /\ n.details = r.details
      BY <3>2 DEF Custody, Shapes, RequestFields
    <3>4. ForRead(p, r.details)' /\ SshRequestOK(r)'
      BY <1>9, <1>10, <3>1, RequestStays DEF SshRequestOK
    <3>5. SshRequestOK(n)'
      BY <3>3, <3>4 DEF SshRequestOK
    <3> QED
      BY <3>1, <3>2, <3>5
  <2>2. CASE Ssh!CreateRequest(p, e)
    <3>1. PICK n : n = [id |-> sshNextId + 1, details |-> e, perms |-> {p},
                        expires |-> Ssh!SatAdd(now, Timeout)]
      OBVIOUS
    <3>2. sshRequests' = sshRequests \union {n}
      BY <2>2, <3>1 DEF Ssh!CreateRequest
    <3>3. n.perms = {p} /\ n.details = e
      BY <3>1
    <3>4. SshRequestOK(n)'
      BY <1>5, <1>9, <3>3 DEF SshRequestOK
    <3> QED
      BY <3>2, <3>4
  <2>3. CASE \/ Ssh!DenySuppressed(p, e) \/ Ssh!DenyFullRequest(p, e) \/ Ssh!DenyFullStore(p, e)
             \/ Ssh!ReturnRecentlyApproved(p, e)
    BY <2>3 DEF Ssh!DenySuppressed, Ssh!DenyFullRequest, Ssh!DenyFullStore, Ssh!ReturnRecentlyApproved
  <2> QED
    BY <1>7, <2>1, <2>2, <2>3 DEF Ssh!Enqueue
<1> QED
  BY <1>1, <1>11, WorkFrom

LEMMA MainWorks ==
  ASSUME Custody, Knowledge, Work, [Next]_vars, MainStep
  PROVE  Work'
<1>1. CASE ~HandleMigration /\ ~HandleRead
  <2>1. UNCHANGED task /\ migRequests' \subseteq migRequests /\ sshRequests' \subseteq sshRequests
    BY <1>1 DEF MainStep, HandleUnknown, HandleWriteOfKey, HandleTool, HandleDecided, HandleUnasked,
       ReceiveNothing, MaintainMigrations, MaintainReads, Handled, migStore, sshStore,
       Mig!Expire, Mig!Remove, Ssh!Expire, Ssh!Remove
  <2> QED
    BY <2>1, WorkFrom
<1> QED
  BY <1>1, HandleMigrationWorks, HandleReadWorks

\* What a user has answered goes on as it was asked.
LEMMA XpcWorks ==
  ASSUME Custody, Knowledge, Work, [Next]_vars, NEW x \in Xpc, XpcRequest(x)
  PROVE  Work'
<1>0. DOMAIN task = Thread /\ x \in Thread
  BY DEF Custody, Shapes, Thread
<1>1. ASSUME NEW r \in migRequests, NEW u, NEW block, XpcResolveMigration(x, r, u, block)
      PROVE  Work'
  <2>1. migRequests' \subseteq migRequests /\ UNCHANGED sshRequests
    BY <1>1 DEF XpcResolveMigration, sshStore, Mig!TakeTimedOut, Mig!TakeReady, Mig!Remove
  <2>2. MigRequestOK(r)'
    BY RequestStays DEF Work, RequestsOK, Custody, HandsApart, MigPerms, PermsOf
  <2>3. UNCHANGED task \/ Resolution(x, "import", r, block)
    BY <1>1 DEF XpcResolveMigration
  <2>4. PICK y : y = IF block THEN [pc |-> "refuse", perms |-> r.perms]
                     ELSE Approval("import", r.details, r.perms, {})
    OBVIOUS
  <2>5. Fine(y)'
    BY <2>2, <2>4 DEF Fine, MigTaskOK, SshTaskOK, MigRequestOK, Approval, Approving
  <2>6. \A v \in Thread : task'[v] = task[v] \/ Fine(task[v])'
    <3>1. CASE task' = [task EXCEPT ![x] = y]
      BY <1>0, <2>5, <3>1, GoesOnFine
    <3> QED
      BY <2>3, <2>4, <3>1 DEF Resolution
  <2> QED
    BY <2>1, <2>6, WorkFrom
<1>2. ASSUME NEW r \in sshRequests, NEW u, NEW block, XpcResolveRead(x, r, u, block)
      PROVE  Work'
  <2>1. sshRequests' \subseteq sshRequests /\ UNCHANGED migRequests
    BY <1>2 DEF XpcResolveRead, migStore, Ssh!TakeTimedOut, Ssh!TakeReady, Ssh!Remove
  <2>2. SshRequestOK(r)'
    BY RequestStays DEF Work, RequestsOK, Custody, HandsApart, SshPerms, PermsOf
  <2>3. UNCHANGED task \/ Resolution(x, "read", r, block)
    BY <1>2 DEF XpcResolveRead
  <2>4. PICK y : y = IF block THEN [pc |-> "refuse", perms |-> r.perms]
                     ELSE Approval("read", r.details, r.perms, {})
    OBVIOUS
  <2>5. Fine(y)'
    BY <2>2, <2>4 DEF Fine, MigTaskOK, SshTaskOK, SshRequestOK, Approval, Approving
  <2>6. \A v \in Thread : task'[v] = task[v] \/ Fine(task[v])'
    <3>1. CASE task' = [task EXCEPT ![x] = y]
      BY <1>0, <2>5, <3>1, GoesOnFine
    <3> QED
      BY <2>3, <2>4, <3>1 DEF Resolution
  <2> QED
    BY <2>1, <2>6, WorkFrom
<1>3. CASE (\E u \in Clients : XpcRevoke(x, u)) \/ \E secs \in 0..MaxDisabled : XpcDisableSuppression(x, secs)
  BY <1>3, WorkFrom DEF XpcRevoke, XpcDisableSuppression, migStore, sshStore
<1> QED
  BY <1>1, <1>2, <1>3 DEF XpcRequest

LEMMA NextKeepsWork ==
  ASSUME Custody, Knowledge, Work, [Next]_vars
  PROVE  Work'
<1>1. CASE Environment \/ Tick \/ UNCHANGED vars
  <2>1. UNCHANGED <<task, migRequests, sshRequests>>
    BY <1>1 DEF Environment, Tick, Spawn, Exit, Exec, Open, EnrolTool, ReplaceFile, LearnNews,
       LearnOpen, TimesOut, service, migStore, sshStore, vars
  <2> QED
    BY <2>1, WorkFrom
<1>2. CASE MainStep
  BY <1>2, MainWorks
<1>3. CASE \E t \in Thread : TaskStep(t)
  BY <1>3, TaskStepWorks
<1>4. CASE \E x \in Serving : XpcRequest(x)
  BY <1>4, XpcWorks, EsAssumption DEF Knowledge, World, Serving
<1> QED
  BY <1>1, <1>2, <1>3, <1>4 DEF Next, Thread

\* Custody, knowledge and work support one another.
IInv == Custody /\ Knowledge /\ Work

LEMMA InitWork == Init => Work
<1> SUFFICES ASSUME Init PROVE Work
  OBVIOUS
<1>1. Leases /\ RequestsOK
  BY DEF Init, Leases, RequestsOK
<1>2. \A t \in Thread : task[t] = Idle /\ Idle.pc = "idle"
  BY DEF Init, Thread, Idle
<1>3. TasksOK
  BY <1>2 DEF TasksOK, Fine, MigTaskOK, SshTaskOK, Approving
<1> QED
  BY <1>1, <1>3 DEF Work

\* The invariant of the service: whatever handle_at, the callbacks, the resolutions and
\* the deadline thread do between two acquisitions of the policy lock, every open has
\* one owner and what is kept for it fits it.
THEOREM Invariance == Spec => []IInv
<1>1. Init => IInv
  BY InitCustody, InitKnowledge, InitWork DEF IInv
<1>2. IInv /\ [Next]_vars => IInv'
  <2> SUFFICES ASSUME IInv, [Next]_vars PROVE IInv'
    OBVIOUS
  <2>1. Custody /\ Knowledge /\ Work
    BY DEF IInv
  <2>2. Knowledge' /\ Work'
    BY <2>1, NextKeepsKnowledge, NextKeepsWork
  <2>3. Custody'
    BY <2>1, NextKeepsCustody, ReadDetailsOK DEF Knowledge, World
  <2> QED
    BY <2>2, <2>3 DEF IInv
<1> QED
  BY <1>1, <1>2, PTL DEF Spec

\* No permission is lost and none is answered twice: the callbacks, the main loop
\* and any number of XPC threads hand each over and never share it, through every
\* failure of an approval (resolve_migration, resolve_ssh_read, approve_recent).
THEOREM OneHandAlways == Spec => []OneHand
BY Invariance, CustodyOneHand, PTL DEF IInv

\* An open that waits for a prompt of a key.
LEMMA Prompted ==
  ASSUME IInv, NEW p \in Perm, NEW d \in PromptsOf(p)
  PROVE  /\ d.file = shown[p].file
         /\ \/ \E r \in sshRequests : p \in r.perms /\ r.details = d
            \/ \E t \in Thread : TaskAt(t, "check") /\ task[t].kind = "read" /\ p \in task[t].perms
                                  /\ task[t].details = d
<1>1. DOMAIN task = Thread
  BY DEF IInv, Custody, Shapes
<1>2. CASE \E r \in sshRequests : p \in r.perms /\ r.details = d
  BY <1>2 DEF IInv, Work, RequestsOK, SshRequestOK, ForRead
<1>3. CASE \E t \in Thread : TaskAt(t, "check") /\ task[t].kind = "read" /\ p \in task[t].perms
                            /\ task[t].details = d
  BY <1>3 DEF IInv, Work, TasksOK, Fine, SshTaskOK, Approving, TaskAt, ForRead
<1> QED
  BY <1>1, <1>2, <1>3 DEF PromptsOf

\* A request of the store is kept, perhaps joined, or denied, or taken by a thread.
LEMMA RequestFate ==
  ASSUME IInv, [Next]_vars, NEW r \in sshRequests, NEW p \in Perm, p \in r.perms
  PROVE  \/ \E q \in sshRequests' : p \in q.perms
         \/ perm'[p] = "denied"
         \/ \E x \in Xpc, block \in BOOLEAN : Resolution(x, "read", r, block)
<1> DEFINE Goal == \/ \E q \in sshRequests' : p \in q.perms
                   \/ perm'[p] = "denied"
                   \/ \E x \in Xpc, block \in BOOLEAN : Resolution(x, "read", r, block)
<1>0. Custody /\ perm \in [Perm -> Mig!PermState] /\ DOMAIN r = RequestFields
  BY DEF IInv, Custody, StatesOK, Shapes
<1>1. ASSUME NEW R, sshRequests' = sshRequests \ R, perm' = Ssh!Marked(UNION {q.perms : q \in R}, "denied")
      PROVE  Goal
  <2>1. CASE r \in R
    BY <1>1, <2>1 DEF Ssh!Marked
  <2>2. CASE r \notin R
    BY <1>1, <2>2
  <2> QED
    BY <2>1, <2>2
<1>2. CASE Environment \/ Tick \/ UNCHANGED vars \/ \E t \in Thread : TaskStep(t)
  <2>1. UNCHANGED sshRequests
    BY <1>2 DEF Environment, Tick, Spawn, Exit, Exec, Open, EnrolTool, ReplaceFile, LearnNews,
       LearnOpen, TimesOut, service, sshStore, vars, TaskStep, Check, ApproveImport, ApproveSibling,
       ApproveRead, Answer, WithdrawImport, WithdrawSibling, WithdrawRead, Refuse
  <2> QED
    BY <2>1
<1>3. CASE HandleRead
  <2>1. PICK e : Ssh!Enqueue(Event, e)
    BY <1>3 DEF HandleRead
  <2>2. CASE Ssh!JoinRequest(Event, e)
    <3>1. PICK q \in sshRequests :
            sshRequests' = (sshRequests \ {q}) \union {[q EXCEPT !.perms = @ \union {Event}]}
      BY <2>2 DEF Ssh!JoinRequest, Ssh!Pending
    <3>2. PICK n : n = [q EXCEPT !.perms = @ \union {Event}]
      OBVIOUS
    <3>3. n.perms = q.perms \union {Event}
      BY <3>2 DEF IInv, Custody, Shapes, RequestFields
    <3> QED
      BY <3>1, <3>2, <3>3
  <2>3. CASE ~Ssh!JoinRequest(Event, e)
    <3>1. sshRequests \subseteq sshRequests'
      BY <2>1, <2>3 DEF Ssh!Enqueue, Ssh!DenySuppressed, Ssh!DenyFullRequest, Ssh!DenyFullStore,
         Ssh!ReturnRecentlyApproved, Ssh!CreateRequest
    <3> QED
      BY <3>1
  <2> QED
    BY <2>2, <2>3
<1>4. CASE MaintainReads
  BY <1>1, <1>4 DEF MaintainReads, Ssh!Expire, Ssh!Remove
<1>5. CASE MainStep /\ ~HandleRead /\ ~MaintainReads
  <2>1. UNCHANGED sshRequests
    BY <1>5 DEF MainStep, HandleUnknown, HandleWriteOfKey, HandleTool, HandleDecided, HandleUnasked,
       HandleMigration, ReceiveNothing, MaintainMigrations, Handled, sshStore
  <2> QED
    BY <2>1
<1>6. ASSUME NEW x \in Xpc, XpcRequest(x) PROVE Goal
  <2>1. ASSUME NEW q \in sshRequests, NEW u, NEW block \in BOOLEAN, XpcResolveRead(x, q, u, block)
        PROVE  Goal
    <3>1. CASE Ssh!TakeTimedOut(q, u)
      <4>1. sshRequests' = sshRequests \ {q} /\ perm' = Ssh!Marked(UNION {y.perms : y \in {q}}, "denied")
        BY <3>1 DEF Ssh!TakeTimedOut, Ssh!Remove
      <4> QED
        BY <1>1, <4>1
    <3>2. CASE Ssh!TakeReady(q, u, block) /\ Resolution(x, "read", q, block)
      BY <3>2 DEF Ssh!TakeReady, Ssh!Remove
    <3> QED
      BY <2>1, <3>1, <3>2 DEF XpcResolveRead
  <2>2. CASE UNCHANGED sshRequests
    BY <2>2
  <2>3. \/ \E q \in sshRequests, block \in BOOLEAN : \E u : XpcResolveRead(x, q, u, block)
        \/ UNCHANGED sshRequests
    BY <1>6 DEF XpcRequest, XpcResolveMigration, XpcRevoke, XpcDisableSuppression, sshStore
  <2> QED
    BY <2>1, <2>2, <2>3
<1> QED
  BY <1>2, <1>3, <1>4, <1>5, <1>6, EsAssumption DEF Next, Thread, Serving, IInv, Knowledge, World

\* Only its own thread goes on with a task.
LEMMA OwnThread ==
  ASSUME IInv, [Next]_vars, NEW t \in Thread, task[t].pc # "idle"
  PROVE  task'[t] = task[t] \/ TaskStep(t)
<1>0. DOMAIN task = Thread
  BY DEF IInv, Custody, Shapes
<1>1. CASE Environment \/ Tick \/ UNCHANGED vars
  BY <1>1 DEF Environment, Tick, Spawn, Exit, Exec, Open, EnrolTool, ReplaceFile, LearnNews,
     LearnOpen, TimesOut, service, vars
<1>2. CASE MainStep
  <2>1. CASE HandleMigration
    <3>1. task[Main].pc = "idle"
      BY <2>1, AtEvent DEF HandleMigration, ToJudge, IInv
    <3>2. UNCHANGED task \/ \E y : task' = [task EXCEPT ![Main] = y]
      BY <2>1 DEF HandleMigration
    <3> QED
      BY <1>0, <3>1, <3>2
  <2>2. CASE ~HandleMigration
    BY <1>2, <2>2 DEF MainStep, HandleUnknown, HandleWriteOfKey, HandleTool, HandleDecided,
       HandleUnasked, HandleRead, ReceiveNothing, MaintainMigrations, MaintainReads, Handled
  <2> QED
    BY <2>1, <2>2
<1>3. ASSUME NEW u \in Thread, TaskStep(u) PROVE task'[t] = task[t] \/ TaskStep(t)
  <2>1. CASE u = t
    BY <1>3, <2>1
  <2>2. CASE u # t
    <3>1. \E y : task' = [task EXCEPT ![u] = y]
      BY <1>0, <1>3 DEF TaskStep, Check, ApproveImport, ApproveSibling, ApproveRead, Answer, WithdrawImport,
         WithdrawSibling, WithdrawRead, Refuse, Onward, Step, Approved
    <3> QED
      BY <1>0, <2>2, <3>1
  <2> QED
    BY <2>1, <2>2
<1>4. ASSUME NEW x \in Xpc, XpcRequest(x) PROVE task'[t] = task[t]
  <2>1. UNCHANGED task \/ (task[x] = Idle /\ \E y : task' = [task EXCEPT ![x] = y])
    BY <1>4 DEF XpcRequest, XpcResolveMigration, XpcResolveRead, XpcRevoke, XpcDisableSuppression,
       Free, Resolution
  <2> QED
    BY <1>0, <2>1 DEF Idle
<1> QED
  BY <1>1, <1>2, <1>3, <1>4, EsAssumption DEF Next, Thread, Serving, IInv, Knowledge, World

\* An open whose prompt is stale is let in by nobody.
LEMMA StaleStays ==
  ASSUME IInv, [Next]_vars, NEW p \in Perm, NEW d \in PromptsOf(p),
         shown[p].file # file \/ ~KnownLive(d.target)
  PROVE  perm'[p] = "denied" \/ PromptsOf(p)' # {} \/ BeingRefused(p)'
<1>0. DOMAIN task = Thread /\ Xpc \subseteq Thread /\ perm \in [Perm -> Mig!PermState]
  BY DEF IInv, Custody, Shapes, StatesOK, Thread
<1>1. d.file = shown[p].file
  BY Prompted
<1>2. ASSUME NEW r \in sshRequests, p \in r.perms
      PROVE  perm'[p] = "denied" \/ PromptsOf(p)' # {} \/ BeingRefused(p)'
  <2>1. CASE \E q \in sshRequests' : p \in q.perms
    BY <2>1 DEF PromptsOf
  <2>2. ASSUME NEW x \in Xpc, NEW block \in BOOLEAN, Resolution(x, "read", r, block)
        PROVE  PromptsOf(p)' # {} \/ BeingRefused(p)'
    <3>1. PICK y : y = IF block THEN [pc |-> "refuse", perms |-> r.perms]
                       ELSE Approval("read", r.details, r.perms, {})
      OBVIOUS
    <3>2. x \in DOMAIN task' /\ task'[x] = y
      BY <1>0, <2>2, <3>1 DEF Resolution
    <3>3. CASE block
      BY <1>2, <3>1, <3>2, <3>3 DEF BeingRefused, TaskAt
    <3>4. CASE ~block
      <4>1. y.pc = "check" /\ y.kind = "read" /\ p \in y.perms
        BY <1>2, <3>1, <3>4 DEF Approval
      <4> QED
        BY <3>2, <4>1 DEF PromptsOf, TaskAt
    <3> QED
      BY <3>3, <3>4
  <2> QED
    BY <1>2, <2>1, <2>2, RequestFate
<1>3. ASSUME NEW t \in Thread, TaskAt(t, "check"), task[t].kind = "read", p \in task[t].perms,
             task[t].details = d
      PROVE  perm'[p] = "denied" \/ PromptsOf(p)' # {}
  <2>1. CASE task'[t] = task[t]
    <3>1. t \in DOMAIN task'
      BY <1>0, NextKeepsCustody, ReadDetailsOK DEF IInv, Custody, Shapes, Knowledge, World
    <3> QED
      BY <1>3, <2>1, <3>1 DEF PromptsOf, TaskAt
  <2>2. CASE Check(t)
    <3>1. ~StillAsShown("read", d)
      BY <1>1 DEF StillAsShown
    <3>2. perm' = Mig!Marked(task[t].perms, "denied")
      BY <1>3, <2>2, <3>1 DEF Check
    <3> QED
      BY <1>3, <3>2 DEF Mig!Marked
  <2>3. task'[t] = task[t] \/ Check(t)
    <3>1. task'[t] = task[t] \/ TaskStep(t)
      BY <1>3, OwnThread DEF TaskAt
    <3> QED
      BY <1>3, <3>1 DEF TaskStep, ApproveImport, ApproveSibling, ApproveRead, Answer, WithdrawImport,
         WithdrawSibling, WithdrawRead, Refuse, TaskAt
  <2> QED
    BY <2>1, <2>2, <2>3
<1> QED
  BY <1>2, <1>3, Prompted

\* A prompt of a key that no longer says how things are lets nobody in: its key was
\* replaced since the open that waits for it, or its reader is not the process of its
\* pid any more.  Joins, limits, sweeps and users may do what they like with the
\* request: the open stays with it or is denied (revalidate_ssh_pending).
THEOREM StalePromptsStayShut == Spec => StalePromptStaysShut
<1>1. IInv /\ [Next]_vars => [\A p \in Perm : \A d \in PromptsOf(p) : shown[p].file # file \/ ~KnownLive(d.target) =>
        perm'[p] = "denied" \/ PromptsOf(p)' # {} \/ BeingRefused(p)']_vars
  BY StaleStays
<1> QED
  BY <1>1, Invariance, PTL DEF Spec, StalePromptStaysShut

-----------------------------------------------------------------------------
(***************************************************************************)
(* What the kernel is told.                                                *)
(***************************************************************************)
\* How a step answers: not at all, by a deadline, or the permissions it marks.
LEMMA HowAnswered ==
  ASSUME [Next]_vars
  PROVE  \/ UNCHANGED reply
         \/ \E p \in Perm : ask[p] # None /\ reply[p] = None /\ reply' = [reply EXCEPT ![p] = {}]
                            /\ UNCHANGED <<ask, shown>>
         \/ \E how \in {"exact", "readOnly"} : Reply(how) /\ UNCHANGED <<ask, shown>>
<1>1. CASE Environment
  BY <1>1 DEF Environment, Spawn, Exit, Exec, Open, EnrolTool, ReplaceFile, LearnNews, LearnOpen, TimesOut
<1>2. CASE Tick \/ UNCHANGED vars
  BY <1>2 DEF Tick, vars
<1>3. CASE MainStep
  BY <1>3 DEF MainStep, HandleUnknown, HandleWriteOfKey, HandleTool, HandleDecided, HandleUnasked,
     HandleMigration, HandleRead, ReceiveNothing, MaintainMigrations, MaintainReads, Handled, outside
<1>4. CASE \E t \in Thread : TaskStep(t)
  BY <1>4 DEF TaskStep, Check, ApproveImport, ApproveSibling, ApproveRead, Answer, WithdrawImport,
     WithdrawSibling, WithdrawRead, Refuse, own
<1>5. CASE \E x \in Serving : XpcRequest(x)
  BY <1>5 DEF XpcRequest, XpcResolveMigration, XpcResolveRead, XpcRevoke, XpcDisableSuppression, outside
<1> QED
  BY <1>1, <1>2, <1>3, <1>4, <1>5 DEF Next, Thread

\* An answer is for an open that was made, is never taken back, and allows what the
\* step that marked the permission grants.
LEMMA Answers ==
  ASSUME IInv, Custody', RepliesOK, [Next]_vars
  PROVE  /\ RepliesOK'
         /\ \A p \in Perm : reply[p] # None => reply'[p] = reply[p]
         /\ \A p \in Perm : reply'[p] # reply[p] =>
              /\ reply[p] = None /\ ask[p] # None
              /\ reply'[p] # {} =>
                   /\ perm[p] # "allowed" /\ perm'[p] = "allowed"
                   /\ \E how \in {"exact", "readOnly"} : Reply(how) /\ reply'[p] = Granted(how, p)
<1>1. \A p \in Perm : ask[p] # None => ask'[p] # None /\ shown[p].flags \in SUBSET Flag
  BY Grows DEF IInv, Knowledge, OpensOK, Facts
<1>2. CASE UNCHANGED reply
  BY <1>1, <1>2 DEF RepliesOK
<1>3. CASE \E p \in Perm : ask[p] # None /\ reply[p] = None /\ reply' = [reply EXCEPT ![p] = {}]
  BY <1>1, <1>3 DEF RepliesOK
<1>4. ASSUME NEW how \in {"exact", "readOnly"}, Reply(how), UNCHANGED <<ask, shown>>
      PROVE  /\ RepliesOK'
             /\ \A p \in Perm : reply[p] # None => reply'[p] = reply[p]
             /\ \A p \in Perm : reply'[p] # reply[p] =>
                  /\ reply[p] = None /\ ask[p] # None
                  /\ reply'[p] # {} =>
                       /\ perm[p] # "allowed" /\ perm'[p] = "allowed" /\ reply'[p] = Granted(how, p)
  <2>1. \A p \in Perm : reply[p] # None => reply'[p] = reply[p]
    BY <1>4 DEF Reply
  <2>2. ASSUME NEW p \in Perm, reply'[p] # reply[p]
        PROVE  /\ reply[p] = None /\ ask[p] # None /\ reply'[p] \in SUBSET Flag
               /\ reply'[p] # {} =>
                    /\ perm[p] # "allowed" /\ perm'[p] = "allowed" /\ reply'[p] = Granted(how, p)
    <3>1. reply[p] = None /\ perm'[p] # perm[p]
      BY <1>4, <2>2 DEF Reply
    <3>2. \/ perm'[p] = "allowed" /\ reply'[p] = Granted(how, p)
          \/ perm'[p] = "denied" /\ reply'[p] = {}
      BY <1>4, <2>2, <3>1 DEF Reply
    <3>3. ask[p] # None
      BY <1>4, <3>2 DEF Custody, StatesOK
    <3>4. Granted(how, p) \in SUBSET Flag
      BY <1>1, <3>3 DEF Granted
    <3> QED
      BY <3>1, <3>2, <3>3, <3>4
  <2>3. reply' \in [Perm -> (SUBSET Flag) \union {None}]
    <3>1. \A p \in Perm : reply'[p] \in (SUBSET Flag) \union {None}
      BY <2>2 DEF RepliesOK
    <3>2. reply' = [p \in Perm |-> reply'[p]]
      BY <1>4 DEF Reply
    <3> QED
      BY <3>1, <3>2
  <2> QED
    BY <1>4, <2>1, <2>2, <2>3 DEF RepliesOK
<1> QED
  BY <1>2, <1>3, <1>4, HowAnswered

\* The browser that a profile belongs to, or the process it is taken for.
LEMMA OwnAllowed ==
  ASSUME IInv, Handling, Id # None, Judgement.kind = "allow"
  PROVE  ask[Event].inst \in Mistakable \/ Gate!OwnBrowser(ask[Event])
<1>1. /\ Res \in Resource /\ Id.self \in Stable /\ Was(Id.self)
      /\ TakenFor(ask[Event].inst, Id.self.inst)
  BY Judged DEF IInv
<1>2. KindOf[Res] = "browser"
  BY <1>1, CoreAssumption DEF Judgement, Evaluate, DecideSsh, Plain, ByLease
<1>3. /\ UidOfIdentity(Id) = OwnerOf[Res] /\ IsTrustedBrowser(Id)
      /\ BrowserOfIdentity(Id) = BrowserOf[ProfileOf[Res]]
  BY <1>2 DEF Judgement, Evaluate, DecideBrowser, Settled, Plain, ByLease
<1>4. CASE ask[Event].inst = Id.self.inst
  <2>1. Id.self.exe \in ran[Id.self.inst] \cap TrustedExe
    BY <1>1, <1>3 DEF Was, IsTrustedBrowser
  <2> QED
    BY <1>2, <1>3, <1>4, <2>1 DEF Gate!OwnBrowser, Res, UidOfIdentity, BrowserOfIdentity
<1> QED
  BY <1>1, <1>4 DEF TakenFor

\* Whoever is let in with more than reading owns what it opens, or opens a key.
LEMMA NewlyAllowed ==
  ASSUME IInv, [Next]_vars, NEW p \in Perm, perm[p] # "allowed", perm'[p] = "allowed"
  PROVE  \/ Reply("readOnly") \/ KindOf[ask[p].res] = "ssh"
         \/ ask[p].inst \in Mistakable \/ Gate!OwnBrowser(ask[p])
<1> DEFINE Goal == \/ Reply("readOnly") \/ KindOf[ask[p].res] = "ssh"
                   \/ ask[p].inst \in Mistakable \/ Gate!OwnBrowser(ask[p])
<1>0. perm \in [Perm -> Mig!PermState]
  BY DEF IInv, Custody, StatesOK
<1>1. CASE Environment \/ Tick \/ UNCHANGED vars
  <2>1. UNCHANGED perm
    BY <1>1 DEF Environment, Tick, Spawn, Exit, Exec, Open, EnrolTool, ReplaceFile, LearnNews,
       LearnOpen, TimesOut, service, vars
  <2> QED
    BY <2>1
<1>2. CASE MainStep
  <2>1. ASSUME NEW v, NEW how, Handled(v, how) PROVE p = Event /\ v = "allowed" /\ Reply(how)
    BY <1>0, <2>1 DEF Handled, Mig!Marked
  <2>2. CASE HandleWriteOfKey
    BY <2>1, <2>2 DEF HandleWriteOfKey, ToWriteKey, Res
  <2>3. CASE HandleDecided
    <3>1. p = Event /\ Handling /\ Id # None /\ Grants(Judgement)
          /\ Reply(IF Judgement.kind = "byMigration" THEN "readOnly" ELSE "exact")
      BY <2>1, <2>3 DEF HandleDecided, ToJudge
    <3>2. CASE Judgement.kind = "allow"
      BY <3>1, <3>2, OwnAllowed
    <3>3. CASE Judgement.kind = "byMigration"
      BY <3>1, <3>3
    <3>4. CASE Judgement.kind \in {"bySshLoad", "bySshRead"}
      <4>1. KindOf[Res] = "ssh"
        BY <3>4 DEF Judgement, Evaluate, DecideBrowser, Settled, Plain, ByLease
      <4> QED
        BY <3>1, <4>1 DEF Res
    <3> QED
      BY <3>1, <3>2, <3>3, <3>4 DEF Grants
  <2>4. CASE HandleTool \/ HandleMigration
    BY <2>4 DEF HandleTool, HandleMigration, Handled
  <2>5. CASE HandleUnknown \/ HandleUnasked
    BY <2>1, <2>5 DEF HandleUnknown, HandleUnasked
  <2>6. CASE HandleRead
    <3>1. perm'[p] # "allowed" \/ perm'[p] = perm[p]
      <4>1. Custody /\ Handling /\ Ssh!Enqueue(Event, ReadDetails) /\ ReadDetails \in SshDetailsSet
        BY <2>6, ReadDetailsOK DEF IInv, HandleRead, ToJudge, ReadDetails
      <4>2. Event \in Perm /\ Event \notin SshPerms
        BY <4>1, AtEvent
      <4>3. perm' = Mig!Marked({Event}, "denied") \/ perm' = Mig!Marked({Event}, "held")
        BY <4>1, <4>2, SshEnqueues
      <4> QED
        BY <1>0, <4>3 DEF Mig!Marked
    <3> QED
      BY <3>1
  <2>7. CASE ReceiveNothing \/ MaintainMigrations \/ MaintainReads
    BY <1>0, <2>7 DEF ReceiveNothing, MaintainMigrations, MaintainReads, Mig!Expire, Mig!Remove, Mig!Marked,
       Ssh!Expire, Ssh!Remove, Ssh!Marked
  <2> QED
    BY <1>2, <2>2, <2>3, <2>4, <2>5, <2>6, <2>7 DEF MainStep
<1>3. ASSUME NEW t \in Thread, TaskStep(t) PROVE Goal
  <2>1. CASE Answer(t)
    <3>1. /\ p \in task[t].perms
          /\ Reply(IF task[t].kind = "read" THEN "exact" ELSE "readOnly")
      BY <1>0, <2>1 DEF Answer, Mig!Marked
    <3>2. CASE task[t].kind = "read"
      BY <2>1, <3>1, <3>2 DEF Answer, TaskAt, IInv, Work, TasksOK, Fine, SshTaskOK, Approving, ForRead
    <3> QED
      BY <3>1, <3>2
  <2>2. CASE ApproveImport(t) \/ ApproveSibling(t) \/ ApproveRead(t)
    BY <2>2 DEF ApproveImport, ApproveSibling, ApproveRead
  <2>3. CASE Check(t) \/ WithdrawImport(t) \/ WithdrawSibling(t) \/ WithdrawRead(t) \/ Refuse(t)
    BY <1>0, <2>3 DEF Check, WithdrawImport, WithdrawSibling, WithdrawRead, Refuse, Mig!Marked
  <2> QED
    BY <1>3, <2>1, <2>2, <2>3 DEF TaskStep
<1>4. CASE \E x \in Serving : XpcRequest(x)
  BY <1>0, <1>4 DEF XpcRequest, XpcResolveMigration, XpcResolveRead, XpcRevoke, XpcDisableSuppression,
     Mig!TakeTimedOut, Mig!TakeReady, Mig!Remove, Mig!Marked, Ssh!TakeTimedOut, Ssh!TakeReady, Ssh!Remove,
     Ssh!Marked
<1> QED
  BY <1>1, <1>2, <1>3, <1>4 DEF Next, Thread

\* Owning a profile lasts, and so does having to be excused.
LEMMA NextKeepsOwn ==
  ASSUME IInv, Custody', RepliesOK, WriteOnlyToOwn, [Next]_vars
  PROVE  WriteOnlyToOwn'
<1>1. ASSUME NEW p \in Perm, reply'[p] # None, "write" \in reply'[p],
             KindOf[ask'[p].res] = "browser"
      PROVE  ask[p] \in Access /\ ask'[p] = ask[p]
             /\ (ask[p].inst \in Mistakable \/ Gate!OwnBrowser(ask[p]))
  <2>1. ask[p] # None
    BY <1>1, Answers DEF RepliesOK
  <2>2. ask[p] \in Access /\ ask'[p] = ask[p]
    BY <2>1, Grows DEF IInv, Knowledge, OpensOK
  <2>3. CASE reply'[p] = reply[p]
    BY <1>1, <2>2, <2>3 DEF WriteOnlyToOwn
  <2>4. CASE reply'[p] # reply[p]
    <3>1. perm[p] # "allowed" /\ perm'[p] = "allowed"
      BY <1>1, <2>4, Answers
    <3>2. ~Reply("readOnly")
      BY <1>1, <2>4 DEF Reply, Granted
    <3> QED
      BY <1>1, <2>2, <3>1, <3>2, NewlyAllowed
  <2> QED
    BY <2>2, <2>3, <2>4
<1>2. \A i \in Proc : (i \in Mistakable => i \in Mistakable') /\ ran[i] \subseteq ran'[i]
  BY Grows DEF IInv, Mistakable
<1>3. \A a \in Access : /\ a.inst \in Mistakable => a.inst \in Mistakable'
                        /\ Gate!OwnBrowser(a) => Gate!OwnBrowser(a)'
  BY <1>2 DEF Access, Gate!OwnBrowser
<1> QED
  BY <1>1, <1>3 DEF WriteOnlyToOwn, Gate!OwnBrowser

-----------------------------------------------------------------------------
(***************************************************************************)
(* Leases and the opens they have let in.                                  *)
(***************************************************************************)
Pushed(kind) == IF kind = "read" THEN sshRead ELSE migration

\* What has been given, and to the opens that have yet to be answered.
JoinedOK ==
  /\ \A j \in joined : /\ j.kind \in {"import", "sibling", "read"} /\ j.opens \subseteq Perm
                        /\ j.lease \in DOMAIN Pushed(j.kind)
  /\ \A t \in Thread, j \in joined :
       task[t].pc = "answer" /\ task[t].kind = j.kind /\ task[t].lease = j.lease =>
         j.opens \subseteq task[t].perms

\* An approval that is being answered goes on with that.
LEMMA AnsweringGoesOn ==
  ASSUME IInv, [Next]_vars, NEW t \in Thread, task[t].pc \in {"answer", "withdraw"}
  PROVE  \/ task'[t] = task[t]
         \/ Answer(t) \/ WithdrawImport(t) \/ WithdrawSibling(t) \/ WithdrawRead(t)
<1>1. task'[t] = task[t] \/ TaskStep(t)
  BY OwnThread
<1> QED
  BY <1>1 DEF TaskStep, Check, ApproveImport, ApproveSibling, ApproveRead, Refuse, TaskAt

\* Nothing but an approval pushes a lease.
LEMMA Unpushed ==
  ASSUME [Next]_vars, ~ \E t \in Thread : ApproveImport(t) \/ ApproveSibling(t) \/ ApproveRead(t)
  PROVE  UNCHANGED joined /\ DOMAIN migration' = DOMAIN migration /\ DOMAIN sshRead' = DOMAIN sshRead
<1>1. CASE Environment \/ Tick \/ UNCHANGED vars
  BY <1>1 DEF Environment, Tick, Spawn, Exit, Exec, Open, EnrolTool, ReplaceFile, LearnNews,
     LearnOpen, TimesOut, service, leases, vars
<1>2. CASE MainStep
  BY <1>2 DEF MainStep, HandleUnknown, HandleWriteOfKey, HandleTool, HandleDecided, HandleUnasked,
     HandleMigration, HandleRead, ReceiveNothing, MaintainMigrations, MaintainReads, Handled, leases
<1>3. CASE \E t \in Thread : TaskStep(t)
  BY <1>3 DEF TaskStep, Check, Answer, WithdrawImport, WithdrawSibling, WithdrawRead, Refuse, leases
<1>4. CASE \E x \in Serving : XpcRequest(x)
  BY <1>4 DEF XpcRequest, XpcResolveMigration, XpcResolveRead, XpcRevoke, XpcDisableSuppression, leases
<1> QED
  BY <1>1, <1>2, <1>3, <1>4 DEF Next, Thread

\* Nor has anything else an answer to give for one.
LEMMA Unanswered ==
  ASSUME IInv, [Next]_vars, ~ \E t \in Thread : ApproveImport(t) \/ ApproveSibling(t) \/ ApproveRead(t)
  PROVE  \A t \in Thread : task'[t].pc = "answer" => task'[t] = task[t]
<1>0. DOMAIN task = Thread /\ \A t \in Thread : TaskOK(task[t])
  BY DEF IInv, Custody, Shapes
<1> DEFINE Turned == \E u \in Thread : \E y : task' = [task EXCEPT ![u] = y] /\ y.pc # "answer"
<1>1. UNCHANGED task \/ Turned => \A t \in Thread : task'[t].pc = "answer" => task'[t] = task[t]
  BY <1>0
<1>2. \A kind, d, P, R : Approval(kind, d, P, R).pc = "check"
  BY DEF Approval
<1> HIDE DEF Turned
<1>3. CASE Environment \/ Tick \/ UNCHANGED vars
  BY <1>1, <1>3 DEF Environment, Tick, Spawn, Exit, Exec, Open, EnrolTool, ReplaceFile, LearnNews,
     LearnOpen, TimesOut, service, vars
<1>4. CASE MainStep
  <2>1. CASE HandleMigration
    <3>1. UNCHANGED task \/ \E d, P : task' = [task EXCEPT ![Main] = Approval("sibling", d, P, {})]
      BY <2>1 DEF HandleMigration
    <3>2. UNCHANGED task \/ Turned
      BY <1>2, <3>1 DEF Turned, Thread
    <3> QED
      BY <1>1, <3>2
  <2>2. CASE ~HandleMigration
    BY <1>1, <1>4, <2>2 DEF MainStep, HandleUnknown, HandleWriteOfKey, HandleTool, HandleDecided,
       HandleUnasked, HandleRead, ReceiveNothing, MaintainMigrations, MaintainReads, Handled
  <2> QED
    BY <2>1, <2>2
<1>5. ASSUME NEW t \in Thread, TaskStep(t) PROVE UNCHANGED task \/ Turned
  <2>1. CASE \E R : Onward(t, R)
    <3>1. PICK R : Onward(t, R)
      BY <2>1
    <3>2. \E y : task' = [task EXCEPT ![t] = y] /\ y.pc # "answer"
      <4>1. CASE task' = [task EXCEPT ![t] = Idle]
        <5>1. Idle.pc # "answer"
          BY DEF Idle
        <5> QED
          BY <4>1, <5>1
      <4>2. ASSUME NEW r \in R,
                   task' = [task EXCEPT ![t] = Approval("sibling", r.details, r.perms, R \ {r})]
            PROVE  \E y : task' = [task EXCEPT ![t] = y] /\ y.pc # "answer"
        <5>1. PICK y : y = Approval("sibling", r.details, r.perms, R \ {r})
          OBVIOUS
        <5>2. y.pc # "answer"
          BY <1>2, <5>1
        <5> QED
          BY <4>2, <5>1, <5>2
      <4> QED
        BY <3>1, <4>1, <4>2 DEF Onward
    <3> QED
      BY <3>2 DEF Turned
  <2>2. CASE Check(t) /\ task' = Step(t, "approve")
    <3>1. PICK y : y = [task[t] EXCEPT !.pc = "approve"]
      OBVIOUS
    <3>2. "pc" \in DOMAIN task[t]
      BY <1>0 DEF TaskOK
    <3>3. y.pc = "approve" /\ task' = [task EXCEPT ![t] = y]
      BY <1>0, <2>2, <3>1, <3>2 DEF Step
    <3> QED
      BY <3>3 DEF Turned
  <2>3. CASE Answer(t) /\ Late(t)
    <3>1. PICK y : y = [task[t] EXCEPT !.pc = "withdraw", !.perms = {}]
      OBVIOUS
    <3>2. "pc" \in DOMAIN task[t]
      BY <1>0 DEF TaskOK
    <3>3. y.pc = "withdraw" /\ task' = [task EXCEPT ![t] = y]
      BY <1>0, <2>3, <3>1, <3>2 DEF Answer
    <3> QED
      BY <3>3 DEF Turned
  <2> QED
    BY <1>5, <2>1, <2>2, <2>3 DEF TaskStep, Check, Answer, WithdrawImport, WithdrawSibling, WithdrawRead, Refuse
<1>6. ASSUME NEW x \in Xpc, XpcRequest(x) PROVE UNCHANGED task \/ Turned
  <2>1. UNCHANGED task \/ \E kind, r, block : Resolution(x, kind, r, block)
    BY <1>6 DEF XpcRequest, XpcResolveMigration, XpcResolveRead, XpcRevoke, XpcDisableSuppression
  <2>2. ASSUME NEW kind, NEW r, NEW block, Resolution(x, kind, r, block) PROVE Turned
    <3>1. PICK y : y = IF block THEN [pc |-> "refuse", perms |-> r.perms]
                       ELSE Approval(kind, r.details, r.perms, {})
      OBVIOUS
    <3>2. y.pc # "answer"
      BY <1>2, <3>1
    <3> QED
      BY <2>2, <3>1, <3>2 DEF Resolution, Turned, Thread
  <2> QED
    BY <2>1, <2>2
<1> QED
  BY <1>1, <1>3, <1>4, <1>5, <1>6, EsAssumption DEF Next, Thread, Serving, IInv, Knowledge, World

\* A lease is given by an approval that has yet to be answered, to the opens it has.
LEMMA Given ==
  ASSUME IInv, [Next]_vars
  PROVE  \/ /\ UNCHANGED joined /\ DOMAIN migration' = DOMAIN migration /\ DOMAIN sshRead' = DOMAIN sshRead
            /\ \A t \in Thread : task'[t].pc = "answer" => task'[t] = task[t]
         \/ \E t \in Thread : \E j :
              /\ joined' = joined \union {j}
              /\ j.kind \in {"import", "sibling", "read"} /\ j.opens \subseteq Perm
              /\ j.lease \notin DOMAIN Pushed(j.kind) /\ j.lease \in DOMAIN Pushed(j.kind)'
              /\ DOMAIN migration \subseteq DOMAIN migration' /\ DOMAIN sshRead \subseteq DOMAIN sshRead'
              /\ task'[t].pc = "answer" /\ task'[t].kind = j.kind /\ task'[t].lease = j.lease
              /\ task'[t].perms = j.opens
              /\ \A u \in Thread : u # t => task'[u] = task[u]
<1>0. DOMAIN task = Thread /\ Leases
  BY DEF IInv, Custody, Shapes, Work
<1>1. CASE ~ \E t \in Thread : ApproveImport(t) \/ ApproveSibling(t) \/ ApproveRead(t)
  BY <1>1, Unpushed, Unanswered
<1>2. ASSUME NEW t \in Thread, ApproveImport(t) \/ ApproveSibling(t) \/ ApproveRead(t)
      PROVE  \E j :
              /\ joined' = joined \union {j}
              /\ j.kind \in {"import", "sibling", "read"} /\ j.opens \subseteq Perm
              /\ j.lease \notin DOMAIN Pushed(j.kind) /\ j.lease \in DOMAIN Pushed(j.kind)'
              /\ DOMAIN migration \subseteq DOMAIN migration' /\ DOMAIN sshRead \subseteq DOMAIN sshRead'
              /\ task'[t].pc = "answer" /\ task'[t].kind = j.kind /\ task'[t].lease = j.lease
              /\ task'[t].perms = j.opens
              /\ \A u \in Thread : u # t => task'[u] = task[u]
  <2>1. /\ TaskAt(t, "approve") /\ task[t].kind \in {"import", "sibling", "read"}
        /\ task[t].perms \subseteq Perm
    BY <1>2, AtWork DEF ApproveImport, ApproveSibling, ApproveRead, Approving, IInv
  <2>2. PICK n : n = Len(Pushed(task[t].kind)) + 1
    OBVIOUS
  <2>3. \E R : Approved(t, n, R)
    BY <1>2, <2>2 DEF ApproveImport, ApproveSibling, ApproveRead, Pushed
  <2>4. PICK x : /\ task' = [task EXCEPT ![t] = x] /\ x.pc = "answer" /\ x.kind = task[t].kind
                 /\ x.lease = n /\ x.perms = task[t].perms
    BY <2>1, <2>3, ApprovedTask DEF IInv
  <2>5. task'[t] = x /\ \A u \in Thread : u # t => task'[u] = task[u]
    BY <1>0, <2>4
  <2>6. PICK j : j = [kind |-> task[t].kind, lease |-> n, opens |-> task[t].perms]
    OBVIOUS
  <2>7. j.kind = task[t].kind /\ j.lease = n /\ j.opens = task[t].perms
    BY <2>6
  <2>8. joined' = joined \union {j}
    BY <2>3, <2>6 DEF Approved
  <2>9. \/ /\ task[t].kind = "read" /\ n = Len(sshRead) + 1 /\ UNCHANGED migration
           /\ \E l : sshRead' = Append(sshRead, l)
        \/ /\ task[t].kind # "read" /\ n = Len(migration) + 1 /\ UNCHANGED sshRead
           /\ \E l : migration' = Append(migration, l)
    BY <1>2, <2>2 DEF ApproveImport, ApproveSibling, ApproveRead, Pushed
  <2>10. /\ n \notin DOMAIN Pushed(task[t].kind) /\ n \in DOMAIN Pushed(task[t].kind)'
         /\ DOMAIN migration \subseteq DOMAIN migration' /\ DOMAIN sshRead \subseteq DOMAIN sshRead'
    <3>1. CASE task[t].kind = "read"
      <4>1. PICK l : sshRead' = Append(sshRead, l)
        BY <2>9, <3>1
      <4>2. n \notin DOMAIN sshRead /\ n \in DOMAIN sshRead' /\ DOMAIN sshRead \subseteq DOMAIN sshRead'
        BY <1>0, <2>9, <3>1, <4>1 DEF Leases
      <4>3. task'[t].kind = "read" /\ UNCHANGED migration
        BY <2>4, <2>5, <2>9, <3>1
      <4> QED
        BY <3>1, <4>2, <4>3 DEF Pushed
    <3>2. CASE task[t].kind # "read"
      <4>1. PICK l : migration' = Append(migration, l)
        BY <2>9, <3>2
      <4>2. /\ n \notin DOMAIN migration /\ n \in DOMAIN migration'
            /\ DOMAIN migration \subseteq DOMAIN migration'
        BY <1>0, <2>9, <3>2, <4>1 DEF Leases
      <4>3. task'[t].kind # "read" /\ UNCHANGED sshRead
        BY <2>4, <2>5, <2>9, <3>2
      <4> QED
        BY <3>2, <4>2, <4>3 DEF Pushed
    <3> QED
      BY <3>1, <3>2
  <2>11. j.lease \notin DOMAIN Pushed(j.kind) /\ j.lease \in DOMAIN Pushed(j.kind)'
    BY <2>4, <2>5, <2>7, <2>10 DEF Pushed
  <2> QED
    BY <2>1, <2>4, <2>5, <2>7, <2>8, <2>10, <2>11
<1> QED
  BY <1>1, <1>2

LEMMA NextKeepsJoined ==
  ASSUME IInv, JoinedOK, [Next]_vars
  PROVE  JoinedOK'
<1>1. ASSUME UNCHANGED joined, DOMAIN migration' = DOMAIN migration, DOMAIN sshRead' = DOMAIN sshRead,
             \A t \in Thread : task'[t].pc = "answer" => task'[t] = task[t]
      PROVE  JoinedOK'
  BY <1>1 DEF JoinedOK, Pushed
<1>2. ASSUME NEW t \in Thread, NEW j, joined' = joined \union {j},
             j.kind \in {"import", "sibling", "read"}, j.opens \subseteq Perm,
             j.lease \notin DOMAIN Pushed(j.kind), j.lease \in DOMAIN Pushed(j.kind)',
             DOMAIN migration \subseteq DOMAIN migration', DOMAIN sshRead \subseteq DOMAIN sshRead',
             task'[t].pc = "answer", task'[t].kind = j.kind, task'[t].lease = j.lease,
             task'[t].perms = j.opens, \A u \in Thread : u # t => task'[u] = task[u]
      PROVE  JoinedOK'
  <2>1. \A i \in joined' : /\ i.kind \in {"import", "sibling", "read"} /\ i.opens \subseteq Perm
                           /\ i.lease \in DOMAIN Pushed(i.kind)'
    BY <1>2 DEF JoinedOK, Pushed
  <2>2. \A i \in joined : ~(i.kind = j.kind /\ i.lease = j.lease)
    BY <1>2 DEF JoinedOK
  <2>3. \A u \in Thread : ~(task[u].pc = "answer" /\ task[u].kind = j.kind /\ task[u].lease = j.lease)
    BY <1>2 DEF IInv, Work, TasksOK, Fine, MigTaskOK, SshTaskOK, Approving, Pushed
  <2>4. ASSUME NEW u \in Thread, NEW i \in joined', task'[u].pc = "answer", task'[u].kind = i.kind,
               task'[u].lease = i.lease
        PROVE  i.opens \subseteq task'[u].perms
    <3>1. CASE u = t
      BY <1>2, <2>2, <2>4, <3>1
    <3>2. CASE u # t
      BY <1>2, <2>3, <2>4, <3>2 DEF JoinedOK
    <3> QED
      BY <3>1, <3>2
  <2> QED
    BY <2>1, <2>4 DEF JoinedOK
<1> QED
  BY <1>1, <1>2, Given

\* An approval that no answer came too late for has let its opens in.
LEMMA AnswerLetsIn ==
  ASSUME IInv, [Next]_vars, NEW t \in Thread, Answer(t), ~Late(t), NEW p \in task[t].perms
  PROVE  reply'[p] \notin {None, {}}
<1>1. /\ task[t].pc = "answer" /\ Fine(task[t]) /\ task[t].perms \subseteq Perm
      /\ task[t].kind \in {"import", "sibling", "read"}
  BY AtWork DEF Answer, Approving, IInv
<1>2. p \in Perm /\ ask[p] # None /\ "read" \in shown[p].flags
  BY <1>1 DEF Fine, MigTaskOK, SshTaskOK, Approving, ForMig, ForRead
<1>3. reply[p] = None
  BY DEF Late
<1>4. perm[p] = "taken"
  <2>1. p \in OwnedIn(task[t])
    BY <1>1 DEF IInv, Custody, Shapes, TaskOK, OwnedIn, PermsIn
  <2> QED
    BY <1>2, <2>1 DEF IInv, Custody, StatesOK
<1>5. perm'[p] = "allowed"
  BY <1>2 DEF Answer, Mig!Marked
<1>6. PICK how \in {"exact", "readOnly"} : Reply(how)
  BY DEF Answer
<1>7. reply'[p] = Granted(how, p)
  BY <1>2, <1>3, <1>4, <1>5, <1>6 DEF Reply
<1>8. "read" \in Granted(how, p) /\ Granted(how, p) \in SUBSET Flag
  BY <1>2, <1>6 DEF Granted, IInv, Knowledge, OpensOK, Facts
<1> QED
  BY <1>7, <1>8, EsAssumption DEF Flag

LEMMA NextKeepsLeasesJoined ==
  ASSUME IInv, IInv', RepliesOK, JoinedOK, LeaseHasItsOpens, [Next]_vars
  PROVE  LeaseHasItsOpens'
<1>0. DOMAIN task = Thread /\ DOMAIN task' = Thread /\ Outlives
  BY NextKeepsLeases DEF IInv, Custody, Shapes
<1>1. \A p \in Perm : reply[p] # None => reply'[p] = reply[p]
  BY Answers DEF IInv
\* A lease that was there: its approval goes on, takes it back, or has let its opens in.
<1>2. ASSUME NEW j \in joined
      PROVE  LeaseOf(j)'.revoked \/ Answering(j)' \/ \A p \in j.opens : reply'[p] \notin {None, {}}
  <2>1. /\ j.kind \in {"import", "sibling", "read"} /\ j.opens \subseteq Perm
        /\ j.kind = "read" => j.lease \in DOMAIN sshRead /\ LeaseOf(j) = sshRead[j.lease]
                               /\ LeaseOf(j)' = sshRead'[j.lease]
        /\ j.kind # "read" => j.lease \in DOMAIN migration /\ LeaseOf(j) = migration[j.lease]
                               /\ LeaseOf(j)' = migration'[j.lease]
    BY DEF JoinedOK, Pushed, LeaseOf
  <2>2. CASE LeaseOf(j).revoked
    BY <1>0, <2>1, <2>2 DEF Outlives
  <2>3. CASE \A p \in j.opens : reply[p] \notin {None, {}}
    BY <1>1, <2>1, <2>3
  <2>4. CASE Answering(j)
    <3>1. PICK t \in Thread : /\ task[t].pc \in {"answer", "withdraw"} /\ task[t].kind = j.kind
                              /\ task[t].lease = j.lease
      BY <1>0, <2>4 DEF Answering
    <3>2. CASE task'[t] = task[t]
      BY <1>0, <3>1, <3>2 DEF Answering
    <3>3. CASE Answer(t) /\ Late(t)
      <4>1. {"kind", "pc"} \subseteq DOMAIN task[t]
        BY <3>1 DEF IInv, Custody, Shapes, TaskOK
      <4>2. task' = [task EXCEPT ![t].pc = "withdraw", ![t].perms = {}]
        BY <3>3 DEF Answer
      <4>3. task'[t].pc = "withdraw" /\ task'[t].kind = task[t].kind /\ task'[t].lease = task[t].lease
        BY <1>0, <4>1, <4>2
      <4> QED
        BY <1>0, <3>1, <4>3 DEF Answering
    <3>4. CASE Answer(t) /\ ~Late(t)
      <4>1. j.opens \subseteq task[t].perms
        BY <3>1, <3>4 DEF JoinedOK, Answer, TaskAt
      <4> QED
        BY <3>4, <4>1, AnswerLetsIn
    <3>5. CASE WithdrawImport(t) \/ WithdrawSibling(t)
      <4>1. j.kind # "read" /\ migration' = [migration EXCEPT ![j.lease] = Ended(@)]
        BY <3>1, <3>5 DEF WithdrawImport, WithdrawSibling
      <4>2. j.lease \in DOMAIN migration /\ migration[j.lease] \in MigrationLease
        BY <2>1, <4>1 DEF IInv, Work, Leases
      <4> QED
        BY <2>1, <4>1, <4>2, EndedOK
    <3>6. CASE WithdrawRead(t)
      <4>1. j.kind = "read" /\ sshRead' = [sshRead EXCEPT ![j.lease].revoked = TRUE]
        BY <3>1, <3>6 DEF WithdrawRead
      <4>2. j.lease \in DOMAIN sshRead /\ sshRead[j.lease] \in SshReadLease
        BY <2>1, <4>1 DEF IInv, Work, Leases
      <4> QED
        BY <2>1, <4>1, <4>2, RevokedOK
    <3> QED
      BY <3>1, <3>2, <3>3, <3>4, <3>5, <3>6, AnsweringGoesOn
  <2> QED
    BY <2>2, <2>3, <2>4 DEF LeaseHasItsOpens
\* A new one is being answered.
<1>3. ASSUME NEW j \in joined', j \notin joined PROVE Answering(j)'
  BY <1>0, <1>3, Given DEF Answering
<1> QED
  BY <1>2, <1>3 DEF LeaseHasItsOpens

LEMMA InitAnswers == Init => RepliesOK /\ WriteOnlyToOwn /\ JoinedOK /\ LeaseHasItsOpens
<1> SUFFICES ASSUME Init PROVE RepliesOK /\ WriteOnlyToOwn /\ JoinedOK /\ LeaseHasItsOpens
  OBVIOUS
<1>1. reply = [p \in Perm |-> None] /\ joined = {}
  BY DEF Init
<1>2. \A p \in Perm : reply[p] = None
  BY <1>1
<1>3. RepliesOK
  <2>1. reply \in [Perm -> (SUBSET Flag) \union {None}]
    BY <1>1
  <2> QED
    BY <2>1, <1>2 DEF RepliesOK
<1>4. WriteOnlyToOwn
  BY <1>2 DEF WriteOnlyToOwn
<1>5. JoinedOK /\ LeaseHasItsOpens
  BY <1>1 DEF JoinedOK, LeaseHasItsOpens
<1> QED
  BY <1>3, <1>4, <1>5

\* No approval, sibling, grace period, lease or tool lets anybody but the browser a
\* profile belongs to open it for writing, on whichever of the threads the open is
\* answered (handle_at, approve_recent, resolve_migration); but a decision is about a
\* pid, and is excused when the process that has the pid may be another one.
THEOREM WritesAreTheOwners == Spec => []WriteOnlyToOwn
<1>1. Init => RepliesOK /\ WriteOnlyToOwn
  BY InitAnswers
<1>2. IInv /\ IInv' /\ RepliesOK /\ WriteOnlyToOwn /\ [Next]_vars => (RepliesOK /\ WriteOnlyToOwn)'
  <2> SUFFICES ASSUME IInv, IInv', RepliesOK, WriteOnlyToOwn, [Next]_vars
               PROVE  RepliesOK' /\ WriteOnlyToOwn'
    OBVIOUS
  <2>1. Custody'
    BY DEF IInv
  <2> QED
    BY <2>1, Answers, NextKeepsOwn
<1> QED
  BY <1>1, <1>2, Invariance, PTL DEF Spec

\* An approval whose answer came after the deadline of any of its opens takes back the
\* lease it gave (try_resolve, the rollbacks of resolve_migration,
\* resolve_ssh_read and approve_recent): a lease that stays in force has let in every
\* open it was given for, however the threads and the deadlines interleave.
THEOREM LeasesHaveTheirOpens == Spec => []LeaseHasItsOpens
<1>1. Init => RepliesOK /\ JoinedOK /\ LeaseHasItsOpens
  BY InitAnswers
<1>2. IInv /\ IInv' /\ RepliesOK /\ JoinedOK /\ LeaseHasItsOpens /\ [Next]_vars =>
        (RepliesOK /\ JoinedOK /\ LeaseHasItsOpens)'
  <2> SUFFICES ASSUME IInv, IInv', RepliesOK, JoinedOK, LeaseHasItsOpens, [Next]_vars
               PROVE  RepliesOK' /\ JoinedOK' /\ LeaseHasItsOpens'
    OBVIOUS
  <2>1. Custody'
    BY DEF IInv
  <2> QED
    BY <2>1, Answers, NextKeepsJoined, NextKeepsLeasesJoined
<1> QED
  BY <1>1, <1>2, Invariance, PTL DEF Spec

-----------------------------------------------------------------------------
(***************************************************************************)
(* What humans have consented to, and what rests on it.                    *)
(***************************************************************************)
\* The processes above a parent are above its child.
LEMMA TreeAbove ==
  ASSUME NEW i \in Proc, NEW j, Lineage[i] # <<>>, j = Lineage[i][1]
  PROVE  Gate!Tree(j) \subseteq Gate!Tree(i)
<1>1. /\ Lineage[i] \in Seq(Proc) /\ Lineage[j] = Tail(Lineage[i])
  BY ProcessAssumption, LineageAssumption
<1>2. 1 \in DOMAIN Lineage[i] /\ \A k \in DOMAIN Lineage[j] : k + 1 \in DOMAIN Lineage[i]
                                     /\ Lineage[j][k] = Lineage[i][k + 1]
  BY <1>1
<1> QED
  BY <1>2 DEF Gate!Tree

\* Climb is a walk along the parents of the graph.
LEMMA Climbs ==
  ASSUME NEW s
  PROVE  IsWalk(Climb(s), graph.parent, s, MaxAncestors + 1)
<1>1. \E w : IsWalk(w, graph.parent, s, MaxAncestors + 1)
  BY WalkExists, EsAssumption
<1>2. Climb(s) = CHOOSE w : IsWalk(w, graph.parent, s, MaxAncestors + 1)
  BY DEF Climb, IsWalk
<1> QED
  BY <1>1, <1>2

\* The chain the graph gives, however late its notices come, is of processes that
\* the kernel's table has above the process.
LEMMA TreeKnown ==
  ASSUME Knowledge, NEW s \in Stable, NEW root \in Stable,
         InTree([self |-> s, ancestors |-> Chain(s)], root)
  PROVE  root.inst \in Gate!Tree(s.inst)
<1> DEFINE S == {y \in Stable : Gate!Tree(y.inst) \subseteq Gate!Tree(s.inst)} \union {None}
           w == Climb(s)
           N == MaxAncestors + 1
<1>1. N \in Nat
  BY EsAssumption
<1>2. s \in S
  OBVIOUS
<1>3. \A y \in S : y \in DOMAIN graph.parent => graph.parent[y] \in S
  <2>1. SUFFICES ASSUME NEW y \in S, y \in DOMAIN graph.parent, graph.parent[y] # None
                 PROVE  graph.parent[y] \in S
    OBVIOUS
  <2>2. y \in Stable /\ Descends(y.inst, graph.parent[y])
    BY <2>1 DEF Knowledge, GraphOK, Knows
  <2>3. Gate!Tree(graph.parent[y].inst) \subseteq Gate!Tree(y.inst) /\ graph.parent[y] \in Stable
    BY <2>1, <2>2, TreeAbove DEF Descends, Stable
  <2>4. y # None
    BY <2>2, EsAssumption
  <2> QED
    BY <2>1, <2>3, <2>4
<1>4. w[0] = s /\ \A n \in 0..N : w[n] \in S
  <2>1. IsWalk(w, graph.parent, s, N)
    BY Climbs
  <2> HIDE DEF S, w, N
  <2> QED
    BY <1>1, <1>2, <1>3, <2>1, WalkStays
<1>5. CASE root = s
  BY <1>5 DEF Gate!Tree
<1>6. CASE root # s
  <2>1. PICK k \in DOMAIN Chain(s) : Chain(s)[k] = root
    BY <1>6 DEF InTree
  <2>2. w[N] = None
    BY <2>1 DEF Chain
  <2>3. PICK depth : depth = Max({n \in 0..N : w[n] # None})
    OBVIOUS
  <2>4. Chain(s) = [n \in 1..depth |-> w[n]]
    BY <2>2, <2>3 DEF Chain
  <2>5. depth \in 0..N
    <3>1. 0 \in {n \in 0..N : w[n] # None}
      <4>1. w[0] = s /\ s # None
        BY <1>4, EsAssumption
      <4> QED
        BY <1>1, <4>1
    <3>2. {n \in 0..N : w[n] # None} \subseteq 0..N
      OBVIOUS
    <3> HIDE DEF w, N
    <3> QED
      BY <1>1, <2>3, <3>1, <3>2, MaxIn
  <2>6. k \in 0..N /\ root = w[k]
    BY <1>1, <2>1, <2>4, <2>5
  <2>7. root \in S /\ root # None
    BY <1>4, <2>6, EsAssumption
  <2>8. root.inst \in Gate!Tree(root.inst)
    BY DEF Gate!Tree
  <2> QED
    BY <2>7, <2>8
<1> QED
  BY <1>5, <1>6

\* A consent to imports of a profile by an executable, or to reads of a key by a process.
ToImport(uid, f, e) ==
  \E c \in consents : c.kind = "migration" /\ c.uid = uid /\ c.what = f /\ c.exe = e

ToRead(uid, r, s) ==
  \E c \in consents :
    c.kind = "read" /\ c.uid = uid /\ c.what = r /\ c.exe = s.exe /\ c.start = StartOf[s.inst]

ImportAgreed(d) == ToImport(UidOf[d.root.inst], d.profile, d.root.exe)
ReadAgreed(d)   == ToRead(UidOf[d.target.inst], d.res, d.target)
ToolAgreed(e)   ==
  \A r \in Resource \ Critical : KindOf[r] = "browser" =>
    \E c \in consents : c.kind = "tool" /\ c.uid = OwnerOf[r] /\ c.what = r /\ c.exe = e

\* Permissions wait for a process there was, to open what its user owns.
Rightful(P, s) == Was(s) /\ \A p \in P : OwnerOf[ask[p].res] = UidOf[s.inst]

ImportGrounds(x) == Rightful(x.perms, x.details.root) /\ ImportAgreed(x.details)
ReadGrounds(x)   == Rightful(x.perms, x.details.target) /\ ReadAgreed(x.details)

TaskGrounds(x) ==
  x.pc \in Approving =>
    /\ x.kind # "read" => ImportGrounds(x) /\ \A r \in x.rest : ImportGrounds(r)
    /\ x.kind = "read" => ReadGrounds(x)

MigLeaseGrounds(l) == Was(l.root) /\ l.uid = UidOf[l.root.inst] /\ ToImport(l.uid, l.profile, l.root.exe)
SshLeaseGrounds(l) == Was(l.root) /\ l.uid = UidOf[l.root.inst] /\ ToRead(l.uid, l.res, l.root)

\* Every approval, lease, grace period and tool goes back to a consent.
Grounds ==
  /\ \A r \in migRequests : Rightful(r.perms, r.details.root)
  /\ \A r \in sshRequests : Rightful(r.perms, r.details.target)
  /\ \A t \in Thread : TaskGrounds(task[t])
  /\ \A k \in DOMAIN migration : MigLeaseGrounds(migration[k])
  /\ \A k \in DOMAIN sshRead : SshLeaseGrounds(sshRead[k])
  /\ DOMAIN migRecent = MigScope
  /\ \A s \in MigScope : migRecent[s] # 0 => ToImport(s.uid, s.profile, s.exe)
  /\ \A e \in tools : ToolAgreed(e)

\* A consent is never taken back.
LEMMA ConsentsStay ==
  ASSUME [Next]_vars
  PROVE  /\ consents \subseteq consents'
         /\ \A uid, f, e : ToImport(uid, f, e) => ToImport(uid, f, e)'
         /\ \A uid, r, s : ToRead(uid, r, s) => ToRead(uid, r, s)'
         /\ \A e : ToolAgreed(e) => ToolAgreed(e)'
<1>1. consents \subseteq consents'
  <2>1. CASE Environment \/ Tick \/ UNCHANGED vars
    BY <2>1 DEF Environment, Tick, Spawn, Exit, Exec, Open, EnrolTool, ReplaceFile, LearnNews,
       LearnOpen, TimesOut, vars
  <2>2. CASE MainStep
    BY <2>2 DEF MainStep, HandleUnknown, HandleWriteOfKey, HandleTool, HandleDecided, HandleUnasked,
       HandleMigration, HandleRead, ReceiveNothing, MaintainMigrations, MaintainReads, Handled
  <2>3. CASE \E t \in Thread : TaskStep(t)
    BY <2>3 DEF TaskStep, Check, ApproveImport, ApproveSibling, ApproveRead, Answer, WithdrawImport,
       WithdrawSibling, WithdrawRead, Refuse, own
  <2>4. CASE \E x \in Serving : XpcRequest(x)
    BY <2>4 DEF XpcRequest, XpcResolveMigration, XpcResolveRead, XpcRevoke, XpcDisableSuppression
  <2> QED
    BY <2>1, <2>2, <2>3, <2>4 DEF Next, Thread
<1> QED
  BY <1>1 DEF ToImport, ToRead, ToolAgreed

\* The permissions of opens that were made.
Asked(P) == P \subseteq Perm /\ \A p \in P : ask[p] # None

LEMMA Opened ==
  ASSUME IInv
  PROVE  /\ \A r \in migRequests \union sshRequests : Asked(r.perms)
         /\ \A t \in Thread : task[t].pc \in Approving =>
              Asked(task[t].perms) /\ \A r \in task[t].rest : Asked(r.perms)
<1>1. ASSUME NEW r \in migRequests \union sshRequests PROVE Asked(r.perms)
  <2>1. r.perms \subseteq Perm
    BY DEF IInv, Custody, HandsApart, MigPerms, SshPerms, PermsOf
  <2> QED
    BY <2>1 DEF Asked, IInv, Work, RequestsOK, MigRequestOK, SshRequestOK, ForMig, ForRead
<1>2. ASSUME NEW t \in Thread, task[t].pc \in Approving
      PROVE  Asked(task[t].perms) /\ \A r \in task[t].rest : Asked(r.perms)
  <2>1. TaskOK(task[t]) /\ OwnedIn(task[t]) \subseteq Perm /\ Fine(task[t])
    BY DEF IInv, Custody, Shapes, HandsApart, Work, TasksOK
  <2>2. /\ OwnedIn(task[t]) = task[t].perms \union PermsOf(task[t].rest)
        /\ task[t].kind = "read" => task[t].rest = {}
    BY <1>2, <2>1 DEF TaskOK, Approving, OwnedIn, PermsIn, RestIn
  <2>3. task[t].perms \subseteq Perm /\ \A r \in task[t].rest : r.perms \subseteq Perm
    BY <2>1, <2>2 DEF PermsOf
  <2>4. Asked(task[t].perms)
    BY <1>2, <2>1, <2>3 DEF Asked, Fine, MigTaskOK, SshTaskOK, ForMig, ForRead
  <2>5. \A r \in task[t].rest : Asked(r.perms)
    BY <1>2, <2>1, <2>2, <2>3 DEF Asked, Fine, MigTaskOK, MigRequestOK, ForMig
  <2> QED
    BY <2>4, <2>5
<1> QED
  BY <1>1, <1>2

\* What was rightful stays so.
LEMMA RightfulStays ==
  ASSUME Knowledge, [Next]_vars
  PROVE  /\ \A P, s : Asked(P) /\ Rightful(P, s) => Rightful(P, s)'
         /\ \A x : Asked(x.perms) /\ ImportGrounds(x) => ImportGrounds(x)'
         /\ \A x : Asked(x.perms) /\ ReadGrounds(x) => ReadGrounds(x)'
<1>1. ASSUME NEW P, NEW s, Asked(P), Rightful(P, s) PROVE Rightful(P, s)'
  <2>1. s \in Stable /\ Was(s)'
    BY <1>1, Grows, WasStays DEF Rightful, Was
  <2>2. \A p \in P : ask'[p] = ask[p]
    BY <1>1, Grows DEF Asked
  <2> QED
    BY <1>1, <2>1, <2>2 DEF Rightful
<1> QED
  BY <1>1, ConsentsStay DEF ImportGrounds, ReadGrounds, ImportAgreed, ReadAgreed

LEMMA LeaseGroundsStay ==
  ASSUME Knowledge, [Next]_vars
  PROVE  /\ \A l : MigLeaseGrounds(l) => MigLeaseGrounds(l)'
         /\ \A l : SshLeaseGrounds(l) => SshLeaseGrounds(l)'
<1>1. \A s : Was(s) => Was(s)'
  BY Grows, WasStays DEF Was
<1> QED
  BY <1>1, ConsentsStay DEF MigLeaseGrounds, SshLeaseGrounds

\* An approval goes on with the grounds it had.
LEMMA TaskGroundsStay ==
  ASSUME IInv, Grounds, [Next]_vars, NEW t \in Thread, NEW x, x = task[t]
  PROVE  TaskGrounds(x)'
<1>1. TaskGrounds(x) /\ (x.pc \in Approving => Asked(x.perms) /\ \A r \in x.rest : Asked(r.perms))
  BY Opened DEF Grounds
<1>2. ASSUME x.pc \in Approving, x.kind # "read"
      PROVE  ImportGrounds(x)' /\ \A r \in x.rest : ImportGrounds(r)'
  <2>1. Asked(x.perms) /\ ImportGrounds(x) /\ \A r \in x.rest : Asked(r.perms) /\ ImportGrounds(r)
    BY <1>1, <1>2 DEF TaskGrounds
  <2> QED
    BY <2>1, RightfulStays DEF IInv
<1>3. ASSUME x.pc \in Approving, x.kind = "read" PROVE ReadGrounds(x)'
  <2>1. Asked(x.perms) /\ ReadGrounds(x)
    BY <1>1, <1>3 DEF TaskGrounds
  <2> QED
    BY <2>1, RightfulStays DEF IInv
<1> QED
  BY <1>2, <1>3 DEF TaskGrounds

\* A step that adds only what has its grounds leaves all of it with them.
LEMMA GroundsFrom ==
  ASSUME IInv, Grounds, [Next]_vars,
         \A r \in migRequests' : r \in migRequests \/ Rightful(r.perms, r.details.root)',
         \A r \in sshRequests' : r \in sshRequests \/ Rightful(r.perms, r.details.target)',
         \A t \in Thread : task'[t] = task[t] \/ TaskGrounds(task[t])',
         \A k \in DOMAIN migration' : k \in DOMAIN migration \/ MigLeaseGrounds(migration[k])',
         \A k \in DOMAIN sshRead' : k \in DOMAIN sshRead \/ SshLeaseGrounds(sshRead[k])',
         DOMAIN migRecent' = MigScope,
         \A s \in MigScope : migRecent'[s] # 0 => migRecent[s] # 0 \/ ToImport(s.uid, s.profile, s.exe)',
         \A e \in tools' : e \in tools \/ ToolAgreed(e)'
  PROVE  Grounds'
<1>1. ASSUME NEW r \in migRequests' PROVE Rightful(r.perms, r.details.root)'
  BY Opened, RightfulStays DEF IInv, Grounds
<1>2. ASSUME NEW r \in sshRequests' PROVE Rightful(r.perms, r.details.target)'
  BY Opened, RightfulStays DEF IInv, Grounds
<1>3. ASSUME NEW t \in Thread PROVE TaskGrounds(task[t])'
  <2>1. PICK x : x = task[t]
    OBVIOUS
  <2>2. TaskGrounds(x)'
    BY <2>1, TaskGroundsStay
  <2>3. CASE task'[t] = x
    BY <2>2, <2>3 DEF TaskGrounds
  <2> QED
    BY <2>1, <2>3
<1>4. Outlives
  BY NextKeepsLeases DEF IInv
<1>5. ASSUME NEW k \in DOMAIN migration' PROVE MigLeaseGrounds(migration[k])'
  <2>1. CASE k \in DOMAIN migration
    <3>1. PICK l : l = migration[k]
      OBVIOUS
    <3>2. MigLeaseGrounds(l)'
      BY <2>1, <3>1, LeaseGroundsStay DEF IInv, Grounds
    <3>3. migration'[k].root = l.root /\ migration'[k].profile = l.profile /\ migration'[k].uid = l.uid
      BY <1>4, <2>1, <3>1 DEF Outlives
    <3> QED
      BY <3>2, <3>3 DEF MigLeaseGrounds
  <2> QED
    BY <2>1
<1>6. ASSUME NEW k \in DOMAIN sshRead' PROVE SshLeaseGrounds(sshRead[k])'
  <2>1. CASE k \in DOMAIN sshRead
    <3>1. PICK l : l = sshRead[k]
      OBVIOUS
    <3>2. SshLeaseGrounds(l)'
      BY <2>1, <3>1, LeaseGroundsStay DEF IInv, Grounds
    <3>3. sshRead'[k].root = l.root /\ sshRead'[k].res = l.res /\ sshRead'[k].uid = l.uid
      BY <1>4, <2>1, <3>1 DEF Outlives
    <3> QED
      BY <3>2, <3>3 DEF SshLeaseGrounds
  <2> QED
    BY <2>1
<1>7. \A s \in MigScope : migRecent'[s] # 0 => ToImport(s.uid, s.profile, s.exe)'
  BY ConsentsStay DEF Grounds
<1>8. \A e \in tools' : ToolAgreed(e)'
  BY ConsentsStay DEF Grounds
<1> QED
  BY <1>1, <1>2, <1>3, <1>5, <1>6, <1>7, <1>8 DEF Grounds

\* Only an approved import starts a grace period.
LEMMA RecentKept ==
  ASSUME Grounds, [Next]_vars, ~ \E t \in Thread : ApproveImport(t)
  PROVE  DOMAIN migRecent' = MigScope /\ \A s \in MigScope : migRecent'[s] # 0 => migRecent[s] # 0
<1>1. UNCHANGED migRecent \/ migRecent' = Mig!Cleanup(migRecent)
  <2>1. CASE Environment \/ Tick \/ UNCHANGED vars
    BY <2>1 DEF Environment, Tick, Spawn, Exit, Exec, Open, EnrolTool, ReplaceFile, LearnNews,
       LearnOpen, TimesOut, service, migStore, vars
  <2>2. CASE MainStep
    BY <2>2 DEF MainStep, HandleUnknown, HandleWriteOfKey, HandleTool, HandleDecided, HandleUnasked,
       HandleMigration, HandleRead, ReceiveNothing, MaintainMigrations, MaintainReads, Handled, migStore,
       Mig!Enqueue, Mig!Expire
  <2>3. CASE \E t \in Thread : TaskStep(t)
    BY <2>3 DEF TaskStep, Check, ApproveSibling, ApproveRead, Answer, WithdrawImport, WithdrawSibling,
       WithdrawRead, Refuse, migStore
  <2>4. ASSUME NEW x, XpcRequest(x) PROVE UNCHANGED migRecent
    <3>1. ASSUME NEW u, NEW block, NEW r, XpcResolveMigration(x, r, u, block) PROVE UNCHANGED migRecent
      BY <3>1 DEF XpcResolveMigration, Mig!TakeTimedOut, Mig!TakeReady
    <3>2. ASSUME NEW u, NEW block, NEW r, XpcResolveRead(x, r, u, block) PROVE UNCHANGED migRecent
      BY <3>2 DEF XpcResolveRead, migStore
    <3>3. ASSUME NEW u, XpcRevoke(x, u) PROVE UNCHANGED migRecent
      BY <3>3 DEF XpcRevoke, migStore
    <3>4. ASSUME NEW secs, XpcDisableSuppression(x, secs) PROVE UNCHANGED migRecent
      BY <3>4 DEF XpcDisableSuppression
    <3> QED
      BY <2>4, <3>1, <3>2, <3>3, <3>4 DEF XpcRequest
  <2> QED
    BY <2>1, <2>2, <2>3, <2>4 DEF Next, Thread
<1> QED
  BY <1>1 DEF Grounds, Mig!Cleanup

\* What an approval has at each of its steps.
LEMMA AtGrounds ==
  ASSUME IInv, Grounds, [Next]_vars, NEW t \in Thread, NEW pc \in Approving, TaskAt(t, pc),
         NEW x, x = task[t]
  PROVE  /\ x.pc = pc /\ DOMAIN task = Thread
         /\ {"pc", "kind", "details", "perms", "rest"} \subseteq DOMAIN x
         /\ x.kind # "read" => ImportGrounds(x)'
         /\ x.kind = "read" => ReadGrounds(x)'
         /\ \A r \in x.rest : ImportGrounds(r)'
<1>1. TaskGrounds(x)'
  BY TaskGroundsStay
<1>2. /\ x.pc = pc /\ TaskOK(x) /\ DOMAIN task = Thread
      /\ {"pc", "kind", "details", "perms", "rest"} \subseteq DOMAIN x
  BY AtWork DEF IInv
<1>3. x.kind = "read" => x.rest = {}
  BY <1>2 DEF TaskOK, Approving
<1> QED
  BY <1>1, <1>2, <1>3 DEF TaskGrounds

\* A task goes on as y.
LEMMA GoesOnGrounded ==
  ASSUME DOMAIN task = Thread, NEW t \in Thread, NEW y, task' = [task EXCEPT ![t] = y], TaskGrounds(y)'
  PROVE  \A u \in Thread : task'[u] = task[u] \/ TaskGrounds(task[u])'
<1>1. task'[t] = y /\ \A u \in Thread : u # t => task'[u] = task[u]
  OBVIOUS
<1> QED
  BY <1>1 DEF TaskGrounds

LEMMA OnwardGrounded ==
  ASSUME DOMAIN task = Thread, NEW t \in Thread, NEW R, Onward(t, R), \A r \in R : ImportGrounds(r)'
  PROVE  \A u \in Thread : task'[u] = task[u] \/ TaskGrounds(task[u])'
<1>1. CASE task' = [task EXCEPT ![t] = Idle]
  <2>1. TaskGrounds(Idle)'
    BY DEF TaskGrounds, Approving, Idle
  <2> QED
    BY <1>1, <2>1, GoesOnGrounded
<1>2. CASE \E r \in R : task' = [task EXCEPT ![t] = Approval("sibling", r.details, r.perms, R \ {r})]
  <2>1. PICK r \in R : task' = [task EXCEPT ![t] = Approval("sibling", r.details, r.perms, R \ {r})]
    BY <1>2
  <2>2. PICK y : y = Approval("sibling", r.details, r.perms, R \ {r})
    OBVIOUS
  <2>3. /\ y.pc = "check" /\ y.kind = "sibling" /\ y.details = r.details /\ y.perms = r.perms
        /\ y.rest = R \ {r}
    BY <2>2 DEF Approval
  <2>4. TaskGrounds(y)'
    BY <2>3 DEF TaskGrounds, ImportGrounds
  <2> QED
    BY <2>1, <2>2, <2>4, GoesOnGrounded
<1> QED
  BY <1>1, <1>2 DEF Onward

\* The steps of an approval that push no lease.
LEMMA AnswerGrounded ==
  ASSUME IInv, Grounds, [Next]_vars, NEW t \in Thread, ~ApproveImport(t), ~ApproveSibling(t), ~ApproveRead(t),
         TaskStep(t)
  PROVE  \A u \in Thread : task'[u] = task[u] \/ TaskGrounds(task[u])'
<1>0. PICK x : x = task[t]
  OBVIOUS
<1>1. DOMAIN task = Thread
  BY DEF IInv, Custody, Shapes
<1>2. CASE WithdrawImport(t) \/ WithdrawRead(t) \/ Refuse(t)
  <2>1. Onward(t, {})
    BY <1>2 DEF WithdrawImport, WithdrawRead, Refuse
  <2>2. \A r \in {} : ImportGrounds(r)'
    OBVIOUS
  <2> QED
    BY <1>1, <2>1, <2>2, OnwardGrounded
<1>3. CASE Check(t) \/ Answer(t) \/ WithdrawSibling(t)
  <2>1. \E pc \in Approving : TaskAt(t, pc)
    BY <1>3 DEF Check, Answer, WithdrawSibling, Approving
  <2>2. /\ x.pc \in Approving /\ {"pc", "kind", "details", "perms", "rest"} \subseteq DOMAIN x
        /\ x.kind # "read" => ImportGrounds(x)'
        /\ x.kind = "read" => ReadGrounds(x)'
        /\ \A r \in x.rest : ImportGrounds(r)'
    BY <1>0, <2>1, AtGrounds
  <2>3. CASE Onward(t, x.rest)
    BY <1>1, <2>2, <2>3, OnwardGrounded
  <2>4. CASE task' = Step(t, "approve") \/ task' = [task EXCEPT ![t].pc = "withdraw", ![t].perms = {}]
    <3>1. PICK y : /\ y \in {[x EXCEPT !.pc = "approve"], [x EXCEPT !.pc = "withdraw", !.perms = {}]}
                   /\ task' = [task EXCEPT ![t] = y]
      BY <1>0, <1>1, <2>4 DEF Step
    <3>2. /\ y.pc \in Approving /\ y.kind = x.kind /\ y.details = x.details
          /\ y.perms \subseteq x.perms /\ y.rest = x.rest
      BY <2>2, <3>1 DEF Approving
    <3>3. TaskGrounds(y)'
      BY <2>2, <3>2 DEF TaskGrounds, ImportGrounds, ReadGrounds, Rightful
    <3> QED
      BY <1>1, <3>1, <3>3, GoesOnGrounded
  <2> QED
    BY <1>0, <1>3, <2>3, <2>4 DEF Check, Answer, WithdrawSibling
<1> QED
  BY <1>2, <1>3 DEF TaskStep

\* An approval that pushes its lease has a consent to it, and its siblings have the same.
LEMMA ApproveGrounded ==
  ASSUME IInv, Grounds, [Next]_vars, NEW t \in Thread,
         ApproveImport(t) \/ ApproveSibling(t) \/ ApproveRead(t)
  PROVE  Grounds'
<1>0. PICK x : x = task[t]
  OBVIOUS
<1>1. /\ x.pc = "approve" /\ DOMAIN task = Thread
      /\ x.kind # "read" => ImportGrounds(x)'
      /\ x.kind = "read" => ReadGrounds(x)'
      /\ \A r \in x.rest : ImportGrounds(r)'
      /\ TaskAt(t, "approve") /\ Fine(x)
  <2>1. TaskAt(t, "approve")
    BY DEF ApproveImport, ApproveSibling, ApproveRead
  <2> QED
    BY <1>0, <2>1, AtGrounds, AtWork DEF Approving, IInv
<1>2. migRequests' \subseteq migRequests /\ sshRequests' = sshRequests /\ tools' = tools
  BY DEF ApproveImport, ApproveSibling, ApproveRead, own, migStore, sshStore, Mig!RecordApproval, Mig!Remove
<1>3. CASE ApproveRead(t)
  <2>1. /\ x.kind = "read" /\ x.details \in SshDetailsSet
        /\ sshRead' = Append(sshRead, ReadLease(x.details, Expiry(ReadDuration))) /\ UNCHANGED migration
        /\ Approved(t, Len(sshRead) + 1, {})
    BY <1>0, <1>1, <1>3 DEF ApproveRead, Fine, SshTaskOK, Approving
  <2>2. PICK y : /\ task' = [task EXCEPT ![t] = y] /\ y.kind = x.kind /\ y.details = x.details
                 /\ y.perms = x.perms
    BY <1>0, <1>1, <2>1, ApprovedTask DEF IInv
  <2>3. TaskGrounds(y)'
    BY <1>1, <2>1, <2>2 DEF TaskGrounds, ReadGrounds
  <2>4. \A u \in Thread : task'[u] = task[u] \/ TaskGrounds(task[u])'
    BY <1>1, <2>2, <2>3, GoesOnGrounded
  <2>5. PICK l : l = ReadLease(x.details, Expiry(ReadDuration))
    OBVIOUS
  <2>6. SshLeaseGrounds(l)'
    <3>1. l.root = x.details.target /\ l.res = x.details.res /\ l.uid = UidOf[x.details.target.inst]
      BY <2>1, <2>5, NewLease, EsAssumption DEF IInv, Knowledge
    <3> QED
      BY <1>1, <2>1, <3>1 DEF SshLeaseGrounds, ReadGrounds, ReadAgreed, Rightful
  <2>7. \A k \in DOMAIN sshRead' : k \in DOMAIN sshRead \/ SshLeaseGrounds(sshRead[k])'
    <3>1. \A k \in DOMAIN sshRead' : k \in DOMAIN sshRead \/ sshRead'[k] = l
      BY <2>1, <2>5 DEF IInv, Work, Leases
    <3> QED
      BY <2>6, <3>1 DEF SshLeaseGrounds
  <2>8. ~ \E u \in Thread : ApproveImport(u)
    BY <2>1, <2>2, EsAssumption DEF ApproveImport, IInv, Work, Leases
  <2> QED
    BY <1>2, <2>1, <2>4, <2>7, <2>8, RecentKept, GroundsFrom
<1>4. CASE ApproveImport(t) \/ ApproveSibling(t)
  <2>1. /\ x.kind # "read" /\ x.details \in MigDetails
        /\ migration' = Append(migration, BoundLease(x.details, Expiry(MigrationDuration)))
        /\ UNCHANGED sshRead
    BY <1>0, <1>1, <1>4 DEF ApproveImport, ApproveSibling, Fine, MigTaskOK, Approving
  <2>2. \A d \in MigDetails :
          /\ MigScopeOf[d].uid = UidOf[d.root.inst] /\ MigScopeOf[d].profile = d.profile
          /\ MigScopeOf[d].exe = d.root.exe
    BY DEF MigDetails, MigScopeOf
  <2>3. ASSUME NEW d \in MigDetails, MigScopeOf[d] = MigScopeOf[x.details] PROVE ImportAgreed(d)'
    BY <1>1, <2>1, <2>2, <2>3 DEF ImportGrounds, ImportAgreed
  <2>4. PICK R : Approved(t, Len(migration) + 1, R) /\ \A r \in R : ImportGrounds(r)'
    <3>1. CASE ApproveSibling(t)
      BY <1>0, <1>1, <3>1 DEF ApproveSibling
    <3>2. CASE ApproveImport(t)
      <4>1. PICK S : S = Mig!Siblings(MigScopeOf[x.details])
        OBVIOUS
      <4>2. /\ Approved(t, Len(migration) + 1, S)
            /\ \A r \in S : r \in migRequests /\ MigScopeOf[r.details] = MigScopeOf[x.details]
        BY <1>0, <3>2, <4>1 DEF ApproveImport, Mig!Siblings
      <4>3. \A r \in S : ImportAgreed(r.details)'
        BY <2>3, <4>2 DEF IInv, Work, RequestsOK, MigRequestOK
      <4>4. \A r \in S : Rightful(r.perms, r.details.root)'
        BY <4>2, Opened, RightfulStays DEF IInv, Grounds
      <4> QED
        BY <4>2, <4>3, <4>4 DEF ImportGrounds
    <3> QED
      BY <1>4, <3>1, <3>2
  <2>5. PICK y : /\ task' = [task EXCEPT ![t] = y] /\ y.kind = x.kind /\ y.details = x.details
                 /\ y.perms = x.perms /\ y.rest = R
    BY <1>0, <1>1, <2>4, ApprovedTask DEF IInv
  <2>6. TaskGrounds(y)'
    BY <1>1, <2>1, <2>4, <2>5 DEF TaskGrounds, ImportGrounds
  <2>7. \A u \in Thread : task'[u] = task[u] \/ TaskGrounds(task[u])'
    BY <1>1, <2>5, <2>6, GoesOnGrounded
  <2>8. PICK l : l = BoundLease(x.details, Expiry(MigrationDuration))
    OBVIOUS
  <2>9. MigLeaseGrounds(l)'
    <3>1. l.root = x.details.root /\ l.profile = x.details.profile /\ l.uid = UidOf[x.details.root.inst]
      BY <2>1, <2>8, NewLease, EsAssumption DEF IInv, Knowledge
    <3> QED
      BY <1>1, <2>1, <3>1 DEF MigLeaseGrounds, ImportGrounds, ImportAgreed, Rightful
  <2>10. \A k \in DOMAIN migration' : k \in DOMAIN migration \/ MigLeaseGrounds(migration[k])'
    <3>1. \A k \in DOMAIN migration' : k \in DOMAIN migration \/ migration'[k] = l
      BY <2>1, <2>8 DEF IInv, Work, Leases
    <3> QED
      BY <2>9, <3>1 DEF MigLeaseGrounds
  <2>11. /\ DOMAIN migRecent' = MigScope
         /\ \A s \in MigScope : migRecent'[s] # 0 => migRecent[s] # 0 \/ ToImport(s.uid, s.profile, s.exe)'
    <3>1. CASE ApproveImport(t)
      <4>1. ToImport(MigScopeOf[x.details].uid, MigScopeOf[x.details].profile, MigScopeOf[x.details].exe)'
        BY <2>1, <2>2, <2>3 DEF ImportAgreed
      <4>2. PICK s : s = MigScopeOf[x.details]
        OBVIOUS
      <4>3. \E n : migRecent' = [Mig!Cleanup(migRecent) EXCEPT ![s] = n] \/ migRecent' = Mig!Cleanup(migRecent)
        BY <1>0, <3>1, <4>2 DEF ApproveImport, Mig!RecordApproval
      <4>4. /\ DOMAIN migRecent' = MigScope
            /\ \A q \in MigScope : q # s /\ migRecent'[q] # 0 => migRecent[q] # 0
            /\ migRecent'[s] # 0 /\ s \in MigScope => ToImport(s.uid, s.profile, s.exe)'
        BY <4>1, <4>2, <4>3 DEF Grounds, Mig!Cleanup
      <4> QED
        BY <4>4
    <3>2. CASE ApproveSibling(t) /\ ~ApproveImport(t)
      BY <3>2 DEF ApproveSibling, migStore, Grounds
    <3> QED
      BY <1>4, <3>1, <3>2
  <2> QED
    BY <1>2, <2>1, <2>7, <2>10, <2>11, GroundsFrom
<1> QED
  BY <1>3, <1>4

\* Where no lease is pushed, only requests, approvals and tools can be new.
LEMMA GroundsUnpushed ==
  ASSUME IInv, Grounds, [Next]_vars,
         ~ \E t \in Thread : ApproveImport(t) \/ ApproveSibling(t) \/ ApproveRead(t),
         \A r \in migRequests' : r \in migRequests \/ Rightful(r.perms, r.details.root)',
         \A r \in sshRequests' : r \in sshRequests \/ Rightful(r.perms, r.details.target)',
         \A t \in Thread : task'[t] = task[t] \/ TaskGrounds(task[t])',
         \A e \in tools' : e \in tools \/ ToolAgreed(e)'
  PROVE  Grounds'
<1>1. DOMAIN migRecent' = MigScope /\ \A s \in MigScope : migRecent'[s] # 0 => migRecent[s] # 0
  BY RecentKept
<1>2. DOMAIN migration' = DOMAIN migration /\ DOMAIN sshRead' = DOMAIN sshRead
  BY Unpushed
<1> QED
  BY <1>1, <1>2, GroundsFrom

\* Nobody but the owner of what is opened is let in, or asked.
LEMMA Owned ==
  ASSUME Judgement.kind # "deny"
  PROVE  UidOfIdentity(Id) = OwnerOf[Res]
<1>1. CASE KindOf[Res] = "ssh"
  BY <1>1 DEF Judgement, Evaluate, DecideSsh, Plain, ByLease
<1>2. CASE KindOf[Res] # "ssh"
  BY <1>2 DEF Judgement, Evaluate, DecideBrowser, Settled, Plain, ByLease
<1> QED
  BY <1>1, <1>2

\* Only what is asked about an open of its own user joins a request, and only a consent
\* of earlier lets it through at once.
LEMMA HandleMigrationGrounded ==
  ASSUME IInv, Grounds, [Next]_vars, HandleMigration,
         ~ \E t \in Thread : ApproveImport(t) \/ ApproveSibling(t) \/ ApproveRead(t)
  PROVE  Grounds'
<1> DEFINE d == [target |-> Id.self, root |-> Id.self, profile |-> ProfileOf[Res]]
<1>1. /\ Handling /\ Id # None /\ Judgement.kind = "askMigration"
      /\ Mig!Enqueue(Event, d) /\ UNCHANGED <<sshRequests, tools, ask, life, ran, consents>>
      /\ IF perm'[Event] = "taken"
         THEN task' = [task EXCEPT ![Main] = Approval("sibling", d, {Event}, {})]
         ELSE UNCHANGED task
  BY DEF HandleMigration, ToJudge, sshStore, outside, procs
<1>2. /\ Event \in Perm /\ ask[Event] # None /\ Res \in Resource
      /\ Id.self \in Stable /\ Was(Id.self) /\ OwnerOf[Res] = UidOf[Id.self.inst]
  BY <1>1, AtEvent, Judged, Owned DEF IInv, UidOfIdentity
<1>3. ProfileOf[Res] \in Profile /\ Id.self.exe \in Trusted
  <2>1. KindOf[Res] = "browser" /\ IsTrustedBrowser(Id)
    BY <1>1, <1>2, JudgedKind, CoreAssumption
  <2>2. Id.self.exe \in Trusted
    BY <2>1 DEF IsTrustedBrowser, BrowserOfIdentity, Trusted
  <2> QED
    BY <1>2, <2>1, <2>2, CoreAssumption
<1>4. PICK e : e = d
  OBVIOUS
<1>5. e \in MigDetails /\ e.root = Id.self /\ e.profile = ProfileOf[Res]
  BY <1>2, <1>3, <1>4 DEF MigDetails, Stable
<1>6. PICK p \in Perm : p = Event
  BY <1>2
<1>7. /\ Mig!Enqueue(p, e)
      /\ IF perm'[p] = "taken"
         THEN task' = [task EXCEPT ![Main] = Approval("sibling", e, {p}, {})]
         ELSE UNCHANGED task
  BY <1>1, <1>4, <1>6
<1> HIDE DEF d
<1>8. Was(e.root) /\ OwnerOf[ask[p].res] = UidOf[e.root.inst]
  BY <1>2, <1>5, <1>6 DEF Res
<1>9. \A P, s : Rightful(P, s) => Rightful(P, s)'
  BY <1>1 DEF Rightful, Was
<1>10. Rightful({p}, e.root)'
  <2>1. Rightful({p}, e.root)
    BY <1>8 DEF Rightful
  <2> QED
    BY <1>9, <2>1
<1>11. \A r \in migRequests' : r \in migRequests \/ Rightful(r.perms, r.details.root)'
  <2>1. CASE Mig!JoinRequest(p, e)
    <3>1. PICK r \in migRequests : /\ MigKeyOf[r.details] = MigKeyOf[e]
            /\ migRequests' = (migRequests \ {r}) \union {[r EXCEPT !.perms = @ \union {p}]}
      BY <2>1 DEF Mig!JoinRequest, Mig!Pending
    <3>2. PICK n : n = [r EXCEPT !.perms = @ \union {p}]
      OBVIOUS
    <3>3. n.perms = r.perms \union {p} /\ n.details = r.details
      BY <3>2 DEF IInv, Custody, Shapes, RequestFields
    <3>4. r.details.root = e.root
      <4>1. r.details \in MigDetails
        BY DEF IInv, Work, RequestsOK, MigRequestOK
      <4>2. \A f \in MigDetails : MigKeyOf[f].root = f.root
        BY DEF MigKeyOf
      <4> QED
        BY <1>5, <3>1, <4>1, <4>2
    <3>5. Rightful(n.perms, n.details.root)
      BY <1>8, <3>3, <3>4 DEF Rightful, Grounds
    <3> QED
      BY <1>9, <3>1, <3>2, <3>5
  <2>2. CASE Mig!CreateRequest(p, e)
    <3>1. PICK n : n = [id |-> migNextId + 1, details |-> e, perms |-> {p},
                        expires |-> Mig!SatAdd(now, Timeout)]
      OBVIOUS
    <3>2. migRequests' = migRequests \union {n} /\ n.perms = {p} /\ n.details = e
      BY <2>2, <3>1 DEF Mig!CreateRequest
    <3> QED
      BY <1>10, <3>2
  <2>3. CASE \/ Mig!DenySuppressed(p, e) \/ Mig!DenyFullRequest(p, e) \/ Mig!DenyFullStore(p, e)
             \/ Mig!ReturnRecentlyApproved(p, e)
    BY <2>3 DEF Mig!DenySuppressed, Mig!DenyFullRequest, Mig!DenyFullStore, Mig!ReturnRecentlyApproved
  <2> QED
    BY <1>7, <2>1, <2>2, <2>3 DEF Mig!Enqueue
<1>12. \A u \in Thread : task'[u] = task[u] \/ TaskGrounds(task[u])'
  <2>1. CASE perm'[p] # "taken"
    BY <1>7, <2>1
  <2>2. CASE perm'[p] = "taken"
    <3>1. Mig!ReturnRecentlyApproved(p, e)
      <4>1. perm' # Mig!Marked({p}, "denied") /\ perm' # Mig!Marked({p}, "held")
        BY <2>2 DEF Mig!Marked
      <4> QED
        BY <1>7, <4>1 DEF Mig!Enqueue, Mig!DenySuppressed, Mig!DenyFullRequest, Mig!DenyFullStore,
           Mig!JoinRequest, Mig!CreateRequest
    <3>2. ToImport(MigScopeOf[e].uid, MigScopeOf[e].profile, MigScopeOf[e].exe)
      <4>1. MigScopeOf[e] \in MigScope
        BY <1>5 DEF MigScope
      <4>2. migRecent[MigScopeOf[e]] # 0
        BY <3>1, <4>1 DEF Mig!ReturnRecentlyApproved, Mig!RecentlyApproved, Mig!Cleanup, Grounds
      <4> QED
        BY <4>1, <4>2 DEF Grounds
    <3>3. /\ MigScopeOf[e].uid = UidOf[e.root.inst] /\ MigScopeOf[e].profile = e.profile
          /\ MigScopeOf[e].exe = e.root.exe
      BY <1>5 DEF MigDetails, MigScopeOf
    <3>4. ImportAgreed(e)'
      BY <1>1, <3>2, <3>3 DEF ImportAgreed, ToImport
    <3>5. PICK x : x = Approval("sibling", e, {p}, {})
      OBVIOUS
    <3>6. /\ x.pc = "check" /\ x.kind = "sibling" /\ x.details = e /\ x.perms = {p} /\ x.rest = {}
      BY <3>5 DEF Approval
    <3>7. TaskGrounds(x)'
      BY <1>10, <3>4, <3>6 DEF TaskGrounds, ImportGrounds
    <3>8. DOMAIN task = Thread /\ Main \in Thread /\ task' = [task EXCEPT ![Main] = x]
      BY <1>7, <2>2, <3>5 DEF IInv, Custody, Shapes, Thread
    <3> QED
      BY <3>7, <3>8, GoesOnGrounded
  <2> QED
    BY <2>1, <2>2
<1> QED
  BY <1>1, <1>11, <1>12, GroundsUnpushed

LEMMA HandleReadGrounded ==
  ASSUME IInv, Grounds, [Next]_vars, HandleRead,
         ~ \E t \in Thread : ApproveImport(t) \/ ApproveSibling(t) \/ ApproveRead(t)
  PROVE  Grounds'
<1>1. /\ Handling /\ Id # None /\ Judgement.kind = "askSsh"
      /\ Ssh!Enqueue(Event, ReadDetails)
      /\ UNCHANGED <<migRequests, tools, task, ask, life, ran, consents>>
  BY DEF HandleRead, ToJudge, ReadDetails, migStore, outside, procs
<1>2. /\ Event \in Perm /\ Was(Id.self) /\ OwnerOf[Res] = UidOf[Id.self.inst]
  BY <1>1, AtEvent, Judged, Owned DEF IInv, UidOfIdentity
<1>3. PICK e : e = ReadDetails
  OBVIOUS
<1>4. e \in SshDetailsSet /\ e.target = Id.self
  BY <1>3, ReadDetailsOK DEF ReadDetails, IInv
<1>5. PICK p \in Perm : p = Event
  BY <1>2
<1>6. Ssh!Enqueue(p, e)
  BY <1>1, <1>3, <1>5
<1>7. Was(e.target) /\ OwnerOf[ask[p].res] = UidOf[e.target.inst]
  BY <1>2, <1>4, <1>5 DEF Res
<1>8. \A P, s : Rightful(P, s) => Rightful(P, s)'
  BY <1>1 DEF Rightful, Was
<1>9. Rightful({p}, e.target)'
  <2>1. Rightful({p}, e.target)
    BY <1>7 DEF Rightful
  <2> QED
    BY <1>8, <2>1
<1>10. \A r \in sshRequests' : r \in sshRequests \/ Rightful(r.perms, r.details.target)'
  <2>1. CASE Ssh!JoinRequest(p, e)
    <3>1. PICK r \in sshRequests : /\ SshKeyOf[r.details] = SshKeyOf[e]
            /\ sshRequests' = (sshRequests \ {r}) \union {[r EXCEPT !.perms = @ \union {p}]}
      BY <2>1 DEF Ssh!JoinRequest, Ssh!Pending
    <3>2. PICK n : n = [r EXCEPT !.perms = @ \union {p}]
      OBVIOUS
    <3>3. n.perms = r.perms \union {p} /\ n.details = r.details
      BY <3>2 DEF IInv, Custody, Shapes, RequestFields
    <3>4. r.details.target = e.target
      <4>1. r.details \in SshDetailsSet
        BY DEF IInv, Work, RequestsOK, SshRequestOK
      <4>2. \A f \in SshDetailsSet : SshKeyOf[f].root = f.target
        BY DEF SshKeyOf
      <4> QED
        BY <1>4, <3>1, <4>1, <4>2
    <3>5. Rightful(n.perms, n.details.target)
      BY <1>7, <3>3, <3>4 DEF Rightful, Grounds
    <3> QED
      BY <1>8, <3>1, <3>2, <3>5
  <2>2. CASE Ssh!CreateRequest(p, e)
    <3>1. PICK n : n = [id |-> sshNextId + 1, details |-> e, perms |-> {p},
                        expires |-> Ssh!SatAdd(now, Timeout)]
      OBVIOUS
    <3>2. sshRequests' = sshRequests \union {n} /\ n.perms = {p} /\ n.details = e
      BY <2>2, <3>1 DEF Ssh!CreateRequest
    <3> QED
      BY <1>9, <3>2
  <2>3. CASE \/ Ssh!DenySuppressed(p, e) \/ Ssh!DenyFullRequest(p, e) \/ Ssh!DenyFullStore(p, e)
             \/ Ssh!ReturnRecentlyApproved(p, e)
    BY <2>3 DEF Ssh!DenySuppressed, Ssh!DenyFullRequest, Ssh!DenyFullStore, Ssh!ReturnRecentlyApproved
  <2> QED
    BY <1>6, <2>1, <2>2, <2>3 DEF Ssh!Enqueue
<1> QED
  BY <1>1, <1>10, GroundsUnpushed

\* An answered prompt is an approval that its user has consented to.
LEMMA XpcGrounded ==
  ASSUME IInv, Grounds, [Next]_vars, NEW x \in Xpc, XpcRequest(x),
         ~ \E t \in Thread : ApproveImport(t) \/ ApproveSibling(t) \/ ApproveRead(t)
  PROVE  Grounds'
<1>0. DOMAIN task = Thread /\ x \in Thread
  BY DEF IInv, Custody, Shapes, Thread
<1>1. ASSUME NEW r \in migRequests, NEW u, NEW block, XpcResolveMigration(x, r, u, block)
      PROVE  Grounds'
  <2>1. migRequests' \subseteq migRequests /\ UNCHANGED <<sshRequests, tools>>
    BY <1>1 DEF XpcResolveMigration, sshStore, Mig!TakeTimedOut, Mig!TakeReady, Mig!Remove
  <2>2. CASE UNCHANGED task
    BY <2>1, <2>2, GroundsUnpushed
  <2>3. CASE block /\ Resolution(x, "import", r, block)
    <3>1. PICK y : y = [pc |-> "refuse", perms |-> r.perms]
      OBVIOUS
    <3>2. TaskGrounds(y)' /\ task' = [task EXCEPT ![x] = y]
      BY <2>3, <3>1 DEF Resolution, TaskGrounds, Approving
    <3> QED
      BY <1>0, <2>1, <3>2, GoesOnGrounded, GroundsUnpushed
  <2>4. CASE /\ ~block /\ Resolution(x, "import", r, block)
             /\ ConsentTo("migration", r.details.profile, u, r.details) \in consents'
    <3>1. r.details \in MigDetails /\ Rightful(r.perms, r.details.root)'
      BY Opened, RightfulStays DEF IInv, Grounds, Work, RequestsOK, MigRequestOK
    <3>2. ImportAgreed(r.details)'
      <4>1. r.details.root = r.details.target
        BY <3>1 DEF MigDetails
      <4> QED
        BY <2>4, <4>1 DEF ConsentTo, ImportAgreed, ToImport
    <3>3. PICK y : y = Approval("import", r.details, r.perms, {})
      OBVIOUS
    <3>4. /\ y.pc = "check" /\ y.kind = "import" /\ y.details = r.details /\ y.perms = r.perms
          /\ y.rest = {} /\ task' = [task EXCEPT ![x] = y]
      BY <2>4, <3>3 DEF Approval, Resolution
    <3>5. TaskGrounds(y)'
      BY <3>1, <3>2, <3>4 DEF TaskGrounds, ImportGrounds
    <3> QED
      BY <1>0, <2>1, <3>4, <3>5, GoesOnGrounded, GroundsUnpushed
  <2> QED
    BY <1>1, <2>2, <2>3, <2>4 DEF XpcResolveMigration
<1>2. ASSUME NEW r \in sshRequests, NEW u, NEW block, XpcResolveRead(x, r, u, block)
      PROVE  Grounds'
  <2>1. sshRequests' \subseteq sshRequests /\ UNCHANGED <<migRequests, tools>>
    BY <1>2 DEF XpcResolveRead, migStore, Ssh!TakeTimedOut, Ssh!TakeReady, Ssh!Remove
  <2>2. CASE UNCHANGED task
    BY <2>1, <2>2, GroundsUnpushed
  <2>3. CASE block /\ Resolution(x, "read", r, block)
    <3>1. PICK y : y = [pc |-> "refuse", perms |-> r.perms]
      OBVIOUS
    <3>2. TaskGrounds(y)' /\ task' = [task EXCEPT ![x] = y]
      BY <2>3, <3>1 DEF Resolution, TaskGrounds, Approving
    <3> QED
      BY <1>0, <2>1, <3>2, GoesOnGrounded, GroundsUnpushed
  <2>4. CASE /\ ~block /\ Resolution(x, "read", r, block)
             /\ ConsentTo("read", r.details.res, u, r.details) \in consents'
    <3>1. Rightful(r.perms, r.details.target)'
      BY Opened, RightfulStays DEF IInv, Grounds
    <3>2. ReadAgreed(r.details)'
      BY <2>4 DEF ConsentTo, ReadAgreed, ToRead
    <3>3. PICK y : y = Approval("read", r.details, r.perms, {})
      OBVIOUS
    <3>4. /\ y.pc = "check" /\ y.kind = "read" /\ y.details = r.details /\ y.perms = r.perms
          /\ y.rest = {} /\ task' = [task EXCEPT ![x] = y]
      BY <2>4, <3>3 DEF Approval, Resolution
    <3>5. TaskGrounds(y)'
      BY <3>1, <3>2, <3>4 DEF TaskGrounds, ReadGrounds
    <3> QED
      BY <1>0, <2>1, <3>4, <3>5, GoesOnGrounded, GroundsUnpushed
  <2> QED
    BY <1>2, <2>2, <2>3, <2>4 DEF XpcResolveRead
<1>3. CASE (\E u \in Clients : XpcRevoke(x, u)) \/ \E secs \in 0..MaxDisabled : XpcDisableSuppression(x, secs)
  <2>1. UNCHANGED <<migRequests, sshRequests, task, tools>>
    BY <1>3 DEF XpcRevoke, XpcDisableSuppression, migStore, sshStore
  <2> QED
    BY <2>1, GroundsUnpushed
<1> QED
  BY <1>1, <1>2, <1>3 DEF XpcRequest

LEMMA NextKeepsGrounds ==
  ASSUME IInv, Grounds, [Next]_vars
  PROVE  Grounds'
<1>1. CASE \E t \in Thread : ApproveImport(t) \/ ApproveSibling(t) \/ ApproveRead(t)
  BY <1>1, ApproveGrounded
<1>2. CASE ~ \E t \in Thread : ApproveImport(t) \/ ApproveSibling(t) \/ ApproveRead(t)
  <2>1. CASE Environment \/ Tick \/ UNCHANGED vars
    <3>1. UNCHANGED <<migRequests, sshRequests, task>>
      BY <2>1 DEF Environment, Tick, Spawn, Exit, Exec, Open, EnrolTool, ReplaceFile, LearnNews,
         LearnOpen, TimesOut, service, migStore, sshStore, vars
    <3>2. \A e \in tools' : e \in tools \/ ToolAgreed(e)'
      <4>1. ASSUME NEW e \in Tool, EnrolTool(e) PROVE tools' = tools \union {e} /\ ToolAgreed(e)'
        <5>1. tools' = tools \union {e}
          BY <4>1 DEF EnrolTool
        <5>2. ASSUME NEW r \in Resource \ Critical, KindOf[r] = "browser"
              PROVE  \E c \in consents' : c.kind = "tool" /\ c.uid = OwnerOf[r] /\ c.what = r /\ c.exe = e
          <6>1. PICK c : c = [kind |-> "tool", uid |-> OwnerOf[r], by |-> OwnerOf[r], what |-> r, exe |-> e,
                              start |-> 0]
            OBVIOUS
          <6>2. c \in consents'
            BY <4>1, <5>2, <6>1 DEF EnrolTool
          <6> QED
            BY <6>1, <6>2
        <5> QED
          BY <5>1, <5>2 DEF ToolAgreed
      <4>2. CASE \E e \in Tool : EnrolTool(e)
        BY <4>1, <4>2
      <4>3. CASE ~ \E e \in Tool : EnrolTool(e)
        BY <2>1, <4>3 DEF Environment, Tick, Spawn, Exit, Exec, Open, ReplaceFile, LearnNews,
           LearnOpen, TimesOut, service, vars
      <4> QED
        BY <4>2, <4>3
    <3> QED
      BY <1>2, <3>1, <3>2, GroundsUnpushed
  <2>2. CASE MainStep
    <3>1. CASE ~HandleMigration /\ ~HandleRead
      <4>1. /\ migRequests' \subseteq migRequests /\ sshRequests' \subseteq sshRequests
            /\ UNCHANGED <<task, tools>>
        BY <2>2, <3>1 DEF MainStep, HandleUnknown, HandleWriteOfKey, HandleTool, HandleDecided, HandleUnasked,
           ReceiveNothing, MaintainMigrations, MaintainReads, Handled, migStore, sshStore,
           Mig!Expire, Mig!Remove, Ssh!Expire, Ssh!Remove
      <4> QED
        BY <1>2, <4>1, GroundsUnpushed
    <3> QED
      BY <1>2, <3>1, HandleMigrationGrounded, HandleReadGrounded
  <2>3. ASSUME NEW t \in Thread, TaskStep(t) PROVE Grounds'
    <3>1. \A u \in Thread : task'[u] = task[u] \/ TaskGrounds(task[u])'
      BY <1>2, <2>3, AnswerGrounded
    <3>2. UNCHANGED <<migRequests, sshRequests, tools>>
      BY <1>2, <2>3 DEF TaskStep, Check, Answer, WithdrawImport, WithdrawSibling, WithdrawRead, Refuse, own,
         migStore, sshStore
    <3> QED
      BY <1>2, <3>1, <3>2, GroundsUnpushed
  <2>4. CASE \E x \in Serving : XpcRequest(x)
    BY <1>2, <2>4, XpcGrounded, EsAssumption DEF IInv, Knowledge, World, Serving
  <2> QED
    BY <2>1, <2>2, <2>3, <2>4 DEF Next, Thread
<1> QED
  BY <1>1, <1>2

LEMMA InitGrounds == Init => Grounds
<1> SUFFICES ASSUME Init PROVE Grounds
  OBVIOUS
<1>1. /\ migRequests = {} /\ sshRequests = {} /\ tools = {}
      /\ migration = <<>> /\ sshRead = <<>> /\ migRecent = [s \in MigScope |-> 0]
      /\ task = [t \in Xpc \union {Main} |-> Idle]
  BY DEF Init
<1>2. \A t \in Thread : TaskGrounds(task[t])
  BY <1>1 DEF Thread, Idle, TaskGrounds, Approving
<1>3. DOMAIN migration = {} /\ DOMAIN sshRead = {}
  BY <1>1
<1>4. DOMAIN migRecent = MigScope /\ \A s \in MigScope : migRecent[s] = 0
  BY <1>1
<1> QED
  BY <1>1, <1>2, <1>3, <1>4 DEF Grounds

-----------------------------------------------------------------------------
(***************************************************************************)
(* Every answer has one of the reasons the gate knows.                     *)
(***************************************************************************)
\* A consent to imports, or to reads, by a process of the tree of who opens.
LEMMA CoveredImport ==
  ASSUME NEW a \in Access, NEW s, Was(s), s.inst \in Gate!Tree(a.inst),
         KindOf[a.res] = "browser", UidOf[a.inst] = OwnerOf[a.res],
         ToImport(OwnerOf[a.res], ProfileOf[a.res], s.exe)
  PROVE  Gate!Justified(a)
BY DEF Gate!Justified, Gate!Covers, ToImport, Was

LEMMA CoveredRead ==
  ASSUME NEW a \in Access, NEW s, Was(s), s.inst \in Gate!Tree(a.inst),
         UidOf[a.inst] = OwnerOf[a.res], ToRead(OwnerOf[a.res], a.res, s)
  PROVE  Gate!Justified(a)
BY DEF Gate!Justified, Gate!Covers, ToRead, Was

\* An open that is judged as one of another process is excused.
LEMMA Excused ==
  ASSUME NEW a, NEW i, TakenFor(a.inst, i), a.inst # i
  PROVE  Gate!Justified(a)
BY DEF TakenFor, Gate!Justified

\* The lease by which evaluate lets an open through.
LEMMA ByImport ==
  ASSUME Judgement.kind = "byMigration", migration \in Seq(MigrationLease)
  PROVE  /\ KindOf[Res] # "ssh"
         /\ \E k \in DOMAIN migration : InScope(migration[k], Res, Id) /\ InTree(Id, migration[k].root)
<1>1. KindOf[Res] # "ssh"
  BY DEF Judgement, Evaluate, DecideSsh, Plain, ByLease
<1>2. PICK scoped : scoped = {i \in DOMAIN migration : InScope(migration[i], Res, Id)}
  OBVIOUS
<1>3. PICK settling : settling = {i \in scoped : Settles(migration[i], Id, now)}
  OBVIOUS
<1>4. settling # {} /\ Settled(migration[Min(settling)], Min(settling), now).kind = "byMigration"
  BY <1>1, <1>2, <1>3 DEF Judgement, Evaluate, DecideBrowser, Plain
<1>5. Min(settling) \in settling
  <2>1. DOMAIN migration \subseteq Nat
    OBVIOUS
  <2>2. settling \subseteq Nat
    BY <1>2, <1>3, <2>1
  <2> QED
    BY <1>4, <2>2, MinIn
<1>6. InTree(Id, migration[Min(settling)].root)
  BY <1>3, <1>4, <1>5 DEF Settled, Settles, Plain
<1> QED
  BY <1>1, <1>2, <1>3, <1>5, <1>6

LEMMA ByRead ==
  ASSUME Judgement.kind \in {"bySshLoad", "bySshRead"}, sshRead \in Seq(SshReadLease)
  PROVE  \E k \in DOMAIN sshRead : ReadApplies(sshRead[k], Res, Id, now)
<1>1. KindOf[Res] = "ssh"
  BY DEF Judgement, Evaluate, DecideBrowser, Settled, Plain, ByLease
<1>2. {i \in DOMAIN << >> : LoadApplies(<< >>[i], Res, Id, now)} = {}
  OBVIOUS
<1>3. PICK read : read = {i \in DOMAIN sshRead : ReadApplies(sshRead[i], Res, Id, now)}
  OBVIOUS
<1>4. read # {}
  BY <1>1, <1>2, <1>3 DEF Judgement, Evaluate, DecideSsh, Plain
<1> QED
  BY <1>3, <1>4

\* What evaluate grants is its own profile, or comes of a lease that a consent made.
LEMMA GrantJustified ==
  ASSUME IInv, Grounds, Handling, Id # None, Grants(Judgement)
  PROVE  Gate!Justified(ask[Event])
<1>1. /\ ask[Event] \in Access /\ Res \in Resource /\ Id.self \in Stable
      /\ TakenFor(ask[Event].inst, Id.self.inst)
  BY Judged DEF IInv
<1>2. Judgement.kind # "deny" /\ UidOf[Id.self.inst] = OwnerOf[Res]
  BY Owned DEF Grants, UidOfIdentity
<1>3. ASSUME NEW root \in Stable, InTree(Id, root)
      PROVE  root.inst \in Gate!Tree(Id.self.inst)
  <2>1. Id = [self |-> Id.self, ancestors |-> Chain(Id.self)]
    BY DEF Id, Resolve
  <2> QED
    BY <1>1, <1>3, <2>1, TreeKnown DEF IInv
<1>4. CASE ask[Event].inst # Id.self.inst
  BY <1>1, <1>4, Excused
<1>5. CASE ask[Event].inst = Id.self.inst /\ Judgement.kind = "byMigration"
  <2>1. PICK k \in DOMAIN migration : InScope(migration[k], Res, Id) /\ InTree(Id, migration[k].root)
    BY <1>5, ByImport DEF IInv, Work, Leases
  <2>2. PICK l : l = migration[k]
    OBVIOUS
  <2>3. MigLeaseGrounds(l) /\ l.root \in Stable /\ Was(l.root)
    BY <2>1, <2>2 DEF Grounds, MigLeaseGrounds, Was
  <2>4. l.root.inst \in Gate!Tree(Id.self.inst)
    BY <1>3, <2>1, <2>2, <2>3
  <2>5. ToImport(OwnerOf[Res], ProfileOf[Res], l.root.exe)
    BY <1>2, <2>1, <2>2, <2>3 DEF MigLeaseGrounds, InScope, UidOfIdentity
  <2>6. KindOf[Res] = "browser"
    BY <1>1, <1>5, ByImport, CoreAssumption DEF IInv, Work, Leases
  <2> QED
    BY <1>1, <1>2, <1>5, <2>3, <2>4, <2>5, <2>6, CoveredImport DEF Res
<1>6. CASE ask[Event].inst = Id.self.inst /\ Judgement.kind \in {"bySshLoad", "bySshRead"}
  <2>1. PICK k \in DOMAIN sshRead : ReadApplies(sshRead[k], Res, Id, now)
    BY <1>6, ByRead DEF IInv, Work, Leases
  <2>2. PICK l : l = sshRead[k]
    OBVIOUS
  <2>3. SshLeaseGrounds(l) /\ l.root \in Stable /\ Was(l.root)
    BY <2>1, <2>2 DEF Grounds, SshLeaseGrounds, Was
  <2>4. l.root.inst \in Gate!Tree(Id.self.inst)
    BY <1>3, <2>1, <2>2, <2>3 DEF ReadApplies
  <2>5. ToRead(OwnerOf[Res], Res, l.root)
    BY <1>2, <2>1, <2>2, <2>3 DEF SshLeaseGrounds, ReadApplies, UidOfIdentity
  <2> QED
    BY <1>1, <1>2, <1>6, <2>3, <2>4, <2>5, CoveredRead DEF Res
<1>7. CASE Judgement.kind = "allow"
  BY <1>7, OwnAllowed DEF Gate!Justified
<1> QED
  BY <1>4, <1>5, <1>6, <1>7 DEF Grants

\* What an approval lets through its user has consented to.
LEMMA ApprovalJustified ==
  ASSUME IInv, Grounds, NEW t \in Thread, TaskAt(t, "answer"), NEW p \in task[t].perms
  PROVE  Gate!Justified(ask[p])
<1>0. PICK x : x = task[t]
  OBVIOUS
<1>1. /\ x.pc = "answer" /\ TaskGrounds(x) /\ Fine(x) /\ Asked(x.perms) /\ p \in x.perms
  BY <1>0, Opened DEF TaskAt, Approving, Grounds, IInv, Work, TasksOK
<1>2. p \in Perm /\ ask[p] \in Access
  BY <1>1 DEF Asked, IInv, Knowledge, OpensOK
<1>3. CASE x.kind = "read"
  <2>1. /\ ReadGrounds(x) /\ ForRead(p, x.details)
    BY <1>1, <1>3 DEF TaskGrounds, Fine, SshTaskOK, Approving
  <2>2. /\ TakenFor(ask[p].inst, x.details.target.inst) /\ Was(x.details.target)
        /\ OwnerOf[ask[p].res] = UidOf[x.details.target.inst]
        /\ ToRead(OwnerOf[ask[p].res], ask[p].res, x.details.target)
    BY <1>1, <2>1 DEF ReadGrounds, ReadAgreed, Rightful, ForRead
  <2>3. CASE ask[p].inst = x.details.target.inst
    <3>1. x.details.target.inst \in Gate!Tree(ask[p].inst)
      BY <2>3 DEF Gate!Tree
    <3> QED
      BY <1>2, <2>2, <2>3, <3>1, CoveredRead
  <2> QED
    BY <2>2, <2>3, Excused
<1>4. CASE x.kind # "read"
  <2>1. /\ ImportGrounds(x) /\ ForMig(p, x.details)
    BY <1>1, <1>4 DEF TaskGrounds, Fine, MigTaskOK, Approving
  <2>2. /\ TakenFor(ask[p].inst, x.details.root.inst) /\ Was(x.details.root)
        /\ OwnerOf[ask[p].res] = UidOf[x.details.root.inst] /\ KindOf[ask[p].res] = "browser"
        /\ ToImport(OwnerOf[ask[p].res], ProfileOf[ask[p].res], x.details.root.exe)
    BY <1>1, <2>1 DEF ImportGrounds, ImportAgreed, Rightful, ForMig
  <2>3. CASE ask[p].inst = x.details.root.inst
    <3>1. x.details.root.inst \in Gate!Tree(ask[p].inst)
      BY <2>3 DEF Gate!Tree
    <3> QED
      BY <1>2, <2>2, <2>3, <3>1, CoveredImport
  <2> QED
    BY <2>2, <2>3, Excused
<1> QED
  BY <1>3, <1>4

\* Who writes a key opens it, and a tool may have what it was enrolled for.
LEMMA AtOnceJustified ==
  ASSUME IInv, Grounds, Handling, (KindOf[Res] = "ssh" /\ "read" \notin Flags) \/ ByTool
  PROVE  Gate!Justified(ask[Event])
<1>1. Event \in Perm /\ ask[Event] # None
  BY AtEvent DEF IInv
<1>2. ask[Event] \in Access /\ shown[Event].exe \in ran[ask[Event].inst]
  BY <1>1 DEF IInv, Knowledge, OpensOK
<1>3. CASE KindOf[Res] = "ssh" /\ "read" \notin Flags
  <2>1. ask[Event].op = "open"
    BY <1>1, <1>3 DEF IInv, Knowledge, OpensOK, Res, Flags
  <2> QED
    BY <1>3, <2>1 DEF Gate!Justified, Gate!MereOpenOfKey, Res
<1>4. CASE ByTool
  <2>1. PICK c \in consents : c.kind = "tool" /\ c.uid = OwnerOf[Res] /\ c.what = Res
                                /\ c.exe = shown[Event].exe
    <3>1. Res \in Resource \ Critical /\ KindOf[Res] = "browser" /\ ToolAgreed(shown[Event].exe)
      BY <1>2, <1>4 DEF ByTool, Grounds, Access, Res
    <3> QED
      BY <3>1 DEF ToolAgreed
  <2> QED
    BY <1>2, <2>1 DEF Gate!Justified, Gate!CoversTool, Res
<1> QED
  BY <1>3, <1>4

LEMMA Justifies ==
  ASSUME IInv, Grounds, [Next]_vars, NEW p \in Perm, perm[p] # "allowed", perm'[p] = "allowed"
  PROVE  Gate!Justified(ask[p])
<1>0. perm \in [Perm -> Mig!PermState]
  BY DEF IInv, Custody, StatesOK
<1>1. CASE Environment \/ Tick \/ UNCHANGED vars
  <2>1. UNCHANGED perm
    BY <1>1 DEF Environment, Tick, Spawn, Exit, Exec, Open, EnrolTool, ReplaceFile, LearnNews,
       LearnOpen, TimesOut, service, vars
  <2> QED
    BY <2>1
<1>2. CASE MainStep
  <2>1. ASSUME NEW v, NEW how, Handled(v, how) PROVE p = Event /\ v = "allowed"
    BY <1>0, <2>1 DEF Handled, Mig!Marked
  <2>2. CASE HandleWriteOfKey \/ HandleTool
    <3>1. p = Event /\ Handling /\ ((KindOf[Res] = "ssh" /\ "read" \notin Flags) \/ ByTool)
      BY <2>1, <2>2 DEF HandleWriteOfKey, HandleTool, ToWriteKey
    <3> QED
      BY <3>1, AtOnceJustified
  <2>3. CASE HandleDecided
    <3>1. p = Event /\ Handling /\ Id # None /\ Grants(Judgement)
      BY <2>1, <2>3 DEF HandleDecided, ToJudge
    <3> QED
      BY <3>1, GrantJustified
  <2>4. CASE HandleUnknown \/ HandleUnasked
    BY <2>1, <2>4 DEF HandleUnknown, HandleUnasked
  <2>5. CASE HandleMigration
    BY <1>0, <2>5 DEF HandleMigration, Mig!Enqueue, Mig!DenySuppressed, Mig!DenyFullRequest,
       Mig!DenyFullStore, Mig!ReturnRecentlyApproved, Mig!JoinRequest, Mig!CreateRequest, Mig!Marked
  <2>6. CASE HandleRead
    <3>1. Custody /\ Handling /\ Ssh!Enqueue(Event, ReadDetails) /\ ReadDetails \in SshDetailsSet
      BY <2>6, ReadDetailsOK DEF IInv, HandleRead, ToJudge, ReadDetails
    <3>2. Event \in Perm /\ Event \notin SshPerms
      BY <3>1, AtEvent
    <3>3. perm' = Mig!Marked({Event}, "denied") \/ perm' = Mig!Marked({Event}, "held")
      BY <3>1, <3>2, SshEnqueues
    <3> QED
      BY <1>0, <3>3 DEF Mig!Marked
  <2>7. CASE ReceiveNothing \/ MaintainMigrations \/ MaintainReads
    BY <1>0, <2>7 DEF ReceiveNothing, MaintainMigrations, MaintainReads, Mig!Expire, Mig!Remove, Mig!Marked,
       Ssh!Expire, Ssh!Remove, Ssh!Marked
  <2> QED
    BY <1>2, <2>2, <2>3, <2>4, <2>5, <2>6, <2>7 DEF MainStep
<1>3. ASSUME NEW t \in Thread, TaskStep(t) PROVE Gate!Justified(ask[p])
  <2>1. CASE Answer(t)
    <3>1. TaskAt(t, "answer") /\ p \in task[t].perms
      BY <1>0, <2>1 DEF Answer, Mig!Marked
    <3> QED
      BY <3>1, ApprovalJustified
  <2>2. CASE ~Answer(t)
    BY <1>0, <1>3, <2>2 DEF TaskStep, Check, ApproveImport, ApproveSibling, ApproveRead, WithdrawImport,
       WithdrawSibling, WithdrawRead, Refuse, Mig!RecordApproval, Mig!Remove, Mig!Marked
  <2> QED
    BY <2>1, <2>2
<1>4. CASE \E x \in Serving : XpcRequest(x)
  BY <1>0, <1>4 DEF XpcRequest, XpcResolveMigration, XpcResolveRead, XpcRevoke, XpcDisableSuppression,
     Mig!TakeTimedOut, Mig!TakeReady, Mig!Remove, Mig!Marked, Ssh!TakeTimedOut, Ssh!TakeReady, Ssh!Remove,
     Ssh!Marked
<1> QED
  BY <1>1, <1>2, <1>3, <1>4 DEF Next, Thread

-----------------------------------------------------------------------------
(***************************************************************************)
(* The gate.                                                               *)
(***************************************************************************)
\* What a permission was answered, as the gate has it.
Answered(r) == IF r = None THEN "none" ELSE IF r = {} THEN "denied" ELSE "allowed"

LEMMA InitGate == Init => Gate!Init
<1> SUFFICES ASSUME Init PROVE Gate!Init
  OBVIOUS
<1>1. ran \in [Proc -> SUBSET Exe]
  BY ProcessAssumption DEF Init
<1>2. Mistakable = {}
  <2>1. ASSUME NEW i \in Proc, life[i] # "unborn" PROVE life[i] # "gone" /\ i \in scenario.initial
    BY <2>1 DEF Init, InitProcs
  <2>2. \A i, j \in scenario.initial : PidOf[i] = PidOf[j] => i = j
    BY ProcessAssumption DEF Init, InitProcs
  <2> QED
    BY <2>1, <2>2 DEF Mistakable, Init, InitProcs
<1> QED
  BY <1>1, <1>2 DEF Init, Gate!Init

\* The world goes on: nothing that counts as a reason goes away.
LEMMA WorldGate ==
  ASSUME IInv, [Next]_vars, UNCHANGED <<ask, reply, consents>>
  PROVE  [Gate!Next]_(Gate!vars)
<1>1. \A i \in Proc : (i \in Mistakable => i \in Mistakable') /\ ran[i] \subseteq ran'[i]
  BY Grows DEF IInv, Mistakable
<1>2. Mistakable \subseteq Mistakable'
  BY <1>1 DEF Mistakable
<1>3. Gate!Environment
  BY <1>1, <1>2 DEF Gate!Environment
<1> QED
  BY <1>3 DEF Gate!Next

\* The kernel is told of some opens.
LEMMA AnswersGate ==
  ASSUME IInv, Custody', RepliesOK, Grounds, [Next]_vars,
         UNCHANGED <<life, scenario, ran, ask, consents>>
  PROVE  [Gate!Next]_(Gate!vars)
<1> DEFINE was == [p \in Perm |-> Answered(reply[p])]
           is  == [p \in Perm |-> Answered(reply'[p])]
<1>1. Mistakable' = Mistakable
  BY DEF Mistakable, MaxLag
<1>2. ASSUME NEW p \in Perm, is[p] # was[p]
      PROVE  /\ was[p] = "none" /\ ask[p] # None
             /\ is[p] = "denied" \/ (is[p] = "allowed" /\ Gate!Justified(ask[p]))
  <2>1. reply'[p] # reply[p]
    BY <1>2
  <2>2. /\ reply[p] = None /\ ask[p] # None
        /\ reply'[p] # {} => perm[p] # "allowed" /\ perm'[p] = "allowed"
    BY <2>1, Answers
  <2>3. reply'[p] # {} => Gate!Justified(ask[p])
    BY <2>2, Justifies
  <2> QED
    BY <2>1, <2>2, <2>3 DEF Answered
<1>3. CASE is = was
  BY <1>1, <1>3 DEF Gate!vars, Answered
<1>4. CASE is # was
  <2>1. Gate!AnswerSome
    BY <1>1, <1>2, <1>4 DEF Gate!AnswerSome, Answered
  <2> QED
    BY <2>1 DEF Gate!Next
<1> QED
  BY <1>3, <1>4

\* Processes open files and tools are enrolled.
LEMMA EnvironmentGate ==
  ASSUME IInv, Custody', RepliesOK, Grounds, [Next]_vars, Environment
  PROVE  [Gate!Next]_(Gate!vars)
<1>1. ASSUME NEW p \in Perm, NEW a \in Opens, Open(p, a) PROVE [Gate!Next]_(Gate!vars)
  <2>1. UNCHANGED <<life, scenario, ran, reply, consents>> /\ ask[p] = None
    BY <1>1 DEF Open, procs
  <2>2. PICK b : b = [inst |-> a.inst, res |-> a.res,
                      op |-> IF KindOf[a.res] = "ssh" /\ "read" \notin a.flags THEN "open" ELSE "access"]
    OBVIOUS
  <2>3. ask' = [ask EXCEPT ![p] = b]
    BY <1>1, <2>2 DEF Open
  <2>4. a.inst \in Proc /\ a.res \in Resource
    BY EsAssumption DEF Opens, IInv, Knowledge, World
  <2>5. b \in Gate!Ask
    BY <2>2, <2>4 DEF Gate!Ask
  <2>6. Mistakable' = Mistakable
    BY <2>1 DEF Mistakable, MaxLag
  <2>7. Gate!Open(p)
    BY <2>1, <2>3, <2>5, <2>6 DEF Gate!Open
  <2> QED
    BY <2>7 DEF Gate!Next
<1>2. ASSUME NEW e \in Tool, EnrolTool(e) PROVE [Gate!Next]_(Gate!vars)
  <2>1. UNCHANGED <<life, scenario, ran, ask, reply>> /\ consents \subseteq consents'
    BY <1>2 DEF EnrolTool, procs
  <2>2. \A c \in consents' \ consents : c.by \in {Root, c.uid}
    BY <1>2 DEF EnrolTool
  <2>3. Mistakable' = Mistakable
    BY <2>1 DEF Mistakable, MaxLag
  <2>4. Gate!Consent
    BY <2>1, <2>2, <2>3 DEF Gate!Consent
  <2> QED
    BY <2>4 DEF Gate!Next
<1>3. CASE \E p \in Perm : TimesOut(p)
  <2>1. UNCHANGED <<life, scenario, ran, ask, consents>>
    BY <1>3 DEF TimesOut, procs
  <2> QED
    BY <2>1, AnswersGate
<1>4. CASE /\ ~ \E p \in Perm, a \in Opens : Open(p, a)
           /\ ~ \E e \in Tool : EnrolTool(e)
           /\ ~ \E p \in Perm : TimesOut(p)
  <2>1. UNCHANGED <<ask, reply, consents>>
    BY <1>4 DEF Environment, Spawn, Exit, Exec, ReplaceFile, LearnNews, LearnOpen
  <2> QED
    BY <2>1, WorldGate
<1> QED
  BY <1>1, <1>2, <1>3, <1>4

\* A user consents to what a prompt of the user's own says.
LEMMA ConsentGiven ==
  ASSUME IInv, UNCHANGED <<life, scenario, ran, ask>>,
         RepliesOK, NEW c, c.by \in {Root, c.uid}, NEW block,
         consents' = IF block THEN consents ELSE consents \union {c},
         NEW P, perm' = Mig!Marked(P, "taken"), Reply("exact")
  PROVE  [Gate!Next]_(Gate!vars)
<1>1. \A p \in Perm : reply'[p] = reply[p]
  BY DEF Reply, Mig!Marked
<1>2. Mistakable' = Mistakable
  BY DEF Mistakable, MaxLag
<1>3. consents \subseteq consents' /\ \A d \in consents' \ consents : d.by \in {Root, d.uid}
  OBVIOUS
<1>4. Gate!Consent
  BY <1>1, <1>2, <1>3 DEF Gate!Consent
<1> QED
  BY <1>4 DEF Gate!Next

LEMMA XpcGate ==
  ASSUME IInv, Custody', RepliesOK, Grounds, [Next]_vars, NEW x \in Xpc, XpcRequest(x)
  PROVE  [Gate!Next]_(Gate!vars)
<1>1. UNCHANGED <<life, scenario, ran, ask>>
  BY DEF XpcRequest, XpcResolveMigration, XpcResolveRead, XpcRevoke, XpcDisableSuppression, outside, procs
<1>2. CASE UNCHANGED consents
  BY <1>1, <1>2, AnswersGate
<1>3. ASSUME NEW r \in migRequests, NEW u, NEW block, XpcResolveMigration(x, r, u, block),
             Mig!TakeReady(r, u, block),
             consents' = IF block THEN consents ELSE consents \union
                           {ConsentTo("migration", r.details.profile, u, r.details)}
      PROVE  [Gate!Next]_(Gate!vars)
  <2>1. r.details \in MigDetails
    BY DEF IInv, Work, RequestsOK, MigRequestOK
  <2>2. u \in {Root, UidOf[r.details.target.inst]}
    BY <1>3, <2>1 DEF Mig!TakeReady, Mig!MayResolve, MigKey, MigKeyOf
  <2>3. PICK c : c = ConsentTo("migration", r.details.profile, u, r.details)
    OBVIOUS
  <2>4. c.by \in {Root, c.uid}
    BY <2>2, <2>3 DEF ConsentTo
  <2>5. Reply("exact") /\ \E P : perm' = Mig!Marked(P, "taken")
    BY <1>3 DEF XpcResolveMigration, Mig!TakeReady, Mig!Remove
  <2> QED
    BY <1>1, <1>3, <2>3, <2>4, <2>5, ConsentGiven
<1>4. ASSUME NEW r \in sshRequests, NEW u, NEW block, XpcResolveRead(x, r, u, block),
             Ssh!TakeReady(r, u, block),
             consents' = IF block THEN consents ELSE consents \union
                           {ConsentTo("read", r.details.res, u, r.details)}
      PROVE  [Gate!Next]_(Gate!vars)
  <2>1. r.details \in SshDetailsSet
    BY DEF IInv, Work, RequestsOK, SshRequestOK
  <2>2. u \in {Root, UidOf[r.details.target.inst]}
    BY <1>4, <2>1 DEF Ssh!TakeReady, Ssh!MayResolve, SshKey, SshKeyOf
  <2>3. PICK c : c = ConsentTo("read", r.details.res, u, r.details)
    OBVIOUS
  <2>4. c.by \in {Root, c.uid}
    BY <2>2, <2>3 DEF ConsentTo
  <2>5. Reply("exact") /\ \E P : perm' = Mig!Marked(P, "taken")
    BY <1>4 DEF XpcResolveRead, Ssh!TakeReady, Ssh!Remove, Ssh!Marked, Mig!Marked
  <2> QED
    BY <1>1, <1>4, <2>3, <2>4, <2>5, ConsentGiven
<1>5. CASE \E u \in Clients, block \in BOOLEAN :
             \/ \E r \in migRequests : XpcResolveMigration(x, r, u, block)
             \/ \E r \in sshRequests : XpcResolveRead(x, r, u, block)
  BY <1>2, <1>3, <1>4, <1>5 DEF XpcResolveMigration, XpcResolveRead
<1>6. CASE (\E u \in Clients : XpcRevoke(x, u)) \/ \E secs \in 0..MaxDisabled : XpcDisableSuppression(x, secs)
  <2>1. UNCHANGED consents
    BY <1>6 DEF XpcRevoke, XpcDisableSuppression
  <2> QED
    BY <1>2, <2>1
<1> QED
  BY <1>5, <1>6 DEF XpcRequest

LEMMA NextGate ==
  ASSUME IInv, Custody', RepliesOK, Grounds, [Next]_vars
  PROVE  [Gate!Next]_(Gate!vars)
<1>1. CASE Environment
  BY <1>1, EnvironmentGate
<1>2. CASE Tick \/ UNCHANGED vars
  <2>1. UNCHANGED <<ask, reply, consents>>
    BY <1>2 DEF Tick, vars
  <2> QED
    BY <2>1, WorldGate
<1>3. CASE MainStep
  <2>1. UNCHANGED <<life, scenario, ran, ask, consents>>
    BY <1>3 DEF MainStep, HandleUnknown, HandleWriteOfKey, HandleTool, HandleDecided, HandleUnasked,
       HandleMigration, HandleRead, ReceiveNothing, MaintainMigrations, MaintainReads, Handled, outside, procs
  <2> QED
    BY <2>1, AnswersGate
<1>4. CASE \E t \in Thread : TaskStep(t)
  <2>1. UNCHANGED <<life, scenario, ran, ask, consents>>
    BY <1>4 DEF TaskStep, Check, ApproveImport, ApproveSibling, ApproveRead, Answer, WithdrawImport,
       WithdrawSibling, WithdrawRead, Refuse, own, procs
  <2> QED
    BY <2>1, AnswersGate
<1>5. CASE \E x \in Serving : XpcRequest(x)
  BY <1>5, XpcGate, EsAssumption DEF IInv, Knowledge, World, Serving
<1> QED
  BY <1>1, <1>2, <1>3, <1>4, <1>5 DEF Next, Thread

\* GateSpec, for every machine, every tree of processes and every lag of the
\* notices: however the callbacks, the main loop, the deadlines and the XPC threads
\* interleave, the kernel is told of an open once, and lets it through only for
\* the file's own browser, an enrolled tool, or under a consent its owner gave
\* (Root being no client) for the process tree that opens it - unless the open is
\* of a process that may be mistaken for another one of its pid.
THEOREM ImplementsGate == Spec => GateSpec
<1>1. Init => Gate!Init /\ RepliesOK /\ Grounds
  BY InitGate, InitAnswers, InitGrounds
<1>2. IInv /\ IInv' /\ RepliesOK /\ Grounds /\ [Next]_vars
        => (RepliesOK /\ Grounds)' /\ [Gate!Next]_(Gate!vars)
  <2> SUFFICES ASSUME IInv, IInv', RepliesOK, Grounds, [Next]_vars
               PROVE  (RepliesOK /\ Grounds)' /\ [Gate!Next]_(Gate!vars)
    OBVIOUS
  <2>1. Custody'
    BY DEF IInv
  <2> QED
    BY <2>1, Answers, NextKeepsGrounds, NextGate
<1> QED
  BY <1>1, <1>2, Invariance, PTL DEF Spec, GateSpec, Gate!Spec
=============================================================================
