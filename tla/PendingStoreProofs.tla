------------------------- MODULE PendingStoreProofs --------------------------
(***************************************************************************)
(* The pending store keeps its promises for every value of its constants:  *)
(* any number of users, keys and permissions, any limits and durations.    *)
(*                                                                         *)
(* The inductive invariant is in two parts.  RequestsOK is about who owns  *)
(* which permission; an action changes it by removing requests, by         *)
(* answering a permission, by joining or by creating a request, one lemma  *)
(* each.  TimersOK relates the requests to the two tables of deadlines.    *)
(***************************************************************************)
EXTENDS PendingStore, FiniteSetTheorems, TLAPS

RequestsType ==
  /\ requests \subseteq Request
  /\ nextId \in Nat
  /\ perm \in [Perm -> PermState]
  /\ IsFiniteSet(requests)
  /\ \A r \in requests : IsFiniteSet(r.perms)

RequestsOK ==
  RequestsType /\ OneRequestPerKey /\ IdsUnique /\ HeldByOneRequest /\ WithinLimits

TimersType ==
  /\ now \in 0..MaxNow
  /\ blocked \in [Key -> 0..MaxNow]
  /\ recent \in [Scope -> 0..MaxNow]
  /\ suppressionOff \in BOOLEAN

\* Without the second conjunct, switching suppression back on could revive a
\* block that a request was created under.
TimersOK ==
  /\ TimersType
  /\ suppressionOff => \A k \in Key : blocked[k] = 0
  /\ NoPromptWhileBlocked
  /\ NoPromptWithinGrace

IInv == RequestsOK /\ TimersOK

-----------------------------------------------------------------------------
\* saturating_add never passes u64::MAX.
LEMMA SatAddType ==
  ASSUME NEW t \in 0..MaxNow, NEW d \in Nat
  PROVE  SatAdd(t, d) \in 0..MaxNow
BY StoreAssumption DEF SatAdd

\* Cleaning up a table of deadlines adds no entry and changes none it keeps.
LEMMA CleanupType ==
  ASSUME NEW S, NEW until \in [S -> 0..MaxNow], now \in 0..MaxNow
  PROVE  /\ Cleanup(until) \in [S -> 0..MaxNow]
         /\ \A x \in S : Cleanup(until)[x] \in {0, until[x]}
BY StoreAssumption DEF Cleanup

\* Marking permissions changes those and no other.
LEMMA MarkedType ==
  ASSUME perm \in [Perm -> PermState], NEW P, NEW s \in PermState
  PROVE  /\ Marked(P, s) \in [Perm -> PermState]
         /\ \A p \in Perm : p \in P => Marked(P, s)[p] = s
         /\ \A p \in Perm : p \notin P => Marked(P, s)[p] = perm[p]
BY DEF Marked

LEMMA KeyTypes ==
  ASSUME NEW d \in Details
  PROVE  KeyOf[d] \in Key /\ ScopeOf[d] \in Scope
BY StoreAssumption

-----------------------------------------------------------------------------
\* Requests that leave the store take all their permissions with them.
LEMMA RemoveKeeps ==
  ASSUME RequestsOK, NEW R \in SUBSET requests, NEW s \in PermState \ {"held"},
         Remove(R, s), nextId' = nextId
  PROVE  RequestsOK'
<1> DEFINE P == UNION {r.perms : r \in R}
<1>1. requests' = requests \ R /\ perm' = Marked(P, s)
  BY DEF Remove
<1>2. RequestsType'
  <2>1. IsFiniteSet(requests')
    BY <1>1, FS_Subset DEF RequestsOK, RequestsType
  <2>2. perm' \in [Perm -> PermState]
    BY <1>1, MarkedType DEF RequestsOK, RequestsType
  <2> QED
    BY <1>1, <2>1, <2>2 DEF RequestsOK, RequestsType
<1>3. OneRequestPerKey' /\ IdsUnique'
  BY <1>1 DEF RequestsOK, OneRequestPerKey, IdsUnique
<1>4. HeldByOneRequest'
  <2>1. \A r, q \in requests' : r # q => r.perms \cap q.perms = {}
    BY <1>1 DEF RequestsOK, HeldByOneRequest
  <2>2. ASSUME NEW p \in Perm
        PROVE  perm'[p] = "held" <=> \E r \in requests' : p \in r.perms
    <3>1. perm[p] = "held" <=> \E r \in requests : p \in r.perms
      BY DEF RequestsOK, HeldByOneRequest
    <3>2. CASE p \in P
      <4>1. PICK r \in R : p \in r.perms
        BY <3>2
      <4>2. \A q \in requests' : p \notin q.perms
        BY <4>1, <1>1 DEF RequestsOK, HeldByOneRequest
      <4>3. perm'[p] = s
        BY <3>2, <1>1, MarkedType DEF RequestsOK, RequestsType
      <4> QED
        BY <4>2, <4>3
    <3>3. CASE p \notin P
      <4>1. perm'[p] = perm[p]
        BY <3>3, <1>1, MarkedType DEF RequestsOK, RequestsType
      <4>2. \A r \in R : p \notin r.perms
        BY <3>3
      <4> QED
        BY <4>1, <4>2, <3>1, <1>1
    <3> QED
      BY <3>2, <3>3
  <2> QED
    BY <2>1, <2>2 DEF HeldByOneRequest
<1>5. WithinLimits'
  <2>1. Cardinality(requests') <= Cardinality(requests)
    BY <1>1, FS_Subset DEF RequestsOK, RequestsType
  <2>2. Cardinality(requests') \in Nat /\ Cardinality(requests) \in Nat
    BY <1>2, FS_CardinalityType DEF RequestsOK, RequestsType
  <2> QED
    BY <1>1, <2>1, <2>2, StoreAssumption DEF RequestsOK, WithinLimits
<1> QED
  BY <1>2, <1>3, <1>4, <1>5 DEF RequestsOK

\* A permission no request holds is answered, or handed back to the caller.
LEMMA AnswerKeeps ==
  ASSUME RequestsOK, NEW p \in Perm, perm[p] # "held",
         NEW s \in PermState \ {"held"}, perm' = Marked({p}, s),
         UNCHANGED <<requests, nextId>>
  PROVE  RequestsOK'
<1>1. /\ perm' \in [Perm -> PermState]
      /\ perm'[p] = s
      /\ \A q \in Perm \ {p} : perm'[q] = perm[q]
  BY MarkedType DEF RequestsOK, RequestsType
<1>2. RequestsType' /\ OneRequestPerKey' /\ IdsUnique' /\ WithinLimits'
  BY <1>1 DEF RequestsOK, RequestsType, OneRequestPerKey, IdsUnique, WithinLimits
<1>3. HeldByOneRequest'
  BY <1>1 DEF RequestsOK, HeldByOneRequest
<1> QED
  BY <1>2, <1>3 DEF RequestsOK

\* A free permission joins the request of its key.
LEMMA JoinKeeps ==
  ASSUME RequestsOK, NEW p \in Perm, NEW d \in Details,
         perm[p] = "free", JoinRequest(p, d)
  PROVE  RequestsOK' /\ \A q \in requests' : \E r \in requests : q.details = r.details
<1>1. PICK r \in requests :
        /\ Cardinality(r.perms) < MaxPermissions
        /\ requests' = (requests \ {r}) \union {[r EXCEPT !.perms = @ \union {p}]}
  BY DEF JoinRequest, Pending
<1> DEFINE n == [r EXCEPT !.perms = @ \union {p}]
<1>2. r \in Request /\ IsFiniteSet(r.perms)
  BY DEF RequestsOK, RequestsType
<1>3. /\ n \in Request
      /\ n.id = r.id /\ n.details = r.details
      /\ n.perms = r.perms \union {p}
  BY <1>2 DEF Request
<1>4. \A q \in requests : p \notin q.perms
  BY DEF RequestsOK, HeldByOneRequest
<1>7. requests' = (requests \ {r}) \union {n} /\ nextId' = nextId
  BY <1>1 DEF JoinRequest
<1> HIDE DEF n
<1>5. IsFiniteSet(n.perms) /\ Cardinality(n.perms) = Cardinality(r.perms) + 1
  BY ZenonT(60), <1>2, <1>3, <1>4, FS_AddElement
<1>6. /\ perm' \in [Perm -> PermState]
      /\ perm'[p] = "held"
      /\ \A q \in Perm \ {p} : perm'[q] = perm[q]
  BY MarkedType DEF RequestsOK, RequestsType, JoinRequest, PermState
<1>8. IsFiniteSet(requests \ {r}) /\ Cardinality(requests \ {r}) = Cardinality(requests) - 1
  BY FS_RemoveElement DEF RequestsOK, RequestsType
<1>9. n \notin requests \ {r}
  BY <1>3, <1>4
<1>10. IsFiniteSet(requests') /\ Cardinality(requests') = Cardinality(requests)
  <2>1. Cardinality(requests) \in Nat
    BY FS_CardinalityType DEF RequestsOK, RequestsType
  <2>2. /\ IsFiniteSet((requests \ {r}) \union {n})
        /\ Cardinality((requests \ {r}) \union {n}) = Cardinality(requests \ {r}) + 1
    BY <1>8, <1>9, FS_AddElement
  <2> QED
    BY <1>7, <1>8, <2>1, <2>2
<1>11. RequestsType'
  BY <1>3, <1>5, <1>6, <1>7, <1>10 DEF RequestsOK, RequestsType
<1>12. OneRequestPerKey' /\ IdsUnique'
  <2>1. OneRequestPerKey'
    BY <1>3, <1>7 DEF RequestsOK, OneRequestPerKey
  <2>2. IdsUnique'
    BY <1>3, <1>7 DEF RequestsOK, IdsUnique
  <2> QED
    BY <2>1, <2>2
<1>13. HeldByOneRequest'
  <2>1. \A q \in requests \ {r} : q.perms \cap n.perms = {}
    BY <1>3, <1>4 DEF RequestsOK, HeldByOneRequest
  <2>2. \A a, b \in requests' : a # b => a.perms \cap b.perms = {}
    BY <2>1, <1>7 DEF RequestsOK, HeldByOneRequest
  <2>3. ASSUME NEW q \in Perm
        PROVE  perm'[q] = "held" <=> \E a \in requests' : q \in a.perms
    <3>1. CASE q = p
      BY <3>1, <1>3, <1>6, <1>7
    <3>2. CASE q # p
      <4>1. (\E a \in requests : q \in a.perms) <=> \E a \in requests' : q \in a.perms
        BY <3>2, <1>3, <1>7
      <4> QED
        BY <3>2, <4>1, <1>6 DEF RequestsOK, HeldByOneRequest
    <3> QED
      BY <3>1, <3>2
  <2> QED
    BY <2>2, <2>3 DEF HeldByOneRequest
<1>14. WithinLimits'
  <2>1. Cardinality(r.perms) \in 1..MaxPermissions
    BY DEF RequestsOK, WithinLimits
  <2>2. Cardinality(n.perms) \in 1..MaxPermissions
    BY <2>1, <1>1, <1>5, StoreAssumption
  <2> QED
    BY <2>2, <1>7, <1>10 DEF RequestsOK, WithinLimits
<1>15. \A q \in requests' : \E a \in requests : q.details = a.details
  BY <1>3, <1>7
<1> QED
  BY <1>11, <1>12, <1>13, <1>14, <1>15 DEF RequestsOK

\* A free permission is the first of a new request.
LEMMA CreateKeeps ==
  ASSUME RequestsOK, NEW p \in Perm, NEW d \in Details, now \in 0..MaxNow,
         perm[p] = "free", CreateRequest(p, d)
  PROVE  RequestsOK' /\ \A q \in requests' : q \in requests \/ q.details = d
<1> DEFINE n == [id |-> nextId + 1, details |-> d, perms |-> {p},
                 expires |-> SatAdd(now, Timeout)]
<1>1. requests' = requests \union {n} /\ nextId' = nextId + 1
  BY DEF CreateRequest
<1>2. n \in Request
  <2>1. SatAdd(now, Timeout) \in 0..MaxNow
    BY SatAddType, StoreAssumption
  <2> QED
    BY <2>1 DEF Request, RequestsOK, RequestsType
<1>3. \A q \in requests : p \notin q.perms
  BY DEF RequestsOK, HeldByOneRequest
<1>4. /\ n.id = nextId + 1 /\ n.details = d /\ n.perms = {p}
      /\ IsFiniteSet(n.perms) /\ Cardinality(n.perms) = 1
  BY FS_Singleton
<1> HIDE DEF n
<1>5. /\ perm' \in [Perm -> PermState]
      /\ perm'[p] = "held"
      /\ \A q \in Perm \ {p} : perm'[q] = perm[q]
  BY MarkedType DEF RequestsOK, RequestsType, CreateRequest, PermState
<1>6. n \notin requests
  BY <1>3, <1>4
<1>7. IsFiniteSet(requests') /\ Cardinality(requests') <= MaxRequests
  <2>1. /\ IsFiniteSet(requests \union {n})
        /\ Cardinality(requests \union {n}) = Cardinality(requests) + 1
    BY <1>6, FS_AddElement DEF RequestsOK, RequestsType
  <2>2. Cardinality(requests) \in Nat /\ Cardinality(requests) < MaxRequests
    BY FS_CardinalityType DEF RequestsOK, RequestsType, CreateRequest
  <2> QED
    BY <1>1, <2>1, <2>2, StoreAssumption
<1>8. RequestsType'
  <2>1. nextId' \in Nat /\ requests' \subseteq Request
    BY <1>1, <1>2 DEF RequestsOK, RequestsType
  <2>2. \A q \in requests' : IsFiniteSet(q.perms)
    BY <1>1, <1>4 DEF RequestsOK, RequestsType
  <2> QED
    BY <1>5, <1>7, <2>1, <2>2 DEF RequestsType
<1>9. OneRequestPerKey'
  <2>1. \A q \in requests : KeyOf[q.details] # KeyOf[d]
    BY DEF CreateRequest, Pending
  <2> QED
    BY <2>1, <1>1, <1>4 DEF RequestsOK, OneRequestPerKey
<1>10. IdsUnique'
  <2>1. \A q \in requests : q.id \in 1..nextId
    BY DEF RequestsOK, IdsUnique
  <2>2. nextId \in Nat
    BY DEF RequestsOK, RequestsType
  <2> QED
    BY <2>1, <2>2, <1>1, <1>4 DEF RequestsOK, IdsUnique
<1>11. HeldByOneRequest'
  <2>1. \A a, b \in requests' : a # b => a.perms \cap b.perms = {}
    BY <1>1, <1>3, <1>4 DEF RequestsOK, HeldByOneRequest
  <2>2. ASSUME NEW q \in Perm
        PROVE  perm'[q] = "held" <=> \E a \in requests' : q \in a.perms
    <3>1. CASE q = p
      BY <3>1, <1>1, <1>4, <1>5
    <3>2. CASE q # p
      BY <3>2, <1>1, <1>4, <1>5 DEF RequestsOK, HeldByOneRequest
    <3> QED
      BY <3>1, <3>2
  <2> QED
    BY <2>1, <2>2 DEF HeldByOneRequest
<1>12. WithinLimits'
  <2>1. Cardinality(n.perms) \in 1..MaxPermissions
    BY <1>4, StoreAssumption
  <2> QED
    BY <1>1, <1>7, <2>1 DEF RequestsOK, WithinLimits
<1> QED
  BY <1>1, <1>4, <1>8, <1>9, <1>10, <1>11, <1>12 DEF RequestsOK

-----------------------------------------------------------------------------
\* Requests may go, deadlines may be dropped: nothing pending becomes blocked
\* or recently approved by it.
LEMMA TimersShrink ==
  ASSUME RequestsType, TimersOK, now' \in 0..MaxNow, UNCHANGED suppressionOff,
         \A q \in requests' : \E r \in requests : q.details = r.details,
         blocked' \in [Key -> 0..MaxNow], recent' \in [Scope -> 0..MaxNow],
         \A k \in Key : blocked'[k] \in {0, blocked[k]},
         \A s \in Scope : recent'[s] \in {0, recent[s]}
  PROVE  TimersOK'
<1>1. \A r \in requests : r.details \in Details
  BY DEF RequestsType, Request
<1>2. NoPromptWhileBlocked'
  BY <1>1, KeyTypes DEF TimersOK, NoPromptWhileBlocked
<1>3. NoPromptWithinGrace'
  BY <1>1, KeyTypes DEF TimersOK, NoPromptWithinGrace
<1> QED
  BY <1>2, <1>3 DEF TimersOK, TimersType

-----------------------------------------------------------------------------
\* Every call of the store, and the caller's clock, keeps the invariant.
LEMMA InitOK ==
  Init => IInv
<1> SUFFICES ASSUME Init PROVE IInv
  OBVIOUS
<1>1. IsFiniteSet(requests) /\ Cardinality(requests) = 0
  BY FS_EmptySet DEF Init
<1>2. RequestsOK
  BY <1>1, StoreAssumption
  DEF Init, RequestsOK, RequestsType, PermState, OneRequestPerKey, IdsUnique,
      HeldByOneRequest, WithinLimits
<1>3. TimersOK
  BY StoreAssumption
  DEF Init, TimersOK, TimersType, NoPromptWhileBlocked, NoPromptWithinGrace
<1> QED
  BY <1>2, <1>3 DEF IInv

LEMMA EnqueueKeeps ==
  ASSUME IInv, NEW p \in Perm, NEW d \in Details, Enqueue(p, d)
  PROVE  IInv'
<1>1. RequestsOK /\ RequestsType /\ TimersOK /\ TimersType /\ perm[p] = "free"
  BY DEF IInv, RequestsOK, TimersOK, Enqueue
<1>2. /\ blocked' = Cleanup(blocked) /\ recent' = Cleanup(recent)
      /\ UNCHANGED <<now, suppressionOff>>
  BY DEF Enqueue
<1>3. /\ blocked' \in [Key -> 0..MaxNow] /\ recent' \in [Scope -> 0..MaxNow]
      /\ \A k \in Key : blocked'[k] \in {0, blocked[k]}
      /\ \A s \in Scope : recent'[s] \in {0, recent[s]}
  BY <1>1, <1>2, CleanupType DEF TimersType
<1>4. now' \in 0..MaxNow
  BY <1>1, <1>2 DEF TimersType
<1>5. ASSUME NEW s \in PermState \ {"held"}, perm' = Marked({p}, s),
             UNCHANGED <<requests, nextId>>
      PROVE  IInv'
  BY <1>1, <1>2, <1>3, <1>4, <1>5, AnswerKeeps, TimersShrink DEF IInv
<1>6. CASE DenySuppressed(p, d) \/ DenyFullRequest(p, d) \/ DenyFullStore(p, d)
  BY <1>5, <1>6 DEF DenySuppressed, DenyFullRequest, DenyFullStore, PermState
<1>7. CASE ReturnRecentlyApproved(p, d)
  BY <1>5, <1>7 DEF ReturnRecentlyApproved, PermState
<1>8. CASE JoinRequest(p, d)
  BY <1>1, <1>2, <1>3, <1>4, <1>8, JoinKeeps, TimersShrink DEF IInv
<1>9. CASE CreateRequest(p, d)
  <2>1. RequestsOK' /\ \A q \in requests' : q \in requests \/ q.details = d
    BY <1>1, <1>9, CreateKeeps DEF TimersType
  <2>2. \A q \in requests : q.details \in Details
    BY <1>1 DEF RequestsType, Request
  <2>3. blocked'[KeyOf[d]] = 0
    <3>1. suppressionOff => blocked[KeyOf[d]] = 0
      BY <1>1, KeyTypes DEF TimersOK
    <3>2. ~suppressionOff => Cleanup(blocked)[KeyOf[d]] = 0
      BY <1>9 DEF CreateRequest, Suppressed
    <3> QED
      BY <3>1, <3>2, <1>1, <1>2, <1>3, KeyTypes DEF TimersType
  <2>4. recent'[ScopeOf[d]] = 0
    BY <1>2, <1>9 DEF CreateRequest, RecentlyApproved
  <2>5. NoPromptWhileBlocked'
    BY <2>1, <2>2, <2>3, <1>1, <1>3, KeyTypes DEF TimersOK, NoPromptWhileBlocked
  <2>6. NoPromptWithinGrace'
    BY <2>1, <2>2, <2>4, <1>1, <1>3, KeyTypes DEF TimersOK, NoPromptWithinGrace
  <2>7. TimersType' /\ (suppressionOff' => \A k \in Key : blocked'[k] = 0)
    BY <1>1, <1>2, <1>3, <1>4 DEF TimersOK, TimersType
  <2> QED
    BY <2>1, <2>5, <2>6, <2>7 DEF IInv, TimersOK
<1> QED
  BY <1>6, <1>7, <1>8, <1>9 DEF Enqueue

LEMMA TakeKeeps ==
  ASSUME IInv, NEW r \in requests, NEW u \in Uid
  PROVE  /\ TakeTimedOut(r, u) => IInv'
         /\ \A block \in BOOLEAN : TakeReady(r, u, block) => IInv'
<1>1. RequestsOK /\ RequestsType /\ TimersOK /\ TimersType
  BY DEF IInv, RequestsOK, TimersOK
<1>2. {r} \in SUBSET requests
  OBVIOUS
<1>3. ASSUME TakeTimedOut(r, u)
      PROVE  IInv'
  <2>1. RequestsOK'
    BY <1>1, <1>2, <1>3, RemoveKeeps DEF TakeTimedOut, PermState
  <2>2. TimersOK'
    BY <1>1, <1>3, TimersShrink DEF TakeTimedOut, Remove, TimersType
  <2> QED
    BY <2>1, <2>2 DEF IInv
<1>4. ASSUME NEW block \in BOOLEAN, TakeReady(r, u, block)
      PROVE  IInv'
  <2>1. RequestsOK'
    BY <1>1, <1>2, <1>4, RemoveKeeps DEF TakeReady, PermState
  <2>2. requests' = requests \ {r} /\ UNCHANGED <<now, recent, suppressionOff>>
    BY <1>4 DEF TakeReady, Remove
  <2>3. CASE block /\ ~suppressionOff
    <3> DEFINE until == SatAdd(now, BlockSuppression)
               k == KeyOf[r.details]
    <3>1. k \in Key /\ until \in 0..MaxNow
      BY <1>1, KeyTypes, SatAddType, StoreAssumption DEF RequestsType, Request, TimersType
    <3>2. blocked' = [blocked EXCEPT ![k] = until]
      BY <2>3, <1>4 DEF TakeReady
    <3> HIDE DEF until
    <3>3. TimersType'
      BY <1>1, <2>2, <3>1, <3>2 DEF TimersType
    <3>4. \A q \in requests' : KeyOf[q.details] # k
      BY <2>2, <1>1 DEF RequestsOK, OneRequestPerKey
    <3>5. NoPromptWhileBlocked'
      BY <1>1, <2>2, <3>2, <3>4, KeyTypes
      DEF TimersOK, TimersType, NoPromptWhileBlocked, RequestsType, Request
    <3>6. NoPromptWithinGrace'
      BY <1>1, <2>2 DEF TimersOK, NoPromptWithinGrace
    <3> QED
      BY <2>1, <2>2, <2>3, <3>3, <3>5, <3>6 DEF IInv, TimersOK
  <2>4. CASE ~(block /\ ~suppressionOff)
    <3>1. blocked' = blocked
      BY <2>4, <1>4 DEF TakeReady
    <3>2. TimersOK'
      BY <1>1, <2>2, <3>1, TimersShrink DEF TimersType
    <3> QED
      BY <2>1, <3>2 DEF IInv
  <2> QED
    BY <2>3, <2>4
<1> QED
  BY <1>3, <1>4

LEMMA ExpireKeeps ==
  ASSUME IInv, NEW live \in SUBSET Key, Expire(live)
  PROVE  IInv'
<1>1. RequestsOK /\ RequestsType /\ TimersOK /\ TimersType
  BY DEF IInv, RequestsOK, TimersOK
<1>2. RequestsOK'
  BY <1>1, RemoveKeeps DEF Expire, PermState
<1>3. /\ blocked' \in [Key -> 0..MaxNow] /\ recent' \in [Scope -> 0..MaxNow]
      /\ \A k \in Key : blocked'[k] \in {0, blocked[k]}
      /\ \A s \in Scope : recent'[s] \in {0, recent[s]}
  BY <1>1, CleanupType DEF TimersType, Expire
<1>4. TimersOK'
  BY <1>1, <1>3, TimersShrink DEF TimersType, Expire, Remove
<1> QED
  BY <1>2, <1>4 DEF IInv

LEMMA RecordKeeps ==
  ASSUME IInv, NEW s \in Scope, RecordApproval(s)
  PROVE  IInv'
<1>1. RequestsOK /\ RequestsType /\ TimersOK /\ TimersType
  BY DEF IInv, RequestsOK, TimersOK
<1> DEFINE kept == Cleanup(recent)
<1>2. /\ Remove(Siblings(s), "taken") /\ UNCHANGED <<now, nextId, suppressionOff>>
      /\ blocked' = Cleanup(blocked)
      /\ \/ recent' = [kept EXCEPT ![s] = SatAdd(now, ApprovalGrace)]
         \/ recent' = kept
  BY DEF RecordApproval
<1>3. RequestsOK'
  <2>1. Siblings(s) \in SUBSET requests
    BY DEF Siblings
  <2> QED
    BY <1>1, <1>2, <2>1, RemoveKeeps DEF PermState
<1>4. /\ blocked' \in [Key -> 0..MaxNow]
      /\ kept \in [Scope -> 0..MaxNow]
      /\ \A k \in Key : blocked'[k] \in {0, blocked[k]}
      /\ \A t \in Scope : kept[t] \in {0, recent[t]}
  BY <1>1, <1>2, CleanupType DEF TimersType
<1>5. SatAdd(now, ApprovalGrace) \in 0..MaxNow
  BY <1>1, SatAddType, StoreAssumption DEF TimersType
<1> HIDE DEF kept
<1>6. TimersType'
  BY <1>1, <1>2, <1>4, <1>5 DEF TimersType
<1>7. requests' = requests \ Siblings(s)
  BY <1>2 DEF Remove
<1>8. \A r \in requests : KeyOf[r.details] \in Key /\ ScopeOf[r.details] \in Scope
  BY <1>1, KeyTypes DEF RequestsType, Request
<1>9. NoPromptWhileBlocked'
  BY <1>1, <1>4, <1>7, <1>8 DEF TimersOK, NoPromptWhileBlocked
<1>10. NoPromptWithinGrace'
  <2>1. \A r \in requests' : r \in requests /\ ScopeOf[r.details] # s
    BY <1>7 DEF Siblings
  <2>2. \A t \in Scope \ {s} : recent'[t] = kept[t]
    BY <1>2, <1>4
  <2> QED
    BY <1>1, <1>4, <1>8, <2>1, <2>2 DEF TimersOK, NoPromptWithinGrace
<1>11. suppressionOff' => \A k \in Key : blocked'[k] = 0
  BY <1>1, <1>2, <1>4 DEF TimersOK
<1> QED
  BY <1>3, <1>6, <1>9, <1>10, <1>11 DEF IInv, TimersOK

LEMMA SwitchKeeps ==
  ASSUME IInv, NEW off \in BOOLEAN, SetSuppressionDisabled(off)
  PROVE  IInv'
<1>1. RequestsOK /\ RequestsType /\ TimersOK /\ TimersType
  BY DEF IInv, RequestsOK, TimersOK
<1>2. RequestsOK'
  BY <1>1 DEF SetSuppressionDisabled, RequestsOK, RequestsType, OneRequestPerKey,
              IdsUnique, HeldByOneRequest, WithinLimits
<1>3. TimersType' /\ \A k \in Key : blocked'[k] \in {0, blocked[k]}
  BY <1>1, StoreAssumption DEF SetSuppressionDisabled, TimersType
<1>4. suppressionOff' => \A k \in Key : blocked'[k] = 0
  BY DEF SetSuppressionDisabled
<1>5. NoPromptWhileBlocked'
  BY <1>1, <1>3, KeyTypes
  DEF SetSuppressionDisabled, TimersOK, NoPromptWhileBlocked, RequestsType, Request
<1>6. NoPromptWithinGrace'
  BY <1>1 DEF SetSuppressionDisabled, TimersOK, NoPromptWithinGrace
<1> QED
  BY <1>2, <1>3, <1>4, <1>5, <1>6 DEF IInv, TimersOK

LEMMA CallerKeeps ==
  ASSUME IInv
  PROVE  /\ \A p \in Perm, verdict \in {"allowed", "denied"} : Answer(p, verdict) => IInv'
         /\ Tick => IInv'
<1>1. RequestsOK /\ RequestsType /\ TimersOK /\ TimersType
  BY DEF IInv, RequestsOK, TimersOK
<1>2. ASSUME NEW p \in Perm, NEW verdict \in {"allowed", "denied"}, Answer(p, verdict)
      PROVE  IInv'
  <2>1. RequestsOK'
    BY <1>1, <1>2, AnswerKeeps DEF Answer, PermState
  <2>2. TimersOK'
    BY <1>1, <1>2, TimersShrink DEF Answer, TimersType
  <2> QED
    BY <2>1, <2>2 DEF IInv
<1>3. ASSUME Tick PROVE IInv'
  <2>1. RequestsOK'
    BY <1>1, <1>3 DEF Tick, RequestsOK, RequestsType, OneRequestPerKey, IdsUnique,
                      HeldByOneRequest, WithinLimits
  <2>2. now' \in 0..MaxNow
    BY <1>1, <1>3, StoreAssumption DEF Tick, TimersType
  <2>3. TimersOK'
    BY <1>1, <1>3, <2>2, TimersShrink DEF Tick, TimersType
  <2> QED
    BY <2>1, <2>3 DEF IInv
<1> QED
  BY <1>2, <1>3

-----------------------------------------------------------------------------
\* What an action marks was not answered before it: it was free or taken in
\* the caller's hands, or held by a request that the action removes.
LEMMA MarkedOnce ==
  ASSUME RequestsOK, NEW P, NEW s \in PermState, perm' = Marked(P, s),
         \A p \in Perm : p \in P => perm[p] \in {"free", "held", "taken"}
  PROVE  \A p \in Perm : perm[p] \in {"allowed", "denied"} => perm'[p] = perm[p]
BY MarkedType DEF RequestsOK, RequestsType

LEMMA RemovedOnce ==
  ASSUME RequestsOK, NEW R \in SUBSET requests, NEW s \in PermState, Remove(R, s)
  PROVE  \A p \in Perm : perm[p] \in {"allowed", "denied"} => perm'[p] = perm[p]
<1>1. \A p \in Perm : p \in UNION {r.perms : r \in R} => perm[p] = "held"
  BY DEF RequestsOK, HeldByOneRequest
<1> QED
  BY <1>1, MarkedOnce DEF Remove

\* The invariant holds of every reachable state.
THEOREM Invariance ==
  Spec => []IInv
<1>1. IInv /\ [Next]_vars => IInv'
  <2> SUFFICES ASSUME IInv, [Next]_vars PROVE IInv'
    OBVIOUS
  <2>1. ASSUME NEW p \in Perm, NEW d \in Details, Enqueue(p, d) PROVE IInv'
    BY <2>1, EnqueueKeeps
  <2>2. ASSUME NEW r \in requests, NEW u \in Uid, TakeTimedOut(r, u) PROVE IInv'
    BY <2>2, TakeKeeps
  <2>3. ASSUME NEW r \in requests, NEW u \in Uid, NEW block \in BOOLEAN,
               TakeReady(r, u, block)
        PROVE  IInv'
    BY <2>3, TakeKeeps
  <2>4. ASSUME NEW live \in SUBSET Key, Expire(live) PROVE IInv'
    BY <2>4, ExpireKeeps
  <2>5. ASSUME NEW s \in Scope, RecordApproval(s) PROVE IInv'
    BY <2>5, RecordKeeps
  <2>6. ASSUME NEW off \in BOOLEAN, SetSuppressionDisabled(off) PROVE IInv'
    BY <2>6, SwitchKeeps
  <2>7. ASSUME NEW p \in Perm, NEW verdict \in {"allowed", "denied"}, Answer(p, verdict)
        PROVE  IInv'
    BY <2>7, CallerKeeps
  <2>8. CASE Tick
    BY <2>8, CallerKeeps
  <2>9. CASE UNCHANGED vars
    BY <2>9 DEF vars, IInv, RequestsOK, RequestsType, OneRequestPerKey, IdsUnique,
                HeldByOneRequest, WithinLimits, TimersOK, TimersType,
                NoPromptWhileBlocked, NoPromptWithinGrace
  <2> QED
    BY <2>1, <2>2, <2>3, <2>4, <2>5, <2>6, <2>7, <2>8, <2>9 DEF Next
<1> QED
  BY <1>1, InitOK, PTL DEF Spec

\* The types of PendingStore hold whatever calls are made.
THEOREM TypeCorrect ==
  Spec => []TypeOK
<1>1. IInv => TypeOK
  BY DEF IInv, RequestsOK, RequestsType, TimersOK, TimersType, TypeOK
<1> QED
  BY <1>1, Invariance, PTL

\* Two pending requests never share a key (enqueue joins the one there is).
THEOREM NeverAskedTwice ==
  Spec => []OneRequestPerKey
<1>1. IInv => OneRequestPerKey
  BY DEF IInv, RequestsOK
<1> QED
  BY <1>1, Invariance, PTL

\* The id a client resolves by names one request, now and for ever.
THEOREM IdsNameOneRequest ==
  Spec => []IdsUnique
<1>1. IInv => IdsUnique
  BY DEF IInv, RequestsOK
<1> QED
  BY <1>1, Invariance, PTL

\* Whatever the interleaving of calls, a held permission has one owner.
THEOREM HeldOnce ==
  Spec => []HeldByOneRequest
<1>1. IInv => HeldByOneRequest
  BY DEF IInv, RequestsOK
<1> QED
  BY <1>1, Invariance, PTL

\* The queue never passes either of its limits, whatever they are.
THEOREM QueueBounded ==
  Spec => []WithinLimits
<1>1. IInv => WithinLimits
  BY DEF IInv, RequestsOK
<1> QED
  BY <1>1, Invariance, PTL

\* Nothing waits for a user who has just refused it, nor for one who has just
\* approved its scope, also after suppression was switched off and on again.
THEOREM NoNeedlessPrompt ==
  Spec => [](NoPromptWhileBlocked /\ NoPromptWithinGrace)
<1>1. IInv => NoPromptWhileBlocked /\ NoPromptWithinGrace
  BY DEF IInv, TimersOK
<1> QED
  BY <1>1, Invariance, PTL

\* An answer the kernel was given is never given again nor changed.
THEOREM AnswersAreFinal ==
  Spec => AnsweredOnce
<1> DEFINE Final ==
      \A p \in Perm : perm[p] \in {"allowed", "denied"} => perm'[p] = perm[p]
<1>1. IInv /\ [Next]_vars => [Final]_vars
  <2> SUFFICES ASSUME IInv, Next PROVE Final
    BY DEF vars
  <2>1. RequestsOK
    BY DEF IInv
  <2>2. ASSUME NEW p \in Perm, NEW d \in Details, Enqueue(p, d) PROVE Final
    <3>1. \E s \in PermState : perm' = Marked({p}, s)
      BY <2>2 DEF Enqueue, DenySuppressed, JoinRequest, DenyFullRequest,
                  ReturnRecentlyApproved, DenyFullStore, CreateRequest, PermState
    <3>2. perm[p] = "free"
      BY <2>2 DEF Enqueue
    <3> QED
      BY <2>1, <3>1, <3>2, MarkedOnce
  <2>3. ASSUME NEW r \in requests, NEW u \in Uid, TakeTimedOut(r, u) PROVE Final
    BY <2>1, <2>3, RemovedOnce DEF TakeTimedOut, PermState
  <2>4. ASSUME NEW r \in requests, NEW u \in Uid, NEW block \in BOOLEAN,
               TakeReady(r, u, block)
        PROVE  Final
    BY <2>1, <2>4, RemovedOnce DEF TakeReady, PermState
  <2>5. ASSUME NEW live \in SUBSET Key, Expire(live) PROVE Final
    BY <2>1, <2>5, RemovedOnce DEF Expire, PermState
  <2>6. ASSUME NEW s \in Scope, RecordApproval(s) PROVE Final
    <3>1. Siblings(s) \in SUBSET requests /\ Remove(Siblings(s), "taken")
      BY <2>6 DEF RecordApproval, Siblings
    <3> QED
      BY <2>1, <3>1, RemovedOnce DEF PermState
  <2>7. ASSUME NEW off \in BOOLEAN, SetSuppressionDisabled(off) PROVE Final
    BY <2>7 DEF SetSuppressionDisabled
  <2>8. ASSUME NEW p \in Perm, NEW verdict \in {"allowed", "denied"}, Answer(p, verdict)
        PROVE  Final
    BY <2>1, <2>8, MarkedOnce DEF Answer, PermState
  <2>9. CASE Tick
    BY <2>9 DEF Tick
  <2> QED
    BY <2>2, <2>3, <2>4, <2>5, <2>6, <2>7, <2>8, <2>9 DEF Next
<1> QED
  BY <1>1, Invariance, PTL DEF Spec, AnsweredOnce
=============================================================================
