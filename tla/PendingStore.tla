---------------------------- MODULE PendingStore ----------------------------
(***************************************************************************)
(* The bounded pending queue of crates/guard-runtime/src/lib.rs: both      *)
(* PendingMigrationStore and PendingSshReadStore (the latter is the same   *)
(* store without recent approvals).  The daemons hold one lock around      *)
(* every call, so each call is one action.  Next lets a caller make any    *)
(* sequence of calls; Guardd composes two instances of the store with the  *)
(* threads that really make them.                                          *)
(*                                                                         *)
(* Time is the u64 of epoch seconds the callers pass in.  MaxNow stands    *)
(* for u64::MAX: additions saturate there, as saturating_add does.         *)
(***************************************************************************)
EXTENDS Naturals, FiniteSets

CONSTANTS
  Perm,             \* kernel authorizations that may be handed to the store
  Details,          \* what the daemon recorded about a request
  Key, Scope,       \* pending keys and recent-approval keys
  KeyOf, ScopeOf,   \* from_details of either key
  Uid, Root,        \* IPC peers, and the one that may act for every owner
  OwnerOfKey,       \* the uid inside a key
  MaxNow, Timeout, MaxRequests, MaxPermissions,
  BlockSuppression, ApprovalGrace, MaxRecent

ASSUME StoreAssumption ==
  /\ KeyOf \in [Details -> Key]
  /\ ScopeOf \in [Details -> Scope]
  /\ OwnerOfKey \in [Key -> Uid]
  /\ Root \in Uid
  /\ {MaxNow, Timeout, MaxRequests, MaxPermissions,
      BlockSuppression, ApprovalGrace, MaxRecent} \subseteq Nat \ {0}

VARIABLES
  now,               \* the caller's clock
  requests,          \* the pending requests
  nextId,            \* the id given to the last request created
  blocked,           \* until when a key is suppressed, 0 without an entry
  recent,            \* until when a scope is recently approved, 0 without one
  suppressionOff,    \* block_suppression_disabled
  perm               \* what became of each kernel authorization

vars == <<now, requests, nextId, blocked, recent, suppressionOff, perm>>

(***************************************************************************)
(* A permission is free until it is handed to the store, held while a      *)
(* pending request owns it, taken while a caller that removed the request  *)
(* decides, and answered for good by allow, by deny or by being dropped.   *)
(***************************************************************************)
PermState == {"free", "held", "taken", "allowed", "denied"}

Request == [id : Nat, details : Details, perms : SUBSET Perm, expires : 0..MaxNow]

TypeOK ==
  /\ now \in 0..MaxNow
  /\ requests \subseteq Request
  /\ nextId \in Nat
  /\ blocked \in [Key -> 0..MaxNow]
  /\ recent \in [Scope -> 0..MaxNow]
  /\ suppressionOff \in BOOLEAN
  /\ perm \in [Perm -> PermState]

\* Mutant: a plain addition.
SatAddUnchecked(t, d) == t + d

SatAdd(t, d) == IF t + d > MaxNow THEN MaxNow ELSE t + d

\* cleanup: an entry whose time has come is removed.
Cleanup(until) == [x \in DOMAIN until |-> IF now < until[x] THEN until[x] ELSE 0]

Entries(until) == {x \in DOMAIN until : until[x] # 0}

\* Mutant: an expired request no longer counts as the request of its key.
PendingInTime(k) == {r \in requests : KeyOf[r.details] = k /\ now < r.expires}

Pending(k) == {r \in requests : KeyOf[r.details] = k}

\* Mutant: the switch read the wrong way round.
SuppressedInverted(k) == suppressionOff /\ Cleanup(blocked)[k] # 0

Suppressed(k) == ~suppressionOff /\ Cleanup(blocked)[k] # 0

RecentlyApproved(s) == Cleanup(recent)[s] # 0

\* The state of every permission once those in P are all s.
Marked(P, s) == [p \in Perm |-> IF p \in P THEN s ELSE perm[p]]

\* Dropping a set of requests from the store with every permission they own.
Remove(R, s) ==
  /\ requests' = requests \ R
  /\ perm' = Marked(UNION {r.perms : r \in R}, s)

Init ==
  /\ now \in 0..MaxNow
  /\ requests = {}
  /\ nextId = 0
  /\ blocked = [k \in Key |-> 0]
  /\ recent = [s \in Scope |-> 0]
  /\ suppressionOff \in BOOLEAN
  /\ perm = [p \in Perm |-> "free"]

(***************************************************************************)
(* The outcomes of enqueue, in the order the code tries them.              *)
(***************************************************************************)
DenySuppressed(p, d) ==
  /\ Suppressed(KeyOf[d])
  /\ perm' = Marked({p}, "denied")
  /\ UNCHANGED <<requests, nextId>>

\* Mutant: the permission is not pushed onto the request it joins.
JoinRequestLost(p, d) ==
  /\ ~Suppressed(KeyOf[d])
  /\ \E r \in Pending(KeyOf[d]) : Cardinality(r.perms) < MaxPermissions
  /\ perm' = Marked({p}, "held")
  /\ UNCHANGED <<requests, nextId>>

JoinRequest(p, d) ==
  /\ ~Suppressed(KeyOf[d])
  /\ \E r \in Pending(KeyOf[d]) :
       /\ Cardinality(r.perms) < MaxPermissions
       /\ requests' = (requests \ {r}) \union {[r EXCEPT !.perms = @ \union {p}]}
  /\ perm' = Marked({p}, "held")
  /\ UNCHANGED nextId

DenyFullRequest(p, d) ==
  /\ ~Suppressed(KeyOf[d])
  /\ \E r \in Pending(KeyOf[d]) : Cardinality(r.perms) >= MaxPermissions
  /\ perm' = Marked({p}, "denied")
  /\ UNCHANGED <<requests, nextId>>

\* The permission goes back to the caller, who must revalidate and answer it.
ReturnRecentlyApproved(p, d) ==
  /\ ~Suppressed(KeyOf[d])
  /\ Pending(KeyOf[d]) = {}
  /\ RecentlyApproved(ScopeOf[d])
  /\ perm' = Marked({p}, "taken")
  /\ UNCHANGED <<requests, nextId>>

DenyFullStore(p, d) ==
  /\ ~Suppressed(KeyOf[d])
  /\ Pending(KeyOf[d]) = {}
  /\ ~RecentlyApproved(ScopeOf[d])
  /\ Cardinality(requests) >= MaxRequests
  /\ perm' = Marked({p}, "denied")
  /\ UNCHANGED <<requests, nextId>>

CreateRequest(p, d) ==
  /\ ~Suppressed(KeyOf[d])
  /\ Pending(KeyOf[d]) = {}
  /\ ~RecentlyApproved(ScopeOf[d])
  /\ Cardinality(requests) < MaxRequests
  /\ nextId' = nextId + 1
  /\ requests' = requests \union
       {[id |-> nextId + 1, details |-> d, perms |-> {p},
         expires |-> SatAdd(now, Timeout)]}
  /\ perm' = Marked({p}, "held")

Enqueue(p, d) ==
  /\ perm[p] = "free"
  /\ \/ DenySuppressed(p, d)
     \/ JoinRequest(p, d)
     \/ DenyFullRequest(p, d)
     \/ ReturnRecentlyApproved(p, d)
     \/ DenyFullStore(p, d)
     \/ CreateRequest(p, d)
  /\ blocked' = Cleanup(blocked)
  /\ recent' = Cleanup(recent)
  /\ UNCHANGED <<now, suppressionOff>>

(***************************************************************************)
(* take_for_resolution.  An unknown id or another user's request leaves    *)
(* the store alone.                                                        *)
(***************************************************************************)

\* Mutant: the owner is not checked.
MayResolveAny(u, d) == TRUE

MayResolve(u, d) == u \in {Root, OwnerOfKey[KeyOf[d]]}

\* Mutant: the expired request is denied and left in the store.
TakeTimedOutKept(r, u) ==
  /\ MayResolve(u, r.details)
  /\ now >= r.expires
  /\ perm' = Marked(r.perms, "denied")
  /\ UNCHANGED <<now, requests, nextId, blocked, recent, suppressionOff>>

\* Too late: the store itself denies the request it finds expired.
TakeTimedOut(r, u) ==
  /\ MayResolve(u, r.details)
  /\ now >= r.expires
  /\ Remove({r}, "denied")
  /\ UNCHANGED <<now, nextId, blocked, recent, suppressionOff>>

\* In time: the caller gets the request, and a block starts its suppression.
TakeReady(r, u, block) ==
  /\ MayResolve(u, r.details)
  /\ now < r.expires
  /\ Remove({r}, "taken")
  /\ blocked' = IF block /\ ~suppressionOff
                THEN [blocked EXCEPT ![KeyOf[r.details]] = SatAdd(now, BlockSuppression)]
                ELSE blocked
  /\ UNCHANGED <<now, nextId, recent, suppressionOff>>

(***************************************************************************)
(* expire, with the denial both daemons answer at once for everything it   *)
(* returns.  live: the keys whose target root is still the same process.   *)
(***************************************************************************)

\* Mutant: only the death of the target ends a request.
ExpireDead(live) ==
  /\ Remove({r \in requests : KeyOf[r.details] \notin live}, "denied")
  /\ blocked' = Cleanup(blocked)
  /\ recent' = Cleanup(recent)
  /\ UNCHANGED <<now, nextId, suppressionOff>>

Expire(live) ==
  /\ Remove({r \in requests : KeyOf[r.details] \notin live \/ now >= r.expires}, "denied")
  /\ blocked' = Cleanup(blocked)
  /\ recent' = Cleanup(recent)
  /\ UNCHANGED <<now, nextId, suppressionOff>>

(***************************************************************************)
(* record_recent_approval followed by take_recent_approval_siblings: both  *)
(* daemons make the two calls under one acquisition of the store's lock.   *)
(***************************************************************************)
Siblings(s) == {r \in requests : ScopeOf[r.details] = s}

RecordApproval(s) ==
  LET kept == Cleanup(recent)
  IN  /\ recent' = IF kept[s] # 0 \/ Cardinality(Entries(kept)) < MaxRecent
                   THEN [kept EXCEPT ![s] = SatAdd(now, ApprovalGrace)]
                   ELSE kept
      /\ blocked' = Cleanup(blocked)
      /\ Remove(Siblings(s), "taken")
      /\ UNCHANGED <<now, nextId, suppressionOff>>

SetSuppressionDisabled(off) ==
  /\ suppressionOff' = off
  /\ blocked' = IF off THEN [k \in Key |-> 0] ELSE blocked
  /\ UNCHANGED <<now, requests, nextId, recent, perm>>

\* The caller answers a permission it took (a drop answers deny), or answers
\* one without ever handing it to the store.
Answer(p, verdict) ==
  /\ perm[p] \in {"free", "taken"}
  /\ perm' = Marked({p}, verdict)
  /\ UNCHANGED <<now, requests, nextId, blocked, recent, suppressionOff>>

Tick ==
  /\ now < MaxNow
  /\ now' = now + 1
  /\ UNCHANGED <<requests, nextId, blocked, recent, suppressionOff, perm>>

Next ==
  \/ \E p \in Perm, d \in Details : Enqueue(p, d)
  \/ \E r \in requests, u \in Uid : TakeTimedOut(r, u)
  \/ \E r \in requests, u \in Uid, block \in BOOLEAN : TakeReady(r, u, block)
  \/ \E live \in SUBSET Key : Expire(live)
  \/ \E s \in Scope : RecordApproval(s)
  \/ \E off \in BOOLEAN : SetSuppressionDisabled(off)
  \/ \E p \in Perm, verdict \in {"allowed", "denied"} : Answer(p, verdict)
  \/ Tick

Spec == Init /\ [][Next]_vars

-----------------------------------------------------------------------------
(***************************************************************************)
(* Properties.                                                             *)
(***************************************************************************)

\* No human is asked the same question twice at once: two pending requests
\* never share a key.  enqueue relies on it when it joins "the" request of a
\* key, and take_for_resolution when it blocks a key.
OneRequestPerKey ==
  \A r, q \in requests : KeyOf[r.details] = KeyOf[q.details] => r = q

\* Ids are what a client resolves by: they are unique, and never reused.
IdsUnique ==
  /\ \A r, q \in requests : r.id = q.id => r = q
  /\ \A r \in requests : r.id \in 1..nextId

\* A kernel authorization is owned by exactly one pending request while it is
\* held, and by none otherwise: no answer is lost and none is given twice.
HeldByOneRequest ==
  /\ \A p \in Perm : perm[p] = "held" <=> \E r \in requests : p \in r.perms
  /\ \A r, q \in requests : r # q => r.perms \cap q.perms = {}

\* The bounds of the queue hold through every path that adds to it, and an
\* empty request is never left behind for a user to answer.
WithinLimits ==
  /\ Cardinality(requests) <= MaxRequests
  /\ \A r \in requests : Cardinality(r.perms) \in 1..MaxPermissions

\* While the store has a block entry for a key, no request of that key is
\* pending: the user is not asked again what they have just refused.
NoPromptWhileBlocked ==
  \A r \in requests : blocked[KeyOf[r.details]] = 0

\* While a scope is recently approved nothing of that scope waits for a human:
\* what was pending was taken with the approval, and what comes next is
\* returned for revalidation instead of being queued.
NoPromptWithinGrace ==
  \A r \in requests : recent[ScopeOf[r.details]] = 0

\* A kernel authorization is answered once: allowed and denied are final.
AnsweredOnce ==
  [][\A p \in Perm : perm[p] \in {"allowed", "denied"} => perm'[p] = perm[p]]_vars
=============================================================================
