-------------------------- MODULE CollectionLemmas --------------------------
(***************************************************************************)
(* What the channels and queues of the daemons hold, as sets: the facts    *)
(* about Append, Head and Tail that the proofs keep needing.  And the      *)
(* least and the greatest of a set of positions, which the searches of the *)
(* code through leases and ancestors return.                               *)
(***************************************************************************)
EXTENDS Sequences, Functions, FiniteSetsExt, WellFoundedInduction, TLAPS

\* A queue holds what it is a queue of.
LEMMA InRange ==
  ASSUME NEW S, NEW s \in Seq(S)
  PROVE  Range(s) \subseteq S
BY DEF Range

\* Nothing is in an empty queue.
LEMMA EmptyRange ==
  Range(<<>>) = {} /\ IsInjective(<<>>)
BY DEF Range, IsInjective

\* What sending to a queue adds to it ...
LEMMA AppendRange ==
  ASSUME NEW S, NEW s \in Seq(S), NEW e
  PROVE  Range(Append(s, e)) = Range(s) \union {e}
<1>1. Len(s) \in Nat /\ DOMAIN s = 1..Len(s) /\ DOMAIN Append(s, e) = 1..(Len(s) + 1)
  OBVIOUS
<1>2. \A i \in 1..Len(s) : Append(s, e)[i] = s[i]
  OBVIOUS
<1>3. Append(s, e)[Len(s) + 1] = e
  OBVIOUS
<1>4. \A i \in 1..(Len(s) + 1) : i = Len(s) + 1 \/ i \in 1..Len(s)
  BY <1>1
<1>5. Len(s) + 1 \in 1..(Len(s) + 1) /\ 1..Len(s) \subseteq 1..(Len(s) + 1)
  BY <1>1
<1> QED
  BY <1>1, <1>2, <1>3, <1>4, <1>5 DEF Range

\* ... which is queued once if it was not there.
LEMMA AppendOnce ==
  ASSUME NEW S, NEW s \in Seq(S), NEW e, IsInjective(s), e \notin Range(s)
  PROVE  IsInjective(Append(s, e))
<1>1. Len(s) \in Nat /\ DOMAIN s = 1..Len(s) /\ DOMAIN Append(s, e) = 1..(Len(s) + 1)
  OBVIOUS
<1>2. /\ \A i \in 1..Len(s) : Append(s, e)[i] = s[i]
      /\ Append(s, e)[Len(s) + 1] = e
  OBVIOUS
<1>3. \A i \in 1..(Len(s) + 1) : i = Len(s) + 1 \/ i \in 1..Len(s)
  BY <1>1
<1>4. \A i \in 1..Len(s) : s[i] # e
  BY <1>1 DEF Range
<1>5. \A i, j \in 1..Len(s) : s[i] = s[j] => i = j
  BY <1>1 DEF IsInjective
<1> QED
  BY <1>1, <1>2, <1>3, <1>4, <1>5 DEF IsInjective

\* What receiving from a queue leaves ...
LEMMA TailRange ==
  ASSUME NEW S, NEW s \in Seq(S), s # <<>>
  PROVE  /\ Head(s) \in S /\ Head(s) \in Range(s) /\ Tail(s) \in Seq(S)
         /\ Range(s) = {Head(s)} \union Range(Tail(s))
<1>1. Len(s) \in Nat /\ Len(s) > 0 /\ DOMAIN s = 1..Len(s)
  OBVIOUS
<1>2. Tail(s) \in Seq(S) /\ Len(Tail(s)) = Len(s) - 1 /\ DOMAIN Tail(s) = 1..(Len(s) - 1)
  OBVIOUS
<1>3. \A i \in 1..(Len(s) - 1) : Tail(s)[i] = s[i + 1]
  OBVIOUS
<1>4. Head(s) = s[1] /\ 1 \in DOMAIN s
  BY <1>1
<1>5. \A i \in DOMAIN s : i = 1 \/ (i - 1 \in DOMAIN Tail(s) /\ s[i] = Tail(s)[i - 1])
  BY <1>1, <1>2, <1>3
<1>6. \A i \in DOMAIN Tail(s) : i + 1 \in DOMAIN s /\ Tail(s)[i] = s[i + 1]
  BY <1>1, <1>2, <1>3
<1>7. Range(s) \subseteq {Head(s)} \union Range(Tail(s))
  BY ZenonT(60), <1>4, <1>5 DEF Range
<1>8. {Head(s)} \union Range(Tail(s)) \subseteq Range(s)
  BY <1>4, <1>6 DEF Range
<1>9. Head(s) \in Range(s) /\ Range(s) = {Head(s)} \union Range(Tail(s))
  BY <1>7, <1>8
<1> QED
  BY <1>1, <1>2, <1>4, <1>9

\* ... without what was received, if it was queued once.
LEMMA TailOnce ==
  ASSUME NEW S, NEW s \in Seq(S), s # <<>>, IsInjective(s)
  PROVE  IsInjective(Tail(s)) /\ Head(s) \notin Range(Tail(s))
<1>1. Len(s) \in Nat /\ Len(s) > 0 /\ DOMAIN s = 1..Len(s) /\ Head(s) = s[1]
  OBVIOUS
<1>2. DOMAIN Tail(s) = 1..(Len(s) - 1) /\ \A i \in 1..(Len(s) - 1) : Tail(s)[i] = s[i + 1]
  OBVIOUS
<1>3. \A i \in DOMAIN Tail(s) : i \in Nat /\ i + 1 \in DOMAIN s /\ i + 1 # 1 /\ Tail(s)[i] = s[i + 1]
  BY <1>1, <1>2
<1>4. 1 \in DOMAIN s
  BY <1>1
<1>5. \A i, j \in DOMAIN Tail(s) : Tail(s)[i] = Tail(s)[j] => i + 1 = j + 1
  BY <1>3 DEF IsInjective
<1>6. IsInjective(Tail(s))
  BY <1>3, <1>5 DEF IsInjective
<1> QED
  BY <1>1, <1>3, <1>4, <1>6 DEF Range, IsInjective

\* Nothing is left of a queue of one.
LEMMA EmptyLen ==
  ASSUME NEW S, NEW s \in Seq(S)
  PROVE  s = <<>> <=> Len(s) = 0
OBVIOUS

LEMMA TailEmpty ==
  ASSUME NEW S, NEW s \in Seq(S), s # <<>>
  PROVE  Len(s) = 1 <=> Tail(s) = <<>>
<1>1. Len(Tail(s)) = Len(s) - 1 /\ Len(s) \in Nat /\ Tail(s) \in Seq(S)
  OBVIOUS
<1>2. Tail(s) = <<>> <=> Len(Tail(s)) = 0
  BY <1>1, EmptyLen
<1> QED
  BY <1>1, <1>2

\* A member of a sequence is changed within its type, or is not there.
LEMMA ExceptOK ==
  ASSUME NEW S, NEW s \in Seq(S), NEW k, NEW x, k \in DOMAIN s => x \in S
  PROVE  [s EXCEPT ![k] = x] \in Seq(S) /\ DOMAIN [s EXCEPT ![k] = x] = DOMAIN s
<1>1. Len(s) \in Nat /\ DOMAIN s = 1..Len(s) /\ \A i \in 1..Len(s) : s[i] \in S
  OBVIOUS
<1> DEFINE t == [i \in 1..Len(s) |-> IF i = k THEN x ELSE s[i]]
<1>2. [s EXCEPT ![k] = x] = t
  BY <1>1
<1>3. t \in Seq(S)
  BY <1>1
<1> QED
  BY <1>1, <1>2, <1>3

-----------------------------------------------------------------------------
\* A set of natural numbers has a least element ...
LEMMA LeastOne ==
  ASSUME NEW T, T \subseteq Nat, T # {}
  PROVE  \E x \in T : \A y \in T : x <= y
<1> DEFINE R == OpToRel(<, Nat)
<1>1. IsWellFoundedOn(R, Nat)
  BY NatLessThanWellFounded
<1>2. \A x, y \in Nat : y < x => <<y, x>> \in R
  BY DEF OpToRel
<1> HIDE DEF R
<1>3. \E x \in T : \A y \in T : ~(<<y, x>> \in R)
  BY <1>1, WFMin
<1>4. PICK x \in T : \A y \in T : ~(<<y, x>> \in R)
  BY <1>3
<1>5. ASSUME NEW y \in T PROVE x <= y
  <2>1. x \in Nat /\ y \in Nat /\ ~(y < x)
    BY <1>2, <1>4
  <2> QED
    BY <2>1
<1> QED
  BY <1>4, <1>5

\* ... which is its minimum ...
LEMMA MinIn ==
  ASSUME NEW T, T \subseteq Nat, T # {}
  PROVE  Min(T) \in T /\ \A y \in T : Min(T) <= y
BY LeastOne DEF Min

\* ... and a greatest if it is bounded.
LEMMA MaxIn ==
  ASSUME NEW n \in Nat, NEW T, T \subseteq 0..n, T # {}
  PROVE  Max(T) \in T /\ \A y \in T : Max(T) >= y
<1> DEFINE U == {n - t : t \in T}
<1>1. U \subseteq Nat /\ U # {}
  <2>1. \A t \in T : n - t \in Nat
    OBVIOUS
  <2> QED
    BY <2>1
<1> HIDE DEF U
<1>2. PICK x \in U : \A y \in U : x <= y
  BY <1>1, LeastOne
<1>3. PICK t \in T : x = n - t
  BY DEF U
<1>4. \A y \in T : n - y \in U
  BY DEF U
<1>5. \A y \in T : t >= y
  BY <1>2, <1>3, <1>4
<1> QED
  BY <1>5 DEF Max

\* A walk of N steps along a function, which stays where the function ends ...
IsWalk(w, F, x, N) ==
  w = [n \in 0..N |-> IF n = 0 THEN x
                      ELSE IF w[n - 1] \in DOMAIN F THEN F[w[n - 1]] ELSE w[n - 1]]

\* ... exists ...
LEMMA WalkExists ==
  ASSUME NEW F, NEW x, NEW N \in Nat
  PROVE  \E w : IsWalk(w, F, x, N)
<1> DEFINE Next(y)    == IF y \in DOMAIN F THEN F[y] ELSE y
           Walks(w, m) == w = [n \in 0..m |-> IF n = 0 THEN x ELSE Next(w[n - 1])]
           T == {m \in Nat : ~ \E w : Walks(w, m)}
<1>1. CASE T = {}
  <2>1. PICK w : Walks(w, N)
    BY <1>1
  <2> QED
    BY <2>1 DEF IsWalk
<1>2. CASE T # {}
  <2>1. PICK m \in T : \A k \in T : m <= k
    BY <1>2, LeastOne
  <2>2. m # 0
    <3>1. Walks([n \in 0..0 |-> x], 0)
      OBVIOUS
    <3> QED
      BY <2>1, <3>1
  <2>3. m \in Nat /\ m - 1 \in Nat
    BY <2>1, <2>2
  <2>8. m - 1 \notin T
    <3> HIDE DEF T
    <3> QED
      BY <2>1, <2>3
  <2>4. PICK w : Walks(w, m - 1)
    BY <2>3, <2>8
  <2> DEFINE v == [n \in 0..m |-> IF n = m THEN Next(w[m - 1]) ELSE w[n]]
  <2>5. ASSUME NEW n \in 0..m PROVE v[n] = IF n = 0 THEN x ELSE Next(v[n - 1])
    <3>1. CASE n = m
      BY <2>2, <2>3, <3>1
    <3>2. CASE n # m
      <4>1. n \in 0..(m - 1) /\ (n # 0 => n - 1 \in 0..m /\ n - 1 # m)
        BY <3>2
      <4>2. w[n] = IF n = 0 THEN x ELSE Next(w[n - 1])
        BY <2>4, <4>1
      <4> QED
        BY <3>2, <4>1, <4>2
    <3> QED
      BY <3>1, <3>2
  <2>6. v = [n \in 0..m |-> v[n]]
    OBVIOUS
  <2> HIDE DEF v
  <2>7. Walks(v, m)
    BY <2>5, <2>6
  <2> QED
    BY <2>1, <2>7
<1> QED
  BY <1>1, <1>2

\* ... and begins at its start and never leaves a set that is closed under the function.
LEMMA WalkStays ==
  ASSUME NEW F, NEW x, NEW N \in Nat, NEW w, IsWalk(w, F, x, N),
         NEW S, x \in S, \A y \in S : y \in DOMAIN F => F[y] \in S
  PROVE  w[0] = x /\ \A n \in 0..N : w[n] \in S
<1> DEFINE T == {n \in 0..N : w[n] \notin S}
<1>0. w[0] = x
  BY DEF IsWalk
<1>1. SUFFICES ASSUME T # {} PROVE FALSE
  BY <1>0
<1>6. T \subseteq Nat
  OBVIOUS
<1>2. PICK n \in T : \A k \in T : n <= k
  <2> HIDE DEF T
  <2> QED
    BY <1>1, <1>6, LeastOne
<1>3. w[n] = IF n = 0 THEN x ELSE IF w[n - 1] \in DOMAIN F THEN F[w[n - 1]] ELSE w[n - 1]
  BY <1>2 DEF IsWalk
<1>4. n # 0
  BY <1>2, <1>3
<1>5. n - 1 \in 0..N /\ n - 1 \notin T
  BY <1>2, <1>4
<1> QED
  BY <1>2, <1>3, <1>4, <1>5

-----------------------------------------------------------------------------
(***************************************************************************)
(* Requests of a store, each with the permissions that wait for it.        *)
(***************************************************************************)
\* The permissions of a set of requests; no two requests share one.
PermsOf(R) == UNION {r.perms : r \in R}

Apart(R) == \A r, q \in R : r # q => r.perms \cap q.perms = {}

\* Requests that go take their permissions, and no others', with them.
LEMMA RemoveApart ==
  ASSUME NEW R, NEW S \in SUBSET R, Apart(R)
  PROVE  /\ PermsOf(R \ S) = PermsOf(R) \ PermsOf(S) /\ PermsOf(S) \subseteq PermsOf(R)
         /\ Apart(R \ S) /\ Apart(S)
<1>1. PermsOf(S) \subseteq PermsOf(R) /\ PermsOf(R \ S) \subseteq PermsOf(R)
  BY DEF PermsOf
<1>2. ASSUME NEW p \in PermsOf(R \ S) PROVE p \notin PermsOf(S)
  BY <1>2 DEF PermsOf, Apart
<1>3. ASSUME NEW p \in PermsOf(R), p \notin PermsOf(S) PROVE p \in PermsOf(R \ S)
  BY <1>3 DEF PermsOf
<1>4. Apart(R \ S) /\ Apart(S)
  BY DEF Apart
<1> QED
  BY <1>1, <1>2, <1>3, <1>4

\* A request with permissions of its own comes.
LEMMA AddApart ==
  ASSUME NEW R, NEW n, Apart(R), n.perms \cap PermsOf(R) = {}
  PROVE  PermsOf(R \union {n}) = PermsOf(R) \union n.perms /\ Apart(R \union {n})
<1>1. PermsOf(R \union {n}) = PermsOf(R) \union n.perms
  BY DEF PermsOf
<1>2. \A r \in R : r.perms \cap n.perms = {}
  BY DEF PermsOf
<1>3. Apart(R \union {n})
  BY <1>2 DEF Apart
<1> QED
  BY <1>1, <1>3

\* One request more has its permissions, whoever else has them.
LEMMA OneRequest ==
  ASSUME NEW r
  PROVE  PermsOf({r}) = r.perms /\ Apart({r}) /\ PermsOf({}) = {} /\ Apart({})
BY DEF PermsOf, Apart

LEMMA RemoveOne ==
  ASSUME NEW R, NEW r \in R, Apart(R)
  PROVE  /\ PermsOf(R \ {r}) = PermsOf(R) \ r.perms /\ r.perms \subseteq PermsOf(R)
         /\ Apart(R \ {r})
<1>1. {r} \in SUBSET R /\ PermsOf({r}) = r.perms
  BY OneRequest
<1> QED
  BY <1>1, RemoveApart

\* A permission joins a request: no other request may have it.
LEMMA JoinApart ==
  ASSUME NEW R, NEW r \in R, Apart(R), NEW p, p \notin PermsOf(R),
         NEW n, n.perms = r.perms \union {p}
  PROVE  /\ PermsOf((R \ {r}) \union {n}) = PermsOf(R) \union {p}
         /\ Apart((R \ {r}) \union {n})
<1>1. /\ PermsOf(R \ {r}) = PermsOf(R) \ r.perms /\ r.perms \subseteq PermsOf(R)
      /\ Apart(R \ {r})
  BY RemoveOne
<1>2. n.perms \cap PermsOf(R \ {r}) = {}
  BY <1>1
<1>3. PermsOf((R \ {r}) \union {n}) = PermsOf(R \ {r}) \union n.perms /\ Apart((R \ {r}) \union {n})
  BY <1>1, <1>2, AddApart
<1> QED
  BY <1>1, <1>3
=============================================================================
