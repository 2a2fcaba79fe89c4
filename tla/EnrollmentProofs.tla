-------------------------- MODULE EnrollmentProofs ---------------------------
(***************************************************************************)
(* Everything guardd ought to protect is covered once its topology thread  *)
(* has nothing left to do, for any tree of files, any changes of it, any   *)
(* calls that fail and any request to protect a key.                       *)
(*                                                                         *)
(* The inductive invariant says what the thread can count on at each place *)
(* of its program, as long as inotify has nothing to tell: every directory *)
(* that matters is watched or about to be (WatchesOK); so what has changed *)
(* since discovery is nothing, or in unheard (HeardOf); so the registry is *)
(* what discovery would find now (RegistryOK), the index tells its names   *)
(* (IndexOK), and files and directories are marked or about to be          *)
(* (MarksOK, TreesOK).                                                     *)
(***************************************************************************)
EXTENDS Enrollment, CollectionLemmas, FiniteSetTheorems

-----------------------------------------------------------------------------
(***************************************************************************)
(* Below is a recursive function.  That it exists follows from a           *)
(* description without recursion: d is in every set that holds m and is    *)
(* closed under Parent.                                                    *)
(***************************************************************************)

IsBelow(below, d) == below = [m \in Name |-> m = d \/ (m \notin Root /\ below[Parent[m]])]

\* How the definition reads.
LEMMA BelowChoice ==
  ASSUME NEW n, NEW d
  PROVE  Below(n, d) = (CHOOSE below : IsBelow(below, d))[n]
BY DEF Below, IsBelow

Reaches(m, d) ==
  \A S \in SUBSET Name : m \in S /\ (\A x \in S \ Root : Parent[x] \in S) => d \in S

\* One step of it.
LEMMA ReachesStep ==
  ASSUME NEW m \in Name, NEW d
  PROVE  Reaches(m, d) <=> m = d \/ (m \notin Root /\ Reaches(Parent[m], d))
<1>1. ASSUME Reaches(m, d), m # d
      PROVE  m \notin Root /\ Reaches(Parent[m], d)
  <2>1. m \notin Root
    <3>1. SUFFICES ASSUME m \in Root PROVE FALSE
      OBVIOUS
    <3>2. {m} \in SUBSET Name /\ m \in {m} /\ \A x \in {m} \ Root : Parent[x] \in {m}
      BY <3>1
    <3>3. d \in {m}
      BY <1>1, <3>2 DEF Reaches
    <3> QED
      BY <1>1, <3>3
  <2>2. ASSUME NEW S \in SUBSET Name, Parent[m] \in S, \A x \in S \ Root : Parent[x] \in S
        PROVE  d \in S
    <3> DEFINE U == S \union {m}
    <3>1. U \in SUBSET Name /\ m \in U /\ \A x \in U \ Root : Parent[x] \in U
      BY <2>2
    <3>2. d \in U
      BY <1>1, <3>1 DEF Reaches
    <3> QED
      BY <1>1, <3>2
  <2> QED
    BY <2>1, <2>2 DEF Reaches
<1>2. ASSUME m \notin Root, Reaches(Parent[m], d)
      PROVE  Reaches(m, d)
  BY <1>2 DEF Reaches
<1>3. Reaches(m, d) \/ m # d
  BY DEF Reaches
<1> QED
  BY <1>1, <1>2, <1>3

\* The recursion of Below holds.
LEMMA BelowStep ==
  ASSUME NEW m \in Name, NEW d
  PROVE  Below(m, d) <=> m = d \/ (m \notin Root /\ Below(Parent[m], d))
<1> DEFINE reach == [x \in Name |-> Reaches(x, d)]
<1>1. IsBelow(reach, d)
  <2>1. \A x \in Name : x \notin Root => Parent[x] \in Name
    BY EnrollmentAssumption DEF Name
  <2>2. reach = [x \in Name |-> x = d \/ (x \notin Root /\ reach[Parent[x]])]
    <3>1. \A x \in Name : reach[x] = Reaches(x, d)
      OBVIOUS
    <3>2. \A x \in Name : Reaches(x, d) = (x = d \/ (x \notin Root /\ reach[Parent[x]]))
      <4> SUFFICES ASSUME NEW x \in Name
                   PROVE  Reaches(x, d) = (x = d \/ (x \notin Root /\ reach[Parent[x]]))
        OBVIOUS
      <4>1. Reaches(x, d) \in BOOLEAN
        BY Zenon DEF Reaches
      <4>2. x \notin Root => reach[Parent[x]] = Reaches(Parent[x], d)
        BY <2>1
      <4>3. Reaches(x, d) <=> x = d \/ (x \notin Root /\ Reaches(Parent[x], d))
        BY ReachesStep
      <4> QED
        BY <4>1, <4>2, <4>3
    <3> QED
      BY <3>2, Zenon
  <2> QED
    BY <2>2 DEF IsBelow
<1> HIDE DEF reach
<1> DEFINE chosen == CHOOSE below : IsBelow(below, d)
<1>2. IsBelow(chosen, d)
  BY <1>1
<1>3. \A x : Below(x, d) = chosen[x]
  BY BelowChoice
<1> HIDE DEF chosen
<1>4. chosen[m] = (m = d \/ (m \notin Root /\ chosen[Parent[m]]))
  BY <1>2 DEF IsBelow
<1> QED
  BY <1>3, <1>4

\* Only names have something below them, and a directory lies below directories.
LEMMA BelowNames ==
  ASSUME NEW x \in Name, NEW d, Below(x, d)
  PROVE  d \in Name /\ (x \in Dir => d \in Dir)
<1>1. SUFFICES ASSUME d \notin Name \/ (x \in Dir /\ d \notin Dir) PROVE FALSE
  OBVIOUS
<1> DEFINE S == {y \in Name \ Root : Below(y, d) /\ y # d}
<1>2. \A y \in Name \ Root : Parent[y] \in Dir /\ Parent[y] \in Name
  BY EnrollmentAssumption DEF Name
<1>3. S # {} => \E n \in S : Parent[n] \notin S
  BY TreeAssumption
<1>4. x \in S
  BY <1>1, BelowStep
<1>5. PICK n \in S : Parent[n] \notin S
  BY <1>3, <1>4
<1>6. Parent[n] = d
  BY <1>2, <1>5, BelowStep
<1> QED
  BY <1>1, <1>2, <1>6

\* What lies below a directory is the directory, or below something in it.
LEMMA BelowEntry ==
  ASSUME NEW x \in Name, NEW d, Below(x, d), x # d
  PROVE  \E s \in Name \ Root : Parent[s] = d /\ Below(x, s)
<1>1. SUFFICES ASSUME \A s \in Name \ Root : ~(Parent[s] = d /\ Below(x, s)) PROVE FALSE
  OBVIOUS
<1> DEFINE Through(y) == \E s \in Name \ Root : Parent[s] = d /\ Below(y, s)
<1> DEFINE S == {y \in Name \ Root : Below(y, d) /\ y # d /\ ~Through(y)}
<1>2. S # {} => \E n \in S : Parent[n] \notin S
  BY TreeAssumption
<1>3. x \in S
  BY <1>1, BelowStep
<1>4. PICK n \in S : Parent[n] \notin S
  BY <1>2, <1>3
<1>5. Parent[n] \in Name /\ Below(Parent[n], d)
  BY <1>4, EnrollmentAssumption, BelowStep DEF Name
<1>6. Through(n)
  <2>1. CASE Parent[n] = d
    BY <2>1, <1>4, BelowStep
  <2>2. CASE Parent[n] # d
    <3>1. Through(Parent[n])
      BY <1>4, <1>5, <2>2, BelowStep
    <3>2. PICK s \in Name \ Root : Parent[s] = d /\ Below(Parent[n], s)
      BY <3>1
    <3>3. Below(n, s)
      BY <1>4, <3>2, BelowStep
    <3> QED
      BY <3>2, <3>3
  <2> QED
    BY <2>1, <2>2
<1> QED
  BY <1>4, <1>6

-----------------------------------------------------------------------------
\* The lowest free inode number is a free inode number.
LEMMA FreeInoIsFree ==
  ASSUME fs \in [Name -> 0..MaxIno]
  PROVE  FreeIno \in Ino /\ \A n \in Name : fs[n] # FreeIno
<1> DEFINE free == {i \in Ino : \A n \in Name : fs[n] # i}
<1>0. MaxIno \in Nat
  BY EnrollmentAssumption
<1>1. free # {}
  <2>1. SUFFICES ASSUME \A i \in Ino : \E n \in Name : fs[n] = i PROVE FALSE
    OBVIOUS
  <2> DEFINE holder == [i \in Ino |-> CHOOSE n \in Name : fs[n] = i]
  <2>2. \A i \in Ino : holder[i] \in Name /\ fs[holder[i]] = i
    BY <2>1
  <2>3. holder \in [Ino -> Name]
    BY <2>2
  <2>4. IsFiniteSet(Ino) /\ Cardinality(Ino) = MaxIno
    BY <1>0, FS_Interval DEF Ino
  <2> HIDE DEF holder
  <2>5. \E i, j \in Ino : i # j /\ holder[i] = holder[j]
    BY <2>3, <2>4, FS_PigeonHole, EnrollmentAssumption
  <2> QED
    BY <2>2, <2>5
<1>2. free \subseteq Nat
  BY <1>0 DEF Ino
<1>3. FreeIno = Min(free)
  BY DEF FreeIno
<1> HIDE DEF free
<1>4. FreeIno \in free
  BY <1>1, <1>2, <1>3, MinIn
<1> QED
  BY <1>4 DEF free

-----------------------------------------------------------------------------
(***************************************************************************)
(* The inductive invariant.                                                *)
(***************************************************************************)
Typed ==
  /\ fs \in [Name -> 0..MaxIno]
  /\ mark \in [Ino -> SUBSET Mask]
  /\ watched \subseteq Ino /\ queue \in BOOLEAN
  /\ files \subseteq Critical \union Key /\ trees \subseteq {TreeDir}
  /\ index \in [Ino -> Name \union {None}]
  /\ topo \in [pc : {"config", "watch", "discover", "mark", "trees", "wait", "aborted"},
               todo : SUBSET Name, dirty : BOOLEAN, started : BOOLEAN]
  /\ ipc \in [pc : {"idle", "authenticating", "marked"}, key : Key \union {None}]
  /\ unheard \subseteq Name

\* A name has an inode of its own, and a directory that exists.
FsOK ==
  /\ \A m, n \in Name : fs[m] = fs[n] /\ Exists(m) => m = n
  /\ \A n \in Root : Exists(n)
  /\ \A n \in Name \ Root : Exists(n) => Exists(Parent[n])

\* The thread has work to do until everything is marked, and requests come
\* after the start.
Phases ==
  /\ topo.started /\ ~At("wait") => topo.dirty
  /\ ~topo.started => topo.pc \in {"config", "watch", "mark", "trees", "aborted"}
  /\ At("config") => ~topo.started
  /\ ipc.pc # "idle" => topo.started /\ ipc.key \in Key

\* Everything has been marked since the last change the thread was told of.
Done == At("wait") /\ ~topo.dirty

\* The registry is of a discovery that is not over.
Discovered == topo.pc \in {"mark", "trees"} \/ (At("watch") /\ ~topo.started) \/ Done

\* The name n lies below one of D.
Within(n, D) == \E d \in D : Below(n, d)

\* A directory that matters is watched, or its walk is still to come.
WatchesOK ==
  ~queue /\ (topo.pc \in {"watch", "discover", "mark", "trees"} \/ Done) =>
    \A x \in Dir : Exists(x) /\ Within(x, WatchRoot) =>
      fs[x] \in watched \/ (At("watch") /\ Within(x, topo.todo))

\* What discovery has found is what it would find now.
RegistryOK ==
  ~queue /\ Discovered /\ unheard \subseteq Key =>
    files \ Key = FoundFiles /\ trees = FoundTrees

\* The inode of a name in the registry stands for it.
IndexOK ==
  ~queue /\ Discovered => \A n \in files \ unheard : Exists(n) => index[fs[n]] = n

\* The mark of a file.
MarkOf(n) == IF n \in Key THEN "access" ELSE "open"

\* A name in the registry is marked, or still to be.
MarksOK ==
  ~queue /\ (topo.pc \in {"mark", "trees"} \/ Done) =>
    \A n \in files \ unheard : Exists(n) =>
      MarkOf(n) \in mark[fs[n]] \/ (At("mark") /\ n \in topo.todo)

\* So is a directory of a protected tree.
TreesOK ==
  ~queue /\ (At("trees") \/ Done) /\ unheard \subseteq Key =>
    \A x \in Dir : Exists(x) /\ Within(x, trees) =>
      "tree" \in mark[fs[x]] \/ (At("trees") /\ Within(x, topo.todo))

\* A key that is about to be published is marked, unless it was replaced since
\* or is known already.
KeyOK ==
  ipc.pc = "marked" =>
    \/ ipc.key \in unheard \/ ipc.key \in files
    \/ Exists(ipc.key) /\ "access" \in mark[fs[ipc.key]]

Shape == Typed /\ FsOK /\ Phases
IInv == Shape /\ WatchesOK /\ RegistryOK /\ IndexOK /\ MarksOK /\ TreesOK /\ KeyOK

-----------------------------------------------------------------------------
\* What the assumptions say of the constants.
LEMMA Constants ==
  /\ MaxIno \in Nat /\ Ino \subseteq Nat /\ 0 \notin Ino
  /\ File \subseteq Name /\ Dir \subseteq Name /\ Root \subseteq Dir /\ WatchRoot \subseteq Root
  /\ Critical \subseteq File /\ Key \subseteq File /\ Critical \intersect Key = {}
  /\ File \intersect Dir = {} /\ Marker \in Critical /\ TreeDir \in Dir /\ TreeDir \notin Root
  /\ \A n \in Name : n \notin Root => Parent[n] \in Dir
  /\ None \notin Name
  /\ Configured \subseteq Key
BY EnrollmentAssumption, TreeAssumption DEF Name, Ino

\* What exists lies below what exists.
LEMMA ExistsAbove ==
  ASSUME FsOK, NEW x \in Name, Exists(x), NEW d, Below(x, d)
  PROVE  Exists(d)
<1>1. SUFFICES ASSUME ~Exists(d) PROVE FALSE
  OBVIOUS
<1> DEFINE S == {y \in Name \ Root : Exists(y) /\ Below(y, d)}
<1>2. S # {} => \E n \in S : Parent[n] \notin S
  BY TreeAssumption
<1>3. x \in S
  BY <1>1, BelowStep DEF FsOK
<1>4. PICK n \in S : Parent[n] \notin S
  BY <1>2, <1>3
<1>5. n # d
  BY <1>1, <1>4
<1>6. Parent[n] \in Name /\ Below(Parent[n], d) /\ Exists(Parent[n])
  BY <1>4, <1>5, BelowStep, Constants DEF FsOK
<1>7. Parent[n] \in Root
  BY <1>4, <1>6
<1> QED
  BY <1>1, <1>6, <1>7, BelowStep

\* Nothing is protected at first, and the thread knows it.
LEMMA Initially == Init => IInv
<1> SUFFICES ASSUME Init PROVE IInv
  OBVIOUS
<1>1. Typed
  BY Constants, EnrollmentAssumption DEF Init, Typed, Mask, NoRequest
<1>2. FsOK
  BY EnrollmentAssumption, TreeAssumption DEF Init, FsOK, Exists
<1> QED
  BY <1>1, <1>2, Constants DEF Init, IInv, Shape, Phases, Done, Discovered, At, NoRequest,
    WatchesOK, RegistryOK, IndexOK, MarksOK, TreesOK, KeyOK

-----------------------------------------------------------------------------
\* The name n gets the inode i, or none.
Touches(n, i) ==
  /\ \/ i = FreeIno /\ Exists(Parent[n])
     \/ i = 0 /\ \A m \in Name \ Root : Exists(m) => Parent[m] # n
  /\ Exists(n) \/ Exists(Parent[n])
  /\ Changed(n, i)

\* Programs touch one name at a time.
LEMMA ChangesTouch ==
  ASSUME FsOK, NEW n \in Name \ Root, Create(n) \/ Replace(n) \/ Delete(n)
  PROVE  \E i : Touches(n, i)
<1>1. CASE Create(n)
  BY <1>1 DEF Create, Touches
<1>2. CASE Replace(n)
  BY <1>2 DEF Replace, Touches, FsOK
<1>3. CASE Delete(n)
  BY <1>3 DEF Delete, Touches
<1> QED
  BY <1>1, <1>2, <1>3

\* Other names keep their inodes, marks and watches.
LEMMA TouchesOne ==
  ASSUME Shape, NEW n \in Name \ Root, NEW i, Touches(n, i)
  PROVE  /\ i \in 0..MaxIno /\ \A m \in Name : fs[m] = i => i = 0
         /\ fs' = [fs EXCEPT ![n] = i]
         /\ \A m \in Name : m # n => fs'[m] = fs[m] /\ (Exists(m)' <=> Exists(m))
         /\ \A m \in Name : m # n /\ Exists(m) => mark'[fs[m]] = mark[fs[m]]
         /\ \A m \in Name : m # n /\ Exists(m) /\ fs[m] \in watched => fs[m] \in watched'
         /\ queue => queue'
         /\ unheard \subseteq unheard' /\ unheard' \subseteq unheard \union {n}
         /\ UNCHANGED <<engine, topo, ipc>>
<1>1. i \in 0..MaxIno /\ \A m \in Name : fs[m] = i => i = 0
  BY FreeInoIsFree, Constants DEF Touches, Shape, Typed, Ino, Exists
<1>2. /\ fs' = [fs EXCEPT ![n] = i]
      /\ mark' = [j \in Ino |-> IF j \in {fs[n], i} THEN {} ELSE mark[j]]
      /\ watched' = watched \ {fs[n]}
      /\ queue' = (queue \/ fs[Parent[n]] \in watched \/ fs[n] \in watched)
      /\ unheard' = IF Unheard(n) THEN unheard \union {n} ELSE unheard
      /\ UNCHANGED <<engine, topo, ipc>>
  BY DEF Touches, Changed
<1>3. \A m \in Name : m # n => fs'[m] = fs[m] /\ (Exists(m)' <=> Exists(m))
  BY <1>2 DEF Shape, Typed, Exists
<1>4. \A m \in Name : m # n /\ Exists(m) => fs[m] \in Ino /\ fs[m] # fs[n] /\ fs[m] # i
  BY <1>1, Constants DEF Shape, Typed, FsOK, Exists, Ino
<1> QED
  BY <1>1, <1>2, <1>3, <1>4

\* What a change of one name leaves of each part of the invariant.
LEMMA TouchShape ==
  ASSUME Shape, NEW n \in Name \ Root, NEW i, Touches(n, i)
  PROVE  Shape'
<1>1. Typed'
  <2>1. fs' \in [Name -> 0..MaxIno]
    BY TouchesOne DEF Shape, Typed
  <2>2. mark' \in [Ino -> SUBSET Mask] /\ watched' \subseteq Ino /\ queue' \in BOOLEAN
    BY DEF Touches, Changed, Shape, Typed
  <2>3. unheard' \subseteq Name
    BY TouchesOne DEF Shape, Typed
  <2> QED
    BY <2>1, <2>2, <2>3, TouchesOne DEF Shape, Typed, engine
<1>2. FsOK'
  <2>1. \A m, k \in Name : fs'[m] = fs'[k] /\ fs'[m] # 0 => m = k
    BY TouchesOne DEF Shape, Typed, FsOK, Exists
  <2>2. \A k \in Root : fs'[k] # 0
    BY TouchesOne, Constants DEF Shape, Typed, FsOK, Exists
  <2>3. ASSUME NEW k \in Name \ Root, fs'[k] # 0 PROVE fs'[Parent[k]] # 0
    <3>1. Parent[k] \in Name
      BY Constants
    <3>2. CASE i = 0
      <4>1. k # n /\ Exists(k)
        BY <2>3, <3>2, TouchesOne DEF Shape, Typed, Exists
      <4>2. Parent[k] # n
        BY <3>2, <4>1, FreeInoIsFree, Constants DEF Touches, Shape, Typed
      <4> QED
        BY <3>1, <4>1, <4>2, TouchesOne DEF Shape, FsOK, Exists
    <3>3. CASE i # 0
      <4>1. Exists(Parent[n])
        BY <3>3 DEF Touches
      <4>2. Exists(Parent[k])
        BY <2>3, <4>1, TouchesOne DEF Shape, FsOK, Exists
      <4>3. fs'[n] = i
        BY TouchesOne DEF Shape, Typed
      <4> QED
        BY <3>1, <3>3, <4>2, <4>3, TouchesOne DEF Exists
    <3> QED
      BY <3>2, <3>3
  <2> QED
    BY <2>1, <2>2, <2>3 DEF FsOK, Exists
<1>3. Phases'
  BY TouchesOne DEF Shape, Phases, At
<1> QED
  BY <1>1, <1>2, <1>3 DEF Shape

\* While the daemon counts on its watches, a change is told of, or in unheard.
LEMMA HeardOf ==
  ASSUME Shape, WatchesOK, NEW n \in Name \ Root, NEW i, Touches(n, i),
         topo.pc \in {"mark", "trees"} \/ (At("watch") /\ ~topo.started) \/ Done
  PROVE  queue' \/ n \in unheard'
<1>1. SUFFICES ASSUME ~queue, fs[Parent[n]] \notin watched, ~Unheard(n) PROVE FALSE
  BY TouchesOne DEF Touches, Changed, Shape, Typed
<1>2. topo.started
  BY <1>1 DEF Unheard, At, Done, Shape, Phases
<1>3. ~At("watch") /\ (topo.pc \in {"mark", "trees"} \/ Done)
  BY <1>2 DEF At, Done
<1>4. PICK d \in WatchRoot : Below(n, d)
  BY <1>1 DEF Unheard
<1>5. Parent[n] \in Dir /\ Within(Parent[n], WatchRoot)
  BY <1>4, BelowStep, Constants DEF Within
<1>6. Exists(Parent[n])
  BY DEF Touches, Shape, FsOK
<1> QED
  BY <1>1, <1>3, <1>5, <1>6 DEF WatchesOK

\* A directory appears in one that is not watched yet only while that is to be walked.
LEMMA TouchWatches ==
  ASSUME Shape, WatchesOK, NEW n \in Name \ Root, NEW i, Touches(n, i)
  PROVE  WatchesOK'
<1>1. SUFFICES ASSUME ~queue', topo.pc \in {"watch", "discover", "mark", "trees"} \/ Done,
                      NEW x \in Dir, fs'[x] # 0, Within(x, WatchRoot)
               PROVE  fs'[x] \in watched' \/ (At("watch") /\ Within(x, topo.todo))
  BY TouchesOne DEF WatchesOK, At, Done, Exists, Within
<1>2. ~queue /\ x \in Name
  BY <1>1, TouchesOne, Constants
<1>3. CASE x # n
  <2>1. Exists(x)
    BY <1>2, <1>3, <1>1, TouchesOne DEF Exists
  <2>2. fs[x] \in watched \/ (At("watch") /\ Within(x, topo.todo))
    BY <1>1, <1>2, <2>1 DEF WatchesOK
  <2> QED
    BY <1>2, <1>3, <2>1, <2>2, TouchesOne
<1>4. CASE x = n
  <2>1. fs[Parent[n]] \notin watched
    BY <1>1 DEF Touches, Changed
  <2>2. Parent[n] \in Dir /\ Exists(Parent[n])
    BY Constants DEF Touches, Shape, FsOK
  <2>3. Within(Parent[n], WatchRoot)
    BY <1>1, <1>4, BelowStep, Constants DEF Within
  <2>4. At("watch") /\ Within(Parent[n], topo.todo)
    BY <1>1, <1>2, <2>1, <2>2, <2>3 DEF WatchesOK
  <2> QED
    BY <1>4, <2>4, BelowStep DEF Within
<1> QED
  BY <1>3, <1>4

\* A change nobody hears of and that is of a key leaves what discovery finds.
LEMMA TouchRegistry ==
  ASSUME Shape, WatchesOK, RegistryOK, NEW n \in Name \ Root, NEW i, Touches(n, i)
  PROVE  RegistryOK'
<1>1. SUFFICES ASSUME ~queue', Discovered, unheard' \subseteq Key
               PROVE  files \ Key = FoundFiles' /\ trees = FoundTrees'
  BY TouchesOne DEF RegistryOK, Discovered, Done, At, engine
<1>2. n \in Key
  BY <1>1, HeardOf DEF Discovered, Done
<1>3. \A m \in Critical \union {TreeDir} : Exists(m)' <=> Exists(m)
  BY <1>2, TouchesOne, Constants
<1>4. FoundFiles' = FoundFiles /\ FoundTrees' = FoundTrees
  BY <1>3, Constants DEF FoundFiles, FoundTrees
<1> QED
  BY <1>1, <1>4, TouchesOne DEF RegistryOK

\* The other names keep what stands for them ...
LEMMA TouchIndex ==
  ASSUME Shape, WatchesOK, IndexOK, NEW n \in Name \ Root, NEW i, Touches(n, i)
  PROVE  IndexOK'
<1>1. SUFFICES ASSUME ~queue', Discovered, NEW m \in files, m \notin unheard', fs'[m] # 0
               PROVE  index[fs'[m]] = m
  BY TouchesOne DEF IndexOK, Discovered, Done, At, Exists, engine
<1>2. m # n /\ m \in Name
  BY <1>1, HeardOf, Constants DEF Discovered, Done, Shape, Typed
<1>3. fs'[m] = fs[m]
  BY <1>2, TouchesOne
<1> QED
  BY <1>1, <1>3, TouchesOne DEF IndexOK, Exists

\* ... and their marks ...
LEMMA TouchMarks ==
  ASSUME Shape, WatchesOK, MarksOK, NEW n \in Name \ Root, NEW i, Touches(n, i)
  PROVE  MarksOK'
<1>1. SUFFICES ASSUME ~queue', topo.pc \in {"mark", "trees"} \/ Done,
                      NEW m \in files, m \notin unheard', fs'[m] # 0
               PROVE  MarkOf(m) \in mark'[fs'[m]] \/ (At("mark") /\ m \in topo.todo)
  BY TouchesOne DEF MarksOK, Done, At, Exists, MarkOf, engine
<1>2. m # n /\ m \in Name
  BY <1>1, HeardOf, Constants DEF Done, Shape, Typed
<1>3. fs'[m] = fs[m] /\ mark'[fs[m]] = mark[fs[m]]
  BY <1>1, <1>2, TouchesOne DEF Exists
<1> QED
  BY <1>1, <1>3, TouchesOne DEF MarksOK, Exists

\* ... as do directories ...
LEMMA TouchTrees ==
  ASSUME Shape, WatchesOK, TreesOK, NEW n \in Name \ Root, NEW i, Touches(n, i)
  PROVE  TreesOK'
<1>1. SUFFICES ASSUME ~queue', At("trees") \/ Done, unheard' \subseteq Key,
                      NEW x \in Dir, fs'[x] # 0, Within(x, trees)
               PROVE  "tree" \in mark'[fs'[x]] \/ (At("trees") /\ Within(x, topo.todo))
  BY TouchesOne DEF TreesOK, Done, At, Exists, Within, engine
<1>2. x # n /\ x \in Name
  BY <1>1, HeardOf, Constants DEF At, Done, Shape, Typed
<1>3. fs'[x] = fs[x] /\ mark'[fs[x]] = mark[fs[x]]
  BY <1>1, <1>2, TouchesOne DEF Exists
<1> QED
  BY <1>1, <1>3, TouchesOne DEF TreesOK, Exists

\* ... and the key of a request, unless it is what changes.
LEMMA TouchKey ==
  ASSUME Shape, KeyOK, NEW n \in Name \ Root, NEW i, Touches(n, i)
  PROVE  KeyOK'
<1>1. SUFFICES ASSUME ipc.pc = "marked", ipc.key \notin unheard', ipc.key \notin files
               PROVE  fs'[ipc.key] # 0 /\ "access" \in mark'[fs'[ipc.key]]
  BY TouchesOne DEF KeyOK, Exists, engine
<1>2. ipc.key # n
  <2>1. ipc = [pc |-> ipc.pc, key |-> ipc.key]
    BY DEF Shape, Typed
  <2>2. ipc.key = n => Unheard(n)
    BY <1>1, <2>1 DEF Unheard
  <2> QED
    BY <1>1, <2>2 DEF Touches, Changed
<1>3. Exists(ipc.key) /\ "access" \in mark[fs[ipc.key]] /\ ipc.key \in Name
  BY <1>1, TouchesOne, Constants DEF KeyOK, Shape, Phases
<1> QED
  BY <1>2, <1>3, TouchesOne DEF Exists

\* So no change of the file system breaks the invariant.
LEMMA ChangesKeep ==
  ASSUME IInv, NEW n \in Name \ Root, Create(n) \/ Replace(n) \/ Delete(n)
  PROVE  IInv'
<1>1. PICK i : Touches(n, i)
  BY ChangesTouch DEF IInv, Shape
<1> QED
  BY <1>1, TouchShape, TouchWatches, TouchRegistry, TouchIndex, TouchMarks, TouchTrees, TouchKey
  DEF IInv

-----------------------------------------------------------------------------
\* Names in an index are what their inodes stand for.
LEMMA IndexedNames ==
  ASSUME Typed, FsOK, NEW N, N \subseteq Name
  PROVE  /\ Indexed(N) \in [Ino -> Name \union {None}]
         /\ \A n \in N : Exists(n) => Indexed(N)[fs[n]] = n
         /\ \A m \in Name : Exists(m) /\ m \notin N => Indexed(N)[fs[m]] = index[fs[m]]
<1>1. \A i \in Ino : (\E n \in N : fs[n] = i) =>
        (CHOOSE n \in N : fs[n] = i) \in N /\ fs[CHOOSE n \in N : fs[n] = i] = i
  OBVIOUS
<1>2. \A m \in Name : Exists(m) => fs[m] \in Ino
  BY Constants DEF Typed, Exists, Ino
<1>3. Indexed(N) \in [Ino -> Name \union {None}]
  BY <1>1 DEF Indexed, Typed
<1>4. ASSUME NEW n \in N, Exists(n) PROVE Indexed(N)[fs[n]] = n
  BY <1>1, <1>2, <1>4 DEF Indexed, FsOK
<1>5. ASSUME NEW m \in Name, Exists(m), m \notin N PROVE Indexed(N)[fs[m]] = index[fs[m]]
  BY <1>2, <1>5 DEF Indexed, FsOK
<1> QED
  BY <1>3, <1>4, <1>5

\* The thread goes on to another place.
LEMMA Goes ==
  ASSUME Typed, NEW pc \in {"watch", "discover", "mark", "trees", "wait", "aborted"},
         NEW todo \in SUBSET Name, Goto(pc, todo)
  PROVE  /\ topo' \in [pc : {"config", "watch", "discover", "mark", "trees", "wait", "aborted"},
                        todo : SUBSET Name, dirty : BOOLEAN, started : BOOLEAN]
         /\ topo'.pc = pc /\ topo'.todo = todo
         /\ topo'.dirty = topo.dirty /\ topo'.started = topo.started
BY DEF Typed, Goto

\* What discovery finds.
LEMMA Found ==
  /\ FoundFiles \subseteq Critical /\ FoundTrees \subseteq {TreeDir}
BY DEF FoundFiles, FoundTrees

\* Start-up discovers, with no watches yet.
LEMMA FromConfigKeeps == IInv /\ FromConfig => IInv'
<1> SUFFICES ASSUME IInv, FromConfig PROVE IInv'
  OBVIOUS
<1>1. /\ UNCHANGED <<fs, kernel, degraded, ipc, unheard, counters>>
      /\ topo' = [topo EXCEPT !.pc = "watch", !.todo = WatchRoot] /\ At("config")
      /\ files' = FoundFiles \union {k \in Configured : Exists(k)} /\ trees' = FoundTrees
      /\ index' = Indexed(files')
  BY DEF FromConfig, Goto
<1>2. files' \subseteq Critical \union Key /\ files' \subseteq Name /\ files' \ Key = FoundFiles
  BY <1>1, Found, Constants
<1>3. Typed' /\ FsOK' /\ Phases'
  BY <1>1, <1>2, IndexedNames, Found, Constants
  DEF IInv, Shape, Typed, FsOK, Phases, Exists, At, kernel
<1>4. topo'.pc = "watch" /\ topo'.todo = WatchRoot /\ ~topo'.started
  BY <1>1 DEF IInv, Shape, Typed, Phases, At
<1>5. WatchesOK'
  BY <1>4 DEF WatchesOK, At, Within
<1>6. FoundFiles' = FoundFiles /\ FoundTrees' = FoundTrees
  BY <1>1 DEF FoundFiles, FoundTrees, Exists
<1>7. RegistryOK'
  BY <1>1, <1>2, <1>6 DEF RegistryOK
<1>8. \A n \in files' : Exists(n) => index'[fs[n]] = n
  BY <1>1, <1>2, IndexedNames DEF IInv, Shape
<1>9. IndexOK'
  BY <1>1, <1>8 DEF IndexOK, Exists
<1>10. MarksOK' /\ TreesOK'
  BY <1>4 DEF MarksOK, TreesOK, At, Done
<1>11. KeyOK'
  BY <1>1 DEF IInv, Shape, Phases, KeyOK, At
<1> QED
  BY <1>3, <1>5, <1>7, <1>9, <1>10, <1>11 DEF IInv, Shape

\* The thread begins again.
LEMMA BeginsKeeps ==
  ASSUME IInv, Wait \/ WaitFails
  PROVE  IInv'
<1>1. /\ UNCHANGED <<fs, mark, watched, engine, ipc, unheard>> /\ queue' \in BOOLEAN
      /\ topo' = [topo EXCEPT !.pc = "watch", !.todo = WatchRoot, !.dirty = TRUE] /\ At("wait")
  BY DEF Wait, WaitFails, kernel, IInv, Shape, Typed
<1>2. Typed' /\ FsOK' /\ Phases'
  BY <1>1, Constants DEF IInv, Shape, Typed, FsOK, Phases, Exists, At, engine
<1>3. topo'.pc = "watch" /\ topo'.todo = WatchRoot /\ topo'.started /\ topo'.dirty
  BY <1>1 DEF IInv, Shape, Typed, Phases, At
<1>4. WatchesOK'
  BY <1>3 DEF WatchesOK, At, Within
<1>5. RegistryOK' /\ IndexOK' /\ MarksOK' /\ TreesOK'
  BY <1>3 DEF RegistryOK, IndexOK, MarksOK, TreesOK, At, Done, Discovered
<1>6. KeyOK'
  BY <1>1 DEF IInv, KeyOK, Exists, engine
<1> QED
  BY <1>2, <1>4, <1>5, <1>6 DEF IInv, Shape

\* Below a directory are the directory and what is below its subdirectories.
LEMMA WatchKeeps ==
  ASSUME IInv, NEW d \in Dir, Watch(d)
  PROVE  IInv'
<1>1. /\ UNCHANGED <<fs, mark, queue, engine, ipc, unheard>>
      /\ watched' = watched \union {fs[d]}
      /\ topo' = [topo EXCEPT !.pc = "watch", !.todo = (topo.todo \ {d}) \union Subdirs(d)]
      /\ At("watch") /\ Exists(d) /\ fs[d] \in Ino
  BY Constants DEF Watch, Goto, IInv, Shape, Typed, Exists, Ino
<1>2. Typed' /\ FsOK' /\ Phases'
  BY <1>1, Constants DEF IInv, Shape, Typed, FsOK, Phases, Exists, At, engine, Subdirs
<1>3. topo'.pc = "watch" /\ topo'.todo = (topo.todo \ {d}) \union Subdirs(d)
      /\ topo'.started = topo.started
  BY <1>1 DEF IInv, Shape, Typed, At
<1>4. ASSUME NEW x \in Dir, Exists(x), Within(x, topo.todo)
      PROVE  fs[x] \in watched' \/ Within(x, topo'.todo)
  <2>1. PICK t \in topo.todo : Below(x, t)
    BY <1>4 DEF Within
  <2>2. CASE t = d /\ x # d
    <3>1. PICK s \in Name \ Root : Parent[s] = d /\ Below(x, s)
      BY <2>1, <2>2, BelowEntry, Constants
    <3>2. s \in Subdirs(d)
      BY <1>4, <3>1, BelowNames, ExistsAbove, Constants DEF IInv, Shape, Subdirs
    <3> QED
      BY <1>3, <3>1, <3>2 DEF Within
  <2>3. CASE t # d \/ x = d
    BY <1>1, <1>3, <2>1, <2>3 DEF Within
  <2> QED
    BY <2>2, <2>3
<1>5. WatchesOK'
  BY <1>1, <1>3, <1>4 DEF IInv, WatchesOK, At, Exists, Within
<1>6. FoundFiles' = FoundFiles /\ FoundTrees' = FoundTrees
  BY <1>1 DEF FoundFiles, FoundTrees, Exists
<1>7. RegistryOK' /\ IndexOK' /\ MarksOK' /\ TreesOK'
  BY <1>1, <1>3, <1>6
  DEF IInv, RegistryOK, IndexOK, MarksOK, TreesOK, At, Done, Discovered, Exists, engine
<1>8. KeyOK'
  BY <1>1 DEF IInv, KeyOK, Exists, engine
<1> QED
  BY <1>2, <1>5, <1>7, <1>8 DEF IInv, Shape

\* At start-up the files are marked next; later they are discovered first.
LEMMA WatchedKeeps == IInv /\ Watched => IInv'
<1> SUFFICES ASSUME IInv, Watched PROVE IInv'
  OBVIOUS
<1>1. /\ UNCHANGED <<fs, kernel, engine, ipc, unheard>>
      /\ At("watch") /\ topo.todo = {}
      /\ IF topo.started THEN Goto("discover", {}) ELSE Goto("mark", files)
  BY DEF Watched
<1>2. files \subseteq Name
  BY Constants DEF IInv, Shape, Typed
<1>3. /\ topo' \in [pc : {"config", "watch", "discover", "mark", "trees", "wait", "aborted"},
                     todo : SUBSET Name, dirty : BOOLEAN, started : BOOLEAN]
      /\ topo'.started = topo.started /\ topo'.dirty = topo.dirty
      /\ topo.started => topo'.pc = "discover"
      /\ ~topo.started => topo'.pc = "mark" /\ topo'.todo = files
  BY <1>1, <1>2, Goes DEF IInv, Shape
<1>4. Typed' /\ FsOK' /\ Phases'
  BY <1>1, <1>3 DEF IInv, Shape, Typed, FsOK, Phases, Exists, At, kernel, engine
<1>5. WatchesOK'
  BY <1>1, <1>3 DEF IInv, WatchesOK, At, Done, Exists, Within, kernel
<1>6. FoundFiles' = FoundFiles /\ FoundTrees' = FoundTrees
  BY <1>1 DEF FoundFiles, FoundTrees, Exists
<1>7. RegistryOK' /\ IndexOK'
  BY <1>1, <1>3, <1>6 DEF IInv, RegistryOK, IndexOK, At, Done, Discovered, Exists, engine, kernel
<1>8. MarksOK' /\ TreesOK'
  BY <1>1, <1>3 DEF MarksOK, TreesOK, At, Done, engine
<1>9. KeyOK'
  BY <1>1 DEF IInv, KeyOK, Exists, engine, kernel
<1> QED
  BY <1>4, <1>5, <1>7, <1>8, <1>9 DEF IInv, Shape

\* Discovery makes registry and index true, and what it finds is still to be marked.
LEMMA DiscoverKeeps == IInv /\ Discover => IInv'
<1> SUFFICES ASSUME IInv, Discover PROVE IInv'
  OBVIOUS
<1>1. /\ UNCHANGED <<fs, kernel, ipc>>
      /\ At("discover")
      /\ files' = FoundFiles \union (files \intersect Key) /\ trees' = FoundTrees
      /\ index' = Indexed(files')
      /\ unheard' = unheard \intersect (Key \ files')
      /\ topo' = [topo EXCEPT !.pc = "mark", !.todo = files']
  BY DEF Discover, Goto
<1>2. files' \subseteq Critical \union Key /\ files' \subseteq Name /\ files' \ Key = FoundFiles
  BY <1>1, Found, Constants
<1>3. Typed' /\ FsOK' /\ Phases'
  BY <1>1, <1>2, IndexedNames, Found
  DEF IInv, Shape, Typed, FsOK, Phases, Exists, At, kernel
<1>4. topo'.pc = "mark" /\ topo'.todo = files' /\ topo'.started = topo.started
  BY <1>1 DEF IInv, Shape, Typed, Phases, At
<1>5. WatchesOK'
  BY <1>1, <1>4 DEF IInv, WatchesOK, At, Done, Exists, kernel
<1>6. FoundFiles' = FoundFiles /\ FoundTrees' = FoundTrees
  BY <1>1 DEF FoundFiles, FoundTrees, Exists
<1>7. RegistryOK'
  BY <1>1, <1>2, <1>6 DEF RegistryOK
<1>8. \A n \in files' : Exists(n) => index'[fs[n]] = n
  BY <1>1, <1>2, IndexedNames DEF IInv, Shape
<1>9. IndexOK'
  BY <1>1, <1>8 DEF IndexOK, Exists
<1>10. MarksOK' /\ TreesOK'
  BY <1>4 DEF MarksOK, TreesOK, At, Done
<1>11. KeyOK'
  <2>1. ASSUME ipc.pc = "marked", ipc.key \notin unheard', ipc.key \notin files'
        PROVE  Exists(ipc.key) /\ "access" \in mark[fs[ipc.key]]
    BY <1>1, <2>1 DEF IInv, Shape, Phases, KeyOK
  <2> QED
    BY <1>1, <2>1 DEF KeyOK, Exists, kernel
<1> QED
  BY <1>3, <1>5, <1>7, <1>9, <1>10, <1>11 DEF IInv, Shape

-----------------------------------------------------------------------------
\* One file after the other is marked ...
LEMMA MarkFileKeeps ==
  ASSUME IInv, NEW n \in File, MarkFile(n)
  PROVE  IInv'
<1>1. /\ UNCHANGED <<fs, watched, queue, engine, ipc, unheard>>
      /\ mark' = [mark EXCEPT ![fs[n]] = @ \union {MarkOf(n)}]
      /\ At("mark") /\ Exists(n)
      /\ topo.todo \ {n} \in SUBSET Name /\ Goto("mark", topo.todo \ {n})
  BY DEF MarkFile, Marked, MarkOf, IInv, Shape, Typed
<1>2. /\ topo' \in [pc : {"config", "watch", "discover", "mark", "trees", "wait", "aborted"},
                     todo : SUBSET Name, dirty : BOOLEAN, started : BOOLEAN]
      /\ topo'.started = topo.started /\ topo'.dirty = topo.dirty
      /\ topo'.pc = "mark" /\ topo'.todo = topo.todo \ {n}
  BY <1>1, Goes DEF IInv, Shape
<1>3. mark' \in [Ino -> SUBSET Mask] /\ \A i \in Ino : mark[i] \subseteq mark'[i]
  BY <1>1 DEF IInv, Shape, Typed, Mask, MarkOf
<1>4. \A m \in Name : Exists(m) => fs[m] \in Ino
  BY Constants DEF IInv, Shape, Typed, Exists, Ino
<1>5. Typed' /\ FsOK' /\ Phases'
  BY <1>1, <1>2, <1>3 DEF IInv, Shape, Typed, FsOK, Phases, Exists, At, engine
<1>6. WatchesOK'
  BY <1>1, <1>2 DEF IInv, WatchesOK, At, Done, Exists
<1>7. FoundFiles' = FoundFiles /\ FoundTrees' = FoundTrees
  BY <1>1 DEF FoundFiles, FoundTrees, Exists
<1>8. RegistryOK' /\ IndexOK'
  BY <1>1, <1>2, <1>7 DEF IInv, RegistryOK, IndexOK, At, Done, Discovered, Exists, engine
<1>9. MarkOf(n) \in mark'[fs[n]]
  BY <1>1, <1>4, Constants DEF IInv, Shape, Typed
<1>10. MarksOK'
  <2>1. SUFFICES ASSUME ~queue, NEW m \in files, m \notin unheard, Exists(m), m # n
                 PROVE  MarkOf(m) \in mark'[fs[m]] \/ m \in topo'.todo
    BY <1>1, <1>2, <1>9 DEF MarksOK, At, Done, Exists, MarkOf, engine
  <2>2. m \in Name
    BY Constants DEF IInv, Shape, Typed
  <2>3. MarkOf(m) \in mark[fs[m]] \/ m \in topo.todo
    BY <1>1, <2>1 DEF IInv, MarksOK, At
  <2> QED
    BY <1>2, <1>3, <1>4, <2>1, <2>2, <2>3
<1>11. TreesOK'
  BY <1>2 DEF TreesOK, At, Done
<1>12. KeyOK'
  BY <1>1, <1>3, <1>4, Constants DEF IInv, Shape, Phases, KeyOK, Exists, engine
<1> QED
  BY <1>5, <1>6, <1>8, <1>10, <1>11, <1>12 DEF IInv, Shape

\* ... then the trees are to be marked ...
LEMMA MarkedFilesKeeps == IInv /\ MarkedFiles => IInv'
<1> SUFFICES ASSUME IInv, MarkedFiles PROVE IInv'
  OBVIOUS
<1>1. /\ UNCHANGED <<fs, kernel, engine, ipc, unheard>>
      /\ At("mark") /\ topo.todo = {}
      /\ trees \in SUBSET Name /\ Goto("trees", trees)
  BY Constants DEF MarkedFiles, IInv, Shape, Typed
<1>2. /\ topo' \in [pc : {"config", "watch", "discover", "mark", "trees", "wait", "aborted"},
                     todo : SUBSET Name, dirty : BOOLEAN, started : BOOLEAN]
      /\ topo'.started = topo.started /\ topo'.dirty = topo.dirty
      /\ topo'.pc = "trees" /\ topo'.todo = trees
  BY <1>1, Goes DEF IInv, Shape
<1>3. Typed' /\ FsOK' /\ Phases'
  BY <1>1, <1>2 DEF IInv, Shape, Typed, FsOK, Phases, Exists, At, engine, kernel
<1>4. WatchesOK'
  BY <1>1, <1>2 DEF IInv, WatchesOK, At, Done, Exists, kernel
<1>5. FoundFiles' = FoundFiles /\ FoundTrees' = FoundTrees
  BY <1>1 DEF FoundFiles, FoundTrees, Exists
<1>6. RegistryOK' /\ IndexOK'
  BY <1>1, <1>2, <1>5 DEF IInv, RegistryOK, IndexOK, At, Done, Discovered, Exists, engine, kernel
<1>7. MarksOK'
  BY <1>1, <1>2 DEF IInv, MarksOK, At, Done, Exists, engine, kernel
<1>8. TreesOK'
  BY <1>1, <1>2 DEF TreesOK, At, Done, Within, engine
<1>9. KeyOK'
  BY <1>1 DEF IInv, KeyOK, Exists, engine, kernel
<1> QED
  BY <1>3, <1>4, <1>6, <1>7, <1>8, <1>9 DEF IInv, Shape

\* ... one directory after the other ...
LEMMA MarkTreeKeeps ==
  ASSUME IInv, NEW d \in Dir, MarkTree(d)
  PROVE  IInv'
<1>1. /\ UNCHANGED <<fs, watched, queue, engine, ipc, unheard>>
      /\ mark' = [mark EXCEPT ![fs[d]] = @ \union {"tree"}]
      /\ At("trees") /\ Exists(d)
      /\ (topo.todo \ {d}) \union Subdirs(d) \in SUBSET Name
      /\ Goto("trees", (topo.todo \ {d}) \union Subdirs(d))
  BY Constants DEF MarkTree, Marked, IInv, Shape, Typed, Subdirs
<1>2. /\ topo' \in [pc : {"config", "watch", "discover", "mark", "trees", "wait", "aborted"},
                     todo : SUBSET Name, dirty : BOOLEAN, started : BOOLEAN]
      /\ topo'.started = topo.started /\ topo'.dirty = topo.dirty
      /\ topo'.pc = "trees" /\ topo'.todo = (topo.todo \ {d}) \union Subdirs(d)
  BY <1>1, Goes DEF IInv, Shape
<1>3. mark' \in [Ino -> SUBSET Mask] /\ \A i \in Ino : mark[i] \subseteq mark'[i]
  BY <1>1 DEF IInv, Shape, Typed, Mask
<1>4. \A m \in Name : Exists(m) => fs[m] \in Ino
  BY Constants DEF IInv, Shape, Typed, Exists, Ino
<1>5. Typed' /\ FsOK' /\ Phases'
  BY <1>1, <1>2, <1>3 DEF IInv, Shape, Typed, FsOK, Phases, Exists, At, engine
<1>6. WatchesOK'
  BY <1>1, <1>2 DEF IInv, WatchesOK, At, Done, Exists
<1>7. FoundFiles' = FoundFiles /\ FoundTrees' = FoundTrees
  BY <1>1 DEF FoundFiles, FoundTrees, Exists
<1>8. RegistryOK' /\ IndexOK'
  BY <1>1, <1>2, <1>7 DEF IInv, RegistryOK, IndexOK, At, Done, Discovered, Exists, engine
<1>9. MarksOK'
  <2>1. SUFFICES ASSUME ~queue, NEW m \in files, m \notin unheard, Exists(m)
                 PROVE  MarkOf(m) \in mark'[fs[m]]
    BY <1>1, <1>2 DEF MarksOK, At, Done, Exists, MarkOf, engine
  <2>2. m \in Name
    BY Constants DEF IInv, Shape, Typed
  <2>3. MarkOf(m) \in mark[fs[m]]
    BY <1>1, <2>1 DEF IInv, MarksOK, At
  <2> QED
    BY <1>3, <1>4, <2>1, <2>2, <2>3
<1>10. ASSUME NEW x \in Dir, Exists(x), Within(x, topo.todo)
       PROVE  "tree" \in mark'[fs[x]] \/ Within(x, topo'.todo)
  <2>1. PICK t \in topo.todo : Below(x, t)
    BY <1>10 DEF Within
  <2>2. CASE t = d /\ x # d
    <3>1. PICK s \in Name \ Root : Parent[s] = d /\ Below(x, s)
      BY <2>1, <2>2, BelowEntry, Constants
    <3>2. s \in Subdirs(d)
      BY <1>10, <3>1, BelowNames, ExistsAbove, Constants DEF IInv, Shape, Subdirs
    <3> QED
      BY <1>2, <3>1, <3>2 DEF Within
  <2>3. CASE x = d
    BY <1>1, <1>4, <2>3, Constants DEF IInv, Shape, Typed
  <2>4. CASE t # d
    BY <1>2, <2>1, <2>4 DEF Within
  <2> QED
    BY <2>2, <2>3, <2>4
<1>11. TreesOK'
  <2>1. SUFFICES ASSUME ~queue, unheard \subseteq Key, NEW x \in Dir, Exists(x), Within(x, trees)
                 PROVE  "tree" \in mark'[fs[x]] \/ Within(x, topo'.todo)
    BY <1>1, <1>2 DEF TreesOK, At, Done, Exists, Within, engine
  <2>2. "tree" \in mark[fs[x]] \/ Within(x, topo.todo)
    BY <1>1, <2>1 DEF IInv, TreesOK
  <2> QED
    BY <1>3, <1>4, <1>10, <2>1, <2>2, Constants
<1>12. KeyOK'
  BY <1>1, <1>3, <1>4, Constants DEF IInv, Shape, Phases, KeyOK, Exists, engine
<1> QED
  BY <1>5, <1>6, <1>8, <1>9, <1>11, <1>12 DEF IInv, Shape

\* ... until all are.
LEMMA RefreshedKeeps == IInv /\ Refreshed => IInv'
<1> SUFFICES ASSUME IInv, Refreshed PROVE IInv'
  OBVIOUS
<1>1. /\ UNCHANGED <<fs, kernel, engine, ipc, unheard>>
      /\ At("trees") /\ topo.todo = {}
      /\ topo' = [topo EXCEPT !.pc = "wait", !.dirty = FALSE, !.started = TRUE]
  BY DEF Refreshed
<1>2. /\ topo' \in [pc : {"config", "watch", "discover", "mark", "trees", "wait", "aborted"},
                     todo : SUBSET Name, dirty : BOOLEAN, started : BOOLEAN]
      /\ topo'.started /\ topo'.pc = "wait"
  BY <1>1 DEF IInv, Shape, Typed
<1>3. Typed' /\ FsOK' /\ Phases'
  BY <1>1, <1>2 DEF IInv, Shape, Typed, FsOK, Phases, Exists, At, engine, kernel
<1>4. WatchesOK'
  BY <1>1, <1>2 DEF IInv, WatchesOK, At, Done, Exists, kernel
<1>5. FoundFiles' = FoundFiles /\ FoundTrees' = FoundTrees
  BY <1>1 DEF FoundFiles, FoundTrees, Exists
<1>6. RegistryOK' /\ IndexOK'
  BY <1>1, <1>2, <1>5 DEF IInv, RegistryOK, IndexOK, At, Done, Discovered, Exists, engine, kernel
<1>7. MarksOK'
  BY <1>1, <1>2 DEF IInv, MarksOK, At, Done, Exists, engine, kernel
<1>8. TreesOK'
  BY <1>1, <1>2 DEF IInv, TreesOK, At, Done, Exists, Within, engine, kernel
<1>9. KeyOK'
  BY <1>1 DEF IInv, KeyOK, Exists, engine, kernel
<1> QED
  BY <1>3, <1>4, <1>6, <1>7, <1>8, <1>9 DEF IInv, Shape

\* After a failure the thread is dirty, or the daemon does not start.
LEMMA FailedKeeps ==
  ASSUME IInv, Missing \/ CallFails
  PROVE  IInv'
<1>1. /\ UNCHANGED <<fs, kernel, engine, ipc, unheard>> /\ ~At("wait") /\ ~At("config")
      /\ IF topo.started THEN Goto("wait", {}) ELSE Goto("aborted", {})
  BY DEF Missing, CallFails, Failed, At
<1>2. /\ topo' \in [pc : {"config", "watch", "discover", "mark", "trees", "wait", "aborted"},
                     todo : SUBSET Name, dirty : BOOLEAN, started : BOOLEAN]
      /\ topo'.started = topo.started /\ topo'.dirty = topo.dirty
      /\ topo'.pc = IF topo.started THEN "wait" ELSE "aborted"
  BY <1>1, Goes DEF IInv, Shape
<1>3. Typed' /\ FsOK' /\ Phases'
  BY <1>1, <1>2 DEF IInv, Shape, Typed, FsOK, Phases, Exists, At, engine, kernel
<1>4. topo.started => topo'.dirty
  BY <1>1, <1>2 DEF IInv, Shape, Phases
<1>5. WatchesOK' /\ RegistryOK' /\ IndexOK' /\ MarksOK' /\ TreesOK'
  BY <1>2, <1>4 DEF WatchesOK, RegistryOK, IndexOK, MarksOK, TreesOK, At, Done, Discovered
<1>6. KeyOK'
  BY <1>1 DEF IInv, KeyOK, Exists, engine, kernel
<1> QED
  BY <1>3, <1>5, <1>6 DEF IInv, Shape

-----------------------------------------------------------------------------
\* A request that is not marked yet concerns nothing else.
LEMMA RequestKeeps ==
  ASSUME IInv, ProtectRefused \/ \E k \in Key : ProtectKey(k)
  PROVE  IInv'
<1>1. UNCHANGED <<fs, kernel, engine, topo, unheard>>
  BY DEF ProtectKey, ProtectRefused
<1>2. /\ ipc' \in [pc : {"idle", "authenticating", "marked"}, key : Key \union {None}]
      /\ ipc'.pc # "marked"
      /\ ipc'.pc # "idle" => topo.started /\ ipc'.key \in Key
  BY DEF ProtectKey, ProtectRefused, NoRequest
<1>3. Typed' /\ FsOK' /\ Phases'
  BY <1>1, <1>2 DEF IInv, Shape, Typed, FsOK, Phases, Exists, At, engine, kernel
<1>4. FoundFiles' = FoundFiles /\ FoundTrees' = FoundTrees
  BY <1>1 DEF FoundFiles, FoundTrees, Exists
<1>5. WatchesOK' /\ RegistryOK' /\ IndexOK' /\ MarksOK' /\ TreesOK'
  BY <1>1, <1>4
  DEF IInv, WatchesOK, RegistryOK, IndexOK, MarksOK, TreesOK, At, Done, Discovered, Exists,
      Within, engine, kernel
<1>6. KeyOK'
  BY <1>2 DEF KeyOK
<1> QED
  BY <1>3, <1>5, <1>6 DEF IInv, Shape

\* The IPC thread's marks only add to the topology thread's.
LEMMA ProtectMarkKeeps == IInv /\ ProtectMark => IInv'
<1> SUFFICES ASSUME IInv, ProtectMark PROVE IInv'
  OBVIOUS
<1>1. /\ UNCHANGED <<fs, watched, queue, engine, topo, unheard>>
      /\ ipc.pc = "authenticating" /\ ipc.key \in Key /\ Exists(ipc.key)
      /\ mark' = [mark EXCEPT ![fs[ipc.key]] = @ \union {"access"}]
      /\ ipc' = [ipc EXCEPT !.pc = "marked"]
  BY DEF ProtectMark, Marked, IInv, Shape, Phases
<1>2. mark' \in [Ino -> SUBSET Mask] /\ \A i \in Ino : mark[i] \subseteq mark'[i]
  BY <1>1 DEF IInv, Shape, Typed, Mask
<1>3. \A m \in Name : Exists(m) => fs[m] \in Ino
  BY Constants DEF IInv, Shape, Typed, Exists, Ino
<1>4. Typed' /\ FsOK' /\ Phases'
  BY <1>1, <1>2 DEF IInv, Shape, Typed, FsOK, Phases, Exists, At, engine
<1>5. FoundFiles' = FoundFiles /\ FoundTrees' = FoundTrees
  BY <1>1 DEF FoundFiles, FoundTrees, Exists
<1>6. WatchesOK' /\ RegistryOK' /\ IndexOK'
  BY <1>1, <1>5
  DEF IInv, WatchesOK, RegistryOK, IndexOK, At, Done, Discovered, Exists, Within, engine
<1>7. files \subseteq Name /\ Dir \subseteq Name
  BY Constants DEF IInv, Shape, Typed
<1>8. MarksOK'
  BY <1>1, <1>2, <1>3, <1>7 DEF IInv, MarksOK, At, Done, Exists, MarkOf, engine
<1>9. TreesOK'
  BY <1>1, <1>2, <1>3, <1>7 DEF IInv, TreesOK, At, Done, Exists, Within, engine
<1>10. KeyOK'
  <2>1. ipc'.key = ipc.key
    BY <1>1 DEF IInv, Shape, Typed
  <2>2. "access" \in mark'[fs[ipc.key]]
    BY <1>1, <1>3, Constants DEF IInv, Shape, Typed
  <2> QED
    BY <1>1, <2>1, <2>2 DEF KeyOK, Exists
<1> QED
  BY <1>4, <1>6, <1>8, <1>9, <1>10 DEF IInv, Shape

\* A key is published that is marked, or known already, or in unheard.
LEMMA ProtectPublishKeeps == IInv /\ ProtectPublish => IInv'
<1> SUFFICES ASSUME IInv, ProtectPublish PROVE IInv'
  OBVIOUS
<1>1. PICK k \in Key : k = ipc.key
  BY DEF ProtectPublish, IInv, Shape, Phases
<1>2. /\ UNCHANGED <<fs, kernel, trees, topo, unheard>>
      /\ topo.started /\ topo.pc \notin {"mark", "trees"}
      /\ index' = Indexed({k}) /\ files' = files \union {k} /\ ipc' = NoRequest
      /\ ipc.pc = "marked"
  BY <1>1 DEF ProtectPublish, EngineLocked, IInv, Shape, Phases
<1>3. {k} \subseteq Name /\ files \subseteq Name
  BY Constants DEF IInv, Shape, Typed
<1>4. /\ Indexed({k}) \in [Ino -> Name \union {None}]
      /\ Exists(k) => Indexed({k})[fs[k]] = k
      /\ \A m \in Name : Exists(m) /\ m # k => Indexed({k})[fs[m]] = index[fs[m]]
  BY <1>3, IndexedNames DEF IInv, Shape
<1>5. Typed' /\ FsOK' /\ Phases'
  BY <1>2, <1>4, Constants
  DEF IInv, Shape, Typed, FsOK, Phases, Exists, At, kernel, NoRequest
<1>6. FoundFiles' = FoundFiles /\ FoundTrees' = FoundTrees
  BY <1>2 DEF FoundFiles, FoundTrees, Exists
<1>7. files' \ Key = files \ Key
  BY <1>2
<1>8. WatchesOK' /\ RegistryOK'
  BY <1>2, <1>6, <1>7
  DEF IInv, WatchesOK, RegistryOK, At, Done, Discovered, Exists, Within, kernel
<1>9. IndexOK'
  BY <1>2, <1>3, <1>4 DEF IInv, IndexOK, At, Done, Discovered, Exists, kernel
<1>10. MarksOK'
  <2>1. SUFFICES ASSUME ~queue, Done, NEW m \in files', m \notin unheard, Exists(m)
                 PROVE  MarkOf(m) \in mark[fs[m]]
    BY <1>2 DEF MarksOK, At, Done, Exists, MarkOf, kernel
  <2>2. m \in files => MarkOf(m) \in mark[fs[m]]
    BY <2>1 DEF IInv, MarksOK, At, Done
  <2>3. m = k /\ m \notin files => MarkOf(m) \in mark[fs[m]]
    BY <1>1, <1>2, <2>1 DEF IInv, KeyOK, MarkOf
  <2> QED
    BY <1>2, <2>1, <2>2, <2>3
<1>11. TreesOK'
  BY <1>2 DEF IInv, TreesOK, At, Done, Exists, Within, kernel
<1>12. KeyOK'
  BY <1>2 DEF KeyOK, NoRequest
<1> QED
  BY <1>5, <1>8, <1>9, <1>10, <1>11, <1>12 DEF IInv, Shape

\* Every step keeps the invariant.
LEMMA Keeps == IInv /\ [Next]_vars => IInv'
<1> SUFFICES ASSUME IInv, [Next]_vars PROVE IInv'
  OBVIOUS
<1>1. ASSUME NEW n \in Name \ Root, Create(n) \/ Replace(n) \/ Delete(n) PROVE IInv'
  BY <1>1, ChangesKeep
<1>2. CASE FromConfig
  BY <1>2, FromConfigKeeps
<1>3. CASE Wait \/ WaitFails
  BY <1>3, BeginsKeeps
<1>4. ASSUME NEW d \in Dir, Watch(d) PROVE IInv'
  BY <1>4, WatchKeeps
<1>5. CASE Watched
  BY <1>5, WatchedKeeps
<1>6. CASE Discover
  BY <1>6, DiscoverKeeps
<1>7. ASSUME NEW n \in File, MarkFile(n) PROVE IInv'
  BY <1>7, MarkFileKeeps
<1>8. CASE MarkedFiles
  BY <1>8, MarkedFilesKeeps
<1>9. ASSUME NEW d \in Dir, MarkTree(d) PROVE IInv'
  BY <1>9, MarkTreeKeeps
<1>10. CASE Refreshed
  BY <1>10, RefreshedKeeps
<1>11. CASE Missing \/ CallFails
  BY <1>11, FailedKeeps
<1>12. CASE ProtectRefused \/ \E k \in Key : ProtectKey(k)
  BY <1>12, RequestKeeps
<1>13. CASE ProtectMark
  BY <1>13, ProtectMarkKeeps
<1>14. CASE ProtectPublish
  BY <1>14, ProtectPublishKeeps
<1>15. CASE UNCHANGED vars
  <2>1. UNCHANGED <<fs, mark, watched, queue, files, trees, index, topo, ipc, unheard>>
    BY <1>15 DEF vars, kernel, engine
  <2>2. FoundFiles' = FoundFiles /\ FoundTrees' = FoundTrees
    BY <2>1 DEF FoundFiles, FoundTrees, Exists
  <2> QED
    BY <2>1, <2>2
    DEF IInv, Shape, Typed, FsOK, Phases, WatchesOK, RegistryOK, IndexOK, MarksOK, TreesOK, KeyOK,
        Exists, At, Done, Discovered, Within
<1> QED
  BY <1>1, <1>2, <1>3, <1>4, <1>5, <1>6, <1>7, <1>8, <1>9, <1>10, <1>11, <1>12, <1>13, <1>14, <1>15
  DEF Next

\* The invariant holds in every state of the daemon, whatever programs do to
\* the file system, whichever calls fail and whoever asks for a key.
THEOREM Invariance == Spec => []IInv
BY Initially, Keeps, PTL DEF Spec

\* It says that everything is covered when the thread is done.
LEMMA Covers == IInv => CoveredWhenSettled
<1> SUFFICES ASSUME IInv, Settled, unheard \subseteq Key, NEW n \in Expected, n \notin unheard
             PROVE  Covered(n)
  BY DEF CoveredWhenSettled
<1>1. ~queue /\ Done /\ Discovered /\ ~At("mark") /\ ~At("trees")
  BY DEF Settled, Done, Discovered, At
<1>2. files \ Key = FoundFiles /\ trees = FoundTrees
  BY <1>1 DEF IInv, RegistryOK
<1>3. CASE n \in files
  <2>1. n \in File /\ n \notin Dir /\ n \in Name
    BY <1>3, Constants DEF IInv, Shape, Typed
  <2>2. Exists(n)
    BY <1>3, <1>2 DEF Expected, FoundFiles
  <2>3. index[fs[n]] = n
    BY <1>1, <1>3, <2>2 DEF IInv, IndexOK
  <2>4. MarkOf(n) \in mark[fs[n]]
    BY <1>1, <1>3, <2>2 DEF IInv, MarksOK
  <2>5. Classified(n) = n
    BY <2>1, <2>3, Constants DEF Classified
  <2> QED
    BY <2>1, <2>4, <2>5, Constants DEF Covered, Intercepted, Judged, MarkOf
<1>4. CASE n \notin files
  <2>1. n \in Dir /\ Exists(n) /\ Within(n, trees)
    BY <1>2, <1>4 DEF Expected, Within
  <2>2. "tree" \in mark[fs[n]]
    BY <1>1, <2>1 DEF IInv, TreesOK
  <2> QED
    BY <2>1, <2>2 DEF Covered
<1> QED
  BY <1>3, <1>4

\* Whatever appears, is replaced or goes while the thread works: once it has
\* nothing left to do, everything that ought to be protected is marked, and
\* stands for itself in the index.
THEOREM SettledMeansCovered == Spec => []CoveredWhenSettled
BY Invariance, Covers, PTL
=============================================================================
