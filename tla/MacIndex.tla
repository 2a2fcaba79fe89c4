------------------------------ MODULE MacIndex --------------------------------
(***************************************************************************)
(* What guard-es knows a file by (crates/platform-macos: resource_index.rs *)
(* and the namespace events of endpoint_security.rs).  A path of a browser *)
(* profile or of a key is classified by its name; a file is also           *)
(* classified by its inode, so that another link to it does not hide it:   *)
(* inodes known when the index was built stay in files, and aliases holds  *)
(* those met since, or found by a scan of the profiles.  Processes rename  *)
(* and link files meanwhile; Endpoint Security asks before each, and the   *)
(* main loop scans again when a protected name was concerned.              *)
(*                                                                         *)
(* Paths are names, classified by the constants.  The configuration stays  *)
(* as it is; ConfigApply replaces it.                                      *)
(***************************************************************************)
EXTENDS Naturals, FiniteSets, FiniteSetsExt

CONSTANTS
  File,             \* names a file can have
  Dir,              \* directories that may be moved
  Contents,         \* the names in each directory
  Elsewhere,        \* the name a file gets when its directory is moved
  SshPath,          \* the configured keys
  ProtectedPath,    \* names a profile's rules classify
  ProfileOf,        \* the profile whose directory holds a name, or None
  Selected,         \* names the target selection hands to the callback
  Process,
  TrustedFor,       \* the profiles of the browser a process is trusted as
  Layout,           \* the inode of each name at first, 0 where there is none
  MaxIno,           \* bound: inode numbers
  AliasCapacity,    \* DEFAULT_ALIAS_CAPACITY
  MaxOps,           \* bound: links, renames, creations and removals
  MaxFaults,        \* bound: messages the kernel drops, scans that fail
  None

VARIABLES
  fs,               \* the inode of each name
  index,            \* MacResourceIndex
  refreshNeeded,    \* MacProtectedResources::refresh_needed
  repair,           \* repair_if_needed on the main loop
  task,             \* what each process is doing
  gap,              \* a message was dropped and the next has not come
  scan,             \* history: built, whole or failed: how the last one ended
  missed,           \* history: inodes renamed or linked after the scan they asked for
  ops, faults

indexVars == <<fs, index, refreshNeeded, repair, task, gap, scan, missed, ops, faults>>

Name == File \union Dir
Ino == 1..MaxIno
Ssh == "ssh"
Secret == SshPath \union {n \in ProtectedPath : ProfileOf[n] # None}

\* Only files are classified by their names.  What is moved leaves what is
\* protected; and a directory that holds something protected is selected, as
\* the names themselves are (target_selection_plan).  The directories above
\* these are not in Dir.
ASSUME IndexAssumption ==
  /\ File \intersect Dir = {} /\ IsFiniteSet(File) /\ None # Ssh
  /\ SshPath \union ProtectedPath \subseteq File
  /\ Contents \in [Dir -> SUBSET File]
  /\ \A d \in Dir : \A n \in Contents[d] : Elsewhere[n] \notin Secret
  /\ Secret \union {d \in Dir : Contents[d] \intersect Secret # {}} \subseteq Selected
  /\ Layout \in [File -> 0..MaxIno]
  /\ {MaxIno, AliasCapacity, MaxOps, MaxFaults} \subseteq Nat

-----------------------------------------------------------------------------
\* The file system

Names(i) == {n \in File : fs[n] = i}
Exists(n) == n \notin Dir => fs[n] # 0
FreeIno == {i \in Ino : Names(i) = {}}

\* rename(2) and link(2), and the move of a whole directory out of its place.
Renamed(from, to) ==
  IF from \in Dir
    THEN [n \in File |->
           IF n \in Contents[from] THEN 0
           ELSE IF \E m \in Contents[from] : Elsewhere[m] = n
             THEN fs[CHOOSE m \in Contents[from] : Elsewhere[m] = n] ELSE fs[n]]
    ELSE [fs EXCEPT ![to] = fs[from], ![from] = 0]

Done(t) == IF t.op = "link" THEN [fs EXCEPT ![t.to] = fs[t.from]] ELSE Renamed(t.from, t.to)

-----------------------------------------------------------------------------
\* MacResourceIndex

\* classify_path, MacProfileScope::classify
PathResource(n) ==
  IF n \in SshPath THEN Ssh ELSE IF n \in ProtectedPath THEN ProfileOf[n] ELSE None

\* MacResourceIndex::concrete
Concrete(idx, i) == IF idx.files[i] # None THEN idx.files[i] ELSE idx.aliases[i]

\* MacResourceIndex::classify; i is 0 where there is no file.
Classify(n, i) ==
  IF i # 0 /\ Concrete(index, i) # None THEN Concrete(index, i) ELSE PathResource(n)

\* namespace_scope
Scope(n) == ProfileOf[n]

\* contains_protected_path
Contains(n) == n \in Dir /\ \E m \in Contents[n] : PathResource(m) # None

AliasCount(idx) == Cardinality({i \in Ino : idx.aliases[i] # None})

\* observe_alias
ObserveAlias(idx, i, resource) ==
  IF Concrete(idx, i) # None THEN idx
  ELSE IF AliasCount(idx) >= AliasCapacity THEN [idx EXCEPT !.saturated = TRUE]
  ELSE [idx EXCEPT !.aliases[i] = resource]

\* namespace_scan_roots: the profiles, and the directories of the keys.
ScanRoots == {n \in File : ProfileOf[n] # None \/ n \in SshPath}

NoAliases == [i \in Ino |-> None]

\* from_enrollments; the keys are enrolled after the scan, which so does not
\* count their links.
FromEnrollments ==
  [files |-> [i \in Ino |->
     LET known == {n \in File : Layout[n] = i /\ PathResource(n) # None} IN
       IF known = {} THEN None ELSE PathResource(CHOOSE n \in known : TRUE)],
   aliases |-> NoAliases,
   saturated |-> FALSE,
   unresolved |-> Cardinality({i \in Ino :
     /\ \E n \in File : Layout[n] = i /\ PathResource(n) \notin {None, Ssh}
     /\ \E n \in File : Layout[n] = i /\ PathResource(n) = None})]

-----------------------------------------------------------------------------
\* Authorization of a rename or a link

\* namespace_view
View(n) == Classify(n, IF n \in Dir THEN 0 ELSE fs[n])

\* namespace_requires_authorization
RequiresAuthorization(t) ==
  View(t.from) # None \/ View(t.to) # None \/ Contains(t.from)

\* What is under the destination is, or would be, the profile's.
InScope(n, profile) == IF View(n) # None THEN View(n) = profile ELSE Scope(n) = profile

\* authorize_namespace: a browser may replace and rename files within the
\* profile of its own they belong to.  Everything else that touches what is
\* protected is refused, and so is the move of a directory around it.
Authorized(p, t) ==
  \/ ~RequiresAuthorization(t)
  \/ /\ ~(View(t.from) = None /\ Contains(t.from))
     /\ LET resource == IF View(t.from) # None THEN View(t.from) ELSE View(t.to) IN
          /\ resource \in TrustedFor[p]
          /\ InScope(t.from, resource) /\ InScope(t.to, resource)

-----------------------------------------------------------------------------
\* Processes

Free == [op |-> "none"]

\* Links and renames a process may ask for; a directory's move has one name,
\* and no file takes the place of a directory.
Asked(op, from, to) ==
  /\ IF op = "move" THEN from \in Dir /\ to = from ELSE {from, to} \subseteq File /\ to # from
  /\ Exists(from)
  /\ op = "link" => ~Exists(to)

Delivered(t) == t.from \in Selected \/ t.to \in Selected

\* A message: the one after a dropped one shows the gap, which asks for a scan
\* (observe_sequence, SequenceTracker).
Delivery(more) == gap' = FALSE /\ refreshNeeded' = (refreshNeeded \/ gap \/ more)

\* handle_namespace.  What is allowed is done by the kernel later; the scan is
\* asked for at once.
HandleNamespace(p, op, from, to) ==
  LET t == [op |-> op, from |-> from, to |-> to, served |-> FALSE,
            source |-> IF from \in Dir THEN 0 ELSE fs[from]] IN
    /\ task[p] = Free /\ ops < MaxOps
    /\ Asked(op, from, to) /\ Delivered(t)
    /\ ops' = ops + 1
    /\ IF Authorized(p, t)
         THEN /\ Delivery(View(from) # None \/ View(to) # None)
              /\ task' = [task EXCEPT ![p] = t]
         ELSE Delivery(FALSE) /\ UNCHANGED task
    /\ UNCHANGED <<fs, index, repair, scan, missed, faults>>

\* The kernel does what it asked about, unless the names have changed.
Happens(p) ==
  LET t == task[p] IN
    /\ t.op \in {"rename", "link", "move"}
    /\ task' = [task EXCEPT ![p] = Free]
    /\ IF Asked(t.op, t.from, t.to) /\ (t.op # "move" => fs[t.from] = t.source)
         THEN /\ fs' = Done(t)
              /\ missed' = IF t.served THEN missed \union {t.source} ELSE missed
         ELSE UNCHANGED <<fs, missed>>
    /\ UNCHANGED <<index, refreshNeeded, repair, gap, scan, ops, faults>>

\* Names that are not selected are not asked about, and a message may be lost.
Unseen(op, from, to) ==
  LET t == [op |-> op, from |-> from, to |-> to] IN
    /\ ops < MaxOps /\ Asked(op, from, to)
    /\ \/ ~Delivered(t) /\ UNCHANGED <<gap, faults>>
       \/ Delivered(t) /\ faults < MaxFaults /\ gap' = TRUE /\ faults' = faults + 1
    /\ ops' = ops + 1
    /\ fs' = Done(t)
    /\ UNCHANGED <<index, refreshNeeded, repair, task, scan, missed>>

\* Nobody is asked about these.
Create(n) ==
  /\ ops < MaxOps /\ ~Exists(n) /\ FreeIno # {}
  /\ ops' = ops + 1
  /\ fs' = [fs EXCEPT ![n] = Min(FreeIno)]
  /\ UNCHANGED <<index, refreshNeeded, repair, task, gap, scan, missed, faults>>

Unlink(n) ==
  /\ ops < MaxOps /\ Exists(n)
  /\ ops' = ops + 1
  /\ fs' = [fs EXCEPT ![n] = 0]
  /\ UNCHANGED <<index, refreshNeeded, repair, task, gap, scan, missed, faults>>

\* MacProtectedResources::classify reads under one lock and adds an alias under
\* another.
Open(p, n) ==
  /\ task[p] = Free /\ n \in Selected /\ Exists(n)
  /\ View(n) # None /\ Concrete(index, fs[n]) = None
  /\ Delivery(FALSE)
  /\ task' = [task EXCEPT ![p] = [op |-> "observe", source |-> fs[n], resource |-> View(n)]]
  /\ UNCHANGED <<fs, index, repair, scan, missed, ops, faults>>

Observe(p) ==
  /\ task[p].op = "observe"
  /\ index' = ObserveAlias(index, task[p].source, task[p].resource)
  /\ task' = [task EXCEPT ![p] = Free]
  /\ UNCHANGED <<fs, refreshNeeded, repair, gap, scan, missed, ops, faults>>

-----------------------------------------------------------------------------
\* The main loop's repair

NoRepair == [pc |-> "idle"]

\* repair_if_needed: the flag is cleared, and a copy of the index is scanned
\* for while callbacks use the old one.
RepairStarts ==
  /\ repair.pc = "idle" /\ refreshNeeded
  /\ refreshNeeded' = FALSE
  /\ repair' = [pc |-> "scan", todo |-> ScanRoots,
       copy |-> [index EXCEPT !.aliases = NoAliases, !.saturated = FALSE, !.unresolved = 0],
       links |-> [i \in Ino |-> 0], nlink |-> [i \in Ino |-> 0]]
  /\ missed' = {}
  /\ task' = [p \in Process |->
       IF task[p].op \in {"rename", "link", "move"} THEN [task[p] EXCEPT !.served = TRUE] ELSE task[p]]
  /\ UNCHANGED <<fs, index, gap, scan, ops, faults>>

\* refresh_aliases meets one name.
Scan(n) ==
  /\ repair.pc = "scan" /\ n \in repair.todo
  /\ LET i == fs[n]
         found == ObserveAlias(repair.copy, i, PathResource(n)) IN
       repair' =
         IF i = 0 \/ PathResource(n) = None THEN [repair EXCEPT !.todo = @ \ {n}]
         ELSE [repair EXCEPT
           !.copy = found,
           !.todo = IF found.saturated THEN {} ELSE @ \ {n},
           !.links[i] = @ + 1,
           !.nlink[i] = IF @ = 0 THEN Cardinality(Names(i)) ELSE @]
  /\ UNCHANGED <<fs, index, refreshNeeded, task, gap, scan, missed, ops, faults>>

\* Inodes with more links than the scan met.
Unresolved ==
  IF repair.copy.saturated THEN 0
  ELSE Cardinality({i \in Ino : Concrete(repair.copy, i) # None /\ repair.links[i] < repair.nlink[i]})

\* Mutant: the flag is cleared when the scan is over.
RepairEndsClears ==
  /\ repair.pc = "scan" /\ repair.todo = {}
  /\ index' = [repair.copy EXCEPT !.unresolved = Unresolved]
  /\ repair' = NoRepair
  /\ scan' = "whole" /\ refreshNeeded' = FALSE
  /\ UNCHANGED <<fs, task, gap, missed, ops, faults>>

RepairEnds ==
  /\ repair.pc = "scan" /\ repair.todo = {}
  /\ index' = [repair.copy EXCEPT !.unresolved = Unresolved]
  /\ repair' = NoRepair
  /\ scan' = "whole"
  /\ UNCHANGED <<fs, refreshNeeded, task, gap, missed, ops, faults>>

\* A directory cannot be read; the error is printed.
RepairFails ==
  /\ repair.pc = "scan" /\ faults < MaxFaults
  /\ faults' = faults + 1
  /\ repair' = NoRepair
  /\ scan' = "failed"
  /\ UNCHANGED <<fs, index, refreshNeeded, task, gap, missed, ops>>

-----------------------------------------------------------------------------
IndexInit ==
  /\ fs = Layout
  /\ index = FromEnrollments
  /\ refreshNeeded = FALSE /\ repair = NoRepair /\ scan = "built"
  /\ task = [p \in Process |-> Free]
  /\ gap = FALSE /\ missed = {}
  /\ ops = 0 /\ faults = 0

Operation == {"rename", "link", "move"}

IndexNext ==
  \/ \E p \in Process :
       \/ \E op \in Operation, from, to \in Name : HandleNamespace(p, op, from, to)
       \/ Happens(p)
       \/ \E n \in File : Open(p, n)
       \/ Observe(p)
  \/ \E op \in Operation, from, to \in Name : Unseen(op, from, to)
  \/ \E n \in File : Create(n) \/ Unlink(n)
  \/ RepairStarts
  \/ \E n \in File : Scan(n)
  \/ RepairEnds
  \/ RepairFails

IndexSpec == IndexInit /\ [][IndexNext]_indexVars

-----------------------------------------------------------------------------
\* Inodes with a protected name.
Exposed == {i \in Ino : \E n \in Names(i) : PathResource(n) # None}

\* Nothing is left to be done that the code knows of.
Settled ==
  /\ ~refreshNeeded /\ repair = NoRepair /\ ~gap
  /\ scan # "failed" /\ ~index.saturated

\* Once the main loop has nothing left to repair, a file with a protected name
\* is recognised under every other name Endpoint Security reports, and if it
\* has a name outside the profiles the backend says so (refresh_aliases,
\* unresolved_external_hardlinks), whatever was renamed, linked, dropped or
\* opened while it scanned.  What was renamed after the scan it had asked for
\* is left out, and so are the links of a key until the first scan.
IndexIsTrueWhenSettled ==
  Settled => \A i \in Exposed \ missed :
    /\ \A n \in Names(i) \intersect Selected : Classify(n, i) # None
    /\ (scan = "whole" /\ index.unresolved = 0) => \A n \in Names(i) : PathResource(n) # None
=============================================================================
