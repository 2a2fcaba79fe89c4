----------------------------- MODULE Enrollment ------------------------------
(***************************************************************************)
(* What guardd protects on Linux, and how it keeps up with a file system   *)
(* that changes under it (apps/guardd: enforce.rs, main.rs, ipc.rs;        *)
(* crates/platform-linux: topology.rs, fanotify.rs; crates/guard-browser,  *)
(* crates/guard-ssh).                                                      *)
(*                                                                         *)
(* The kernel reports opens of inodes that carry a fanotify mark, and of   *)
(* the children of marked directories.  Marks and inotify watches belong   *)
(* to inodes, not to names: a file that is replaced, or a directory that   *)
(* appears, has none.  The topology thread is told of changes in watched   *)
(* directories, watches and discovers everything again, and marks it.  The *)
(* IPC thread marks and publishes single keys meanwhile.                   *)
(***************************************************************************)
EXTENDS Naturals, FiniteSets, FiniteSetsExt

CONSTANTS
  File, Dir,        \* the names that may exist
  Root,             \* the directories that always do
  WatchRoot,        \* profile roots, and the directories of configured keys
  Parent,           \* the directory of a name
  Marker,           \* the cookie store, which makes its directory a profile
  Critical,         \* the files of a profile that are protected by name
  TreeDir,          \* its website storage, protected with all below it
  Key,              \* the SSH keys
  Configured,       \* the keys in the configuration; others come by request
  Layout,           \* the inodes when the daemon starts, 0 where nothing is
  None,
  MaxIno,           \* bound: inode numbers
  MaxChanges,       \* bound: changes of the file system
  MaxFaults,        \* bound: system calls that fail for no visible reason
  MaxProtects       \* bound: requests to protect a key

Name == File \union Dir
Ino == 1..MaxIno
Mask == {"open", "tree", "access"}

ASSUME EnrollmentAssumption ==
  /\ WatchRoot \subseteq Root /\ Root \subseteq Dir
  /\ Configured \subseteq Key /\ Key \subseteq File
  /\ Critical \subseteq File \ Key /\ Marker \in Critical /\ TreeDir \in Dir \ Root
  /\ Parent \in [Name \ Root -> Dir]
  /\ Layout \in [Name -> 0..MaxIno] /\ None \notin Name
  /\ \A n \in Root : Layout[n] # 0
  /\ IsFiniteSet(Name) /\ Cardinality(Name) < MaxIno
  /\ {MaxIno, MaxChanges, MaxFaults, MaxProtects} \subseteq Nat

\* The names form a forest below the roots: whoever climbs leaves any set of
\* names that has no root in it.  What exists at first has a directory that
\* does, and an inode of its own: hard links are not modelled here.
ASSUME TreeAssumption ==
  /\ File \intersect Dir = {}
  /\ \A S \in SUBSET (Name \ Root) : S # {} => \E n \in S : Parent[n] \notin S
  /\ \A n \in Name \ Root : Layout[n] # 0 => Layout[Parent[n]] # 0
  /\ \A m, n \in Name : Layout[m] = Layout[n] /\ Layout[m] # 0 => m = n

VARIABLES
  fs,               \* the inode of each name that exists, else 0
  mark,             \* the fanotify masks of each inode
  watched,          \* the inodes with an inotify watch
  queue,            \* inotify has events
  files, trees,     \* the registry: concrete resources, and trees
  index,            \* fd_index: the resource an inode number stands for
  topo,             \* start-up until the marks are set, then the topology thread
  degraded,         \* topology_degraded
  ipc,              \* the request to protect a key
  unheard,          \* history: what changed since the last discovery and
                    \* nobody will be told of, see Unheard
  changes, faults, protects

kernel == <<mark, watched, queue>>
engine == <<files, trees, index>>
counters == <<changes, faults, protects>>
vars == <<fs, kernel, engine, topo, degraded, ipc, unheard, counters>>

Exists(n) == fs[n] # 0

\* The name n is d, or lies below it.
Below(n, d) == LET below[m \in Name] == m = d \/ (m \notin Root /\ below[Parent[m]]) IN below[n]

Subdirs(d) == {n \in Dir \ Root : Parent[n] = d /\ Exists(n)}

\* A system call fails although its arguments are right.
Fault == faults < MaxFaults /\ faults' = faults + 1

NoRequest == [pc |-> "idle", key |-> None]

Init ==
  /\ fs = Layout
  /\ mark = [i \in Ino |-> {}] /\ watched = {} /\ queue = FALSE
  /\ files = {} /\ trees = {} /\ index = [i \in Ino |-> None]
  /\ topo = [pc |-> "config", todo |-> {}, dirty |-> FALSE, started |-> FALSE]
  /\ degraded = FALSE
  /\ ipc = NoRequest
  /\ unheard = {}
  /\ changes = 0 /\ faults = 0 /\ protects = 0

-----------------------------------------------------------------------------
(***************************************************************************)
(* Discovery: a directory with a cookie store is a profile, and names in   *)
(* it are protected.                                                       *)
(***************************************************************************)
FoundFiles == IF Exists(Marker) THEN {n \in Critical : Exists(n)} ELSE {}
FoundTrees == IF Exists(Marker) /\ Exists(TreeDir) THEN {TreeDir} ELSE {}

\* The resource an inode number stands for, once the names are in the index:
\* entries are added or overwritten, never removed.
Indexed(names) ==
  [i \in Ino |-> IF \E n \in names : fs[n] = i
                 THEN CHOOSE n \in names : fs[n] = i ELSE index[i]]

-----------------------------------------------------------------------------
(***************************************************************************)
(* What becomes of an open or a read of an existing file.                  *)
(***************************************************************************)
Intercepted(n) ==
  \/ "open" \in mark[fs[n]] \/ "access" \in mark[fs[n]]
  \/ "tree" \in mark[fs[Parent[n]]]

\* classify_fd: by inode number, then by path.
Classified(n) ==
  IF index[fs[n]] # None THEN index[fs[n]]
  ELSE IF n \in files THEN n
  ELSE IF \E d \in trees : Below(n, d) THEN CHOOSE d \in trees : Below(n, d)
  ELSE None

\* decide_event: what is not classified is denied, and an SSH key that is only
\* opened is let through; the rest goes to the policy of its resource.
Judged(n) ==
  IF Classified(n) = None THEN "denied"
  ELSE IF Classified(n) \in Key /\ "access" \notin mark[fs[n]] THEN "through"
  ELSE "policy"

-----------------------------------------------------------------------------
(***************************************************************************)
(* Programs change the file system.  A new inode has the lowest free       *)
(* number; a freed one loses its marks and watches.                        *)
(***************************************************************************)
FreeIno == Min({i \in Ino : \A n \in Name : fs[n] # i})

\* Nobody will be told of the change: it comes between discovery and the first
\* watch, or where no watch ever is, or to a key that is marked and whose
\* resource the thread does not know yet.
Unheard(n) ==
  \/ fs[Parent[n]] \notin watched /\ ~topo.started /\ topo.pc # "config"
  \/ \A d \in WatchRoot : ~Below(n, d)
  \/ ipc = [pc |-> "marked", key |-> n]

\* A watch on the directory, or on what goes, has an event to tell.
Changed(n, i) ==
  /\ changes < MaxChanges
  /\ changes' = changes + 1
  /\ fs' = [fs EXCEPT ![n] = i]
  /\ mark' = [j \in Ino |-> IF j \in {fs[n], i} THEN {} ELSE mark[j]]
  /\ watched' = watched \ {fs[n]}
  /\ queue' = (queue \/ fs[Parent[n]] \in watched \/ fs[n] \in watched)
  /\ unheard' = IF Unheard(n) THEN unheard \union {n} ELSE unheard
  /\ UNCHANGED <<engine, topo, degraded, ipc, faults, protects>>

Create(n) == ~Exists(n) /\ Exists(Parent[n]) /\ Changed(n, FreeIno)
Replace(n) == n \in File /\ Exists(n) /\ Changed(n, FreeIno)
Delete(n) ==
  /\ Exists(n)
  /\ \A m \in Name \ Root : Exists(m) => Parent[m] # n
  /\ Changed(n, 0)

-----------------------------------------------------------------------------
(***************************************************************************)
(* run_browser_enforcement up to ACTIVE, then the topology thread: both    *)
(* watch, and mark what the registry holds.                                *)
(***************************************************************************)
At(pc) == topo.pc = pc
Goto(pc, todo) == topo' = [topo EXCEPT !.pc = pc, !.todo = todo]

\* An error ends the start-up; later it leaves the daemon degraded, and the
\* thread tries again.
\* Mutant: the thread does not try again.
FailedOnce ==
  IF topo.started
  THEN /\ topo' = [topo EXCEPT !.pc = "wait", !.todo = {}, !.dirty = FALSE]
       /\ degraded' = TRUE
  ELSE Goto("aborted", {}) /\ UNCHANGED degraded

Failed ==
  IF topo.started
  THEN Goto("wait", {}) /\ degraded' = TRUE
  ELSE Goto("aborted", {}) /\ UNCHANGED degraded

\* EnforcementEngine::from_config; missing keys are skipped.
FromConfig ==
  /\ At("config")
  /\ files' = FoundFiles \union {k \in Configured : Exists(k)}
  /\ trees' = FoundTrees
  /\ index' = Indexed(files')
  /\ Goto("watch", WatchRoot)
  /\ UNCHANGED <<fs, kernel, degraded, ipc, unheard, counters>>

\* wait_for_change drains the queue; what was left undone is tried again.
Wait ==
  /\ At("wait")
  /\ queue \/ topo.dirty
  /\ queue' = FALSE
  /\ topo' = [topo EXCEPT !.pc = "watch", !.todo = WatchRoot, !.dirty = TRUE]
  /\ UNCHANGED <<fs, mark, watched, engine, degraded, ipc, unheard, counters>>

WaitFails ==
  /\ At("wait")
  /\ Fault
  /\ degraded' = TRUE
  /\ topo' = [topo EXCEPT !.pc = "watch", !.todo = WatchRoot, !.dirty = TRUE]
  /\ UNCHANGED <<fs, kernel, engine, ipc, unheard, changes, protects>>

\* add_recursive: a directory is watched, and then listed.
Watch(d) ==
  /\ At("watch") /\ d \in topo.todo
  /\ Exists(d)
  /\ watched' = watched \union {fs[d]}
  /\ Goto("watch", (topo.todo \ {d}) \union Subdirs(d))
  /\ UNCHANGED <<fs, mark, queue, engine, degraded, ipc, unheard, counters>>

Watched ==
  /\ At("watch") /\ topo.todo = {}
  /\ IF topo.started THEN Goto("discover", {}) ELSE Goto("mark", files)
  /\ UNCHANGED <<fs, kernel, engine, degraded, ipc, unheard, counters>>

\* refresh_browser_resources holds the engine lock from here to the last mark.
Discover ==
  /\ At("discover")
  /\ files' = FoundFiles \union (files \intersect Key)
  /\ trees' = FoundTrees
  /\ index' = Indexed(files')
  /\ unheard' = unheard \intersect (Key \ files')
  /\ Goto("mark", files')
  /\ UNCHANGED <<fs, kernel, degraded, ipc, counters>>

Marked(n, mask) == mark' = [mark EXCEPT ![fs[n]] = @ \union {mask}]

\* mark_files, in any order; a name is resolved when it is marked.
MarkFile(n) ==
  /\ At("mark") /\ n \in topo.todo
  /\ Exists(n)
  /\ Marked(n, IF n \in Key THEN "access" ELSE "open")
  /\ Goto("mark", topo.todo \ {n})
  /\ UNCHANGED <<fs, watched, queue, engine, degraded, ipc, unheard, counters>>

MarkedFiles ==
  /\ At("mark") /\ topo.todo = {}
  /\ Goto("trees", trees)
  /\ UNCHANGED <<fs, kernel, engine, degraded, ipc, unheard, counters>>

\* mark_dir_recursive.
MarkTree(d) ==
  /\ At("trees") /\ d \in topo.todo
  /\ Exists(d)
  /\ Marked(d, "tree")
  /\ Goto("trees", (topo.todo \ {d}) \union Subdirs(d))
  /\ UNCHANGED <<fs, watched, queue, engine, degraded, ipc, unheard, counters>>

\* Everything is marked.
\* Mutant: the thread believes there is always more to do.
RefreshedDirty ==
  /\ At("trees") /\ topo.todo = {}
  /\ topo' = [topo EXCEPT !.pc = "wait", !.started = TRUE]
  /\ degraded' = FALSE
  /\ UNCHANGED <<fs, kernel, engine, ipc, unheard, counters>>

Refreshed ==
  /\ At("trees") /\ topo.todo = {}
  /\ topo' = [topo EXCEPT !.pc = "wait", !.dirty = FALSE, !.started = TRUE]
  /\ degraded' = FALSE
  /\ UNCHANGED <<fs, kernel, engine, ipc, unheard, counters>>

\* A name is gone before it is watched or marked.
Missing ==
  /\ topo.pc \in {"watch", "mark", "trees"}
  /\ \E n \in topo.todo : ~Exists(n)
  /\ Failed
  /\ UNCHANGED <<fs, kernel, engine, ipc, unheard, counters>>

CallFails ==
  /\ \/ topo.pc \in {"watch", "mark", "trees"} /\ topo.todo # {}
     \/ At("discover")
  /\ Fault
  /\ Failed
  /\ UNCHANGED <<fs, kernel, engine, ipc, unheard, changes, protects>>

-----------------------------------------------------------------------------
(***************************************************************************)
(* handle_ssh_protect: the key is looked at, its owner authenticates, then *)
(* it is marked, and then published under the engine lock.                 *)
(***************************************************************************)
EngineLocked == topo.started /\ topo.pc \in {"mark", "trees"}

ProtectKey(k) ==
  /\ topo.started /\ ipc.pc = "idle"
  /\ protects < MaxProtects
  /\ protects' = protects + 1
  /\ Exists(k)
  /\ ipc' = [pc |-> "authenticating", key |-> k]
  /\ UNCHANGED <<fs, kernel, engine, topo, degraded, unheard, changes, faults>>

\* The user refuses, or the key is gone.
ProtectRefused ==
  /\ ipc.pc = "authenticating"
  /\ ipc' = NoRequest
  /\ UNCHANGED <<fs, kernel, engine, topo, degraded, unheard, counters>>

ProtectMark ==
  /\ ipc.pc = "authenticating"
  /\ Exists(ipc.key)
  /\ Marked(ipc.key, "access")
  /\ ipc' = [ipc EXCEPT !.pc = "marked"]
  /\ UNCHANGED <<fs, watched, queue, engine, topo, degraded, unheard, counters>>

ProtectPublish ==
  /\ ipc.pc = "marked"
  /\ ~EngineLocked
  /\ index' = Indexed({ipc.key})
  /\ files' = files \union {ipc.key}
  /\ ipc' = NoRequest
  /\ UNCHANGED <<fs, kernel, trees, topo, degraded, unheard, counters>>

-----------------------------------------------------------------------------
Topology ==
  \/ FromConfig \/ Wait \/ Watched \/ Discover \/ MarkedFiles \/ Refreshed \/ Missing
  \/ \E d \in Dir : Watch(d) \/ MarkTree(d)
  \/ \E n \in File : MarkFile(n)

Next ==
  \/ \E n \in Name \ Root : Create(n) \/ Replace(n) \/ Delete(n)
  \/ FromConfig \/ Wait \/ Watched \/ Discover \/ MarkedFiles \/ Refreshed \/ Missing
  \/ \E d \in Dir : Watch(d) \/ MarkTree(d)
  \/ \E n \in File : MarkFile(n)
  \/ WaitFails \/ CallFails
  \/ \E k \in Key : ProtectKey(k)
  \/ ProtectRefused \/ ProtectMark \/ ProtectPublish

(***************************************************************************)
(* The topology thread polls every 250 ms and never waits for the engine   *)
(* lock for ever.                                                          *)
(***************************************************************************)
Spec == Init /\ [][Next]_vars
LiveSpec == Spec /\ WF_vars(Topology)

-----------------------------------------------------------------------------
Settled == At("wait") /\ ~topo.dirty /\ ~queue

\* What ought to be protected now.
Expected ==
  FoundFiles \union {k \in files \intersect Key : Exists(k)}
  \union {d \in Dir : Exists(d) /\ \E t \in FoundTrees : Below(d, t)}

\* The opens of a file reach the policy of that file, and the opens of what a
\* directory holds are reported.
Covered(n) ==
  IF n \in Dir THEN "tree" \in mark[fs[n]]
  ELSE Intercepted(n) /\ Judged(n) = "policy" /\ Classified(n) = n

\* Once the thread has nothing left to do, every critical file, every directory
\* of a protected tree and every published key is marked, and stands for itself
\* in the index, whatever appeared, was replaced or went while it worked.  What
\* it could not be told of is left out, see Unheard.
CoveredWhenSettled ==
  Settled /\ unheard \subseteq Key => \A n \in Expected \ unheard : Covered(n)

\* When the file system comes to rest, the thread gets done, unless a key it
\* has to mark is gone.
RefreshSettles ==
  <>[](~At("aborted") /\ \A k \in files \intersect Key : Exists(k)) => <>[]Settled
=============================================================================
