------------------------ MODULE AdministrationProofs --------------------------
(***************************************************************************)
(* What administering the system does and reports, for any values of the   *)
(* constants. Three protocols, at the end, have an invariant each: the     *)
(* lifecycle of the macOS extension (BundleTells), the jobs of the Linux   *)
(* service (JobsTell), the policy page (PageTells).                        *)
(*                                                                         *)
(* What a request to the macOS extension does, for any paths, requests,    *)
(* threads, faults and starting configurations: the selection covers the   *)
(* policy, a request takes effect as a whole or not at all, a power loss   *)
(* finds what was acknowledged, and an acceptance run leaves nothing of    *)
(* its fixture.                                                            *)
(*                                                                         *)
(* Every thread reads the policy, publishes, asks for selections and       *)
(* writes without a lock, so each fact is about one request from its start *)
(* to its end, and holds as long as what the code does not make good did   *)
(* not happen (Spared).  Applied says, for each place of a request,        *)
(*   Published  which parts of its configuration are in force,             *)
(*   Before     that what is remembered as old is what was in force,       *)
(*   OnDisk     ... and in the file,                                       *)
(*   Saved      what a power loss may leave,                               *)
(*   Covers     that the selection is wide enough for both policies while  *)
(*              one replaces the other, and that at most one update is on  *)
(*              its way, for the plan that the waiting thread means.       *)
(* TestClean follows the fixture: before the run nothing holds it; while   *)
(* the run stages it, only the thread that serves the run does.            *)
(***************************************************************************)
EXTENDS Administration, TLAPS

-----------------------------------------------------------------------------
\* The values a configuration's variable takes.
Loadable == {NoConfig} \union Config

\* Where a request can be.
Places == {"idle", "start", "plan", "expanding", "publish", "published", "shrinking", "write", "sync",
           "restore", "failed", "reexpanding", "rollback", "rolledback", "reshrinking"}

\* A request that is served, or none.
Phase(x) ==
  /\ x \in [pc : Places, config : Loadable, old : Loadable, oldPlan : {x.oldPlan},
            answer : {"none", "ok", "error"}, publish : Loadable, stage : {"trust", "index", "config"}]
  /\ x.pc # "idle" => x.config \in Config
  /\ x.pc \notin {"publish", "restore", "rollback"} => x.stage = "trust"

\* The shape of the state.
Well ==
  /\ DOMAIN applier = Applier /\ \A a \in Applier : Phase(applier[a])
  /\ policy \in [config : Loadable, trust : {policy.trust}, index : {policy.index}]
  /\ selection \in [native : {selection.native}, active : {selection.active}]
  /\ disk \in [file : Loadable, durable : SUBSET Loadable]

\* Without overlap one request is served at a time.
Single == Spared({"overlap"}) => \A a, b \in Applier : At(a, "idle") \/ At(b, "idle") \/ a = b

\* What a configuration's publication has reached.
PublishedBy(a) == LET x == applier[a] IN
  /\ InPublish(a) /\ x.stage # "trust" => policy.trust = x.publish
  /\ InPublish(a) /\ x.stage = "config" => policy.index = Rules(x.publish)
  /\ At(a, "publish") => x.publish = x.config
  /\ x.pc \in {"restore", "rollback"} /\ x.stage # "config" => policy.index = Rules(x.config)
  /\ x.pc \in {"published", "shrinking", "write", "sync", "reexpanding"} => policy = Loaded(x.config)
  /\ At(a, "sync") => disk.file = x.config

\* ... as long as no other request came in between and no index was put back.
Published == Spared({"overlap", "repair"}) => \A a \in Applier : PublishedBy(a)

\* The policy that was in force, before it is replaced and after it is put back.
KeptBy(a) == LET x == applier[a] IN
  /\ At(a, "start") => policy = Loaded(policy.config)
  /\ x.pc \in {"plan", "expanding"} \/ (At(a, "publish") /\ x.stage = "trust") => policy = Loaded(x.old)
  /\ At(a, "publish") /\ x.stage = "index" => policy.index = Rules(x.old)
  /\ x.pc \notin {"idle", "start", "plan"} => x.oldPlan = Rules(x.old)
  /\ x.pc \in {"restore", "rollback"} => x.publish = x.old /\ x.old # NoConfig
  /\ x.pc \in {"failed", "rolledback", "reshrinking"} => policy = Loaded(x.old)

\* No request is served.
Resting == \A a \in Applier : At(a, "idle")

\* ... as long as restoring calls succeed, too.
Before == Spared({"overlap", "repair", "unrestored"}) =>
  /\ Resting => policy = Loaded(policy.config)
  /\ \A a \in Applier : KeptBy(a)

\* ... and the file.
OnDiskBy(a) == LET x == applier[a] IN
  /\ At(a, "start") => disk.file = policy.config
  /\ x.pc \notin {"idle", "start", "sync"} => disk.file = x.old

\* ... as long as the directory was synced, and there was something to go back to.
OnDisk == Spared({"overlap", "repair", "unrestored", "unsynced", "kept"}) =>
  /\ Resting => disk.file = policy.config
  /\ \A a \in Applier : OnDiskBy(a)

\* What a power loss may leave.
Saved == Spared({"overlap", "unsynced"}) =>
  /\ disk.durable \subseteq {acknowledged} \union {applier[a].config : a \in {b \in Applier : At(b, "sync")}}
  /\ \A a \in Applier : At(a, "sync") => disk.file = applier[a].config

\* What keeps the kernel from handing over what the policy protects.
Lapses == {"overlap", "late", "partway", "narrow", "unrestored", "repair"}

\* A thread waits for an answer to the update it asked for, and this is the plan.
Asking(a) == Waiting(a) /\ applier[a].answer = "none"

\* The plan that is on its way, by where the thread is.
PlanOf(x) ==
  CASE x.pc \in {"expanding", "reexpanding"} -> x.oldPlan \union x.config
    [] x.pc = "shrinking" -> x.config
    [] x.pc = "reshrinking" -> x.oldPlan

\* The selection is wide enough for both policies while one replaces the other.
CoveredBy(a) == LET x == applier[a] IN
  /\ x.pc \in {"start", "plan"} => x.answer = "none"
  /\ \/ x.pc \in {"publish", "published", "restore", "failed", "rollback", "rolledback"}
     \/ x.pc \in {"expanding", "reexpanding"} /\ x.answer = "ok"
     \/ x.pc = "shrinking" /\ x.answer # "ok"
     => x.oldPlan \union x.config \subseteq selection.native

\* What is believed selected is; it covers the policy.
Covers == Spared(Lapses) =>
  /\ selection.native = selection.active
  /\ policy.index \subseteq selection.native
  /\ \/ requests = <<>>
     \/ \E a \in Applier : Asking(a) /\ requests = <<[by |-> a, plan |-> PlanOf(applier[a])]>>
  /\ \A a \in Applier : CoveredBy(a)

\* The invariant of the service.
Applied == Well /\ Single /\ Published /\ Before /\ OnDisk /\ Saved /\ Covers

-----------------------------------------------------------------------------
\* What has to be shown of a step of one thread
LEMMA ThreadAlone ==
  ASSUME Well, Single, NEW a \in Applier, ~At(a, "idle"), DOMAIN applier' = Applier,
         \A b \in Applier \ {a} : applier'[b] = applier[b], mishaps \subseteq mishaps'
  PROVE  /\ Single'
         /\ Spared({"overlap"})' => \A b \in Applier \ {a} : At(b, "idle") /\ At(b, "idle")'
         /\ \A kinds : Spared(kinds)' => Spared(kinds)
BY DEF Single, Spared, At

\* The shape is kept.
LEMMA WellMoves ==
  ASSUME Well, NEW a \in Applier, DOMAIN applier' = Applier, Phase(applier'[a]),
         \A b \in Applier \ {a} : applier'[b] = applier[b],
         policy' \in [config : Loadable, trust : {policy'.trust}, index : {policy'.index}],
         disk' \in [file : Loadable, durable : SUBSET Loadable], UNCHANGED selection
  PROVE  Well'
BY DEF Well, Phase

\* A new value for one thread, the others as they were.
Moves(a, y) == applier' = [applier EXCEPT ![a] = y]

\* A thread that does not wait may ask for its plan.
StaysCovered(a) ==
  /\ policy'.index \subseteq selection.native /\ CoveredBy(a)' /\ ~Asking(a)
  /\ \/ requests' = requests
     \/ requests' = Append(requests, [by |-> a, plan |-> PlanOf(applier'[a])]) /\ Asking(a)'

\* Only the thread that steps asks anything, and the selection does not change.
LEMMA AloneCovers ==
  ASSUME Applied, NEW a \in Applier, ~At(a, "idle"), UNCHANGED selection, mishaps \subseteq mishaps',
         Spared({"overlap"})' => \A b \in Applier \ {a} : At(b, "idle") /\ At(b, "idle")',
         Spared(Lapses)' => StaysCovered(a)
  PROVE  Covers'
<1> SUFFICES ASSUME Spared(Lapses)' PROVE Covers'
  BY DEF Covers
<1>1. Spared(Lapses) /\ Spared({"overlap"})'
  BY DEF Spared, Lapses
<1>s. StaysCovered(a)
  OBVIOUS
<1>2. requests = <<>>
  BY <1>1, <1>s DEF StaysCovered, Applied, Covers, Asking, Waiting, At
<1>3. requests' = <<>> \/ (requests' = <<[by |-> a, plan |-> PlanOf(applier'[a])]>> /\ Asking(a)')
  BY <1>2, <1>s DEF StaysCovered
<1>4. \A b \in Applier : CoveredBy(b)'
  BY <1>1, <1>s DEF StaysCovered, CoveredBy, At
<1> QED
  BY <1>1, <1>3, <1>4, <1>s DEF Applied, Covers, StaysCovered

\* What a step of a thread can have done.
Effect(a) == LET x == applier[a] y == applier'[a] IN
  /\ x.pc # "idle" /\ mishaps \subseteq mishaps' /\ UNCHANGED main
  /\ \A b \in Applier \ {a} : applier'[b] = applier[b]
  /\ y.pc # "idle" =>
       /\ y.config = x.config /\ y.publish \in {x.publish, x.config, x.old} /\ y.pc # "start"
       /\ y.old = IF x.pc = "start" THEN policy.config ELSE x.old
  /\ y.pc = "idle" =>
       \/ x.pc \in {"sync", "expanding", "failed", "reshrinking"}
       \/ x.pc = "publish" /\ x.stage = "trust"
       \/ x.pc \in {"shrinking", "reexpanding"} /\ x.old = NoConfig
  /\ \/ policy' = policy
     \/ /\ InPublish(a) /\ y.pc # "idle"
        /\ policy'.index \in {policy.index, Rules(x.publish)} /\ policy'.config \in {policy.config, x.publish}
  /\ \/ disk' = disk /\ (x.pc = "sync" => "unsynced" \in mishaps')
     \/ x.pc = "write" /\ y.pc = "sync" /\ disk'.file = x.config /\ disk'.durable = disk.durable \union {x.config}
     \/ x.pc = "sync" /\ y.pc = "idle" /\ disk'.file = disk.file /\ disk'.durable = {disk.file}


\* What a step of one thread leaves to be shown.
LEMMA ThreadMoves ==
  ASSUME Applied, NEW a \in Applier, ~At(a, "idle"), NEW y, Phase(y), Moves(a, y), mishaps \subseteq mishaps',
         policy' \in [config : Loadable, trust : {policy'.trust}, index : {policy'.index}],
         disk' \in [file : Loadable, durable : SUBSET Loadable], UNCHANGED selection
  PROVE  /\ Well' /\ Single'
         /\ applier'[a] = y /\ \A b \in Applier \ {a} : applier'[b] = applier[b]
         /\ Spared({"overlap"})' => \A b \in Applier \ {a} : At(b, "idle") /\ At(b, "idle")'
<1>1. DOMAIN applier' = Applier /\ applier'[a] = y /\ \A b \in Applier \ {a} : applier'[b] = applier[b]
  BY DEF Applied, Well, Moves
<1>2. Well'
  BY <1>1, WellMoves DEF Applied, Well
<1> QED
  BY <1>1, <1>2, ThreadAlone DEF Applied

-----------------------------------------------------------------------------
\* The steps of a thread, one lemma for each of their outcomes.

\* The thread remembers what is in force ...
LEMMA ReadOldKeeps ==
  ASSUME Applied, NEW a \in Applier, ReadOld(a)
  PROVE  Applied' /\ Effect(a)
<1> DEFINE x == applier[a]
           y == [x EXCEPT !.pc = "plan", !.old = policy.config]
<1>1. /\ Moves(a, y) /\ x.pc = "start"
     
      /\ UNCHANGED <<policy, selection, disk, acknowledged, mishaps, requests, main>>
  BY DEF ReadOld, Moves, At, Applied, Well, Phase
<1>2. /\ y.pc = "plan" /\ y.answer = x.answer /\ y.config = x.config /\ y.old = policy.config
      /\ y.stage = "trust" /\ y.publish = x.publish /\ Phase(y)
  BY <1>1 DEF Applied, Well, Phase, Places, Loadable
<1> HIDE DEF y
<1>3. /\ Well' /\ Single'
      /\ applier'[a] = y /\ \A b \in Applier \ {a} : applier'[b] = applier[b]
      /\ Spared({"overlap"})' => \A b \in Applier \ {a} : At(b, "idle") /\ At(b, "idle")'
  BY <1>1, <1>2, ThreadMoves DEF At, Applied, Well
<1>4. Published'
  BY <1>1, <1>2, <1>3 DEF Applied, Well, Published, PublishedBy, InPublish, At, Spared, Loaded
<1>5. Before'
  BY <1>1, <1>2, <1>3 DEF Applied, Well, Published, PublishedBy, InPublish, Before, KeptBy,
     Resting, At, Spared, Loaded
<1>6. OnDisk'
  BY <1>1, <1>2, <1>3 DEF Applied, Well, Published, PublishedBy, Before, KeptBy, OnDisk,
     OnDiskBy, Resting, At, Spared, Loaded
<1>7. Saved'
  BY <1>1, <1>2, <1>3 DEF Applied, Well, Saved, At, Spared
<1>8. Covers'
  <2>1. Spared(Lapses)' => StaysCovered(a)
    BY <1>1, <1>2, <1>3 DEF Applied, Well, Phase, Published, PublishedBy, InPublish, Before,
       KeptBy, At, Spared, Lapses, Covers, CoveredBy, Asking, Waiting, PlanOf, Loaded, Rules,
       StaysCovered
  <2> QED
    BY <1>1, <1>2, <1>3, <2>1, AloneCovers DEF At
<1>9. Effect(a)
  BY <1>1, <1>2, <1>3 DEF Effect, InPublish, At, Applied, Well, Phase
<1> QED
  BY <1>3, <1>4, <1>5, <1>6, <1>7, <1>8, <1>9 DEF Applied

\* ... and asks for both plans.
LEMMA ExpandKeeps ==
  ASSUME Applied, NEW a \in Applier, Expand(a)
  PROVE  Applied' /\ Effect(a)
<1> DEFINE x == applier[a]
           y == [x EXCEPT !.pc = "expanding", !.oldPlan = policy.index]
<1>1. /\ Moves(a, y) /\ x.pc = "plan"
      /\ UNCHANGED <<policy, selection, disk, acknowledged, mishaps, main>>
      /\ requests' = Append(requests, [by |-> a, plan |-> policy.index \union x.config])
  BY DEF Expand, Moves, At, Applied, Well, Phase
<1>2. /\ y.pc = "expanding" /\ y.config = x.config /\ y.old = x.old /\ y.oldPlan = policy.index
      /\ y.stage = "trust" /\ y.publish = x.publish /\ y.answer = x.answer /\ Phase(y)
  BY <1>1 DEF Applied, Well, Phase, Places, Loadable
<1> HIDE DEF y
<1>3. /\ Well' /\ Single'
      /\ applier'[a] = y /\ \A b \in Applier \ {a} : applier'[b] = applier[b]
      /\ Spared({"overlap"})' => \A b \in Applier \ {a} : At(b, "idle") /\ At(b, "idle")'
  BY <1>1, <1>2, ThreadMoves DEF At, Applied, Well
<1>4. Published'
  BY <1>1, <1>2, <1>3 DEF Applied, Well, Published, PublishedBy, InPublish, At, Spared, Loaded
<1>5. Before'
  BY <1>1, <1>2, <1>3 DEF Applied, Well, Published, PublishedBy, InPublish, Before, KeptBy,
     Resting, At, Spared, Loaded
<1>6. OnDisk'
  BY <1>1, <1>2, <1>3 DEF Applied, Well, Published, PublishedBy, Before, KeptBy, OnDisk,
     OnDiskBy, Resting, At, Spared, Loaded
<1>7. Saved'
  BY <1>1, <1>2, <1>3 DEF Applied, Well, Saved, At, Spared
<1>8. Covers'
  <2>1. Spared(Lapses)' => StaysCovered(a)
    BY <1>1, <1>2, <1>3 DEF Applied, Well, Phase, Published, PublishedBy, InPublish, Before,
       KeptBy, At, Spared, Lapses, Covers, CoveredBy, Asking, Waiting, PlanOf, Loaded, Rules,
       StaysCovered
  <2> QED
    BY <1>1, <1>2, <1>3, <2>1, AloneCovers DEF At
<1>9. Effect(a)
  BY <1>1, <1>2, <1>3 DEF Effect, InPublish, At, Applied, Well, Phase
<1> QED
  BY <1>3, <1>4, <1>5, <1>6, <1>7, <1>8, <1>9 DEF Applied

\* What is published is asked for alone.
LEMMA ShrinkKeeps ==
  ASSUME Applied, NEW a \in Applier, Shrink(a)
  PROVE  Applied' /\ Effect(a)
<1> DEFINE x == applier[a]
           y == [x EXCEPT !.pc = "shrinking", !.answer = "none"]
<1>1. /\ Moves(a, y) /\ x.pc = "published"
      /\ UNCHANGED <<policy, selection, disk, acknowledged, mishaps, main>>
      /\ requests' = Append(requests, [by |-> a, plan |-> x.config])
  BY DEF Shrink, Moves, At, Applied, Well, Phase, Union, Ask
<1>2. /\ y.pc = "shrinking" /\ y.config = x.config /\ y.old = x.old /\ y.oldPlan = x.oldPlan
      /\ y.stage = "trust" /\ y.publish = x.publish /\ y.answer = "none" /\ Phase(y)
  BY <1>1 DEF Applied, Well, Phase, Places, Loadable
<1> HIDE DEF y
<1>3. /\ Well' /\ Single'
      /\ applier'[a] = y /\ \A b \in Applier \ {a} : applier'[b] = applier[b]
      /\ Spared({"overlap"})' => \A b \in Applier \ {a} : At(b, "idle") /\ At(b, "idle")'
  BY <1>1, <1>2, ThreadMoves DEF At, Applied, Well
<1>4. Published'
  BY <1>1, <1>2, <1>3 DEF Applied, Well, Published, PublishedBy, InPublish, At, Spared, Loaded
<1>5. Before'
  BY <1>1, <1>2, <1>3 DEF Applied, Well, Published, PublishedBy, InPublish, Before, KeptBy,
     Resting, At, Spared, Loaded
<1>6. OnDisk'
  BY <1>1, <1>2, <1>3 DEF Applied, Well, Published, PublishedBy, Before, KeptBy, OnDisk,
     OnDiskBy, Resting, At, Spared, Loaded
<1>7. Saved'
  BY <1>1, <1>2, <1>3 DEF Applied, Well, Saved, At, Spared
<1>8. Covers'
  <2>1. Spared(Lapses)' => StaysCovered(a)
    BY <1>1, <1>2, <1>3 DEF Applied, Well, Phase, Published, PublishedBy, InPublish, Before,
       KeptBy, At, Spared, Lapses, Covers, CoveredBy, Asking, Waiting, PlanOf, Loaded, Rules,
       StaysCovered
  <2> QED
    BY <1>1, <1>2, <1>3, <2>1, AloneCovers DEF At
<1>9. Effect(a)
  BY <1>1, <1>2, <1>3 DEF Effect, InPublish, At, Applied, Well, Phase
<1> QED
  BY <1>3, <1>4, <1>5, <1>6, <1>7, <1>8, <1>9 DEF Applied

\* A file that cannot be written: both plans are asked for again ...
LEMMA WriteFailsKeeps ==
  ASSUME Applied, NEW a \in Applier, WriteFails(a)
  PROVE  Applied' /\ Effect(a)
<1> DEFINE x == applier[a]
           y == [x EXCEPT !.pc = "reexpanding", !.answer = "none"]
<1>1. /\ Moves(a, y) /\ x.pc = "write"
      /\ UNCHANGED <<policy, selection, disk, acknowledged, mishaps, main>>
      /\ requests' = Append(requests, [by |-> a, plan |-> x.oldPlan \union x.config])
  BY DEF WriteFails, Moves, At, Applied, Well, Phase, Union, Ask
<1>2. /\ y.pc = "reexpanding" /\ y.config = x.config /\ y.old = x.old /\ y.oldPlan = x.oldPlan
      /\ y.stage = "trust" /\ y.publish = x.publish /\ y.answer = "none" /\ Phase(y)
  BY <1>1 DEF Applied, Well, Phase, Places, Loadable
<1> HIDE DEF y
<1>3. /\ Well' /\ Single'
      /\ applier'[a] = y /\ \A b \in Applier \ {a} : applier'[b] = applier[b]
      /\ Spared({"overlap"})' => \A b \in Applier \ {a} : At(b, "idle") /\ At(b, "idle")'
  BY <1>1, <1>2, ThreadMoves DEF At, Applied, Well
<1>4. Published'
  BY <1>1, <1>2, <1>3 DEF Applied, Well, Published, PublishedBy, InPublish, At, Spared, Loaded
<1>5. Before'
  BY <1>1, <1>2, <1>3 DEF Applied, Well, Published, PublishedBy, InPublish, Before, KeptBy,
     Resting, At, Spared, Loaded
<1>6. OnDisk'
  BY <1>1, <1>2, <1>3 DEF Applied, Well, Published, PublishedBy, Before, KeptBy, OnDisk,
     OnDiskBy, Resting, At, Spared, Loaded
<1>7. Saved'
  BY <1>1, <1>2, <1>3 DEF Applied, Well, Saved, At, Spared
<1>8. Covers'
  <2>1. Spared(Lapses)' => StaysCovered(a)
    BY <1>1, <1>2, <1>3 DEF Applied, Well, Phase, Published, PublishedBy, InPublish, Before,
       KeptBy, At, Spared, Lapses, Covers, CoveredBy, Asking, Waiting, PlanOf, Loaded, Rules,
       StaysCovered
  <2> QED
    BY <1>1, <1>2, <1>3, <2>1, AloneCovers DEF At
<1>9. Effect(a)
  BY <1>1, <1>2, <1>3 DEF Effect, InPublish, At, Applied, Well, Phase
<1> QED
  BY <1>3, <1>4, <1>5, <1>6, <1>7, <1>8, <1>9 DEF Applied

\* ... as they are when the directory cannot be synced.
LEMMA SyncFailsKeeps ==
  ASSUME Applied, NEW a \in Applier, SyncFails(a)
  PROVE  Applied' /\ Effect(a)
<1> DEFINE x == applier[a]
           y == [x EXCEPT !.pc = "reexpanding", !.answer = "none"]
<1>1. /\ Moves(a, y) /\ x.pc = "sync" /\ UNCHANGED <<policy, selection, disk, acknowledged, main>>
      /\ requests' = Append(requests, [by |-> a, plan |-> x.oldPlan \union x.config])
      /\ mishaps' = mishaps \union {"unsynced"}
  BY DEF SyncFails, Moves, At, Applied, Well, Phase, Union, Ask, Mishap
<1>2. /\ y.pc = "reexpanding" /\ y.config = x.config /\ y.old = x.old /\ y.oldPlan = x.oldPlan
      /\ y.stage = "trust" /\ y.publish = x.publish /\ y.answer = "none" /\ Phase(y)
  BY <1>1 DEF Applied, Well, Phase, Places, Loadable
<1> HIDE DEF y
<1>3. /\ Well' /\ Single'
      /\ applier'[a] = y /\ \A b \in Applier \ {a} : applier'[b] = applier[b]
      /\ Spared({"overlap"})' => \A b \in Applier \ {a} : At(b, "idle") /\ At(b, "idle")'
  BY <1>1, <1>2, ThreadMoves DEF At, Applied, Well
<1>4. Published'
  BY <1>1, <1>2, <1>3 DEF Applied, Well, Published, PublishedBy, InPublish, At, Spared, Loaded
<1>5. Before'
  BY <1>1, <1>2, <1>3 DEF Applied, Well, Published, PublishedBy, InPublish, Before, KeptBy,
     Resting, At, Spared, Loaded
<1>6. OnDisk'
  BY <1>1, <1>2, <1>3 DEF Applied, Well, Published, PublishedBy, Before, KeptBy, OnDisk,
     OnDiskBy, Resting, At, Spared, Loaded
<1>7. Saved'
  BY <1>1, <1>2, <1>3 DEF Applied, Well, Saved, At, Spared
<1>8. Covers'
  <2>1. Spared(Lapses)' => StaysCovered(a)
    BY <1>1, <1>2, <1>3 DEF Applied, Well, Phase, Published, PublishedBy, InPublish, Before,
       KeptBy, At, Spared, Lapses, Covers, CoveredBy, Asking, Waiting, PlanOf, Loaded, Rules,
       StaysCovered
  <2> QED
    BY <1>1, <1>2, <1>3, <2>1, AloneCovers DEF At
<1>9. Effect(a)
  BY <1>1, <1>2, <1>3 DEF Effect, InPublish, At, Applied, Well, Phase
<1> QED
  BY <1>3, <1>4, <1>5, <1>6, <1>7, <1>8, <1>9 DEF Applied

\* The old plan is asked for alone.
LEMMA ReshrinkKeeps ==
  ASSUME Applied, NEW a \in Applier, Reshrink(a)
  PROVE  Applied' /\ Effect(a)
<1> DEFINE x == applier[a]
           y == [x EXCEPT !.pc = "reshrinking", !.answer = "none"]
<1>1. /\ Moves(a, y) /\ x.pc = "rolledback"
      /\ UNCHANGED <<policy, selection, disk, acknowledged, mishaps, main>>
      /\ requests' = Append(requests, [by |-> a, plan |-> x.oldPlan])
  BY DEF Reshrink, Moves, At, Applied, Well, Phase, Union, Ask
<1>2. /\ y.pc = "reshrinking" /\ y.config = x.config /\ y.old = x.old /\ y.oldPlan = x.oldPlan
      /\ y.stage = "trust" /\ y.publish = x.publish /\ y.answer = "none" /\ Phase(y)
  BY <1>1 DEF Applied, Well, Phase, Places, Loadable
<1> HIDE DEF y
<1>3. /\ Well' /\ Single'
      /\ applier'[a] = y /\ \A b \in Applier \ {a} : applier'[b] = applier[b]
      /\ Spared({"overlap"})' => \A b \in Applier \ {a} : At(b, "idle") /\ At(b, "idle")'
  BY <1>1, <1>2, ThreadMoves DEF At, Applied, Well
<1>4. Published'
  BY <1>1, <1>2, <1>3 DEF Applied, Well, Published, PublishedBy, InPublish, At, Spared, Loaded
<1>5. Before'
  BY <1>1, <1>2, <1>3 DEF Applied, Well, Published, PublishedBy, InPublish, Before, KeptBy,
     Resting, At, Spared, Loaded
<1>6. OnDisk'
  BY <1>1, <1>2, <1>3 DEF Applied, Well, Published, PublishedBy, Before, KeptBy, OnDisk,
     OnDiskBy, Resting, At, Spared, Loaded
<1>7. Saved'
  BY <1>1, <1>2, <1>3 DEF Applied, Well, Saved, At, Spared
<1>8. Covers'
  <2>1. Spared(Lapses)' => StaysCovered(a)
    BY <1>1, <1>2, <1>3 DEF Applied, Well, Phase, Published, PublishedBy, InPublish, Before,
       KeptBy, At, Spared, Lapses, Covers, CoveredBy, Asking, Waiting, PlanOf, Loaded, Rules,
       StaysCovered
  <2> QED
    BY <1>1, <1>2, <1>3, <2>1, AloneCovers DEF At
<1>9. Effect(a)
  BY <1>1, <1>2, <1>3 DEF Effect, InPublish, At, Applied, Well, Phase
<1> QED
  BY <1>3, <1>4, <1>5, <1>6, <1>7, <1>8, <1>9 DEF Applied

\* The file is replaced, in memory at least.
LEMMA RenameKeeps ==
  ASSUME Applied, NEW a \in Applier, Rename(a)
  PROVE  Applied' /\ Effect(a)
<1> DEFINE x == applier[a]
           y == [x EXCEPT !.pc = "sync"]
<1>1. /\ Moves(a, y) /\ x.pc = "write"
      /\ UNCHANGED <<policy, selection, acknowledged, mishaps, requests, main>>
      /\ disk' = [disk EXCEPT !.file = x.config, !.durable = @ \union {x.config}]
  BY DEF Rename, Moves, At, Applied, Well, Phase
<1>2. /\ y.pc = "sync" /\ y.config = x.config /\ y.old = x.old /\ y.oldPlan = x.oldPlan
      /\ y.stage = "trust" /\ y.publish = x.publish /\ Phase(y)
  BY <1>1 DEF Applied, Well, Phase, Places, Loadable
<1> HIDE DEF y
<1>d. disk' \in [file : Loadable, durable : SUBSET Loadable]
  BY <1>1 DEF Applied, Well, Phase
<1>3. /\ Well' /\ Single'
      /\ applier'[a] = y /\ \A b \in Applier \ {a} : applier'[b] = applier[b]
      /\ Spared({"overlap"})' => \A b \in Applier \ {a} : At(b, "idle") /\ At(b, "idle")'
  BY <1>1, <1>2, <1>d, ThreadMoves DEF At, Applied, Well
<1>4. Published'
  BY <1>1, <1>2, <1>3 DEF Applied, Well, Published, PublishedBy, InPublish, At, Spared, Loaded
<1>5. Before'
  BY <1>1, <1>2, <1>3 DEF Applied, Well, Published, PublishedBy, InPublish, Before, KeptBy,
     Resting, At, Spared, Loaded
<1>6. OnDisk'
  BY <1>1, <1>2, <1>3 DEF Applied, Well, Published, PublishedBy, Before, KeptBy, OnDisk,
     OnDiskBy, Resting, At, Spared, Loaded
<1>7. Saved'
  BY <1>1, <1>2, <1>3 DEF Applied, Well, Saved, At, Spared
<1>8. Covers'
  <2>1. Spared(Lapses)' => StaysCovered(a)
    BY <1>1, <1>2, <1>3 DEF Applied, Well, Phase, Published, PublishedBy, InPublish, Before,
       KeptBy, At, Spared, Lapses, Covers, CoveredBy, Asking, Waiting, PlanOf, Loaded, Rules,
       StaysCovered
  <2> QED
    BY <1>1, <1>2, <1>3, <2>1, AloneCovers DEF At
<1>9. Effect(a)
  BY <1>1, <1>2, <1>3 DEF Effect, InPublish, At, Applied, Well, Phase
<1> QED
  BY <1>3, <1>4, <1>5, <1>6, <1>7, <1>8, <1>9 DEF Applied

\* The request ends, with the old policy in force.
LEMMA FailedKeeps ==
  ASSUME Applied, NEW a \in Applier, Failed(a)
  PROVE  Applied' /\ Effect(a)
<1> DEFINE x == applier[a]
           y == NoRequest
<1>1. /\ Moves(a, y) /\ x.pc = "failed"
     
      /\ UNCHANGED <<policy, selection, disk, acknowledged, mishaps, requests, main>>
  BY DEF Failed, Moves, At, Applied, Well, Phase, Fail
<1>2. y.pc = "idle" /\ Phase(y)
  BY <1>1 DEF Applied, Well, Phase, Places, NoRequest, Loadable
<1> HIDE DEF y
<1>3. /\ Well' /\ Single'
      /\ applier'[a] = y /\ \A b \in Applier \ {a} : applier'[b] = applier[b]
      /\ Spared({"overlap"})' => \A b \in Applier \ {a} : At(b, "idle") /\ At(b, "idle")'
  BY <1>1, <1>2, ThreadMoves DEF At, Applied, Well
<1>4. Published'
  BY <1>1, <1>2, <1>3 DEF Applied, Well, Published, PublishedBy, InPublish, At, Spared, Loaded
<1>5. Before'
  BY <1>1, <1>2, <1>3 DEF Applied, Well, Published, PublishedBy, InPublish, Before, KeptBy,
     Resting, At, Spared, Loaded
<1>6. OnDisk'
  BY <1>1, <1>2, <1>3 DEF Applied, Well, Published, PublishedBy, Before, KeptBy, OnDisk,
     OnDiskBy, Resting, At, Spared, Loaded
<1>7. Saved'
  BY <1>1, <1>2, <1>3 DEF Applied, Well, Saved, At, Spared
<1>8. Covers'
  <2>1. Spared(Lapses)' => StaysCovered(a)
    BY <1>1, <1>2, <1>3 DEF Applied, Well, Phase, Published, PublishedBy, InPublish, Before,
       KeptBy, At, Spared, Lapses, Covers, CoveredBy, Asking, Waiting, PlanOf, Loaded, Rules,
       StaysCovered
  <2> QED
    BY <1>1, <1>2, <1>3, <2>1, AloneCovers DEF At
<1>9. Effect(a)
  BY <1>1, <1>2, <1>3 DEF Effect, InPublish, At, Applied, Well, Phase
<1> QED
  BY <1>3, <1>4, <1>5, <1>6, <1>7, <1>8, <1>9 DEF Applied

\* ... or after the old plan was asked for.
LEMMA ReshrunkKeeps ==
  ASSUME Applied, NEW a \in Applier, Reshrunk(a)
  PROVE  Applied' /\ Effect(a)
<1> DEFINE x == applier[a]
           y == NoRequest
<1>1. /\ Moves(a, y) /\ x.pc = "reshrinking" /\ x.answer # "none"
     
      /\ UNCHANGED <<policy, selection, disk, acknowledged, mishaps, requests, main>>
  BY DEF Reshrunk, Moves, At, Applied, Well, Phase, Fail
<1>2. y.pc = "idle" /\ Phase(y)
  BY <1>1 DEF Applied, Well, Phase, Places, NoRequest, Loadable
<1> HIDE DEF y
<1>3. /\ Well' /\ Single'
      /\ applier'[a] = y /\ \A b \in Applier \ {a} : applier'[b] = applier[b]
      /\ Spared({"overlap"})' => \A b \in Applier \ {a} : At(b, "idle") /\ At(b, "idle")'
  BY <1>1, <1>2, ThreadMoves DEF At, Applied, Well
<1>4. Published'
  BY <1>1, <1>2, <1>3 DEF Applied, Well, Published, PublishedBy, InPublish, At, Spared, Loaded
<1>5. Before'
  BY <1>1, <1>2, <1>3 DEF Applied, Well, Published, PublishedBy, InPublish, Before, KeptBy,
     Resting, At, Spared, Loaded
<1>6. OnDisk'
  BY <1>1, <1>2, <1>3 DEF Applied, Well, Published, PublishedBy, Before, KeptBy, OnDisk,
     OnDiskBy, Resting, At, Spared, Loaded
<1>7. Saved'
  BY <1>1, <1>2, <1>3 DEF Applied, Well, Saved, At, Spared
<1>8. Covers'
  <2>1. Spared(Lapses)' => StaysCovered(a)
    BY <1>1, <1>2, <1>3 DEF Applied, Well, Phase, Published, PublishedBy, InPublish, Before,
       KeptBy, At, Spared, Lapses, Covers, CoveredBy, Asking, Waiting, PlanOf, Loaded, Rules,
       StaysCovered
  <2> QED
    BY <1>1, <1>2, <1>3, <2>1, AloneCovers DEF At
<1>9. Effect(a)
  BY <1>1, <1>2, <1>3 DEF Effect, InPublish, At, Applied, Well, Phase
<1> QED
  BY <1>3, <1>4, <1>5, <1>6, <1>7, <1>8, <1>9 DEF Applied

\* The file is on disk, and the request succeeds.
LEMMA SyncKeeps ==
  ASSUME Applied, NEW a \in Applier, Sync(a)
  PROVE  Applied' /\ Effect(a)
<1> DEFINE x == applier[a]
           y == NoRequest
<1>1. /\ Moves(a, y) /\ x.pc = "sync" /\ UNCHANGED <<policy, selection, mishaps, requests, main>>
      /\ disk' = [disk EXCEPT !.durable = {disk.file}]
      /\ acknowledged' = x.config
  BY DEF Sync, Moves, At, Applied, Well, Phase
<1>2. y.pc = "idle" /\ Phase(y)
  BY <1>1 DEF Applied, Well, Phase, Places, NoRequest, Loadable
<1> HIDE DEF y
<1>d. disk' \in [file : Loadable, durable : SUBSET Loadable]
  BY <1>1 DEF Applied, Well, Phase
<1>3. /\ Well' /\ Single'
      /\ applier'[a] = y /\ \A b \in Applier \ {a} : applier'[b] = applier[b]
      /\ Spared({"overlap"})' => \A b \in Applier \ {a} : At(b, "idle") /\ At(b, "idle")'
  BY <1>1, <1>2, <1>d, ThreadMoves DEF At, Applied, Well
<1>4. Published'
  BY <1>1, <1>2, <1>3 DEF Applied, Well, Published, PublishedBy, InPublish, At, Spared, Loaded
<1>5. Before'
  BY <1>1, <1>2, <1>3 DEF Applied, Well, Published, PublishedBy, InPublish, Before, KeptBy,
     Resting, At, Spared, Loaded
<1>6. OnDisk'
  BY <1>1, <1>2, <1>3 DEF Applied, Well, Published, PublishedBy, Before, KeptBy, OnDisk,
     OnDiskBy, Resting, At, Spared, Loaded
<1>7. Saved'
  BY <1>1, <1>2, <1>3 DEF Applied, Well, Saved, At, Spared
<1>8. Covers'
  <2>1. Spared(Lapses)' => StaysCovered(a)
    BY <1>1, <1>2, <1>3 DEF Applied, Well, Phase, Published, PublishedBy, InPublish, Before,
       KeptBy, At, Spared, Lapses, Covers, CoveredBy, Asking, Waiting, PlanOf, Loaded, Rules,
       StaysCovered
  <2> QED
    BY <1>1, <1>2, <1>3, <2>1, AloneCovers DEF At
<1>9. Effect(a)
  BY <1>1, <1>2, <1>3 DEF Effect, InPublish, At, Applied, Well, Phase
<1> QED
  BY <1>3, <1>4, <1>5, <1>6, <1>7, <1>8, <1>9 DEF Applied

\* The thread does not wait any longer.
LEMMA GiveUpKeeps ==
  ASSUME Applied, NEW a \in Applier, GiveUp(a)
  PROVE  Applied' /\ Effect(a)
<1> DEFINE x == applier[a]
           y == [x EXCEPT !.answer = "error"]
<1>1. /\ Moves(a, y) /\ x.pc \in {"expanding", "shrinking", "reexpanding", "reshrinking"}
      /\ UNCHANGED <<policy, selection, disk, acknowledged, main>>
      /\ mishaps' = mishaps \union {"late"}
  BY DEF GiveUp, Moves, At, Applied, Well, Phase, Waiting, Mishap
<1>2. /\ y.pc = x.pc /\ y.config = x.config /\ y.old = x.old /\ y.oldPlan = x.oldPlan
      /\ y.stage = x.stage /\ y.publish = x.publish /\ Phase(y)
  BY <1>1 DEF Applied, Well, Phase, Places, Loadable
<1> HIDE DEF y
<1>3. /\ Well' /\ Single'
      /\ applier'[a] = y /\ \A b \in Applier \ {a} : applier'[b] = applier[b]
      /\ Spared({"overlap"})' => \A b \in Applier \ {a} : At(b, "idle") /\ At(b, "idle")'
  BY <1>1, <1>2, ThreadMoves DEF At, Applied, Well
<1>4. Published'
  BY <1>1, <1>2, <1>3 DEF Applied, Well, Published, PublishedBy, InPublish, At, Spared, Loaded
<1>5. Before'
  BY <1>1, <1>2, <1>3 DEF Applied, Well, Published, PublishedBy, InPublish, Before, KeptBy,
     Resting, At, Spared, Loaded
<1>6. OnDisk'
  BY <1>1, <1>2, <1>3 DEF Applied, Well, Published, PublishedBy, Before, KeptBy, OnDisk,
     OnDiskBy, Resting, At, Spared, Loaded
<1>7. Saved'
  BY <1>1, <1>2, <1>3 DEF Applied, Well, Saved, At, Spared
<1>8. Covers'
  <2>1. Spared(Lapses)' => StaysCovered(a)
    BY <1>1, <1>2, <1>3 DEF Applied, Well, Phase, Published, PublishedBy, InPublish, Before,
       KeptBy, At, Spared, Lapses, Covers, CoveredBy, Asking, Waiting, PlanOf, Loaded, Rules,
       StaysCovered
  <2> QED
    BY <1>1, <1>2, <1>3, <2>1, AloneCovers DEF At
<1>9. Effect(a)
  BY <1>1, <1>2, <1>3 DEF Effect, InPublish, At, Applied, Well, Phase
<1> QED
  BY <1>3, <1>4, <1>5, <1>6, <1>7, <1>8, <1>9 DEF Applied

\* Trust is replaced,
LEMMA PublishTrustKeeps ==
  ASSUME Applied, NEW a \in Applier, PublishTrust(a)
  PROVE  Applied' /\ Effect(a)
<1> DEFINE x == applier[a]
           y == [x EXCEPT !.stage = "index"]
<1>1. /\ Moves(a, y) /\ x.pc \in {"publish", "restore", "rollback"} /\ x.stage = "trust"
      /\ UNCHANGED <<selection, disk, acknowledged, mishaps, requests, main>>
      /\ policy' = [policy EXCEPT !.trust = x.publish]
  BY DEF PublishTrust, Moves, At, Applied, Well, Phase, Publish, InPublish
<1>2. /\ y.pc = x.pc /\ y.config = x.config /\ y.old = x.old /\ y.oldPlan = x.oldPlan
      /\ y.stage = "index" /\ y.publish = x.publish /\ Phase(y)
  BY <1>1 DEF Applied, Well, Phase, Places, Loadable
<1> HIDE DEF y
<1>p. policy' \in [config : Loadable, trust : {policy'.trust}, index : {policy'.index}]
  BY <1>1 DEF Applied, Well, Phase
<1>3. /\ Well' /\ Single'
      /\ applier'[a] = y /\ \A b \in Applier \ {a} : applier'[b] = applier[b]
      /\ Spared({"overlap"})' => \A b \in Applier \ {a} : At(b, "idle") /\ At(b, "idle")'
  BY <1>1, <1>2, <1>p, ThreadMoves DEF At, Applied, Well
<1>4. Published'
  BY <1>1, <1>2, <1>3 DEF Applied, Well, Published, PublishedBy, InPublish, At, Spared, Loaded
<1>5. Before'
  BY <1>1, <1>2, <1>3 DEF Applied, Well, Published, PublishedBy, InPublish, Before, KeptBy,
     Resting, At, Spared, Loaded
<1>6. OnDisk'
  BY <1>1, <1>2, <1>3 DEF Applied, Well, Published, PublishedBy, Before, KeptBy, OnDisk,
     OnDiskBy, Resting, At, Spared, Loaded
<1>7. Saved'
  BY <1>1, <1>2, <1>3 DEF Applied, Well, Saved, At, Spared
<1>8. Covers'
  <2>1. Spared(Lapses)' => StaysCovered(a)
    BY <1>1, <1>2, <1>3 DEF Applied, Well, Phase, Published, PublishedBy, InPublish, Before,
       KeptBy, At, Spared, Lapses, Covers, CoveredBy, Asking, Waiting, PlanOf, Loaded, Rules,
       StaysCovered
  <2> QED
    BY <1>1, <1>2, <1>3, <2>1, AloneCovers DEF At
<1>9. Effect(a)
  BY <1>1, <1>2, <1>3 DEF Effect, InPublish, At, Applied, Well, Phase
<1> QED
  BY <1>3, <1>4, <1>5, <1>6, <1>7, <1>8, <1>9 DEF Applied

\* ... the index,
LEMMA PublishIndexKeeps ==
  ASSUME Applied, NEW a \in Applier, PublishIndex(a)
  PROVE  Applied' /\ Effect(a)
<1> DEFINE x == applier[a]
           y == [x EXCEPT !.stage = "config"]
<1>1. /\ Moves(a, y) /\ x.pc \in {"publish", "restore", "rollback"} /\ x.stage = "index"
      /\ UNCHANGED <<selection, disk, acknowledged, mishaps, requests, main>>
      /\ policy' = [policy EXCEPT !.index = Rules(x.publish)]
  <2>1. Publish(a, "index", "config") /\ policy' = [policy EXCEPT !.index = Rules(x.publish)]
    BY DEF PublishIndex
  <2>2. applier' = [applier EXCEPT ![a].stage = "config", ![a].pc = @]
    BY <2>1 DEF Publish
  <2>3. Moves(a, y)
    BY <2>2 DEF Moves, Applied, Well, Phase
  <2> QED
    BY <2>1, <2>3 DEF Publish, InPublish
<1>2. /\ y.pc = x.pc /\ y.config = x.config /\ y.old = x.old /\ y.oldPlan = x.oldPlan
      /\ y.stage = "config" /\ y.publish = x.publish /\ Phase(y)
  BY <1>1 DEF Applied, Well, Phase, Places, Loadable
<1> HIDE DEF y
<1>p. policy' \in [config : Loadable, trust : {policy'.trust}, index : {policy'.index}]
  BY <1>1 DEF Applied, Well, Phase
<1>3. /\ Well' /\ Single'
      /\ applier'[a] = y /\ \A b \in Applier \ {a} : applier'[b] = applier[b]
      /\ Spared({"overlap"})' => \A b \in Applier \ {a} : At(b, "idle") /\ At(b, "idle")'
  BY <1>1, <1>2, <1>p, ThreadMoves DEF At, Applied, Well
<1>4. Published'
  BY <1>1, <1>2, <1>3 DEF Applied, Well, Published, PublishedBy, InPublish, At, Spared, Loaded
<1>5. Before'
  BY <1>1, <1>2, <1>3 DEF Applied, Well, Published, PublishedBy, InPublish, Before, KeptBy,
     Resting, At, Spared, Loaded
<1>6. OnDisk'
  BY <1>1, <1>2, <1>3 DEF Applied, Well, Published, PublishedBy, Before, KeptBy, OnDisk,
     OnDiskBy, Resting, At, Spared, Loaded
<1>7. Saved'
  BY <1>1, <1>2, <1>3 DEF Applied, Well, Saved, At, Spared
<1>8. Covers'
  <2>1. Spared(Lapses)' => StaysCovered(a)
    BY <1>1, <1>2, <1>3 DEF Applied, Well, Phase, Published, PublishedBy, InPublish, Before,
       KeptBy, At, Spared, Lapses, Covers, CoveredBy, Asking, Waiting, PlanOf, Loaded, Rules,
       StaysCovered
  <2> QED
    BY <1>1, <1>2, <1>3, <2>1, AloneCovers DEF At
<1>9. Effect(a)
  BY <1>1, <1>2, <1>3 DEF Effect, InPublish, At, Applied, Well, Phase
<1> QED
  BY <1>3, <1>4, <1>5, <1>6, <1>7, <1>8, <1>9 DEF Applied

\* ... and the configuration.
LEMMA PublishConfigKeeps ==
  ASSUME Applied, NEW a \in Applier, PublishConfig(a)
  PROVE  Applied' /\ Effect(a)
<1> DEFINE x == applier[a]
           y == [x EXCEPT !.stage = "trust", !.pc = AfterPublish(@)]
<1>1. /\ Moves(a, y) /\ x.pc \in {"publish", "restore", "rollback"} /\ x.stage = "config"
      /\ UNCHANGED <<selection, disk, acknowledged, mishaps, requests, main>>
      /\ policy' = [policy EXCEPT !.config = x.publish]
  BY DEF PublishConfig, Moves, At, Applied, Well, Phase, Publish, InPublish
<1>2. /\ x.pc = "publish" => y.pc = "published"
      /\ x.pc = "restore" => y.pc = "failed"
      /\ x.pc = "rollback" => y.pc = "rolledback"
      /\ y.config = x.config /\ y.old = x.old /\ y.oldPlan = x.oldPlan /\ y.stage = "trust" /\ y.publish = x.publish
      /\ Phase(y)
  BY <1>1 DEF Applied, Well, Phase, Places, AfterPublish, Loadable
<1> HIDE DEF y
<1>p. policy' \in [config : Loadable, trust : {policy'.trust}, index : {policy'.index}]
  BY <1>1 DEF Applied, Well, Phase
<1>3. /\ Well' /\ Single'
      /\ applier'[a] = y /\ \A b \in Applier \ {a} : applier'[b] = applier[b]
      /\ Spared({"overlap"})' => \A b \in Applier \ {a} : At(b, "idle") /\ At(b, "idle")'
  BY <1>1, <1>2, <1>p, ThreadMoves DEF At, Applied, Well
<1>4. Published'
  BY <1>1, <1>2, <1>3 DEF Applied, Well, Published, PublishedBy, InPublish, At, Spared, Loaded
<1>5. Before'
  BY <1>1, <1>2, <1>3 DEF Applied, Well, Published, PublishedBy, InPublish, Before, KeptBy,
     Resting, At, Spared, Loaded
<1>6. OnDisk'
  BY <1>1, <1>2, <1>3 DEF Applied, Well, Published, PublishedBy, Before, KeptBy, OnDisk,
     OnDiskBy, Resting, At, Spared, Loaded
<1>7. Saved'
  BY <1>1, <1>2, <1>3 DEF Applied, Well, Saved, At, Spared
<1>8. Covers'
  <2>1. Spared(Lapses)' => StaysCovered(a)
    BY <1>1, <1>2, <1>3 DEF Applied, Well, Phase, Published, PublishedBy, InPublish, Before,
       KeptBy, At, Spared, Lapses, Covers, CoveredBy, Asking, Waiting, PlanOf, Loaded, Rules,
       StaysCovered
  <2> QED
    BY <1>1, <1>2, <1>3, <2>1, AloneCovers DEF At
<1>9. Effect(a)
  BY <1>1, <1>2, <1>3 DEF Effect, InPublish, At, Applied, Well, Phase
<1> QED
  BY <1>3, <1>4, <1>5, <1>6, <1>7, <1>8, <1>9 DEF Applied

\* Both plans are selected.
LEMMA ExpandedPublishes ==
  ASSUME Applied, NEW a \in Applier, Expanded(a), applier[a].answer = "ok"
  PROVE  Applied' /\ Effect(a)
<1> DEFINE x == applier[a]
           y == [x EXCEPT !.pc = "publish", !.publish = x.config]
<1>1. /\ Moves(a, y) /\ x.pc = "expanding" /\ x.answer = "ok"
     
      /\ UNCHANGED <<policy, selection, disk, acknowledged, mishaps, requests, main>>
  BY DEF Expanded, Moves, At, Applied, Well, Phase, Answered, Publishing, Fail
<1>2. /\ y.pc = "publish" /\ y.config = x.config /\ y.old = x.old /\ y.oldPlan = x.oldPlan
      /\ y.stage = "trust" /\ y.publish = x.config /\ Phase(y)
  BY <1>1 DEF Applied, Well, Phase, Places, Loadable
<1> HIDE DEF y
<1>3. /\ Well' /\ Single'
      /\ applier'[a] = y /\ \A b \in Applier \ {a} : applier'[b] = applier[b]
      /\ Spared({"overlap"})' => \A b \in Applier \ {a} : At(b, "idle") /\ At(b, "idle")'
  BY <1>1, <1>2, ThreadMoves DEF At, Applied, Well
<1>4. Published'
  BY <1>1, <1>2, <1>3 DEF Applied, Well, Published, PublishedBy, InPublish, At, Spared, Loaded
<1>5. Before'
  BY <1>1, <1>2, <1>3 DEF Applied, Well, Published, PublishedBy, InPublish, Before, KeptBy,
     Resting, At, Spared, Loaded
<1>6. OnDisk'
  BY <1>1, <1>2, <1>3 DEF Applied, Well, Published, PublishedBy, Before, KeptBy, OnDisk,
     OnDiskBy, Resting, At, Spared, Loaded
<1>7. Saved'
  BY <1>1, <1>2, <1>3 DEF Applied, Well, Saved, At, Spared
<1>8. Covers'
  <2>1. Spared(Lapses)' => StaysCovered(a)
    BY <1>1, <1>2, <1>3 DEF Applied, Well, Phase, Published, PublishedBy, InPublish, Before,
       KeptBy, At, Spared, Lapses, Covers, CoveredBy, Asking, Waiting, PlanOf, Loaded, Rules,
       StaysCovered
  <2> QED
    BY <1>1, <1>2, <1>3, <2>1, AloneCovers DEF At
<1>9. Effect(a)
  BY <1>1, <1>2, <1>3 DEF Effect, InPublish, At, Applied, Well, Phase
<1> QED
  BY <1>3, <1>4, <1>5, <1>6, <1>7, <1>8, <1>9 DEF Applied

\* They are not.
LEMMA ExpandedFails ==
  ASSUME Applied, NEW a \in Applier, Expanded(a), applier[a].answer # "ok"
  PROVE  Applied' /\ Effect(a)
<1> DEFINE x == applier[a]
           y == NoRequest
<1>1. /\ Moves(a, y) /\ x.pc = "expanding" /\ x.answer = "error"
     
      /\ UNCHANGED <<policy, selection, disk, acknowledged, mishaps, requests, main>>
  BY DEF Expanded, Moves, At, Applied, Well, Phase, Answered, Publishing, Fail
<1>2. y.pc = "idle" /\ Phase(y)
  BY <1>1 DEF Applied, Well, Phase, Places, NoRequest, Loadable
<1> HIDE DEF y
<1>3. /\ Well' /\ Single'
      /\ applier'[a] = y /\ \A b \in Applier \ {a} : applier'[b] = applier[b]
      /\ Spared({"overlap"})' => \A b \in Applier \ {a} : At(b, "idle") /\ At(b, "idle")'
  BY <1>1, <1>2, ThreadMoves DEF At, Applied, Well
<1>4. Published'
  BY <1>1, <1>2, <1>3 DEF Applied, Well, Published, PublishedBy, InPublish, At, Spared, Loaded
<1>5. Before'
  BY <1>1, <1>2, <1>3 DEF Applied, Well, Published, PublishedBy, InPublish, Before, KeptBy,
     Resting, At, Spared, Loaded
<1>6. OnDisk'
  BY <1>1, <1>2, <1>3 DEF Applied, Well, Published, PublishedBy, Before, KeptBy, OnDisk,
     OnDiskBy, Resting, At, Spared, Loaded
<1>7. Saved'
  BY <1>1, <1>2, <1>3 DEF Applied, Well, Saved, At, Spared
<1>8. Covers'
  <2>1. Spared(Lapses)' => StaysCovered(a)
    BY <1>1, <1>2, <1>3 DEF Applied, Well, Phase, Published, PublishedBy, InPublish, Before,
       KeptBy, At, Spared, Lapses, Covers, CoveredBy, Asking, Waiting, PlanOf, Loaded, Rules,
       StaysCovered
  <2> QED
    BY <1>1, <1>2, <1>3, <2>1, AloneCovers DEF At
<1>9. Effect(a)
  BY <1>1, <1>2, <1>3 DEF Effect, InPublish, At, Applied, Well, Phase
<1> QED
  BY <1>3, <1>4, <1>5, <1>6, <1>7, <1>8, <1>9 DEF Applied

\* The configuration does not validate.
LEMMA PublishRefused ==
  ASSUME Applied, NEW a \in Applier, PublishFails(a), applier[a].pc = "publish"
  PROVE  Applied' /\ Effect(a)
<1> DEFINE x == applier[a]
           y == NoRequest
<1>1. /\ Moves(a, y) /\ x.pc = "publish" /\ x.stage = "trust"
     
      /\ UNCHANGED <<policy, selection, disk, acknowledged, mishaps, requests, main>>
  BY DEF PublishFails, Moves, At, Applied, Well, Phase, InPublish, Fail
<1>2. y.pc = "idle" /\ Phase(y)
  BY <1>1 DEF Applied, Well, Phase, Places, NoRequest, Loadable
<1> HIDE DEF y
<1>3. /\ Well' /\ Single'
      /\ applier'[a] = y /\ \A b \in Applier \ {a} : applier'[b] = applier[b]
      /\ Spared({"overlap"})' => \A b \in Applier \ {a} : At(b, "idle") /\ At(b, "idle")'
  BY <1>1, <1>2, ThreadMoves DEF At, Applied, Well
<1>4. Published'
  BY <1>1, <1>2, <1>3 DEF Applied, Well, Published, PublishedBy, InPublish, At, Spared, Loaded
<1>5. Before'
  BY <1>1, <1>2, <1>3 DEF Applied, Well, Published, PublishedBy, InPublish, Before, KeptBy,
     Resting, At, Spared, Loaded
<1>6. OnDisk'
  BY <1>1, <1>2, <1>3 DEF Applied, Well, Published, PublishedBy, Before, KeptBy, OnDisk,
     OnDiskBy, Resting, At, Spared, Loaded
<1>7. Saved'
  BY <1>1, <1>2, <1>3 DEF Applied, Well, Saved, At, Spared
<1>8. Covers'
  <2>1. Spared(Lapses)' => StaysCovered(a)
    BY <1>1, <1>2, <1>3 DEF Applied, Well, Phase, Published, PublishedBy, InPublish, Before,
       KeptBy, At, Spared, Lapses, Covers, CoveredBy, Asking, Waiting, PlanOf, Loaded, Rules,
       StaysCovered
  <2> QED
    BY <1>1, <1>2, <1>3, <2>1, AloneCovers DEF At
<1>9. Effect(a)
  BY <1>1, <1>2, <1>3 DEF Effect, InPublish, At, Applied, Well, Phase
<1> QED
  BY <1>3, <1>4, <1>5, <1>6, <1>7, <1>8, <1>9 DEF Applied

\* The one that was in force does not, any more.
LEMMA RestoreRefused ==
  ASSUME Applied, NEW a \in Applier, PublishFails(a), applier[a].pc # "publish"
  PROVE  Applied' /\ Effect(a)
<1> DEFINE x == applier[a]
           y == [x EXCEPT !.pc = AfterPublish(@)]
<1>1. /\ Moves(a, y) /\ x.pc \in {"restore", "rollback"} /\ x.stage = "trust"
      /\ UNCHANGED <<policy, selection, disk, acknowledged, requests, main>>
      /\ mishaps' = mishaps \union {"unrestored"}
  BY DEF PublishFails, Moves, At, Applied, Well, Phase, InPublish, Mishap
<1>2. /\ y.pc \in {"failed", "rolledback"}
      /\ y.config = x.config /\ y.old = x.old /\ y.oldPlan = x.oldPlan /\ y.stage = "trust" /\ y.publish = x.publish
      /\ Phase(y)
  BY <1>1 DEF Applied, Well, Phase, Places, AfterPublish, Loadable
<1> HIDE DEF y
<1>3. /\ Well' /\ Single'
      /\ applier'[a] = y /\ \A b \in Applier \ {a} : applier'[b] = applier[b]
      /\ Spared({"overlap"})' => \A b \in Applier \ {a} : At(b, "idle") /\ At(b, "idle")'
  BY <1>1, <1>2, ThreadMoves DEF At, Applied, Well
<1>4. Published'
  BY <1>1, <1>2, <1>3 DEF Applied, Well, Published, PublishedBy, InPublish, At, Spared, Loaded
<1>5. Before'
  BY <1>1, <1>2, <1>3 DEF Applied, Well, Published, PublishedBy, InPublish, Before, KeptBy,
     Resting, At, Spared, Loaded
<1>6. OnDisk'
  BY <1>1, <1>2, <1>3 DEF Applied, Well, Published, PublishedBy, Before, KeptBy, OnDisk,
     OnDiskBy, Resting, At, Spared, Loaded
<1>7. Saved'
  BY <1>1, <1>2, <1>3 DEF Applied, Well, Saved, At, Spared
<1>8. Covers'
  <2>1. Spared(Lapses)' => StaysCovered(a)
    BY <1>1, <1>2, <1>3 DEF Applied, Well, Phase, Published, PublishedBy, InPublish, Before,
       KeptBy, At, Spared, Lapses, Covers, CoveredBy, Asking, Waiting, PlanOf, Loaded, Rules,
       StaysCovered
  <2> QED
    BY <1>1, <1>2, <1>3, <2>1, AloneCovers DEF At
<1>9. Effect(a)
  BY <1>1, <1>2, <1>3 DEF Effect, InPublish, At, Applied, Well, Phase
<1> QED
  BY <1>3, <1>4, <1>5, <1>6, <1>7, <1>8, <1>9 DEF Applied

\* The new plan alone is selected.
LEMMA ShrunkWrites ==
  ASSUME Applied, NEW a \in Applier, Shrunk(a), applier[a].answer = "ok"
  PROVE  Applied' /\ Effect(a)
<1> DEFINE x == applier[a]
           y == [x EXCEPT !.pc = "write"]
<1>1. /\ Moves(a, y) /\ x.pc = "shrinking" /\ x.answer = "ok"
     
      /\ UNCHANGED <<policy, selection, disk, acknowledged, mishaps, requests, main>>
  BY DEF Shrunk, Moves, At, Applied, Well, Phase, Answered, Publishing, Fail
<1>2. /\ y.pc = "write" /\ y.config = x.config /\ y.old = x.old /\ y.oldPlan = x.oldPlan
      /\ y.stage = "trust" /\ y.publish = x.publish /\ Phase(y)
  BY <1>1 DEF Applied, Well, Phase, Places, Loadable
<1> HIDE DEF y
<1>3. /\ Well' /\ Single'
      /\ applier'[a] = y /\ \A b \in Applier \ {a} : applier'[b] = applier[b]
      /\ Spared({"overlap"})' => \A b \in Applier \ {a} : At(b, "idle") /\ At(b, "idle")'
  BY <1>1, <1>2, ThreadMoves DEF At, Applied, Well
<1>4. Published'
  BY <1>1, <1>2, <1>3 DEF Applied, Well, Published, PublishedBy, InPublish, At, Spared, Loaded
<1>5. Before'
  BY <1>1, <1>2, <1>3 DEF Applied, Well, Published, PublishedBy, InPublish, Before, KeptBy,
     Resting, At, Spared, Loaded
<1>6. OnDisk'
  BY <1>1, <1>2, <1>3 DEF Applied, Well, Published, PublishedBy, Before, KeptBy, OnDisk,
     OnDiskBy, Resting, At, Spared, Loaded
<1>7. Saved'
  BY <1>1, <1>2, <1>3 DEF Applied, Well, Saved, At, Spared
<1>8. Covers'
  <2>1. Spared(Lapses)' => StaysCovered(a)
    BY <1>1, <1>2, <1>3 DEF Applied, Well, Phase, Published, PublishedBy, InPublish, Before,
       KeptBy, At, Spared, Lapses, Covers, CoveredBy, Asking, Waiting, PlanOf, Loaded, Rules,
       StaysCovered
  <2> QED
    BY <1>1, <1>2, <1>3, <2>1, AloneCovers DEF At
<1>9. Effect(a)
  BY <1>1, <1>2, <1>3 DEF Effect, InPublish, At, Applied, Well, Phase
<1> QED
  BY <1>3, <1>4, <1>5, <1>6, <1>7, <1>8, <1>9 DEF Applied

\* It is not, and the old policy is put back ...
LEMMA ShrunkRestores ==
  ASSUME Applied, NEW a \in Applier, Shrunk(a), applier[a].answer # "ok", applier[a].old # NoConfig
  PROVE  Applied' /\ Effect(a)
<1> DEFINE x == applier[a]
           y == [x EXCEPT !.pc = "restore", !.publish = x.old]
<1>1. /\ Moves(a, y) /\ x.pc = "shrinking" /\ x.answer = "error" /\ x.old # NoConfig
     
      /\ UNCHANGED <<policy, selection, disk, acknowledged, mishaps, requests, main>>
  BY DEF Shrunk, Moves, At, Applied, Well, Phase, Answered, Publishing, Fail
<1>2. /\ y.pc = "restore" /\ y.config = x.config /\ y.old = x.old /\ y.oldPlan = x.oldPlan
      /\ y.stage = "trust" /\ y.publish = x.old /\ Phase(y)
  BY <1>1 DEF Applied, Well, Phase, Places, Loadable
<1> HIDE DEF y
<1>3. /\ Well' /\ Single'
      /\ applier'[a] = y /\ \A b \in Applier \ {a} : applier'[b] = applier[b]
      /\ Spared({"overlap"})' => \A b \in Applier \ {a} : At(b, "idle") /\ At(b, "idle")'
  BY <1>1, <1>2, ThreadMoves DEF At, Applied, Well
<1>4. Published'
  BY <1>1, <1>2, <1>3 DEF Applied, Well, Published, PublishedBy, InPublish, At, Spared, Loaded
<1>5. Before'
  BY <1>1, <1>2, <1>3 DEF Applied, Well, Published, PublishedBy, InPublish, Before, KeptBy,
     Resting, At, Spared, Loaded
<1>6. OnDisk'
  BY <1>1, <1>2, <1>3 DEF Applied, Well, Published, PublishedBy, Before, KeptBy, OnDisk,
     OnDiskBy, Resting, At, Spared, Loaded
<1>7. Saved'
  BY <1>1, <1>2, <1>3 DEF Applied, Well, Saved, At, Spared
<1>8. Covers'
  <2>1. Spared(Lapses)' => StaysCovered(a)
    BY <1>1, <1>2, <1>3 DEF Applied, Well, Phase, Published, PublishedBy, InPublish, Before,
       KeptBy, At, Spared, Lapses, Covers, CoveredBy, Asking, Waiting, PlanOf, Loaded, Rules,
       StaysCovered
  <2> QED
    BY <1>1, <1>2, <1>3, <2>1, AloneCovers DEF At
<1>9. Effect(a)
  BY <1>1, <1>2, <1>3 DEF Effect, InPublish, At, Applied, Well, Phase
<1> QED
  BY <1>3, <1>4, <1>5, <1>6, <1>7, <1>8, <1>9 DEF Applied

\* ... if there was one.
LEMMA ShrunkFails ==
  ASSUME Applied, NEW a \in Applier, Shrunk(a), applier[a].answer # "ok", applier[a].old = NoConfig
  PROVE  Applied' /\ Effect(a)
<1> DEFINE x == applier[a]
           y == NoRequest
<1>1. /\ Moves(a, y) /\ x.pc = "shrinking" /\ x.answer = "error"
      /\ UNCHANGED <<policy, selection, disk, acknowledged, requests, main>>
      /\ mishaps' = mishaps \union {"kept"}
  BY DEF Shrunk, Moves, At, Applied, Well, Phase, Answered, Publishing, Fail, Mishap
<1>2. y.pc = "idle" /\ Phase(y)
  BY <1>1 DEF Applied, Well, Phase, Places, NoRequest, Loadable
<1> HIDE DEF y
<1>3. /\ Well' /\ Single'
      /\ applier'[a] = y /\ \A b \in Applier \ {a} : applier'[b] = applier[b]
      /\ Spared({"overlap"})' => \A b \in Applier \ {a} : At(b, "idle") /\ At(b, "idle")'
  BY <1>1, <1>2, ThreadMoves DEF At, Applied, Well
<1>4. Published'
  BY <1>1, <1>2, <1>3 DEF Applied, Well, Published, PublishedBy, InPublish, At, Spared, Loaded
<1>5. Before'
  BY <1>1, <1>2, <1>3 DEF Applied, Well, Published, PublishedBy, InPublish, Before, KeptBy,
     Resting, At, Spared, Loaded
<1>6. OnDisk'
  BY <1>1, <1>2, <1>3 DEF Applied, Well, Published, PublishedBy, Before, KeptBy, OnDisk,
     OnDiskBy, Resting, At, Spared, Loaded
<1>7. Saved'
  BY <1>1, <1>2, <1>3 DEF Applied, Well, Saved, At, Spared
<1>8. Covers'
  <2>1. Spared(Lapses)' => StaysCovered(a)
    BY <1>1, <1>2, <1>3 DEF Applied, Well, Phase, Published, PublishedBy, InPublish, Before,
       KeptBy, At, Spared, Lapses, Covers, CoveredBy, Asking, Waiting, PlanOf, Loaded, Rules,
       StaysCovered
  <2> QED
    BY <1>1, <1>2, <1>3, <2>1, AloneCovers DEF At
<1>9. Effect(a)
  BY <1>1, <1>2, <1>3 DEF Effect, InPublish, At, Applied, Well, Phase
<1> QED
  BY <1>3, <1>4, <1>5, <1>6, <1>7, <1>8, <1>9 DEF Applied

\* After a failed write the old policy is put back ...
LEMMA ReexpandedRollsBack ==
  ASSUME Applied, NEW a \in Applier, Reexpanded(a), applier[a].old # NoConfig
  PROVE  Applied' /\ Effect(a)
<1> DEFINE x == applier[a]
           y == [x EXCEPT !.pc = "rollback", !.publish = x.old]
<1>1. /\ Moves(a, y) /\ x.pc = "reexpanding" /\ x.answer # "none" /\ x.old # NoConfig
      /\ UNCHANGED <<policy, selection, disk, acknowledged, requests, main>>
      /\ mishaps \subseteq mishaps' /\ (x.answer = "error" => "narrow" \in mishaps')
  BY DEF Reexpanded, Moves, At, Applied, Well, Phase, Publishing, Fail
<1>2. /\ y.pc = "rollback" /\ y.config = x.config /\ y.old = x.old /\ y.oldPlan = x.oldPlan
      /\ y.stage = "trust" /\ y.publish = x.old /\ Phase(y)
  BY <1>1 DEF Applied, Well, Phase, Places, Loadable
<1> HIDE DEF y
<1>3. /\ Well' /\ Single'
      /\ applier'[a] = y /\ \A b \in Applier \ {a} : applier'[b] = applier[b]
      /\ Spared({"overlap"})' => \A b \in Applier \ {a} : At(b, "idle") /\ At(b, "idle")'
  BY <1>1, <1>2, ThreadMoves DEF At, Applied, Well
<1>4. Published'
  BY <1>1, <1>2, <1>3 DEF Applied, Well, Published, PublishedBy, InPublish, At, Spared, Loaded
<1>5. Before'
  BY <1>1, <1>2, <1>3 DEF Applied, Well, Published, PublishedBy, InPublish, Before, KeptBy,
     Resting, At, Spared, Loaded
<1>6. OnDisk'
  BY <1>1, <1>2, <1>3 DEF Applied, Well, Published, PublishedBy, Before, KeptBy, OnDisk,
     OnDiskBy, Resting, At, Spared, Loaded
<1>7. Saved'
  BY <1>1, <1>2, <1>3 DEF Applied, Well, Saved, At, Spared
<1>8. Covers'
  <2>1. Spared(Lapses)' => StaysCovered(a)
    BY <1>1, <1>2, <1>3 DEF Applied, Well, Phase, Published, PublishedBy, InPublish, Before,
       KeptBy, At, Spared, Lapses, Covers, CoveredBy, Asking, Waiting, PlanOf, Loaded, Rules,
       StaysCovered
  <2> QED
    BY <1>1, <1>2, <1>3, <2>1, AloneCovers DEF At
<1>9. Effect(a)
  BY <1>1, <1>2, <1>3 DEF Effect, InPublish, At, Applied, Well, Phase
<1> QED
  BY <1>3, <1>4, <1>5, <1>6, <1>7, <1>8, <1>9 DEF Applied

\* ... if there was one.
LEMMA ReexpandedFails ==
  ASSUME Applied, NEW a \in Applier, Reexpanded(a), applier[a].old = NoConfig
  PROVE  Applied' /\ Effect(a)
<1> DEFINE x == applier[a]
           y == NoRequest
<1>1. /\ Moves(a, y) /\ x.pc = "reexpanding" /\ x.answer # "none"
      /\ UNCHANGED <<policy, selection, disk, acknowledged, requests, main>>
      /\ mishaps \subseteq mishaps' /\ "kept" \in mishaps'
  BY DEF Reexpanded, Moves, At, Applied, Well, Phase, Publishing, Fail
<1>2. y.pc = "idle" /\ Phase(y)
  BY <1>1 DEF Applied, Well, Phase, Places, NoRequest, Loadable
<1> HIDE DEF y
<1>3. /\ Well' /\ Single'
      /\ applier'[a] = y /\ \A b \in Applier \ {a} : applier'[b] = applier[b]
      /\ Spared({"overlap"})' => \A b \in Applier \ {a} : At(b, "idle") /\ At(b, "idle")'
  BY <1>1, <1>2, ThreadMoves DEF At, Applied, Well
<1>4. Published'
  BY <1>1, <1>2, <1>3 DEF Applied, Well, Published, PublishedBy, InPublish, At, Spared, Loaded
<1>5. Before'
  BY <1>1, <1>2, <1>3 DEF Applied, Well, Published, PublishedBy, InPublish, Before, KeptBy,
     Resting, At, Spared, Loaded
<1>6. OnDisk'
  BY <1>1, <1>2, <1>3 DEF Applied, Well, Published, PublishedBy, Before, KeptBy, OnDisk,
     OnDiskBy, Resting, At, Spared, Loaded
<1>7. Saved'
  BY <1>1, <1>2, <1>3 DEF Applied, Well, Saved, At, Spared
<1>8. Covers'
  <2>1. Spared(Lapses)' => StaysCovered(a)
    BY <1>1, <1>2, <1>3 DEF Applied, Well, Phase, Published, PublishedBy, InPublish, Before,
       KeptBy, At, Spared, Lapses, Covers, CoveredBy, Asking, Waiting, PlanOf, Loaded, Rules,
       StaysCovered
  <2> QED
    BY <1>1, <1>2, <1>3, <2>1, AloneCovers DEF At
<1>9. Effect(a)
  BY <1>1, <1>2, <1>3 DEF Effect, InPublish, At, Applied, Well, Phase
<1> QED
  BY <1>3, <1>4, <1>5, <1>6, <1>7, <1>8, <1>9 DEF Applied

-----------------------------------------------------------------------------
\* A request arrives.
LEMMA ServeKeeps ==
  ASSUME Applied, NEW a \in Applier, NEW c \in Config, Serve(a, c)
  PROVE  Applied'
<1> DEFINE y == [NoRequest EXCEPT !.pc = "start", !.config = c]
<1>1. /\ Moves(a, y) /\ At(a, "idle")
      /\ UNCHANGED <<policy, selection, disk, acknowledged, requests>>
      /\ (mishaps' = mishaps /\ Resting) \/ mishaps' = mishaps \union {"overlap"}
  BY DEF Serve, Moves, Resting, Mishap
<1>2. y.pc = "start" /\ y.stage = "trust" /\ y.config = c /\ y.answer = "none" /\ Phase(y)
  BY DEF NoRequest, Phase, Places, Loadable
<1> HIDE DEF y
<1>3. DOMAIN applier' = Applier /\ applier'[a] = y /\ \A b \in Applier \ {a} : applier'[b] = applier[b]
  BY <1>1 DEF Applied, Well, Moves
<1>4. Well'
  BY <1>1, <1>2, <1>3, WellMoves DEF Applied, Well
<1>5. Single'
  BY <1>1, <1>2, <1>3 DEF Single, Spared, At, Resting
<1>6. Published'
  BY <1>1, <1>2, <1>3 DEF Applied, Published, PublishedBy, InPublish, At, Spared, Resting
<1>7. Before'
  BY <1>1, <1>2, <1>3 DEF Applied, Before, KeptBy, InPublish, At, Spared, Resting
<1>8. OnDisk'
  BY <1>1, <1>2, <1>3 DEF Applied, OnDisk, OnDiskBy, At, Spared, Resting
<1>9. Saved'
  BY <1>1, <1>2, <1>3 DEF Applied, Saved, At, Spared, Resting
<1>10. Covers'
  BY <1>1, <1>2, <1>3 DEF Applied, Covers, CoveredBy, Asking, Waiting, Lapses, At, Spared, Resting
<1> QED
  BY <1>4, <1>5, <1>6, <1>7, <1>8, <1>9, <1>10 DEF Applied

\* The main loop answers.
Answers ==
  /\ DOMAIN applier' = Applier /\ UNCHANGED <<policy, disk, acknowledged>>
  /\ selection' \in [native : {selection'.native}, active : {selection'.active}]
  /\ mishaps \subseteq mishaps'
  /\ \A b \in Applier : LET x == applier[b] y == applier'[b] IN
       /\ y.pc = x.pc /\ y.config = x.config /\ y.old = x.old /\ y.oldPlan = x.oldPlan
       /\ y.publish = x.publish /\ y.stage = x.stage /\ Phase(y)

\* The reply to an update is such an answer.
LEMMA ReplyAnswers ==
  ASSUME Applied, NEW answer \in {"ok", "error"}, Reply(answer), UNCHANGED <<policy, disk, acknowledged>>,
         selection' \in [native : {selection'.native}, active : {selection'.active}],
         mishaps \subseteq mishaps'
  PROVE  Answers
<1>1. applier' = applier \/ \E b \in Applier : applier' = [applier EXCEPT ![b].answer = answer]
  BY DEF Reply
<1>2. CASE applier' = applier
  BY <1>2 DEF Answers, Applied, Well
<1>3. ASSUME NEW b \in Applier, applier' = [applier EXCEPT ![b].answer = answer]
      PROVE  Answers
  <2>1. DOMAIN applier' = Applier /\ \A d \in Applier : applier'[d] = IF d = b THEN [applier[b] EXCEPT !.answer = answer] ELSE applier[d]
    BY <1>3 DEF Applied, Well, Phase
  <2>2. Phase(applier[b])
    BY DEF Applied, Well
  <2> DEFINE x == applier[b]
             y == [x EXCEPT !.answer = answer]
  <2>3. /\ y.pc = x.pc /\ y.config = x.config /\ y.old = x.old /\ y.oldPlan = x.oldPlan
        /\ y.publish = x.publish /\ y.stage = x.stage /\ Phase(y)
    BY <2>2 DEF Phase
  <2> HIDE DEF y
  <2>4. applier'[b] = y /\ \A d \in Applier \ {b} : applier'[d] = applier[d]
    BY <2>1 DEF y
  <2> QED
    BY <2>1, <2>3, <2>4 DEF Answers, Applied, Well
<1> QED
  BY <1>1, <1>2, <1>3

\* What the one thread that waits asked for is selected, or nothing changes.
LEMMA AnswerCovers ==
  ASSUME Applied, NEW answer \in {"ok", "error"}, Reply(answer), requests # <<>>, UNCHANGED <<policy, mishaps>>,
         selection' = IF answer = "error" THEN selection
                      ELSE [native |-> (selection.native \union Additions) \ Removals, active |-> Head(requests).plan]
  PROVE  Covers'
<1> SUFFICES ASSUME Spared(Lapses)' PROVE Covers'
  BY DEF Covers
<1>1. Spared(Lapses) /\ Spared({"overlap"}) /\ Spared({"overlap", "repair"}) /\ Spared({"overlap", "repair", "unrestored"})
  BY DEF Spared, Lapses
<1>2. PICK a \in Applier : Asking(a) /\ requests = <<[by |-> a, plan |-> PlanOf(applier[a])]>>
  BY <1>1 DEF Applied, Covers
<1> DEFINE x == applier[a]
           y == [x EXCEPT !.answer = answer]
<1>3. requests' = <<>> /\ Head(requests).plan = PlanOf(x) /\ applier' = [applier EXCEPT ![a].answer = answer]
  <2> DEFINE message == [by |-> a, plan |-> PlanOf(x)]
  <2>1. message.by = a /\ message.plan = PlanOf(x)
    OBVIOUS
  <2> HIDE DEF message
  <2>2. Head(<<message>>) = message /\ Tail(<<message>>) = <<>>
    OBVIOUS
  <2>3. requests = <<message>>
    BY <1>2 DEF message
  <2> QED
    BY <2>1, <2>2, <2>3 DEF Reply
<1>4. /\ y.pc = x.pc /\ y.config = x.config /\ y.oldPlan = x.oldPlan /\ y.answer = answer
      /\ x.config \in Config /\ x.config # NoConfig
  BY <1>2, ConfigAssumption DEF Applied, Well, Phase, Asking, Waiting
<1> HIDE DEF y
<1>5. applier'[a] = y /\ \A b \in Applier \ {a} : applier'[b] = applier[b] /\ At(b, "idle")
  BY <1>1, <1>2, <1>3 DEF Applied, Well, Single, y, Asking, Waiting, At
<1>6. selection' = selection \/ (answer = "ok" /\ selection'.native = PlanOf(x) /\ selection'.active = PlanOf(x))
  BY <1>1, <1>3 DEF Applied, Covers, Additions, Removals
<1>7. policy.index \subseteq PlanOf(x)
  BY <1>1, <1>2, <1>4 DEF Applied, Published, PublishedBy, Before, KeptBy, At, Asking, Waiting,
     PlanOf, Loaded, Rules
<1>8. \A b \in Applier \ {a} : CoveredBy(b)'
  BY <1>5 DEF CoveredBy, At
<1>9. CoveredBy(a)'
  BY <1>1, <1>2, <1>4, <1>5, <1>6 DEF Applied, Covers, CoveredBy, Asking, Waiting, PlanOf
<1> QED
  BY <1>1, <1>3, <1>6, <1>7, <1>8, <1>9 DEF Applied, Covers

\* Answers disturb nothing else.
LEMMA AnswersKeep ==
  ASSUME Applied, Answers, Covers'
  PROVE  Applied'
<1>0. /\ \A b \in Applier, pc \in Places : At(b, pc)' <=> At(b, pc)
      /\ \A kinds : Spared(kinds)' => Spared(kinds)
  BY DEF Answers, At, Spared
<1>1. Well'
  BY DEF Answers, Applied, Well
<1>2. Single'
  BY DEF Answers, Applied, Single, Spared, At
<1>3. Published'
  BY DEF Answers, Applied, Published, PublishedBy, InPublish, Spared, At
<1>4. Before'
  BY DEF Answers, Applied, Before, KeptBy, Resting, Spared, At
<1>5. OnDisk'
  BY DEF Answers, Applied, OnDisk, OnDiskBy, Resting, Spared, At
<1>6. Saved'
  BY DEF Answers, Applied, Saved, Spared, At
<1> QED
  BY <1>1, <1>2, <1>3, <1>4, <1>5, <1>6 DEF Applied

\* A copy of the index is put in place: the same, or "repair" is noted.
LEMMA EndRepairKeeps ==
  ASSUME Applied, EndRepair
  PROVE  Applied'
<1>1. /\ UNCHANGED <<selection, disk, applier, acknowledged, requests>>
      /\ policy' = [policy EXCEPT !.index = main.copy]
      /\ (policy.index = main.copy /\ mishaps' = mishaps) \/ mishaps' = mishaps \union {"repair"}
  BY DEF EndRepair, Mishap
<1>2. policy' \in [config : Loadable, trust : {policy'.trust}, index : {policy'.index}]
  BY <1>1 DEF Applied, Well
<1>3. (policy' = policy /\ mishaps' = mishaps) \/ ("repair" \in mishaps' /\ mishaps \subseteq mishaps')
  BY <1>1 DEF Applied, Well
<1>4. Well'
  BY <1>1, <1>2 DEF Applied, Well
<1>5. Single'
  BY <1>1, <1>3 DEF Applied, Single, Spared, At
<1>6. Published'
  BY <1>1, <1>3 DEF Applied, Published, PublishedBy, InPublish, Spared, At
<1>7. Before'
  BY <1>1, <1>3 DEF Applied, Before, KeptBy, Resting, Spared, At
<1>8. OnDisk'
  BY <1>1, <1>3 DEF Applied, OnDisk, OnDiskBy, Resting, Spared, At
<1>9. Saved'
  BY <1>1, <1>3 DEF Applied, Saved, Spared, At
<1>10. Covers'
  BY <1>1, <1>3 DEF Applied, Covers, CoveredBy, Asking, Waiting, PlanOf, Spared, Lapses
<1> QED
  BY <1>4, <1>5, <1>6, <1>7, <1>8, <1>9, <1>10 DEF Applied

\* A state in which the extension has just started.
LEMMA FreshIsApplied ==
  ASSUME NEW c \in Loadable, policy = Loaded(c), selection = [native |-> Rules(c), active |-> Rules(c)],
         disk = [file |-> c, durable |-> {c}], applier = [a \in Applier |-> NoRequest],
         acknowledged = c, mishaps = {}, requests = <<>>
  PROVE  Applied
<1>1. Phase(NoRequest) /\ NoRequest.pc = "idle"
  BY DEF Phase, NoRequest, Places, Loadable
<1>2. \A a \in Applier : At(a, "idle")
  BY <1>1 DEF At
<1>3. Well
  BY <1>1 DEF Well, Loaded, Loadable
<1>4. Single
  BY <1>2 DEF Single
<1>5. Published
  BY <1>1 DEF Published, PublishedBy, InPublish, At
<1>6. Before
  BY <1>1 DEF Before, KeptBy, InPublish, At, Loaded
<1>7. OnDisk
  BY <1>1 DEF OnDisk, OnDiskBy, At, Loaded
<1>8. Saved
  BY <1>1, <1>2 DEF Saved, At
<1>9. Covers
  BY <1>1, <1>2 DEF Covers, CoveredBy, At, Loaded
<1> QED
  BY <1>3, <1>4, <1>5, <1>6, <1>7, <1>8, <1>9 DEF Applied

-----------------------------------------------------------------------------
\* Steps that change nothing of this.
core == <<policy, selection, disk, requests, applier, acknowledged, mishaps>>

\* ... keep the invariant.
LEMMA CoreKeeps ==
  ASSUME Applied, UNCHANGED core
  PROVE  Applied'
BY DEF core, Applied, Well, Single, Published, PublishedBy, InPublish, Before, KeptBy, Resting, OnDisk,
       OnDiskBy, Saved, Covers, CoveredBy, Asking, Waiting, Spared, At

\* The extension starts,
LEMMA InitIsApplied == Init => Applied
<1> SUFFICES ASSUME Init PROVE Applied
  OBVIOUS
<1>1. PICK c \in Installed : /\ policy = Loaded(c)
                             /\ selection = [native |-> Rules(c), active |-> Rules(c)]
                             /\ disk = [file |-> c, durable |-> {c}]
  BY DEF Init
<1>2. c \in Loadable
  BY ConfigAssumption DEF Loadable
<1> QED
  BY <1>1, <1>2, FreshIsApplied DEF Init, Loaded

\* ... and starts again after a power loss.
LEMMA RestartKeeps ==
  ASSUME Applied, Restart
  PROVE  Applied'
<1>1. PICK c \in disk.durable : /\ disk' = [file |-> c, durable |-> {c}]
                                /\ policy' = Loaded(c)
                                /\ selection' = [native |-> Rules(c), active |-> Rules(c)]
  BY DEF Restart
<1>2. c \in Loadable
  BY <1>1 DEF Applied, Well
<1>3. /\ applier' = [a \in Applier |-> NoRequest] /\ acknowledged' = c /\ mishaps' = {} /\ requests' = <<>>
  BY <1>1 DEF Restart, Loaded
<1>4. Phase(NoRequest) /\ NoRequest.pc = "idle"
  BY DEF Phase, NoRequest, Places, Loadable
<1>5. Well'
  BY <1>1, <1>2, <1>3, <1>4 DEF Well, Loaded, Loadable
<1>6. Single'
  BY <1>3, <1>4 DEF Single, At
<1>7. Published'
  BY <1>3, <1>4 DEF Published, PublishedBy, InPublish, At
<1>8. Before'
  BY <1>1, <1>3, <1>4 DEF Before, KeptBy, InPublish, At, Loaded
<1>9. OnDisk'
  BY <1>1, <1>3, <1>4 DEF OnDisk, OnDiskBy, At, Loaded
<1>10. Saved'
  BY <1>1, <1>3, <1>4 DEF Saved, At
<1>11. Covers'
  BY <1>1, <1>3, <1>4 DEF Covers, CoveredBy, At, Loaded
<1> QED
  BY <1>5, <1>6, <1>7, <1>8, <1>9, <1>10, <1>11 DEF Applied

\* A thread goes on.
LEMMA AdvanceKeeps ==
  ASSUME Applied, NEW a \in Applier, Advance(a)
  PROVE  Applied' /\ Effect(a)
<1>1. CASE Expanded(a)
  BY <1>1, ExpandedPublishes, ExpandedFails
<1>2. CASE Shrunk(a)
  BY <1>2, ShrunkWrites, ShrunkRestores, ShrunkFails
<1>3. CASE Reexpanded(a)
  BY <1>3, ReexpandedRollsBack, ReexpandedFails
<1> QED
  BY <1>1, <1>2, <1>3, ReadOldKeeps, ExpandKeeps, PublishTrustKeeps, PublishIndexKeeps,
     PublishConfigKeeps, ShrinkKeeps, FailedKeeps, RenameKeeps, SyncKeeps, ReshrinkKeeps, ReshrunkKeeps
     DEF Advance

\* What a step of the main loop can have done: it answers, or repairs the index.
LoopStep ==
  /\ \A b \in Applier : LET x == applier[b] y == applier'[b] IN
       y.pc = x.pc /\ y.config = x.config /\ y.old = x.old /\ y.publish = x.publish
  /\ mishaps \subseteq mishaps' /\ UNCHANGED disk
  /\ \/ policy' = policy
     \/ "repair" \in mishaps' /\ policy'.config = policy.config /\ policy'.index = main.copy
  /\ main'.copy \in {main.copy, policy.index, {}}

\* The main loop goes on.
LEMMA MainKeeps ==
  ASSUME Applied, Main \/ RefuseSelection \/ RefusePartway
  PROVE  Applied' /\ LoopStep
<1>1. CASE UpdateSelection
  <2>1. Answers
    BY <1>1, ReplyAnswers DEF UpdateSelection
  <2>2. Covers'
    BY <1>1, AnswerCovers DEF UpdateSelection
  <2>3. LoopStep
    BY <1>1, <2>1 DEF LoopStep, Answers, UpdateSelection
  <2> QED
    BY <2>1, <2>2, <2>3, AnswersKeep
<1>2. CASE BeginRepair
  BY <1>2, CoreKeeps DEF BeginRepair, core, LoopStep
<1>3. CASE EndRepair
  <2>1. LoopStep
    BY <1>3 DEF LoopStep, EndRepair, Mishap, Applied, Well
  <2> QED
    BY <1>3, <2>1, EndRepairKeeps
<1>4. CASE RefuseSelection
  <2>1. Answers
    BY <1>4, ReplyAnswers DEF RefuseSelection, Applied, Well
  <2>2. Covers'
    BY <1>4, AnswerCovers DEF RefuseSelection
  <2>3. LoopStep
    BY <1>4, <2>1 DEF LoopStep, Answers, RefuseSelection
  <2> QED
    BY <2>1, <2>2, <2>3, AnswersKeep
<1>5. CASE RefusePartway
  <2>1. selection' \in [native : {selection'.native}, active : {selection'.active}]
    BY <1>5 DEF RefusePartway, Applied, Well
  <2>2. Answers
    BY <1>5, <2>1, ReplyAnswers DEF RefusePartway, Mishap
  <2>3. Covers'
    BY <1>5 DEF RefusePartway, Mishap, Covers, Spared, Lapses
  <2>4. LoopStep
    BY <1>5, <2>2 DEF LoopStep, Answers, RefusePartway
  <2> QED
    BY <2>2, <2>3, <2>4, AnswersKeep
<1> QED
  BY <1>1, <1>2, <1>3, <1>4, <1>5 DEF Main

\* What clients ask for.
Asked == Offered \union {Rules(policy.config) \union {key} : key \in Keys}

\* ... are configurations.
LEMMA AskedIsConfig ==
  ASSUME Applied
  PROVE  Asked \subseteq Config
BY ConfigAssumption DEF Asked, Applied, Well, Loadable, Rules, Config

\* Every step keeps the invariant, and is of one of four kinds.
LEMMA NextKeeps ==
  ASSUME Applied, Next
  PROVE  /\ Applied'
         /\ \/ LoopStep \/ Restart
            \/ \E a \in Applier : Effect(a) \/ \E c \in Asked : Serve(a, c)
<1>1. ASSUME NEW a \in Applier, NEW c \in Offered, Apply(a, c)
      PROVE  Applied' /\ c \in Asked /\ Serve(a, c)
  BY <1>1, ServeKeeps, ConfigAssumption DEF Apply, Asked
<1>2. ASSUME NEW a \in Applier, NEW key \in Keys, Protect(a, key)
      PROVE  Applied' /\ \E c \in Asked : Serve(a, c)
  <2> DEFINE c == Rules(policy.config) \union {key}
  <2>1. c \in Asked
    BY DEF Asked
  <2>2. Serve(a, c)
    BY <1>2 DEF Protect
  <2> HIDE DEF c
  <2> QED
    BY <2>1, <2>2, AskedIsConfig, ServeKeeps
<1>3. ASSUME NEW a \in Applier, GiveUp(a) \/ PublishFails(a) \/ WriteFails(a) \/ SyncFails(a)
      PROVE  Applied' /\ Effect(a)
  BY <1>3, GiveUpKeeps, PublishRefused, RestoreRefused, WriteFailsKeeps, SyncFailsKeeps
<1>4. CASE RequestRefresh
  BY <1>4, CoreKeeps DEF RequestRefresh, core, LoopStep
<1> QED
  BY <1>1, <1>2, <1>3, <1>4, AdvanceKeeps, MainKeeps, RestartKeeps DEF Next

-----------------------------------------------------------------------------
\* What a thread that ends leaves behind.
LEMMA EndsAllOrNothing ==
  ASSUME Applied, NEW a \in Applier, Effect(a)
  PROVE  AllOrNothing
<1> DEFINE x == applier[a]
<1>1. ASSUME Succeeds(a), Spared({"overlap", "repair"}) PROVE InForce(x.config)
  BY <1>1 DEF Effect, Succeeds, InForce, At, Applied, Published, PublishedBy, InPublish
<1>2. ASSUME Fails(a), x.old # NoConfig, Spared({"overlap", "unrestored", "repair", "unsynced", "kept"})
      PROVE  InForce(x.old)
  <2>1. Spared({"overlap", "repair", "unrestored"})
    BY <1>2 DEF Spared
  <2>2. policy' = policy /\ disk' = disk
    BY <1>2 DEF Effect, Fails
  <2>3. \/ x.pc \in {"expanding", "failed", "reshrinking"} \/ (x.pc = "publish" /\ x.stage = "trust")
    BY <1>2 DEF Effect, Fails
  <2>4. policy = Loaded(x.old)
    BY <2>1, <2>3 DEF Applied, Before, KeptBy, At
  <2>5. disk.file = x.old
    BY <1>2, <2>3 DEF Applied, OnDisk, OnDiskBy, Spared
  <2> QED
    BY <2>2, <2>4, <2>5 DEF InForce
<1>3. \A b \in Applier \ {a} : ~Succeeds(b) /\ ~Fails(b)
  BY DEF Effect, Succeeds, Fails, At
<1> QED
  BY <1>1, <1>2, <1>3 DEF AllOrNothing

\* A step that ends no request,
LEMMA NobodyEnds ==
  ASSUME \A b \in Applier : applier'[b].pc = "idle" => applier[b].pc = "idle"
  PROVE  AllOrNothing
BY DEF AllOrNothing, Succeeds, Fails, At

\* ... such as one that begins one.
LEMMA ServedDoesNotEnd ==
  ASSUME Applied, NEW a \in Applier, NEW c, Serve(a, c)
  PROVE  AllOrNothing
<1>1. \A b \in Applier : applier'[b].pc = "idle" => applier[b].pc = "idle"
  BY DEF Serve, Applied, Well, NoRequest, At
<1> QED
  BY <1>1, NobodyEnds

\* So a step of the service is all or nothing.
LEMMA NextIsAllOrNothing ==
  ASSUME Applied, Next
  PROVE  AllOrNothing
<1>1. CASE Restart
  BY <1>1 DEF AllOrNothing
<1>2. CASE LoopStep
  BY <1>2, NobodyEnds DEF LoopStep
<1> QED
  BY <1>1, <1>2, NextKeeps, EndsAllOrNothing, ServedDoesNotEnd

-----------------------------------------------------------------------------
\* The acceptance run beside it.
TestPlaces == {"idle", "staging", "checking", "restoring", "ended"}

\* What the run asks for.
Sought == IF test.pc = "staging" THEN WithFixture(test.original) ELSE test.original

\* Its shape, and the thread that serves it.
TestWell ==
  /\ test \in [pc : TestPlaces, original : Loadable, by : Applier \union {Nobody},
               answer : {"none", "ok", "error"}, verdict : {test.verdict}, lost : BOOLEAN]
  /\ test.pc # "idle" => test.original \in Config
  /\ test.pc \in {"idle", "checking"} => test.answer = "none"
  /\ test.by # Nobody => /\ test.pc \in {"staging", "restoring"} /\ test.answer = "none"
                         /\ ~At(test.by, "idle") /\ applier[test.by].config = Sought

\* Nothing of the fixture, in the policy, in the file or in a request.
Free(c) == Fixture \notin Rules(c)

\* Nowhere that can come into force.
Clean ==
  /\ Fixture \notin policy.index /\ Free(policy.config) /\ \A c \in disk.durable : Free(c)
  /\ \A a \in Applier : LET x == applier[a] IN
       x.pc # "idle" => Free(x.config) /\ Free(x.old) /\ Free(x.publish)

\* ... where an older copy could come back from, too.
Untouched == Clean /\ Free(disk.file) /\ Fixture \notin main.copy

\* While a thread adds the fixture: only its own configuration holds it.
Aside(a) == LET x == applier[a] IN
  /\ IF x.pc = "start" THEN Free(policy.config) /\ policy.config # NoConfig
     ELSE Free(x.old) /\ x.old # NoConfig
  /\ x.pc # "sync" => \A c \in disk.durable : Free(c)

\* What the run does not make good.
Stains == {"overlap", "unrestored", "repair", "unsynced"}

\* Where the fixture can be.
TestClean ==
  /\ test.pc = "idle" => Untouched
  /\ test.pc # "idle" => Free(test.original)
  /\ ~test.lost /\ Spared(Stains) =>
       /\ test.pc = "staging" /\ test.by = Nobody /\ test.answer # "ok" => Clean /\ policy.config # NoConfig
       /\ test.pc = "restoring" /\ test.answer = "ok" => Clean
       /\ test.pc = "staging" /\ test.by # Nobody => Aside(test.by)

\* Other clients do not bring it in.
LEMMA AskedIsFree ==
  ASSUME Free(policy.config), NEW c \in Asked
  PROVE  Free(c)
BY AcceptanceAssumption, ConfigAssumption DEF Asked, Free, Rules

\* What is clean stays clean, without the run,
LEMMA CleanStays ==
  ASSUME Applied, Clean, Next, ~Restart, Spared(Stains)' \/ Untouched
  PROVE  Clean'
<1>1. CASE LoopStep
  BY <1>1 DEF LoopStep, Clean, Untouched, Spared, Stains
<1>2. ASSUME NEW a \in Applier, Effect(a) PROVE Clean'
  <2> DEFINE x == applier[a]
             y == applier'[a]
  <2>1. Free(x.config) /\ Free(x.old) /\ Free(x.publish)
    BY <1>2 DEF Effect, Clean
  <2>2. Fixture \notin policy'.index /\ Free(policy'.config)
    BY <1>2, <2>1 DEF Effect, Clean, Free
  <2>3. y.pc # "idle" => Free(y.config) /\ Free(y.old) /\ Free(y.publish)
    BY <1>2, <2>1 DEF Effect, Clean
  <2>4. x.pc = "sync" => Free(disk.file) \/ ~Spared(Stains)'
    <3>1. Spared(Stains)' => Spared({"overlap", "repair"})
      BY <1>2 DEF Effect, Spared, Stains
    <3>2. Spared({"overlap", "repair"}) /\ x.pc = "sync" => disk.file = x.config
      BY DEF Applied, Published, PublishedBy, At
    <3> QED
      BY <2>1, <3>1, <3>2
  <2>5. \A c \in disk'.durable : Free(c)
    BY <1>2, <2>1, <2>4 DEF Effect, Clean, Untouched
  <2> QED
    BY <1>2, <2>2, <2>3, <2>5 DEF Effect, Clean
<1>3. ASSUME NEW a \in Applier, NEW c \in Asked, Serve(a, c) PROVE Clean'
  <2>1. Free(c) /\ Free(NoConfig)
    BY AskedIsFree DEF Clean, Free, Rules
  <2>2. applier' = [applier EXCEPT ![a] = [NoRequest EXCEPT !.pc = "start", !.config = c]] /\ UNCHANGED <<policy, disk>>
    BY <1>3 DEF Serve
  <2>3. \A b \in Applier : applier'[b] = IF b = a THEN [NoRequest EXCEPT !.pc = "start", !.config = c] ELSE applier[b]
    BY <2>2 DEF Applied, Well
  <2> QED
    BY <2>1, <2>2, <2>3 DEF Clean, NoRequest
<1> QED
  BY <1>1, <1>2, <1>3, NextKeeps

\* ... whatever happens, as long as the run has not begun.
LEMMA UntouchedStays ==
  ASSUME Applied, Untouched, Next
  PROVE  Untouched'
<1>1. CASE Restart
  <2>1. PICK c \in disk.durable : disk' = [file |-> c, durable |-> {c}] /\ policy' = Loaded(c)
    BY <1>1 DEF Restart
  <2>2. main'.copy = {} /\ \A a \in Applier : applier'[a].pc = "idle"
    BY <1>1 DEF Restart, NoRequest
  <2> QED
    BY <2>1, <2>2 DEF Untouched, Clean, Loaded, Free
<1>2. CASE ~Restart
  <2>1. Clean'
    BY <1>2, CleanStays DEF Untouched
  <2>2. CASE LoopStep
    BY <2>1, <2>2 DEF LoopStep, Untouched, Clean
  <2>3. ASSUME NEW a \in Applier, Effect(a) PROVE Untouched'
    BY <2>1, <2>3 DEF Effect, Untouched, Clean
  <2>4. ASSUME NEW a \in Applier, NEW c, Serve(a, c) PROVE Untouched'
    BY <2>1, <2>4 DEF Serve, Untouched
  <2> QED
    BY <1>2, <2>2, <2>3, <2>4, NextKeeps
<1> QED
  BY <1>1, <1>2

\* The run asks.
LEMMA RequestKeeps ==
  ASSUME Applied, TestWell, TestClean, Stage \/ PutBack
  PROVE  (Applied /\ TestWell /\ TestClean)' /\ AllOrNothing
<1>1. PICK a \in Applier : Serve(a, Sought) /\ test' = [test EXCEPT !.by = a]
  BY DEF Stage, PutBack, Request, Sought
<1>2. Sought \in Config /\ test.pc \in {"staging", "restoring"} /\ test.by = Nobody /\ test.answer = "none"
  BY AcceptanceAssumption DEF Stage, PutBack, Request, TestWell, WithFixture, Config, Sought
<1>3. Applied' /\ AllOrNothing
  BY <1>1, <1>2, ServeKeeps, ServedDoesNotEnd
<1>4. applier'[a].pc = "start" /\ applier'[a].config = Sought /\ UNCHANGED <<policy, disk>> /\ mishaps \subseteq mishaps'
  BY <1>1 DEF Serve, Applied, Well, NoRequest, Mishap
<1>5. /\ test'.pc = test.pc /\ test'.by = a /\ test'.answer = "none" /\ test'.lost = test.lost
      /\ test'.original = test.original /\ Sought' = Sought
  BY <1>1, <1>2 DEF TestWell, Sought
<1>6. TestWell'
  BY <1>1, <1>2, <1>4, <1>5 DEF TestWell, At
<1>7. TestClean'
  BY <1>2, <1>4, <1>5, AcceptanceAssumption DEF TestClean, Aside, Clean, Spared
<1> QED
  BY <1>3, <1>6, <1>7

\* The thread that serves the run goes on, and its end is heard.
LEMMA HeardKeeps ==
  ASSUME Applied, TestWell, TestClean, Next, Heard
  PROVE  (TestWell /\ TestClean)'
<1> DEFINE served == test.by # Nobody /\ applier'[test.by].pc = "idle"
<1>1. /\ test'.pc = test.pc /\ test'.original = test.original
      /\ test'.by = IF served THEN Nobody ELSE test.by
      /\ test'.answer = IF ~served THEN test.answer ELSE IF Succeeds(test.by) /\ ~Restart THEN "ok" ELSE "error"
      /\ test'.lost = (test.lost \/ (Restart /\ test.pc \in {"staging", "restoring"}))
      /\ test' = [test EXCEPT !.by = test'.by, !.answer = test'.answer, !.lost = test'.lost]
  BY DEF Heard, TestWell
<1>2. test.by \in Applier \union {Nobody} /\ Nobody \notin Applier
  BY AcceptanceAssumption DEF TestWell
<1>3. CASE Restart
  <2>1. \A a \in Applier : applier'[a].pc = "idle"
    BY <1>3 DEF Restart, NoRequest
  <2>2. TestWell'
    BY <1>1, <1>2, <1>3, <2>1 DEF TestWell
  <2>3. test'.pc = "idle" => Untouched'
    BY <1>1, UntouchedStays DEF TestClean
  <2> QED
    BY <1>1, <1>3, <2>2, <2>3 DEF TestClean
<1>4. CASE ~Restart
  <2>0. \/ LoopStep
        \/ \E a \in Applier : Effect(a) \/ \E c \in Asked : Serve(a, c)
    BY <1>4, NextKeeps
  <2>1. ASSUME test.by # Nobody, ~served
        PROVE  applier'[test.by].config = applier[test.by].config
    <3>1. ASSUME NEW a \in Applier, NEW c, Serve(a, c) PROVE applier'[test.by] = applier[test.by]
      BY <1>2, <2>1, <3>1 DEF Serve, TestWell, Applied, Well, At
    <3> QED
      BY <1>2, <2>0, <2>1, <3>1 DEF LoopStep, Effect
  <2>2. TestWell'
    BY <1>1, <1>2, <1>4, <2>1 DEF TestWell, Sought, At
  <2>3. mishaps \subseteq mishaps'
    BY <2>0 DEF LoopStep, Effect, Serve, Mishap
  <2>4. test'.pc = "idle" => Untouched'
    BY <1>1, UntouchedStays DEF TestClean
  <2>5. ASSUME ~test'.lost, Spared(Stains)'
        PROVE  /\ test'.pc = "staging" /\ test'.by = Nobody /\ test'.answer # "ok" => Clean' /\ policy'.config # NoConfig
               /\ test'.pc = "restoring" /\ test'.answer = "ok" => Clean'
               /\ test'.pc = "staging" /\ test'.by # Nobody => Aside(test.by)'
    <3>1. ~test.lost /\ Spared(Stains) /\ Spared({"overlap", "repair"}) /\ Spared({"overlap", "repair", "unrestored"})
      BY <1>1, <2>3, <2>5 DEF Spared, Stains
    <3>2. CASE test.by = Nobody
      <4>1. test'.by = Nobody /\ test'.answer = test.answer
        BY <1>1, <3>2
      <4>2. Clean => Clean'
        BY <1>4, <2>5, CleanStays
      <4>3. policy.config # NoConfig => policy'.config # NoConfig
        <5>1. \A a \in Applier : InPublish(a) => applier[a].publish # NoConfig
          BY <3>1, ConfigAssumption DEF Applied, Well, Phase, Published, PublishedBy, Before,
             KeptBy, InPublish, At
        <5> QED
          BY <2>0, <5>1 DEF LoopStep, Effect, Serve
      <4> QED
        BY <1>1, <3>1, <3>2, <4>1, <4>2, <4>3 DEF TestClean
    <3>3. CASE test.by # Nobody
      <4>0. PICK a \in Applier : test.by = a
        BY <1>2, <3>3
      <4> DEFINE x == applier[a]
      <4>1. x.pc # "idle" /\ test.pc \in {"staging", "restoring"} /\ test.answer = "none" /\ x.config = Sought
        BY <3>3, <4>0 DEF TestWell, At
      <4>2. \A b \in Applier \ {a} : applier[b].pc = "idle"
        BY <3>1, <4>1 DEF Applied, Single, Spared, Stains, At
      <4>3. Effect(a) \/ LoopStep
        <5>1. ASSUME NEW b \in Applier, NEW c, Serve(b, c) PROVE FALSE
          BY <2>5, <4>1, <5>1 DEF Serve, Mishap, Spared, Stains, At
        <5>2. ASSUME NEW b \in Applier, Effect(b) PROVE b = a
          BY <4>2, <5>2 DEF Effect
        <5> QED
          BY <2>0, <5>1, <5>2
      <4>4. CASE LoopStep
        <5>1. test'.by = a /\ test'.answer = "none"
          BY <1>1, <3>3, <4>0, <4>1, <4>4 DEF LoopStep
        <5>2. test.pc = "staging" => Aside(a)
          BY <3>1, <3>3, <4>0 DEF TestClean
        <5>3. Aside(a) => Aside(a)'
          BY <2>5, <4>4 DEF LoopStep, Aside, Spared, Stains
        <5> QED
          BY <1>1, <3>3, <4>0, <5>1, <5>2, <5>3
      <4>5. CASE Effect(a) /\ applier'[a].pc # "idle"
        <5>1. test'.by = a /\ test'.answer = "none"
          BY <1>1, <3>3, <4>0, <4>1, <4>5
        <5>2. test.pc = "staging" => Aside(a)
          BY <3>1, <3>3, <4>0 DEF TestClean
        <5>3. Aside(a) => Aside(a)'
          BY <2>5, <4>1, <4>5 DEF Effect, Aside, Spared, Stains
        <5> QED
          BY <1>1, <3>3, <4>0, <5>1, <5>2, <5>3
      <4>6. CASE Effect(a) /\ applier'[a].pc = "idle"
        <5>1. \A b \in Applier : applier'[b].pc = "idle"
          BY <4>2, <4>6 DEF Effect
        <5>2. CASE x.pc = "sync"
          <6>1. policy' = Loaded(x.config) /\ disk'.durable = {x.config}
            BY <2>5, <3>1, <4>1, <4>6, <5>2 DEF Effect, Applied, Published, PublishedBy,
               InPublish, At, Spared, Stains
          <6>2. test'.answer = "ok"
            BY <1>1, <1>4, <3>3, <4>0, <4>6, <5>2 DEF Succeeds, At
          <6>3. test.pc = "restoring" => Clean'
            BY <4>1, <5>1, <6>1 DEF Clean, TestClean, Loaded, Sought, Free
          <6> QED
            BY <1>1, <1>2, <3>3, <4>0, <4>6, <6>2, <6>3
        <5>3. CASE x.pc # "sync"
          <6>1. test'.answer = "error" /\ test'.by = Nobody
            BY <1>1, <3>3, <4>0, <4>6, <5>3 DEF Succeeds, At
          <6>2. ASSUME test.pc = "staging" PROVE Clean' /\ policy'.config # NoConfig
            <7>1. Aside(a) /\ x.pc # "start"
              BY <3>1, <3>3, <4>0, <4>1, <4>6, <5>3, <6>2 DEF TestClean, Effect
            <7>2. policy' = policy /\ disk' = disk
              BY <4>6, <5>3 DEF Effect
            <7>3. policy = Loaded(x.old) /\ Free(x.old) /\ x.old # NoConfig
              BY <3>1, <4>1, <4>6, <5>3, <7>1 DEF Aside, Effect, Applied, Before, KeptBy, At
            <7> QED
              BY <5>1, <5>3, <7>1, <7>2, <7>3 DEF Clean, Aside, Loaded, Free
          <6> QED
            BY <1>1, <6>1, <6>2
        <5> QED
          BY <5>2, <5>3
      <4> QED
        BY <4>3, <4>4, <4>5, <4>6
    <3> QED
      BY <3>2, <3>3
  <2>6. test'.by # Nobody => test'.by = test.by
    BY <1>1
  <2> QED
    BY <1>1, <2>2, <2>4, <2>5, <2>6 DEF TestClean
<1> QED
  BY <1>3, <1>4

\* The run itself goes on.
LEMMA RunKeeps ==
  ASSUME Applied, TestWell, TestClean, UNCHANGED vars,
         BeginTest \/ Unauthenticated \/ Staged \/ Check \/ Restored
  PROVE  (Applied /\ TestWell /\ TestClean)' /\ AllOrNothing /\ TestLeavesNothing
<1>1. UNCHANGED <<policy, selection, disk, requests, main, applier, acknowledged, mishaps>>
  BY DEF vars
<1>2. Applied' /\ AllOrNothing
  BY <1>1, CoreKeeps, NobodyEnds DEF core
<1>3. /\ (Clean' <=> Clean) /\ (Untouched' <=> Untouched)
      /\ \A a \in Applier : Aside(a)' <=> Aside(a)
      /\ Spared(Stains)' <=> Spared(Stains)
  BY <1>1 DEF Clean, Untouched, Aside, Spared
<1>4. CASE BeginTest
  <2>1. test' = [test EXCEPT !.pc = "staging", !.original = policy.config] /\ test.pc = "idle" /\ policy.config # NoConfig
    BY <1>4 DEF BeginTest
  <2>2. policy.config \in Config
    BY <2>1 DEF Applied, Well, Loadable
  <2>3. TestWell'
    BY <2>1, <2>2 DEF TestWell, TestPlaces, Loadable
  <2>4. TestClean'
    BY <1>1, <1>3, <2>1, <2>3 DEF TestWell, TestClean, Untouched, Clean
  <2> QED
    BY <1>2, <2>1, <2>3, <2>4 DEF TestLeavesNothing, TestWell
<1>5. CASE Unauthenticated
  <2>1. test' = [test EXCEPT !.answer = "error"] /\ test.pc \in {"staging", "restoring"} /\ test.by = Nobody /\ test.answer = "none"
    BY <1>5 DEF Unauthenticated
  <2>2. TestWell'
    BY <2>1 DEF TestWell
  <2>3. TestClean'
    BY <1>1, <1>3, <2>1, <2>2 DEF TestWell, TestClean
  <2> QED
    BY <1>2, <2>1, <2>2, <2>3 DEF TestLeavesNothing, TestWell
<1>6. CASE Staged
  <2>1. /\ test.pc = "staging" /\ test.answer # "none"
        /\ test' = [test EXCEPT !.answer = "none", !.pc = test'.pc, !.verdict = test'.verdict]
        /\ test'.pc = IF test.answer = "ok" THEN "checking" ELSE "ended"
    BY <1>6 DEF Staged, TestWell
  <2>2. TestWell' /\ test.by = Nobody
    BY <1>1, <2>1 DEF TestWell, TestPlaces
  <2>3. TestClean'
    BY <1>1, <1>3, <2>1, <2>2 DEF TestWell, TestClean
  <2>4. TestLeavesNothing
    BY <2>1, <2>2 DEF TestLeavesNothing, TestClean, Clean, Free, Stains
  <2> QED
    BY <1>2, <2>2, <2>3, <2>4
<1>7. CASE Check
  <2>1. /\ test.pc = "checking" /\ test'.pc = "restoring"
        /\ test' = [test EXCEPT !.pc = "restoring", !.verdict = test'.verdict]
    BY <1>7 DEF Check, TestWell
  <2>2. TestWell' /\ test.by = Nobody
    BY <1>1, <2>1 DEF TestWell, TestPlaces
  <2>3. TestClean' 
    BY <1>1, <1>3, <2>1, <2>2 DEF TestWell, TestClean
  <2> QED
    BY <1>2, <2>1, <2>2, <2>3 DEF TestLeavesNothing
<1>8. CASE Restored
  <2>1. /\ test.pc = "restoring" /\ test.answer # "none" /\ test'.pc = "ended"
        /\ test' = [test EXCEPT !.answer = "none", !.pc = "ended", !.verdict = test'.verdict]
        /\ test.answer # "ok" => test'.verdict = "not restored"
    BY <1>8 DEF Restored, TestWell
  <2>2. TestWell' /\ test.by = Nobody
    BY <1>1, <2>1 DEF TestWell, TestPlaces
  <2>3. TestClean'
    BY <1>1, <1>3, <2>1, <2>2 DEF TestWell, TestClean
  <2>4. TestLeavesNothing
    BY <2>1, <2>2 DEF TestLeavesNothing, TestClean, Clean, Free, Stains
  <2> QED
    BY <1>2, <2>2, <2>3, <2>4
<1> QED
  BY <1>4, <1>5, <1>6, <1>7, <1>8

\* A request of the run, or a step of the run itself, beside the service.
LEMMA TestKeeps ==
  ASSUME Applied, TestWell, TestClean, AcceptanceNext
  PROVE  (Applied /\ TestWell /\ TestClean)' /\ AllOrNothing /\ TestLeavesNothing
<1>1. CASE Work
  <2>1. Applied' /\ AllOrNothing
    BY <1>1, NextKeeps, NextIsAllOrNothing DEF Work
  <2>2. (TestWell /\ TestClean)'
    BY <1>1, HeardKeeps DEF Work
  <2>3. test'.pc = test.pc
    BY <1>1 DEF Work, Heard, TestWell
  <2> QED
    BY <2>1, <2>2, <2>3 DEF TestLeavesNothing
<1>2. CASE Stage \/ PutBack
  <2>1. test'.pc = test.pc
    BY <1>2 DEF Stage, PutBack, Request, TestWell
  <2> QED
    BY <1>2, <2>1, RequestKeeps DEF TestLeavesNothing
<1>3. CASE LoseAnswer
  <2>1. UNCHANGED <<policy, selection, disk, requests, main, applier, acknowledged, mishaps>>
    BY <1>3 DEF LoseAnswer
  <2>2. Applied' /\ AllOrNothing
    BY <2>1, CoreKeeps, NobodyEnds DEF core
  <2>3. test' = [test EXCEPT !.by = Nobody, !.answer = "error", !.lost = TRUE] /\ test.by # Nobody
    BY <1>3 DEF LoseAnswer
  <2>4. TestWell' /\ test'.lost /\ test'.pc = test.pc
    BY <2>3 DEF TestWell
  <2>5. TestClean'
    BY <2>3, <2>4 DEF TestWell, TestClean
  <2> QED
    BY <2>2, <2>4, <2>5 DEF TestLeavesNothing
<1>4. CASE UNCHANGED vars /\ (BeginTest \/ Unauthenticated \/ Staged \/ Check \/ Restored)
  BY <1>4, RunKeeps
<1> QED
  BY <1>1, <1>2, <1>3, <1>4 DEF AcceptanceNext, BeginTest, Unauthenticated, Staged, Check, Restored

\* Only in the office where it is at work the run begins.
Held == Applied /\ TestWell /\ TestClean /\ (office # "test" => test = NoTest)

\* Every step of every protocol.
LEMMA AdminKeeps ==
  ASSUME Held, [AdminNext]_adminVars
  PROVE  Held' /\ [AllOrNothing /\ TestLeavesNothing]_acceptanceVars
<1>1. CASE Policy
  <2>1. Applied' /\ AllOrNothing /\ UNCHANGED <<test, office>> /\ test = NoTest
    BY <1>1, NextKeeps, NextIsAllOrNothing DEF Policy, Held
  <2>2. NoTest.pc = "idle" /\ NoTest.by = Nobody
    BY DEF NoTest
  <2>3. Untouched'
    BY <1>1, <2>1, <2>2, UntouchedStays DEF Policy, Held, TestClean
  <2>4. TestWell' /\ TestClean'
    BY <2>1, <2>2, <2>3 DEF Held, TestWell, TestClean
  <2> QED
    BY <2>1, <2>2, <2>4 DEF Held, TestLeavesNothing
<1>2. CASE Test
  BY <1>2, TestKeeps DEF Held, Test
<1>3. CASE UNCHANGED <<acceptanceVars, office>>
  <2>1. UNCHANGED <<policy, selection, disk, requests, main, applier, acknowledged, mishaps, test, office>>
    BY <1>3 DEF acceptanceVars, vars
  <2>2. Applied'
    BY <2>1, CoreKeeps DEF Held, core
  <2>3. TestWell'
    BY <2>1 DEF Held, TestWell, Sought, At
  <2>4. TestClean'
    BY <2>1 DEF Held, TestClean, Untouched, Clean, Aside, Spared
  <2> QED
    BY <1>3, <2>1, <2>2, <2>3, <2>4 DEF Held
<1> QED
  BY <1>1, <1>2, <1>3 DEF AdminNext, Service, Page, Bundle, Agent, adminVars

\* Every initial state.
LEMMA AdminInitHolds ==
  ASSUME AdminInit
  PROVE  Held
<1>1. Applied /\ test = NoTest /\ Init
  BY InitIsApplied DEF AdminInit, AcceptanceInit
<1>2. TestWell
  BY <1>1 DEF TestWell, TestPlaces, NoTest, Loadable
<1>3. PICK c \in Installed : policy = Loaded(c) /\ disk = [file |-> c, durable |-> {c}]
  BY <1>1 DEF Init
<1>4. Free(c)
  BY <1>3, AcceptanceAssumption DEF Free, Rules
<1>5. main.copy = {} /\ \A a \in Applier : applier[a].pc = "idle"
  BY <1>1 DEF Init, NoRequest
<1>6. Untouched
  BY <1>3, <1>4, <1>5 DEF Untouched, Clean, Loaded, Free
<1>7. TestClean
  BY <1>1, <1>6 DEF TestClean, NoTest
<1> QED
  BY <1>1, <1>2, <1>7 DEF Held

\* The invariant holds: the service of the extension (policy.rs, service.rs) and
\* the acceptance run keep it, whatever else is at work.
THEOREM AdminHolds == AdminSpec => []Held
BY AdminInitHolds, AdminKeeps, PTL DEF AdminSpec

\* RestartFindsAcknowledged: only the file that is being synced can be on disk
\* beside the acknowledged one (Saved).
THEOREM RestartFindsTheAcknowledged == AdminSpec => []RestartFindsAcknowledged
<1>1. Held => RestartFindsAcknowledged
  BY DEF Held, Applied, Saved, RestartFindsAcknowledged, At
<1> QED
  BY <1>1, AdminHolds, PTL

\* SelectionCoversPolicy: the selection never falls behind enforcement, in
\* transactional_apply or on its way back (Covers).
THEOREM SelectionCoversThePolicy == AdminSpec => []SelectionCoversPolicy
<1>1. Mishaps \ {"unsynced", "kept"} = Lapses
  BY DEF Mishaps, Lapses
<1>2. Held => SelectionCoversPolicy
  BY <1>1 DEF Held, Applied, Covers, SelectionCoversPolicy
<1> QED
  BY <1>2, AdminHolds, PTL

\* RequestsKeepTheirWord: a request that ends leaves its own configuration or
\* the one before, and a run that ends leaves nothing of its fixture.
THEOREM RequestsAreAllOrNothing == AdminSpec => RequestsKeepTheirWord
<1>1. ASSUME Held, [AdminNext]_adminVars PROVE [AllOrNothing /\ TestLeavesNothing]_acceptanceVars
  BY <1>1, AdminKeeps
<1> QED
  BY <1>1, AdminHolds, PTL DEF AdminSpec, RequestsKeepTheirWord

-----------------------------------------------------------------------------
(***************************************************************************)
(* The lifecycle of the macOS extension.  A process has one bridge, so its *)
(* state tells of a thread's request as long as no other request of the    *)
(* process can answer: the installer's because it was alone (AloneTells),  *)
(* the watchdog's because it has no other deactivation (WatchdogTells).    *)
(***************************************************************************)
Kinds == {"activate", "deactivate", "properties"}

ThreadRow == [pc : {"idle", "wait", "activating", "guard", "remove", "removing", "exit 0", "exit 1"},
              request : Nat, alone : BOOLEAN, tripped : BOOLEAN]

\* The shape of the bridge and of the threads.
BundleWell ==
  /\ bridge = [state |-> bridge.state, delegate |-> bridge.delegate, blocks |-> bridge.blocks]
  /\ bridge.blocks \in Seq([id : Nat, kind : Kinds])
  /\ bridge.delegate \in {Unasked} \union [id : Nat, kind : Kinds]
  /\ asked \subseteq [id : Nat, kind : Kinds]
  /\ process \in {"ui", "command", "watchdog"}
  /\ submissions \in Nat
  /\ thread \in [Thread -> ThreadRow]
  /\ \A t \in Thread \ Threads[process] : thread[t].pc = "idle"

\* An installation that nothing came near is on the queue, with the system, or
\* over; and "Active" is said of it alone.
AloneTells == LET x == thread["install"] r == [id |-> x.request, kind |-> "activate"] IN
  x.pc = "wait" /\ x.alone =>
    \/ bridge.blocks = <<r>> /\ bridge.delegate = Unasked /\ bridge.state # "Active"
    \/ bridge.blocks = <<>> /\ bridge.delegate = r /\ bridge.state # "Active"
    \/ bridge.blocks = <<>> /\ bridge.delegate = Unasked /\ (bridge.state = "Active" => x.request \in completed)

\* What the watchdog's bridge has to do with.
Unanswered == {bridge.delegate} \union {bridge.blocks[i] : i \in DOMAIN bridge.blocks} \union asked

\* The one deactivation of a watchdog is the one it waits for.
WatchdogTells == LET x == thread["watchdog"] IN
  process = "watchdog" =>
    /\ \A r \in Unanswered : r.kind # "properties"
    /\ \A r \in Unanswered : r.kind = "deactivate" =>
         x.pc \in {"removing", "exit 0", "exit 1"} /\ r.id = x.request
    /\ bridge.state = "Deactivated" => x.request \in completed
    /\ bridge.state = "Deactivated" => x.pc \in {"removing", "exit 0", "exit 1"}

BundleTells == BundleWell /\ AloneTells /\ WatchdogTells

\* Neither is disturbed by what it does not look at.
LEMMA AloneStays ==
  ASSUME AloneTells, bridge' = bridge, completed \subseteq completed', thread'["install"] = thread["install"]
  PROVE  AloneTells'
BY DEF AloneTells

\* ... nor the watchdog.
LEMMA WatchdogStays ==
  ASSUME WatchdogTells, process' = process, Unanswered' \subseteq Unanswered, bridge'.state = bridge.state,
         completed \subseteq completed', thread'["watchdog"].request = thread["watchdog"].request,
         thread["watchdog"].pc \in {"removing", "exit 0", "exit 1"} => thread'["watchdog"].pc \in {"removing", "exit 0", "exit 1"}
  PROVE  WatchdogTells'
BY DEF WatchdogTells

\* A request is made: the thread that was alone is no longer.
LEMMA SubmitKeeps ==
  ASSUME BundleTells, NEW t \in Thread, NEW kind \in Kinds, NEW pc, thread[t].pc \in {"idle", "remove"},
         Submit(t, kind, pc), UNCHANGED <<process, asked, completed>>,
         t = "watchdog" => kind \in {"activate", "deactivate"},
         t = "watchdog" => pc = IF kind = "activate" THEN "activating" ELSE "removing",
         t = "install" => kind = "activate",
         t # "watchdog" => pc = "wait"
  PROVE  BundleTells'
<1> DEFINE Record == [id : Nat, kind : Kinds]
<1> DEFINE r == [id |-> submissions + 1, kind |-> kind]
<1>1. /\ bridge.blocks \in Seq(Record) /\ asked \subseteq Record /\ submissions \in Nat /\ r \in Record
      /\ bridge.delegate \in {Unasked} \union Record
  <2>1. submissions \in Nat
    BY DEF BundleTells, BundleWell
  <2>2. r \in Record
    BY <2>1
  <2>3. bridge.blocks \in Seq(Record) /\ asked \subseteq Record /\ bridge.delegate \in {Unasked} \union Record
    BY DEF BundleTells, BundleWell
  <2> QED
    BY <2>1, <2>2, <2>3
<1>2. /\ bridge' = [state |-> "Submitted", delegate |-> bridge.delegate, blocks |-> Append(bridge.blocks, r)]
      /\ submissions' = submissions + 1 /\ t \in Threads[process]
  BY DEF Submit, Submits, Block, BundleTells, BundleWell
<1>3. thread' = [u \in Thread |->
         IF u = t THEN [thread[t] EXCEPT !.pc = pc, !.request = submissions + 1, !.alone = Quiet]
         ELSE [thread[u] EXCEPT !.alone = FALSE]]
  BY DEF Submit, Submits
<1>4. thread \in [Thread -> ThreadRow] /\ \A u \in Thread \ Threads[process] : thread[u].pc = "idle"
  BY DEF BundleTells, BundleWell
<1>5. /\ \A u \in Thread \ {t} : thread'[u].pc = thread[u].pc /\ thread'[u].request = thread[u].request
                                  /\ thread'[u].alone = FALSE
      /\ thread'[t].pc = pc /\ thread'[t].request = submissions + 1 /\ thread'[t].alone = Quiet
  BY <1>3, <1>4 DEF ThreadRow
<1>6. BundleWell'
  <2>1. thread' \in [Thread -> ThreadRow]
    <3>1. pc \in {"wait", "activating", "removing"} /\ submissions + 1 \in Nat /\ Quiet \in BOOLEAN
      BY <1>1 DEF Quiet
    <3>2. ASSUME NEW u \in Thread PROVE thread'[u] \in ThreadRow
      <4>1. CASE u = t
        <5>1. thread'[u] = [thread[t] EXCEPT !.pc = pc, !.request = submissions + 1, !.alone = Quiet]
          BY <1>3, <4>1
        <5> QED
          BY <3>1, <5>1, <1>4 DEF ThreadRow
      <4>2. CASE u # t
        <5>1. thread'[u] = [thread[u] EXCEPT !.alone = FALSE]
          BY <1>3, <4>2
        <5> QED
          BY <5>1, <1>4 DEF ThreadRow
      <4> QED
        BY <4>1, <4>2
    <3> QED
      BY <1>3, <3>2
  <2>2. Append(bridge.blocks, r) \in Seq(Record)
    BY <1>1
  <2>3. \A u \in Thread \ Threads[process] : thread'[u].pc = "idle"
    BY <1>2, <1>4, <1>5
  <2> QED
    BY <1>1, <1>2, <2>1, <2>2, <2>3 DEF BundleTells, BundleWell
<1>7. AloneTells'
  <2>1. CASE t = "install" /\ Quiet
    <3>1. bridge.blocks = <<>> /\ bridge.delegate = Unasked /\ kind = "activate"
      BY <2>1 DEF Quiet
    <3>2. Append(bridge.blocks, r) = <<r>>
      BY <3>1
    <3> QED
      BY <1>2, <1>5, <2>1, <3>1, <3>2 DEF AloneTells
  <2>2. CASE ~(t = "install" /\ Quiet)
    <3>1. thread'["install"].alone = FALSE
      BY <1>5, <2>2 DEF Thread
    <3> QED
      BY <3>1 DEF AloneTells
  <2> QED
    BY <2>1, <2>2
<1>8. WatchdogTells'
  <2>1. SUFFICES ASSUME process = "watchdog" PROVE WatchdogTells'
    BY DEF WatchdogTells
  <2>2. t = "watchdog" /\ pc = (IF kind = "activate" THEN "activating" ELSE "removing")
        /\ kind \in {"activate", "deactivate"}
    BY <1>2, <2>1 DEF Threads
  <2>3. Unanswered' \subseteq Unanswered \union {r}
    <3>1. \A i \in DOMAIN Append(bridge.blocks, r) :
            Append(bridge.blocks, r)[i] \in {bridge.blocks[j] : j \in DOMAIN bridge.blocks} \union {r}
      BY <1>1
    <3> QED
      BY <1>2, <3>1 DEF Unanswered
  <2>4. thread["watchdog"].pc \in {"idle", "remove"}
    BY <2>2
  <2>5. /\ \A q \in Unanswered : q.kind # "properties" /\ q.kind # "deactivate"
    BY <2>1, <2>4 DEF BundleTells, WatchdogTells
  <2>6. bridge'.state = "Submitted" /\ thread'["watchdog"].pc = pc /\ thread'["watchdog"].request = submissions + 1
    BY <1>2, <1>5, <2>2 DEF Thread
  <2>7. \A q \in Unanswered' : q.kind # "properties"
          /\ (q.kind = "deactivate" => pc = "removing" /\ q.id = submissions + 1)
    BY <2>2, <2>3, <2>5
  <2> QED
    BY <2>6, <2>7 DEF WatchdogTells
<1> QED
  BY <1>6, <1>7, <1>8 DEF BundleTells

\* What a callback does to the bridge.
LEMMA CallbackKeeps ==
  ASSUME BundleTells, NEW r \in asked, NEW state, NEW last \in BOOLEAN, Callback(r, state, last),
         UNCHANGED <<process, thread, submissions>>,
         asked' \subseteq asked, completed \subseteq completed',
         state = "Active" /\ r.kind = "activate" => last /\ r.id \in completed',
         state = "Deactivated" => r.kind = "properties" \/ (r.kind = "deactivate" /\ r.id \in completed')
  PROVE  BundleTells'
<1> DEFINE Record == [id : Nat, kind : Kinds]
<1>1. r \in Record /\ asked \subseteq Record /\ bridge.delegate \in {Unasked} \union Record
  BY DEF BundleTells, BundleWell
<1>2. r # Unasked
  BY <1>1 DEF Unasked, Kinds
<1>3. CASE bridge.delegate # r
  <2>1. bridge' = bridge
    BY <1>3 DEF Callback
  <2>2. BundleWell'
    BY <2>1 DEF BundleTells, BundleWell
  <2>3. AloneTells'
    BY <2>1 DEF BundleTells, AloneTells
  <2>4. Unanswered' \subseteq Unanswered
    BY <2>1 DEF Unanswered
  <2>5. WatchdogTells'
    BY <2>1, <2>4 DEF BundleTells, WatchdogTells
  <2> QED
    BY <2>2, <2>3, <2>5 DEF BundleTells
<1>4. CASE bridge.delegate = r
  <2>1. bridge' = [state |-> state, delegate |-> IF last THEN Unasked ELSE r, blocks |-> bridge.blocks]
    BY <1>4 DEF Callback, BundleTells, BundleWell
  <2>2. BundleWell'
    BY <1>1, <2>1 DEF BundleTells, BundleWell
  <2>3. AloneTells'
    <3> DEFINE x == thread["install"]
               own == [id |-> x.request, kind |-> "activate"]
    <3>1. SUFFICES ASSUME x.pc = "wait", x.alone PROVE AloneTells'
      BY DEF AloneTells
    <3>2. bridge.blocks = <<>> /\ r = own
      BY <1>2, <1>4, <3>1 DEF BundleTells, AloneTells
    <3>3. r.kind = "activate" /\ r.id = x.request
      BY <3>2
    <3>4. CASE last
      BY <2>1, <3>2, <3>3, <3>4 DEF AloneTells
    <3>5. CASE ~last
      BY <2>1, <3>2, <3>3, <3>5 DEF AloneTells
    <3> QED
      BY <3>4, <3>5
  <2>4. WatchdogTells'
    <3>1. SUFFICES ASSUME process = "watchdog" PROVE WatchdogTells'
      BY DEF WatchdogTells
    <3>2. Unanswered' \subseteq Unanswered \union {Unasked} /\ r \in Unanswered
      BY <1>4, <2>1 DEF Unanswered
    <3>3. \A q \in Unanswered' : q.kind # "properties"
             /\ (q.kind = "deactivate" => thread["watchdog"].pc \in {"removing", "exit 0", "exit 1"}
                                          /\ q.id = thread["watchdog"].request)
      <4>1. Unasked.kind = "none"
        BY DEF Unasked
      <4>2. \A q \in Unanswered : q.kind # "properties"
             /\ (q.kind = "deactivate" => thread["watchdog"].pc \in {"removing", "exit 0", "exit 1"}
                                          /\ q.id = thread["watchdog"].request)
        BY <3>1 DEF BundleTells, WatchdogTells
      <4> HIDE DEF Unasked
      <4> QED
        BY <3>2, <4>1, <4>2
    <3>4. bridge'.state = state
      BY <2>1
    <3>5. state = "Deactivated" => thread["watchdog"].request \in completed'
                 /\ thread["watchdog"].pc \in {"removing", "exit 0", "exit 1"}
      BY <3>1, <3>2 DEF BundleTells, WatchdogTells
    <3> QED
      BY <3>3, <3>4, <3>5 DEF WatchdogTells
  <2> QED
    BY <2>2, <2>3, <2>4 DEF BundleTells
<1> QED
  BY <1>3, <1>4

\* A block of the bridge's queue runs.
LEMMA RunBlockKeeps ==
  ASSUME BundleTells, RunBlock
  PROVE  BundleTells'
<1> DEFINE Record == [id : Nat, kind : Kinds]
           b == Head(bridge.blocks)
<1>1. /\ bridge' = [state |-> bridge.state, delegate |-> b, blocks |-> Tail(bridge.blocks)]
      /\ bridge.blocks # <<>> /\ asked' = asked \union {b} /\ bridge.blocks \in Seq(Record)
      /\ UNCHANGED <<process, thread, completed, submissions>>
  BY DEF RunBlock, BundleTells, BundleWell
<1>2. b \in Record /\ Tail(bridge.blocks) \in Seq(Record) /\ b = bridge.blocks[1] /\ 1 \in DOMAIN bridge.blocks
  <2> HIDE DEF Record
  <2> QED
    BY <1>1
<1>3. BundleWell'
  BY <1>1, <1>2 DEF BundleTells, BundleWell
<1>4. AloneTells'
  <2> DEFINE x == thread["install"]
             own == [id |-> x.request, kind |-> "activate"]
  <2>1. SUFFICES ASSUME x.pc = "wait", x.alone PROVE AloneTells'
    BY <1>1 DEF AloneTells
  <2>2. bridge.blocks = <<own>> /\ bridge.state # "Active"
    BY <1>1, <2>1 DEF BundleTells, AloneTells
  <2>3. b = own /\ Tail(bridge.blocks) = <<>>
    BY <2>2
  <2> QED
    BY <1>1, <2>2, <2>3 DEF AloneTells
<1>5. Unanswered' \subseteq Unanswered
  <2>1. \A i \in DOMAIN Tail(bridge.blocks) : i + 1 \in DOMAIN bridge.blocks
                                           /\ Tail(bridge.blocks)[i] = bridge.blocks[i + 1]
    BY <1>1
  <2> QED
    BY <1>1, <1>2, <2>1 DEF Unanswered
<1>6. WatchdogTells'
  BY <1>1, <1>5 DEF BundleTells, WatchdogTells
<1> QED
  BY <1>3, <1>4, <1>6 DEF BundleTells

\* A thread that ends its wait, or goes on to the next step of its own.
LEMMA ThreadGoesOn ==
  ASSUME BundleTells, NEW t \in Thread, NEW then \in ThreadRow,
         thread' = [thread EXCEPT ![t] = then], thread[t].pc # "idle", then.pc # "wait",
         UNCHANGED <<process, bridge, asked, completed, submissions>>,
         t = "watchdog" => IF thread[t].pc \in {"removing", "exit 0", "exit 1"}
                           THEN then.pc \in {"removing", "exit 0", "exit 1"} /\ then.request = thread[t].request
                           ELSE then.request = thread[t].request
  PROVE  BundleTells'
<1>1. /\ thread'[t] = then /\ \A u \in Thread \ {t} : thread'[u] = thread[u]
      /\ t \in Threads[process]
  BY DEF BundleTells, BundleWell
<1>2. BundleWell'
  BY <1>1 DEF BundleTells, BundleWell
<1>3. AloneTells'
  <2>1. CASE t = "install"
    BY <1>1, <2>1 DEF AloneTells
  <2>2. CASE t # "install"
    <3>1. thread'["install"] = thread["install"]
      BY <1>1, <2>2 DEF Thread
    <3> QED
      BY <3>1, AloneStays DEF BundleTells
  <2> QED
    BY <2>1, <2>2
<1>4. WatchdogTells'
  <2>1. Unanswered' = Unanswered
    BY DEF Unanswered
  <2>2. CASE t = "watchdog"
    <3>1. thread'["watchdog"] = then
      BY <1>1, <2>2
    <3>2. thread["watchdog"].pc \notin {"removing", "exit 0", "exit 1"} => then.request = thread["watchdog"].request
      BY <2>2
    <3>3. thread["watchdog"].pc \in {"removing", "exit 0", "exit 1"} =>
             then.pc \in {"removing", "exit 0", "exit 1"} /\ then.request = thread["watchdog"].request
      BY <2>2
    <3> QED
      BY <2>1, <3>1, <3>2, <3>3, WatchdogStays DEF BundleTells
  <2>3. CASE t # "watchdog"
    <3>1. thread'["watchdog"] = thread["watchdog"]
      BY <1>1, <2>3 DEF Thread
    <3> QED
      BY <2>1, <3>1, WatchdogStays DEF BundleTells
  <2> QED
    BY <2>2, <2>3
<1> QED
  BY <1>2, <1>3, <1>4 DEF BundleTells

\* The system answers a request.
LEMMA SystemKeeps ==
  ASSUME BundleTells, NEW r \in asked, System(r)
  PROVE  BundleTells'
<1>1. r.kind \in Kinds
  BY DEF BundleTells, BundleWell
<1>2. CASE NeedsApproval(r)
  BY <1>2, CallbackKeeps DEF NeedsApproval
<1>3. CASE Completes(r)
  <2>1. CASE r.kind = "activate"
    <3>1. Closes(r, "Active") /\ completed' = completed \union {r.id}
      BY <1>3, <2>1 DEF Completes
    <3>2. Callback(r, "Active", TRUE) /\ UNCHANGED <<process, thread, submissions>> /\ asked' \subseteq asked
      BY <3>1 DEF Closes
    <3> QED
      BY <3>1, <3>2, CallbackKeeps
  <2>2. CASE r.kind = "deactivate"
    <3>1. Closes(r, "Deactivated") /\ completed' = completed \union {r.id}
      BY <1>3, <2>2 DEF Completes
    <3>2. Callback(r, "Deactivated", TRUE) /\ UNCHANGED <<process, thread, submissions>> /\ asked' \subseteq asked
      BY <3>1 DEF Closes
    <3> QED
      BY <2>2, <3>1, <3>2, CallbackKeeps
  <2> QED
    BY <1>1, <1>3, <2>1, <2>2 DEF Completes, Kinds
<1>4. CASE AfterReboot(r)
  BY <1>4, CallbackKeeps DEF AfterReboot, Closes
<1>5. CASE RequestFails(r)
  BY <1>5, CallbackKeeps DEF RequestFails, Closes
<1>6. CASE FoundProperties(r)
  <2>1. PICK state : Closes(r, state) /\ r.kind = "properties" /\ completed' = completed
    BY <1>6 DEF FoundProperties
  <2>2. Callback(r, state, TRUE) /\ UNCHANGED <<process, thread, submissions>> /\ asked' \subseteq asked
    BY <2>1 DEF Closes
  <2> QED
    BY <2>1, <2>2, CallbackKeeps
<1> QED
  BY <1>2, <1>3, <1>4, <1>5, <1>6 DEF System

\* The state of a thread's row, spelled out.
LEMMA ReportKeeps ==
  ASSUME BundleTells, NEW t \in Thread, t # "watchdog", thread[t].pc = "wait",
         thread' = [thread EXCEPT ![t] = NoWork],
         UNCHANGED <<process, ready, bridge, asked, extension, completed, submissions>>
  PROVE  BundleTells'
<1>1. NoWork \in ThreadRow /\ NoWork.pc = "idle"
  BY DEF NoWork, ThreadRow
<1> QED
  BY <1>1, ThreadGoesOn

\* The watchdog goes on.
LEMMA WatchdogMoves ==
  ASSUME BundleTells, NEW n \in ThreadRow, thread' = [thread EXCEPT !["watchdog"] = n],
         UNCHANGED <<process, bridge, asked, completed, submissions>>,
         n.request = thread["watchdog"].request,
         \/ thread["watchdog"].pc \in {"activating", "guard"} /\ n.pc \in {"guard", "remove"}
         \/ thread["watchdog"].pc = "removing" /\ n.pc \in {"exit 0", "exit 1"}
  PROVE  BundleTells'
<1> DEFINE x == thread["watchdog"]
<1>1. IF x.pc \in {"removing", "exit 0", "exit 1"}
      THEN n.pc \in {"removing", "exit 0", "exit 1"} /\ n.request = x.request
      ELSE n.request = x.request
  OBVIOUS
<1>2. "watchdog" \in Thread /\ x.pc # "idle" /\ n.pc # "wait"
  BY DEF Thread
<1> QED
  BY <1>1, <1>2, ThreadGoesOn

\* ... by one of its own steps.
LEMMA WatchdogKeeps ==
  ASSUME BundleTells, Activated \/ GuardEnds \/ Removed
  PROVE  BundleTells'
<1> DEFINE x == thread["watchdog"]
<1>1. x \in ThreadRow /\ thread \in [Thread -> ThreadRow]
  BY DEF BundleTells, BundleWell, Thread
<1>2. UNCHANGED <<process, bridge, asked, completed, submissions>>
  BY DEF Activated, GuardEnds, Removed
<1>3. CASE Activated
  <2> DEFINE n == [x EXCEPT !.pc = IF bridge.state = "Active" THEN "guard" ELSE "remove",
                            !.tripped = bridge.state # "Active"]
  <2>1. thread' = [thread EXCEPT !["watchdog"] = n] /\ x.pc = "activating"
    BY <1>1, <1>3 DEF Activated, WatchdogAt
  <2>2. n \in ThreadRow /\ n.request = x.request /\ n.pc \in {"guard", "remove"}
    BY <1>1 DEF ThreadRow
  <2> HIDE DEF n
  <2> QED
    BY <1>2, <2>1, <2>2, WatchdogMoves
<1>4. CASE GuardEnds
  <2>1. PICK tripped \in BOOLEAN :
          thread' = [thread EXCEPT !["watchdog"].pc = "remove", !["watchdog"].tripped = tripped]
    BY <1>4 DEF GuardEnds
  <2> DEFINE n == [x EXCEPT !.pc = "remove", !.tripped = tripped]
  <2>2. thread' = [thread EXCEPT !["watchdog"] = n] /\ x.pc = "guard"
    BY <1>4, <2>1, <1>1 DEF GuardEnds, WatchdogAt
  <2>3. n \in ThreadRow /\ n.request = x.request /\ n.pc = "remove"
    BY <1>1 DEF ThreadRow
  <2> HIDE DEF n
  <2> QED
    BY <1>2, <2>2, <2>3, WatchdogMoves
<1>5. CASE Removed
  <2> DEFINE n == [NoWork EXCEPT !.pc = IF ~x.tripped /\ bridge.state = "Deactivated" THEN "exit 0" ELSE "exit 1",
                                 !.request = x.request]
  <2>1. thread' = [thread EXCEPT !["watchdog"] = n] /\ x.pc = "removing"
    BY <1>5 DEF Removed, WatchdogAt
  <2>2. n \in ThreadRow /\ n.request = x.request /\ n.pc \in {"exit 0", "exit 1"}
    BY <1>1 DEF NoWork, ThreadRow
  <2> HIDE DEF n
  <2> QED
    BY <1>2, <2>1, <2>2, WatchdogMoves
<1> QED
  BY <1>3, <1>4, <1>5

\* Steps of the rest of the world.
LEMMA TellsStays ==
  ASSUME BundleTells, bridge' = bridge, process' = process, thread' = thread, asked' = asked,
         completed' = completed, submissions' = submissions
  PROVE  BundleTells'
<1>1. BundleWell'
  BY DEF BundleTells, BundleWell
<1>2. Unanswered' = Unanswered
  BY DEF Unanswered
<1> QED
  BY <1>1, <1>2, AloneStays, WatchdogStays DEF BundleTells

\* Every step.
LEMMA ExtensionKeeps ==
  ASSUME BundleTells, ExtensionNext
  PROVE  BundleTells'
<1>1. CASE Install
  BY <1>1, SubmitKeeps DEF Install, Thread, Kinds
<1>2. CASE Refresh
  BY <1>2, SubmitKeeps DEF Refresh, Thread, Kinds
<1>3. ASSUME NEW kind \in Kinds, Command(kind) PROVE BundleTells'
  BY <1>3, SubmitKeeps DEF Command, Thread
<1>4. ASSUME NEW t \in Thread, Report(t) \/ ReportPending(t) PROVE BundleTells'
  BY <1>4, ReportKeeps DEF Report, ReportPending
<1>5. CASE Activate
  BY <1>5, SubmitKeeps DEF Activate, WatchdogAt, Thread, Kinds
<1>6. CASE Remove
  BY <1>6, SubmitKeeps DEF Remove, WatchdogAt, Thread, Kinds
<1>7. CASE ExtensionChanges
  <2>1. UNCHANGED <<process, bridge, thread, asked, completed, submissions>>
    BY <1>7 DEF ExtensionChanges
  <2> QED
    BY <2>1, TellsStays
<1> QED
  BY <1>1, <1>2, <1>3, <1>4, <1>5, <1>6, <1>7, RunBlockKeeps, SystemKeeps, WatchdogKeeps
     DEF ExtensionNext, Kinds

\* Every start.
LEMMA ExtensionInitTells ==
  ASSUME ExtensionInit
  PROVE  BundleTells
<1>1. /\ bridge = [state |-> "Unknown", delegate |-> Unasked, blocks |-> <<>>]
      /\ thread = [t \in Thread |-> NoWork] /\ asked = {} /\ submissions = 0 /\ process \in DOMAIN Threads
  BY DEF ExtensionInit
<1>2. process \in {"ui", "command", "watchdog"}
  BY <1>1 DEF Threads
<1>3. NoWork \in ThreadRow /\ NoWork.pc = "idle"
  BY DEF NoWork, ThreadRow
<1>4. BundleWell
  <2>1. bridge.blocks = <<>> /\ bridge.delegate = Unasked /\ bridge.state = "Unknown"
    BY <1>1
  <2>2. bridge.blocks \in Seq([id : Nat, kind : Kinds])
    BY <2>1
  <2>3. thread \in [Thread -> ThreadRow] /\ \A t \in Thread : thread[t].pc = "idle"
    BY <1>1, <1>3
  <2> QED
    BY <1>1, <1>2, <2>1, <2>2, <2>3 DEF BundleWell
<1>5. AloneTells
  BY <1>1, <1>3 DEF AloneTells, Thread
<1>6. Unanswered = {Unasked}
  BY <1>1 DEF Unanswered
<1>7. WatchdogTells
  BY <1>1, <1>6 DEF WatchdogTells, Unasked
<1> QED
  BY <1>4, <1>5, <1>7 DEF BundleTells

\* What is said then is true.
LEMMA TellsTheTruth ==
  ASSUME BundleTells, ExtensionNext
  PROVE  LifecycleReportsAreTrue
<1>1. ASSUME Says("install", "Active"), thread["install"].alone PROVE thread["install"].request \in completed
  BY <1>1 DEF BundleTells, AloneTells, Says
<1>2. ASSUME WatchdogAt("removing"), thread'["watchdog"].pc = "exit 0"
      PROVE  thread["watchdog"].request \in completed
  <2>1. process = "watchdog" /\ thread \in [Thread -> ThreadRow]
    <3>1. thread["watchdog"].pc # "idle"
      BY <1>2 DEF WatchdogAt
    <3>2. "watchdog" \in Thread /\ "watchdog" \notin Threads["ui"] /\ "watchdog" \notin Threads["command"]
      BY DEF Threads, Thread
    <3> QED
      BY <3>1, <3>2 DEF BundleTells, BundleWell
  <2>2. CASE Removed
    BY <2>1, <2>2, <1>2 DEF Removed, BundleTells, WatchdogTells, Thread, NoWork
  <2>3. ASSUME NEW t \in Thread, NEW kind, NEW pc, pc \in {"wait", "activating", "removing"}, Submits(t, pc) PROVE FALSE
    <3>1. thread'["watchdog"].pc \in {pc, thread["watchdog"].pc}
      BY <2>3, <2>1 DEF Submits, Thread
    <3> QED
      BY <3>1, <1>2, <2>3 DEF WatchdogAt
  <2>4. CASE Install \/ Refresh \/ (\E kind \in Kinds : Command(kind)) \/ Activate \/ Remove
    BY <2>3, <2>4 DEF Install, Refresh, Command, Activate, Remove, Submit, Thread
  <2>5. ASSUME NEW t \in Thread, Report(t) \/ ReportPending(t) PROVE FALSE
    <3>1. thread'["watchdog"] = thread["watchdog"]
      BY <2>5, <2>1 DEF Report, ReportPending, Thread
    <3> QED
      BY <3>1, <1>2 DEF WatchdogAt
  <2>6. CASE Activated \/ GuardEnds
    BY <2>6, <1>2 DEF Activated, GuardEnds, WatchdogAt
  <2>7. ASSUME NEW r \in asked, System(r) PROVE thread' = thread
    BY <2>7 DEF System, NeedsApproval, Completes, AfterReboot, RequestFails, FoundProperties, Closes
  <2>8. CASE RunBlock \/ ExtensionChanges \/ \E r \in asked : System(r)
    <3>1. thread' = thread
      BY <2>7, <2>8 DEF RunBlock, ExtensionChanges
    <3> QED
      BY <3>1, <1>2 DEF WatchdogAt
  <2> QED
    BY <2>2, <2>4, <2>5, <2>6, <2>8 DEF ExtensionNext, Kinds
<1> QED
  BY <1>1, <1>2 DEF LifecycleReportsAreTrue

\* ExtensionReportsAreTrue: a completed installation or removal of the extension
\* (platform_service.rs) is one that the system completed.
THEOREM ReportsAreTrue == AdminSpec => ExtensionReportsAreTrue
<1>1. AdminInit => BundleTells
  BY ExtensionInitTells DEF AdminInit
<1>2. ASSUME BundleTells, [AdminNext]_adminVars PROVE BundleTells' /\ [LifecycleReportsAreTrue]_extensionVars
  <2>1. CASE ExtensionNext
    BY <1>2, <2>1, ExtensionKeeps, TellsTheTruth
  <2>2. CASE UNCHANGED extensionVars
    <3>1. UNCHANGED <<process, bridge, thread, asked, completed, submissions>>
      BY <2>2 DEF extensionVars
    <3>2. BundleTells'
      BY <1>2, <3>1, TellsStays
    <3> QED
      BY <2>2, <3>2
  <2> QED
    BY <1>2, <2>1, <2>2 DEF AdminNext, Policy, Test, Service, Page, Bundle, Agent, adminVars
<1> QED
  BY <1>1, <1>2, PTL DEF AdminSpec, ExtensionReportsAreTrue

-----------------------------------------------------------------------------
(***************************************************************************)
(* Administering the Linux service.  Clients hold no lock, so what is known*)
(* about a job holds until another client changes the file, the unit or    *)
(* the notifier (`met`); what systemd and guardd do by themselves it       *)
(* outlasts (JobFact).                                                     *)
(***************************************************************************)
Files == Candidates \union {NoFile, Partial}

JobPlaces == {"idle", "ask", "read", "write", "rename", "restart", "check", "rollback", "restore", "restart old",
              "start service", "start notifier", "undo start", "stop notifier", "stop service", "undo stop",
              "create", "fill"}

JobRow == [pc : JobPlaces, config : Files, was : BOOLEAN, previous : Files, met : BOOLEAN, stale : BOOLEAN]

\* The service, if it was asked for, is not off; there may be nothing to start.
NotOff(f, u) == u.state # "off" \/ f = NoFile

\* What a job x, which nobody has come across, knows of the file f, the unit u
\* and the notifier n.
JobFact(x, f, u, n) ==
  /\ x.pc \in {"restart", "check", "rollback", "restore", "restart old"} => x.was
  /\ ~x.met =>
       /\ x.pc \in {"write", "rename", "restart old"} => f = x.previous
       /\ x.pc \in {"restart", "check", "rollback"} => f = x.config
       /\ x.pc = "check" /\ u.state = "up" => u.runs = f
       /\ x.pc \in {"read", "write", "rename"} /\ ~x.was /\ ~x.stale => u.state \in {"off", "waiting"}
       /\ x.pc = "start notifier" => NotOff(f, u)
       /\ x.pc \in {"stop notifier", "stop service", "undo stop"} /\ x.was => NotOff(f, u)
       /\ x.pc \in {"start service", "start notifier", "undo start"} /\ x.was => ~n
       /\ x.pc \in {"stop service", "undo stop"} => ~n

JobsTell ==
  /\ jobs \in [Client -> JobRow] /\ file \in Files
  /\ unit \in [state : {"off", "starting", "up", "waiting"}, runs : Files]
  /\ notifier \in BOOLEAN /\ serviceFaults \in Nat
  /\ \A c \in Client : JobFact(jobs[c], file, unit, notifier)

\* What a job does to the others.
LEMMA OthersTell ==
  ASSUME JobsTell, NEW c \in Client, NEW d \in Client \ {c}, NEW y, Become(c, y)
  PROVE  jobs'[d] \in JobRow /\ JobFact(jobs'[d], file', unit', notifier')
<1>1. jobs[d] \in JobRow /\ JobFact(jobs[d], file, unit, notifier) /\ d # c
  BY DEF JobsTell
<1>2. CASE jobs[d].pc = "idle"
  <2>1. jobs'[d] = jobs[d]
    BY <1>1, <1>2 DEF Become
  <2> QED
    BY <1>1, <1>2, <2>1 DEF JobFact
<1>3. CASE jobs[d].pc # "idle"
  <2>1. jobs'[d] = [jobs[d] EXCEPT !.met = @ \/ Changed]
    BY <1>1, <1>3 DEF Become
  <2>2. Changed \in BOOLEAN
    BY DEF Changed
  <2>3. CASE jobs[d].met \/ Changed
    <3>1. jobs'[d] = [jobs[d] EXCEPT !.met = TRUE]
      BY <1>1, <2>1, <2>2, <2>3 DEF JobRow
    <3>2. jobs'[d] \in JobRow /\ jobs'[d].met /\ jobs'[d].pc = jobs[d].pc /\ jobs'[d].was = jobs[d].was
      BY <1>1, <3>1 DEF JobRow
    <3> QED
      BY <1>1, <3>2 DEF JobFact
  <2>4. CASE ~jobs[d].met /\ ~Changed
    <3>1. jobs'[d] = jobs[d]
      BY <1>1, <2>1, <2>2, <2>4 DEF JobRow
    <3>2. file' = file /\ unit' = unit /\ notifier' = notifier
      BY <2>4 DEF Changed
    <3> QED
      BY <1>1, <3>1, <3>2
  <2> QED
    BY <2>3, <2>4
<1> QED
  BY <1>2, <1>3

\* What a job that takes a step needs to know.
LEMMA JobMoves ==
  ASSUME JobsTell, NEW c \in Client, NEW y \in JobRow, Become(c, y),
         file' \in Files, unit' \in [state : {"off", "starting", "up", "waiting"}, runs : Files],
         notifier' \in BOOLEAN, serviceFaults' \in Nat,
         JobFact(y, file', unit', notifier')
  PROVE  JobsTell'
<1>1. DOMAIN jobs' = Client /\ jobs' = [d \in Client |-> jobs'[d]] /\ jobs'[c] = y
  BY DEF Become
<1>2. \A d \in Client : jobs'[d] \in JobRow /\ JobFact(jobs'[d], file', unit', notifier')
  <2> SUFFICES ASSUME NEW d \in Client PROVE jobs'[d] \in JobRow /\ JobFact(jobs'[d], file', unit', notifier')
    OBVIOUS
  <2>1. CASE d = c
    BY <1>1, <2>1
  <2>2. CASE d # c
    BY <2>2, OthersTell
  <2> QED
    BY <2>1, <2>2
<1>3. jobs' \in [Client -> JobRow]
  BY <1>1, <1>2
<1> QED
  BY <1>2, <1>3 DEF JobsTell

\* ... that only learns something.
LEMMA JobLearns ==
  ASSUME JobsTell, NEW c \in Client, NEW y \in JobRow, jobs' = [jobs EXCEPT ![c] = y],
         file' = file, unit' = unit, notifier' = notifier, serviceFaults' = serviceFaults,
         JobFact(y, file, unit, notifier)
  PROVE  JobsTell'
<1>1. jobs' \in [Client -> JobRow] /\ jobs'[c] = y /\ \A d \in Client \ {c} : jobs'[d] = jobs[d]
  BY DEF JobsTell
<1>2. \A d \in Client : JobFact(jobs'[d], file, unit, notifier)
  BY <1>1 DEF JobsTell
<1>3. \A d \in Client : JobFact(jobs'[d], file', unit', notifier')
  BY <1>2
<1> QED
  BY <1>1, <1>3 DEF JobsTell

UnitState == [state : {"off", "starting", "up", "waiting"}, runs : Files]

\* The values that jobs and units take.
LEMMA ServiceValues ==
  /\ NoJob \in JobRow /\ NoJob.pc = "idle" /\ NoJob.was = FALSE
  /\ \A s \in {"off", "starting", "up", "waiting"} : Unit(s) \in UnitState /\ Unit(s).state = s
  /\ Started \in UnitState /\ Started.state \in {"off", "starting"} /\ (Started.state = "off" => file = NoFile)
  /\ \A c, f, u, n : JobFact(NoJob, f, u, n)
BY DEF NoJob, JobRow, JobPlaces, Files, Unit, UnitState, Started, JobFact

\* A job's steps through a save.
LEMMA SaveKeeps ==
  ASSUME JobsTell, NEW c \in Client, SaveStep(c)
  PROVE  JobsTell'
<1> DEFINE x == jobs[c]
<1>1. /\ x \in JobRow /\ JobFact(x, file, unit, notifier) /\ file \in Files /\ unit \in UnitState
      /\ notifier \in BOOLEAN /\ serviceFaults \in Nat /\ jobs \in [Client -> JobRow]
  BY DEF JobsTell, UnitState
<1>2. ServiceFault => serviceFaults' \in Nat
  BY <1>1 DEF ServiceFault
<1>3. \A pc \in JobPlaces : [x EXCEPT !.pc = pc] \in JobRow
  BY <1>1 DEF JobRow
<1>4. CASE AskActive(c)
  <2> DEFINE y == [x EXCEPT !.pc = "read", !.was = IsActive]
  <2>1. IsActive \in BOOLEAN /\ (~IsActive => unit.state \in {"off", "waiting"})
    BY <1>1 DEF IsActive, UnitState
  <2>2. jobs' = [jobs EXCEPT ![c] = y] /\ UNCHANGED <<file, unit, notifier, jobsBegun, serviceFaults>>
    BY <1>1, <1>4 DEF AskActive, counted
  <2>3. y \in JobRow /\ y.pc = "read" /\ y.was = IsActive
    BY <1>1, <2>1 DEF JobRow, JobPlaces
  <2>4. JobFact(y, file, unit, notifier)
    BY <2>1, <2>3 DEF JobFact
  <2> HIDE DEF y
  <2> QED
    BY <2>2, <2>3, <2>4, JobLearns
<1>5. CASE ReadPrevious(c)
  <2> DEFINE y == [x EXCEPT !.pc = "write", !.previous = file]
  <2>2. jobs' = [jobs EXCEPT ![c] = y] /\ UNCHANGED <<file, unit, notifier, jobsBegun, serviceFaults>> /\ x.pc = "read"
    BY <1>1, <1>5 DEF ReadPrevious, JobAt, counted
  <2>3. y \in JobRow /\ y.pc = "write" /\ y.previous = file /\ y.was = x.was /\ y.met = x.met /\ y.stale = x.stale
    BY <1>1 DEF JobRow, JobPlaces
  <2>4. JobFact(y, file, unit, notifier)
    BY <1>1, <2>2, <2>3 DEF JobFact
  <2> HIDE DEF y
  <2> QED
    BY <2>2, <2>3, <2>4, JobLearns
<1>6. CASE WriteCandidate(c)
  <2> DEFINE y == [x EXCEPT !.pc = "rename"]
  <2>0. y \in JobRow
    BY <1>3 DEF JobPlaces
  <2>1. Become(c, y) /\ UNCHANGED <<file, unit, notifier, jobsBegun, serviceFaults>> /\ x.pc = "write"
    BY <1>6 DEF WriteCandidate, Goto, JobAt, counted
  <2>2. JobFact(y, file', unit', notifier')
    BY <1>1, <2>1 DEF JobFact, JobRow
  <2> HIDE DEF y
  <2> QED
    BY <1>1, <2>0, <2>1, <2>2, JobMoves DEF UnitState
<1>7. CASE WriteCandidateFails(c) \/ RollbackFails(c)
  <2>1. Become(c, NoJob) /\ UNCHANGED <<file, unit, notifier>> /\ serviceFaults' \in Nat
    BY <1>2, <1>7 DEF WriteCandidateFails, RollbackFails, Done
  <2> QED
    BY <1>1, <2>1, ServiceValues, JobMoves DEF UnitState
<1>8. CASE RenameCandidate(c)
  <2> DEFINE y == [x EXCEPT !.pc = "restart"]
  <2>0. y \in JobRow
    BY <1>3 DEF JobPlaces
  <2>1. file' = x.config /\ UNCHANGED <<unit, notifier, serviceFaults>> /\ file' \in Files
    BY <1>1, <1>8 DEF RenameCandidate, counted, JobRow
  <2>2. CASE x.was
    <3>1. Become(c, y)
      BY <1>8, <2>2 DEF RenameCandidate, Goto
    <3>2. JobFact(y, file', unit', notifier')
      BY <1>1, <2>1, <2>2 DEF JobFact, JobRow
    <3> HIDE DEF y
    <3> QED
      BY <1>1, <2>0, <2>1, <3>1, <3>2, JobMoves DEF UnitState
  <2>3. CASE ~x.was
    <3>1. Become(c, NoJob)
      BY <1>8, <2>3 DEF RenameCandidate, Done
    <3> QED
      BY <1>1, <2>1, <3>1, ServiceValues, JobMoves DEF UnitState
  <2> QED
    BY <2>2, <2>3
<1>9. CASE RestartNew(c)
  <2> DEFINE y == [x EXCEPT !.pc = "check"]
  <2>0. y \in JobRow
    BY <1>3 DEF JobPlaces
  <2>1. unit' = Started /\ UNCHANGED <<file, notifier, serviceFaults>> /\ x.pc = "restart" /\ Become(c, y)
    BY <1>9 DEF RestartNew, Restarted, counted, JobAt, Goto
  <2>2. unit' \in UnitState /\ unit'.state # "up"
    BY <2>1, ServiceValues
  <2>3. JobFact(y, file', unit', notifier')
    BY <1>1, <2>1, <2>2 DEF JobFact, JobRow
  <2> HIDE DEF y
  <2> QED
    BY <1>1, <2>0, <2>1, <2>2, <2>3, JobMoves DEF UnitState
<1>10. CASE RestartNewFails(c)
  <2> DEFINE y == [x EXCEPT !.pc = "rollback"]
  <2>0. y \in JobRow
    BY <1>3 DEF JobPlaces
  <2>1. /\ unit' \in {unit, Unit("waiting")} /\ UNCHANGED <<file, notifier>> /\ x.pc = "restart" /\ Become(c, y)
        /\ serviceFaults' \in Nat
    BY <1>2, <1>10 DEF RestartNewFails, JobAt, Goto
  <2>2. unit' \in UnitState
    BY <1>1, <2>1, ServiceValues
  <2>3. JobFact(y, file', unit', notifier')
    BY <1>1, <2>1 DEF JobFact, JobRow
  <2> HIDE DEF y
  <2> QED
    BY <1>1, <2>0, <2>1, <2>2, <2>3, JobMoves DEF UnitState
<1>11. CASE CheckHealth(c)
  <2> DEFINE y == [x EXCEPT !.pc = "rollback"]
  <2>0. y \in JobRow
    BY <1>3 DEF JobPlaces
  <2>1. UNCHANGED <<file, unit, notifier, serviceFaults>> /\ x.pc = "check" /\ (Become(c, NoJob) \/ Become(c, y))
    BY <1>11 DEF CheckHealth, JobAt, Goto, Done, counted
  <2>2. JobFact(y, file', unit', notifier')
    BY <1>1, <2>1 DEF JobFact, JobRow
  <2> HIDE DEF y
  <2> QED
    BY <1>1, <2>0, <2>1, <2>2, ServiceValues, JobMoves DEF UnitState
<1>12. CASE Rollback(c)
  <2> DEFINE y == [x EXCEPT !.pc = "restore"]
  <2>0. y \in JobRow
    BY <1>3 DEF JobPlaces
  <2>1. /\ UNCHANGED <<unit, notifier, serviceFaults>> /\ x.pc = "rollback" /\ (Become(c, NoJob) \/ Become(c, y))
        /\ file' \in {NoFile, file}
    BY <1>12 DEF Rollback, JobAt, Goto, Done, counted
  <2>2. JobFact(y, file', unit', notifier')
    BY <1>1, <2>1 DEF JobFact, JobRow
  <2>3. file' \in Files
    BY <1>1, <2>1 DEF Files
  <2> HIDE DEF y
  <2> QED
    BY <1>1, <2>0, <2>1, <2>2, <2>3, ServiceValues, JobMoves DEF UnitState
<1>13. CASE Restore(c)
  <2> DEFINE y == [x EXCEPT !.pc = "restart old"]
  <2>0. y \in JobRow
    BY <1>3 DEF JobPlaces
  <2>1. UNCHANGED <<unit, notifier, serviceFaults>> /\ x.pc = "restore" /\ Become(c, y) /\ file' = x.previous
    BY <1>13 DEF Restore, JobAt, Goto, counted
  <2>2. JobFact(y, file', unit', notifier') /\ file' \in Files
    BY <1>1, <2>1 DEF JobFact, JobRow
  <2> HIDE DEF y
  <2> QED
    BY <1>1, <2>0, <2>1, <2>2, JobMoves DEF UnitState
<1>14. CASE RestartOld(c) \/ RestartOldFails(c)
  <2>1. /\ unit' \in {unit, Started, Unit("waiting")} /\ UNCHANGED <<file, notifier>> /\ Become(c, NoJob)
        /\ serviceFaults' \in Nat
    BY <1>1, <1>2, <1>14 DEF RestartOld, RestartOldFails, Restarted, Done, counted
  <2>2. unit' \in UnitState
    BY <1>1, <2>1, ServiceValues
  <2> QED
    BY <1>1, <2>1, <2>2, ServiceValues, JobMoves DEF UnitState
<1> QED
  BY <1>4, <1>5, <1>6, <1>7, <1>8, <1>9, <1>10, <1>11, <1>12, <1>13, <1>14 DEF SaveStep

\* ... through the switch, and through setup.
LEMMA SwitchKeeps ==
  ASSUME JobsTell, NEW c \in Client, SwitchStep(c) \/ SetupStep(c)
  PROVE  JobsTell'
<1> DEFINE x == jobs[c]
<1>1. /\ x \in JobRow /\ JobFact(x, file, unit, notifier) /\ file \in Files /\ unit \in UnitState
      /\ notifier \in BOOLEAN /\ serviceFaults \in Nat /\ jobs \in [Client -> JobRow]
  BY DEF JobsTell, UnitState
<1>2. ServiceFault => serviceFaults' \in Nat
  BY <1>1 DEF ServiceFault
<1>3. \A pc \in JobPlaces : [x EXCEPT !.pc = pc] \in JobRow
  BY <1>1 DEF JobRow
<1>4. CASE StartService(c)
  <2> DEFINE y == [x EXCEPT !.pc = "start notifier"]
  <2>0. y \in JobRow
    BY <1>3 DEF JobPlaces
  <2>1. unit' = Start /\ UNCHANGED <<file, notifier, serviceFaults>> /\ x.pc = "start service" /\ Become(c, y)
    BY <1>4 DEF StartService, JobAt, Goto, counted
  <2>2. unit' \in UnitState /\ NotOff(file, unit')
    BY <1>1, <2>1, ServiceValues DEF Start, IsActive, NotOff
  <2>3. JobFact(y, file', unit', notifier')
    BY <1>1, <2>1, <2>2 DEF JobFact, JobRow
  <2> HIDE DEF y
  <2> QED
    BY <1>1, <2>0, <2>1, <2>2, <2>3, JobMoves DEF UnitState
<1>5. CASE StartNotifierFails(c)
  <2> DEFINE y == [x EXCEPT !.pc = "undo start"]
  <2>0. y \in JobRow
    BY <1>3 DEF JobPlaces
  <2>1. UNCHANGED <<file, unit, notifier>> /\ x.pc = "start notifier" /\ Become(c, y) /\ serviceFaults' \in Nat
    BY <1>2, <1>5 DEF StartNotifierFails, JobAt, Goto
  <2>2. JobFact(y, file', unit', notifier')
    BY <1>1, <2>1 DEF JobFact, JobRow
  <2> HIDE DEF y
  <2> QED
    BY <1>1, <2>0, <2>1, <2>2, JobMoves DEF UnitState
<1>6. CASE StopNotifier(c)
  <2> DEFINE y == [x EXCEPT !.pc = "stop service"]
  <2>0. y \in JobRow
    BY <1>3 DEF JobPlaces
  <2>1. UNCHANGED <<file, unit, serviceFaults>> /\ notifier' = FALSE /\ x.pc = "stop notifier" /\ Become(c, y)
    BY <1>6 DEF StopNotifier, JobAt, Goto, counted
  <2>2. JobFact(y, file', unit', notifier')
    BY <1>1, <2>1 DEF JobFact, JobRow
  <2> HIDE DEF y
  <2> QED
    BY <1>1, <2>0, <2>1, <2>2, JobMoves DEF UnitState
<1>7. CASE StopServiceFails(c)
  <2> DEFINE y == [x EXCEPT !.pc = "undo stop"]
  <2>0. y \in JobRow
    BY <1>3 DEF JobPlaces
  <2>1. UNCHANGED <<file, unit, notifier>> /\ x.pc = "stop service" /\ Become(c, y) /\ serviceFaults' \in Nat
    BY <1>2, <1>7 DEF StopServiceFails, JobAt, Goto
  <2>2. JobFact(y, file', unit', notifier')
    BY <1>1, <2>1 DEF JobFact, JobRow
  <2> HIDE DEF y
  <2> QED
    BY <1>1, <2>0, <2>1, <2>2, JobMoves DEF UnitState
<1>8. CASE StartNotifier(c) \/ UndoStart(c) \/ StopService(c) \/ UndoStop(c) \/ SwitchGivesUp(c)
  <2>1. /\ unit' \in {unit, Unit("off")} /\ notifier' \in {notifier, TRUE} /\ file' = file /\ Become(c, NoJob)
        /\ serviceFaults' \in Nat
    BY <1>1, <1>2, <1>8 DEF StartNotifier, UndoStart, StopService, UndoStop, SwitchGivesUp, Done, counted
  <2>2. unit' \in UnitState /\ notifier' \in BOOLEAN
    BY <1>1, <2>1, ServiceValues
  <2> QED
    BY <1>1, <2>1, <2>2, ServiceValues, JobMoves DEF UnitState
<1>9. CASE CreateConfig(c)
  <2> DEFINE y == [x EXCEPT !.pc = "fill"]
  <2>0. y \in JobRow
    BY <1>3 DEF JobPlaces
  <2>1. /\ UNCHANGED <<unit, notifier, serviceFaults>> /\ file' \in {Partial, file} /\ x.pc = "create"
        /\ Become(c, y) \/ Become(c, NoJob)
    BY <1>9 DEF CreateConfig, JobAt, Goto, Done, counted
  <2>2. JobFact(y, file', unit', notifier') /\ file' \in Files
    BY <1>1, <2>1 DEF JobFact, JobRow, Files
  <2> HIDE DEF y
  <2> QED
    BY <1>1, <2>0, <2>1, <2>2, ServiceValues, JobMoves DEF UnitState
<1>10. CASE FillConfig(c) \/ FillConfigFails(c)
  <2>1. /\ UNCHANGED <<unit, notifier>> /\ file' \in {file, x.config} /\ Become(c, NoJob) /\ serviceFaults' \in Nat
    BY <1>1, <1>2, <1>10 DEF FillConfig, FillConfigFails, Done, counted
  <2>2. file' \in Files
    BY <1>1, <2>1 DEF JobRow, JobPlaces
  <2> QED
    BY <1>1, <2>1, <2>2, ServiceValues, JobMoves DEF UnitState
<1> QED
  BY <1>4, <1>5, <1>6, <1>7, <1>8, <1>9, <1>10 DEF SwitchStep, SetupStep

\* A job begins.
LEMMA BeginKeeps ==
  ASSUME JobsTell, NEW c \in Client,
         \/ \E config \in Candidates : BeginSave(c, config) \/ BeginSetup(c, config)
         \/ BeginSwitchOn(c) \/ BeginSwitchOff(c)
  PROVE  JobsTell'
<1>1. file \in Files /\ unit \in UnitState /\ notifier \in BOOLEAN
  BY DEF JobsTell, UnitState
<1>2. PICK pc \in {"ask", "create", "start service", "stop notifier"}, config \in Files, was \in BOOLEAN :
        /\ Begin(c, pc, config, was)
        /\ was => /\ pc = "start service" => ~notifier
                  /\ pc = "stop notifier" => unit.state # "off"
  BY <1>1 DEF BeginSave, BeginSetup, BeginSwitchOn, BeginSwitchOff, Files
<1> DEFINE y == [NoJob EXCEPT !.pc = pc, !.config = config, !.was = was]
<1>3. jobs' = [jobs EXCEPT ![c] = y] /\ UNCHANGED <<file, unit, notifier, serviceFaults>>
  BY <1>2 DEF Begin
<1>4. y \in JobRow /\ y.pc = pc /\ y.was = was
  BY <1>2 DEF JobRow, JobPlaces, NoJob, Files
<1>5. JobFact(y, file, unit, notifier)
  BY <1>2, <1>4 DEF JobFact, NotOff
<1> HIDE DEF y
<1> QED
  BY <1>3, <1>4, <1>5, JobLearns

\* guardd and systemd by themselves.
LEMMA SystemdKeeps ==
  ASSUME JobsTell, Systemd
  PROVE  JobsTell'
<1>1. /\ jobs \in [Client -> JobRow] /\ file \in Files /\ unit \in UnitState
      /\ notifier \in BOOLEAN /\ serviceFaults \in Nat /\ \A c \in Client : JobFact(jobs[c], file, unit, notifier)
  BY DEF JobsTell, UnitState
<1>2. file' = file /\ notifier' = notifier /\ serviceFaults' \in Nat
  BY <1>1 DEF Systemd, DaemonStarts, DaemonFailsToStart, DaemonCrashes, SystemdRestarts, ServiceFault, counted
<1>3. CASE DaemonStarts
  <2>1. jobs' = jobs /\ unit.state = "starting" /\ unit' = [state |-> "up", runs |-> file]
    BY <1>3 DEF DaemonStarts
  <2>2. unit' \in UnitState /\ unit'.state = "up" /\ unit'.runs = file
    BY <1>1, <2>1 DEF UnitState
  <2>3. ASSUME NEW c \in Client PROVE JobFact(jobs[c], file, unit', notifier)
    BY <1>1, <2>1, <2>2 DEF JobFact, NotOff
  <2> QED
    BY <1>1, <1>2, <2>1, <2>2, <2>3 DEF JobsTell, UnitState
<1>4. CASE DaemonFailsToStart \/ DaemonCrashes \/ SystemdRestarts
  <2>1. unit' \in UnitState /\ unit'.state # "up" /\ (unit'.state = "off" => file = NoFile) /\ Stale
    BY <1>4, ServiceValues DEF DaemonFailsToStart, DaemonCrashes, SystemdRestarts
  <2>2. ASSUME NEW c \in Client PROVE jobs'[c] \in JobRow /\ JobFact(jobs'[c], file, unit', notifier)
    <3> DEFINE x == jobs[c]
    <3>1. x \in JobRow /\ JobFact(x, file, unit, notifier)
      BY <1>1
    <3>2. PICK b \in BOOLEAN : b = (x.stale \/ x.pc \in {"read", "write", "rename"})
      BY <3>1
    <3>3. jobs'[c] = [x EXCEPT !.stale = b]
      BY <2>1, <3>2 DEF Stale
    <3>4. /\ jobs'[c] \in JobRow /\ jobs'[c].pc = x.pc /\ jobs'[c].was = x.was /\ jobs'[c].met = x.met
          /\ jobs'[c].previous = x.previous /\ jobs'[c].config = x.config /\ jobs'[c].stale = b
      BY <3>1, <3>3 DEF JobRow
    <3> HIDE DEF x
    <3>5. JobFact(jobs'[c], file, unit', notifier)
      BY <2>1, <3>1, <3>2, <3>4 DEF JobFact, NotOff
    <3> QED
      BY <3>4, <3>5
  <2>3. jobs' \in [Client -> JobRow]
    BY <2>1, <2>2 DEF Stale
  <2> QED
    BY <1>1, <1>2, <2>1, <2>2, <2>3 DEF JobsTell, UnitState
<1> QED
  BY <1>3, <1>4 DEF Systemd

\* Every step.
LEMMA ServiceKeeps ==
  ASSUME JobsTell, ServiceNext
  PROVE  JobsTell'
BY SaveKeeps, SwitchKeeps, BeginKeeps, SystemdKeeps DEF ServiceNext

\* Every start.
LEMMA ServiceInitTells ==
  ASSUME ServiceInit
  PROVE  JobsTell
<1>1. file \in Files /\ jobs = [c \in Client |-> NoJob] /\ serviceFaults = 0 /\ notifier \in BOOLEAN
  BY DEF ServiceInit, Files
<1>2. unit \in UnitState
  BY <1>1 DEF ServiceInit, Unit, UnitState, Files
<1> QED
  BY <1>1, <1>2, ServiceValues DEF JobsTell, UnitState

\* A job ends by a step of its own.
LEMMA JobEndsItself ==
  ASSUME JobsTell, ServiceNext, NEW c \in Client, Ends(c)
  PROVE  SaveStep(c) \/ SwitchStep(c) \/ SetupStep(c)
<1>1. jobs \in [Client -> JobRow]
  BY DEF JobsTell
<1>2. ASSUME NEW d \in Client \ {c}, NEW y, Become(d, y) PROVE FALSE
  <2>1. jobs'[c].pc = jobs[c].pc
    BY <1>1, <1>2 DEF Become, JobRow
  <2> QED
    BY <2>1 DEF Ends
<1>3. ASSUME NEW d \in Client \ {c}, NEW y, jobs' = [jobs EXCEPT ![d] = y] PROVE FALSE
  <2>1. jobs'[c] = jobs[c]
    BY <1>1, <1>3
  <2> QED
    BY <2>1 DEF Ends
<1>4. ASSUME NEW d \in Client, NEW pc, NEW config, NEW was, Begin(d, pc, config, was) PROVE FALSE
  <2>1. CASE d = c
    BY <1>4, <2>1 DEF Begin, JobAt, Ends
  <2>2. CASE d # c
    BY <1>3, <1>4, <2>2 DEF Begin
  <2> QED
    BY <2>1, <2>2
<1>5. ASSUME NEW d \in Client \ {c}, SaveStep(d) PROVE FALSE
  <2>1. CASE AskActive(d) \/ ReadPrevious(d)
    <3>1. AskActive(d) => jobs' = [jobs EXCEPT ![d] = [jobs[d] EXCEPT !.pc = "read", !.was = IsActive]]
      BY <1>1 DEF AskActive
    <3>2. ReadPrevious(d) => jobs' = [jobs EXCEPT ![d] = [jobs[d] EXCEPT !.pc = "write", !.previous = file]]
      BY <1>1 DEF ReadPrevious
    <3> QED
      BY <1>3, <2>1, <3>1, <3>2
  <2>2. CASE ~(AskActive(d) \/ ReadPrevious(d))
    <3>1. \E y : Become(d, y)
      BY <1>5, <2>2 DEF SaveStep, WriteCandidate, WriteCandidateFails, RenameCandidate, RestartNew, RestartNewFails,
         CheckHealth, Rollback, RollbackFails, Restore, RestartOld, RestartOldFails, Goto, Done
    <3> QED
      BY <1>2, <3>1
  <2> QED
    BY <2>1, <2>2
<1>6. ASSUME NEW d \in Client \ {c}, SwitchStep(d) \/ SetupStep(d) PROVE FALSE
  <2>1. \E y : Become(d, y)
    BY <1>6 DEF SwitchStep, SetupStep, StartService, StartNotifier, StartNotifierFails, UndoStart, StopNotifier, StopService,
       StopServiceFails, UndoStop, SwitchGivesUp, CreateConfig, FillConfig, FillConfigFails, Goto, Done
  <2> QED
    BY <1>2, <2>1
<1>7. CASE Systemd
  <2>1. jobs' = jobs \/ Stale
    BY <1>7 DEF Systemd, DaemonStarts, DaemonFailsToStart, DaemonCrashes, SystemdRestarts
  <2>2. jobs'[c].pc = jobs[c].pc
    BY <1>1, <2>1 DEF Stale, JobRow
  <2> QED
    BY <2>2 DEF Ends
<1>8. ASSUME NEW d \in Client, BeginSwitchOn(d) \/ BeginSwitchOff(d) \/ \E config \in Candidates : BeginSave(d, config) \/ BeginSetup(d, config)
      PROVE  FALSE
  BY <1>4, <1>8 DEF BeginSwitchOn, BeginSwitchOff, BeginSave, BeginSetup
<1> QED
  BY <1>5, <1>6, <1>7, <1>8 DEF ServiceNext

\* What the steps that end a job leave behind.
LEMMA LastSteps ==
  ASSUME NEW c \in Client, SaveStep(c) \/ SwitchStep(c) \/ SetupStep(c)
  PROVE  LET x == jobs[c] IN
         /\ x.pc = "write" => file' = file
         /\ x.pc = "rename" => file' = x.config /\ unit' = unit
         /\ x.pc = "check" => file' = file /\ unit' = unit
         /\ x.pc = "restart old" => file' = file /\ (unit' = Started \/ serviceFaults' = serviceFaults + 1)
         /\ x.pc = "start notifier" /\ serviceFaults' # serviceFaults + 1 => notifier' = TRUE /\ unit' = unit
         /\ x.pc = "stop service" /\ serviceFaults' # serviceFaults + 1 => notifier' = notifier /\ unit' = Unit("off")
         /\ x.pc = "undo start" /\ serviceFaults' # serviceFaults + 1 => notifier' = notifier /\ unit' = Unit("off")
         /\ x.pc = "undo stop" /\ serviceFaults' # serviceFaults + 1 => notifier' = TRUE /\ unit' = unit
<1> USE DEF JobAt
<1>1. CASE SaveStep(c)
  <2>1. CASE AskActive(c) \/ ReadPrevious(c) \/ WriteCandidate(c) \/ WriteCandidateFails(c) \/ RenameCandidate(c)
    BY <2>1 DEF AskActive, ReadPrevious, WriteCandidate, WriteCandidateFails, RenameCandidate
  <2>2. CASE RestartNew(c) \/ RestartNewFails(c) \/ CheckHealth(c)
    BY <2>2 DEF RestartNew, RestartNewFails, CheckHealth
  <2>3. CASE Rollback(c) \/ RollbackFails(c) \/ Restore(c)
    BY <2>3 DEF Rollback, RollbackFails, Restore
  <2>4. CASE RestartOld(c) \/ RestartOldFails(c)
    BY <2>4 DEF RestartOld, RestartOldFails, Restarted, ServiceFault
  <2> QED
    BY <1>1, <2>1, <2>2, <2>3, <2>4 DEF SaveStep
<1>2. CASE SwitchStep(c)
  <2>1. CASE StartService(c) \/ StartNotifier(c) \/ StartNotifierFails(c) \/ UndoStart(c)
    BY <2>1 DEF StartService, StartNotifier, StartNotifierFails, UndoStart, ServiceFault
  <2>2. CASE StopNotifier(c) \/ StopService(c) \/ StopServiceFails(c) \/ UndoStop(c)
    BY <2>2 DEF StopNotifier, StopService, StopServiceFails, UndoStop, ServiceFault
  <2>3. CASE SwitchGivesUp(c)
    BY <2>3 DEF SwitchGivesUp, ServiceFault
  <2> QED
    BY <1>2, <2>1, <2>2, <2>3 DEF SwitchStep
<1>3. CASE SetupStep(c)
  BY <1>3 DEF SetupStep, CreateConfig, FillConfig, FillConfigFails
<1> QED
  BY <1>1, <1>2, <1>3

\* A job that nobody came across ends as it says.
LEMMA JobKeepsItsWord ==
  ASSUME JobsTell, ServiceNext, NEW c \in Client, Ends(c), ~jobs[c].met
  PROVE  SaveIsATransaction(c) /\ SaveStartsNothing(c) /\ SwitchedTogether(c)
<1> DEFINE x == jobs[c]
<1>1. JobFact(x, file, unit, notifier) /\ serviceFaults \in Nat /\ serviceFaults + 1 # serviceFaults /\ notifier \in BOOLEAN
  BY DEF JobsTell
<1>2. Started.state # "up" /\ Unit("off").state = "off"
  BY ServiceValues
<1>3. SaveStep(c) \/ SwitchStep(c) \/ SetupStep(c)
  BY JobEndsItself
<1>4. SaveIsATransaction(c)
  <2>1. x.pc \in {"rename", "check"} => file' = x.config
    BY <1>1, <1>3, LastSteps DEF JobFact
  <2>2. x.pc \in {"write", "restart old"} => file' = x.previous
    BY <1>1, <1>3, LastSteps DEF JobFact
  <2>3. x.pc \in {"check", "restart old"} /\ serviceFaults' = serviceFaults /\ unit'.state = "up" => unit'.runs = file'
    BY <1>1, <1>2, <1>3, LastSteps DEF JobFact
  <2> QED
    BY <2>1, <2>2, <2>3 DEF SaveIsATransaction
<1>5. SaveStartsNothing(c)
  BY <1>1, <1>3, LastSteps DEF JobFact, SaveStartsNothing
<1>6. SwitchedTogether(c)
  <2>1. SUFFICES ASSUME x.pc \in {"start notifier", "stop service", "undo start", "undo stop"}, x.was,
                        serviceFaults' = serviceFaults
                 PROVE  notifier' = (unit'.state # "off") \/ (notifier' /\ file = NoFile)
    BY DEF SwitchedTogether
  <2>2. CASE x.pc \in {"start notifier", "undo stop"}
    <3>1. notifier' = TRUE /\ unit' = unit
      BY <1>1, <1>3, <2>1, <2>2, LastSteps
    <3>2. NotOff(file, unit)
      BY <1>1, <2>1, <2>2 DEF JobFact
    <3> QED
      BY <3>1, <3>2 DEF NotOff
  <2>3. CASE x.pc \in {"stop service", "undo start"}
    <3>1. notifier' = notifier /\ unit' = Unit("off")
      BY <1>1, <1>3, <2>1, <2>3, LastSteps
    <3>2. ~notifier
      BY <1>1, <2>1, <2>3 DEF JobFact
    <3>3. unit'.state = "off"
      BY <1>2, <3>1
    <3>4. notifier' = FALSE
      BY <1>1, <3>1, <3>2
    <3> QED
      BY <3>3, <3>4
  <2> QED
    BY <2>1, <2>2, <2>3
<1> QED
  BY <1>4, <1>5, <1>6

\* ServiceJobsKeepTheirWord: saving and switching on Linux (guardctl, guard-ui)
\* do what they report, for any clients, configurations and faults.
THEOREM ServiceJobsAreHonest == AdminSpec => ServiceJobsKeepTheirWord
<1>1. AdminInit => JobsTell
  BY ServiceInitTells DEF AdminInit
<1>2. ASSUME JobsTell, [AdminNext]_adminVars PROVE JobsTell' /\ [JobsKeepTheirWord]_serviceVars
  <2>1. CASE ServiceNext
    BY <1>2, <2>1, ServiceKeeps, JobKeepsItsWord DEF JobsKeepTheirWord
  <2>2. CASE UNCHANGED serviceVars
    <3>1. JobsTell'
      BY <1>2, <2>2 DEF JobsTell, serviceVars
    <3> QED
      BY <2>2, <3>1
  <2> QED
    BY <1>2, <2>1, <2>2 DEF AdminNext, Policy, Test, Service, Page, Bundle, Agent, adminVars
<1> QED
  BY <1>1, <1>2, PTL DEF AdminSpec, ServiceJobsKeepTheirWord

-----------------------------------------------------------------------------
(***************************************************************************)
(* The policy page.  The draft a piece of work took away is the draft that *)
(* is still there, unless one was crossed by the other (DraftTells); and   *)
(* what `policy_enabled` says in it is what the extension does, except     *)
(* between a switch that succeeded and its return (SwitchTells).           *)
(***************************************************************************)
Drafts == Draft \union {NoDraft}

FlightRow == [kind : {"none", "apply", "switch"}, pc : {"run", "return"}, draft : Drafts, on : BOOLEAN, ok : BOOLEAN]

\* The shape of the page.
PageWell ==
  /\ platform \in {"linux", "macos"} /\ backend \in Draft /\ candidate \in Drafts /\ apply \in BOOLEAN
  /\ row \in [on : BOOLEAN, sensitive : BOOLEAN]
  /\ poll \in [pc : {"idle", "look", "show"}, config : Drafts, daemon : BOOLEAN, on : BOOLEAN]
  /\ flight \in [Flight -> FlightRow]
  /\ \A f \in Flight : /\ flight[f].kind = "apply" => flight[f].draft # NoDraft
                       /\ flight[f].ok => Able(f)

DraftTells ==
  "crossed" \notin mixups =>
    /\ \A f \in UnderWay : /\ Things(flight[f].draft) = Things(candidate)
                           /\ flight[f].draft # NoDraft => candidate # NoDraft
    /\ UnsavedCanBeApplied

\* A switch that succeeded, and has not been heard of.
Switched(f) == InFlight(f, "switch", "return") /\ flight[f].ok

SwitchTells ==
  platform = "macos" /\ mixups = {} =>
    /\ \A f, g \in UnderWay : f = g
    /\ \A f \in Flight : InFlight(f, "apply", "run") => flight[f].on = backend.on
    /\ \A f \in Flight : Switched(f) => flight[f].on = backend.on
    /\ candidate # NoDraft /\ (\A f \in Flight : ~Switched(f)) => candidate.on = backend.on

PageTells == PageWell /\ DraftTells /\ SwitchTells

\* What the page keeps when the draft, the work and the service stay.
LEMMA PageStays ==
  ASSUME PageTells, platform' = platform, backend' = backend, candidate' = candidate, flight' = flight, base' = base,
         mixups' = mixups, apply' \in {apply, TRUE},
         row' \in [on : BOOLEAN, sensitive : BOOLEAN],
         poll' \in [pc : {"idle", "look", "show"}, config : Drafts, daemon : BOOLEAN, on : BOOLEAN]
  PROVE  PageTells'
<1>1. PageWell'
  BY DEF PageTells, PageWell, Able
<1>2. UnderWay' = UnderWay
  BY DEF UnderWay
<1>3. DraftTells'
  BY <1>2 DEF PageTells, DraftTells, UnsavedCanBeApplied
<1>4. SwitchTells'
  BY <1>2 DEF PageTells, SwitchTells, Switched, InFlight
<1> QED
  BY <1>1, <1>3, <1>4 DEF PageTells

\* An edit wakes the button, or leaves the draft's things alone.
LEMMA EditKeeps ==
  ASSUME PageTells, NEW d \in Draft, candidate # NoDraft, Edit(d), d.on = candidate.on, apply' \in BOOLEAN,
         apply' \/ (d.things = candidate.things /\ apply' = apply),
         UNCHANGED <<platform, backend, row, poll, flight, base>>
  PROVE  PageTells'
<1>1. candidate' = d /\ mixups' = mixups \union Crossed(d) /\ d # NoDraft
  BY ControlCenterAssumption DEF Edit
<1>2. platform' = platform /\ backend' = backend /\ flight' = flight /\ base' = base /\ row' = row /\ poll' = poll
  OBVIOUS
<1>3. UnderWay' = UnderWay /\ Things(d) = d.things /\ Things(candidate) = candidate.things
  BY <1>1, <1>2 DEF UnderWay, Things
<1>4. PageWell'
  BY <1>1, <1>2 DEF PageTells, PageWell, Able, Drafts
<1>5. DraftTells'
  <2>1. SUFFICES ASSUME "crossed" \notin mixups' PROVE DraftTells'
    BY DEF DraftTells
  <2>2. "crossed" \notin mixups /\ (UnderWay = {} \/ Things(d) = Things(candidate))
    BY <1>1, <2>1 DEF Crossed
  <2>3. Things(candidate') = d.things
    BY <1>1, <1>3
  <2>4. \A f \in UnderWay : Things(flight[f].draft) = Things(candidate')
    BY <1>3, <2>2, <2>3 DEF PageTells, DraftTells
  <2>5. UnsavedCanBeApplied'
    BY <1>1, <1>2, <1>3, <2>2 DEF PageTells, DraftTells, UnsavedCanBeApplied
  <2>6. \A f \in UnderWay' : Things(flight'[f].draft) = Things(candidate)' /\ candidate' # NoDraft
    <3>1. Things(candidate)' = Things(candidate')
      BY DEF Things
    <3> QED
      BY <1>1, <1>2, <1>3, <2>4, <3>1
  <2>7. \A f \in UnderWay' : Things(flight[f].draft)' = Things(flight'[f].draft)
    BY DEF Things
  <2> QED
    BY <2>5, <2>6, <2>7 DEF DraftTells
<1>6. SwitchTells'
  <2>1. mixups' = {} => mixups = {}
    BY <1>1
  <2> QED
    BY <1>1, <1>2, <1>3, <2>1 DEF PageTells, SwitchTells, Switched, InFlight
<1> QED
  BY <1>4, <1>5, <1>6 DEF PageTells

\* What a draft consists of.
LEMMA ThingsOfDraft ==
  /\ \A d \in Draft : d # NoDraft /\ d.things \subseteq Thing /\ Things(d) = d.things
  /\ \A d \in Draft, s \in SUBSET Thing : [d EXCEPT !.things = s] \in Draft /\ [d EXCEPT !.things = s].on = d.on
                                         /\ [d EXCEPT !.things = s].things = s
  /\ Things(NoDraft) = {}
BY ControlCenterAssumption DEF Draft, Things

\* Every edit.
LEMMA EditsKeep ==
  ASSUME PageTells,
         \/ \E x \in Thing, on \in BOOLEAN : Toggle(x, on)
         \/ \E k \in Key : AddKey(k)
         \/ \E b \in Browser : AddBrowser(b)
         \/ RefreshSources
  PROVE  PageTells'
<1>1. candidate \in Drafts /\ apply \in BOOLEAN
  BY DEF PageTells, PageWell
<1>2. candidate # NoDraft => candidate \in Draft
  BY <1>1 DEF Drafts
<1>3. ASSUME NEW x \in Thing, NEW on \in BOOLEAN, Toggle(x, on) PROVE PageTells'
  <2>1. candidate # NoDraft /\ candidate \in Draft
    BY <1>2, <1>3 DEF Toggle
  <2> DEFINE s == IF on THEN candidate.things \union {x} ELSE candidate.things \ {x}
             d == [candidate EXCEPT !.things = s]
  <2>2. s \in SUBSET Thing
    BY <2>1, ThingsOfDraft
  <2>3. d \in Draft /\ d.on = candidate.on
    BY <2>1, <2>2, ThingsOfDraft
  <2>4. Edit(d) /\ apply' = TRUE /\ UNCHANGED <<platform, backend, row, poll, flight, base>>
    BY <1>3 DEF Toggle
  <2> HIDE DEF d
  <2> QED
    BY <2>1, <2>3, <2>4, EditKeeps
<1>4. ASSUME NEW k \in Key, AddKey(k) PROVE PageTells'
  <2>1. candidate # NoDraft /\ candidate \in Draft
    BY <1>2, <1>4 DEF AddKey
  <2> DEFINE added == Things(candidate) \union {k}
             kept == added \ (Key \ present)
             d == [candidate EXCEPT !.things = kept]
  <2>2. kept \in SUBSET Thing /\ Things(candidate) = candidate.things
    BY <2>1, ThingsOfDraft DEF Thing
  <2>3. d \in Draft /\ d.on = candidate.on /\ d.things = kept
    BY <2>1, <2>2, ThingsOfDraft
  <2>4. Edit(d) /\ apply' = (apply \/ k \notin Things(candidate) \/ kept # added)
        /\ UNCHANGED <<platform, backend, row, poll, flight, base>>
    BY <1>4 DEF AddKey
  <2>5. CASE k \notin Things(candidate) \/ kept # added
    <3>1. apply' = TRUE
      BY <1>1, <2>4, <2>5
    <3> HIDE DEF d
    <3> QED
      BY <2>1, <2>3, <2>4, <3>1, EditKeeps
  <2>6. CASE k \in Things(candidate) /\ kept = added
    <3>1. apply' = apply
      BY <1>1, <2>4, <2>6
    <3>2. d.things = candidate.things
      BY <2>2, <2>3, <2>6
    <3> HIDE DEF d
    <3> QED
      BY <1>1, <2>1, <2>3, <2>4, <3>1, <3>2, EditKeeps
  <2> QED
    BY <2>5, <2>6
<1>5. ASSUME NEW b \in Browser, AddBrowser(b) PROVE PageTells'
  <2>1. apply' = TRUE /\ UNCHANGED <<platform, backend, row, poll, flight, base>>
    BY <1>5 DEF AddBrowser
  <2>2. CASE candidate = NoDraft
    <3>1. UNCHANGED <<candidate, mixups>>
      BY <1>5, <2>2 DEF AddBrowser
    <3> QED
      BY <2>1, <3>1, PageStays DEF PageTells, PageWell
  <2>3. CASE candidate # NoDraft
    <3> DEFINE d == [candidate EXCEPT !.things = candidate.things \union {b}]
    <3>1. candidate \in Draft /\ candidate.things \union {b} \in SUBSET Thing
      BY <1>2, <2>3, ThingsOfDraft DEF Thing
    <3>2. d \in Draft /\ d.on = candidate.on
      BY <3>1, ThingsOfDraft
    <3>3. Edit(d)
      BY <1>5, <2>3 DEF AddBrowser
    <3> HIDE DEF d
    <3> QED
      BY <2>1, <2>3, <3>2, <3>3, EditKeeps
  <2> QED
    BY <2>2, <2>3
<1>6. CASE RefreshSources
  <2> DEFINE d == [candidate EXCEPT !.things = candidate.things \intersect present]
  <2>1. candidate # NoDraft /\ candidate \in Draft
    BY <1>2, <1>6 DEF RefreshSources
  <2>2. d \in Draft /\ d.on = candidate.on
    BY <2>1, ThingsOfDraft
  <2>3. Edit(d) /\ apply' = TRUE /\ UNCHANGED <<platform, backend, row, poll, flight, base>>
    BY <1>6 DEF RefreshSources
  <2> HIDE DEF d
  <2> QED
    BY <2>1, <2>2, <2>3, EditKeeps
<1> QED
  BY <1>3, <1>4, <1>5, <1>6

\* Work starts.
LEMMA LaunchKeeps ==
  ASSUME PageTells, NEW f \in Flight, NEW kind \in {"apply", "switch"}, NEW on \in BOOLEAN, Launch(f, kind, on),
         kind = "apply" => candidate # NoDraft /\ on = candidate.on,
         kind = "switch" => apply' = apply,
         apply' \in BOOLEAN, row' \in [on : BOOLEAN, sensitive : BOOLEAN],
         platform' = platform, backend' = backend, candidate' = candidate, poll' = poll, base' = base
  PROVE  PageTells'
<1> DEFINE y == [Idle EXCEPT !.kind = kind, !.draft = candidate, !.on = on]
<1>1. /\ f \notin UnderWay /\ flight' = [flight EXCEPT ![f] = y]
      /\ mixups' = mixups \union (IF UnderWay = {} THEN {} ELSE {"overlap"})
  <2>1. f = CHOOSE g \in Flight \ UnderWay : TRUE
    BY DEF Launch
  <2>2. Flight \ UnderWay # {}
    BY DEF Launch, UnderWay
  <2>3. f \in Flight \ UnderWay
    BY <2>1, <2>2
  <2> QED
    BY <2>3 DEF Launch
<1>2. flight \in [Flight -> FlightRow] /\ candidate \in Drafts
  BY DEF PageTells, PageWell
<1>3. y \in FlightRow /\ y.kind = kind /\ y.pc = "run" /\ y.draft = candidate /\ y.on = on /\ ~y.ok
  BY <1>2 DEF FlightRow, Idle
<1> HIDE DEF y
<1>4. /\ flight' \in [Flight -> FlightRow] /\ flight'[f] = y /\ \A g \in Flight \ {f} : flight'[g] = flight[g]
      /\ UnderWay' = UnderWay \union {f}
  BY <1>1, <1>2, <1>3 DEF UnderWay
<1>5. PageWell'
  BY <1>3, <1>4 DEF PageTells, PageWell, Able
<1>6. DraftTells'
  <2>1. SUFFICES ASSUME "crossed" \notin mixups' PROVE DraftTells'
    BY DEF DraftTells
  <2>2. DraftTells /\ "crossed" \notin mixups
    BY <1>1, <2>1 DEF PageTells
  <2>3. Things(candidate)' = Things(candidate)
    BY DEF Things
  <2>4. ASSUME NEW g \in UnderWay'
        PROVE  Things(flight[g].draft)' = Things(candidate)' /\ (flight'[g].draft # NoDraft => candidate' # NoDraft)
    <3>1. CASE g = f
      BY <1>3, <1>4, <3>1 DEF Things
    <3>2. CASE g # f
      <4>1. g \in UnderWay /\ flight'[g] = flight[g]
        BY <1>4, <2>4, <3>2 DEF UnderWay
      <4>2. Things(flight[g].draft)' = Things(flight[g].draft)
        BY <4>1 DEF Things
      <4> QED
        BY <2>2, <2>3, <4>1, <4>2 DEF DraftTells
    <3> QED
      BY <3>1, <3>2
  <2>5. UnsavedCanBeApplied'
    <3>1. CASE kind = "apply"
      BY <1>3, <1>4, <3>1 DEF UnsavedCanBeApplied
    <3>2. CASE kind = "switch"
      <4>1. \A g \in UnderWay : g \in UnderWay' /\ flight'[g] = flight[g]
        BY <1>1, <1>4 DEF UnderWay
      <4>2. UnsavedCanBeApplied
        BY <2>2 DEF DraftTells
      <4> QED
        BY <3>2, <4>1, <4>2 DEF UnsavedCanBeApplied
    <3> QED
      BY <3>1, <3>2
  <2> QED
    BY <2>4, <2>5 DEF DraftTells
<1>7. SwitchTells'
  <2>1. SUFFICES ASSUME platform = "macos", mixups' = {} PROVE SwitchTells'
    BY DEF SwitchTells
  <2>2. mixups = {} /\ UnderWay = {}
    BY <1>1, <2>1
  <2>3. \A g \in Flight : flight[g].kind = "none"
    BY <2>2 DEF UnderWay
  <2>4. candidate # NoDraft => candidate.on = backend.on
    BY <2>1, <2>2, <2>3 DEF PageTells, SwitchTells, Switched, InFlight
  <2>5. UnderWay' = {f}
    BY <1>4, <2>2
  <2>6. \A g \in Flight : /\ InFlight(g, "apply", "run")' => flight'[g].on = backend.on
                          /\ ~Switched(g)'
    BY <1>3, <1>4, <2>3, <2>4 DEF InFlight, Switched
  <2> QED
    BY <2>4, <2>5, <2>6 DEF SwitchTells
<1> QED
  BY <1>5, <1>6, <1>7 DEF PageTells

\* The two buttons.
LEMMA ClicksKeep ==
  ASSUME PageTells, NEW f \in Flight, ApplyClick(f) \/ SwitchClick(f)
  PROVE  PageTells'
<1>1. candidate \in Drafts /\ apply \in BOOLEAN /\ row \in [on : BOOLEAN, sensitive : BOOLEAN]
  BY DEF PageTells, PageWell
<1>2. CASE ApplyClick(f)
  <2>1. candidate # NoDraft /\ candidate.on \in BOOLEAN
    BY <1>1, <1>2 DEF ApplyClick, Drafts, Draft
  <2>2. Launch(f, "apply", candidate.on) /\ apply' = FALSE /\ UNCHANGED <<platform, backend, candidate, row, poll, base>>
    BY <1>2 DEF ApplyClick
  <2> QED
    BY <1>1, <2>1, <2>2, LaunchKeeps
<1>3. CASE SwitchClick(f)
  <2>1. Launch(f, "switch", ~row.on) /\ row' = [on |-> ~row.on, sensitive |-> FALSE]
        /\ UNCHANGED <<platform, backend, candidate, apply, poll, base>>
    BY <1>3 DEF SwitchClick
  <2>2. row' \in [on : BOOLEAN, sensitive : BOOLEAN] /\ (~row.on) \in BOOLEAN
    <3>1. row.on \in BOOLEAN
      BY <1>1
    <3>2. (~row.on) \in BOOLEAN
      BY <3>1
    <3> QED
      BY <2>1, <3>2
  <2> QED
    BY <1>1, <2>1, <2>2, LaunchKeeps
<1> QED
  BY <1>2, <1>3

\* Work goes on from "run" to "return": on the service, or in vain.
LEMMA RunKeepsPage ==
  ASSUME PageTells, NEW f \in Flight, flight[f].kind # "none", flight[f].pc = "run", NEW ok \in BOOLEAN,
         flight' = [flight EXCEPT ![f].pc = "return", ![f].ok = ok], ok => Able(f),
         \/ backend' = backend /\ mixups' = mixups /\ (ok => backend.on = flight[f].on)
         \/ Able(f) /\ backend' = Outcome(f) /\ mixups' = mixups /\ ok
         \/ Able(f) /\ backend' = Outcome(f) /\ "outside" \in mixups' /\ mixups \subseteq mixups',
         UNCHANGED <<platform, candidate, apply, row, poll, base>>
  PROVE  PageTells'
<1> DEFINE y == [flight[f] EXCEPT !.pc = "return", !.ok = ok]
<1>1. /\ flight \in [Flight -> FlightRow] /\ candidate \in Drafts /\ backend \in Draft /\ platform \in {"linux", "macos"}
      /\ \A g \in Flight : flight[g].kind = "apply" => flight[g].draft # NoDraft
  BY DEF PageTells, PageWell
<1>2. flight' = [flight EXCEPT ![f] = y] /\ mixups \subseteq mixups'
  BY <1>1
<1>3. y \in FlightRow /\ y.kind = flight[f].kind /\ y.pc = "return" /\ y.draft = flight[f].draft /\ y.on = flight[f].on /\ y.ok = ok
  BY <1>1 DEF FlightRow
<1> HIDE DEF y
<1>4. /\ flight' \in [Flight -> FlightRow] /\ flight'[f] = y /\ \A g \in Flight \ {f} : flight'[g] = flight[g]
  BY <1>1, <1>2, <1>3
<1>5. \A g \in Flight : flight'[g].kind = flight[g].kind /\ flight'[g].draft = flight[g].draft
  BY <1>3, <1>4
<1>6. UnderWay' = UnderWay /\ f \in UnderWay
  BY <1>5 DEF UnderWay
<1>7. \A g \in Flight : Able(g)' = Able(g)
  BY <1>5 DEF Able
<1>8. Able(f) => Outcome(f) \in Draft /\ (platform = "macos" => Outcome(f).on = flight[f].on)
  <2>1. CASE platform = "macos"
    <3>1. Able(f) => flight[f].draft \in Draft
      BY <1>1, <2>1 DEF Able, FlightRow, Drafts
    <3> QED
      BY <1>1, <2>1, <3>1 DEF Outcome, Draft, FlightRow
  <2>2. CASE platform = "linux" /\ flight[f].kind = "apply"
    <3>1. flight[f].draft \in Draft
      BY <1>1, <2>2 DEF FlightRow, Drafts
    <3> QED
      BY <1>1, <2>2, <3>1 DEF Outcome, Draft
  <2>3. CASE platform = "linux" /\ flight[f].kind = "switch"
    BY <1>1, <2>3 DEF Outcome, Draft, FlightRow
  <2> QED
    BY <1>1, <2>1, <2>2, <2>3 DEF FlightRow
<1>9. PageWell'
  <2>1. backend' \in Draft
    BY <1>1, <1>8
  <2>2. \A g \in Flight : flight'[g].ok => Able(g)'
    BY <1>3, <1>4, <1>7 DEF PageTells, PageWell
  <2>3. \A g \in Flight : flight'[g].kind = "apply" => flight'[g].draft # NoDraft
    BY <1>1, <1>5
  <2> QED
    BY <1>4, <2>1, <2>2, <2>3 DEF PageTells, PageWell
<1>10. DraftTells'
  <2>1. SUFFICES ASSUME "crossed" \notin mixups' PROVE DraftTells'
    BY DEF DraftTells
  <2>2. DraftTells /\ "crossed" \notin mixups
    BY <1>2, <2>1 DEF PageTells
  <2>3. ASSUME NEW g \in UnderWay PROVE Things(flight[g].draft)' = Things(flight[g].draft) /\ g \in Flight
    <3>1. g \in Flight /\ flight'[g].draft = flight[g].draft
      BY <1>5 DEF UnderWay
    <3> QED
      BY <3>1 DEF Things
  <2>4. Things(candidate)' = Things(candidate)
    BY DEF Things
  <2>5. UnsavedCanBeApplied'
    <3>1. UnsavedCanBeApplied
      BY <2>2 DEF DraftTells
    <3>2. \A g \in UnderWay : flight'[g].kind = flight[g].kind
      BY <1>5, <2>3
    <3> QED
      BY <1>6, <3>1, <3>2 DEF UnsavedCanBeApplied
  <2>6. ASSUME NEW g \in UnderWay
        PROVE  Things(flight[g].draft)' = Things(candidate)' /\ (flight'[g].draft # NoDraft => candidate' # NoDraft)
    BY <1>5, <2>2, <2>3, <2>4 DEF DraftTells
  <2> QED
    BY <1>6, <2>5, <2>6 DEF DraftTells
<1>11. SwitchTells'
  <2>1. SUFFICES ASSUME platform = "macos", mixups' = {} PROVE SwitchTells'
    BY DEF SwitchTells
  <2>2. mixups = {} /\ \A g \in Flight : g # f => flight[g].kind = "none"
    BY <1>2, <1>6, <2>1 DEF PageTells, SwitchTells, UnderWay
  <2>3. /\ InFlight(f, "apply", "run") => flight[f].on = backend.on
        /\ candidate # NoDraft => candidate.on = backend.on
    BY <2>1, <2>2 DEF PageTells, SwitchTells, Switched, InFlight
  <2>4. backend'.on = backend.on \/ (backend'.on = flight[f].on /\ ok)
    BY <1>8, <2>1
  <2>5. \A g \in Flight : ~InFlight(g, "apply", "run")' /\ (Switched(g)' => g = f /\ ok)
    BY <1>3, <1>4, <2>2 DEF InFlight, Switched
  <2>6. ok => backend'.on = flight'[f].on
    BY <1>3, <1>4, <1>8, <2>1
  <2>7. candidate # NoDraft /\ ~Switched(f)' => candidate.on = backend'.on
    <3>1. CASE ok /\ flight[f].kind = "apply"
      BY <1>3, <1>4, <2>3, <2>6, <3>1 DEF InFlight
    <3>2. CASE ok /\ flight[f].kind = "switch"
      BY <1>3, <1>4, <3>2 DEF InFlight, Switched
    <3>3. CASE ~ok
      BY <2>3, <2>4, <3>3
    <3> QED
      BY <1>1, <3>1, <3>2, <3>3 DEF FlightRow
  <2>8. \A g, h \in UnderWay' : g = h
    BY <1>6, <2>2 DEF UnderWay
  <2> QED
    BY <2>5, <2>6, <2>7, <2>8 DEF SwitchTells
<1> QED
  BY <1>9, <1>10, <1>11 DEF PageTells

\* What work does, and how it fails.
LEMMA RunsKeep ==
  ASSUME PageTells, NEW f \in Flight, Run(f) \/ RunFails(f)
  PROVE  PageTells'
<1>1. flight[f].kind # "none" /\ flight[f].pc = "run" /\ UNCHANGED <<platform, candidate, apply, row, poll, base>>
  BY DEF Run, RunFails
<1>2. Able(f) \in BOOLEAN
  BY DEF Able
<1>3. CASE Run(f) /\ Able(f)
  BY <1>1, <1>3, RunKeepsPage DEF Run
<1>4. CASE Run(f) /\ ~Able(f)
  <2>1. flight' = [flight EXCEPT ![f].pc = "return", ![f].ok = FALSE]
    BY <1>2, <1>4 DEF Run
  <2> QED
    BY <1>1, <1>4, <2>1, RunKeepsPage DEF Run
<1>5. CASE RunFails(f)
  <2>1. flight' = [flight EXCEPT ![f].pc = "return", ![f].ok = FALSE] /\ Able(f)
        /\ mixups \subseteq mixups'
    BY <1>5 DEF RunFails
  <2>2. \/ backend' = backend /\ mixups' = mixups
        \/ backend' = Outcome(f) /\ "outside" \in mixups'
    BY <1>5 DEF RunFails
  <2> QED
    BY <1>1, <2>1, <2>2, RunKeepsPage
<1> QED
  BY <1>3, <1>4, <1>5

\* Work is over: f leaves the flight.
LEMMA LandingKeeps ==
  ASSUME PageTells, NEW f \in Flight, flight' = [flight EXCEPT ![f] = Idle]
  PROVE  /\ flight' \in [Flight -> FlightRow]
         /\ UnderWay' = UnderWay \ {f}
         /\ \A g \in UnderWay' : g \in UnderWay /\ flight'[g] = flight[g]
         /\ \A g \in Flight : flight'[g].kind # "none" => flight'[g] = flight[g] /\ g # f
         /\ flight'[f].kind = "none" /\ ~flight'[f].ok
         /\ Things(Idle.draft) = {}
<1>1. flight \in [Flight -> FlightRow]
  BY DEF PageTells, PageWell
<1>2. Idle \in FlightRow /\ Idle.kind = "none" /\ ~Idle.ok /\ Idle.draft = NoDraft
  BY DEF Idle, FlightRow, Drafts
<1>3. flight' \in [Flight -> FlightRow] /\ flight'[f] = Idle /\ \A g \in Flight \ {f} : flight'[g] = flight[g]
  BY <1>1, <1>2
<1>4. UnderWay' = UnderWay \ {f}
  BY <1>2, <1>3 DEF UnderWay
<1> QED
  BY <1>2, <1>3, <1>4 DEF UnderWay, Things

\* An application that returns.
LEMMA ApplyReturnKeeps ==
  ASSUME PageTells, NEW f \in Flight, ApplyReturn(f)
  PROVE  PageTells'
<1>1. /\ flight' = [flight EXCEPT ![f] = Idle] /\ apply' = ~flight[f].ok
      /\ base' = IF flight[f].ok THEN flight[f].draft.things ELSE base
      /\ platform' = platform /\ backend' = backend /\ candidate' = candidate /\ row' = row /\ poll' = poll /\ mixups' = mixups
      /\ flight[f].kind = "apply" /\ flight[f].pc = "return"
  BY DEF ApplyReturn, InFlight
<1>2. /\ flight \in [Flight -> FlightRow] /\ flight[f].draft \in Draft /\ candidate \in Drafts /\ f \in UnderWay
      /\ flight[f].ok \in BOOLEAN
  BY <1>1 DEF PageTells, PageWell, FlightRow, Drafts, UnderWay
<1>3. PageWell'
  <2>1. \A g \in Flight : flight'[g].kind = "apply" => flight'[g].draft # NoDraft
    BY <1>1, LandingKeeps DEF PageTells, PageWell
  <2>2. \A g \in Flight : flight'[g].ok => Able(g)'
    <3>1. \A g \in Flight : flight'[g].ok => flight'[g] = flight[g]
      BY <1>1, <1>2 DEF Idle
    <3> QED
      BY <1>1, <3>1 DEF PageTells, PageWell, Able
  <2>3. apply' \in BOOLEAN
    BY <1>1, <1>2
  <2> QED
    BY <1>1, <2>1, <2>2, <2>3, LandingKeeps DEF PageTells, PageWell
<1>4. DraftTells'
  <2>1. SUFFICES ASSUME "crossed" \notin mixups' PROVE DraftTells'
    BY DEF DraftTells
  <2>2. DraftTells /\ "crossed" \notin mixups
    BY <1>1, <2>1 DEF PageTells
  <2>3. ASSUME NEW g \in UnderWay'
        PROVE  Things(flight[g].draft)' = Things(candidate)' /\ (flight'[g].draft # NoDraft => candidate' # NoDraft)
    <3>1. g \in UnderWay /\ flight'[g] = flight[g]
      BY <1>1, <2>3, LandingKeeps
    <3>2. Things(flight[g].draft)' = Things(flight[g].draft) /\ Things(candidate)' = Things(candidate)
      BY <1>1, <3>1 DEF Things
    <3> QED
      BY <1>1, <2>2, <3>1, <3>2 DEF DraftTells
  <2>4. UnsavedCanBeApplied'
    <3>1. CASE flight[f].ok
      <4>1. Things(flight[f].draft) = Things(candidate)
        BY <1>2, <2>2 DEF DraftTells
      <4>2. candidate # NoDraft => candidate.things = base'
        BY <1>1, <1>2, <3>1, <4>1, ThingsOfDraft DEF Drafts
      <4> QED
        BY <1>1, <4>2 DEF UnsavedCanBeApplied
    <3>2. CASE ~flight[f].ok
      BY <1>1, <3>2 DEF UnsavedCanBeApplied
    <3> QED
      BY <3>1, <3>2
  <2> QED
    BY <2>3, <2>4 DEF DraftTells
<1>5. SwitchTells'
  <2>1. SUFFICES ASSUME platform = "macos", mixups = {} PROVE SwitchTells'
    BY <1>1 DEF SwitchTells
  <2>2. \A g \in UnderWay : g = f
    BY <1>2, <2>1 DEF PageTells, SwitchTells
  <2>3. \A g \in Flight : flight'[g].kind = "none" /\ ~Switched(g)
    <3>1. UnderWay' = {}
      BY <1>1, <2>2, LandingKeeps
    <3>2. \A g \in Flight : Switched(g) => g \in UnderWay
      BY DEF Switched, InFlight, UnderWay
    <3> QED
      BY <1>1, <2>2, <3>1, <3>2 DEF UnderWay, Switched, InFlight
  <2>4. candidate # NoDraft => candidate.on = backend.on
    BY <2>1, <2>3 DEF PageTells, SwitchTells
  <2> QED
    BY <1>1, <2>3, <2>4 DEF SwitchTells, InFlight, Switched, UnderWay
<1> QED
  BY <1>3, <1>4, <1>5 DEF PageTells

\* A switch that returns puts its draft back.
LEMMA SwitchReturnKeeps ==
  ASSUME PageTells, NEW f \in Flight, SwitchReturn(f)
  PROVE  PageTells'
<1> DEFINE w == flight[f]
<1>1. /\ flight' = [flight EXCEPT ![f] = Idle]
      /\ row' = [on |-> IF w.ok THEN w.on ELSE ~w.on, sensitive |-> TRUE]
      /\ IF w.ok THEN Edit(Updated(f)) ELSE UNCHANGED <<candidate, mixups>>
      /\ base' = IF w.ok /\ platform = "macos" THEN w.draft.things ELSE base
      /\ platform' = platform /\ backend' = backend /\ apply' = apply /\ poll' = poll
      /\ w.kind = "switch" /\ w.pc = "return"
  BY DEF SwitchReturn, InFlight
<1>2. /\ flight \in [Flight -> FlightRow] /\ w \in FlightRow /\ candidate \in Drafts /\ platform \in {"linux", "macos"}
      /\ f \in UnderWay /\ (w.ok => Able(f))
  BY <1>1 DEF PageTells, PageWell, UnderWay
<1>3. w.ok \in BOOLEAN /\ w.on \in BOOLEAN /\ w.draft \in Drafts
  BY <1>2 DEF FlightRow
<1>4. w.ok => /\ candidate' = Updated(f) /\ mixups' = mixups \union Crossed(Updated(f)) /\ Updated(f) \in Drafts
              /\ platform = "macos" => /\ w.draft \in Draft /\ Updated(f) \in Draft /\ Updated(f).on = w.on
                                       /\ Updated(f).things = w.draft.things
              /\ platform = "linux" => Updated(f) = IF w.draft = NoDraft THEN candidate ELSE w.draft
  <2>1. SUFFICES ASSUME w.ok
                 PROVE  /\ Updated(f) \in Drafts
                        /\ platform = "macos" => /\ w.draft \in Draft /\ Updated(f) \in Draft /\ Updated(f).on = w.on
                                                 /\ Updated(f).things = w.draft.things
                        /\ platform = "linux" => Updated(f) = IF w.draft = NoDraft THEN candidate ELSE w.draft
    BY <1>1 DEF Edit
  <2>2. CASE platform = "macos"
    <3>1. w.draft \in Draft
      BY <1>2, <1>3, <2>1, <2>2 DEF Able, Drafts
    <3>2. Updated(f) = [w.draft EXCEPT !.on = w.on]
      BY <2>2 DEF Updated
    <3>3. Updated(f) \in Draft /\ Updated(f).on = w.on /\ Updated(f).things = w.draft.things
      BY <1>3, <3>1, <3>2 DEF Draft
    <3> QED
      BY <2>2, <3>1, <3>3 DEF Drafts
  <2>3. CASE platform = "linux"
    BY <1>2, <1>3, <2>3 DEF Updated
  <2> QED
    BY <1>2, <2>2, <2>3
<1> HIDE DEF w
<1>5. mixups \subseteq mixups' /\ candidate' \in Drafts
  BY <1>1, <1>2, <1>3, <1>4
<1>6. PageWell'
  <2>1. \A g \in Flight : flight'[g].kind = "apply" => flight'[g].draft # NoDraft
    BY <1>1, LandingKeeps DEF PageTells, PageWell
  <2>2. \A g \in Flight : flight'[g].ok => Able(g)'
    <3>1. \A g \in Flight : flight'[g].ok => flight'[g] = flight[g]
      BY <1>1, <1>2 DEF Idle
    <3> QED
      BY <1>1, <3>1 DEF PageTells, PageWell, Able
  <2>3. (IF w.ok THEN w.on ELSE ~w.on) \in BOOLEAN
    <3>1. (~w.on) \in BOOLEAN
      BY <1>3
    <3> QED
      BY <1>3, <3>1
  <2>4. row' \in [on : BOOLEAN, sensitive : BOOLEAN]
    BY <1>1, <2>3
  <2> QED
    BY <1>1, <1>5, <2>1, <2>2, <2>4, LandingKeeps DEF PageTells, PageWell
<1>7. DraftTells'
  <2>1. SUFFICES ASSUME "crossed" \notin mixups' PROVE DraftTells'
    BY DEF DraftTells
  <2>2. DraftTells /\ "crossed" \notin mixups
    BY <1>5, <2>1 DEF PageTells
  <2>3. Things(candidate') = Things(candidate)
    <3>1. CASE w.ok
      BY <1>2, <1>4, <2>1, <3>1 DEF Crossed
    <3>2. CASE ~w.ok
      BY <1>1, <3>2
    <3> QED
      BY <3>1, <3>2
  <2>4. candidate # NoDraft => candidate' # NoDraft
    <3>1. CASE w.ok /\ platform = "macos"
      BY <1>4, <3>1, ThingsOfDraft
    <3>2. CASE w.ok /\ platform = "linux"
      BY <1>4, <3>2
    <3>3. CASE ~w.ok
      BY <1>1, <3>3
    <3> QED
      BY <1>2, <3>1, <3>2, <3>3
  <2>5. Things(candidate)' = Things(candidate')
    BY DEF Things
  <2>6. ASSUME NEW g \in UnderWay'
        PROVE  Things(flight[g].draft)' = Things(candidate)' /\ (flight'[g].draft # NoDraft => candidate' # NoDraft)
    <3>1. g \in UnderWay /\ flight'[g] = flight[g]
      BY <1>1, <2>6, LandingKeeps
    <3>2. Things(flight[g].draft)' = Things(flight[g].draft)
      BY <3>1 DEF Things
    <3> QED
      BY <2>2, <2>3, <2>4, <2>5, <3>1, <3>2 DEF DraftTells
  <2>7. UnsavedCanBeApplied'
    <3>1. \A g \in UnderWay : flight[g].kind = "apply" => g \in UnderWay' /\ flight'[g].kind = "apply"
      <4>1. \A g \in UnderWay : flight[g].kind = "apply" => g # f /\ g \in Flight
        BY <1>1 DEF UnderWay, w
      <4> QED
        BY <1>1, <4>1, LandingKeeps
    <3>2. CASE w.ok /\ platform = "macos"
      BY <1>1, <1>4, <3>2 DEF UnsavedCanBeApplied
    <3>3. CASE ~(w.ok /\ platform = "macos")
      <4>1. base' = base
        BY <1>1, <3>3
      <4>2. SUFFICES ASSUME candidate' # NoDraft, candidate'.things # base, \A g \in UnderWay' : flight'[g].kind # "apply"
                     PROVE  apply
        BY <1>1, <4>1 DEF UnsavedCanBeApplied
      <4>3. candidate # NoDraft
        <5>1. CASE w.ok
          <6>1. platform = "linux"
            BY <1>2, <3>3, <5>1
          <6> QED
            BY <1>2, <1>4, <2>2, <4>2, <5>1, <6>1 DEF DraftTells, w
        <5>2. CASE ~w.ok
          BY <1>1, <4>2, <5>2
        <5> QED
          BY <5>1, <5>2
      <4>4. candidate.things = candidate'.things
        <5>1. candidate \in Draft /\ candidate' \in Draft
          BY <1>2, <1>5, <4>2, <4>3 DEF Drafts
        <5> QED
          BY <2>3, <5>1, ThingsOfDraft
      <4>5. \A g \in UnderWay : flight[g].kind # "apply"
        BY <3>1, <4>2
      <4> QED
        BY <2>2, <4>2, <4>3, <4>4, <4>5 DEF DraftTells, UnsavedCanBeApplied
    <3> QED
      BY <3>2, <3>3
  <2> QED
    BY <2>6, <2>7 DEF DraftTells
<1>8. SwitchTells'
  <2>1. SUFFICES ASSUME platform = "macos", mixups' = {} PROVE SwitchTells'
    BY <1>1 DEF SwitchTells
  <2>2. mixups = {}
    BY <1>5, <2>1
  <2>3. \A g \in UnderWay : g = f
    BY <1>2, <2>1, <2>2 DEF PageTells, SwitchTells
  <2>4. UnderWay' = {}
    BY <1>1, <2>3, LandingKeeps
  <2>5. \A g \in Flight : flight'[g].kind = "none"
    BY <2>4 DEF UnderWay
  <2>6. candidate' # NoDraft => candidate'.on = backend.on
    <3>1. CASE w.ok
      <4>1. Switched(f)
        BY <1>1, <3>1 DEF Switched, InFlight, w
      <4>2. w.on = backend.on
        BY <2>1, <2>2, <4>1 DEF PageTells, SwitchTells, w
      <4> QED
        BY <1>4, <2>1, <3>1, <4>2
    <3>2. CASE ~w.ok
      <4>1. \A g \in Flight : ~Switched(g)
        <5>1. \A g \in Flight : Switched(g) => g \in UnderWay /\ flight[g].ok
          BY DEF Switched, InFlight, UnderWay
        <5> QED
          BY <2>3, <3>2, <5>1 DEF w
      <4> QED
        BY <1>1, <2>1, <2>2, <3>2, <4>1 DEF PageTells, SwitchTells
    <3> QED
      BY <3>1, <3>2
  <2> QED
    BY <1>1, <2>4, <2>5, <2>6 DEF SwitchTells, InFlight, Switched
<1> QED
  BY <1>6, <1>7, <1>8 DEF PageTells

\* What the poll read is shown, and becomes the draft if there is none.
LEMMA PollShowKeeps ==
  ASSUME PageTells, PollShow
  PROVE  PageTells'
<1>1. /\ platform' = platform /\ backend' = backend /\ flight' = flight
      /\ row' = [on |-> poll.on, sensitive |-> platform = "linux" \/ Things(candidate') # {}]
      /\ poll' = NoPoll /\ Hydrate
  BY DEF PollShow, Show
<1>2. /\ platform \in {"linux", "macos"} /\ candidate \in Drafts /\ poll.config \in Drafts /\ poll.on \in BOOLEAN
      /\ flight \in [Flight -> FlightRow]
  BY DEF PageTells, PageWell
<1>3. /\ row' \in [on : BOOLEAN, sensitive : BOOLEAN]
      /\ poll' \in [pc : {"idle", "look", "show"}, config : Drafts, daemon : BOOLEAN, on : BOOLEAN]
  BY <1>1, <1>2 DEF NoPoll, Drafts
<1>4. UnderWay' = UnderWay
  BY <1>1 DEF UnderWay
<1>5. CASE UNCHANGED <<candidate, apply, base, mixups>>
  BY <1>1, <1>3, <1>5, PageStays DEF PageTells, PageWell
<1>6. ASSUME NEW d \in Draft, candidate = NoDraft, candidate' = d, base' = d.things, apply' \in BOOLEAN,
             mixups \union Crossed(d) \subseteq mixups' \/ (d.things = {} /\ mixups \subseteq mixups'),
             mixups' = {} /\ platform = "macos" => d.on = backend.on
      PROVE  PageTells'
  <2>1. d # NoDraft /\ Things(d) = d.things /\ mixups \subseteq mixups'
    BY <1>6, ThingsOfDraft
  <2>2. PageWell'
    BY <1>1, <1>3, <1>6, <2>1 DEF PageTells, PageWell, Able, Drafts
  <2>3. DraftTells'
    <3>1. SUFFICES ASSUME "crossed" \notin mixups' PROVE DraftTells'
      BY DEF DraftTells
    <3>2. UnderWay = {} \/ Things(d) = Things(candidate)
      BY <1>6, <2>1, <3>1, ThingsOfDraft DEF Crossed
    <3>3. \A g \in UnderWay : Things(flight[g].draft) = Things(candidate)
      BY <2>1, <3>1 DEF PageTells, DraftTells
    <3>4. \A g \in UnderWay' : Things(flight[g].draft)' = Things(candidate)' /\ candidate' # NoDraft
      <4>1. \A g \in UnderWay : Things(flight[g].draft)' = Things(flight[g].draft)
        BY <1>1 DEF Things
      <4>2. Things(candidate)' = Things(d)
        BY <1>6 DEF Things
      <4> QED
        BY <1>4, <1>6, <2>1, <3>2, <3>3, <4>1, <4>2
    <3>5. UnsavedCanBeApplied'
      BY <1>6 DEF UnsavedCanBeApplied
    <3> QED
      BY <3>4, <3>5 DEF DraftTells
  <2>4. SwitchTells'
    <3>1. mixups' = {} => mixups = {}
      BY <2>1
    <3> QED
      BY <1>1, <1>4, <1>6, <3>1 DEF PageTells, SwitchTells, Switched, InFlight
  <2> QED
    BY <2>2, <2>3, <2>4 DEF PageTells
<1>7. CASE candidate = NoDraft /\ poll.config # NoDraft
  <2>1. /\ candidate' = poll.config /\ apply' = FALSE /\ base' = poll.config.things
        /\ mixups' = mixups \union Crossed(poll.config)
             \union (IF poll.config.on # Reported({}, backend.on).on THEN {"outside"} ELSE {})
    BY <1>1, <1>7 DEF Hydrate
  <2>2. poll.config \in Draft
    BY <1>2, <1>7 DEF Drafts
  <2>3. platform = "macos" => Reported({}, backend.on).on = backend.on
    BY DEF Reported, PageTells, PageWell, Draft
  <2>4. mixups' = {} /\ platform = "macos" => poll.config.on = backend.on
    BY <2>1, <2>3
  <2> QED
    BY <1>6, <1>7, <2>1, <2>2, <2>4
<1>8. CASE candidate = NoDraft /\ poll.config = NoDraft /\ poll.daemon /\ platform = "macos"
  <2>1. candidate' = Empty /\ base' = {} /\ mixups' = mixups \union {"placeholder"} /\ apply' = apply
    BY <1>1, <1>8 DEF Hydrate
  <2>2. Empty \in Draft /\ Empty.things = {}
    BY DEF Empty, Draft
  <2> QED
    BY <1>6, <1>8, <2>1, <2>2 DEF PageTells, PageWell
<1> QED
  BY <1>1, <1>5, <1>7, <1>8 DEF Hydrate

\* The service is changed by others.
LEMMA ElsewhereKeeps ==
  ASSUME PageTells, ChangedElsewhere
  PROVE  PageTells'
<1>1. /\ backend' \in Draft /\ mixups' = mixups \union {"outside"}
      /\ platform' = platform /\ candidate' = candidate /\ apply' = apply /\ row' = row /\ poll' = poll
      /\ flight' = flight /\ base' = base
  <2>1. backend \in Draft
    BY DEF PageTells, PageWell
  <2>2. ASSUME backend' = [backend EXCEPT !.on = ~@] PROVE backend' \in Draft
    <3>1. backend.on \in BOOLEAN
      BY <2>1 DEF Draft
    <3>2. (~backend.on) \in BOOLEAN
      BY <3>1
    <3> QED
      BY <2>1, <2>2, <3>2 DEF Draft
  <2>3. ASSUME NEW s \in {Key, Browser}, backend' = [backend EXCEPT !.things = s] PROVE backend' \in Draft
    BY <2>1, <2>3 DEF Draft, Thing
  <2> QED
    BY <2>2, <2>3 DEF ChangedElsewhere
<1>2. UnderWay' = UnderWay
  BY <1>1 DEF UnderWay
<1>3. PageWell'
  BY <1>1 DEF PageTells, PageWell, Able
<1>4. DraftTells'
  BY <1>1, <1>2 DEF PageTells, DraftTells, UnsavedCanBeApplied
<1>5. SwitchTells'
  <2>1. mixups' # {}
    BY <1>1
  <2> QED
    BY <2>1 DEF SwitchTells
<1> QED
  BY <1>3, <1>4, <1>5 DEF PageTells

\* The draft is thrown away.
LEMMA DiscardKeeps ==
  ASSUME PageTells, Discard
  PROVE  PageTells'
<1>1. /\ candidate' = NoDraft /\ apply' = FALSE
      /\ mixups' = IF UnderWay = {} THEN {} ELSE mixups \union {"crossed"}
      /\ platform' = platform /\ backend' = backend /\ row' = row /\ poll' = poll /\ flight' = flight /\ base' = base
  BY DEF Discard
<1>2. UnderWay' = UnderWay
  BY <1>1 DEF UnderWay
<1>3. PageWell'
  BY <1>1 DEF PageTells, PageWell, Able, Drafts
<1>4. DraftTells'
  BY <1>1, <1>2 DEF DraftTells, UnsavedCanBeApplied
<1>5. SwitchTells'
  <2>1. SUFFICES ASSUME mixups' = {} PROVE SwitchTells'
    BY DEF SwitchTells
  <2>2. UnderWay = {}
    BY <1>1, <2>1
  <2>3. \A g \in Flight : flight[g].kind = "none"
    BY <2>2 DEF UnderWay
  <2> QED
    BY <1>1, <1>2, <2>2, <2>3 DEF SwitchTells, InFlight, Switched
<1> QED
  BY <1>3, <1>4, <1>5 DEF PageTells

\* What the poll reads, and what vanishes from the disk.
LEMMA ReadsKeep ==
  ASSUME PageTells, PollRead \/ PollReadFails \/ PollLook \/ \E x \in Thing : Vanish(x)
  PROVE  PageTells'
<1> DEFINE Polls == [pc : {"idle", "look", "show"}, config : Drafts, daemon : BOOLEAN, on : BOOLEAN]
<1>1. /\ platform' = platform /\ backend' = backend /\ candidate' = candidate /\ flight' = flight /\ base' = base
      /\ mixups' = mixups /\ apply' = apply /\ row' = row
  BY DEF PollRead, PollReadFails, PollLook, Vanish
<1>2. /\ poll \in Polls /\ backend \in Draft /\ platform \in {"linux", "macos"}
      /\ row \in [on : BOOLEAN, sensitive : BOOLEAN]
  BY DEF PageTells, PageWell
<1>3. poll' \in Polls
  <2>1. CASE PollRead
    <3>1. Answering \in BOOLEAN
      BY <1>2 DEF Answering, Draft
    <3>2. Reported(backend.things, backend.on) \in Drafts /\ NoDraft \in Drafts
      BY <1>2 DEF Reported, Draft, Drafts
    <3>3. PICK c \in Drafts : poll' = [poll EXCEPT !.pc = "look", !.daemon = Answering, !.config = c]
      BY <2>1, <3>2 DEF PollRead
    <3> QED
      BY <1>2, <3>1, <3>3
  <2>2. CASE PollReadFails
    <3>1. PICK b : b \in BOOLEAN /\ poll' = [poll EXCEPT !.pc = "look", !.config = NoDraft, !.daemon = b]
      <4>1. PICK daemon \in BOOLEAN : poll' = [poll EXCEPT !.pc = "look", !.config = NoDraft, !.daemon = Answering /\ daemon]
        BY <2>2 DEF PollReadFails
      <4>2. (Answering /\ daemon) \in BOOLEAN
        BY DEF Answering
      <4> QED
        BY <4>1, <4>2
    <3> QED
      BY <1>2, <3>1 DEF Drafts
  <2>3. CASE PollLook
    <3> DEFINE on == IF platform = "linux" THEN backend.on ELSE poll.config # NoDraft /\ poll.config.on
    <3>1. poll' = [poll EXCEPT !.pc = "show", !.on = on]
      BY <2>3 DEF PollLook
    <3>2. on \in BOOLEAN
      BY <1>2 DEF Draft
    <3> HIDE DEF on
    <3> QED
      BY <1>2, <3>1, <3>2
  <2>4. CASE \E x \in Thing : Vanish(x)
    BY <1>2, <2>4 DEF Vanish
  <2> QED
    BY <2>1, <2>2, <2>3, <2>4
<1> QED
  BY <1>1, <1>2, <1>3, PageStays

\* Every step.
LEMMA PageKeeps ==
  ASSUME PageTells, CenterNext
  PROVE  PageTells'
BY EditsKeep, DiscardKeeps, ClicksKeep, RunsKeep, ApplyReturnKeeps, SwitchReturnKeeps, PollShowKeeps, ReadsKeep,
   ElsewhereKeeps DEF CenterNext, Polling, Proceed

\* Every start.
LEMMA PageInitTells ==
  ASSUME CenterInit
  PROVE  PageTells
<1>1. /\ candidate = NoDraft /\ apply = FALSE /\ row = [on |-> FALSE, sensitive |-> TRUE] /\ poll = NoPoll
      /\ flight = [f \in Flight |-> Idle] /\ platform \in {"linux", "macos"} /\ backend \in [things : {Key}, on : BOOLEAN]
  BY DEF CenterInit
<1>2. backend \in Draft
  BY <1>1 DEF Draft, Thing
<1>3. Idle \in FlightRow /\ Idle.kind = "none" /\ Idle.ok = FALSE
  BY DEF Idle, FlightRow, Drafts
<1>4. PageWell
  BY <1>1, <1>2, <1>3 DEF PageWell, NoPoll, Drafts
<1>5. UnderWay = {}
  BY <1>1, <1>3 DEF UnderWay
<1>6. DraftTells
  BY <1>1, <1>5 DEF DraftTells, UnsavedCanBeApplied
<1>7. SwitchTells
  BY <1>1, <1>3, <1>5 DEF SwitchTells, InFlight, Switched
<1> QED
  BY <1>4, <1>6, <1>7 DEF PageTells

\* Work that applies a draft leaves the switch of the service alone.
LEMMA AppliesKeepTheSwitch ==
  ASSUME PageTells, CenterNext, mixups' = {}, NEW f \in Flight,
         InFlight(f, "apply", "run"), flight'[f].pc = "return"
  PROVE  backend'.on = backend.on
<1>1. /\ platform \in {"linux", "macos"} /\ flight \in [Flight -> FlightRow] /\ backend \in Draft
      /\ flight[f].kind = "apply" /\ flight[f].pc = "run"
  BY DEF PageTells, PageWell, InFlight
<1>2. ASSUME UNCHANGED backend PROVE backend'.on = backend.on
  BY <1>2
<1>3. CASE ChangedElsewhere
  BY <1>3 DEF ChangedElsewhere
<1>4. ASSUME NEW g \in Flight, RunFails(g) PROVE backend'.on = backend.on
  BY <1>4 DEF RunFails
<1>5. ASSUME NEW g \in Flight, Run(g) PROVE backend'.on = backend.on
  <2>1. g = f
    <3>1. CASE g # f
      <4>1. flight'[f] = flight[f]
        BY <1>1, <1>5, <3>1 DEF Run
      <4> QED
        BY <1>1, <4>1
    <3> QED
      BY <3>1
  <2>2. mixups = {}
    BY <1>5 DEF Run
  <2>3. flight[f].draft \in Draft
    BY <1>1 DEF PageTells, PageWell, FlightRow, Drafts
  <2>4. backend' \in {backend, Outcome(f)}
    BY <1>5, <2>1 DEF Run
  <2>5. CASE platform = "macos"
    <3>1. flight[f].on = backend.on
      BY <2>2, <2>5 DEF PageTells, SwitchTells
    <3>2. Outcome(f).on = flight[f].on
      BY <2>5 DEF Outcome
    <3> QED
      BY <2>4, <3>1, <3>2
  <2>6. CASE platform = "linux"
    <3>1. Outcome(f) = [backend EXCEPT !.things = flight[f].draft.things]
      BY <1>1, <2>6 DEF Outcome
    <3>2. Outcome(f).on = backend.on
      BY <1>1, <3>1 DEF Draft
    <3> QED
      BY <2>4, <3>2
  <2> QED
    BY <1>1, <2>5, <2>6
<1>6. ASSUME NEW g \in Flight, ApplyClick(g) \/ SwitchClick(g) \/ ApplyReturn(g) \/ SwitchReturn(g) PROVE UNCHANGED backend
  BY <1>6 DEF ApplyClick, SwitchClick, ApplyReturn, SwitchReturn
<1>7. ASSUME \/ \E x \in Thing, on \in BOOLEAN : Toggle(x, on)
             \/ \E k \in Key : AddKey(k)
             \/ \E b \in Browser : AddBrowser(b)
             \/ RefreshSources \/ Discard \/ Polling \/ PollReadFails
             \/ \E x \in Thing : Vanish(x)
      PROVE  UNCHANGED backend
  BY <1>7 DEF Toggle, AddKey, AddBrowser, RefreshSources, Discard, Polling, PollRead, PollLook, PollShow, Show,
     PollReadFails, Vanish
<1> QED
  BY <1>2, <1>3, <1>4, <1>5, <1>6, <1>7 DEF CenterNext, Proceed

\* ApplyIsHonest: what is unsaved can be applied, and applying it does not turn
\* protection on or off (guard-ui's main.rs and platform_service.rs).
THEOREM ApplyingIsHonest == AdminSpec => ApplyIsHonest
<1>1. AdminInit => PageTells
  BY PageInitTells DEF AdminInit
<1>2. ASSUME PageTells, [AdminNext]_adminVars PROVE PageTells' /\ [ApplyMeansWhatItShows]_centerVars
  <2>1. CASE CenterNext
    <3>1. PageTells'
      BY <1>2, <2>1, PageKeeps
    <3>2. mixups' \intersect {"crossed"} = {} => UnsavedCanBeApplied'
      BY <3>1 DEF PageTells, DraftTells
    <3>3. mixups' = {} => ApplyKeepsTheSwitch
      BY <1>2, <2>1, AppliesKeepTheSwitch DEF ApplyKeepsTheSwitch
    <3> QED
      BY <3>1, <3>2, <3>3 DEF ApplyMeansWhatItShows
  <2>2. CASE UNCHANGED centerVars
    <3>1. /\ UNCHANGED <<platform, backend, candidate, apply, row, poll, flight, base, mixups>>
      BY <2>2 DEF centerVars
    <3>2. PageTells'
      BY <1>2, <3>1, PageStays DEF PageTells, PageWell
    <3> QED
      BY <2>2, <3>2
  <2> QED
    BY <1>2, <2>1, <2>2 DEF AdminNext, Policy, Test, Service, Page, Bundle, Agent, adminVars
<1> QED
  BY <1>1, <1>2, PTL DEF AdminSpec, ApplyIsHonest
=============================================================================
