---------------------------- MODULE ConfigApply ------------------------------
(***************************************************************************)
(* How a new configuration takes effect in the macOS extension             *)
(* (apps/guard-es: service.rs and policy.rs; crates/platform-macos:        *)
(* endpoint_security.rs, config.rs).  The kernel hands over only opens of  *)
(* selected paths, so the selection has to cover what the policy protects. *)
(* XPC threads apply configurations without a common lock; the main loop,  *)
(* which owns the Endpoint Security client, changes the selection for them *)
(* and now and then rebuilds the resource index.                           *)
(*                                                                         *)
(* A configuration stands for the paths it protects; its trusted programs  *)
(* and everything else in it go with it.                                   *)
(***************************************************************************)
EXTENDS Naturals, Sequences, FiniteSets

CONSTANTS
  Rule,             \* the paths that can be selected and protected
  NoConfig,         \* no configuration is loaded
  Installed,        \* the configurations the extension may start with
  Offered,          \* what clients may ask to apply
  Keys,             \* the keys clients may ask to protect
  Applier,          \* the XPC threads that serve them
  MaxFaults,        \* bound: how often something fails, requests overlap, or a
                    \* repair of the index is asked for
  MaxApplies        \* bound: how many requests of administrators are served

Config == SUBSET Rule

ASSUME ConfigAssumption ==
  /\ \A c \in Config : c # NoConfig
  /\ Installed \subseteq {NoConfig} \union Config
  /\ Offered \subseteq Config /\ Keys \subseteq Rule
  /\ {MaxFaults, MaxApplies} \subseteq Nat

VARIABLES
  policy,           \* configuration, trusted programs and index in force
  selection,        \* what the kernel selects, and what the client believes
  disk,             \* the file, and the contents a power loss may leave
  requests,         \* selection updates on their way to the main loop
  main,             \* the main loop: idle, or rebuilding a copied index
  refresh,          \* refresh_needed
  applier,          \* the requests being served
  acknowledged,     \* the configuration last reported as applied
  mishaps,          \* history: what happened since the start that the code
                    \* does not make good, see Mishaps
  faults, applies   \* how often each happened

counters == <<faults, applies>>
vars == <<policy, selection, disk, requests, main, refresh, applier,
          acknowledged, mishaps, counters>>

\* Two requests were served at once; an update was answered too late, or was
\* made in part; a rollback could not widen the selection first, or restore the
\* policy; a repair put an older index back; a file was renamed and its
\* directory not synced; the first configuration failed, and stays in force.
Mishaps ==
  {"overlap", "late", "partway", "narrow", "unrestored", "repair", "unsynced", "kept"}

\* The paths a configuration protects.
Rules(c) == IF c = NoConfig THEN {} ELSE c

NoRequest == [pc |-> "idle", config |-> NoConfig, old |-> NoConfig, oldPlan |-> {},
              answer |-> "none", publish |-> NoConfig, stage |-> "trust"]

Loaded(c) == [config |-> c, trust |-> c, index |-> Rules(c)]

\* run(): the policy is loaded from the file, and its paths are selected.
Init ==
  /\ \E c \in Installed :
       /\ policy = Loaded(c)
       /\ selection = [native |-> Rules(c), active |-> Rules(c)]
       /\ disk = [file |-> c, durable |-> {c}]
  /\ requests = <<>>
  /\ main = [pc |-> "idle", copy |-> {}]
  /\ refresh = FALSE
  /\ applier = [a \in Applier |-> NoRequest]
  /\ acknowledged = policy.config
  /\ mishaps = {}
  /\ faults = 0 /\ applies = 0

Fault == faults < MaxFaults /\ faults' = faults + 1

Mishap(kind) == mishaps' = mishaps \union {kind}

At(a, pc) == applier[a].pc = pc

-----------------------------------------------------------------------------
(***************************************************************************)
(* Steps of an XPC thread a that several phases share.                     *)
(***************************************************************************)

\* apply_target_selection: send the plan, then wait in pc for the answer.
Ask(a, plan, pc) ==
  /\ requests' = Append(requests, [by |-> a, plan |-> plan])
  /\ applier' = [applier EXCEPT ![a].pc = pc, ![a].answer = "none"]

Waiting(a) == applier[a].pc \in {"expanding", "shrinking", "reexpanding", "reshrinking"}

\* The answer does not come in time.  The request stays in the channel.
GiveUp(a) ==
  /\ Waiting(a) /\ applier[a].answer = "none"
  /\ Fault
  /\ Mishap("late")
  /\ applier' = [applier EXCEPT ![a].answer = "error"]
  /\ requests' = [i \in DOMAIN requests |->
                    IF requests[i].by = a THEN [requests[i] EXCEPT !.by = "nobody"]
                    ELSE requests[i]]
  /\ UNCHANGED <<policy, selection, disk, main, refresh, acknowledged, applies>>

Answered(a, pc, answer) == At(a, pc) /\ applier[a].answer = answer

\* apply_config(c) starts; pc says what follows it.
Publishing(a, c, pc) ==
  applier' = [applier EXCEPT ![a].pc = pc, ![a].publish = c]

Fail(a) == applier' = [applier EXCEPT ![a] = NoRequest]

-----------------------------------------------------------------------------
(***************************************************************************)
(* ControlHandler: the requests, and transactional_apply.                  *)
(***************************************************************************)
Serve(a, c) ==
  /\ At(a, "idle")
  /\ applier' = [applier EXCEPT ![a] = [NoRequest EXCEPT !.pc = "start", !.config = c]]
  /\ IF \A b \in Applier : At(b, "idle")
     THEN UNCHANGED <<mishaps, faults>>
     ELSE Mishap("overlap") /\ Fault
  /\ UNCHANGED <<policy, selection, disk, requests, main, refresh, acknowledged>>

Counted == applies < MaxApplies /\ applies' = applies + 1

Apply(a, c) == Counted /\ Serve(a, c)

\* protect_ssh_key: the configuration in force, with one more key.
Protect(a, key) == Counted /\ Serve(a, Rules(policy.config) \union {key})

ReadOld(a) ==
  /\ At(a, "start")
  /\ applier' = [applier EXCEPT ![a].pc = "plan", ![a].old = policy.config]
  /\ UNCHANGED <<policy, selection, disk, requests, main, refresh, acknowledged, mishaps, counters>>

Union(a) == applier[a].oldPlan \union applier[a].config

\* Mutant: the new plan is asked for, without the one still in force.
ExpandOnlyNew(a) ==
  /\ At(a, "plan")
  /\ requests' = Append(requests, [by |-> a, plan |-> applier[a].config])
  /\ applier' = [applier EXCEPT ![a].pc = "expanding", ![a].oldPlan = policy.index]
  /\ UNCHANGED <<policy, selection, disk, main, refresh, acknowledged, mishaps, counters>>

Expand(a) ==
  /\ At(a, "plan")
  /\ requests' = Append(requests, [by |-> a, plan |-> policy.index \union applier[a].config])
  /\ applier' = [applier EXCEPT ![a].pc = "expanding", ![a].oldPlan = policy.index]
  /\ UNCHANGED <<policy, selection, disk, main, refresh, acknowledged, mishaps, counters>>

Expanded(a) ==
  /\ \/ Answered(a, "expanding", "ok") /\ Publishing(a, applier[a].config, "publish")
     \/ Answered(a, "expanding", "error") /\ Fail(a)
  /\ UNCHANGED <<policy, selection, disk, requests, main, refresh, acknowledged, mishaps, counters>>

(***************************************************************************)
(* MacPolicy::apply_config: validation may fail, then trust, index and     *)
(* configuration are replaced in turn.  The restoring calls ignore failure.*)
(***************************************************************************)
AfterPublish(pc) ==
  CASE pc = "publish" -> "published" [] pc = "restore" -> "failed" [] pc = "rollback" -> "rolledback"

InPublish(a) == applier[a].pc \in {"publish", "restore", "rollback"}

PublishFails(a) ==
  /\ InPublish(a) /\ applier[a].stage = "trust"
  /\ Fault
  /\ IF At(a, "publish") THEN Fail(a) /\ UNCHANGED mishaps
     ELSE /\ applier' = [applier EXCEPT ![a].pc = AfterPublish(@)]
          /\ Mishap("unrestored")
  /\ UNCHANGED <<policy, selection, disk, requests, main, refresh, acknowledged,
                 applies>>

Publish(a, stage, next) ==
  /\ InPublish(a) /\ applier[a].stage = stage
  /\ applier' = [applier EXCEPT ![a].stage = next,
                                ![a].pc = IF next = "trust" THEN AfterPublish(@) ELSE @]
  /\ UNCHANGED <<selection, disk, requests, main, refresh, acknowledged, mishaps, counters>>

\* Mutant: the index is forgotten.
PublishTrustOnly(a) ==
  /\ Publish(a, "trust", "config")
  /\ policy' = [policy EXCEPT !.trust = applier[a].publish]

PublishTrust(a) ==
  /\ Publish(a, "trust", "index")
  /\ policy' = [policy EXCEPT !.trust = applier[a].publish]

\* Mutant: the restoring call returns before the index is replaced.
PublishIndexNot(a) ==
  /\ Publish(a, "index", "config")
  /\ policy' = IF At(a, "restore") THEN policy
               ELSE [policy EXCEPT !.index = Rules(applier[a].publish)]

PublishIndex(a) ==
  /\ Publish(a, "index", "config")
  /\ policy' = [policy EXCEPT !.index = Rules(applier[a].publish)]

PublishConfig(a) ==
  /\ Publish(a, "config", "trust")
  /\ policy' = [policy EXCEPT !.config = applier[a].publish]

Shrink(a) ==
  /\ At(a, "published")
  /\ Ask(a, applier[a].config, "shrinking")
  /\ UNCHANGED <<policy, selection, disk, main, refresh, acknowledged, mishaps, counters>>

\* A selection that did not shrink: the previous policy, if there was one.
Shrunk(a) ==
  /\ \/ /\ Answered(a, "shrinking", "ok")
        /\ applier' = [applier EXCEPT ![a].pc = "write"]
        /\ UNCHANGED mishaps
     \/ /\ Answered(a, "shrinking", "error")
        /\ IF applier[a].old = NoConfig THEN Fail(a) /\ Mishap("kept")
           ELSE Publishing(a, applier[a].old, "restore") /\ UNCHANGED mishaps
  /\ UNCHANGED <<policy, selection, disk, requests, main, refresh, acknowledged, counters>>

Failed(a) ==
  /\ At(a, "failed")
  /\ Fail(a)
  /\ UNCHANGED <<policy, selection, disk, requests, main, refresh, acknowledged, mishaps, counters>>

\* persist: a temporary file, then a rename, then the directory.
WriteFails(a) ==
  /\ At(a, "write")
  /\ Fault
  /\ Ask(a, Union(a), "reexpanding")
  /\ UNCHANGED <<policy, selection, disk, main, refresh, acknowledged, mishaps, applies>>

\* Mutant: the rename is taken for durable.
RenameUnsynced(a) ==
  /\ At(a, "write")
  /\ disk' = [disk EXCEPT !.file = applier[a].config, !.durable = @ \union {applier[a].config}]
  /\ acknowledged' = applier[a].config
  /\ Fail(a)
  /\ UNCHANGED <<policy, selection, requests, main, refresh, mishaps, counters>>

Rename(a) ==
  /\ At(a, "write")
  /\ disk' = [disk EXCEPT !.file = applier[a].config, !.durable = @ \union {applier[a].config}]
  /\ applier' = [applier EXCEPT ![a].pc = "sync"]
  /\ UNCHANGED <<policy, selection, requests, main, refresh, acknowledged, mishaps, counters>>

SyncFails(a) ==
  /\ At(a, "sync")
  /\ Fault
  /\ Mishap("unsynced")
  /\ Ask(a, Union(a), "reexpanding")
  /\ UNCHANGED <<policy, selection, disk, main, refresh, acknowledged, applies>>

\* The directory is on disk, and the client is told.
Sync(a) ==
  /\ At(a, "sync")
  /\ disk' = [disk EXCEPT !.durable = {disk.file}]
  /\ acknowledged' = applier[a].config
  /\ applier' = [applier EXCEPT ![a] = NoRequest]
  /\ UNCHANGED <<policy, selection, requests, main, refresh, mishaps, counters>>

\* The answer to the rollback's wider plan is not looked at.
Reexpanded(a) ==
  /\ At(a, "reexpanding") /\ applier[a].answer # "none"
  /\ IF applier[a].old = NoConfig THEN Fail(a)
     ELSE Publishing(a, applier[a].old, "rollback")
  /\ mishaps' = mishaps \union {kind \in {"narrow", "kept"} :
                   IF kind = "narrow" THEN applier[a].answer = "error" ELSE applier[a].old = NoConfig}
  /\ UNCHANGED <<policy, selection, disk, requests, main, refresh, acknowledged, counters>>

Reshrink(a) ==
  /\ At(a, "rolledback")
  /\ Ask(a, applier[a].oldPlan, "reshrinking")
  /\ UNCHANGED <<policy, selection, disk, main, refresh, acknowledged, mishaps, counters>>

Reshrunk(a) ==
  /\ At(a, "reshrinking") /\ applier[a].answer # "none"
  /\ Fail(a)
  /\ UNCHANGED <<policy, selection, disk, requests, main, refresh, acknowledged, mishaps, counters>>

-----------------------------------------------------------------------------
(***************************************************************************)
(* The main loop.                                                          *)
(***************************************************************************)
Reply(answer) ==
  LET by == Head(requests).by IN
    /\ requests' = Tail(requests)
    /\ applier' = IF by \in Applier THEN [applier EXCEPT ![by].answer = answer] ELSE applier

Additions == Head(requests).plan \ selection.active
Removals == selection.active \ Head(requests).plan

\* update_target_paths: additions, then removals, then what is believed.
UpdateSelection ==
  /\ main.pc = "idle" /\ requests # <<>>
  /\ selection' = [native |-> (selection.native \union Additions) \ Removals,
                   active |-> Head(requests).plan]
  /\ Reply("ok")
  /\ UNCHANGED <<policy, disk, main, refresh, acknowledged, mishaps, counters>>

\* The kernel refuses the first change, and nothing has changed ...
RefuseSelection ==
  /\ main.pc = "idle" /\ requests # <<>>
  /\ Fault
  /\ Reply("error")
  /\ UNCHANGED <<policy, selection, disk, main, refresh, acknowledged, mishaps, applies>>

\* ... or a later one, and what is believed is no longer what is.
RefusePartway ==
  /\ main.pc = "idle" /\ requests # <<>>
  /\ Fault
  /\ Mishap("partway")
  /\ \/ \E added \in SUBSET Additions :
          selection' = [selection EXCEPT !.native = @ \union added]
     \/ \E removed \in SUBSET Removals :
          selection' = [selection EXCEPT !.native = (@ \union Additions) \ removed]
  /\ Reply("error")
  /\ UNCHANGED <<policy, disk, main, refresh, acknowledged, applies>>

\* A lost event, or a renamed file, asks for the index to be rebuilt.
RequestRefresh ==
  /\ Fault
  /\ refresh' = TRUE
  /\ UNCHANGED <<policy, selection, disk, requests, main, applier, acknowledged, mishaps, applies>>

\* repair_if_needed works on a copy of the index, and puts it in place.
BeginRepair ==
  /\ main.pc = "idle"
  /\ refresh
  /\ refresh' = FALSE
  /\ main' = [pc |-> "repair", copy |-> policy.index]
  /\ UNCHANGED <<policy, selection, disk, requests, applier, acknowledged, mishaps, counters>>

EndRepair ==
  /\ main.pc = "repair"
  /\ policy' = [policy EXCEPT !.index = main.copy]
  /\ IF policy.index = main.copy THEN UNCHANGED mishaps ELSE Mishap("repair")
  /\ main' = [pc |-> "idle", copy |-> {}]
  /\ UNCHANGED <<selection, disk, requests, refresh, applier, acknowledged, counters>>

\* Power is lost, and the extension starts again from what is on disk.
Restart ==
  /\ Fault
  /\ \E c \in disk.durable :
       /\ disk' = [file |-> c, durable |-> {c}]
       /\ policy' = Loaded(c)
       /\ selection' = [native |-> Rules(c), active |-> Rules(c)]
  /\ requests' = <<>>
  /\ main' = [pc |-> "idle", copy |-> {}]
  /\ refresh' = FALSE
  /\ applier' = [a \in Applier |-> NoRequest]
  /\ acknowledged' = policy'.config
  /\ mishaps' = {}
  /\ UNCHANGED <<applies>>

-----------------------------------------------------------------------------
Main == UpdateSelection \/ BeginRepair \/ EndRepair

Advance(a) ==
  \/ ReadOld(a) \/ Expand(a) \/ Expanded(a)
  \/ PublishTrust(a) \/ PublishIndex(a) \/ PublishConfig(a)
  \/ Shrink(a) \/ Shrunk(a) \/ Failed(a)
  \/ Rename(a) \/ Sync(a)
  \/ Reexpanded(a) \/ Reshrink(a) \/ Reshrunk(a)

Next ==
  \/ \E a \in Applier :
       \/ \E c \in Offered : Apply(a, c)
       \/ \E key \in Keys : Protect(a, key)
       \/ Advance(a)
       \/ GiveUp(a) \/ PublishFails(a) \/ WriteFails(a) \/ SyncFails(a)
  \/ Main
  \/ RefuseSelection \/ RefusePartway
  \/ RequestRefresh
  \/ Restart

Spec == Init /\ [][Next]_vars

-----------------------------------------------------------------------------
Spared(kinds) == mishaps \intersect kinds = {}

\* What the policy protects, the kernel hands over: the selection never falls
\* behind enforcement (a comment in transactional_apply), whatever fails, as
\* long as requests come one at a time, updates are answered in time and made
\* whole, and a policy that was replaced can be put back.
SelectionCoversPolicy ==
  Spared(Mishaps \ {"unsynced", "kept"}) => policy.index \subseteq selection.native

\* A request that succeeds is in force in each of its parts, and on disk,
\* unless another came in between or an older index was put back; one that fails
\* leaves what was in force before it in force, in each of its parts and on disk,
\* if anything was, and late and partial updates do no harm to that.
InForce(config) == policy' = Loaded(config) /\ disk'.file = config

Succeeds(a) == At(a, "sync") /\ applier'[a].pc = "idle"

Fails(a) == applier[a].pc \notin {"idle", "sync"} /\ applier'[a].pc = "idle"

AllOrNothing ==
  Restart \/ \A a \in Applier :
    /\ Succeeds(a) /\ Spared({"overlap", "repair"}) => InForce(applier[a].config)
    /\ /\ Fails(a) /\ applier[a].old # NoConfig
       /\ Spared({"overlap", "unrestored", "repair", "unsynced", "kept"})
       => InForce(applier[a].old)

\* Whenever power is lost, the extension starts again with the configuration
\* that was last acknowledged, or with one that is being applied, as long as
\* requests come one at a time and no sync failed.
RestartFindsAcknowledged ==
  Spared({"overlap", "unsynced"}) =>
  disk.durable \subseteq
    {acknowledged} \union {applier[a].config : a \in {b \in Applier : ~At(b, "idle")}}
=============================================================================
