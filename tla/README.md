# Specifications of sensitive-file-guard

TLA+ models of sensitive-file-guard: two daemons that hold the kernel's permission events for browser
profiles and SSH keys, decide each one from a policy and a set of leases, ask a human where the policy
says so, and answer every one of them; the clients through which the human is asked; and the programs
that configure, switch and install it.

Contents: [the system](#the-system) · [plan](#plan) · [models](#the-models-and-the-code) ·
[runs](#what-the-runs-check) · [bounds and fairness](#bounds-and-fairness) ·
[proofs](#what-is-proved) · [divergences](#where-the-code-and-its-documents-differ) ·
[limits](#what-is-not-modelled)

## The system

Two daemons share one portable core. On Linux `guardd` (root) listens to fanotify permission events;
on macOS `guard-es` (a system extension) listens to Endpoint Security. Clients (`guardctl`,
`guard-ui`, `guard-notify`) talk to the daemon over a socket or XPC. Leases, prompts and blocks live
and die with the daemon; the configuration and the audit trail are on disk.

| Component | State | Operations | Hard behaviour |
|---|---|---|---|
| Pending stores, `crates/guard-runtime` | requests, the next id, blocked keys, recent approvals, the suppression switch | enqueue (six outcomes), take, expire, record an approval and sweep its siblings, switch suppression | limits; deadlines that saturate; a permission has one owner on every path |
| Policy domain, `crates/guard-core` | none (pure) | `evaluate`, with three types of lease | leases are scanned in order, and ended ones are never removed |
| Linux engine, `apps/guardd/src/enforce.rs` | identity cache, lease vectors, agent bindings, registry, inode index | decide, refresh leases, details of a prompt, approve, authorize, revoke | what `/proc` says changes between two calls; pids are reused; exec changes a process in place |
| Main loop, `apps/guardd/src/main.rs` | the batch of events read | expire both stores, read, decide, look again, enqueue, respond | the engine lock is released between the decision and the prompt |
| IPC thread, `apps/guardd/src/ipc.rs` | the one connection being served | resolve, authorize, load a key, revoke, protect a key, queries | polkit waits up to 60 s with no lock held; four critical sections per approval |
| Topology thread and enrolment, `enforce.rs`, `crates/platform-linux` | marks, watches, the dirty flag, the index by inode | watch, rediscover, mark, retry; protect a key | files are replaced between any two of these |
| macOS permission, `crates/platform-macos`: `pending.rs`, `deadline.rs` | one atomic terminal state, a deadline queue, a registry | resolve, time out, drop, shut down | four kinds of threads race for one response |
| macOS policy service, `apps/guard-es/src/policy.rs` | runtime, stores, process graph | handle an open, resolve, maintain, apply a configuration | identities come from callbacks on other threads; an answer may come after its deadline |
| macOS index, `resource_index.rs`, `endpoint_security.rs` | inodes known at start, aliases found since | classify, authorize renames and links, scan again | names change while the scan runs; messages are dropped |
| macOS configuration, `service.rs`, `config.rs` | selection, policy, file | apply in a transaction, roll back | several threads apply; power is lost |
| Audit, `crates/guard-audit` | a bounded channel, a writer, the newest rows | record (never waits), flush, prune, cursor queries | a full channel drops records |
| Clients | windows, dialogs, cursors, children | poll, notify, prompt, resolve, broker a key | the server handles one connection (Linux) or has so many slots (macOS); clients give up |
| Administration | configuration file, units, extension, login item | save, switch, set up, install, remove, test | steps fail, daemons come and go, work overlaps |
| Discovery, framing, screens, packaging | tables, bytes, text | | presentation and I/O |

How they interact. The kernel holds the opening thread and queues an event. The main loop takes it, asks
the engine under its lock, answers at once, or moves the permission into a store under the store's own
lock. A client learns of the request by polling and resolves it by another message: look up,
authenticate, take the request out, approve under the engine's lock, record the approval and take its
siblings under the store's, answer, and do the same for each sibling. The main loop meanwhile expires
requests on every turn. On macOS the same happens with a thread per message, the deadline thread may
answer the kernel first, and the identity of the process comes from a graph that callbacks keep.
Configuration, marks and index change beside all that. Every gap between two of these steps is a place
where another thread, process or file may move; that is what the models are about.

What makes each part correct:

* stores: a permission is held by exactly one request, a key is asked about once, limits hold, a
  block or an approval is not asked again, answers are final;
* policy and engine: access only for the owner's own browser or under a live consent; leases only
  decay; an approval concerns the process, and the file, the human saw;
* threads: a waiting permission is always in exactly one hand, a refusal is not undone by another
  request's approval, every open is answered, on macOS before the kernel's deadline;
* enrolment and index: what is to be protected is intercepted and recognised once the work is done;
* clients: whoever has to decide is asked, the answer reaches what it was given for, nothing stays
  behind when a client goes;
* administration: a change takes effect as a whole or not at all, and reports are true.

`PROJECT.json` lists the places in the source where this can go wrong ("hazards") with the properties
that watch them.

## Plan

Order of work, most important behaviour first. An asterisk marks what exists.

1. \* `PendingStore`, its run and `PendingStoreProofs`.
2. \* `GuardCore` (pure policy), `Processes`, `Engine`, `Guardd` (composes `Engine` with two instances of
   `PendingStore`), and `ConsentGate`, the abstract promise that `Guardd` implements.
3. \* `MacPermission` and the contract it implements, `EsContract`.
4. \* `GuardEs` over `PendingStore`, `GuardCore` and `Processes`, with the same `ConsentGate`.
5. \* `ConfigApply`, `Acceptance`, `LinuxService`, `ControlCenter`, `SystemExtension`, `UserAgent`, and
   `Administration` over them.
6. \* `Enrollment` and `MacIndex`: what is intercepted, and what a file is known by.
7. \* `AuditStore`, `PromptDialog`, `Clients`, `MacClients`, and `Desktop` over them.
8. Proofs. \* The stores; `MacPermission` with its refinement of `EsContract`; `Guardd` and `GuardEs` with
   their refinements of `ConsentGate`; the safety of `Desktop`, of `Administration`, of `Enrollment` and
   of `MacIndex`.
9. A clock that steps back, as a variant of `Tick`.

## The models and the code

### The core

**`PendingStore`** is `PendingMigrationStore` and, without recent approvals, `PendingSshReadStore`.
Every public call that changes the store is an action, as both daemons hold one lock around each;
`take_for_resolution` is two actions, too late (`TakeTimedOut`) and in time (`TakeReady`). A
permission is `free`, `held` by a request, `taken` by a caller who must answer it, or answered.
`record_recent_approval` and `take_recent_approval_siblings` form one action: both daemons call them
under one acquisition. `expire` includes the denial both daemons give at once to what it returns.
Tables of deadlines are functions with 0 for an absent entry; additions saturate at `MaxNow`, which
stands for `u64::MAX`. `Next` lets a caller make any sequence of calls with any arguments.

**`GuardCore`** is the pure domain: stable ids, executable identities, the process tree test, the
three leases and `evaluate`. A member of `Proc` is one process instance (pid and start time); an
executable stands for path, device and inode; a profile for browser and profile id. Lease vectors
only grow in the code, so a lease's index is its id.

**`Processes`** is the kernel's process table, shared by both daemons' models: spawn, exit, exec, reuse
of a pid by another instance.

**`ConsentGate`** is the abstract promise: an open is answered at most once, and allowed only if the
program opening the file owns it, or it is the mere open of a key (the read is what is decided), or it is
a trusted tool's, or the file's owner or root consented to the process tree having it. Because
identities are cached, the promise speaks of what an instance *has run* (`ran`), not of what it runs at
the moment of the answer. `Guardd!GateSpec` and `GuardEs!GateSpec` are the refinements.

### Linux

**`Engine`** has the identity cache keyed by pid and start time, the leases, and one formula per engine
operation: `Resolve` (with the cache), `Fresh` (after the cache entry was dropped), `RefreshLease`,
`RefreshedReads`, `Judgement`, `Apply`, `ApproveMigration`, `ApproveRead`, `Arm`, `AuthorizeLoad` and
the revocations.

**`Guardd`** is the daemon. The main loop's program counter goes expireMigrations, expireReads, read,
then decide (details, enqueue, recent) for each event of the batch. The IPC thread serves one job:
authenticate, take, then approve, record, allow, siblings for a migration, or deny; grant and deliver
for the capabilities given out without a prompt. An action is one critical section together with the
steps after it that touch only what the thread owns. A run's `Scenario` is a set of scenes (who lives
at the start, who comes, who execs what, which opens and clients there are); a behaviour picks one.

| State in `Guardd` | In the code |
|---|---|
| `queue`, `main.batch` | fanotify's event queue; the events parsed from one read |
| `main.about` | the candidate browser, then the pending details, in the loop body |
| `ipc.job`, `.perms`, `.siblings` | the request being served; the `PendingMigrationRequest` and siblings it owns |
| `mig*`, `ssh*` | the two stores behind their mutexes |
| `cache`, `migration`, `sshLoad`, `sshRead` | `identity_cache`, `LeaseSet` |
| `up` | FALSE once the main thread has panicked; both threads stop then |
| `ran`, `consents` | history, for properties only |

**`Enrollment`** is how the daemon keeps up with the file system. `fs` maps names to inodes, `mark` and
`watched` belong to inodes, `index` is the engine's `fd_index`. The topology thread waits for a change or its retry,
watches, discovers, marks trees and files one call at a time (each may find its file gone), and
refreshes the index; the IPC thread authenticates, marks and publishes one key. Anyone creates,
replaces and deletes files between any two steps. `unheard` collects what the thread could not be told
of: a change in a directory that had no watch yet.

**`LinuxService`** is `guardctl privileged apply-config` (ask, read the previous file, write, rename,
restart, check, roll back), the switch (two units, each undone if the other fails), `guardctl setup`,
and guardd's life under systemd, which reads the configuration when it starts, may fail over it, crash,
and be started again.

### macOS

**`MacPermission`** is one protected AUTH_OPEN message: the callback that retains, registers, schedules
and queues it or drops it on the way; the main loop that receives and decides it or parks it in a store;
XPC threads that resolve it; the deadline thread with its channel, `ResolveDue` and its drain; and the
end of the backend, which drops its fields in order. `terminal` is the `AtomicU8` that `Claim` exchanges;
the winner's `Respond` is a step of its own. `ResponseBudget` and `InteractiveBudget` are `deadline.rs`.
**`EsContract`** is what Endpoint Security asks of any client: every message is answered once, with no
more than was asked for, and the client is deleted when nothing is owed.

**`GuardEs`** is the policy service. Callbacks keep the process graph (`LearnNews`) and queue opens
(`LearnOpen`), each after any other; the main loop judges an open as the process its pid is known to be
*now* (`Handle...`, one action per way out of `handle_at`) and does maintenance after each; XPC threads
resolve, revoke and switch suppression. A resolution (`task`) goes through approve, answer and, if the
kernel was answered first, withdraw, outside the lock between them; `TimesOut` lets the deadline thread
answer the kernel at any time. An open asks for flags, and a grant is "readOnly" or "exact". The
key of a prompt for a read has the file that was opened (`SshKeyOf`: here Endpoint Security gives
device and inode, which guardd leaves out), so a file that replaces it has a prompt of its own. `ran`,
`consents` and `joined` (the opens each lease was given for) are history, for properties only.

**`MacIndex`** is how a file is recognised: by its name in a profile, as an inode known when the index was
built, or as an alias met since. Endpoint Security asks before a rename or a link and tells nothing
after; the callback's judgement (`Authorized`) and the kernel's deed (`Happens`) are separate steps, a
scan of the profiles reads one name at a time on a copy of the index, and message gaps ask for another.

**`ConfigApply`** is how a configuration takes effect: expand the selection of paths to old and new,
publish the policy in three parts, shrink the selection, write and sync the file, and undo all that when
a step fails. XPC threads run it without a common lock; the main loop makes the selection's changes, and
repairs the index on a copy. `mishaps` is history: what happened that the code does not make good.
**`Acceptance`** is `guardctl acceptance target-selection` beside it: stage a fixture, check, put back.

**`SystemExtension`** is the installation, the status refresh and the watchdog over the bridge's one state
and one delegate per process; **`UserAgent`** the login helper's registration, its repair by every refresh,
and the extension's knowledge of its polls.

### Clients

**`AuditStore`** has the channel, the writer's batches with their failures, pruning and the pages a cursor
yields. **`PromptDialog`** is which prompt `guard-ui` shows: one active, others queued, the keys known.

**`Clients`** is Linux: one IPC thread, connections whose peer may have given up, `guard-notify` with its
attempts per request and its event baseline, `guard-ui` with its polls, log and dialog, and
`guardctl ssh load`, which forks a stopped `ssh-add`, asks for a lease, verifies and pins the agent's
socket through the daemon, resumes the child, waits and revokes. What listens at the socket is any of
three (the agent, another program, nobody) each time it is looked at.

**`MacClients`** is the same on macOS: concurrent messages with a limit on those inside, a panel the
client shows before it asks, deadlines, an extension that hangs, is replaced, and counts ids from one
again. `Session` is the key of a request, its id here. **`Desktop`** composes the two: `guard-ui`'s
window and dialog, the requests and the audit trail are common, and a scene is on one system.

**`ControlCenter`** is the policy page: the draft, the Apply button, the switch, searches that end at any
time, work in flight with the draft it was started with, and the poll that reads, looks and shows.

**`Administration`** composes the six protocols of administration. They run in different processes on
different state, so a behaviour has one `office` at work.

`MC*` modules hold the instances; a comment at the top of each says who the actors are.

## What the runs check

| Run | Question | Properties |
|---|---|---|
| `pending_store` | any calls in any order, both limits, blocks and grace reached | `OneRequestPerKey`, `HeldByOneRequest`, `NoPromptWhileBlocked`, `AnsweredOnce`, `TypeOK` |
| `guardd` | four scenes: an import with a worker, exit, exec and pid reuse, which Alice and Bob both try to resolve; two windows, one refused and one approved; prompted reads and one-shot loads of a key; a migration armed in advance | `OneHand`, `OneReadPerLoad`, `GateSpec`, `ApprovedAsShown`, `RefusalSticks` |
| `every_open_answered` | is every open answered when no client does anything | `EveryOpenAnswered` |
| `enrollment` | files appear, are replaced and go while the daemon starts, marks and publishes | `CoveredWhenSettled`, `RefreshSettles` |
| `mac_permission` | who answers a message, when, and what happens at the end of a backend | `ContractSpec`, `ClientOutlivesResponses`, `AnsweredInTime`, `PromptInsideDeadline`, `EveryMessageAnswered` |
| `guard_es` | seven scenes: an import with a worker, siblings, two XPC threads with joined opens, a key whose file is replaced, a shell that becomes a tool or a browser, a pid used again at once, and one whose former process is learned of late | `OneHand`, `WriteOnlyToOwn`, `LeaseHasItsOpens`, `GateSpec`, `StalePromptStaysShut` |
| `guard_es_settles` | do opens and leases end although nobody answers or opens anything | `EveryOpenSettled`, `LeasesEnd` |
| `mac_index` | two processes link, rename and open while the index is scanned | `IndexIsTrueWhenSettled` |
| `clients` | ten scenes of notifier, window, guardctl and audit trail, six on Linux and four on macOS | `EveryPromptShown`, `AnswersMeetTheirRequest`, `AuthorizingEnds`, `LoadLeasesEnd`, `NoStrandedChild`, `FeedsAreComplete`, `SlotsAreCounted` |
| `administration` | the six protocols that set up and change the system | `SelectionCoversPolicy`, `RestartFindsAcknowledged`, `RequestsKeepTheirWord`, `ServiceJobsKeepTheirWord`, `ApplyIsHonest`, `ExtensionReportsAreTrue`, `ViewsCatchUp` |
| `shadowed_lease`, `refresh_panics` | see [below](#where-the-code-and-its-documents-differ) | one each, violated |

What they show.

* *Ownership and consent.* `OneHand` says that a waiting open is in exactly one place, whatever happens
  between two locks, so none is forgotten and none answered twice; on macOS through every failure of an
  approval. `GateSpec` says every permission to open is backed by ownership or by a consent given by the
  right user for that process tree. `ApprovedAsShown` and `StalePromptStaysShut` cover the time in which a
  human decides. On Linux nothing is approved, be it an import and its lease, a read, a sibling or a recent
  approval, unless the process that was shown runs what it was shown with at that step; the opens of an
  import are answered two steps later, and it may have exited by then. On macOS an open whose key was
  replaced since, or whose reader the service knows to be gone, stays with its prompt or is denied, whoever
  answers, joins or sweeps it; a replacement between the last look at the file and the answer is not
  noticed, and not covered. `RefusalSticks` covers the sweep that approves siblings: it cannot reach one
  that the user refused. `OneReadPerLoad` covers the one-shot lease across two threads; it leaves out an
  open whose pid a later process has by now, which may have been judged as that one's and which nobody waits
  for (the proof asked for this). `WriteOnlyToOwn` covers the five ways an open of a profile can be let in
  on macOS without being the browser's own. `LeaseHasItsOpens` says that an approval which came too late
  leaves no lease behind, even when only one of several joined opens was late and the others were let in: a
  lease in force whose approval is over has let in every open that had joined when it was given (`joined`).
  `WriteOnlyToOwn` and the gate name `Mistakable` processes: macOS decides about a pid
  (`policy.rs:317-319`), so an open of a process that is gone is judged as one of the pid's next, and where
  notices come late an old one can hand a pid back to its former process. The proofs asked for this, and the
  last two scenes of `guard_es` show that it happens.
* *Time.* `AnsweredInTime` and `PromptInsideDeadline` hold for the margins of `deadline.rs`, with the
  delays they presuppose stated as constants; `EveryOpenAnswered`, `EveryMessageAnswered`,
  `EveryOpenSettled` and `LeasesEnd` say that nothing waits for ever for a user, a client or an open.
* *Coverage.* `CoveredWhenSettled` and `IndexIsTrueWhenSettled` say what is protected once the daemon has
  nothing left to do that it knows of; both name what it cannot know.
* *Clients.* `EveryPromptShown` holds up to the limit of activations. `LoadLeasesEnd` and `NoStrandedChild`
  cover a `guardctl` that fails, gives up or is killed at any step. `FeedsAreComplete` covers cursors over
  rows that are added, lost and pruned, and is about gaps: rows may come twice. `AnswersMeetTheirRequest` has its exception in the formula.
* *Administration.* What a report says is what happened, under whatever failures the formula does not
  name: `Spared(...)`, `met`, `mixups` and `overtaken` say which events a protocol does not survive, and
  [below](#where-the-code-and-its-documents-differ) says what the code does then.

Each property has a mutant: a changed definition, next to the original in its module and marked
"Mutant", under which TLC finds the property violated.

## Bounds and fairness

* Time. 2 to 4 values of the clock and durations of 1 or 2 for the stores and daemons: a request can be
  created, expire and be resolved late; a block or lease can start, hold and end. Deadlines are only
  compared with the clock, so further seconds repeat these cases. Deadlines reach `MaxNow`, so
  saturation happens too. `mac_permission` counts in thirds of the margin, with two messages of different
  deadlines, so that one waits in the scheduler's queue behind the other.
* Permissions: 4 for the store alone, 2 or 3 for the daemons. Limits of 2 requests and 2 permissions
  per request are reached. A table of recent approvals of one entry and two scopes: an approval finds it
  full. A registry of one for two messages.
* Delays: in `guard_es` up to three notices are late, enough for a spawn, an exit and an exec of one pid to
  be learned of after an open of the process that has it now.
* Capabilities: `maxArmed` and one or two loads per scene; leases that follow from prompts are bounded by
  the permissions. Processes have one life each, pid reuse is a second instance.
* Files: `enrollment` has one profile with a tree, a watched and an unwatched key directory, 2 changes and
  a fault beside a key that is protected meanwhile: a change that is reported, and one that comes while
  it is dealt with. `mac_index` starts with
  2 of 4 inodes in use, and has 4 operations and one fault.
* Clients: three requests, two of one session; a channel and a batch of 2, 4 records of which 3 are
  retained and pages of 2, so that a page is full, a row is pruned and a row is lost. `MaxConcurrent = 1`
  stands for 32: the second message already finds the limit reached.
* Administration: two appliers and two applications beside each other or with two faults, on a machine
  with a configuration and on one without; two jobs and two
  faults for systemd; three clicks, two pieces of work in flight and one upset in the window; three
  submissions; one window and one setter for the agent.
* Permissions are symmetric: no definition orders or names them. Liveness runs use no symmetry.
* `CHECK_DEADLOCK FALSE` where the system may stop: a daemon that panics (`guardd`) or aborts its start
  (`enrollment`), a backend that was deleted (`mac_permission`), and worlds whose bounded actors
  are done (`clients`, `mac_index`, `administration`).

Fairness, and what justifies it:

* `Guardd`: the main loop, which polls every 250 ms and waits for nothing but short critical sections; the
  IPC thread, since `authorize_sensitive` gives up after 60 s and all its other steps are local; the clock.
* `MacPermission`: the callback, the deadline thread, each thread's response, a shutdown once begun,
  the clock. Not the main loop, which may never return from a decision.
* `GuardEs`: the main loop, callbacks and clock; strong fairness of a task's steps, since the main loop waits
  for events with the policy lock free.
* `Enrollment`: the topology thread, which polls every 250 ms.
* `Desktop`: every thread of clients and servers, delays and deadlines; strong fairness of the user's "No",
  since one who is asked again and again answers some day. A hung extension need not recover.
* `Administration`: the page's timer and its threads; the agent's tasks, launchd and the helper's timer.

Nothing is assumed of processes, files or users otherwise: they may never resolve, revoke or exit.

## What is proved

TLAPS checks the following for every value of the constants that meets the assumptions named below.

| Module | Theorem | States |
|---|---|---|
| `PendingStoreProofs` | `Invariance` | `Spec => []IInv` |
| | `TypeCorrect` | `TypeOK`; in particular deadlines never pass `u64::MAX` |
| | `NeverAskedTwice`, `IdsNameOneRequest` | `OneRequestPerKey`, `IdsUnique` |
| | `HeldOnce`, `QueueBounded` | `HeldByOneRequest`, `WithinLimits` |
| | `NoNeedlessPrompt` | `NoPromptWhileBlocked` and `NoPromptWithinGrace` |
| | `AnswersAreFinal` | `AnsweredOnce` |
| `EndpointSecurityProofs` | `Invariance` | `Spec => []IInv` of `MacPermission` |
| | `ClientOutlives`, `InTime` | `ClientOutlivesResponses`, `AnsweredInTime` |
| | `PromptInside` | `PromptInsideDeadline` |
| | `ImplementsContract` | `Spec => ContractSpec`: it implements `EsContract` |
| | `IndexInvariance` | `IndexSpec => []IndexInv` of `MacIndex` |
| | `SettledIndexIsTrue` | `IndexIsTrueWhenSettled` |
| `GuarddProofs` | `Invariance`, `TypeCorrect` | `Custody` and types; `TypeOK` |
| | `OneHandAlways` | `OneHand` |
| | `GroundsHold` | what the daemon keeps has its grounds |
| | `ImplementsGate` | `Spec => GateSpec`: it implements `ConsentGate` |
| | `ApprovesWhatWasShown` | `ApprovedAsShown` |
| | `RefusalsStick` | `RefusalSticks` |
| | `LoadsAreReadOnce` | `OneReadPerLoad` |
| `GuardEsProofs` | `Invariance` | `Spec => []IInv` |
| | `OneHandAlways` | `OneHand` |
| | `WritesAreTheOwners` | `WriteOnlyToOwn` |
| | `LeasesHaveTheirOpens` | `LeaseHasItsOpens` |
| | `StalePromptsStayShut` | `StalePromptStaysShut` |
| | `ImplementsGate` | `Spec => GateSpec`: it implements `ConsentGate` |
| `DesktopProofs` | `SlotsHold` | `SlotsAreCounted` |
| | `NoChildIsStranded` | `NoStrandedChild` |
| | `AnswersFindTheirRequest` | `AnswersMeetTheirRequest` |
| | `FeedsHaveNoGaps` | `FeedsAreComplete` |
| `EnrollmentProofs` | `Invariance` | `Spec => []IInv` |
| | `SettledMeansCovered` | `CoveredWhenSettled` |
| `AdministrationProofs` | `RestartFindsTheAcknowledged` | `RestartFindsAcknowledged` |
| | `SelectionCoversThePolicy` | `SelectionCoversPolicy` |
| | `RequestsAreAllOrNothing` | `RequestsKeepTheirWord` |
| | `ReportsAreTrue` | `ExtensionReportsAreTrue` |
| | `ServiceJobsAreHonest` | `ServiceJobsKeepTheirWord` |
| | `ApplyingIsHonest` | `ApplyIsHonest` |

`CollectionLemmas` has what they share about sequences, ranges, extrema and the requests of a store. Why
each is inductive:

* **`PendingStore`.** `RequestsOK` is about ownership: types, finiteness (needed to speak of
  cardinalities), one request per key, unique ids, one owner per held permission, limits. The actions
  reach it in only four ways, each a lemma: requests are removed with their permissions (`RemoveKeeps`),
  a permission is answered (`AnswerKeeps`), a request is joined (`JoinKeeps`) or created
  (`CreateKeeps`). `TimersOK` relates requests to the tables: nothing is pending under a block or a
  grace. That is not inductive by itself. Were a block kept in the table while suppression is switched
  off, a request could be created under it, and switching suppression on would revive the block; the
  code clears the table when the switch is turned, and the conjunct "suppression off implies no blocks"
  says so. The other two facts the argument needs are that cleaning never revives an entry
  (`CleanupType`), and that a block or an approval removes what is pending under it: by
  `OneRequestPerKey` in the first case, by the sweep in the second.
* **`MacPermission`.** `Places` says that whoever owns a message is where the backend knows of it,
  `Order` and `Winners` in which order the backend comes apart and who may be about to respond
  meanwhile. `Watch` is the heart: a message nobody has answered is still to be ended by the callback,
  the deadline thread or the drain of the registry. `Punctual` and `Scheduling` count what each
  stage can have used of the margin; three late threads fit into it (`SlackAssumption`). The step of the
  refinement follows: one `Claim` wins, its winner responds once and the client is deleted last.
* **`Guardd`, hands.** `Custody` reads the owner of a permission off the state: `StatesOK` ties each value of
  `perm` to the hands it can be in (the kernel's queue, the batch, the open that is retried after a
  recent approval, two stores, the permission and the siblings of the IPC job), `HandsApart` says that no
  two hands overlap, `MainShape` and `IpcShape` what a thread has at each place of its program.
  `OneHand` is then counting. `Typed` says in addition that a cached identity is one of the pid it is
  cached for.
* **`Guardd`, gate.** `Grounds` relates what the daemon keeps to the history: an identity names what has run
  (`CacheSeen`, which needs that a pid has one live instance), a lease or a recent approval stems from a
  consent (`LeasesGiven`), a prompt is about the file and the process tree of everyone who waits for it
  (`RequestsFit`), the main loop's decision and the IPC job fit their open (`MainFits`, `JobOK`). A step
  that answers an open then maps to the gate's `Answer`, every other to a stutter.
* **`Guardd`, answers.** Three actions of the main loop and three of the IPC thread allow an open
  (`MainAllows`, `IpcAllows`), and each has what it allows in its hand. `ApprovedAsShown` follows since the
  check reads `/proc` again (`FreshRuns`). `RefusalSticks` needs `Unrefused`: a key has one request, and
  neither a request, a swept sibling nor an open handed back is of a key that is blocked; a client
  refuses one request, and only that one has its key. `OneReadPerLoad` needs `LoadsSpent`: the reads that
  only a load justifies are no more than the loads marked as used. Such a read joins only by a decision
  of the main loop (`JoinedByLoad`), which marks a load that was not used.
* **`GuardEs`.** `Custody` is that of `Guardd` with other hands: what the callbacks are about to send, the
  queue, two stores, and per thread the permission and the siblings of its approval; all of these change
  in few ways (not at all, from a task, from a store), each a lemma. The verdicts need more, as the
  service decides by what it believes. `Knowledge`: an instance, executable or parent in the process graph
  or on its way to it was so once (`Was`), of a process with that pid; with no delay it is so. `Work`:
  everyone who waits in a request or a task is one its details are about (`ForMig`, `ForRead`), and a task
  that answers has the lease its details name. `WriteOnlyToOwn` is then a matter of who grants what
  (`Answers`): a prompt, a sibling, a grace period and a lease give "readOnly", and "exact" goes to a
  browser for its own profile, or to who is taken for it. `LeaseHasItsOpens` needs `JoinedOK`: a
  lease is given by an approval that has yet to be answered and to the opens it holds (`Given`), and no
  other thread answers for it; so an approval that ends without withdrawing has let in all of them
  (`AnswerLetsIn`), and no answer is taken back (`Answers`). `StalePromptStaysShut`: a request of the store
  is kept, denied or taken by one thread (`RequestFate`), only that thread goes on with it (`OwnThread`),
  and since its details have the file of every open that waits (`ForRead`), the check that precedes an
  approval finds it stale too (`StillAsShown`).
* **`GuardEs`, gate.** `Grounds` says that whatever will let an open through goes back to a consent of its
  user: an approval, a sibling, a lease, a grace period, a tool; and that everyone who waits in a prompt is
  of the user the prompt is about (`Rightful`), which `evaluate` sees to before it asks (`Owned`). Consents
  are never taken back (`ConsentsStay`), so only what a step adds needs to be looked at (`GroundsFrom`). A
  lease covers a process tree, which the service reads off its graph, possibly out of date; `Climbs` and
  `TreeKnown` show that whatever it finds by climbing from parent to parent is an ancestor in the
  kernel's table, since a process keeps its parent or loses it. Each of the ways an open is allowed
  (`AtOnceJustified`, `GrantJustified`, `ApprovalJustified`) then has a reason of the gate, or the open is
  of a process in `Mistakable`, which here is part of what is promised: a decision is about a pid.
* **`Enrollment`.** What the thread can count on holds only as long as inotify has nothing to tell, so each
  part of `IInv` is conditional on an empty queue, and each says what is true at the place where the thread
  is in its program. `WatchesOK`: the directories that matter are watched, or about to be. `HeardOf`: so
  whatever differs from what discovery found has been heard of, or is in `unheard`. `RegistryOK`: so the
  registry is what discovery would find now. `IndexOK`, `MarksOK` and `TreesOK`: so the index names each
  resource that exists, and its inode, or the directories of its tree, carry the mark. `KeyOK` is about the
  one name another thread works on, the key being published: it may be marked and not yet in the
  registry, or the other way round. That the names form a forest is needed twice: a directory that exists
  has a parent that does, and `Below`, a recursive function, has the value its definition says
  (`Reaches` describes it without recursion).
* **`MacIndex`.** What must be known is an inode with a protected name and another one that is not, unless a
  rename came too late for it (`Concern`). Such an inode comes about only by a link or a rename of a
  protected name, and one that is still to happen has asked for a scan that has not begun, or counts as too
  late when it happens (`TasksOK`). So as long as no scan is due, no inode joins, and the index knows those
  there are (`KnownOK`). While a scan is under way, it knows the ones it has met, and of the others it has
  all protected names before it (`ScanOK`): whatever is unlinked, it will find fewer links than the inode
  had when it first met it, and say so. The proof found an error in the model, which TLC had no reason to
  see: the move of a directory had done nothing.
* **`Desktop`.** `Slots`: the count is the number of handlers that run. `Guarded`: a lease that exists is
  with the thread about to answer, in the answer, or in the hands of `guardctl`, and a child is stopped,
  covered or gone. `Addressed`: each life of the extension gives an id out once (`Births`), everything sent
  is about a request that has arrived (`Aims`), and at most one exchange of the window's resolving
  worker is open, none after its dialog is gone (`Exchange`), so that an answer finds its own request.
* **`Desktop`, feeds.** That the log has no gap (`Logged`) says nothing of the page that will join it, so
  `Fits` says it of the page in the window and of the one in an answer nobody has heard yet: together with
  the log they have every visible row in between, and rows that are written or pruned meanwhile take nothing
  away (`Grown`). A page fits when it is read only if the cursor it was asked with is still the log's;
  `Asks` says so of each poll whose sender waits, and `Trips` that there is at most one, wherever it is: a
  worker that gave up has closed its end, and the thread answers nobody for it. For the notifier, `Examined`
  holds up to the last row it was told of, and `NotifyTold` that an answer on its way has all visible rows
  but those too far back for a page. On macOS the window has no log, and the notifier's cursor is a row it
  has seen (`MacFeeds`).
* **`Administration`.** For each place of a request's program, `Published` says which parts of its
  configuration are in force, `Before` that what it remembers as old was in force, `OnDisk` and `Saved`
  what the file and a power loss hold, `Covers` that the selection is wide enough for both policies
  while one replaces the other and that at most one update is on its way. Requests take no lock, so
  each is conditional on `Spared`: that nothing happened the code does not make good. `TestClean` follows
  the fixture of an acceptance run. One finding came from this proof: see "kept"
  [below](#where-the-code-and-its-documents-differ).
* **`Administration`, the other protocols.** `BundleTells` follows a request through the bridge of its
  process: an installation that was alone is in its queue, with the system, or over, so no other request can
  have set the state that is read, and the watchdog's bridge has no deactivation but the one it waits for.
  `JobsTell` says, for each step of a job on Linux that no other client came across, what the file, the unit
  and the notifier are; what systemd and guardd do meanwhile leaves it true, or marks the job's answer as
  stale. `PageTells`: work under way took away the draft that is still there, unless the two crossed
  (`DraftTells`), and on macOS the draft's `policy_enabled` is what the extension does except between a
  switch that succeeded and its return (`SwitchTells`).

The assumptions are those the modules name, and no others: limits, durations and capacities are positive
numbers (`StoreAssumption`, `GuarddAssumption`, `SlotAssumption`: constants of the code); a pid has one live
instance at the start, is reused by a younger one, and ancestors were born before (`ProcessAssumption`: the
kernel's process table); the ancestors of a process are its parent and the parent's ancestors
(`LineageAssumption`, which only the gate of `GuardEs` needs); scenes talk of the machine's processes, users
and files (`ScenarioAssumption`, `EsAssumption`; the latter also keeps a `None` apart from values, the
former the runs of `guardctl ssh load` from the other clients); a page is no longer than what is kept
(`PageAssumption`: 100 rows of 1000); the margin of `deadline.rs` is three times what a thread may be late
(`SlackAssumption`: without such a bound no margin is enough); names form a forest in which what exists has
a directory that does, and two names of `Enrollment` have two inodes (`TreeAssumption`), of which there are
more than names (`EnrollmentAssumption`); a configuration is a set of known paths (`ConfigAssumption`); an
unread draft is no draft, and a key no browser (`ControlCenterAssumption`); the fixture of an acceptance run
is in no other configuration (`AcceptanceAssumption`: the run creates it under a fresh name); only files are
classified by name, the files of a moved directory land outside what is protected, and protected names and
the directories that hold them are selected (`IndexAssumption`: the plan of the target selection;
directories further up are not among those that move).

Only model-checked is liveness (`EveryOpenAnswered`, `EveryOpenSettled`, `LeasesEnd`, `EveryMessageAnswered`,
`RefreshSettles`, `EveryPromptShown`, `AuthorizingEnds`, `LoadLeasesEnd`, `ViewsCatchUp`): it rests on fairness
and `ENABLED`, which are out of the prover's reach.

## Where the code and its documents differ

Two runs find their property violated:

* `shadowed_lease`. `decide_browser` returns at the first lease in scope that is revoked, expired or
  dead (`policy.rs:155-167`), and leases are never removed. Once one lease of a profile has ended, a
  newer valid one of the same profile and user is never honoured, against `policy.rs:11`. Reaching
  this takes a window whose import was approved twice: once with a lease that later ends.
* `refresh_panics`. `refresh_migration_states` asks the resource for its browser when it meets an
  armed lease of the opener's uid (`enforce.rs:795`); for an SSH key that is the `expect` at
  `resource.rs:101`. A migration armed with `guardctl` and a read of a key by the same user end the main
  loop.

The others came up while translating the code. The models do what the code does, and where a property
would be violated its formula names the exception.

*Stores and policy*

* `take_recent_approval_siblings` takes requests without looking at their expiry (`lib.rs:444`), so before
  the main loop's next turn an expired request is approved with its sibling, against
  `docs/安全模型.md:14` and `:52`.
* Once an import of a profile is approved, any other process of that user meets a lease in scope
  and is denied as `IdentityMismatch` (`policy.rs`, `scope_match`) before it reaches the store, so the
  recent approval that would let it in (`guardd/main.rs:490-493`) helps only an open that was decided
  before the lease was there. On macOS, decision and enqueue share a lock and it helps none.
* Request ids are counted from one in each life of a daemon (`lib.rs:330`, `:620`): an answer given to a
  prompt of the last life names a request of this one (`AnswersMeetTheirRequest` says so).

*Linux enrolment* (`Enrollment`)

* `enforce.rs:551-556` says an unmarked inode cannot reach the classifier; a child of a marked directory
  can, and is classified as what its inode number was.
* A key protected at run time is published, but its directory is not watched: a replacement is noticed only
  if the directory was watched anyway (`docs/Linux技术说明.md:15`). A configured key that is absent at start
  is not enrolled when it appears; a protected key that is deleted makes every refresh fail. A change
  between `from_config` and the first watch is not heard of. `unheard` and `Missing` are these cases.

*macOS index and permissions* (`MacIndex`, `MacPermission`)

* A scan is asked for in the callback, before the kernel renames (`endpoint_security.rs:999`), and may be
  over by then; `missed` is what it misses. Keys are added to the index after its aliases
  (`resource_index.rs:155-176`), so outside links of a key are not counted until the first repair, and the
  check of an application (`service.rs:190`) passes. A scan that fails is printed, and not tried
  again (`service.rs:558`). An alias of an inode without a protected name goes at the next scan, though
  `resource_index.rs:184` says a hardlink cannot evade.
* A start that fails deletes the client while scheduled messages are still to be denied
  (`endpoint_security.rs:484`, `:539`, `:1142`); `ClientOutlivesResponses` speaks of a client that started.

*Applying a configuration on macOS* (`ConfigApply`, `Acceptance`, each with the `mishaps` that stands for it)

* Applications overlap: `protect_ssh_key` reads the configuration before another publishes, and its write
  loses that one's change (`service.rs:261`) ("overlap").
* An update that times out is carried out later, after the rollback ("late"); one that fails midway leaves
  the kernel's selection other than what is believed ("partway"); a rollback restores the wide policy
  though it could not widen the selection first ("narrow"), or cannot restore it ("unrestored"), against the comment at `service.rs:238` and
  `docs/macOS技术说明.md:21`; a failed sync leaves the new file after the old policy is back
  ("unsynced"); a repair puts an index of the old configuration over the new one's ("repair").
* The first configuration of an installation has none to go back to: if its shrink or its write fails, the
  request reports an error and the policy stays in force, unwritten (`service.rs:241-256`) ("kept").
* The acceptance run does not know that its fixture was applied if the answer is lost, and then leaves it in
  force and says "fixture policy was restored" (`guardctl/main.rs:610`); its restoration overwrites what
  others applied meanwhile. Against `guardctl/main.rs:199`.

*Linux administration* (`LinuxService`)

* The rollback reports "previous configuration restored" whatever its restart did; with no previous file it
  does not restart; the health check passes as soon as a `Type=simple` unit is forked, so an unusable
  configuration is not rolled back and guardd fails in a loop. A service that comes up between the check
  and the rename runs the old configuration. Saves at the same time roll back each other's files.
  `systemctl start` succeeds without a configuration (its condition fails), and the notifier alone is on.
  A failed switch-on of running services stops the daemon only.

*Clients*

* `pending_error_is_terminal` looks for `already_resolved` (`platform_service.rs:1370`), guardd says "already
  resolved" (`ipc.rs:589`, `:615`, `:795`, `:815`): on Linux the dialog of a request that is gone stays,
  against the test at `guard-ui/main.rs:2527`.
* `guardctl` uses the two-second client for requests that wait for polkit (`guardctl/main.rs:418`, `:1896`),
  against the comment at `guard-client/lib.rs:140`. A lease that arrives between its last read and its
  close is not revoked (`unread`).
* `MacEventObserver` takes the first page that is not empty as its baseline (`guard-notify/main.rs:245-250`):
  after an empty history the first denial is not notified, unlike on Linux (`:109-112`).
* On macOS an id is activated once (`:323-326` acknowledges it): an activation that meets a closing window,
  or an id seen before a restart, leaves its prompt unshown.
* The log's cursor takes the oldest of a new page, so that rows come twice. Visibility is decided after the
  limit: a hundred hidden events in a row stop the log. Release builds of guardd hide
  `browser_migration_allowed` (`ipc.rs:394`), which the window would show (`guard-ui/main.rs:844`).
* A sibling behind a refused prompt is not shown once the notifier's attempts are used up, and attempts can be
  used up while polls fail. The dialog keeps the id of the first request of its session.
* On macOS a refusal that takes more than two seconds, or finds no slot, drops the dialog though its request
  is pending.

*The policy page, the extension and the login helper* (`ControlCenter`, `SystemExtension`, `UserAgent`)

* If the configuration cannot be read and the daemon answers, macOS shows an empty policy
  (`initial_configuration_if_missing`) ("placeholder"), against `guard-ui/main.rs:856-859`.
* On macOS the switch saves unsaved edits, and an application undoes a switch made beside it ("overlap") or
  elsewhere ("outside"). An edit made during an application is left under a disabled button; the
  return of a switch discards edits and resurrects a discarded draft ("crossed"). A poll makes the switch
  sensitive while an operation is under way.
* A report of an installation may be that of a refresh that overlaps it; a second query takes the first's
  delegate away.
* A refresh with a stale policy registers the helper again after protection was turned off, and nothing takes
  it away ("overtaken"); two refreshes can undo each other's registration.

## What is not modelled

* A fanotify response that cannot be written, queue overflow, shutdown: the daemon ends, and the kernel
  releases the waiting opens when the group closes. The models stop there, as they do after the panic.
* The clock only advances. The code reads the wall clock, which may be set back. The seconds a call reads
  at its start are those of each of its critical sections.
* Several `/proc` reads inside one critical section see one process table. A prompt's siblings are approved
  in an arbitrary order: the code iterates a hash map. A poisoned mutex.
* `GuardEs`: eviction from a full graph, the degraded state and sequence gaps; deny reason codes, debug
  records and counters. A tool's exception precedes the check of the uid, as in the code. `LeasesEnd` is
  claimed where notices arrive at once (`lag = 0`): a service that never hears of an exit cannot act on it.
* `ConfigApply`: `policy_enabled`; a configuration is the paths it protects. `Acceptance`: the checks are
  "denied if selected and indexed" or fail for any other reason; the last re-application, with a hard link, is
  refused before any state changes.
* `Enrollment`, `MacIndex`: which names a browser uses, mount checks and the validation of a key file. New
  files take the lowest free inode. The kernel performs an operation only while names still denote the files
  it asked about. Hard links in `Enrollment`; in `MacIndex`, moves of the directories above the profiles and
  a file that takes the place of a directory. Opens through a link outside the selection are not delivered at all.
* `AuditStore`: the record's columns, the filter by uid, and a last batch lost at Quit or at a crash.
* `MacClients`: the static checks of messages and peers and the size limits; lists and events are atomic (they
  need a free slot and a running extension). Two requests with one key come from two lives of the extension.
* `LinuxService`: `systemctl` calls are atomic, the start-rate limit is left out, candidates pass the
  validation before they are saved.
* `ControlCenter`: a thing is a key, a browser or a level; enrolled executables; the daemon's state shown in
  each row. `SystemExtension`: one process at a time; the rest of the world changes the extension, and
  whether a pending activation completes after a deactivation is left open. `UserAgent`: a helper polls
  before it is asked about but for `AskTooEarly`; one window.
* Peer credentials, message types and framing, discovery, signatures, texts and layout; `guardctl`'s
  remaining commands, each one request or a page of text; the dialogs of `guard-ui/main.rs:1661-1909`, which
  are compiled out; tests' probes, packaging and scripts.
