------------------------------- MODULE Guardd --------------------------------
(***************************************************************************)
(* The Linux daemon: the main loop that reads fanotify permission events   *)
(* (apps/guardd/src/main.rs), the IPC thread that serves one client at a   *)
(* time (apps/guardd/src/ipc.rs), the engine both share under one lock,    *)
(* and the two pending stores, each under its own lock.  An action is one  *)
(* critical section of one thread, with the steps after it that touch only *)
(* what that thread owns (answering a permission it holds).                *)
(***************************************************************************)
EXTENDS Engine

CONSTANTS
  Perm,             \* the permission events of a behaviour
  Root,             \* uid 0
  Timeout, MaxRequests, MaxPermissions,
  BlockSuppression, ApprovalGrace, MaxRecent

\* An absent value is no access and no identity.  What a scene lets clients ask for.
ASSUME GuarddAssumption ==
  /\ Root \in Uid
  /\ {Timeout, MaxRequests, MaxPermissions, BlockSuppression, ApprovalGrace, MaxRecent}
       \subseteq Nat \ {0}
  /\ None \notin [inst : Proc, res : Resource, op : {"open", "access"}]
  /\ None \notin Identity
  /\ \A s \in Scenario :
       /\ s.opens \subseteq [inst : Proc, res : Resource, op : {"open", "access"}]
       /\ s.arms \subseteq Uid \X Profile \X {e \in Exe : BrowserOfExe[e] # None}
       /\ s.loads \subseteq Proc \X Resource \X Agent
       /\ s.clients \subseteq Uid /\ s.horizon \in 0..MaxNow

VARIABLES
  ask,              \* what each permission is for, None before the open
  perm,             \* what became of it (PendingStore)
  queue,            \* fanotify's queue of unread events
  main,             \* the main loop: pc, events read, what a prompt is about
  ipc,              \* the IPC thread: pc, and what it is resolving
  migRequests, migNextId, migBlocked, migRecent,
  sshRequests, sshNextId, sshBlocked,
  up,               \* FALSE once the main loop has panicked
  ran, consents     \* history: executables run, consents given

\* What clients may ask for, and the bounds of a behaviour.
Opens        == scenario.opens      \* the accesses that processes make
MaxOpens     == scenario.maxOpens   \* how many of them
ArmRequests  == scenario.arms       \* <<uid, profile, executable>> of "migration authorize"
MaxArmed     == scenario.maxArmed   \* nothing is armed once there are as many leases
LoadRequests == scenario.loads      \* <<child, key, agent>> of "ssh load", made once
Clients      == scenario.clients    \* the uids whose clients resolve and revoke
Horizon      == scenario.horizon    \* when the clock stops

migStore == <<migRequests, migNextId, migBlocked, migRecent>>
sshStore == <<sshRequests, sshNextId, sshBlocked>>
vars == <<now, procs, engine, ask, perm, queue, main, ipc, migStore, sshStore,
          up, ran, consents>>

-----------------------------------------------------------------------------
(***************************************************************************)
(* The two pending stores.                                                 *)
(***************************************************************************)
Trusted == {e \in TrustedExe : BrowserOfExe[e] # None}

\* The root of a prompt runs the target's executable (target_browser_root).
MigDetails ==
  UNION {{[target |-> [inst |-> i, exe |-> e], root |-> [inst |-> j, exe |-> e],
           profile |-> f] : j \in {i} \union {Lineage[i][k] : k \in DOMAIN Lineage[i]},
                            e \in Trusted, f \in Profile} : i \in Proc}

MigKeyOf == [d \in MigDetails |->
  [uid |-> UidOf[d.target.inst], root |-> d.root, profile |-> d.profile]]
MigScopeOf == [d \in MigDetails |->
  [uid |-> UidOf[d.target.inst], profile |-> d.profile, exe |-> d.target.exe]]
MigKey == {MigKeyOf[d] : d \in MigDetails}
MigScope == {MigScopeOf[d] : d \in MigDetails}

SshKeys == {r \in Resource : KindOf[r] = "ssh"}
SshDetailsSet == [target : Stable, res : SshKeys]
SshKeyOf == [d \in SshDetailsSet |->
  [uid |-> UidOf[d.target.inst], res |-> d.res, root |-> d.target]]
SshKey == {SshKeyOf[d] : d \in SshDetailsSet}

\* Only macOS lets the configuration switch block suppression off.
SuppressesBlocked == TRUE

Mig == INSTANCE PendingStore WITH
  Details <- MigDetails, Key <- MigKey, Scope <- MigScope,
  KeyOf <- MigKeyOf, ScopeOf <- MigScopeOf,
  OwnerOfKey <- [k \in MigKey |-> k.uid],
  requests <- migRequests, nextId <- migNextId,
  blocked <- migBlocked, recent <- migRecent, suppressionOff <- ~SuppressesBlocked

\* The SSH store keeps no recent approvals.
Ssh == INSTANCE PendingStore WITH
  Details <- SshDetailsSet, Key <- SshKey, Scope <- {None},
  KeyOf <- SshKeyOf, ScopeOf <- [d \in SshDetailsSet |-> None],
  OwnerOfKey <- [k \in SshKey |-> k.uid],
  requests <- sshRequests, nextId <- sshNextId,
  blocked <- sshBlocked, recent <- [s \in {None} |-> 0], suppressionOff <- ~SuppressesBlocked

-----------------------------------------------------------------------------
\* A thread answers a permission it owns.
Answer(P, verdict) == perm' = Mig!Marked(P, verdict)

Idle == [pc |-> "idle"]

Init ==
  /\ now = 0
  /\ InitProcs
  /\ cache = [pid \in Pid |-> None]
  /\ migration = <<>> /\ sshLoad = <<>> /\ sshRead = <<>>
  /\ ask = [p \in Perm |-> None]
  /\ perm = [p \in Perm |-> "free"]
  /\ queue = <<>>
  /\ main = [pc |-> "expireMigrations", batch |-> <<>>, about |-> None]
  /\ ipc = Idle
  /\ migRequests = {} /\ migNextId = 0
  /\ migBlocked = [k \in MigKey |-> 0] /\ migRecent = [s \in MigScope |-> 0]
  /\ sshRequests = {} /\ sshNextId = 0 /\ sshBlocked = [k \in SshKey |-> 0]
  /\ up = TRUE
  /\ ran = [i \in Proc |-> {BirthExe[i]}]
  /\ consents = {}

-----------------------------------------------------------------------------
(***************************************************************************)
(* Processes, and time.                                                    *)
(***************************************************************************)
daemon == <<engine, perm, main, ipc, migStore, sshStore, up>>

Spawn(i) == SpawnProc(i) /\ UNCHANGED <<now, daemon, ask, queue, ran, consents>>

Exit(i) == ExitProc(i) /\ UNCHANGED <<now, daemon, ask, queue, ran, consents>>

Exec(i, e) ==
  /\ ExecProc(i, e)
  /\ ran' = [ran EXCEPT ![i] = @ \union {e}]
  /\ UNCHANGED <<now, daemon, ask, queue, consents>>

\* The kernel queues an event and holds the thread that made the access.
Open(p, a) ==
  /\ ask[p] = None /\ Cardinality({q \in Perm : ask[q] # None}) < MaxOpens
  /\ a.inst \in Live
  /\ ask' = [ask EXCEPT ![p] = a]
  /\ queue' = Append(queue, p)
  /\ UNCHANGED <<now, procs, daemon, ran, consents>>

Tick ==
  /\ up /\ now < Horizon
  /\ now' = now + 1
  /\ UNCHANGED <<procs, daemon, ask, queue, ran, consents>>

Environment ==
  \/ \E i \in Proc : Spawn(i)
  \/ \E i \in Mortal : Exit(i)
  \/ \E x \in Execs : Exec(x[1], x[2])
  \/ \E p \in Perm, a \in Opens : Open(p, a)

-----------------------------------------------------------------------------
(***************************************************************************)
(* The main loop.                                                          *)
(***************************************************************************)
outside == <<now, procs, ask, ran, consents>>

\* The panic of the main thread ends the process.
MainAt(pc) == up /\ main.pc = pc

Goto(pc) == main' = [main EXCEPT !.pc = pc]

\* Expired prompts are denied on every turn, events or not.
MainExpireMigrations ==
  /\ MainAt("expireMigrations")
  /\ Mig!Expire({k \in MigKey : Alive(k.root)})
  /\ Goto("expireReads")
  /\ UNCHANGED <<outside, engine, queue, ipc, sshStore, up>>

MainExpireReads ==
  /\ MainAt("expireReads")
  /\ Ssh!Expire({k \in SshKey : Alive(k.root)})
  /\ Goto("read")
  /\ UNCHANGED <<outside, engine, queue, ipc, migStore, up>>

\* Mutant: only the first of the events read is kept.
MainReadFirst ==
  /\ MainAt("read")
  /\ IF queue = <<>>
     THEN Goto("expireMigrations") /\ UNCHANGED queue
     ELSE main' = [main EXCEPT !.pc = "decide", !.batch = <<Head(queue)>>] /\ queue' = <<>>
  /\ UNCHANGED <<outside, engine, perm, ipc, migStore, sshStore, up>>

MainRead ==
  /\ MainAt("read")
  /\ IF queue = <<>>
     THEN Goto("expireMigrations") /\ UNCHANGED queue
     ELSE main' = [main EXCEPT !.pc = "decide", !.batch = queue] /\ queue' = <<>>
  /\ UNCHANGED <<outside, engine, perm, ipc, migStore, sshStore, up>>

Event == Head(main.batch)
Res   == ask[Event].res
EvPid == PidOf[ask[Event].inst]

NextEvent ==
  main' = [pc |-> IF Len(main.batch) = 1 THEN "expireMigrations" ELSE "decide",
           batch |-> Tail(main.batch), about |-> None]

Finish(verdict) == Answer({Event}, verdict) /\ NextEvent

\* decide_event: opening a key is allowed, the read is what is decided.
MainDecideOpen ==
  /\ MainAt("decide")
  /\ KindOf[Res] = "ssh" /\ ask[Event].op = "open"
  /\ Finish("allowed")
  /\ UNCHANGED <<outside, engine, queue, ipc, migStore, sshStore, up>>

ToDecide ==
  /\ MainAt("decide")
  /\ KindOf[Res] = "browser" \/ ask[Event].op = "access"

MainDecideUnknown ==
  /\ ToDecide
  /\ Resolve(EvPid) = None
  /\ Remember(EvPid, None)
  /\ Finish("denied")
  /\ UNCHANGED <<outside, leases, queue, ipc, migStore, sshStore, up>>

MainPanic ==
  /\ ToDecide
  /\ Resolve(EvPid) # None
  /\ RefreshPanics(Res, Resolve(EvPid))
  /\ up' = FALSE
  /\ UNCHANGED <<outside, engine, perm, queue, main, ipc, migStore, sshStore>>

MainDecide ==
  LET id       == Resolve(EvPid)
      decision == Judgement(Res, id)
  IN  /\ ToDecide
      /\ id # None
      /\ ~RefreshPanics(Res, id)
      /\ Remember(EvPid, id)
      /\ Apply(Res, id)
      /\ \/ Grants(decision) /\ Finish("allowed")
         \/ decision.kind = "deny" /\ Finish("denied")
         \/ /\ decision.kind \in {"askMigration", "askSsh"}
            /\ main' = [main EXCEPT !.pc = "details", !.about = BrowserOfIdentity(id)]
            /\ UNCHANGED perm
      /\ UNCHANGED <<outside, queue, ipc, migStore, sshStore, up>>

\* The engine lock was released: the process is looked at again.
MainDetails ==
  LET id == Resolve(EvPid)
      ok == /\ id # None
            /\ IF KindOf[Res] = "ssh"
               THEN UidOfIdentity(id) = OwnerOf[Res]
               ELSE MayAskMigration(Res, id, main.about)
  IN  /\ MainAt("details")
      /\ Remember(EvPid, id)
      /\ \/ /\ ok
            /\ main' = [main EXCEPT !.pc = "enqueue",
                 !.about = IF KindOf[Res] = "ssh" THEN SshDetails(Res, id)
                           ELSE MigrationDetails(Res, id)]
            /\ UNCHANGED perm
         \/ ~ok /\ Finish("denied")
      /\ UNCHANGED <<outside, leases, queue, ipc, migStore, sshStore, up>>

MainEnqueueMigration ==
  /\ MainAt("enqueue")
  /\ KindOf[Res] = "browser"
  /\ Mig!Enqueue(Event, main.about)
  /\ IF perm'[Event] = "taken" THEN Goto("recent") ELSE NextEvent
  /\ UNCHANGED <<outside, engine, queue, ipc, sshStore, up>>

MainEnqueueRead ==
  /\ MainAt("enqueue")
  /\ KindOf[Res] = "ssh"
  /\ Ssh!Enqueue(Event, main.about)
  /\ NextEvent
  /\ UNCHANGED <<outside, engine, queue, ipc, migStore, up>>

\* A sibling of an approved import gets its own lease without a prompt.
MainRecent ==
  /\ MainAt("recent")
  /\ \E ok \in BOOLEAN :
       /\ ApproveMigration(main.about, ok)
       /\ Finish(IF ok THEN "allowed" ELSE "denied")
  /\ UNCHANGED <<outside, queue, ipc, migStore, sshStore, up>>

MainStep ==
  \/ MainExpireMigrations \/ MainExpireReads \/ MainRead
  \/ MainDecideOpen \/ MainDecideUnknown \/ MainPanic \/ MainDecide
  \/ MainDetails \/ MainEnqueueMigration \/ MainEnqueueRead \/ MainRecent

-----------------------------------------------------------------------------
(***************************************************************************)
(* The IPC thread.  A job is what the client it serves has asked for.      *)
(***************************************************************************)
beside == <<now, procs, ask, ran, queue, main, up>>

IpcAt(pc) == up /\ ipc.pc = pc

Resolution(op, id, d, u, block) ==
  [op |-> op, id |-> id, details |-> d, uid |-> u, block |-> block]

\* A block needs no authentication.
Begin(job, block) ==
  /\ up /\ ipc = Idle
  /\ ipc' = [pc |-> IF block THEN "take" ELSE "authenticate", job |-> job]
  /\ UNCHANGED <<beside, consents, engine, perm, migStore, sshStore>>

\* get_for_uid looks the request up, and does not look at its expiry.
IpcResolveMigration(r, u, block) ==
  /\ Mig!MayResolve(u, r.details)
  /\ Begin(Resolution("migration", r.id, r.details, u, block), block)

IpcResolveRead(r, u, block) ==
  /\ Ssh!MayResolve(u, r.details)
  /\ Begin(Resolution("read", r.id, r.details, u, block), block)

IpcAuthorizeMigration(u, profile, e) ==
  /\ Len(migration) < MaxArmed
  /\ Begin([op |-> "arm", uid |-> u, profile |-> profile, exe |-> e], FALSE)

\* verify_stopped_child_for_exec: the client's own live child, of its own uid.
Child(i) == i \in Live /\ Lineage[i] # <<>> /\ Lineage[i][1] \in Live

IpcAuthorizeLoad(i, r, agent) ==
  /\ sshLoad = <<>>
  /\ Child(i)
  /\ Begin([op |-> "load", uid |-> UidOf[i], child |-> i, res |-> r, agent |-> agent], FALSE)

\* What the client consents to by authenticating.
ConsentOf(job) ==
  CASE job.op = "migration" ->
         [kind |-> "migration", uid |-> UidOf[job.details.target.inst], by |-> job.uid,
          what |-> job.details.profile, exe |-> job.details.target.exe, start |-> 1]
    [] job.op = "read" ->
         [kind |-> "read", uid |-> UidOf[job.details.target.inst], by |-> job.uid,
          what |-> job.details.res, exe |-> job.details.target.exe,
          start |-> StartOf[job.details.target.inst]]
    [] job.op = "arm" ->
         [kind |-> "migration", uid |-> job.uid, by |-> job.uid,
          what |-> job.profile, exe |-> job.exe, start |-> 0]
    [] job.op = "load" ->
         [kind |-> "load", uid |-> job.uid, by |-> job.uid,
          what |-> job.res, exe |-> SshAdd, start |-> StartOf[job.child]]

\* authorize_sensitive: polkit refuses, the client leaves or 60 s pass, or the
\* user agrees.  No lock is held meanwhile.
IpcAuthenticate ==
  /\ IpcAt("authenticate")
  /\ \/ ipc' = Idle /\ UNCHANGED consents
     \/ /\ consents' = consents \union {ConsentOf(ipc.job)}
        /\ ipc' = [ipc EXCEPT !.pc =
                     IF ipc.job.op \in {"migration", "read"} THEN "take" ELSE "grant"]
  /\ UNCHANGED <<beside, engine, perm, migStore, sshStore>>

WithId(requests) == {r \in requests : r.id = ipc.job.id}

Taken(r) == [pc |-> IF ipc.job.block THEN "deny" ELSE "approve",
             job |-> ipc.job, perms |-> r.perms]

IpcTakeMigration ==
  /\ IpcAt("take") /\ ipc.job.op = "migration"
  /\ \/ WithId(migRequests) = {} /\ ipc' = Idle /\ UNCHANGED <<perm, migStore>>
     \/ \E r \in WithId(migRequests) : Mig!TakeTimedOut(r, ipc.job.uid) /\ ipc' = Idle
     \/ \E r \in WithId(migRequests) :
          Mig!TakeReady(r, ipc.job.uid, ipc.job.block) /\ ipc' = Taken(r)
  /\ UNCHANGED <<beside, consents, engine, sshStore>>

IpcTakeRead ==
  /\ IpcAt("take") /\ ipc.job.op = "read"
  /\ \/ WithId(sshRequests) = {} /\ ipc' = Idle /\ UNCHANGED <<perm, sshStore>>
     \/ \E r \in WithId(sshRequests) : Ssh!TakeTimedOut(r, ipc.job.uid) /\ ipc' = Idle
     \/ \E r \in WithId(sshRequests) :
          Ssh!TakeReady(r, ipc.job.uid, ipc.job.block) /\ ipc' = Taken(r)
  /\ UNCHANGED <<beside, consents, engine, migStore>>

IpcDeny ==
  /\ IpcAt("deny")
  /\ Answer(ipc.perms, "denied")
  /\ ipc' = Idle
  /\ UNCHANGED <<beside, consents, engine, migStore, sshStore>>

\* Approved under the engine lock; the lock is released before the answer.
IpcApproveMigration ==
  /\ IpcAt("approve") /\ ipc.job.op = "migration"
  /\ \E ok \in BOOLEAN :
       /\ ApproveMigration(ipc.job.details, ok)
       /\ ipc' = [ipc EXCEPT !.pc = IF ok THEN "record" ELSE "deny"]
  /\ UNCHANGED <<beside, consents, perm, migStore, sshStore>>

IpcApproveRead ==
  /\ IpcAt("approve") /\ ipc.job.op = "read"
  /\ \E ok \in BOOLEAN :
       /\ ApproveRead(ipc.job.details, ok)
       /\ Answer(ipc.perms, IF ok THEN "allowed" ELSE "denied")
  /\ ipc' = Idle
  /\ UNCHANGED <<beside, consents, migStore, sshStore>>

\* The siblings leave the store before the approved request is answered.
IpcRecord ==
  /\ IpcAt("record")
  /\ LET scope == MigScopeOf[ipc.job.details]
     IN  /\ Mig!RecordApproval(scope)
         /\ ipc' = [pc |-> "allow", job |-> ipc.job, perms |-> ipc.perms,
                    siblings |-> Mig!Siblings(scope)]
  /\ UNCHANGED <<beside, consents, engine, sshStore>>

Siblings(R) == IF R = {} THEN Idle ELSE [pc |-> "siblings", siblings |-> R]

IpcAllow ==
  /\ IpcAt("allow")
  /\ Answer(ipc.perms, "allowed")
  /\ ipc' = Siblings(ipc.siblings)
  /\ UNCHANGED <<beside, consents, engine, migStore, sshStore>>

IpcSibling ==
  /\ IpcAt("siblings")
  /\ \E r \in ipc.siblings, ok \in BOOLEAN :
       /\ ApproveMigration(r.details, ok)
       /\ Answer(r.perms, IF ok THEN "allowed" ELSE "denied")
       /\ ipc' = Siblings(ipc.siblings \ {r})
  /\ UNCHANGED <<beside, consents, migStore, sshStore>>

\* A capability is given out, and the client told of it.
IpcArm ==
  /\ IpcAt("grant") /\ ipc.job.op = "arm"
  /\ Arm(ipc.job.profile, ipc.job.exe, ipc.job.uid)
  /\ ipc' = [pc |-> "deliver", op |-> "arm", lease |-> Len(migration) + 1]
  /\ UNCHANGED <<beside, consents, perm, migStore, sshStore>>

\* The child is verified again; any fact that changed ends the request.
IpcLoad ==
  LET job == ipc.job
  IN  /\ IpcAt("grant") /\ job.op = "load"
      /\ \/ /\ Child(job.child) /\ OwnerOf[job.res] = job.uid
            /\ AuthorizeLoad(job.res, job.uid, job.child, job.agent)
            /\ ipc' = [pc |-> "deliver", op |-> "load", lease |-> Len(sshLoad) + 1]
         \/ ipc' = Idle /\ UNCHANGED engine
      /\ UNCHANGED <<beside, consents, perm, migStore, sshStore>>

\* A capability whose response is not delivered is revoked.
IpcDeliver ==
  /\ IpcAt("deliver")
  /\ \/ UNCHANGED engine
     \/ ipc.op = "arm" /\ RevokeMigration(ipc.lease)
     \/ ipc.op = "load" /\ RevokeLoad(ipc.lease)
  /\ ipc' = Idle
  /\ UNCHANGED <<beside, consents, perm, migStore, sshStore>>

\* leases revoke, by the lease's own user or root.
IpcRevoke(u) ==
  /\ up /\ ipc = Idle
  /\ \/ \E k \in DOMAIN migration : u \in {Root, migration[k].uid} /\ RevokeMigration(k)
     \/ \E k \in DOMAIN sshLoad : u \in {Root, sshLoad[k].uid} /\ RevokeLoad(k)
     \/ \E k \in DOMAIN sshRead : u \in {Root, sshRead[k].uid} /\ RevokeRead(k)
  /\ UNCHANGED <<beside, ipc, consents, perm, migStore, sshStore>>

IpcRequest ==
  \/ \E u \in Clients, block \in BOOLEAN :
       \/ \E r \in migRequests : IpcResolveMigration(r, u, block)
       \/ \E r \in sshRequests : IpcResolveRead(r, u, block)
  \/ \E u \in Clients : IpcRevoke(u)
  \/ \E x \in ArmRequests : IpcAuthorizeMigration(x[1], x[2], x[3])
  \/ \E x \in LoadRequests : IpcAuthorizeLoad(x[1], x[2], x[3])

IpcStep ==
  \/ IpcAuthenticate \/ IpcTakeMigration \/ IpcTakeRead \/ IpcDeny
  \/ IpcApproveMigration \/ IpcApproveRead \/ IpcRecord \/ IpcAllow
  \/ IpcSibling \/ IpcArm \/ IpcLoad \/ IpcDeliver

Next == Environment \/ Tick \/ MainStep \/ IpcRequest \/ IpcStep

Spec == Init /\ [][Next]_vars

\* The threads are never starved and time passes; clients and processes may do
\* nothing.  polkit answers within 60 s, so a job in hand always ends.
Fairness == WF_vars(MainStep) /\ WF_vars(IpcStep) /\ WF_vars(Tick)

FairSpec == Spec /\ Fairness

-----------------------------------------------------------------------------
(***************************************************************************)
(* Properties.                                                             *)
(***************************************************************************)
MainAbouts ==
  Browser \union {None} \union MigDetails \union SshDetailsSet

TypeOK ==
  /\ now \in 0..MaxNow
  /\ life \in [Proc -> {"unborn", "live", "gone"}] /\ exe \in [Proc -> Exe]
  /\ \A pid \in Pid : cache[pid] # None =>
       cache[pid].self \in Stable /\ PidOf[cache[pid].self.inst] = pid
  /\ \A k \in DOMAIN migration : migration[k] \in MigrationLease
  /\ \A k \in DOMAIN sshLoad : sshLoad[k] \in SshLoadLease
  /\ \A k \in DOMAIN sshRead : sshRead[k] \in SshReadLease
  /\ main.about \in MainAbouts
  /\ main.pc = "decide" => main.batch # <<>>
  /\ Mig!TypeOK /\ Ssh!TypeOK

\* The ways to have a permission in hand.
Held(requests, p) == \E r \in requests : p \in r.perms

Hands(p) ==
  {h \in {"queue", "main", "migrations", "reads", "ipc", "siblings"} :
     CASE h = "queue"      -> \E k \in DOMAIN queue : queue[k] = p
       [] h = "main"       -> \E k \in DOMAIN main.batch : main.batch[k] = p
       [] h = "migrations" -> Held(migRequests, p)
       [] h = "reads"      -> Held(sshRequests, p)
       [] h = "ipc"        -> "perms" \in DOMAIN ipc /\ p \in ipc.perms
       [] h = "siblings"   -> "siblings" \in DOMAIN ipc /\ Held(ipc.siblings, p)}

\* An open that waits is always in exactly one hand - the kernel's queue, the
\* main loop, one of the stores, the IPC thread - and an answered one in none:
\* whatever two threads do between locks, no process is left blocked by a
\* permission that nobody will answer, and none is answered by two of them.
OneHand ==
  \A p \in Perm :
    Cardinality(Hands(p)) = IF ask[p] # None /\ perm[p] \notin {"allowed", "denied"}
                            THEN 1 ELSE 0

\* What the daemon promises (ConsentGate): an open is answered once, and is
\* allowed only to the file's own browser, or under a consent its owner or root
\* gave for the process tree that opens it.
Gate == INSTANCE ConsentGate WITH
  gone <- {i \in Proc : life[i] = "gone"},
  answer <- [p \in Perm |-> IF perm[p] \in {"allowed", "denied"} THEN perm[p] ELSE "none"]

GateSpec == Gate!Spec

\* The permissions a step allows.
Allowed(p) == perm[p] # "allowed" /\ perm'[p] = "allowed"

\* An import is approved, and a read, a sibling or a recent approval lets its open in,
\* only while the process the human was shown is alive and runs the executable it was
\* shown with, however long the human, the locks and the other thread took
\* (approve_pending_migration and _ssh_read).  The opens of an approved import wait
\* for the pending lock once more, whatever becomes of the process meanwhile.
ApprovedAsShown ==
  [][/\ ipc.pc = "approve" /\ (ipc'.pc = "record" \/ \E p \in ipc.perms : Allowed(p)) =>
          Running(ipc.job.details.target)
     /\ ipc.pc = "siblings" => \A r \in ipc.siblings :
          (\E p \in r.perms : Allowed(p)) => Running(r.details.target)
     /\ main.pc = "recent" /\ Allowed(Event) => Running(main.about.target)]_vars

\* While a key is blocked no prompt, sibling sweep or recent approval lets an
\* open of that key through: the user's refusal outlives an approval given to
\* another process of the same browser, before it or after it.
RefusalSticks ==
  [][/\ main.pc = "recent" /\ Allowed(Event) => now >= migBlocked[MigKeyOf[main.about]]
     /\ ipc.pc = "siblings" => \A r \in ipc.siblings :
          (\E p \in r.perms : Allowed(p)) => now >= migBlocked[MigKeyOf[r.details]]]_vars

\* A later process has the pid of the one that made an access.
PidReused(a) ==
  \E j \in Proc : PidOf[j] = PidOf[a.inst] /\ StartOf[j] > StartOf[a.inst] /\ life[j] # "unborn"

\* The reads that only a load can justify.  An access whose pid was reused may
\* have been judged as the later process's; nobody waits for it any more.
ByLoadOnly ==
  {p \in Perm :
     /\ perm[p] = "allowed" /\ KindOf[ask[p].res] = "ssh" /\ ask[p].op = "access"
     /\ ~PidReused(ask[p])
     /\ ~\E c \in consents : c.kind = "read" /\ Gate!Covers(c, ask[p])}

\* A load lease is spent by one read, though two threads use and revoke it: there
\* are never more reads that only a load can justify than load leases.
OneReadPerLoad == Cardinality(ByLoadOnly) <= Len(sshLoad)

\* Every open is answered: by the policy, by a human, or by a timeout.
EveryOpenAnswered ==
  \A p \in Perm : ask[p] # None ~> perm[p] \in {"allowed", "denied"}

-----------------------------------------------------------------------------
(***************************************************************************)
(* What the sources say and the code does not do.                          *)
(***************************************************************************)

\* crates/guard-core/src/policy.rs:11: a browser with a valid migration lease
\* is let in.  But an earlier lease of the same profile and uid that expired, was
\* revoked or died settles the decision first, and leases are never removed.
Valid(l, r, id) ==
  /\ InScope(l, r, id) /\ ~l.revoked /\ now < l.expires
  /\ l.state = "bound" /\ Alive(l.root) /\ InTree(id, l.root)

ValidLeaseHonoured ==
  [][main.pc = "decide" /\ KindOf[Res] = "browser" /\ Resolve(EvPid) # None
       /\ UidOfIdentity(Resolve(EvPid)) = OwnerOf[Res]
       /\ (\E k \in DOMAIN migration' : Valid(migration'[k], Res, Resolve(EvPid)))
     => perm'[Event] # "denied"]_vars

\* crates/guard-core/src/resource.rs:101: browser_id is only called on a browser
\* resource.  The refresh calls it on an SSH key when a lease is armed.
NeverPanics == up
=============================================================================
