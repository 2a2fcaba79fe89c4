------------------------------- MODULE GuardEs -------------------------------
(***************************************************************************)
(* The macOS policy service (apps/guard-es): the main loop that handles    *)
(* opens and does maintenance, the XPC threads on which users resolve      *)
(* prompts, the policy state they share under one lock, and the process    *)
(* graph that Endpoint Security's callbacks keep up to date beside them.   *)
(*                                                                         *)
(* An open's permission belongs to the queue, the main loop, a store or a  *)
(* resolution, as perm says; but the thread of its deadline may answer the *)
(* kernel at any time (MacPermission), so reply is kept apart from perm.   *)
(* An action is one critical section of one thread, with the steps after   *)
(* it that touch only what that thread owns.  The seconds a call reads at  *)
(* its start are those of each of its critical sections.                   *)
(***************************************************************************)
EXTENDS Processes

CONSTANTS
  Perm,             \* the opens of a behaviour
  Root,             \* a uid without privileges here: only owners resolve
  MaxAncestors,     \* MAX_ANCESTOR_DEPTH
  Xpc,              \* the threads that serve clients
  Critical,         \* the browser resources no tool may read
  MaxFiles,         \* bound on the replacements of key files
  MaxNow, MigrationDuration, ReadDuration,
  Timeout, MaxRequests, MaxPermissions,
  BlockSuppression, ApprovalGrace, MaxRecent

Main == "main"

ASSUME EsAssumption ==
  /\ Main \notin Xpc
  /\ Critical \subseteq Resource
  /\ Root \in Uid
  /\ {MaxNow, MaxAncestors, MigrationDuration, ReadDuration, Timeout, MaxRequests,
      MaxPermissions, BlockSuppression, ApprovalGrace, MaxRecent} \subseteq Nat \ {0}
  /\ MaxFiles \in Nat
  /\ None \notin [inst : Proc, res : Resource, op : {"open", "access"}]
  /\ None \notin Stable /\ \A flags \in SUBSET {"read", "write"} : flags # None
  /\ \A s \in Scenario :
       /\ s.opens \subseteq [inst : Proc, res : Resource, flags : SUBSET {"read", "write"}]
       /\ s.tools \subseteq Exe /\ s.xpc \subseteq Xpc
       /\ s.clients \subseteq Uid \ {Root}
       /\ s.lag \in Nat /\ s.files \in 0..MaxFiles /\ s.horizon \in 0..MaxNow

VARIABLES
  now,
  graph,            \* the parent of every process known, and who has which pid
  news, messages,   \* events of processes, and opens, still to be learned
  file,             \* which file a key's path names: it may be replaced
  ask, shown,       \* what each permission is for, and as what it was opened
  queue,            \* opens sent to the main loop
  perm,             \* whose each permission is (PendingStore)
  reply,            \* the flags the kernel was given, None before
  main,             \* where the main loop is
  task,             \* the approval each thread is at
  migration, sshRead,
  tools,            \* the enrolled tools
  offUntil,         \* block_suppression_disabled_until
  migRequests, migNextId, migBlocked, migRecent,
  sshRequests, sshNextId, sshBlocked,
  ran, consents,    \* history: executables run, consents given
  joined            \* history: the opens each lease was given for

\* What people and processes may do, and the bounds of a behaviour.
Opens       == scenario.opens     \* what processes may open, and with which flags
MaxOpens    == scenario.maxOpens  \* how many opens
Clients     == scenario.clients   \* the uids whose clients resolve and revoke
Serving     == scenario.xpc       \* the threads that serve them
Tool        == scenario.tools     \* the executables that may be enrolled as tools
MaxLag      == scenario.lag       \* how many events the service has yet to learn; if
                                  \* 0, it learns of each as it happens
MaxDisabled == scenario.disabled  \* MAX_TEST_DISABLE_SECS
Horizon     == scenario.horizon   \* when the clock stops

migStore == <<migRequests, migNextId, migBlocked, migRecent>>
sshStore == <<sshRequests, sshNextId, sshBlocked>>
leases   == <<migration, sshRead, joined>>
learning == <<graph, news, messages, queue>>
vars == <<now, procs, learning, file, ask, shown, perm, reply, main, task, leases,
          tools, offUntil, migStore, sshStore, ran, consents>>

-----------------------------------------------------------------------------
(***************************************************************************)
(* The process graph (platform-macos/src/identity.rs).  An exec gives a    *)
(* process a new audit key, so a key is an instance and its executable.    *)
(***************************************************************************)
Parent(i) ==
  IF Lineage[i] # <<>> /\ Lineage[i][1] \in Live THEN Seen(Lineage[i][1]) ELSE None

\* observe: the last to be observed is the current process of its pid.
Observed(g, s, parent) ==
  [parent  |-> [k \in DOMAIN g.parent \union {s} |->
                  IF k = s THEN parent ELSE g.parent[k]],
   current |-> [g.current EXCEPT ![PidOf[s.inst]] = s]]

\* remove_terminal
Removed(g, s) ==
  [parent  |-> [k \in DOMAIN g.parent \ {s} |-> g.parent[k]],
   current |-> [pid \in Pid |-> IF g.current[pid] = s THEN None ELSE g.current[pid]]]

\* handle_process_event: a fork shows the parent and the child.
Learned(g, n) ==
  CASE n.kind = "fork" -> LET p == n.parent
                              h == IF p = None THEN g ELSE Observed(g, p, n.above)
                          IN  Observed(h, n.self, p)
    [] n.kind = "exec" -> Observed(g, n.self, n.parent)
    [] n.kind = "exit" -> Removed(g, n.self)

\* From parent to parent; where an entry is missing, the way ends.
Climb(s) ==
  LET up[n \in 0..(MaxAncestors + 1)] ==
        IF n = 0 THEN s
        ELSE IF up[n - 1] \in DOMAIN graph.parent THEN graph.parent[up[n - 1]]
        ELSE up[n - 1]
  IN  up

\* The chain of parents up to one that has none.  It is of no use if an entry
\* is missing on the way or it is too long.
Chain(s) ==
  LET up    == Climb(s)
      depth == Max({n \in 0..(MaxAncestors + 1) : up[n] # None})
  IN  IF up[MaxAncestors + 1] = None THEN [n \in 1..depth |-> up[n]] ELSE <<>>

\* resolve: what is known of a pid, not what the event said of it.
Resolve(pid) ==
  IF graph.current[pid] = None THEN None
  ELSE [self |-> graph.current[pid], ancestors |-> Chain(graph.current[pid])]

\* Mutant: any process of the pid will do.
KnownLivePid(s) == graph.current[PidOf[s.inst]] # None

\* is_live_instance
KnownLive(s) == graph.current[PidOf[s.inst]] = s

-----------------------------------------------------------------------------
(***************************************************************************)
(* The two pending stores.  The root of a prompt is the target itself.     *)
(***************************************************************************)
Trusted == {e \in TrustedExe : BrowserOfExe[e] # None}

MigDetails ==
  {[target |-> s, root |-> s, profile |-> f] : s \in [inst : Proc, exe : Trusted], f \in Profile}

MigKeyOf == [d \in MigDetails |->
  [uid |-> UidOf[d.target.inst], root |-> d.root, profile |-> d.profile]]
MigScopeOf == [d \in MigDetails |->
  [uid |-> UidOf[d.target.inst], profile |-> d.profile, exe |-> d.target.exe]]
MigKey == {MigKeyOf[d] : d \in MigDetails}
MigScope == {MigScopeOf[d] : d \in MigDetails}

SshKeys == {r \in Resource : KindOf[r] = "ssh"}

\* A prompt is about the file that was opened: a file that replaces it at its path
\* has a prompt of its own, and its own refusal.
SshDetailsSet == [target : Stable, res : SshKeys, file : 0..MaxFiles]
SshKeyOf == [d \in SshDetailsSet |->
  [uid |-> UidOf[d.target.inst], res |-> d.res, file |-> d.file, root |-> d.target]]
SshKey == {SshKeyOf[d] : d \in SshDetailsSet}

Mig == INSTANCE PendingStore WITH
  Details <- MigDetails, Key <- MigKey, Scope <- MigScope,
  KeyOf <- MigKeyOf, ScopeOf <- MigScopeOf,
  OwnerOfKey <- [k \in MigKey |-> k.uid],
  requests <- migRequests, nextId <- migNextId,
  blocked <- migBlocked, recent <- migRecent, suppressionOff <- (now < offUntil)

Ssh == INSTANCE PendingStore WITH
  Details <- SshDetailsSet, Key <- SshKey, Scope <- {None},
  KeyOf <- SshKeyOf, ScopeOf <- [d \in SshDetailsSet |-> None],
  OwnerOfKey <- [k \in SshKey |-> k.uid],
  requests <- sshRequests, nextId <- sshNextId, blocked <- sshBlocked,
  recent <- [s \in {None} |-> 0], suppressionOff <- (now < offUntil)

-----------------------------------------------------------------------------
Idle == [pc |-> "idle"]

Init ==
  /\ now = 0
  /\ InitProcs
  /\ graph = [parent |-> <<>>, current |-> [pid \in Pid |-> None]]
  /\ news = <<>> /\ messages = <<>> /\ queue = <<>>
  /\ file = 0
  /\ ask = [p \in Perm |-> None] /\ shown = [p \in Perm |-> None]
  /\ perm = [p \in Perm |-> "free"] /\ reply = [p \in Perm |-> None]
  /\ main = "receive"
  /\ task = [t \in Xpc \union {Main} |-> Idle]
  /\ migration = <<>> /\ sshRead = <<>> /\ joined = {}
  /\ tools = {}
  /\ offUntil = 0
  /\ migRequests = {} /\ migNextId = 0
  /\ migBlocked = [k \in MigKey |-> 0] /\ migRecent = [s \in MigScope |-> 0]
  /\ sshRequests = {} /\ sshNextId = 0 /\ sshBlocked = [k \in SshKey |-> 0]
  /\ ran = [i \in Proc |-> {BirthExe[i]}]
  /\ consents = {}

-----------------------------------------------------------------------------
(***************************************************************************)
(* Processes, files, people and time.                                      *)
(***************************************************************************)
service == <<queue, perm, main, task, leases, tools, offUntil, migStore, sshStore>>

\* Endpoint Security tells of a process some time after the fact.
Tell(n) ==
  IF MaxLag = 0
  THEN graph' = Learned(graph, n) /\ UNCHANGED <<news, messages>>
  ELSE /\ Len(news) < MaxLag
       /\ news' = Append(news, n)
       /\ UNCHANGED <<graph, messages>>

Spawn(i) ==
  LET parent == IF Lineage[i] = <<>> THEN None ELSE Seen(Lineage[i][1])
  IN  /\ SpawnProc(i)
      /\ Tell([kind |-> "fork", self |-> Seen(i), parent |-> parent,
               above |-> IF parent = None THEN None ELSE Parent(parent.inst)])
      /\ UNCHANGED <<now, service, file, ask, shown, reply, ran, consents>>

Exit(i) ==
  /\ ExitProc(i)
  /\ Tell([kind |-> "exit", self |-> Seen(i)])
  /\ UNCHANGED <<now, service, file, ask, shown, reply, ran, consents>>

Exec(i, e) ==
  /\ ExecProc(i, e)
  /\ Tell([kind |-> "exec", self |-> [inst |-> i, exe |-> e], parent |-> Parent(i)])
  /\ ran' = [ran EXCEPT ![i] = @ \union {e}]
  /\ UNCHANGED <<now, service, file, ask, shown, reply, consents>>

\* CallbackContext::handle, for a permission it could retain.
Receive(p, facts) ==
  /\ graph' = Observed(graph, [inst |-> ask'[p].inst, exe |-> facts.exe], facts.parent)
  /\ queue' = Append(queue, p)

Open(p, a) ==
  LET facts == [exe |-> exe[a.inst], parent |-> Parent(a.inst), flags |-> a.flags, file |-> file]
      opens == KindOf[a.res] = "ssh" /\ "read" \notin a.flags
  IN  /\ ask[p] = None /\ Cardinality({q \in Perm : ask[q] # None}) < MaxOpens
      /\ a.inst \in Live
      /\ ask' = [ask EXCEPT ![p] =
                   [inst |-> a.inst, res |-> a.res, op |-> IF opens THEN "open" ELSE "access"]]
      /\ shown' = [shown EXCEPT ![p] = facts]
      /\ IF MaxLag = 0
         THEN Receive(p, facts) /\ UNCHANGED messages
         ELSE messages' = Append(messages, p) /\ UNCHANGED <<graph, queue>>
      /\ UNCHANGED <<now, procs, news, file, perm, reply, main, task, leases, tools, offUntil,
                     migStore, sshStore, ran, consents>>

\* An editor saves a key by renaming another file over it.
ReplaceFile ==
  /\ file < scenario.files
  /\ file' = file + 1
  /\ UNCHANGED <<now, procs, learning, ask, shown, perm, reply, main, task, leases, tools,
                 offUntil, migStore, sshStore, ran, consents>>

Tick ==
  /\ now < Horizon
  /\ now' = now + 1
  /\ UNCHANGED <<procs, learning, file, ask, shown, perm, reply, main, task, leases, tools,
                 offUntil, migStore, sshStore, ran, consents>>

\* apply_config with one more tool: its owner consents to what it may read.
EnrolTool(e) ==
  /\ e \notin tools
  /\ tools' = tools \union {e}
  /\ consents' = consents \union
       {[kind |-> "tool", uid |-> OwnerOf[r], by |-> OwnerOf[r], what |-> r, exe |-> e, start |-> 0]
          : r \in {r \in Resource \ Critical : KindOf[r] = "browser"}}
  /\ UNCHANGED <<now, procs, learning, file, ask, shown, perm, reply, main, task, leases,
                 offUntil, migStore, sshStore, ran>>

-----------------------------------------------------------------------------
(***************************************************************************)
(* The callbacks, on two clients of Endpoint Security that do not wait for *)
(* one another, and the thread of the deadlines.                           *)
(***************************************************************************)
LearnNews ==
  /\ news # <<>>
  /\ graph' = Learned(graph, Head(news))
  /\ news' = Tail(news)
  /\ UNCHANGED <<now, procs, messages, file, ask, shown, service, reply, ran, consents>>

\* Mutant: the callback sends the open and is called with it again.
LearnOpenAgain ==
  /\ messages # <<>>
  /\ UNCHANGED <<now, procs, news, messages, file, ask, shown, perm, reply, main, task, leases,
                 tools, offUntil, migStore, sshStore, ran, consents>>
  /\ Receive(Head(messages), shown[Head(messages)])

LearnOpen ==
  /\ messages # <<>>
  /\ messages' = Tail(messages)
  /\ UNCHANGED <<now, procs, news, file, ask, shown, perm, reply, main, task, leases, tools,
                 offUntil, migStore, sshStore, ran, consents>>
  /\ Receive(Head(messages), shown[Head(messages)])

\* The deadline of an open denies it, whoever has its permission.
TimesOut(p) ==
  /\ ask[p] # None /\ reply[p] = None
  /\ \A k \in DOMAIN messages : messages[k] # p
  /\ reply' = [reply EXCEPT ![p] = {}]
  /\ UNCHANGED <<now, procs, learning, file, ask, shown, perm, main, task, leases, tools,
                 offUntil, migStore, sshStore, ran, consents>>

Environment ==
  \/ \E i \in Proc : Spawn(i)
  \/ \E i \in Mortal : Exit(i)
  \/ \E x \in Execs : Exec(x[1], x[2])
  \/ \E p \in Perm, a \in Opens : Open(p, a)
  \/ \E e \in Tool : EnrolTool(e)
  \/ ReplaceFile
  \/ LearnNews \/ LearnOpen
  \/ \E p \in Perm : TimesOut(p)

-----------------------------------------------------------------------------
(***************************************************************************)
(* What the policy lock protects, and answers.                             *)
(***************************************************************************)
outside == <<now, offUntil, procs, file, ask, shown, ran>>
events  == <<graph, news, messages>>

\* The two halves of maintenance are one critical section of the main loop.
LockFree == main # "maintainReads"

Granted(how, p) ==
  IF how = "exact" THEN shown[p].flags ELSE shown[p].flags \intersect {"read"}

\* What the kernel is told of the permissions a step answers: nothing, if the
\* deadline has told it first.
Reply(how) ==
  reply' = [p \in Perm |->
    IF perm'[p] = perm[p] \/ reply[p] # None THEN reply[p]
    ELSE CASE perm'[p] = "allowed" -> Granted(how, p)
           [] perm'[p] = "denied"  -> {}
           [] OTHER                -> None]

Expiry(duration) == Mig!SatAdd(now, duration)

Approval(kind, d, P, rest) ==
  [pc |-> "check", kind |-> kind, details |-> d, perms |-> P, rest |-> rest]

\* The siblings of an approved import are approved one after the other.
Onward(t, rest) ==
  \/ rest = {} /\ task' = [task EXCEPT ![t] = Idle]
  \/ \E r \in rest :
       task' = [task EXCEPT ![t] = Approval("sibling", r.details, r.perms, rest \ {r})]

-----------------------------------------------------------------------------
(***************************************************************************)
(* The main loop: one open, if there is one, then maintenance.             *)
(***************************************************************************)
Event == Head(queue)
Res   == ask[Event].res
Id    == Resolve(PidOf[ask[Event].inst])
Flags == shown[Event].flags

Handling == main = "receive" /\ queue # <<>>

Handled(verdict, how) ==
  /\ perm' = Mig!Marked({Event}, verdict)
  /\ Reply(how)
  /\ queue' = Tail(queue)
  /\ main' = "maintainMigrations"
  /\ UNCHANGED <<outside, events, task, leases, tools, migStore, sshStore, consents>>

HandleUnknown == Handling /\ Id = None /\ Handled("denied", "exact")

ToWriteKey == KindOf[Res] = "ssh" /\ "read" \notin Flags

HandleWriteOfKey ==
  /\ Handling /\ Id # None
  /\ ToWriteKey
  /\ \/ UidOfIdentity(Id) = OwnerOf[Res] /\ Handled("allowed", "exact")
     \/ UidOfIdentity(Id) # OwnerOf[Res] /\ Handled("denied", "exact")

\* Mutant: a tool may read what is critical.
ByToolAny == KindOf[Res] = "browser" /\ shown[Event].exe \in tools

\* The tool is recognised from the event, and not from the graph.
ByTool == KindOf[Res] = "browser" /\ Res \notin Critical /\ shown[Event].exe \in tools

\* Mutant: a tool is given what it asks for.
HandleToolExact ==
  /\ Handling /\ Id # None
  /\ ByTool
  /\ Handled("allowed", "exact")

HandleTool ==
  /\ Handling /\ Id # None
  /\ ByTool
  /\ Handled("allowed", "readOnly")

Judgement == Evaluate(Res, Id, migration, <<>>, sshRead, now)

ToJudge == Handling /\ Id # None /\ ~ToWriteKey /\ ~ByTool

HandleDecided ==
  /\ ToJudge
  /\ \/ Grants(Judgement) /\ Handled("allowed", IF Judgement.kind = "byMigration"
                                                THEN "readOnly" ELSE "exact")
     \/ Judgement.kind = "deny" /\ Handled("denied", "exact")

\* No prompt: it asks for no reading, or its deadline is too near.
HandleUnasked ==
  /\ ToJudge
  /\ Judgement.kind \in {"askMigration", "askSsh"}
  /\ Handled("denied", "exact")

HandleMigration ==
  LET d == [target |-> Id.self, root |-> Id.self, profile |-> ProfileOf[Res]]
  IN  /\ ToJudge
      /\ Judgement.kind = "askMigration" /\ "read" \in Flags
      /\ UNCHANGED <<outside, events, leases, tools, sshStore, consents>>
      /\ Mig!Enqueue(Event, d)
      /\ Reply("readOnly")
      /\ queue' = Tail(queue)
      /\ IF perm'[Event] = "taken"
         THEN /\ task' = [task EXCEPT ![Main] = Approval("sibling", d, {Event}, {})]
              /\ main' = "recent"
         ELSE main' = "maintainMigrations" /\ UNCHANGED task

HandleRead ==
  /\ ToJudge
  /\ Judgement.kind = "askSsh"
  /\ UNCHANGED <<outside, events, task, leases, tools, migStore, consents>>
  /\ Ssh!Enqueue(Event, [target |-> Id.self, res |-> Res, file |-> shown[Event].file])
  /\ Reply("exact")
  /\ queue' = Tail(queue)
  /\ main' = "maintainMigrations"

ReceiveNothing ==
  /\ main = "receive" /\ queue = <<>>
  /\ main' = "maintainMigrations"
  /\ UNCHANGED <<outside, learning, perm, reply, task, leases, tools, migStore, sshStore, consents>>

\* A lease ends with its root.
Ended(l) == [l EXCEPT !.revoked = TRUE, !.state = "dead"]

\* Maintenance follows every open, once approve_recent has returned.
MaintainMigrations ==
  /\ main = "maintainMigrations" \/ (main = "recent" /\ task[Main] = Idle)
  /\ UNCHANGED <<outside, learning, task, joined, tools, sshStore, consents>>
  /\ migration' = [k \in DOMAIN migration |->
       IF KnownLive(migration[k].root) THEN migration[k] ELSE Ended(migration[k])]
  /\ sshRead' = [k \in DOMAIN sshRead |->
       [sshRead[k] EXCEPT !.revoked = @ \/ ~KnownLive(sshRead[k].root)]]
  /\ Mig!Expire({k \in MigKey : KnownLive(k.root)})
  /\ Reply("exact")
  /\ main' = "maintainReads"

MaintainReads ==
  /\ main = "maintainReads"
  /\ UNCHANGED <<outside, learning, task, leases, tools, migStore, consents>>
  /\ Ssh!Expire({k \in SshKey : KnownLive(k.root)})
  /\ Reply("exact")
  /\ main' = "receive"

-----------------------------------------------------------------------------
(***************************************************************************)
(* An approval: on the XPC thread of a user who allowed a prompt, or on    *)
(* the main loop for an open of a recently approved scope.                 *)
(***************************************************************************)
own == <<now, offUntil, procs, learning, file, ask, shown, main, tools, ran, consents>>

TaskAt(t, pc) == task[t].pc = pc

Step(t, pc) == [task EXCEPT ![t].pc = pc]

\* Mutant: the file behind the path of the key is not looked at.
StillAsShownAnyFile(kind, d) ==
  LET current == Resolve(PidOf[d.target.inst])
  IN  IF kind = "read"
      THEN MayRead(d, current) /\ KnownLive(d.target)
      ELSE MayLease(d, current) /\ KnownLive(d.root)

\* What the process and the key are now, apart from the policy lock.
StillAsShown(kind, d) ==
  LET current == Resolve(PidOf[d.target.inst])
  IN  IF kind = "read"
      THEN MayRead(d, current) /\ KnownLive(d.target) /\ d.file = file
      ELSE MayLease(d, current) /\ KnownLive(d.root)

Check(t) ==
  /\ TaskAt(t, "check")
  /\ \/ /\ StillAsShown(task[t].kind, task[t].details)
        /\ task' = Step(t, "approve")
        /\ UNCHANGED <<perm, reply>>
     \/ /\ ~StillAsShown(task[t].kind, task[t].details)
        /\ Onward(t, task[t].rest)
        /\ perm' = Mig!Marked(task[t].perms, "denied")
        /\ Reply("exact")
  /\ UNCHANGED <<own, leases, migStore, sshStore>>

Approved(t, lease, rest) ==
  /\ task' = [task EXCEPT ![t] =
       [pc |-> "answer", kind |-> @.kind, details |-> @.details, perms |-> @.perms,
        rest |-> rest, lease |-> lease]]
  /\ joined' = joined \union
       {[kind |-> task[t].kind, lease |-> lease, opens |-> task[t].perms]}

\* The siblings leave the store before the approved request is answered.
ApproveImport(t) ==
  LET d == task[t].details
  IN  /\ TaskAt(t, "approve") /\ task[t].kind = "import" /\ LockFree
      /\ UNCHANGED <<own, sshRead, sshStore>>
      /\ migration' = Append(migration, BoundLease(d, Expiry(MigrationDuration)))
      /\ Approved(t, Len(migration) + 1, Mig!Siblings(MigScopeOf[d]))
      /\ Mig!RecordApproval(MigScopeOf[d])
      /\ Reply("readOnly")

ApproveSibling(t) ==
  /\ TaskAt(t, "approve") /\ task[t].kind = "sibling" /\ LockFree
  /\ migration' = Append(migration, BoundLease(task[t].details, Expiry(MigrationDuration)))
  /\ Approved(t, Len(migration) + 1, task[t].rest)
  /\ UNCHANGED <<own, perm, reply, sshRead, migStore, sshStore>>

ApproveRead(t) ==
  /\ TaskAt(t, "approve") /\ task[t].kind = "read" /\ LockFree
  /\ sshRead' = Append(sshRead, ReadLease(task[t].details, Expiry(ReadDuration)))
  /\ Approved(t, Len(sshRead) + 1, {})
  /\ UNCHANGED <<own, perm, reply, migration, migStore, sshStore>>

\* Mutant: the approval fails only if no open could be let in.
LateForAll(t) == \A p \in task[t].perms : reply[p] # None

\* try_resolve: every permission is tried, and one failure fails the approval.
Late(t) == \E p \in task[t].perms : reply[p] # None

Answer(t) ==
  /\ TaskAt(t, "answer")
  /\ perm' = Mig!Marked(task[t].perms, "allowed")
  /\ Reply(IF task[t].kind = "read" THEN "exact" ELSE "readOnly")
  /\ IF Late(t)
     THEN task' = [task EXCEPT ![t].pc = "withdraw", ![t].perms = {}]
     ELSE Onward(t, task[t].rest)
  /\ UNCHANGED <<own, leases, migStore, sshStore>>

\* The siblings of an import that failed are dropped, which denies them.
WithdrawImport(t) ==
  /\ TaskAt(t, "withdraw") /\ task[t].kind = "import" /\ LockFree
  /\ migration' = [migration EXCEPT ![task[t].lease] = Ended(@)]
  /\ perm' = Mig!Marked(UNION {r.perms : r \in task[t].rest}, "denied")
  /\ Reply("exact")
  /\ Onward(t, {})
  /\ UNCHANGED <<own, sshRead, joined, migStore, sshStore>>

WithdrawSibling(t) ==
  /\ TaskAt(t, "withdraw") /\ task[t].kind = "sibling" /\ LockFree
  /\ migration' = [migration EXCEPT ![task[t].lease] = Ended(@)]
  /\ Onward(t, task[t].rest)
  /\ UNCHANGED <<own, perm, reply, sshRead, joined, migStore, sshStore>>

WithdrawRead(t) ==
  /\ TaskAt(t, "withdraw") /\ task[t].kind = "read" /\ LockFree
  /\ sshRead' = [sshRead EXCEPT ![task[t].lease].revoked = TRUE]
  /\ Onward(t, {})
  /\ UNCHANGED <<own, perm, reply, migration, joined, migStore, sshStore>>

\* A user's refusal.
Refuse(t) ==
  /\ TaskAt(t, "refuse")
  /\ perm' = Mig!Marked(task[t].perms, "denied")
  /\ Reply("exact")
  /\ Onward(t, {})
  /\ UNCHANGED <<own, leases, migStore, sshStore>>

-----------------------------------------------------------------------------
(***************************************************************************)
(* The XPC threads.  The client has authenticated its user by now.         *)
(***************************************************************************)
Free(x) == task[x] = Idle /\ LockFree

\* What an answered prompt becomes.
Resolution(x, kind, r, block) ==
  task' = [task EXCEPT ![x] = IF block THEN [pc |-> "refuse", perms |-> r.perms]
                              ELSE Approval(kind, r.details, r.perms, {})]

ConsentTo(kind, what, u, d) ==
  [kind |-> kind, uid |-> UidOf[d.target.inst], by |-> u, what |-> what,
   exe |-> d.target.exe, start |-> StartOf[d.target.inst]]

XpcResolveMigration(x, r, u, block) ==
  /\ Free(x)
  /\ UNCHANGED <<outside, learning, main, leases, tools, sshStore>>
  /\ \/ Mig!TakeTimedOut(r, u) /\ UNCHANGED <<task, consents>>
     \/ /\ Mig!TakeReady(r, u, block)
        /\ Resolution(x, "import", r, block)
        /\ consents' = IF block THEN consents ELSE consents \union
                         {ConsentTo("migration", r.details.profile, u, r.details)}
  /\ Reply("exact")

XpcResolveRead(x, r, u, block) ==
  /\ Free(x)
  /\ UNCHANGED <<outside, learning, main, leases, tools, migStore>>
  /\ \/ Ssh!TakeTimedOut(r, u) /\ UNCHANGED <<task, consents>>
     \/ /\ Ssh!TakeReady(r, u, block)
        /\ Resolution(x, "read", r, block)
        /\ consents' = IF block THEN consents ELSE consents \union
                         {ConsentTo("read", r.details.res, u, r.details)}
  /\ Reply("exact")

\* revoke_lease_by_id, by the user of the lease.
XpcRevoke(x, u) ==
  /\ Free(x)
  /\ \/ \E k \in DOMAIN migration : migration[k].uid = u
          /\ migration' = [migration EXCEPT ![k] = Ended(@)] /\ UNCHANGED sshRead
     \/ \E k \in DOMAIN sshRead : sshRead[k].uid = u
          /\ sshRead' = [sshRead EXCEPT ![k].revoked = TRUE] /\ UNCHANGED migration
  /\ UNCHANGED <<outside, learning, perm, reply, main, task, joined, tools, migStore, sshStore,
                 consents>>

\* set_test_block_suppression_disabled, which the stores learn of at once.
XpcDisableSuppression(x, secs) ==
  /\ Free(x)
  /\ offUntil' = IF secs > 0 THEN Expiry(secs) ELSE 0
  /\ IF now < offUntil'
     THEN /\ migBlocked' = [k \in MigKey |-> 0]
          /\ sshBlocked' = [k \in SshKey |-> 0]
     ELSE UNCHANGED <<migBlocked, sshBlocked>>
  /\ UNCHANGED <<now, procs, learning, file, ask, shown, perm, reply, main, task, leases, tools,
                 migRequests, migNextId, migRecent, sshRequests, sshNextId, ran, consents>>

-----------------------------------------------------------------------------
MainStep ==
  \/ HandleUnknown \/ HandleWriteOfKey \/ HandleTool \/ HandleDecided \/ HandleUnasked
  \/ HandleMigration \/ HandleRead \/ ReceiveNothing
  \/ MaintainMigrations \/ MaintainReads

TaskStep(t) ==
  \/ Check(t) \/ ApproveImport(t) \/ ApproveSibling(t) \/ ApproveRead(t) \/ Answer(t)
  \/ WithdrawImport(t) \/ WithdrawSibling(t) \/ WithdrawRead(t) \/ Refuse(t)

XpcRequest(x) ==
  \/ \E u \in Clients, block \in BOOLEAN :
       \/ \E r \in migRequests : XpcResolveMigration(x, r, u, block)
       \/ \E r \in sshRequests : XpcResolveRead(x, r, u, block)
  \/ \E u \in Clients : XpcRevoke(x, u)
  \/ \E secs \in 0..MaxDisabled : XpcDisableSuppression(x, secs)

Next ==
  \/ Environment \/ Tick \/ MainStep
  \/ \E t \in Xpc \union {Main} : TaskStep(t)
  \/ \E x \in Serving : XpcRequest(x)

Spec == Init /\ [][Next]_vars

\* The threads of the service run and time passes; nobody need answer a prompt,
\* and the deadlines' thread need not help.  The main loop waits for events with
\* the policy lock free, so that a thread which wants it always gets it in time.
Fairness ==
  /\ WF_vars(MainStep) /\ \A t \in Xpc \union {Main} : SF_vars(TaskStep(t))
  /\ WF_vars(LearnNews) /\ WF_vars(LearnOpen) /\ WF_vars(Tick)

FairSpec == Spec /\ Fairness

-----------------------------------------------------------------------------
(***************************************************************************)
(* Properties.                                                             *)
(***************************************************************************)
\* Where a permission can be.
In(q, p) == \E k \in DOMAIN q : q[k] = p

HeldBy(R, p) == \E r \in R : p \in r.perms

Hands(p) ==
  {h \in {"messages", "queue", "migrations", "reads"} :
     CASE h = "messages"   -> In(messages, p)
       [] h = "queue"      -> In(queue, p)
       [] h = "migrations" -> HeldBy(migRequests, p)
       [] h = "reads"      -> HeldBy(sshRequests, p)}

TaskHands(p) ==
  {t \in DOMAIN task : "perms" \in DOMAIN task[t] /\ p \in task[t].perms}

SiblingHands(p) ==
  {t \in DOMAIN task : "rest" \in DOMAIN task[t] /\ HeldBy(task[t].rest, p)}

\* A permission that is not answered is in one hand - the callbacks, the queue,
\* a store or one approval - and an answered one in none: concurrent XPC threads
\* and the main loop never lose one or answer it twice, through every failure of
\* an approval (resolve_migration, resolve_ssh_read, approve_recent).
OneHand ==
  \A p \in Perm :
    Cardinality(Hands(p)) + Cardinality(TaskHands(p)) + Cardinality(SiblingHands(p)) =
      IF ask[p] # None /\ perm[p] \notin {"allowed", "denied"} THEN 1 ELSE 0

\* The processes whose opens may be judged as those of another.  A decision is
\* about a pid (Resolve): an open whose process has exited is judged as one of the
\* next process of its pid, and nobody waits for it; where notices come late, an
\* old notice can make a pid that of its former process again (observe).
Mistakable ==
  {i \in Proc :
     \/ life[i] = "gone"
     \/ MaxLag > 0 /\ life[i] # "unborn"
          /\ \E j \in Proc \ {i} : PidOf[j] = PidOf[i] /\ life[j] # "unborn"}

\* What the guard promises (ConsentGate), of what the kernel is told: on macOS
\* as on Linux, though here identities come from a graph kept by other threads.
Gate == INSTANCE ConsentGate WITH
  gone <- Mistakable,
  answer <- [p \in Perm |-> IF reply[p] = None THEN "none"
                            ELSE IF reply[p] = {} THEN "denied" ELSE "allowed"]

GateSpec == Gate!Spec

\* Nobody writes to a browser's profile but that browser: a tool, a lease, a
\* prompt, a grace period and a sibling are all grants to read, by whichever of
\* the paths of handle_at and of the approvals the open was let through.
WriteOnlyToOwn ==
  \A p \in Perm : reply[p] # None /\ "write" \in reply[p] /\ KindOf[ask[p].res] = "browser" =>
    ask[p].inst \in Mistakable \/ Gate!OwnBrowser(ask[p])

\* The prompts that an open of a key waits for, until somebody has allowed them and
\* the key and its reader have been looked at again.
PromptsOf(p) ==
  {r.details : r \in {r \in sshRequests : p \in r.perms}} \union
  {task[t].details : t \in {t \in DOMAIN task :
     TaskAt(t, "check") /\ task[t].kind = "read" /\ p \in task[t].perms}}

BeingRefused(p) == \E t \in DOMAIN task : TaskAt(t, "refuse") /\ p \in task[t].perms

\* A prompt that no longer says how things are lets nobody in: once its key was
\* replaced since an open of it, or its reader has gone, that open stays with it or
\* is denied, whatever its users answer and whoever sweeps it or joins it
\* (revalidate_ssh_pending, SshPendingKey).
StalePromptStaysShut ==
  [][\A p \in Perm : \A d \in PromptsOf(p) : shown[p].file # file \/ ~KnownLive(d.target) =>
       perm'[p] = "denied" \/ PromptsOf(p)' # {} \/ BeingRefused(p)']_vars

\* The approval that gave a lease is still being answered.
Answering(j) ==
  \E t \in DOMAIN task : /\ task[t].pc \in {"answer", "withdraw"}
                         /\ task[t].kind = j.kind /\ task[t].lease = j.lease

LeaseOf(j) == IF j.kind = "read" THEN sshRead[j.lease] ELSE migration[j.lease]

\* A lease in force has let in every open it was given for: an approval whose answer
\* came too late for the kernel, be it for one of several opens that joined it, leaves
\* none behind (try_resolve, and the rollbacks of its three callers).
LeaseHasItsOpens ==
  \A j \in joined : \/ LeaseOf(j).revoked
                    \/ Answering(j)
                    \/ \A p \in j.opens : reply[p] \notin {None, {}}

\* Every open is settled by the service itself, and no prompt stays after its
\* open was settled: nobody need answer, and several users may at once.
EveryOpenSettled ==
  \A p \in Perm : ask[p] # None ~> perm[p] \in {"allowed", "denied"}

\* If the service learns of things as they happen, a lease ends once its root has
\* exited, although nobody opens anything and its pid is in use again.
LeasesEnd ==
  MaxLag = 0 =>
    \A i \in Proc : life[i] = "gone" ~>
      \A k \in DOMAIN migration : migration[k].root.inst = i => migration[k].revoked
=============================================================================
