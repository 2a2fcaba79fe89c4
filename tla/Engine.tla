------------------------------- MODULE Engine --------------------------------
(***************************************************************************)
(* The enforcement engine of guardd (apps/guardd/src/enforce.rs) over the  *)
(* process table it observes: the identity cache, the three lease vectors  *)
(* and the operations the daemon's threads make under the engine lock.     *)
(* Each operation is a formula a thread's action conjoins (Guardd).        *)
(*                                                                         *)
(* The /proc reads made under one acquisition of the lock see one state of *)
(* the process table.  MaxNow stands for u64::MAX.                         *)
(***************************************************************************)
EXTENDS Processes

CONSTANTS
  MaxAncestors,   \* MAX_ANCESTOR_DEPTH
  SshAdd,         \* the trusted ssh-add
  MaxNow, MigrationDuration, ReadDuration, LoadDuration

ASSUME EngineAssumption ==
  /\ SshAdd \in Exe
  /\ {MaxNow, MaxAncestors, MigrationDuration, ReadDuration, LoadDuration}
       \subseteq Nat \ {0}

VARIABLES
  now,                            \* the wall clock, in seconds
  cache,                          \* identity_cache, by pid
  migration, sshLoad, sshRead     \* the leases

leases == <<migration, sshLoad, sshRead>>
engine == <<cache, migration, sshLoad, sshRead>>

-----------------------------------------------------------------------------
(***************************************************************************)
(* What /proc shows.                                                       *)
(***************************************************************************)
\* The walk ends where a parent has exited and left its child to init.
LiveAncestors(i) ==
  LET depth == Max({n \in 0..Len(Lineage[i]) :
                      n <= MaxAncestors /\ \A k \in 1..n : Lineage[i][k] \in Live})
  IN  [k \in 1..depth |-> Seen(Lineage[i][k])]

Observe(i) == [self |-> Seen(i), ancestors |-> LiveAncestors(i)]

-----------------------------------------------------------------------------
(***************************************************************************)
(* Identities.  What resolve_process returns stays in the cache.           *)
(***************************************************************************)
Fresh(pid) ==
  IF At(pid) = {} THEN None ELSE Observe(CHOOSE i \in At(pid) : TRUE)

\* A hit needs the start time the pid has now; an exec does not change it.
Resolve(pid) ==
  IF At(pid) # {} /\ cache[pid] # None /\ cache[pid].self.inst \in At(pid)
  THEN cache[pid]
  ELSE Fresh(pid)

Remember(pid, id) == cache' = [cache EXCEPT ![pid] = id]

-----------------------------------------------------------------------------
(***************************************************************************)
(* Deciding an access.                                                     *)
(***************************************************************************)

\* The identity itself, or its closest ancestor, that runs e.
Closest(id, e) ==
  LET found == {k \in DOMAIN id.ancestors : id.ancestors[k].exe = e}
  IN  CASE id.self.exe = e                 -> id.self
        [] id.self.exe # e /\ found # {}   -> id.ancestors[Min(found)]
        [] OTHER                           -> None

\* refresh_migration_states, lease by lease: a bound lease dies with its root,
\* an armed one binds to the first process of its executable to open its profile.
RefreshLease(l, r, id) ==
  IF l.state = "bound" /\ ~Alive(l.root)
  THEN [l EXCEPT !.state = "dead"]
  ELSE IF l.state = "armed" /\ InScope(l, r, id) /\ Closest(id, l.exe) # None
       THEN [l EXCEPT !.state = "bound", !.root = Closest(id, l.exe)]
       ELSE l

Refreshed(r, id) == [k \in DOMAIN migration |-> RefreshLease(migration[k], r, id)]

\* refresh_ssh_read_leases
RefreshedReads ==
  [k \in DOMAIN sshRead |->
     [sshRead[k] EXCEPT !.revoked = @ \/ ~Alive(sshRead[k].root)]]

\* The refresh asks a resource for its browser once an armed lease of the
\* opener's uid is met; an SSH key has none, and the expect panics.
RefreshPanics(r, id) ==
  /\ KindOf[r] = "ssh"
  /\ \E k \in DOMAIN migration :
       migration[k].state = "armed" /\ migration[k].uid = UidOfIdentity(id)

\* A load lease only serves an ssh-add that talks to the agent it was given for.
Judgement(r, id) ==
  LET decision == Evaluate(r, id, Refreshed(r, id), sshLoad, RefreshedReads, now)
  IN  IF /\ decision.kind = "bySshLoad"
         /\ AgentOf[id.self.inst] # sshLoad[decision.lease].agent
      THEN Plain("askSsh")
      ELSE decision

\* Mutant: the load lease is not used up.
ApplyUnused(r, id) ==
  /\ migration' = Refreshed(r, id)
  /\ sshRead' = RefreshedReads
  /\ UNCHANGED sshLoad

\* What decide_protected changes: a load lease is used up by the read it allows.
Apply(r, id) ==
  /\ migration' = Refreshed(r, id)
  /\ sshRead' = RefreshedReads
  /\ sshLoad' = IF Judgement(r, id).kind = "bySshLoad"
                THEN [sshLoad EXCEPT ![Judgement(r, id).lease].used = TRUE]
                ELSE sshLoad

-----------------------------------------------------------------------------
(***************************************************************************)
(* What a prompt is about, and its approval.                               *)
(***************************************************************************)

\* target_browser_root: the topmost ancestor with the target's executable.
BrowserRoot(id) ==
  LET same == {k \in DOMAIN id.ancestors : id.ancestors[k].exe = id.self.exe}
  IN  IF same = {} THEN id.self ELSE id.ancestors[Max(same)]

MigrationDetails(r, id) ==
  [target |-> id.self, root |-> BrowserRoot(id), profile |-> ProfileOf[r]]

MayAskMigration(r, id, browser) ==
  /\ IsTrustedBrowser(id)
  /\ BrowserOfIdentity(id) = browser
  /\ UidOfIdentity(id) = OwnerOf[r]

SshDetails(r, id) == [target |-> id.self, res |-> r]

Expiry(duration) == IF now + duration > MaxNow THEN MaxNow ELSE now + duration

MayMigrate(d, current) == MayLease(d, current) /\ Alive(d.root)

\* Mutants: the cached identity of the target is good enough.
ApproveMigrationCached(d, ok) ==
  /\ ok = MayMigrate(d, Resolve(PidOf[d.target.inst]))
  /\ migration' = IF ok THEN Append(migration, BoundLease(d, Expiry(MigrationDuration))) ELSE migration
  /\ UNCHANGED <<cache, sshLoad, sshRead>>

ApproveReadCached(d, ok) ==
  /\ ok = MayRead(d, Resolve(PidOf[d.target.inst]))
  /\ sshRead' = IF ok THEN Append(sshRead, ReadLease(d, Expiry(ReadDuration))) ELSE sshRead
  /\ UNCHANGED <<cache, migration, sshLoad>>

\* Both approvals drop the cached identity of the target first.
ApproveMigration(d, ok) ==
  LET pid == PidOf[d.target.inst]
  IN  /\ ok = MayMigrate(d, Fresh(pid))
      /\ Remember(pid, Fresh(pid))
      /\ migration' = IF ok THEN Append(migration, BoundLease(d, Expiry(MigrationDuration))) ELSE migration
      /\ UNCHANGED <<sshLoad, sshRead>>

ApproveRead(d, ok) ==
  LET pid == PidOf[d.target.inst]
  IN  /\ ok = MayRead(d, Fresh(pid))
      /\ Remember(pid, Fresh(pid))
      /\ sshRead' = IF ok THEN Append(sshRead, ReadLease(d, Expiry(ReadDuration))) ELSE sshRead
      /\ UNCHANGED <<migration, sshLoad>>

-----------------------------------------------------------------------------
(***************************************************************************)
(* Leases a user asks for, and revocation.                                 *)
(***************************************************************************)

\* authorize_migration: bound to no process yet, only to an executable.
Arm(profile, e, uid) ==
  /\ migration' = Append(migration,
       [profile |-> profile, target |-> BrowserOfExe[e], uid |-> uid,
        state |-> "armed", exe |-> e, root |-> None,
        expires |-> Expiry(MigrationDuration), revoked |-> FALSE])
  /\ UNCHANGED <<cache, sshLoad, sshRead>>

\* authorize_ssh_load: for the ssh-add a stopped child is about to become.
AuthorizeLoad(r, uid, child, agent) ==
  /\ sshLoad' = Append(sshLoad,
       [res |-> r, uid |-> uid, agent |-> agent,
        target |-> [exe |-> SshAdd, start |-> StartOf[child]],
        expires |-> Expiry(LoadDuration), revoked |-> FALSE, used |-> FALSE])
  /\ UNCHANGED <<cache, migration, sshRead>>

\* revoke_lease
RevokeMigration(k) ==
  /\ migration' = [migration EXCEPT ![k].revoked = TRUE]
  /\ UNCHANGED <<cache, sshLoad, sshRead>>

RevokeLoad(k) ==
  /\ sshLoad' = [sshLoad EXCEPT ![k].revoked = TRUE]
  /\ UNCHANGED <<cache, migration, sshRead>>

RevokeRead(k) ==
  /\ sshRead' = [sshRead EXCEPT ![k].revoked = TRUE]
  /\ UNCHANGED <<cache, migration, sshLoad>>
=============================================================================
