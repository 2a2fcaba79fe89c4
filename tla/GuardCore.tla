----------------------------- MODULE GuardCore ------------------------------
(***************************************************************************)
(* The portable domain of crates/guard-core: process identities, protected *)
(* resources, leases, and the policy that decides an access from them      *)
(* (policy.rs).  Everything here is a function of its arguments; the       *)
(* daemons own the state it is applied to.                                 *)
(*                                                                         *)
(* A member of Proc is one process instance: a pid and a start time.       *)
(* Executables stand for (path, device, inode), and a profile for the pair *)
(* of a browser id and a profile id.                                       *)
(***************************************************************************)
EXTENDS Naturals, Sequences, FiniteSetsExt

CONSTANTS
  Proc, Exe, Browser, Profile, Resource, Uid, Agent,
  None,             \* an absent value
  PidOf, StartOf,   \* what /proc says of an instance
  UidOf, AgentOf,   \* its uid, and the SSH_AUTH_SOCK of its environment
  BrowserOfExe,     \* the configured browser of an executable, or None
  TrustedExe,       \* root-owned and not writable by others, or enrolled
  BrowserOf,        \* the browser a profile belongs to
  KindOf,           \* "browser" or "ssh"
  ProfileOf,        \* the profile of a browser resource, None for a key
  OwnerOf           \* the uid that owns a resource

ASSUME CoreAssumption ==
  /\ StartOf \in [Proc -> Nat]
  /\ UidOf \in [Proc -> Uid]
  /\ AgentOf \in [Proc -> Agent]
  /\ None \notin Browser \union Profile \union Proc \union Resource
  /\ BrowserOfExe \in [Exe -> Browser \union {None}]
  /\ TrustedExe \subseteq Exe
  /\ BrowserOf \in [Profile -> Browser]
  /\ KindOf \in [Resource -> {"browser", "ssh"}]
  /\ ProfileOf \in [Resource -> Profile \union {None}]
  /\ \A r \in Resource : KindOf[r] = "browser" <=> ProfileOf[r] \in Profile
  /\ OwnerOf \in [Resource -> Uid]

\* A pid names one instance at a time and is reused with a later start time.
ASSUME InstanceAssumption ==
  \A i, j \in Proc : PidOf[i] = PidOf[j] /\ StartOf[i] = StartOf[j] => i = j

-----------------------------------------------------------------------------
(***************************************************************************)
(* Identities.                                                             *)
(***************************************************************************)

\* ProcessStableId: an instance and the executable it was seen running.
Stable == [inst : Proc, exe : Exe]

\* ProcessIdentity: its own stable id and its live ancestors, closest first.
Identity == [self : Stable, ancestors : Seq(Stable)]

\* StableIdentity leaves the pid out.
StableIdentityOf(s) == [exe |-> s.exe, start |-> StartOf[s.inst]]

UidOfIdentity(id) == UidOf[id.self.inst]

BrowserOfIdentity(id) == BrowserOfExe[id.self.exe]

IsTrustedBrowser(id) == id.self.exe \in TrustedExe /\ BrowserOfIdentity(id) # None

\* process_is_in_tree
InTree(id, root) ==
  id.self = root \/ \E k \in DOMAIN id.ancestors : id.ancestors[k] = root

-----------------------------------------------------------------------------
(***************************************************************************)
(* Leases.  A set of leases of one kind is the vector the code keeps, and  *)
(* the position of a lease in it stands for its id: vectors only grow.     *)
(***************************************************************************)
MigrationLease ==
  [profile : Profile, target : Browser, uid : Uid,
   state : {"armed", "bound", "dead"}, exe : Exe, root : Stable \union {None},
   expires : Nat, revoked : BOOLEAN]

SshLoadLease ==
  [res : Resource, uid : Uid, target : [exe : Exe, start : Nat], agent : Agent,
   expires : Nat, revoked : BOOLEAN, used : BOOLEAN]

SshReadLease ==
  [res : Resource, uid : Uid, root : Stable, expires : Nat, revoked : BOOLEAN]

-----------------------------------------------------------------------------
(***************************************************************************)
(* Decisions.  The deny reasons are not told apart.                        *)
(***************************************************************************)
Decision ==
  [kind : {"allow", "deny", "askMigration", "askSsh",
           "byMigration", "bySshLoad", "bySshRead"},
   lease : Nat]

Plain(kind) == [kind |-> kind, lease |-> 0]

ByLease(kind, i) == [kind |-> kind, lease |-> i]

Grants(decision) == decision.kind \in {"allow", "byMigration", "bySshLoad", "bySshRead"}

\* A lease concerns an access whatever its state.
InScope(l, r, id) == l.profile = ProfileOf[r] /\ l.uid = UidOfIdentity(id)

\* The loop of decide_browser returns at the first lease that settles it.
Settles(l, id, t) ==
  \/ l.revoked
  \/ t >= l.expires
  \/ l.state = "dead"
  \/ l.state = "bound" /\ InTree(id, l.root)

Settled(l, i, t) ==
  IF l.revoked \/ t >= l.expires \/ l.state = "dead"
  THEN Plain("deny")
  ELSE ByLease("byMigration", i)

DecideBrowser(r, id, leases, t) ==
  LET scoped   == {i \in DOMAIN leases : InScope(leases[i], r, id)}
      settling == {i \in scoped : Settles(leases[i], id, t)}
      first    == Min(settling)
  IN CASE UidOfIdentity(id) # OwnerOf[r] -> Plain("deny")
       [] /\ UidOfIdentity(id) = OwnerOf[r]
          /\ IsTrustedBrowser(id)
          /\ BrowserOfIdentity(id) = BrowserOf[ProfileOf[r]] -> Plain("allow")
       [] OTHER ->
            IF settling # {} THEN Settled(leases[first], first, t)
            ELSE IF scoped = {} /\ IsTrustedBrowser(id) THEN Plain("askMigration")
            ELSE Plain("deny")

LoadApplies(l, r, id, t) ==
  /\ l.res = r
  /\ l.uid = UidOfIdentity(id)
  /\ l.target = StableIdentityOf(id.self)
  /\ ~l.revoked /\ ~l.used /\ t < l.expires

ReadApplies(l, r, id, t) ==
  /\ l.res = r
  /\ l.uid = UidOfIdentity(id)
  /\ ~l.revoked /\ t < l.expires
  /\ InTree(id, l.root)

DecideSsh(r, id, loads, reads, t) ==
  LET load == {i \in DOMAIN loads : LoadApplies(loads[i], r, id, t)}
      read == {i \in DOMAIN reads : ReadApplies(reads[i], r, id, t)}
  IN IF UidOfIdentity(id) # OwnerOf[r] THEN Plain("deny")
     ELSE IF load # {} THEN ByLease("bySshLoad", Min(load))
     ELSE IF read # {} THEN ByLease("bySshRead", Min(read))
     ELSE Plain("askSsh")

\* evaluate: the kind of the resource picks the rules.
Evaluate(r, id, migration, loads, reads, t) ==
  IF KindOf[r] = "ssh"
  THEN DecideSsh(r, id, loads, reads, t)
  ELSE DecideBrowser(r, id, migration, t)

-----------------------------------------------------------------------------
(***************************************************************************)
(* Approvals (crates/guard-runtime): the checks of approve_migration and   *)
(* approve_ssh_read on the identity the target's pid has now, and the      *)
(* leases they push.                                                       *)
(***************************************************************************)
StillTarget(d, current) == current # None /\ current.self = d.target

MayLease(d, current) == StillTarget(d, current) /\ IsTrustedBrowser(current)

MayRead(d, current) ==
  StillTarget(d, current) /\ UidOfIdentity(current) = OwnerOf[d.res]

BoundLease(d, expires) ==
  [profile |-> d.profile, target |-> BrowserOfExe[d.target.exe],
   uid |-> UidOf[d.target.inst], state |-> "bound", exe |-> d.root.exe,
   root |-> d.root, expires |-> expires, revoked |-> FALSE]

ReadLease(d, expires) ==
  [res |-> d.res, uid |-> UidOf[d.target.inst], root |-> d.target,
   expires |-> expires, revoked |-> FALSE]
=============================================================================
