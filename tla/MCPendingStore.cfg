CONSTANTS
  p1 = p1
  p2 = p2
  p3 = p3
  p4 = p4
  k1 = k1
  k2 = k2
  k3 = k3
  s1 = s1
  s2 = s2
  alice = alice
  bob = bob
  root = root
  Perm = {p1, p2, p3, p4}
  Details = {k1, k2, k3}
  Key = {k1, k2, k3}
  Scope = {s1, s2}
  Uid = {alice, bob, root}
  Root = root
  KeyOf <- MCKeyOf
  ScopeOf <- MCScopeOf
  OwnerOfKey <- MCOwnerOfKey
  MaxNow = 3
  Timeout = 2
  MaxRequests = 2
  MaxPermissions = 2
  BlockSuppression = 2
  ApprovalGrace = 1
  MaxRecent = 1
SYMMETRY PermSymmetry
SPECIFICATION Spec
INVARIANTS
  TypeOK
  OneRequestPerKey
  HeldByOneRequest
  NoPromptWhileBlocked
PROPERTIES
  AnsweredOnce
