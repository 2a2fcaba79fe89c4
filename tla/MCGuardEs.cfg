CONSTANTS
  c1 = c1
  c2 = c2
  w = w
  n = n
  s = s
  chrome = chrome
  firefox = firefox
  shell = shell
  backup = backup
  C = C
  F = F
  f1 = f1
  m1 = m1
  key = key
  alice = alice
  bob = bob
  root = root
  a1 = a1
  x1 = x1
  x2 = x2
  p1 = p1
  p2 = p2
  p3 = p3
  None = None
  Proc = {c1, c2, w, n, s}
  Exe = {chrome, firefox, shell, backup}
  Browser = {C, F}
  Profile = {f1}
  Resource = {f1, m1, key}
  Uid = {alice, bob, root}
  Agent = {a1}
  PidOf <- MCPidOf
  StartOf <- MCStartOf
  UidOf <- MCUidOf
  AgentOf <- MCAgentOf
  BrowserOfExe <- MCBrowserOfExe
  TrustedExe = {chrome, firefox}
  BrowserOf <- MCBrowserOf
  KindOf <- MCKindOf
  ProfileOf <- MCProfileOf
  OwnerOf <- MCOwnerOf
  Lineage <- MCLineage
  MaxAncestors = 2
  BirthExe <- MCBirthExe
  Scenario <- MCScenarios
  Perm = {p1, p2, p3}
  Root = root
  Xpc = {x1, x2}
  Critical = {f1}
  MaxFiles = 1
  MaxNow = 2
  MigrationDuration = 2
  ReadDuration = 1
  Timeout = 1
  MaxRequests = 2
  MaxPermissions = 2
  BlockSuppression = 1
  ApprovalGrace = 1
  MaxRecent = 1
SYMMETRY Symmetry
SPECIFICATION Spec
INVARIANTS
  OneHand
  WriteOnlyToOwn
  LeaseHasItsOpens
PROPERTIES
  GateSpec
  StalePromptStaysShut
