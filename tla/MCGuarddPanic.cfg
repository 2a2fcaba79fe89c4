CONSTANTS
  c1 = c1
  c2 = c2
  w = w
  n = n
  s = s
  a = a
  b = b
  chrome = chrome
  shell = shell
  sshadd = sshadd
  C = C
  F = F
  f1 = f1
  key = key
  alice = alice
  bob = bob
  root = root
  a1 = a1
  a2 = a2
  p1 = p1
  p2 = p2
  p3 = p3
  None = None
  Proc = {c1, s}
  Exe = {chrome, shell, sshadd}
  Browser = {C, F}
  Profile = {f1}
  Resource = {f1, key}
  Uid = {alice, bob, root}
  Agent = {a1, a2}
  PidOf <- MCPidOf
  StartOf <- MCStartOf
  UidOf <- MCUidOf
  AgentOf <- MCAgentOf
  BrowserOfExe <- MCBrowserOfExe
  TrustedExe = {chrome, sshadd}
  BrowserOf <- MCBrowserOf
  KindOf <- MCKindOf
  ProfileOf <- MCProfileOf
  OwnerOf <- MCOwnerOf
  Lineage <- MCLineage
  MaxAncestors = 2
  BirthExe <- MCBirthExe
  Scenario <- PanicScenarios
  SshAdd = sshadd
  MaxNow = 2
  MigrationDuration = 1
  ReadDuration = 1
  LoadDuration = 1
  Perm = {p1}
  Root = root
  Timeout = 1
  MaxRequests = 2
  MaxPermissions = 2
  BlockSuppression = 1
  ApprovalGrace = 1
  MaxRecent = 1
SPECIFICATION Spec
INVARIANTS
  NeverPanics
