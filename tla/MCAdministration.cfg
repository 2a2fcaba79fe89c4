CONSTANTS
  r1 = r1
  r2 = r2
  k = k
  f = f
  a1 = a1
  a2 = a2
  NoConfig = NoConfig
  Rule = {r1, r2, k, f}
  Installed <- MCInstalled
  Offered <- MCOffered
  Keys = {k}
  Applier = {a1, a2}
  MaxFaults = 2
  MaxApplies = 2
  Fixture = f
  Nobody = Nobody
  a = a
  b = b
  c1 = c1
  c2 = c2
  Candidates = {a, b}
  Unusable = {b}
  NoFile = NoFile
  Partial = Partial
  Client = {c1, c2}
  MaxJobs = 2
  MaxServiceFaults = 2
  br = br
  Key = {k}
  Browser = {br}
  NoDraft = NoDraft
  Flight = {1, 2}
  MaxClicks = 3
  MaxUpsets = 1
  MaxSubmissions = 3
  Window = {1}
  Setter = {2}
  MaxSettings = 3
  MaxAgentFaults = 2
SPECIFICATION AdminSpec
CHECK_DEADLOCK FALSE
INVARIANTS
  SelectionCoversPolicy
  RestartFindsAcknowledged
PROPERTIES
  RequestsKeepTheirWord
  
  ApplyIsHonest
  ExtensionReportsAreTrue
  ViewsCatchUp
