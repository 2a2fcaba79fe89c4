CONSTANTS
  cookies = cookies
  temp = temp
  key = key
  outside = outside
  profile = profile
  browser = browser
  other = other
  None = None
  File = {cookies, temp, key, outside}
  Dir = {profile}
  Contents <- MCContents
  Elsewhere <- MCElsewhere
  SshPath = {key}
  ProtectedPath = {cookies}
  ProfileOf <- MCProfileOf
  Selected = {cookies, temp, key, profile}
  Process = {browser, other}
  TrustedFor <- MCTrustedFor
  Layout <- MCLayout
  MaxIno = 4
  AliasCapacity = 1
  MaxOps = 4
  MaxFaults = 1
CHECK_DEADLOCK FALSE
SPECIFICATION IndexSpec
INVARIANTS
  IndexIsTrueWhenSettled
