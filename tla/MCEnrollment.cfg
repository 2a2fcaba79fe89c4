CONSTANTS
  profile = profile
  ssh = ssh
  usb = usb
  storage = storage
  site = site
  cookies = cookies
  logins = logins
  data = data
  id1 = id1
  id2 = id2
  File = {cookies, logins, data, id1, id2}
  Dir = {profile, ssh, usb, storage, site}
  Root = {profile, ssh, usb}
  WatchRoot = {profile, ssh}
  Parent <- MCParent
  Marker = cookies
  Critical = {cookies, logins}
  TreeDir = storage
  Key = {id1, id2}
  Configured = {id1}
  Layout <- MCLayout
  None = None
  MaxIno = 11
  MaxChanges = 2
  MaxFaults = 1
  MaxProtects = 1
SPECIFICATION LiveSpec
CHECK_DEADLOCK FALSE
INVARIANTS
  CoveredWhenSettled
PROPERTIES
  RefreshSettles
