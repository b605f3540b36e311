SPECIFICATION Spec
CONSTANTS
  r1 = r1
  r2 = r2
  r3 = r3
  k1 = k1
  k2 = k2
  junk = junk
  Requests = {r1, r2}
  Free = Free
  Kids = {k1, junk}
  ProviderKids = {k1}
  Ttl = 3
  RefreshInterval = 2
  FailureBackoff = 1
  UnknownTtl = 2
  UnknownCap = 1
  FetchTimeout = 1
  ProviderMayFail = FALSE
  MaxRotations = 2
PROPERTIES
  OneRefreshPerWindow
CHECK_DEADLOCK FALSE
