SPECIFICATION Spec
VIEW AllButAnswer
SYMMETRY SessionSymmetry
CONSTANTS
  MinSecretBytes = 32
  LoopbackHosts = {"localhost"}
  MaxSeconds = 100000
  DefaultLinkTtl = 3
  DefaultSessions = 2
  TokenOf <- MCTokenOf
  Published = {"kid", "long"}
  LongKids = {"long"}
  Skew = 1
  PendingTtl = 2
  ChallengeOf <- MCChallengeOf
  LongValues = {"long"}
  Environments <- MCEnvironments
  ClientRequests <- MCClientRequests
  Redirects <- MCRedirects
  Verifiers = {"v1", "v2", "short"}
  Headers <- MCHeaders
  Visitors <- MCVisitors
  Registrations <- MCRegistrations
  Docs <- MCDocs
  Wishes = {2}
  SessionIds = {i1, i2}
  Openers = {"alex", "blake"}
  NoId = NoId
  MaxTime = 2
  MaxOutstanding = 3
INVARIANTS
  TypeOK
  SessionsWithinCap
PROPERTIES
  RelaysExactly
  ServedAsThemselves
  DownloadsJustified
