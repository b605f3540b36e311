SPECIFICATION Spec
CONSTANTS
  c1 = c1
  c2 = c2
  c3 = c3
  kOut = kOut
  kOut2 = kOut2
  kTpl = kTpl
  kAst = kAst
  t1 = t1
  t2 = t2
  Clients = {c1, c2}
  Reaper = Reaper
  Opener = Opener
  Free = Free
  NoKey = NoKey
  Keys = {kOut, kTpl}
  Tenants = {t1, t2}
  TenantOf <- OneTenant
  KindOf <- KindOfKeys
  MainName <- MainNames
  Previews = {"page-1.png"}
  Sizes = {1}
  Ttl <- TtlOfKinds
  MaxTenantBytes = 2
  MaxStoreBytes = 2
  MaxTenantEntries = 2
  MaxStoreEntries = 1
  MaxTime = 1
  MaxRestarts = 1
  MaxIoErrors = 2
INVARIANTS
  TypeOK
  StoreBounded
  Recoverable
  GoneForGood
PROPERTIES
  GrowthWithinQuota
  ImplementsObjectStore
CHECK_DEADLOCK FALSE
SYMMETRY ClientSymmetry
