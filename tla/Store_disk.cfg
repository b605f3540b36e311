SPECIFICATION Spec
CONSTANTS
  c1 = c1
  c2 = c2
  c3 = c3
  kOut = kOut
  kOut2 = kOut2
  kTpl = kTpl
  kAst = kAst
  t1 = t1
  t2 = t2
  Clients = {c1}
  Reaper = Reaper
  Opener = Opener
  Free = Free
  NoKey = NoKey
  Keys = {kOut, kTpl, kAst}
  Tenants = {t1, t2}
  TenantOf <- TenantOfKeys
  KindOf <- KindOfKeys
  MainName <- MainNames
  Previews = {"page-1.png"}
  Sizes = {1}
  Ttl <- TtlOfKinds
  MaxTenantBytes = 2
  MaxStoreBytes = 2
  MaxTenantEntries = 2
  MaxStoreEntries = 2
  MaxTime = 1
  MaxRestarts = 0
  MaxIoErrors = 1
INVARIANTS
  DiskBounded
CHECK_DEADLOCK FALSE
