SPECIFICATION Spec
CONSTANTS
  t1 = t1
  t2 = t2
  uploader = uploader
  user = user
  a1 = a1
  p1 = p1
  o1 = o1
  NoKey = NoKey
  Handlers = {uploader, user}
  Calls <- MCCalls
  Baked <- MCBaked
  MaxBundleBytes = 8
  MaxPreviews = 2
  DefaultLimit = 1
  MaxLimit = 2
  MaxPages = 2
  MaxLines = 1
  DocumentBytes = 2
  PreviewBytes = 1
  Keys = {a1, p1, o1}
  Tenants = {t1, t2}
  TenantOf <- MCTenantOf
  KindOf <- MCKindOf
  Sizes <- MCSizes
  Ttl <- MCTtl
  MaxTenantBytes = 16
  MaxStoreBytes = 16
  MaxTenantEntries = 3
  MaxStoreEntries = 2
  MaxTime = 1
  MaxFiles = 5
  LongNames = {"long"}
  OddNames = {"odd"}
  PaddedNames = {"padded "}
  BlockBytes = 1
  OverheadBytes = 17
  WordyNames = {"wordy"}
  TextNames = {"main.typ", "template.toml", "schema.json", "fixture.json", "fixture.body.typ"}
  FontNames = {"font.ttf"}
  ReservedNames = {"__main.typ", "__body.typ", "__own"}
  DotNames = {".git"}
  Identifiers = {"doc", "red", "warm"}
  Dates = {}
  GeneratedBytes = 1
INVARIANT
  AcceptedTemplatesRender
