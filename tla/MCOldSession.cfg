CONSTANTS
  Parts = {"settings"}
  Files = {1, 2}
  Ids = {"i1", "i2"}
  Contents <- MCContents
  MaxEdits = 4
  Broken = broken
  Browsers = {"b1", "b2"}
  Tokens = {"k1", "k2"}
  Lifetime = 1
  IdleTimeout = 1
  LoginDelay = 1
  PanelEnd = 3
  Proxy = "proxy"
  Claims <- MCClaims
  Savers = {"p1"}
  Readers = {"r1"}
  OldIds <- MCNoOldIds
  Kinds <- MCKinds
  HasFlare = FALSE
  IsTested = FALSE
  Values = {"a", "b"}
  Retained = 3
  Cap = 1
  MaxRecords = 6
  Prompts = {"p1"}
  MaxInstances = 2
  HashSetting = "hash"
  OtherSettings = {"DatabasePath"}
SPECIFICATION MCSpec
INVARIANT OldSessionUntrusted
CHECK_DEADLOCK FALSE
