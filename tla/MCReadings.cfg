CONSTANTS
  Parts = {"definitions", "panel", "settings", "log", "windows",
           "query", "download", "rows", "torrent file", "date", "sign-in", "json", "identity"}
  Files = {1, 2}
  Ids = {"i1", "i2"}
  Contents <- MCContents
  MaxEdits = 4
  Broken = broken
  Browsers = {"b1", "b2"}
  Tokens = {"k1", "k2"}
  Lifetime = 1
  IdleTimeout = 1
  LoginDelay = 1
  PanelEnd = 3
  Proxy = "proxy"
  Claims <- MCClaims
  Savers = {"p1", "p2"}
  Readers = {"r1"}
  OldIds <- MCOldIds
  Kinds <- MCKinds
  HasFlare = FALSE
  IsTested = TRUE
  Values = {"a"}
  Retained = 3
  Cap = 1
  MaxRecords = 6
  Prompts = {"p1"}
  MaxInstances = 2
  HashSetting = "hash"
  OtherSettings = {"DatabasePath"}
  Definitions <- MCDefs
  Standard <- MCStandard
  Listing <- MCListing
  Filed <- MCFiled
  Requests <- MCRequests
  OwnHosts = {"tracker","cdn.tracker"}
  Links <- MCLinks
  Rows <- MCRows
  Blocks <- MCBlocks
  MaxRedirects = 3
  Layouts <- MCLayouts
  Site <- MCSite
  Searches <- MCSearches
  Shown <- MCShown
  MaxPeers = 500
  MaxLong = 2000
  Bodies <- MCBodies
  MaxDepth = 3
  MaxIntegerDigits = 3
  MaxInteger = 127
  MaxLengthDigits = 2
  Texts <- MCTexts
  Months <- MCMonths
  LeapMonth = 1
  LeapYears = {1}
  DayHours = 4
  Week = 7
  Summer <- MCSummer
  Units <- MCUnits
  LastYear = 4
  DateStart = 56
  DateEnd = 160
  Logins <- MCLogins
  Pages <- MCPages
  KeyOrder <- MCKeyOrder
  Documents <- MCDocuments
  RowSpecs <- MCRowSpecs
  FieldTrees <- MCFieldTrees
  Asks <- MCAsks
  Requesters <- MCRequesters
  AirDays = {"03/15"}
  MaxAsks = 2
SPECIFICATION ReadingsSpec
INVARIANT LastGoodServed
INVARIANT ReadsOneSave
INVARIANT Recoverable
INVARIANT OffersTaken
INVARIANT NarrowedAsWritten
INVARIANT StaysHome
INVARIANT RowsAsShown
INVARIANT SaysTheSame
INVARIANT ShownDateKept
INVARIANT PostsTheForm
INVARIANT ReadAsMeant
INVARIANT AnsweredAsAsked
PROPERTY LookupsCurrent
PROPERTY SessionsEnd
PROPERTY AttemptsSpaced
PROPERTY SaveTakesEffect
PROPERTY OnlyOldestLost
PROPERTY EveryInstanceAsked
CHECK_DEADLOCK FALSE
