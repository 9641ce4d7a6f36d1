CONSTANTS
  Clients = {c1, c2}
  JsonClients = {c2}
  t1 = t1
  t2 = t2
  k1 = k1
  k2 = k2
  Trackers = {t1, t2}
  Keys = {k1, k2}
  Releases = {r1}
  Handles <- MCHandles
  Questions <- MCQuestions
  MaxConcurrent = 1
  Limit = 1
  All = all
  Unknown = unknown
  Library = library
  None = none
SPECIFICATION SearchSpec
PROPERTIES OnlyItsOwnRows FreshResultsAnswered UsesContract EverySearchAnswered
CHECK_DEADLOCK FALSE
