CONSTANTS
  s1 = s1
  s2 = s2
  Scrapes = {s1, s2}
  Gap = 1
  Definitions <- MCDefinitions
  Clients = {"c1", "c2"}
  HasRetention = TRUE
SPECIFICATION MCSpec
INVARIANT VerdictEarned
INVARIANT SweepsOpenStore
PROPERTY Paced
PROPERTY EveryScrapeEnds
PROPERTY StopEnds
CHECK_DEADLOCK FALSE
