\* Three calls of Scrape making two different searches: every interleaving of
\* followers, waiting leaders, failures and the repeats after them.
CONSTANTS
  Requests = {r1, r2, r3}
  Keys = {k1, k2}
  MinScrapeInterval = 2
  MinScrapeSpacing = 1
  MaxScrapeWait = 1
  MaxScrapeBackoff = 1
  AskUntil = 2
  None = None

SPECIFICATION FairSpec

\* Every request has asked and been answered: nothing is left to happen.
CHECK_DEADLOCK FALSE

INVARIANT Coordinated
INVARIANT SlotsSpaced
PROPERTY BackoffHonoured
PROPERTY RepeatsSuppressed
PROPERTY KeepsPromise
PROPERTY EveryCallReturns
