CONSTANTS
  Trackers = {t1, t2}
  Identities = {a, b}
  Keys = {k1, k2}
  Dates = {0}
  MaxAge = 0
  BatchSize = 1
  MaxPage = 2
  MaxId = 2
  MaxTime = 1
  None = None

SPECIFICATION Spec
SYMMETRY Symmetric

PROPERTY ClearKeepsFresh
