CONSTANTS
  Trackers = {t1, t2, t3}
  Tested = {}
  Workers = {w1, w2}
  Sessions = {s1, s2, s3}
  MaxFlareSessions = 1
  MaxFailures = 1
  MaxRestarts = 0
  LateRequests = FALSE
  None = None

SPECIFICATION Spec
SYMMETRY Symmetric

INVARIANT SessionsBounded
