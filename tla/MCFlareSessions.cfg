CONSTANTS
  Trackers = {t1, t2}
  Tested = {t1}
  Workers = {w1, w2}
  Sessions = {s1, s2, s3}
  MaxFlareSessions = 1
  MaxFailures = 2
  MaxRestarts = 1
  LateRequests = FALSE
  None = None

SPECIFICATION Spec
SYMMETRY Symmetric

INVARIANT Consistent
INVARIANT Accounted
PROPERTY RequestsUndisturbed
