SPECIFICATION Spec
CONSTANTS
  Callers = {c1, c2}
  MaxFailures = 2
  Timeout = 1
  ResetTimeout = 1
  MaxHalfOpenRequests = 1
SYMMETRY CallerSymmetry
PROPERTY OpensOnRecentFailures
