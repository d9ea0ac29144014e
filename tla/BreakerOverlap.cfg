SPECIFICATION Spec
CONSTANTS
  Callers = {c1, c2, c3}
  MaxFailures = 1
  Timeout = 1
  ResetTimeout = 1
  MaxHalfOpenRequests = 1
SYMMETRY CallerSymmetry
INVARIANT TrialsInFlightBounded
