SPECIFICATION ReliableSpec
CONSTANTS
  Callers = {c1, c2}
  TTL = 2
  ListMinInterval = 1
SYMMETRY CallerSymmetry
PROPERTY RefusedOnlyWhileNew
