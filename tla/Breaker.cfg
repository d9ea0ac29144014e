SPECIFICATION FairSpec
CONSTANTS
  Callers = {c1, c2, c3, c4}
  MaxFailures = 2
  Timeout = 2
  ResetTimeout = 2
  MaxHalfOpenRequests = 2
INVARIANT TypeOK
INVARIANT TrialSlots
INVARIANT CountHonest
PROPERTY OpenPeriodNotExtended
PROPERTY ContractImplemented
PROPERTY Recovery
PROPERTY RefusedIsServed
