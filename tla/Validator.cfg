SPECIFICATION FairSpec
CONSTANTS
  Callers = {c1, c2}
  TTL = 2
  ListMinInterval = 1
INVARIANT TypeOK
INVARIANT NoGroundlessRefusal
PROPERTY OneListingPerInterval
PROPERTY ApprovalIsSeen
PROPERTY RevocationIsSeen
