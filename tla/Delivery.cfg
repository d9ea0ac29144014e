SPECIFICATION FairSpec
CONSTANTS
  Senders = {"smtp", "resend", "meta"}
  Messages = {m1, m2}
  Keyed = {m1}
  MaxAttempts = 2
  MaxHalfOpenRequests = 1
INVARIANT TypeOK
INVARIANT TokensInOrder
INVARIANT BreakerKnowsCalls
INVARIANT SentMeansTaken
INVARIANT PermanentNotTaken
INVARIANT TakenOnce
PROPERTY OpensOnlyOnTemporary
PROPERTY NoCallAfterVerdict
PROPERTY Decided
CHECK_DEADLOCK FALSE
