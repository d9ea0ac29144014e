SPECIFICATION FairSpec
CONSTANTS
  Slots = 4
  PageSize = 1
  MaxPages = 3
INVARIANT TypeOK
INVARIANT AnswerIsARead
INVARIANT FailsOnlyForCause
PROPERTY Ends
CHECK_DEADLOCK FALSE
