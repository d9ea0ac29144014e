SPECIFICATION Spec
CONSTANTS
  Configs <- SmallConfigs
  Emails <- SmallEmails
  Backoffs <- SmallBackoffs
  Width = 5
  DefaultMax = 4
  MaxAttempts = 3
  MaxVersion = 2
INVARIANT TypeOK
INVARIANT SentAsRendered
INVARIANT CopiesAreWhole
INVARIANT NoSelfConflict
INVARIANT NothingInTheClear
INVARIANT WaitInRange
PROPERTY DeliveryImplemented
CHECK_DEADLOCK FALSE
