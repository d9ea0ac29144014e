SPECIFICATION Spec
CONSTANTS
  Configs <- SmallConfigs
  Emails <- SmallEmails
  Backoffs <- SmallBackoffs
  Width = 5
  DefaultMax = 4
  MaxAttempts = 2
  MaxVersion = 1
INVARIANT DialFailureIsTemporary
CHECK_DEADLOCK FALSE
