SPECIFICATION Spec
CONSTANTS
  Templates <- SmallTemplates
  Messages <- SmallMessages
  Digits = {"1", "2"}
  LowerNames = {"a", "b"}
INVARIANT TypeOK
INVARIANT FitsMeansTaken
INVARIANT NoNeedlessRefusal
INVARIANT EveryTemplateSendable
CHECK_DEADLOCK FALSE
