SPECIFICATION Spec
CONSTANTS
  NumKeys = 2
  PageSize = 2
  MaxDepth = 3
  Depth <- DeepAndShallow
  MaxOthers = 1
  MaxPurges = 2
INVARIANTS
  TypeOK
  
  LateWritesSurvive
PROPERTIES
  StaysHidden
CHECK_DEADLOCK FALSE
