SPECIFICATION Spec
CONSTANT MaxFaults = 2
INVARIANTS
  
  NothingLeft
CHECK_DEADLOCK FALSE
