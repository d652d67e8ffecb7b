SPECIFICATION FairSpec
CONSTANTS
  Snaps = {x1, x2}
  Dests = {d1}
  Senders = {s1, s2}
  MaxFaults = 2
  None = None
INVARIANTS
  TypeOK
  HeldWhileRead
PROPERTIES
  
  HoldsReleased
CHECK_DEADLOCK FALSE
