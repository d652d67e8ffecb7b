SPECIFICATION FairSpec
CONSTANTS
  NumChunks = 3
  Parallel = 2
  Retries = 1
  Left = {0}
  MaxFailing = 1
  Lease = 7
  LeaseRefresh = 1
  Skew = 1
  SetupMax = 1
  ReadMax = 1
  RoomMax = 1
  PutMax = 1
  DrainMax = 1
  CommitMax = 1
INVARIANTS
  TypeOK
  LeaseHeld
  CommittedIsWhole
  BuffersBounded
  
PROPERTIES
  RunEnds
CHECK_DEADLOCK FALSE
