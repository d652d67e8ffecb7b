SPECIFICATION FairSpec
CONSTANTS
  Snaps <- TwoSnaps
  NumChunks <- TwoCounts
  ChunkMiB <- TwoSizes
  Windows = {0, 3}
  MaxFaults = 2
  None = None
  Gone = Gone
INVARIANTS
  TypeOK
  ChainUnbroken
  FedInOrder
  
PROPERTIES
  RunEnds
  RestoredInTheEnd
