SPECIFICATION OrderlySpec
CONSTANTS
  Snaps <- ThreeSnaps
  DatasetOf <- OneDataset
  NamesOf <- Kept
  Senders = {s1}
  Expirers = {e1, e2}
  Policies <- Counting
  Scopes = {None, "data"}
  MaxTime = 3
  None = None
SYMMETRY Symmetry
INVARIANT TypeOK
PROPERTIES
  KeptStayRestorable
  PinsStayRestorable
  BasesStayRestorable
  LatestStays
CHECK_DEADLOCK FALSE
