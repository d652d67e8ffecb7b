SPECIFICATION OrderlySpec
CONSTANTS
  Snaps <- ThreeSnaps
  DatasetOf <- OneDataset
  NamesOf <- Renamed
  Senders = {s1}
  Expirers = {e1}
  Policies <- Counting
  Scopes = {None, "data"}
  MaxTime = 3
  None = None
CHECK_DEADLOCK FALSE
PROPERTY KeptStayRestorable
