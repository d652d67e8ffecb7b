SPECIFICATION FairSpec
CONSTANTS
  Runs = {r1}
  Cleaners = {}
  Expirers = {}
  Params <- MCParams
  StreamBytes <- MCStreamBytes
  MaxChunks = 3
  Parallel = 2
  MaxFaults = 3
  Absent = Absent
PROPERTIES
  EventuallyArchived
