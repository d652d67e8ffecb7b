SPECIFICATION PunctualSpec
CONSTANTS
  Runs = {r1}
  Cleaners = {c1}
  Expirers = {}
  Params <- MCTwoParams
  StreamBytes <- MCStreamBytes
  MaxChunks = 2
  Parallel = 2
  MaxFaults = 0
  Absent = Absent
PROPERTY CleanSparesBackups
