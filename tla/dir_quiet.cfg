SPECIFICATION QuietSpec
CONSTANTS
  Runs = {r1, r2}
  Cleaners = {c1}
  Expirers = {e1, e2}
  Params <- MCParams
  StreamBytes <- MCStreamBytes
  MaxChunks = 3
  Parallel = 2
  MaxFaults = 3
  Absent = Absent
INVARIANTS
  TypeOK
  ListedIsComplete
  
  UploadsIntact
  OneUploader
PROPERTIES
  CleanSparesSends
  UnlistedOnlyByRetention
  ImplementsBackup
