SPECIFICATION Spec
CONSTANTS
  Streams <- TwoStreams
  SliceLens = {2, 23}
  Base = 4
INVARIANTS
  TypeOK
  SumOfTheStream
  JudgedByItsLength
  DamageCaught
\* The parser stops when the stream has ended or is refused.
CHECK_DEADLOCK FALSE
