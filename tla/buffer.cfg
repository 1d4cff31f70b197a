SPECIFICATION Spec
CONSTANTS
  Initial = 4
  Chunk = 2
  Threshold = 8
  MaxSize = 16
  MaxBytes = 18
INVARIANTS
  TypeOK
  HoldsStream
  ShortOnlyIfStranded
CHECK_DEADLOCK FALSE
