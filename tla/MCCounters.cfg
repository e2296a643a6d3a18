SPECIFICATION Spec
CONSTANTS
  Kinds <- AllKinds
  IntBits = 3
  LongBits = 4
  Hundred = 2
  Factor = 3
  MaxReadings = 9
INVARIANTS TypeOK FullWhenMistaken
PROPERTIES CountsExactly
CHECK_DEADLOCK FALSE
