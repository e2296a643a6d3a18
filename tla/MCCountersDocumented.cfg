SPECIFICATION Spec
CONSTANTS
  Kinds <- Cumulated
  IntBits = 3
  LongBits = 4
  Hundred = 2
  Factor = 1
  MaxReadings = 4
PROPERTIES CumulatedAsDocumented
CHECK_DEADLOCK FALSE
