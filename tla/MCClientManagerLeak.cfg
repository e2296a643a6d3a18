SPECIFICATION Spec
CONSTANTS
  clientsCnt = 1
  Protocol <- OnlyTCP
  Device <- OnePlc
  NoContext <- None
  Unreadable <- None
  DescriptorLimit = 4
INVARIANTS Reconnects
