SPECIFICATION Spec
CONSTANTS
  s1 = s1
  s2 = s2
  Names = {s1, s2}
  LOG_STRING_MAX_NUM = 1
  LOG_FILE_MAX_SIZE = 2
  Descriptors = 4
  MaxLines = 6
INVARIANTS TypeOK LinesKept WriterOpen
