SPECIFICATION ReportSpec
CONSTANTS
  clientsCount = 4
  Clients <- SomeClients
  Protocol <- TheProtocol
  DataType <- TheDataType
  Computed <- SomeComputed
  NarrowTime = TRUE
  Values = {1, 2}
  MaxScale = 2
  CLIENT_POS = 1
  MAX_BUF = 14
  DATA_MAX_LINE_LEN = 4
  LineLengths <- Lengths
INVARIANTS ReportTypeOK InBuffer SuccessIsTrue
