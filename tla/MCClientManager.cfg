SPECIFICATION Spec
CONSTANTS
  clientsCnt = 6
  Protocol <- AllProtocols
  Device <- AllDevices
  NoContext <- Fifth
  Unreadable <- FourthAndSixth
  DescriptorLimit = 6
INVARIANTS TypeOK ConnectedHasLink PollAnswers HeldCounted
PROPERTIES FlagTellsOutcome OnlyModbusForgets
