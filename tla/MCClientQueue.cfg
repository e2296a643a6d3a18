SPECIFICATION FairSpec
CONSTANTS
  Rates <- MCRates
  Clients <- MCClients
  MAX_CLIENT_NUM = 3
INVARIANTS TypeOK NoGaps
PROPERTIES ScanEnds ImplementsPollList
