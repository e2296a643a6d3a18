SPECIFICATION FairSpec
CONSTANTS
  MAX_CLIENT_NUM = 2
  Rates = {"1s", "1m"}
  Clients <- SomeClients
  MaxTries = 3
INVARIANTS TypeOK ServedInstance Registered ConnectedOnce
PROPERTIES Paced ImplementsService StartsIfAccepted
