SPECIFICATION FairSpec
CONSTANTS
  MaxReactors = 3
  Limit = 2
  MaxAccept = 2
  MaxClients = 5
  MaxErrors = 1
INVARIANTS
  Accounting
  Balanced
  NothingToStopped
PROPERTIES
  ShutdownReturns
  BacklogDrains
