SPECIFICATION Spec
CONSTANTS
  MaxReactors = 2
  Limit = 0
  MaxAccept = 2
  MaxClients = 2
  MaxErrors = 0
INVARIANT
  ShutdownIsSafe
