SPECIFICATION Spec
CONSTANTS
  c1 = c1
  c2 = c2
  Conns = {c1, c2}
  MaxFd = 1
  NoConn = NoConn
INVARIANTS
  ClosedOnce
CHECK_DEADLOCK FALSE
