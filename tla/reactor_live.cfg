SPECIFICATION FairSpec
CONSTANTS
  c1 = c1
  c2 = c2
  f1 = f1
  f2 = f2
  w1 = w1
  w2 = w2
  Conns = {c1}
  Fds = {f1}
  Workers = {w1}
  IdleEnabled = TRUE
  Kinds = {"keep", "line"}
  MaxMsgs <- RequestOrLines
  MaxBuffer = 2
  MaxPipeline = 1
  WakeFd = WakeFd
  TimerFd = TimerFd
  NoConn = NoConn
  NoFd = NoFd
PROPERTIES
  OutputIsFlushed
  AcceptedIsServed
  DeadEntryLeaves
  DescriptorsReturn
  ShutdownReturns
