SPECIFICATION FairSpec
CONSTANTS
  w1 = w1
  w2 = w2
  Workers = {w1, w2}
  Streams <- AnyStream
  MaxHeader = 4
  MaxBody = 2
  MaxPipeline = 2
INVARIANTS
  UnderstoodUncut
  ErrorCloses
  RepliesMatch
  LimitIsBacklog
PROPERTIES
  AllAnswered
