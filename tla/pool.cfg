SPECIFICATION FairSpec
CONSTANTS
  w1 = w1
  w2 = w2
  w3 = w3
  s1 = s1
  s2 = s2
  t1 = t1
  t2 = t2
  t3 = t3
  Workers = {w1, w2, w3}
  Submitters = {s1, s2}
  Tasks = {t1, t2, t3}
INVARIANTS
  NoLostWakeup
  OnlyQueuedLost
PROPERTIES
  QueueSpec
  EveryTaskRuns
  DestructorReturns
