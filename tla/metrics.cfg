SPECIFICATION Spec
CONSTANTS
  t1 = t1
  t2 = t2
  t3 = t3
  Threads = {t1, t2, t3}
  MaxRequests = 4
  MaxTime = 3
  Word = 64
SYMMETRY Symmetry
INVARIANT
  RateIsPlausible
