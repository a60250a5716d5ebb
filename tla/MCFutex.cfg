SPECIFICATION LiveSpec
CONSTANTS
  t1 = t1
  t2 = t2
  t3 = t3
  x = x
  y = y
  j = j
  Threads = {t1, t2, t3}
  Words = {x, y, j}
  Values = {0, 1}
  Buckets = {1, 2}
  Bits = {1, 2}
  Loads <- MCLoads
INVARIANTS EntriesFindable SleeperWakeable StoreSeen
PROPERTY JoinReturns
CHECK_DEADLOCK FALSE
