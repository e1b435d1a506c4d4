SPECIFICATION BBQFairSpec
CONSTANTS
  t1 = t1
  t2 = t2
  t3 = t3
  t4 = t4
  a = a
  b = b
  Threads = {t1, t2, t3, t4}
  Items = {a, b}
  MAX_BBQ_SIZE = 2
  MaxInserts = 4
  NULL = NULL
INVARIANT NoSleeperForgotten
PROPERTY ImplementsFifo
CHECK_DEADLOCK FALSE
