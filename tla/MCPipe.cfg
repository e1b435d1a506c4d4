SPECIFICATION FairSpec
CONSTANTS
  p1 = p1
  p2 = p2
  p3 = p3
  a = a
  Threads = {p1, p2, p3}
  Creator = p1
  Items = {a}
  MAX_BBQ_SIZE = 1
  MaxInserts = 2
  MaxCount = 2
  NULL = NULL
INVARIANTS OpenWhileHeld EofFinal
PROPERTY DrainReturns
CHECK_DEADLOCK FALSE
