SPECIFICATION FairSpec
CONSTANTS
  p1 = p1
  p2 = p2
  a = a
  Threads = {p1, p2}
  Creator = p1
  Items = {a}
  MAX_BBQ_SIZE = 1
  MaxInserts = 1
  MaxCount = 2
  NULL = NULL
PROPERTY ReadReturnsAtEof
CHECK_DEADLOCK FALSE
