SPECIFICATION FairSpec
CONSTANTS
  w1 = w1
  w2 = w2
  r1 = r1
  Writers = {w1, w2}
  Readers = {r1}
  Threads = {w1, w2, r1}
  NULL = NULL
  Vals = {1}
  NFs = 4
  NData = 3
  JStart = 4
  WriteBlks = {0, 1, 2, 3}
  Calls <- MCCalls
  ReadBlks = {1, 2}
  JOURNAL_SIZE = 3
  Disk0 <- MCDisk0
  N_BLKS_PER_PAGE = 2
  MaxFails = 1
INVARIANTS CommandIsFirst CacheCoherent AssertionsHold
CHECK_DEADLOCK FALSE
PROPERTIES TxnEnds ImplementsAtomicDisk
