SPECIFICATION FairSpec
CONSTANTS
  s1 = s1
  s2 = s2
  s3 = s3
  Slots = {s1, s2, s3}
  Init_proc = s1
  Slab <- MCSlab
  Status <- MCStatus
  ALIVE = ALIVE
  ANY_CHILD = ANY_CHILD
  ERR_CHILD = ERR_CHILD
  NULL = NULL
  MaxPid = 4
INVARIANTS PtableSound NoUseAfterFree StatusExact ErrChildRight
PROPERTY WaitReturns
CHECK_DEADLOCK FALSE
