SPECIFICATION Spec
CONSTANTS
  Procs = {1, 2}
  NFRAMES = 32
  PG = 2
  USTACK_PAGES = 6
  Programs <- MCPrograms
  FILL = 46
  Probes = {18, 25, 44, 59}
  Incs <- MCIncs
  Vals = {1}
  CODE = 2
  MaxFail = 26
INVARIANTS MemoryExact Isolated 
CHECK_DEADLOCK FALSE
