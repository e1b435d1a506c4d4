SPECIFICATION Spec
CONSTANTS
  p1 = p1
  p2 = p2
  a = a
  b = b
  long = long
  f1 = f1
  f2 = f2
  p3 = p3
  Procs = {p1, p2, p3}
  Running = {p1, p2}
  Links <- MCLinks
  Trees <- MCTrees
  Inums = {1, 2, 3}
  SFS_ROOT_INUM = 1
  Names = {a, b, long}
  Stored <- MCStored
  Args <- MCArgs
  Objs = {f1, f2}
  PROC_MAX_FILE = 3
  NULL = NULL
  stdin = stdin
  stdout = stdout
  MaxCalls = 3
  MaxFails = 1
INVARIANTS RefsExact LinksExact SomeCallGoesOn
PROPERTIES AssertionsHold
SYMMETRY Symmetry
CHECK_DEADLOCK FALSE
