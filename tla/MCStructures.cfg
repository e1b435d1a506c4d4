SPECIFICATION Spec
CONSTANTS
  NEWLINE = NEWLINE
  EOF = EOF
  RETURN = RETURN
  BACKSPACE = BACKSPACE
  KILL = KILL
  a = a
INVARIANTS BlocksExact SlabsExact TableExact NoSleepOnLine HeapExact
PROPERTIES ImplementsLineBuffer
CHECK_DEADLOCK FALSE
