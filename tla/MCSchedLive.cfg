SPECIFICATION FairSpec
CONSTANTS
  c1 = c1
  w1 = w1
  w2 = w2
  w3 = w3
  Cpus = {c1}
  Workers = {w1, w2, w3}
  CanTry = {}
  NULL = NULL
PROPERTIES WaiterWoken ReadyRuns
