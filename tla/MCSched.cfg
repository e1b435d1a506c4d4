SPECIFICATION Spec
CONSTANTS
  c1 = c1
  c2 = c2
  w1 = w1
  w2 = w2
  w3 = w3
  Cpus = {c1, c2}
  Workers = {w1, w2, w3}
  CanTry = {w1, w2, w3}
  NULL = NULL
SYMMETRY Symmetry
INVARIANTS MutualExclusion NoLostWakeup CleanupSafe KassertsHold IInv
