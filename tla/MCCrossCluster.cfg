SPECIFICATION Spec
CONSTANTS
  N = 1
  MaxClaims = 2
  MaxPods = 2
  p1 = p1
  p2 = p2
  Procs <- MCProcs
  None = None
  Sites <- MCSites
SYMMETRY MCSymmetry
CHECK_DEADLOCK FALSE
INVARIANTS TransferredWhole CleansUp
PROPERTIES DeliveredKept
