SPECIFICATION Spec
CONSTANTS
  Tx = {t1}
  Task = {k1, k2}
  NoTask = NoTask
  NoTx = NoTx
  CancelFutures = TRUE
SYMMETRY Symmetry
CHECK_DEADLOCK FALSE
INVARIANT MetricsIdentity
