SPECIFICATION Spec
CONSTANTS
  Task = {k1, k2}
  PoolMax = 1
  MaxStarted = 2
SYMMETRY Symmetry
PROPERTY NoStartAfterShutdown
