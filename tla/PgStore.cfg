SPECIFICATION FairSpec
CONSTANTS
  Task = {k1, k2, k3}
  PoolMax = 2
  MaxStarted = 2
INVARIANT TypeOK
INVARIANT CleanCloseIsFinal
PROPERTY BeginReturns
PROPERTY ShutdownReturns
PROPERTY BarrierSilences
