SPECIFICATION FairSpec
CONSTANTS
  MaxConnections = 10
  MaxPartitions = 11
  LongBytes = 60
  Server = {a, b}
  Local = a
  NoServer = NoServer
  NoTable = NoTable
  UrlParams <- LowerCaseParams
  MaxParams = 2
  Envs <- LocalEnvs
  Tunings <- LocalTunings
  Absent = Absent
  NotFinite = NotFinite
  OtherUrls <- Others
  Migrations = {0, 4}
  MaxFailures = 2
INVARIANT TypeOK
INVARIANT PartitionsAsConfigured
 
INVARIANT NumbersPassAsserts
INVARIANT PartitionNamesFit
INVARIANT TimeoutsInForce
INVARIANT CancelledWithStore
INVARIANT FailureDropsConnection
PROPERTY ImplementsHeartbeat
PROPERTY NoHeartbeatLeak
PROPERTY CancelledExits
CHECK_DEADLOCK FALSE
