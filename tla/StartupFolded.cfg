SPECIFICATION Spec
CONSTANTS
  MaxConnections = 10
  MaxPartitions = 11
  LongBytes = 60
  Server = {a, b}
  Local = a
  NoServer = NoServer
  NoTable = NoTable
  UrlParams <- LocalParams
  MaxParams = 1
  Envs <- LocalEnvs
  Tunings = {}
  Absent = Absent
  NotFinite = NotFinite
  OtherUrls <- Others
  Migrations = {0, 4}
  MaxFailures = 1
INVARIANT PartitionsAsConfigured
CHECK_DEADLOCK FALSE
