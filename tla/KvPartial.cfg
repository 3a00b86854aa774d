SPECIFICATION Spec
CONSTANTS
  Key = {1, 2}
  Val = {v1, v2}
  NoVal = NoVal
  NoStmt = NoStmt
  NoSavepoint = NoSavepoint
  Ops = {"setm"}
  DedupLinear = 2
  GetmRows = 0
  GetmProduct = 0
  SETM_MAX_PAIRS = 1
  MaxPairs = 2
  MaxDepth = 1
  Wrap = 2
  CounterWraps = TRUE
  DropFutures = FALSE
INVARIANT PartialSetmCommits
CHECK_DEADLOCK FALSE
