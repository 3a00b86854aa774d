SPECIFICATION Spec
CONSTANTS
  Key = {1}
  Val = {v1, v2}
  NoVal = NoVal
  NoStmt = NoStmt
  NoSavepoint = NoSavepoint
  Ops = {"set"}
  DedupLinear = 2
  GetmRows = 0
  GetmProduct = 0
  SETM_MAX_PAIRS = 1
  MaxPairs = 0
  MaxDepth = 3
  Wrap = 5
  CounterWraps = FALSE
  DropFutures = TRUE
PROPERTY RollbackRestores
CHECK_DEADLOCK FALSE
