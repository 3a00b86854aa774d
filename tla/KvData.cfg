SPECIFICATION Spec
CONSTANTS
  Key = {1, 2, 3}
  Val = {v1, v2}
  NoVal = NoVal
  NoStmt = NoStmt
  NoSavepoint = NoSavepoint
  Ops = {"read", "set", "put", "putc", "del", "delc", "delr", "setm"}
  DedupLinear = 2
  GetmRows = 2
  GetmProduct = 4
  SETM_MAX_PAIRS = 2
  MaxPairs = 3
  MaxDepth = 0
  Wrap = 2
  CounterWraps = TRUE
  DropFutures = FALSE
SYMMETRY Symmetry
INVARIANT TypeOK
PROPERTY ConditionalExact
PROPERTY SetmLastWins
INVARIANT DedupKeepsLast
INVARIANT GetmInPlace
INVARIANT PagesAddUp
CHECK_DEADLOCK FALSE
