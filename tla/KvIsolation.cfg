SPECIFICATION FairSpec
CONSTANTS
  Tx = {t1, t2}
  Key = {1, 2}
  Val = {v1, v2}
  NoVal = NoVal
  NoTx = NoTx
  Nothing = Nothing
  FirstTx = t1
  FirstVal = v1
  Tables <- FirstTables
  MaxCalls <- CallBounds
INVARIANT TypeOK
INVARIANT ConflictNeverCommits
PROPERTY NoLostCas
PROPERTY NoUnseenOverwrite
PROPERTY CallsReturn
CHECK_DEADLOCK FALSE
