SPECIFICATION FairSpec
CONSTANTS
  Tx = {t1}
  Task = {k1, k2, k3}
  NoTask = NoTask
  NoTx = NoTx
  CancelFutures = TRUE
INVARIANT TypeOK
INVARIANT ConnectionExclusive
INVARIANT ActiveCountExact
INVARIANT NeverOvercounted
INVARIANT CommittedOnlyByCommit
PROPERTY OutcomeIsFinal
PROPERTY CallsReturn
PROPERTY NoLingeringTransaction
CHECK_DEADLOCK FALSE
