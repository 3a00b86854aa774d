---------------------------- MODULE MCKvIsolation ----------------------------
(* TLC instances of KvIsolation: one transaction with two calls, which may  *)
(* read a row first and write it later, the others with one.  Which value   *)
(* and which key comes first makes no difference.                           *)
EXTENDS KvIsolation

CONSTANTS FirstTx, FirstVal
CallBounds == [t \in Tx |-> IF t = FirstTx THEN 2 ELSE 1]
FirstTables ==
  {rows \in [Key -> {FirstVal, NoVal}] :
     \A k, l \in Key : k < l /\ rows[k] = NoVal => rows[l] = NoVal}

=============================================================================
