------------------------------- MODULE MCPgTx -------------------------------
(* TLC instances of PgTx.  Tasks and transactions are interchangeable, so a *)
(* run without liveness may use their permutations as symmetries.           *)
EXTENDS PgTx, TLC

Symmetry == Permutations(Task) \cup Permutations(Tx)

=============================================================================
