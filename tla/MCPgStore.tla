----------------------------- MODULE MCPgStore -----------------------------
(* TLC instances of PgStore; tasks are interchangeable.                     *)
EXTENDS PgStore, TLC

Symmetry == Permutations(Task)

=============================================================================
