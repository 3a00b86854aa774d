--------------------------- MODULE MCKvTransaction ---------------------------
(* TLC instances of KvTransaction; values are interchangeable, keys are     *)
(* ordered.                                                                 *)
EXTENDS KvTransaction

Symmetry == Permutations(Val)

=============================================================================
