------------------------------ MODULE NestedTx ------------------------------
(***************************************************************************)
(* What a key-value transaction with savepoints promises its caller: a     *)
(* private view of the table and a stack of anonymous snapshots of it.  A  *)
(* failed statement makes the transaction unusable until it is restored to *)
(* its last snapshot or ends.                                              *)
(***************************************************************************)
EXTENDS Naturals, Sequences

CONSTANT Views   \* the possible contents of the table

VARIABLES table, view, frames, status

vars == <<table, view, frames, status>>

Init ==
  /\ table \in Views
  /\ view = table
  /\ frames = <<>>
  /\ status = "open"

Alive == status \in {"open", "aborted"}

Write ==
  /\ status = "open"
  /\ view' \in Views
  /\ UNCHANGED <<table, frames, status>>

Fail ==
  /\ Alive
  /\ status' = "aborted"
  /\ UNCHANGED <<table, view, frames>>

Save ==
  /\ status = "open"
  /\ frames' = Append(frames, view)
  /\ UNCHANGED <<table, view, status>>

Release ==
  /\ status = "open"
  /\ frames # <<>>
  /\ frames' = SubSeq(frames, 1, Len(frames) - 1)
  /\ UNCHANGED <<table, view, status>>

Restore ==
  /\ Alive
  /\ frames # <<>>
  /\ view' = frames[Len(frames)]
  /\ status' = "open"
  /\ UNCHANGED <<table, frames>>

Commit ==
  /\ status = "open"
  /\ table' = view
  /\ status' = "committed"
  /\ UNCHANGED <<view, frames>>

Rollback ==
  /\ Alive
  /\ status' = "rolledback"
  /\ UNCHANGED <<table, view, frames>>

Next ==
  \/ Write
  \/ Fail
  \/ Save
  \/ Release
  \/ Restore
  \/ Commit
  \/ Rollback

Spec == Init /\ [][Next]_vars

=============================================================================
