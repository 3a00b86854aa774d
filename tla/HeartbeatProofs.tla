--------------------------- MODULE HeartbeatProofs ---------------------------
(***************************************************************************)
(* TLAPS proofs about Heartbeat, for stores built with and without the     *)
(* composer and any bound on the failures that are counted.                *)
(***************************************************************************)
EXTENDS Heartbeat, TLAPS

-----------------------------------------------------------------------------
(* The inductive invariant.                                                 *)

(* The guard is armed exactly while the store is built, the clone replaces  *)
(* the original, and the task is spawned with it.                           *)
OneOwner ==
  /\ armed <=> original = "building"
  /\ hb = "none" <=> original = "none"
  /\ boxed # "none" => composed /\ original = "dropped"
  /\ shut # "no" => original \in {"alive", "dropped"}

(* Who cancels the token: the drop of the first PgStore value, or           *)
(* shutdown(); and nobody before that.                                      *)
TokenFollowsStore ==
  /\ original = "dropped" => cancelled
  /\ shut # "no" => cancelled
  /\ original \in {"none", "building", "alive"} /\ shut = "no" => ~cancelled

(* The part of TypeOK about the flags, and the rest.                        *)
Flags ==
  /\ composed \in BOOLEAN /\ armed \in BOOLEAN
  /\ cancelled \in BOOLEAN /\ conn \in BOOLEAN

Counters ==
  /\ original \in {"none", "building", "alive", "dropped"}
  /\ boxed \in {"none", "alive", "dropped"}
  /\ shut \in {"no", "joining", "returned"}
  /\ hb \in Awaits \cup {"none", "exited"}
  /\ hb = "select" => conn
  /\ conn => hb \in {"sleep", "select"}
  /\ consecutive_failures \in 0..MaxFailures

(* The two parts make up TypeOK.                                            *)
LEMMA TypeParts == TypeOK <=> Flags /\ Counters
BY DEF TypeOK, Flags, Counters

IInv == TypeOK /\ OneOwner /\ TokenFollowsStore /\ FailureDropsConnection

(* The invariant holds before PgStore::new.                                 *)
LEMMA InitHolds ==
  ASSUME MaxFailures \in Nat, Init
  PROVE  IInv
<1>1. Flags
  BY DEF Init, Flags
<1>2. Counters
  BY DEF Init, Counters
<1>3. OneOwner /\ TokenFollowsStore /\ FailureDropsConnection
  BY DEF Init, OneOwner, TokenFollowsStore, FailureDropsConnection
<1> QED
  BY <1>1, <1>2, <1>3, TypeParts DEF IInv

(* The steps of the stores and of their owner.                              *)
LEMMA StoreStepKeeps ==
  ASSUME MaxFailures \in Nat, IInv, Spawn \/ BuildFails \/ BuildOk \/ Owner
  PROVE  IInv'
<1> USE DEF Spawn, BuildFails, BuildOk, Owner, ComposerBuild, DropStore, Shutdown,
            ShutdownReturns, GuardCancels, Disarmed, Usable, task
<1>1. TypeOK'
  <2>1. Flags'
    BY DEF IInv, TypeOK, Flags
  <2>2. Counters'
    BY DEF IInv, TypeOK, OneOwner, Counters, Awaits
  <2> QED
    BY <2>1, <2>2, TypeParts DEF TypeOK, Flags, Counters
<1>2. OneOwner' /\ TokenFollowsStore'
  BY DEF IInv, TypeOK, OneOwner, TokenFollowsStore
<1>3. FailureDropsConnection'
  BY DEF IInv, TypeOK, OneOwner, FailureDropsConnection
<1> QED
  BY <1>1, <1>2, <1>3 DEF IInv

(* The steps of the task.                                                   *)
LEMMA TaskStepKeeps ==
  ASSUME MaxFailures \in Nat, IInv, Exit \/ HeartbeatStep
  PROVE  IInv'
<1> USE DEF Exit, HeartbeatStep, Tick, Connected, ConnectFailed, BackoffOver, SelectOk,
            SelectFailed, FailRound, NeedsConnect, ConnAfterFailure, HeedsCancel,
            Awaits, stores
<1>1. TypeOK'
  <2>1. Flags'
    BY DEF IInv, TypeOK, Flags
  <2>2. Counters'
    BY DEF IInv, TypeOK, Counters
  <2> QED
    BY <2>1, <2>2, TypeParts DEF TypeOK, Flags, Counters
<1>2. OneOwner' /\ TokenFollowsStore'
  BY DEF IInv, TypeOK, OneOwner, TokenFollowsStore
<1>3. FailureDropsConnection'
  BY DEF IInv, TypeOK, FailureDropsConnection
<1> QED
  BY <1>1, <1>2, <1>3 DEF IInv

(* Every step keeps the inductive invariant.                                *)
LEMMA StepKeeps ==
  ASSUME MaxFailures \in Nat, IInv, [Next]_vars
  PROVE  IInv'
<1>1. CASE Next
  BY <1>1, StoreStepKeeps, TaskStepKeeps DEF Next
<1>2. CASE UNCHANGED vars
  BY <1>2 DEF IInv, TypeOK, OneOwner, TokenFollowsStore, FailureDropsConnection,
              vars, stores, task
<1> QED
  BY <1>1, <1>2

(* The inductive invariant holds throughout.                                *)
LEMMA IInvInductive ==
  ASSUME MaxFailures \in Nat
  PROVE  Spec => []IInv
<1>1. Init => IInv
  BY InitHolds
<1>2. IInv /\ [Next]_vars => IInv'
  BY StepKeeps
<1> QED
  BY <1>1, <1>2, PTL DEF Spec

-----------------------------------------------------------------------------
(* The theorems.                                                            *)

(* The task has a connection whenever it probes one, none while it connects *)
(* or backs off, and the other variables have their types.                  *)
THEOREM TypeInvariant ==
  ASSUME MaxFailures \in Nat
  PROVE  Spec => []TypeOK
<1>1. IInv => TypeOK
  BY DEF IInv
<1> QED
  BY <1>1, IInvInductive, PTL

(* The token is cancelled exactly when the store that PgStore::new built is *)
(* gone or shut down: HeartbeatGuard cancels it if new fails and is         *)
(* disarmed if it succeeds, Drop cancels it, the composer's included.       *)
THEOREM CancelInvariant ==
  ASSUME MaxFailures \in Nat
  PROVE  Spec => []CancelledWithStore
<1>1. IInv => CancelledWithStore
  BY DEF IInv, TypeOK, TokenFollowsStore, CancelledWithStore
<1> QED
  BY <1>1, IInvInductive, PTL

(* A heartbeat that failed has dropped its connection.                      *)
THEOREM FailureInvariant ==
  ASSUME MaxFailures \in Nat
  PROVE  Spec => []FailureDropsConnection
<1>1. IInv => FailureDropsConnection
  BY DEF IInv
<1> QED
  BY <1>1, IInvInductive, PTL

=============================================================================
