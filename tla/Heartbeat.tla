----------------------------- MODULE Heartbeat -----------------------------
(***************************************************************************)
(* The background heartbeat of direct mode (src/store.rs) and the lives of *)
(* the PgStore values that share its CancellationToken.                    *)
(*                                                                         *)
(* PgStore::new spawns the task before the rest of the startup, which may  *)
(* still fail.  The owner of the store either keeps the Arc that new       *)
(* returned or, when the server goes through PostgresComposer              *)
(* (src/composer.rs), gets a clone of the PgStore while the Arc goes out   *)
(* of scope.  Dropping any PgStore value cancels the token.                *)
(***************************************************************************)
EXTENDS Naturals

CONSTANT MaxFailures   \* bound on consecutive_failures

VARIABLES
  composed,   \* whether PostgresComposer builds the store, decided once
  original,   \* the PgStore that PgStore::new builds
  boxed,      \* its clone, the TransactionBuilder of the server
  armed,      \* HeartbeatGuard.armed
  cancelled,  \* the CancellationToken
  shut,       \* the program counter of shutdown()
  hb,         \* the program counter of direct_mode_heartbeat
  conn,       \* its variable conn is Some
  consecutive_failures

stores == <<composed, original, boxed, armed, shut>>
task   == <<hb, conn, consecutive_failures>>
vars   == <<stores, cancelled, task>>

Awaits == {"sleep", "connect", "backoff", "select"}

TypeOK ==
  /\ composed \in BOOLEAN
  /\ original \in {"none", "building", "alive", "dropped"}
  /\ boxed \in {"none", "alive", "dropped"}
  /\ armed \in BOOLEAN
  /\ cancelled \in BOOLEAN
  /\ shut \in {"no", "joining", "returned"}
  /\ hb \in Awaits \cup {"none", "exited"}
  /\ conn \in BOOLEAN
  /\ hb = "select" => conn
  /\ conn => hb \in {"sleep", "select"}
  /\ consecutive_failures \in 0..MaxFailures

Init ==
  /\ composed \in BOOLEAN
  /\ original = "none"
  /\ boxed = "none"
  /\ armed = FALSE
  /\ cancelled = FALSE
  /\ shut = "no"
  /\ hb = "none"
  /\ conn = FALSE
  /\ consecutive_failures = 0

-----------------------------------------------------------------------------
(* The stores.                                                              *)

(* PgStore::new, pooler=true: the task is spawned and the guard armed.      *)
Spawn ==
  /\ original = "none"
  /\ original' = "building"
  /\ hb' = "sleep"
  /\ armed' = TRUE
  /\ UNCHANGED <<composed, boxed, cancelled, shut, conn, consecutive_failures>>

(* DDL or the partition check failed: new returns early.                    *)
GuardCancels == armed

BuildFails ==
  /\ original = "building"
  /\ original' = "dropped"
  /\ cancelled' = (cancelled \/ GuardCancels)
  /\ armed' = FALSE
  /\ UNCHANGED <<composed, boxed, shut, task>>

(* The guard is disarmed, then dropped.                                     *)
Disarmed == FALSE

BuildOk ==
  /\ original = "building"
  /\ original' = "alive"
  /\ cancelled' = (cancelled \/ Disarmed)
  /\ armed' = FALSE
  /\ UNCHANGED <<composed, boxed, shut, task>>

(* new_transaction_builder boxes a clone of the PgStore, and `store' itself *)
(* is dropped when the function returns: PgStore::drop cancels the token.   *)
ComposerBuild ==
  /\ composed
  /\ original = "alive"
  /\ original' = "dropped"
  /\ boxed' = "alive"
  /\ cancelled' = TRUE
  /\ UNCHANGED <<composed, armed, shut, task>>

(* The owner drops its store; no call on it is in progress.                 *)
DropStore ==
  /\ shut # "joining"
  /\ \/ /\ ~composed
        /\ original = "alive"
        /\ original' = "dropped"
        /\ UNCHANGED boxed
     \/ /\ boxed = "alive"
        /\ boxed' = "dropped"
        /\ UNCHANGED original
  /\ cancelled' = TRUE
  /\ UNCHANGED <<composed, armed, shut, task>>

Usable == boxed = "alive" \/ (~composed /\ original = "alive")

(* shutdown(): cancel the token, take the JoinHandle ...                    *)
Shutdown ==
  /\ Usable
  /\ shut = "no"
  /\ cancelled' = TRUE
  /\ shut' = "joining"
  /\ UNCHANGED <<composed, original, boxed, armed, task>>

(* ... and await the task, for at most HEARTBEAT_SHUTDOWN_TIMEOUT.          *)
ShutdownReturns ==
  /\ shut = "joining"
  /\ shut' = "returned"
  /\ UNCHANGED <<composed, original, boxed, armed, cancelled, task>>

-----------------------------------------------------------------------------
(* direct_mode_heartbeat.                                                   *)

(* Every await of the task is a select! with cancel.cancelled().            *)
HeedsCancelNotInBackoff == hb \in Awaits \ {"backoff"}    \* mutant
HeedsCancel == hb \in Awaits

Exit ==
  /\ cancelled
  /\ HeedsCancel
  /\ hb' = "exited"
  /\ conn' = FALSE
  /\ UNCHANGED <<stores, cancelled, consecutive_failures>>

(* The interval is over: connect first if there is no connection.           *)
NeedsConnect == ~conn

Tick ==
  /\ hb = "sleep"
  /\ ~cancelled
  /\ hb' = IF NeedsConnect THEN "connect" ELSE "select"
  /\ UNCHANGED <<stores, cancelled, conn, consecutive_failures>>

Connected ==
  /\ hb = "connect"
  /\ hb' = "select"
  /\ conn' = TRUE
  /\ consecutive_failures' = 0
  /\ UNCHANGED <<stores, cancelled>>

FailRound ==
  /\ consecutive_failures < MaxFailures
  /\ consecutive_failures' = consecutive_failures + 1

ConnectFailed ==
  /\ hb = "connect"
  /\ FailRound
  /\ hb' = "backoff"
  /\ UNCHANGED <<stores, cancelled, conn>>

BackoffOver ==
  /\ hb = "backoff"
  /\ hb' = "sleep"
  /\ UNCHANGED <<stores, cancelled, conn, consecutive_failures>>

SelectOk ==
  /\ hb = "select"
  /\ hb' = "sleep"
  /\ consecutive_failures' = 0
  /\ UNCHANGED <<stores, cancelled, conn>>

(* SELECT 1 failed or took longer than 10 s: the connection is dropped.     *)
ConnAfterFailureKept == conn     \* mutant: the broken connection is kept
ConnAfterFailure == FALSE

SelectFailed ==
  /\ hb = "select"
  /\ FailRound
  /\ conn' = ConnAfterFailure
  /\ hb' = "sleep"
  /\ UNCHANGED <<stores, cancelled>>

HeartbeatStep ==
  \/ Tick
  \/ Connected
  \/ ConnectFailed
  \/ BackoffOver
  \/ SelectOk
  \/ SelectFailed

-----------------------------------------------------------------------------
(* What the owner of the store does once it is built.                       *)
Owner ==
  \/ ComposerBuild
  \/ DropStore
  \/ Shutdown
  \/ ShutdownReturns

Next ==
  \/ Spawn
  \/ BuildFails
  \/ BuildOk
  \/ Owner
  \/ Exit
  \/ HeartbeatStep

(* Only the cancellation branch is assumed to be polled: the connect, the   *)
(* SELECT 1 and the back-off the task awaits need not end.                  *)
Spec == Init /\ [][Next]_vars
FairSpec == Spec /\ WF_vars(Exit)

-----------------------------------------------------------------------------
(* Properties.                                                              *)

(* "PgStore is behind Arc<>, so Drop only fires when the last reference is  *)
(* released -- no risk of premature cancellation during normal use": the    *)
(* heartbeat is not cancelled while a store is in use and not shut down.    *)
NoPrematureCancel == Usable /\ shut = "no" => ~cancelled

(* The token is cancelled when the PgStore that new built is gone, or shut  *)
(* down, and at no other time: by the guard if the startup fails but not if *)
(* it succeeds, by the drop of the Arc, and for a store that the composer   *)
(* builds as soon as the clone is made and whatever becomes of the clone.   *)
CancelledWithStore == cancelled <=> original = "dropped" \/ shut # "no"

(* A failing heartbeat has no connection left to reuse: the next round      *)
(* reconnects instead of probing the broken one again.                      *)
FailureDropsConnection == consecutive_failures > 0 => ~conn

(* The heartbeat never outlives its store: when startup failed or the last  *)
(* store is gone, the task exits, even in the middle of a connect or a      *)
(* SELECT 1 that hangs, and without shutdown() having been called.          *)
NoHeartbeatLeak ==
  (original = "dropped" /\ boxed # "alive") ~> hb = "exited"

(* A cancelled heartbeat exits from every await, whatever PostgreSQL does.  *)
CancelledExits == cancelled /\ hb # "none" ~> hb = "exited"

=============================================================================
