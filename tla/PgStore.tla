------------------------------ MODULE PgStore ------------------------------
(***************************************************************************)
(* PgStore (src/store.rs): begin() in pooled and in direct mode with its   *)
(* retries, the maintenance calls that share the pool (vacuum and          *)
(* health_check), and shutdown() with its barrier and its deadlines.       *)
(*                                                                         *)
(* A task's local variables are its program counter and `attempt'.  The    *)
(* sqlx pool is external: it hands out idle connections, opens new ones up *)
(* to PoolMax, takes a connection back through a background task that      *)
(* pings it, and after close() refuses every acquire.  What a transaction  *)
(* does is the subject of PgTx; here it is only a connection held until    *)
(* the caller ends it.  The zombie detection of begin_pooled changes only  *)
(* log lines and the length of a delay and is left out.                    *)
(***************************************************************************)
EXTENDS Naturals, FiniteSets, PgErrors

CONSTANTS
  Task,        \* callers of begin(), vacuum() and health_check()
  PoolMax,     \* max_connections of the pool
  MaxStarted   \* bound on tx_started, to keep the model finite

ASSUME PgStoreAssumption ==
  /\ IsFiniteSet(Task)
  /\ PoolMax \in Nat \ {0}
  /\ MaxStarted \in Nat

VARIABLES
  mode,            \* ConnectionMode: "pooled" or "direct"
  shutting_down,   \* the barrier flag
  shut,            \* the program counter of shutdown()
  pc, attempt,     \* of each task
  pool_closed, idle, returning,   \* the sqlx pool
  tx_started, tx_active

local   == <<pc, attempt>>
pool    == <<pool_closed, idle, returning>>
counts  == <<tx_started, tx_active>>
closing == <<shutting_down, shut>>
vars    == <<mode, closing, local, pool, counts>>

MAX_RETRIES == 2   \* BEGIN_MAX_RETRIES, and MAX_RETRIES of begin_direct

(* "head": top of the retry loop;  "acquire": waiting for the pool;         *)
(* "connect", "keepalive", "session": setting a direct connection up;       *)
(* "beginning": BEGIN sent;  "sleep": backing off;  "started": the caller   *)
(* owns a transaction;  "want", "maint": maintenance without and with a     *)
(* connection.                                                              *)
Attempting == {"acquire", "connect", "keepalive", "session", "beginning"}
InBegin    == Attempting \cup {"head", "sleep"}
PCs        == InBegin \cup {"idle", "started", "want", "maint"}

(* "no": not called;  "heartbeat": barrier set, waiting for the heartbeat   *)
(* task;  "drain": about to close;  "closing": in pool.close();  "grace":   *)
(* polling tx_active;  then how it returned.                                *)
ShutPCs == {"no", "heartbeat", "drain", "closing", "grace",
            "returned", "timedOut"}
ShutDone == shut \in {"returned", "timedOut"}

InUse == {k \in Task : mode = "pooled" /\ pc[k] \in {"beginning", "started", "maint"}}
size  == idle + returning + Cardinality(InUse)

TypeOK ==
  /\ mode \in {"pooled", "direct"}
  /\ shutting_down \in BOOLEAN
  /\ shut \in ShutPCs
  /\ pc \in [Task -> PCs]
  /\ attempt \in [Task -> 0..MAX_RETRIES+1]
  /\ pool_closed \in BOOLEAN
  /\ idle \in 0..PoolMax
  /\ returning \in 0..PoolMax
  /\ tx_started \in 0..MaxStarted
  /\ tx_active \in 0..Cardinality(Task)

Init ==
  /\ mode \in {"pooled", "direct"}
  /\ shutting_down = FALSE
  /\ shut = "no"
  /\ pc = [k \in Task |-> "idle"]
  /\ attempt = [k \in Task |-> 0]
  /\ pool_closed = FALSE
  /\ idle = 0
  /\ returning = 0
  /\ tx_started = 0
  /\ tx_active = 0

-----------------------------------------------------------------------------
(* begin(): the retry loop common to begin_pooled and begin_direct.         *)

Goto(k, where) == pc' = [pc EXCEPT ![k] = where]

(* A call returns: its local variables are gone.                            *)
Leave(k, where) ==
  /\ Goto(k, where)
  /\ attempt' = [attempt EXCEPT ![k] = 0]

CallBegin(k) ==
  /\ pc[k] = "idle"
  /\ Goto(k, "head")
  /\ UNCHANGED <<mode, closing, attempt, pool, counts>>

(* The barrier, checked by begin() and again at the top of every attempt.   *)
RefusedRetriesOnly(k) == shutting_down /\ attempt[k] > 0   \* mutant
Refused(k) == shutting_down

Refuse(k) ==
  /\ pc[k] = "head"
  /\ Refused(k)
  /\ Leave(k, "idle")
  /\ UNCHANGED <<mode, closing, pool, counts>>

NextAttemptStuck(k) == attempt[k]                           \* mutant
NextAttempt(k) == attempt[k] + 1

StartAttempt(k) ==
  /\ pc[k] = "head"
  /\ ~Refused(k)
  /\ attempt' = [attempt EXCEPT ![k] = NextAttempt(k)]
  /\ Goto(k, IF mode = "pooled" THEN "acquire" ELSE "connect")
  /\ UNCHANGED <<mode, closing, pool, counts>>

(* An attempt failed.  A transient error is retried while attempts are left.*)
GivesUpNever(k, transient) == ~transient                    \* mutant
GivesUp(k, transient) == ~transient \/ attempt[k] > MAX_RETRIES

FailAttempt(k, transient) ==
  \/ /\ GivesUp(k, transient)
     /\ Leave(k, "idle")
  \/ /\ ~GivesUp(k, transient)
     /\ Goto(k, "sleep")
     /\ UNCHANGED attempt

Wake(k) ==
  /\ pc[k] = "sleep"
  /\ Goto(k, "head")
  /\ UNCHANGED <<mode, closing, attempt, pool, counts>>

(* BEGIN succeeded: both counters are incremented before the caller can see *)
(* the transaction.                                                         *)
BeginOk(k) ==
  /\ pc[k] = "beginning"
  /\ tx_started < MaxStarted
  /\ tx_started' = tx_started + 1
  /\ tx_active' = tx_active + 1
  /\ Leave(k, "started")
  /\ UNCHANGED <<mode, closing, pool>>

-----------------------------------------------------------------------------
(* The sqlx pool, and begin_pooled on it.                                   *)

(* A connection for one caller: an idle one, or a new one below the limit.  *)
Checkout ==
  \/ idle > 0 /\ idle' = idle - 1 /\ UNCHANGED <<pool_closed, returning>>
  \/ idle = 0 /\ size < PoolMax /\ UNCHANGED pool

(* The connection of a caller goes to the background task that returns it.  *)
GiveBack ==
  IF mode = "pooled" THEN returning' = returning + 1 /\ UNCHANGED <<pool_closed, idle>>
                     ELSE UNCHANGED pool

(* The pool pings the connection and keeps it, or drops it.                 *)
FinishReturn ==
  /\ returning > 0
  /\ returning' = returning - 1
  /\ idle' \in IF pool_closed THEN {idle} ELSE {idle, idle + 1}
  /\ UNCHANGED <<mode, closing, local, pool_closed, counts>>

(* idle_timeout and max_lifetime close idle connections.                    *)
ReapIdle ==
  /\ idle > 0
  /\ idle' = idle - 1
  /\ UNCHANGED <<mode, closing, local, pool_closed, returning, counts>>

(* In the background the pool opens connections up to min_connections,      *)
(* which is at most PoolMax.                                                *)
OpenIdle ==
  /\ mode = "pooled"
  /\ ~pool_closed
  /\ size < PoolMax
  /\ idle' = idle + 1
  /\ UNCHANGED <<mode, closing, local, pool_closed, returning, counts>>

AcquireOk(k) ==
  /\ pc[k] = "acquire"
  /\ ~pool_closed
  /\ Checkout
  /\ Goto(k, "beginning")
  /\ UNCHANGED <<mode, closing, attempt, counts>>

(* Whether the error an attempt met is transient: in general, and when the  *)
(* pool is closed.                                                          *)
Transient  == {is_transient(from_sqlx(FALSE, e)) : e \in SqlxErrors}
PoolClosed == {is_transient(from_sqlx(FALSE, "PoolClosed"))}

AcquireFailed(k) ==
  /\ pc[k] = "acquire"
  /\ \E transient \in (IF pool_closed THEN PoolClosed ELSE Transient) : FailAttempt(k, transient)
  /\ UNCHANGED <<mode, closing, pool, counts>>

(* BEGIN failed.  In direct mode a best-effort ROLLBACK follows and the     *)
(* connection is closed; the pool takes its connection back.                *)
BeginFailed(k) ==
  /\ pc[k] = "beginning"
  /\ \E transient \in Transient : FailAttempt(k, transient)
  /\ GiveBack
  /\ UNCHANGED <<mode, closing, counts>>

-----------------------------------------------------------------------------
(* begin_direct: a fresh connection.                                        *)

ConnectOk(k) ==
  /\ pc[k] = "connect"
  /\ Goto(k, "keepalive")
  /\ UNCHANGED <<mode, closing, attempt, pool, counts>>

(* The keepalive SET may fail or time out: that is only logged.             *)
Keepalive(k) ==
  /\ pc[k] = "keepalive"
  /\ Goto(k, "session")
  /\ UNCHANGED <<mode, closing, attempt, pool, counts>>

SessionOk(k) ==
  /\ pc[k] = "session"
  /\ Goto(k, "beginning")
  /\ UNCHANGED <<mode, closing, attempt, pool, counts>>

(* connect_direct failed or timed out, or the session SQL did.              *)
SetupFailed(k) ==
  /\ pc[k] \in {"connect", "session"}
  /\ \E transient \in Transient : FailAttempt(k, transient)
  /\ UNCHANGED <<mode, closing, pool, counts>>

-----------------------------------------------------------------------------
(* The caller.                                                              *)

(* The transaction is committed, cancelled or dropped (see PgTx).           *)
EndTx(k) ==
  /\ pc[k] = "started"
  /\ tx_active' = tx_active - 1
  /\ GiveBack
  /\ Leave(k, "idle")
  /\ UNCHANGED <<mode, closing, tx_started>>

(* The caller drops the future of begin() at an await point; a connection   *)
(* it had goes back, nothing was counted.                                   *)
DropBegin(k) ==
  /\ pc[k] \in Attempting \cup {"sleep"}
  /\ IF pc[k] = "beginning" THEN GiveBack ELSE UNCHANGED pool
  /\ Leave(k, "idle")
  /\ UNCHANGED <<mode, closing, counts>>

(* vacuum() and health_check(): one statement outside any transaction, on a *)
(* pool connection or a fresh one.  Neither looks at the barrier.           *)
CallMaintenance(k) ==
  /\ pc[k] = "idle"
  /\ Goto(k, "want")
  /\ UNCHANGED <<mode, closing, attempt, pool, counts>>

MaintenanceConnected(k) ==
  /\ pc[k] = "want"
  /\ IF mode = "pooled" THEN ~pool_closed /\ Checkout ELSE UNCHANGED pool
  /\ Goto(k, "maint")
  /\ UNCHANGED <<mode, closing, attempt, counts>>

MaintenanceEnds(k) ==
  /\ pc[k] \in {"want", "maint"}
  /\ IF pc[k] = "maint" THEN GiveBack ELSE UNCHANGED pool
  /\ Leave(k, "idle")
  /\ UNCHANGED <<mode, closing, counts>>

(* health_check tries a second time in direct mode.                         *)
HealthCheckRetry(k) ==
  /\ pc[k] \in {"want", "maint"}
  /\ mode = "direct"
  /\ attempt[k] = 0
  /\ attempt' = [attempt EXCEPT ![k] = 1]
  /\ Goto(k, "want")
  /\ UNCHANGED <<mode, closing, pool, counts>>

-----------------------------------------------------------------------------
(* shutdown().                                                              *)

ShutdownBarrier ==
  /\ shut = "no"
  /\ shutting_down' = TRUE
  /\ shut' = "heartbeat"
  /\ UNCHANGED <<mode, local, pool, counts>>

(* The heartbeat task has exited, or the 15 s are over (see Heartbeat).     *)
HeartbeatAwaited ==
  /\ shut = "heartbeat"
  /\ shut' = "drain"
  /\ UNCHANGED <<mode, shutting_down, local, pool, counts>>

(* pool.close() refuses new acquires at once and closes idle connections.   *)
ClosePool ==
  /\ shut = "drain"
  /\ mode = "pooled"
  /\ pool_closed' = TRUE
  /\ idle' = 0
  /\ shut' = "closing"
  /\ UNCHANGED <<mode, shutting_down, local, returning, counts>>

(* It returns when every connection has come back ...                       *)
PoolDrainedByCount == tx_active = 0    \* mutant: wait for tx_active instead
PoolDrained == InUse = {} /\ returning = 0

PoolCloseOk ==
  /\ shut = "closing"
  /\ PoolDrained
  /\ shut' = "returned"
  /\ UNCHANGED <<mode, shutting_down, local, pool, counts>>

(* ... or is abandoned after POOL_CLOSE_TIMEOUT.                            *)
CloseDeadlineNone == FALSE             \* mutant: pool.close() without timeout
CloseDeadline == shut = "closing"

PoolCloseTimeout ==
  /\ CloseDeadline
  /\ shut' = "timedOut"
  /\ UNCHANGED <<mode, shutting_down, local, pool, counts>>

(* Direct mode polls tx_active for at most DIRECT_SHUTDOWN_GRACE.           *)
DirectDrain ==
  /\ shut = "drain"
  /\ mode = "direct"
  /\ shut' = IF tx_active > 0 THEN "grace" ELSE "returned"
  /\ UNCHANGED <<mode, shutting_down, local, pool, counts>>

GraceDrained ==
  /\ shut = "grace"
  /\ tx_active = 0
  /\ shut' = "returned"
  /\ UNCHANGED <<mode, shutting_down, local, pool, counts>>

GraceExpired ==
  /\ shut = "grace"
  /\ shut' = "timedOut"
  /\ UNCHANGED <<mode, shutting_down, local, pool, counts>>

Shutdown ==
  \/ HeartbeatAwaited
  \/ ClosePool
  \/ PoolCloseOk
  \/ PoolCloseTimeout
  \/ DirectDrain
  \/ GraceDrained
  \/ GraceExpired

-----------------------------------------------------------------------------
BeginStep(k) ==
  \/ Refuse(k)
  \/ StartAttempt(k)
  \/ Wake(k)
  \/ AcquireOk(k)
  \/ AcquireFailed(k)
  \/ ConnectOk(k)
  \/ Keepalive(k)
  \/ SessionOk(k)
  \/ SetupFailed(k)
  \/ BeginOk(k)
  \/ BeginFailed(k)

Next ==
  \/ \E k \in Task :
       \/ CallBegin(k)
       \/ BeginStep(k)
       \/ EndTx(k)
       \/ DropBegin(k)
       \/ CallMaintenance(k)
       \/ MaintenanceConnected(k)
       \/ MaintenanceEnds(k)
       \/ HealthCheckRetry(k)
  \/ FinishReturn
  \/ ReapIdle
  \/ OpenIdle
  \/ ShutdownBarrier
  \/ Shutdown

(* begin() and shutdown() are polled and their timers fire: acquire_timeout,*)
(* connect_timeout around the connection's setup, the server's answer to    *)
(* BEGIN, POOL_CLOSE_TIMEOUT and the grace period.  A transaction need not  *)
(* end: SurrealDB calls shutdown() before it drops the transactions still   *)
(* in flight, so only a returned shutdown() obliges the caller.             *)
Fairness ==
  /\ \A k \in Task : WF_vars(BeginStep(k))
  /\ \A k \in Task : WF_vars(ShutDone /\ EndTx(k))
  /\ WF_vars(Shutdown)

Spec == Init /\ [][Next]_vars
FairSpec == Spec /\ Fairness

-----------------------------------------------------------------------------
(* Properties.                                                              *)

(* A pooled shutdown() that returned without its timeout leaves nothing     *)
(* behind: no begin(), transaction or maintenance call still has a          *)
(* connection, nor will one get any, the ones that passed the barrier       *)
(* before it was set included.                                              *)
CleanCloseIsFinal ==
  mode = "pooled" /\ shut = "returned"
    => InUse = {} /\ returning = 0 /\ idle = 0

(* Every begin() ends, with a transaction or with an error, however often   *)
(* its attempts fail.                                                       *)
BeginReturns == \A k \in Task : pc[k] \in InBegin ~> pc[k] \notin InBegin

(* shutdown() returns although no transaction is obliged to end before it   *)
(* has: the wait for the transactions cannot deadlock with the caller.      *)
ShutdownReturns == shutting_down ~> ShutDone

(* Once shutdown() has returned, the store falls silent for good: what      *)
(* slipped through the barrier ends, and callers that keep calling begin()  *)
(* never get to PostgreSQL again.                                           *)
BarrierSilences ==
  ShutDone ~> [](\A k \in Task : pc[k] \notin Attempting \cup {"started"})

(* "Barrier: refuse new transactions after shutdown() has been called."     *)
(* No transaction starts once shutdown() has returned and reported that no  *)
(* transaction was active.                                                  *)
NoStartAfterShutdown ==
  [][tx_started' > tx_started => shut # "returned"]_vars

=============================================================================
