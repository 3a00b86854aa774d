-------------------------------- MODULE PgTx --------------------------------
(***************************************************************************)
(* The transaction handle PgTx (src/pg_tx.rs) around PgTransaction         *)
(* (src/transaction.rs), shared by the tasks of one server process.        *)
(*                                                                         *)
(* PgTx is a tokio mutex around Option<PgTransaction> plus a lock-free     *)
(* flag `done'.  Reads and writes keep the mutex across the SQL round      *)
(* trip; commit() and cancel() set `done' under the mutex, take the        *)
(* PgTransaction out, release the mutex and only then talk to PostgreSQL.  *)
(* Any call is a future its caller may drop at an await point.             *)
(*                                                                         *)
(* PostgreSQL is external and seen through what the code can meet: a       *)
(* statement may fail and leave the transaction aborted, COMMIT of an      *)
(* aborted transaction is answered like a success but rolls back, and a    *)
(* connection may be lost.  The client and the server do not lose it at    *)
(* the same time: a COMMIT the client has an error for, or whose future    *)
(* was dropped, may still be executed, or be on its way for ever.          *)
(***************************************************************************)
EXTENDS Naturals, Sequences, FiniteSets

CONSTANTS
  Tx,             \* the transactions that may be begun, each at most once
  Task,           \* the tasks that call into the handles
  NoTask, NoTx,   \* "the mutex is free", "the task is in no call"
  CancelFutures   \* whether callers may drop the future of a call

ASSUME PgTxAssumption ==
  /\ IsFiniteSet(Tx)
  /\ NoTask \notin Task
  /\ NoTx \notin Tx
  /\ CancelFutures \in BOOLEAN

VARIABLES
  (* one PgTx and its PgTransaction *)
  life,       \* "unborn", "live" or "dropped"
  write,      \* PgTx.write
  done,       \* PgTx.done
  inner,      \* PgTx.inner is Some (the mutex holds the PgTransaction)
  holder,     \* the task that holds the mutex
  waiters,    \* the FIFO queue of the tokio mutex
  pg,         \* the transaction as the server sees it
  line,       \* its connection: "up", or lost to the client; then "commit"
              \* and "cancel" are the statement that was on its way
  verdict,    \* what the closing call has reported, for the properties
  (* one call *)
  pc, cur, op, ans,
  (* the counters shared with PgStore *)
  tx_started, tx_active, tx_committed, tx_rolled_back

handle  == <<life, write, done, inner, holder, waiters>>
call    == <<pc, cur, op, ans>>
metrics == <<tx_started, tx_active, tx_committed, tx_rolled_back>>
vars    == <<handle, pg, line, verdict, call, metrics>>

Statements == {"read", "versioned", "write", "savepoint"}
Closers    == {"commit", "cancel"}
Undecided  == {"open", "aborted"}

(* "entered": called, nothing checked yet;  "waiting": queued on the mutex; *)
(* "claimed": done set, mutex still held;  "stmt"/"stmtDone": SQL sent,     *)
(* SQL answered;  "closing"/"closed": COMMIT or ROLLBACK sent, answered;    *)
(* "released": tx_active decremented, outcome not counted yet.              *)
PCs     == {"idle", "entered", "waiting", "claimed", "stmt", "stmtDone",
            "closing", "closed", "released"}
LockPCs == {"claimed", "stmt", "stmtDone"}
Awaiting == {"waiting", "stmt", "stmtDone", "closing", "closed"}

TypeOK ==
  /\ life \in [Tx -> {"unborn", "live", "dropped"}]
  /\ write \in [Tx -> BOOLEAN]
  /\ done \in [Tx -> BOOLEAN]
  /\ inner \in [Tx -> BOOLEAN]
  /\ holder \in [Tx -> Task \cup {NoTask}]
  /\ waiters \in [Tx -> Seq(Task)]
  /\ pg \in [Tx -> {"none", "open", "aborted", "committed", "rolledback"}]
  /\ line \in [Tx -> {"up", "down"} \cup Closers]
  /\ verdict \in [Tx -> {"none", "commitOk", "commitErr",
                         "cancelOk", "cancelErr"}]
  /\ pc \in [Task -> PCs]
  /\ cur \in [Task -> Tx \cup {NoTx}]
  /\ op \in [Task -> Statements \cup Closers]
  /\ ans \in [Task -> {"none", "ok", "err"}]
  /\ tx_started \in Nat
  /\ tx_active \in Nat
  /\ tx_committed \in Nat
  /\ tx_rolled_back \in Nat

Init ==
  /\ life = [t \in Tx |-> "unborn"]
  /\ write = [t \in Tx |-> FALSE]
  /\ done = [t \in Tx |-> FALSE]
  /\ inner = [t \in Tx |-> FALSE]
  /\ holder = [t \in Tx |-> NoTask]
  /\ waiters = [t \in Tx |-> <<>>]
  /\ pg = [t \in Tx |-> "none"]
  /\ line = [t \in Tx |-> "up"]
  /\ verdict = [t \in Tx |-> "none"]
  /\ pc = [k \in Task |-> "idle"]
  /\ cur = [k \in Task |-> NoTx]
  /\ op = [k \in Task |-> "read"]
  /\ ans = [k \in Task |-> "none"]
  /\ tx_started = 0
  /\ tx_active = 0
  /\ tx_committed = 0
  /\ tx_rolled_back = 0

-----------------------------------------------------------------------------
(* The life of a handle.                                                    *)

(* PgStore::begin has sent BEGIN; new_transaction wraps the PgTransaction.  *)
Begin(t, w) ==
  /\ life[t] = "unborn"
  /\ life' = [life EXCEPT ![t] = "live"]
  /\ write' = [write EXCEPT ![t] = w]
  /\ inner' = [inner EXCEPT ![t] = TRUE]
  /\ pg' = [pg EXCEPT ![t] = "open"]
  /\ tx_started' = tx_started + 1
  /\ tx_active' = tx_active + 1
  /\ UNCHANGED <<done, holder, waiters, line, verdict, call,
                 tx_committed, tx_rolled_back>>

(* PgTx::drop counts an unfinished transaction as rolled back.              *)
CountOnDropAlways(t) == 1   \* mutant: whatever `done' says
CountOnDrop(t) == IF done[t] THEN 0 ELSE 1

(* PgTransaction::drop decrements tx_active if it still has its connection. *)
ReleaseOnDropAlways(t) == 1 \* mutant: even after commit() or cancel()
ReleaseOnDropNever(t)  == 0 \* mutant: only commit() and cancel() decrement
ReleaseOnDrop(t) == IF inner[t] THEN 1 ELSE 0

(* The last reference goes away: every call borrows the handle, so no call  *)
(* is in progress.                                                          *)
DropHandle(t) ==
  /\ life[t] = "live"
  /\ \A k \in Task : cur[k] # t
  /\ life' = [life EXCEPT ![t] = "dropped"]
  /\ tx_rolled_back' = tx_rolled_back + CountOnDrop(t)
  /\ inner' = [inner EXCEPT ![t] = FALSE]
  /\ tx_active' = tx_active - ReleaseOnDrop(t)
  /\ UNCHANGED <<write, done, holder, waiters, pg, line, verdict, call,
                 tx_started, tx_committed>>

-----------------------------------------------------------------------------
(* A call up to the mutex.                                                  *)

(* An idle task's cur, op and ans are reset: nothing reads them.            *)
Return(k) ==
  /\ pc' = [pc EXCEPT ![k] = "idle"]
  /\ cur' = [cur EXCEPT ![k] = NoTx]
  /\ op' = [op EXCEPT ![k] = "read"]
  /\ ans' = [ans EXCEPT ![k] = "none"]

Call(k, t, o) ==
  /\ pc[k] = "idle"
  /\ life[t] = "live"
  /\ pc' = [pc EXCEPT ![k] = "entered"]
  /\ cur' = [cur EXCEPT ![k] = t]
  /\ op' = [op EXCEPT ![k] = o]
  /\ UNCHANGED <<ans, handle, pg, line, verdict, metrics>>

(* The checks before the mutex: a version is refused, then a finished       *)
(* handle, then a write on a read-only handle.                              *)
Refused(k) ==
  \/ op[k] = "versioned"
  \/ done[cur[k]]
  \/ op[k] = "write" /\ ~write[cur[k]]

Refuse(k) ==
  /\ pc[k] = "entered"
  /\ Refused(k)
  /\ Return(k)
  /\ UNCHANGED <<handle, pg, line, verdict, metrics>>

Enqueue(k) ==
  /\ pc[k] = "entered"
  /\ ~Refused(k)
  /\ pc' = [pc EXCEPT ![k] = "waiting"]
  /\ waiters' = [waiters EXCEPT ![cur[k]] = Append(@, k)]
  /\ UNCHANGED <<life, write, done, inner, holder, pg, line, verdict,
                 cur, op, ans, metrics>>

(* The tokio mutex hands over to the task that has waited longest.          *)
MyTurnUnfair(k) ==          \* mutant: an unfair mutex
  pc[k] = "waiting" /\ holder[cur[k]] = NoTask
MyTurn(k) ==
  /\ pc[k] = "waiting"
  /\ holder[cur[k]] = NoTask
  /\ waiters[cur[k]] # <<>>
  /\ Head(waiters[cur[k]]) = k

LeaveQueue(k) ==
  \E i \in 1..Len(waiters[cur[k]]) :
    /\ waiters[cur[k]][i] = k
    /\ waiters' = [waiters EXCEPT ![cur[k]] =
                     SubSeq(@, 1, i-1) \o SubSeq(@, i+1, Len(@))]

(* What a call finds once it owns the mutex: lock() looks for the           *)
(* PgTransaction, commit() and cancel() swap `done'.                        *)
FoundFinishedStale(k) ==    \* mutant: lock() relies on its check of `done'
  op[k] \in Closers /\ done[cur[k]]
FoundFinishedNoSwap(k) ==   \* mutant: closers rely on their check of `done'
  op[k] \notin Closers /\ ~inner[cur[k]]
FoundFinished(k) ==
  IF op[k] \in Closers THEN done[cur[k]] ELSE ~inner[cur[k]]

AcquireFinished(k) ==
  /\ MyTurn(k)
  /\ FoundFinished(k)
  /\ LeaveQueue(k)
  /\ Return(k)
  /\ UNCHANGED <<life, write, done, inner, holder, pg, line, verdict, metrics>>


(* A read or a write keeps the mutex while its statement travels.           *)
AcquireStatement(k) ==
  /\ MyTurn(k)
  /\ op[k] \in Statements
  /\ ~FoundFinished(k)
  /\ LeaveQueue(k)
  /\ holder' = [holder EXCEPT ![cur[k]] = k]
  /\ pc' = [pc EXCEPT ![k] = "stmt"]
  /\ UNCHANGED <<life, write, done, inner, pg, line, verdict, cur, op, ans, metrics>>

(* commit() and cancel(): done.swap(true) under the mutex ...               *)
Claim(k) ==
  /\ MyTurn(k)
  /\ op[k] \in Closers
  /\ ~FoundFinished(k)
  /\ LeaveQueue(k)
  /\ holder' = [holder EXCEPT ![cur[k]] = k]
  /\ done' = [done EXCEPT ![cur[k]] = TRUE]
  /\ pc' = [pc EXCEPT ![k] = "claimed"]
  /\ UNCHANGED <<life, write, inner, pg, line, verdict, cur, op, ans, metrics>>

(* ... then guard.take(), drop(guard), and COMMIT or ROLLBACK is sent.      *)
Take(k) ==
  /\ pc[k] = "claimed"
  /\ inner' = [inner EXCEPT ![cur[k]] = FALSE]
  /\ holder' = [holder EXCEPT ![cur[k]] = NoTask]
  /\ pc' = [pc EXCEPT ![k] = "closing"]
  /\ UNCHANGED <<life, write, done, waiters, pg, line, verdict, cur, op, ans, metrics>>

-----------------------------------------------------------------------------
(* PostgreSQL.                                                              *)

(* The states and answers a statement may lead to: only an open transaction *)
(* executes anything, any error aborts it, and ROLLBACK TO SAVEPOINT opens  *)
(* an aborted one again.                                                    *)
StatementOutcome(o, s) ==
  IF s = "open" THEN {<<"open", "ok">>, <<"aborted", "err">>}
  ELSE IF s = "aborted" /\ o = "savepoint" THEN {<<"open", "ok">>, <<s, "err">>}
  ELSE {<<s, "err">>}

(* COMMIT may fail (a serialization failure); of an aborted transaction it  *)
(* rolls back and says so in a command tag the client does not look at.     *)
CommitOutcome(s) ==
  IF s = "open" THEN {<<"committed", "ok">>, <<"rolledback", "err">>}
  ELSE IF s = "aborted" THEN {<<"rolledback", "ok">>}
  ELSE {<<s, "err">>}

RollbackOutcome(s) ==
  IF s \in Undecided THEN {<<"rolledback", "ok">>} ELSE {<<s, "err">>}

CloseOutcome(o, s) ==
  IF o = "commit" THEN CommitOutcome(s) ELSE RollbackOutcome(s)

(* On a connection it has lost the client gets an error for everything.     *)
Answers(t, outcomes) ==
  IF line[t] = "up" THEN outcomes ELSE {<<pg[t], "err">>}

Execute(k) ==
  /\ pc[k] = "stmt"
  /\ \E r \in Answers(cur[k], StatementOutcome(op[k], pg[cur[k]])) :
       /\ pg' = [pg EXCEPT ![cur[k]] = r[1]]
       /\ ans' = [ans EXCEPT ![k] = r[2]]
  /\ pc' = [pc EXCEPT ![k] = "stmtDone"]
  /\ UNCHANGED <<handle, line, verdict, cur, op, metrics>>

ExecuteClose(k) ==
  /\ pc[k] = "closing"
  /\ \E r \in Answers(cur[k], CloseOutcome(op[k], pg[cur[k]])) :
       /\ pg' = [pg EXCEPT ![cur[k]] = r[1]]
       /\ ans' = [ans EXCEPT ![k] = r[2]]
  /\ pc' = [pc EXCEPT ![k] = "closed"]
  /\ UNCHANGED <<handle, line, verdict, cur, op, metrics>>

(* The transactions whose connection the process still holds, in the handle *)
(* or in the future of the closing call.                                    *)
Closing(t) == \E k \in Task : pc[k] \in {"closing", "closed"} /\ cur[k] = t
Holding == {t \in Tx : inner[t] \/ Closing(t)}

(* The server ends the session, which the client learns by its next         *)
(* statement ...                                                            *)
EndSession(t) ==
  /\ t \in Holding
  /\ line[t] = "up"
  /\ pg[t] \in Undecided
  /\ pg' = [pg EXCEPT ![t] = "rolledback"]
  /\ UNCHANGED <<handle, line, verdict, call, metrics>>

(* ... or the client loses the connection, which the server need not know.  *)
(* COMMIT or ROLLBACK may be on its way, in one direction or the other.     *)
InFlight(t) ==
  {op[k] : k \in {j \in Task : pc[j] = "closing" /\ cur[j] = t}}

LoseConnection(t) ==
  /\ t \in Holding
  /\ line[t] = "up"
  /\ pg[t] \in Undecided
  /\ \/ InFlight(t) = {} /\ line' = [line EXCEPT ![t] = "down"]
     \/ \E o \in InFlight(t) : line' = [line EXCEPT ![t] = o]
  /\ UNCHANGED <<handle, pg, verdict, call, metrics>>

(* The server executes it although nobody waits for the answer any more.    *)
ExecuteLate(t) ==
  /\ line[t] \in Closers
  /\ pg[t] \in Undecided
  /\ \E r \in CloseOutcome(line[t], pg[t]) : pg' = [pg EXCEPT ![t] = r[1]]
  /\ UNCHANGED <<handle, line, verdict, call, metrics>>

(* A connection given up without COMMIT or ROLLBACK, or lost: the pool      *)
(* sends the ROLLBACK sqlx has queued, or the server finds the socket dead. *)
GivenUpByHandle(t) ==       \* mutant: only PgTx::drop gives it up
  life[t] = "dropped" /\ ~done[t]
GivenUp(t) == life[t] # "unborn" /\ (t \notin Holding \/ line[t] # "up")

OrphanRollback(t) ==
  /\ GivenUp(t)
  /\ pg[t] \in Undecided
  /\ pg' = [pg EXCEPT ![t] = "rolledback"]
  /\ UNCHANGED <<handle, line, verdict, call, metrics>>

-----------------------------------------------------------------------------
(* The end of a call.                                                       *)

FinishStatement(k) ==
  /\ pc[k] = "stmtDone"
  /\ holder' = [holder EXCEPT ![cur[k]] = NoTask]
  /\ Return(k)
  /\ UNCHANGED <<life, write, done, inner, waiters, pg, line, verdict, metrics>>

(* PgTransaction::commit/cancel returns: TxActiveGuard is dropped.          *)
CloseAnsweredOrNot(k) ==    \* mutant: the answer is not awaited
  pc[k] \in {"closing", "closed"}
CloseAnswered(k) == pc[k] = "closed"

ReleaseActive(k) ==
  /\ CloseAnswered(k)
  /\ tx_active' = tx_active - 1
  /\ pc' = [pc EXCEPT ![k] = "released"]
  /\ UNCHANGED <<handle, pg, line, verdict, cur, op, ans,
                 tx_started, tx_committed, tx_rolled_back>>

Verdict(o, a) ==
  IF o = "commit" THEN IF a = "ok" THEN "commitOk" ELSE "commitErr"
                  ELSE IF a = "ok" THEN "cancelOk" ELSE "cancelErr"

(* PgTx::commit/cancel counts the outcome and returns it.                   *)
FinishClose(k) ==
  /\ pc[k] = "released"
  /\ IF op[k] = "commit" /\ ans[k] = "ok"
     THEN /\ tx_committed' = tx_committed + 1
          /\ UNCHANGED tx_rolled_back
     ELSE /\ tx_rolled_back' = tx_rolled_back + 1
          /\ UNCHANGED tx_committed
  /\ verdict' = [verdict EXCEPT ![cur[k]] = Verdict(op[k], ans[k])]
  /\ Return(k)
  /\ UNCHANGED <<handle, pg, line, tx_started, tx_active>>

-----------------------------------------------------------------------------
(* A caller drops the future of a call: before its first poll or at an      *)
(* await point.  The future's locals are dropped with it.                   *)

DropEntered(k) ==
  /\ pc[k] = "entered"
  /\ Return(k)
  /\ UNCHANGED <<handle, pg, line, verdict, metrics>>

DropWaiting(k) ==
  /\ pc[k] = "waiting"
  /\ LeaveQueue(k)
  /\ Return(k)
  /\ UNCHANGED <<life, write, done, inner, holder, pg, line, verdict, metrics>>

(* The MutexGuard goes; a statement already sent is still executed.         *)
DropStatement(k) ==
  /\ pc[k] \in {"stmt", "stmtDone"}
  /\ \/ UNCHANGED pg
     \/ /\ pc[k] = "stmt"
        /\ \E r \in Answers(cur[k], StatementOutcome(op[k], pg[cur[k]])) :
             pg' = [pg EXCEPT ![cur[k]] = r[1]]
  /\ holder' = [holder EXCEPT ![cur[k]] = NoTask]
  /\ Return(k)
  /\ UNCHANGED <<life, write, done, inner, waiters, line, verdict, metrics>>

(* The PgTransaction goes, and with it TxActiveGuard and the connection,    *)
(* with the COMMIT or ROLLBACK that is on its way.  No outcome is counted.  *)
DropClosing(k) ==
  /\ pc[k] \in {"closing", "closed"}
  /\ line' = IF pc[k] = "closing" /\ line[cur[k]] = "up"
             THEN [line EXCEPT ![cur[k]] = op[k]] ELSE line
  /\ tx_active' = tx_active - 1
  /\ Return(k)
  /\ UNCHANGED <<handle, pg, verdict, tx_started, tx_committed, tx_rolled_back>>

DropFuture(k) ==
  /\ CancelFutures
  /\ \/ DropEntered(k)
     \/ DropWaiting(k)
     \/ DropStatement(k)
     \/ DropClosing(k)

-----------------------------------------------------------------------------
Proceed(k) ==
  \/ Refuse(k)
  \/ Enqueue(k)
  \/ AcquireFinished(k)
  \/ AcquireStatement(k)
  \/ Claim(k)
  \/ Take(k)
  \/ Execute(k)
  \/ ExecuteClose(k)
  \/ FinishStatement(k)
  \/ ReleaseActive(k)
  \/ FinishClose(k)

Next ==
  \/ \E t \in Tx, w \in BOOLEAN : Begin(t, w)
  \/ \E t \in Tx : DropHandle(t)
  \/ \E k \in Task, t \in Tx, o \in Statements \cup Closers : Call(k, t, o)
  \/ \E k \in Task : Proceed(k)
  \/ \E k \in Task : DropFuture(k)
  \/ \E t \in Tx :
       EndSession(t) \/ LoseConnection(t) \/ ExecuteLate(t) \/ OrphanRollback(t)

(* The executor keeps polling a future that can make progress, the server   *)
(* answers every statement (statement_timeout bounds it) and notices a      *)
(* connection that was given up or lost (TCP keepalives).  Nobody is        *)
(* obliged to begin, to call, to drop or to lose anything, nor the server   *)
(* to execute what was sent on a connection that is gone.                   *)
Fairness ==
  /\ \A k \in Task : WF_vars(Proceed(k))
  /\ \A t \in Tx : WF_vars(OrphanRollback(t))

Spec == Init /\ [][Next]_vars
FairSpec == Spec /\ Fairness

-----------------------------------------------------------------------------
(* Properties.                                                              *)

UsesConnection(k) == pc[k] \in {"stmt", "stmtDone", "closing", "closed"}

(* One PostgreSQL connection serves one statement at a time: no two calls   *)
(* ever use the connection of the same transaction, although commit() and   *)
(* cancel() send their statement after giving the mutex back.               *)
ConnectionExclusive ==
  \A k1, k2 \in Task :
    /\ UsesConnection(k1)
    /\ UsesConnection(k2)
    /\ cur[k1] = cur[k2]
    => k1 = k2

(* tx_active is the number of connections held by transactions: every path  *)
(* out of a transaction (commit, cancel, drop of the handle, drop of a      *)
(* future in mid-COMMIT) decrements it once, so it never underflows.        *)
ActiveCountExact == tx_active = Cardinality(Holding)

(* A transaction is unsettled while its outcome may still be counted.       *)
Settling(t) ==
  \E k \in Task :
    pc[k] \in {"claimed", "closing", "closed", "released"} /\ cur[k] = t
Unsettled == {t \in Tx : life[t] = "live" /\ (~done[t] \/ Settling(t))}

(* No transaction is counted twice: what commit(), cancel() and Drop have   *)
(* counted and what they may still count never exceeds tx_started.          *)
NeverOvercounted ==
  tx_committed + tx_rolled_back + Cardinality(Unsettled) <= tx_started

(* The identity README.md and PgTx::drop promise, once every handle has     *)
(* been dropped: tx_started = tx_committed + tx_rolled_back.                *)
MetricsIdentity ==
  (\A t \in Tx : life[t] # "live")
    => tx_started = tx_committed + tx_rolled_back

(* Only commit() commits, and it knows: a transaction that was cancelled    *)
(* (the future of cancel() dropped in mid-ROLLBACK included), or whose      *)
(* handle was dropped without a closing call, is never committed on the     *)
(* server, and one whose commit() returned an error, and is counted as      *)
(* rolled back, only if the connection was lost with COMMIT on its way.     *)
CommittedOnlyByCommit ==
  \A t \in Tx :
    pg[t] = "committed" =>
      /\ done[t]
      /\ line[t] \in {"up", "commit"}
      /\ verdict[t] \notin {"cancelOk", "cancelErr"}
      /\ verdict[t] = "commitErr" => line[t] = "commit"

(* When commit() or cancel() has returned Ok, the server-side outcome is    *)
(* decided and final; when it has returned an error, too, unless the        *)
(* connection was lost: then the server may still commit or roll back.      *)
OutcomeIsFinal ==
  [][\A t \in Tx :
       \/ verdict[t] \in {"commitOk", "cancelOk"}
       \/ verdict[t] # "none" /\ line[t] = "up"
       => pg'[t] = pg[t]]_vars

(* Every call on a handle returns, whatever the others do: the FIFO mutex   *)
(* starves nobody and no path keeps it.                                     *)
CallsReturn == \A k \in Task : pc[k] # "idle" ~> pc[k] = "idle"

(* No transaction lingers on the server once its handle is gone, however    *)
(* its last call ended.                                                     *)
NoLingeringTransaction ==
  \A t \in Tx : life[t] = "dropped" ~> pg[t] \notin Undecided

=============================================================================
