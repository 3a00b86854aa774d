---------------------------- MODULE KvIsolation ----------------------------
(***************************************************************************)
(* Concurrent key-value transactions (src/transaction.rs) on one table, at *)
(* the isolation level that PgStore puts into its BEGIN (src/store.rs),    *)
(* and the errors they end in as SurrealDB sees them (src/error.rs).       *)
(*                                                                         *)
(* A write call is one SQL statement, which PostgreSQL executes row by     *)
(* row: it locks a row until the end of the transaction, waiting for       *)
(* another transaction that holds it.  `todo' is what is left of the       *)
(* statement in progress.  Savepoints are left to KvTransaction.           *)
(***************************************************************************)
EXTENDS Naturals, Sequences, PgErrors

CONSTANTS
  Tx, Key, Val,
  NoVal,       \* the absence of a row
  NoTx,        \* the absence of a lock
  Nothing,     \* no snapshot, no write, no read, no condition
  Tables,      \* what the table may contain at first
  MaxCalls     \* bounds on the calls of the transactions

ASSUME KvIsolationAssumption ==
  /\ Key \subseteq Nat
  /\ NoVal \notin Val
  /\ NoTx \notin Tx
  /\ Nothing \notin Val \cup {NoVal} \cup [Key -> Val \cup {NoVal}]
  /\ Tables \subseteq [Key -> Val \cup {NoVal}]
  /\ MaxCalls \in [Tx -> Nat]

VARIABLES
  iso,      \* the isolation level of the store
  table,    \* the committed rows
  owner,    \* who holds the lock on each key
  own,      \* the uncommitted writes of each transaction
  snap,     \* its snapshot, if it keeps one
  stale,    \* keys that others have changed since its snapshot
  todo,     \* the rows its statement in progress has still to lock
  status,
  calls,    \* number of calls made
  told,     \* the classes of errors SurrealDB was told
  (* for the properties *)
  cas,      \* the value a conditional write has compared a key with
  seen      \* the value read first, before any write

server == <<table, owner, own, snap, stale, todo, status>>
vars   == <<iso, server, calls, told, cas, seen>>

Levels  == {"ReadCommitted", "RepeatableRead", "Serializable"}
Content == Val \cup {NoVal}

Rows ==
  [kind : {"set", "put", "putc", "del", "delc"}, key : Key, val : Content, chk : Content]

TypeOK ==
  /\ iso \in Levels
  /\ table \in [Key -> Content]
  /\ owner \in [Key -> Tx \cup {NoTx}]
  /\ own \in [Tx -> [Key -> Content \cup {Nothing}]]
  /\ snap \in [Tx -> [Key -> Content] \cup {Nothing}]
  /\ stale \in [Tx -> SUBSET Key]
  /\ todo \in [Tx -> Seq(Rows)]
  /\ \A t \in Tx : \A i, j \in DOMAIN todo[t] :
       todo[t][i].key = todo[t][j].key => i = j
  /\ status \in [Tx -> {"open", "aborted", "committed", "rolledback"}]
  /\ calls \in [Tx -> Nat] /\ \A t \in Tx : calls[t] <= MaxCalls[t]
  /\ told \in [Tx -> SUBSET {"TransactionConflict", "ConnectionFailed", "Transaction"}]
  /\ cas \in [Tx -> [Key -> Content \cup {Nothing}]]
  /\ seen \in [Tx -> [Key -> Content \cup {Nothing}]]

Init ==
  /\ iso \in Levels
  /\ table \in Tables
  /\ owner = [k \in Key |-> NoTx]
  /\ own = [t \in Tx |-> [k \in Key |-> Nothing]]
  /\ snap = [t \in Tx |-> Nothing]
  /\ stale = [t \in Tx |-> {}]
  /\ todo = [t \in Tx |-> <<>>]
  /\ status = [t \in Tx |-> "open"]
  /\ calls = [t \in Tx |-> 0]
  /\ told = [t \in Tx |-> {}]
  /\ cas = [t \in Tx |-> [k \in Key |-> Nothing]]
  /\ seen = [t \in Tx |-> [k \in Key |-> Nothing]]

-----------------------------------------------------------------------------
(* What a transaction sees.                                                 *)

(* BEGIN ISOLATION LEVEL: a snapshot for the transaction, taken by its      *)
(* first statement, or one for each statement.                              *)
KeepsSnapshotNever == FALSE       \* mutant: BEGIN without the isolation level
KeepsSnapshot == iso # "ReadCommitted"

Written(t, k) == own[t][k] # Nothing
Snapshot(t)   == IF snap[t] = Nothing THEN table ELSE snap[t]
View(t, k)    == IF Written(t, k) THEN own[t][k] ELSE Snapshot(t)[k]
Current(t, k) == IF Written(t, k) THEN own[t][k] ELSE table[k]

(* A repeatable-read transaction may not write a row version that its       *)
(* snapshot does not contain.                                               *)
Outdated(t, k) == KeepsSnapshot /\ ~Written(t, k) /\ k \in stale[t]

-----------------------------------------------------------------------------
(* The end of a transaction on the server.                                  *)

Unlock(t) ==
  /\ owner' = [k \in Key |-> IF owner[k] = t THEN NoTx ELSE owner[k]]
  /\ own' = [own EXCEPT ![t] = [k \in Key |-> Nothing]]
  /\ snap' = [snap EXCEPT ![t] = Nothing]
  /\ todo' = [todo EXCEPT ![t] = <<>>]

(* The errors told of here do not depend on the key a caller names.         *)
Tell(t, e) == told' = [told EXCEPT ![t] = @ \cup {KvsError(from_sqlx(FALSE, e))}]

(* An error rolls the transaction back at once; the handle stays.           *)
Abort(t, e) ==
  /\ Unlock(t)
  /\ stale' = [stale EXCEPT ![t] = {}]
  /\ status' = [status EXCEPT ![t] = "aborted"]
  /\ Tell(t, e)
  /\ UNCHANGED <<iso, table, calls, cas, seen>>

-----------------------------------------------------------------------------
(* Calls.                                                                   *)

Row(kind, k, v, chk) == [kind |-> kind, key |-> k, val |-> v, chk |-> chk]

(* A call of t sends a statement; it first fixes the snapshot.              *)
Call(t) ==
  /\ status[t] = "open"
  /\ todo[t] = <<>>
  /\ calls[t] < MaxCalls[t]
  /\ calls' = [calls EXCEPT ![t] = @ + 1]
  /\ snap' = [snap EXCEPT ![t] = IF KeepsSnapshot THEN Snapshot(t) ELSE Nothing]
  /\ UNCHANGED <<iso, table, owner, own, status, told, cas>>

(* get, and the other reads likewise.                                       *)
get(t, k) ==
  /\ Call(t)
  /\ seen' = IF Written(t, k) \/ seen[t][k] # Nothing THEN seen
             ELSE [seen EXCEPT ![t][k] = View(t, k)]
  /\ UNCHANGED <<stale, todo>>

Statement(t, rows) ==
  /\ Call(t)
  /\ todo' = [todo EXCEPT ![t] = rows]
  /\ stale' = IF KeepsSnapshot THEN stale ELSE [stale EXCEPT ![t] = {}]
  /\ UNCHANGED seen

(* INSERT ... ON CONFLICT goes straight to the row.                         *)
set(t, k, v) == Statement(t, <<Row("set", k, v, NoVal)>>)
put(t, k, v) == Statement(t, <<Row("put", k, v, NoVal)>>)

(* setm: every key once (see KvBatch), in the caller's order, or for large  *)
(* batches in that of a HashMap.                                            *)
DistinctKeysNot(keys) == TRUE              \* mutant: no dedup_pairs
DistinctKeys(keys) == keys[1] # keys[2]

setm(t, keys, v) ==
  /\ DistinctKeys(keys)
  /\ Statement(t, [i \in DOMAIN keys |-> Row("set", keys[i], v, NoVal)])

(* UPDATE and DELETE: the WHERE clause selects rows of the snapshot.  If it *)
(* selects none, no row is affected (Ok for del, ConditionNotMet else).     *)
If(selected, row) == IF selected THEN <<row>> ELSE <<>>
Where(t, row, selected) == Statement(t, If(selected, row))

putc(t, k, v, chk) ==
  Where(t, Row("putc", k, v, chk), View(t, k) = chk)
del(t, k) ==
  Where(t, Row("del", k, NoVal, NoVal), View(t, k) # NoVal)
delc(t, k, chk) ==
  Where(t, Row("delc", k, NoVal, chk), View(t, k) = chk)

(* delr, over two neighbouring keys.                                        *)
delr(t, lo, hi) ==
  /\ lo < hi
  /\ Statement(t, If(View(t, lo) # NoVal, Row("del", lo, NoVal, NoVal))
                  \o If(View(t, hi) # NoVal, Row("del", hi, NoVal, NoVal)))

-----------------------------------------------------------------------------
(* The execution of a statement, row by row.                                *)

Pending(t) == todo[t] # <<>>
NextRow(t) == Head(todo[t])
Blocked(t) == Pending(t) /\ owner[NextRow(t).key] \notin {NoTx, t}

Conditional == {"put", "putc", "delc"}

(* With the lock, the condition is evaluated again on the latest version of *)
(* the row (in read committed, the only one it can have missed).            *)
StillHoldsAny(t, row) ==            \* mutant: compared before the lock only
  row.kind \in Conditional \/ Current(t, row.key) # NoVal
StillHolds(t, row) ==
  CASE row.kind = "set" -> TRUE
    [] row.kind = "put" -> Current(t, row.key) = NoVal
    [] row.kind = "del" -> Current(t, row.key) # NoVal
    [] OTHER -> Current(t, row.key) = row.chk

(* An upsert or insert meets a row its snapshot lacks, an update or delete  *)
(* finds its row changed or gone.                                           *)
CannotSerialize(t, row) ==
  /\ Outdated(t, row.key)
  /\ row.kind \in {"set", "put"} => table[row.key] # NoVal

WriteRow(t) ==
  LET row == NextRow(t)
      k   == row.key
  IN  /\ StillHolds(t, row)
      /\ owner' = [owner EXCEPT ![k] = t]
      /\ own' = [own EXCEPT ![t][k] = row.val]
      /\ cas' = IF row.kind \in Conditional /\ ~Written(t, k)
                THEN [cas EXCEPT ![t][k] = row.chk] ELSE cas

(* No row is affected: the condition no longer holds, or the row was        *)
(* deleted and inserted anew, which an update does not follow.  A row that  *)
(* was looked at again stays locked.                                        *)
SkipRow(t) ==
  LET row == NextRow(t)
      k   == row.key
  IN  /\ \/ ~StillHolds(t, row)
         \/ row.kind \notin {"set", "put"} /\ ~Written(t, k) /\ k \in stale[t]
      /\ owner' = IF row.kind # "put" /\ Current(t, k) # NoVal
                  THEN [owner EXCEPT ![k] = t] ELSE owner
      /\ UNCHANGED <<own, cas>>

ExecuteRow(t) ==
  /\ Pending(t)
  /\ ~Blocked(t)
  /\ IF CannotSerialize(t, NextRow(t)) THEN Abort(t, "40001")
     ELSE /\ WriteRow(t) \/ SkipRow(t)
          /\ todo' = [todo EXCEPT ![t] = Tail(@)]
          /\ UNCHANGED <<iso, table, snap, stale, status, calls, told, seen>>

(* session_sql: SET lock_timeout, on the session of the transaction.        *)
LockTimeoutNone == FALSE            \* mutant: lock_timeout is not set
LockTimeoutSet == TRUE

LockTimeout(t) == Blocked(t) /\ LockTimeoutSet /\ Abort(t, "55P03")

(* PostgreSQL's deadlock detector: t waits for itself through others.       *)
Holder(t) == owner[NextRow(t).key]
Waiting(C) == C # {} /\ \A t \in C : Blocked(t) /\ Holder(t) \in C
Cycle(C) == Waiting(C) /\ \A D \in SUBSET C : Waiting(D) => D = C

DetectDeadlock(t) ==
  /\ \E C \in SUBSET Tx : t \in C /\ Cycle(C)
  /\ Abort(t, "40P01")

(* Serializable transactions may fail in any call.                          *)
DetectConflict(t) ==
  /\ iso = "Serializable"
  /\ status[t] = "open"
  /\ Abort(t, "40001")

-----------------------------------------------------------------------------
(* The end.                                                                 *)

Commit(t) ==
  /\ status[t] = "open"
  /\ todo[t] = <<>>
  /\ Unlock(t)
  /\ table' = [k \in Key |-> IF Written(t, k) THEN own[t][k] ELSE table[k]]
  /\ stale' = [u \in Tx |->
                 IF u = t THEN {}
                 ELSE IF snap[u] # Nothing \/ Pending(u)
                 THEN stale[u] \cup {k \in Key : Written(t, k)} ELSE stale[u]]
  /\ status' = [status EXCEPT ![t] = "committed"]
  /\ UNCHANGED <<iso, calls, cas, seen>>

CommitOk(t) == Commit(t) /\ UNCHANGED told

(* The answer to COMMIT is lost with the connection.                        *)
CommitUnknown(t) == Commit(t) /\ \E e \in SessionErrors : Tell(t, e)

(* cancel(), or commit() of a transaction PostgreSQL has aborted.           *)
Rollback(t) ==
  /\ status[t] \in {"open", "aborted"}
  /\ todo[t] = <<>>
  /\ Unlock(t)
  /\ stale' = [stale EXCEPT ![t] = {}]
  /\ status' = [status EXCEPT ![t] = "rolledback"]
  /\ UNCHANGED <<iso, table, calls, told, cas, seen>>

(* The session ends: the connection breaks, or the transaction was idle for *)
(* longer than idle_in_transaction_session_timeout.                         *)
LoseSession(t) ==
  /\ status[t] \in {"open", "aborted"}
  /\ Unlock(t)
  /\ stale' = [stale EXCEPT ![t] = {}]
  /\ status' = [status EXCEPT ![t] = "rolledback"]
  /\ IF Pending(t) THEN \E e \in SessionErrors : Tell(t, e) ELSE UNCHANGED told
  /\ UNCHANGED <<iso, table, calls, cas, seen>>

-----------------------------------------------------------------------------
Calls(t) ==
  \/ \E k \in Key : get(t, k) \/ del(t, k)
  \/ \E k \in Key, v \in Val : set(t, k, v) \/ put(t, k, v)
  \/ \E k \in Key, v, chk \in Val : putc(t, k, v, chk)
  \/ \E k \in Key, chk \in Val : delc(t, k, chk)
  \/ \E lo, hi \in Key : delr(t, lo, hi)
  \/ \E keys \in [1..2 -> Key], v \in Val : setm(t, keys, v)

Next ==
  \E t \in Tx :
    \/ Calls(t)
    \/ ExecuteRow(t)
    \/ LockTimeout(t)
    \/ DetectDeadlock(t)
    \/ DetectConflict(t)
    \/ CommitOk(t)
    \/ CommitUnknown(t)
    \/ Rollback(t)
    \/ LoseSession(t)

Spec == Init /\ [][Next]_vars

(* PostgreSQL goes on with a statement that can proceed, and its timer ends *)
(* one that cannot.  Nothing is assumed of the callers.                     *)
FairSpec == Spec /\ \A t \in Tx : WF_vars(ExecuteRow(t) \/ LockTimeout(t))

-----------------------------------------------------------------------------
(* Properties.                                                              *)

(* put, putc and delc are atomic across transactions at every isolation     *)
(* level: when a transaction commits, the committed row is still the one    *)
(* its conditional write was compared with, so that of two transactions     *)
(* that saw the same value only one can succeed.                            *)
Commits(t) == status[t] # "committed" /\ status'[t] = "committed"
NoLostCas ==
  [][\A t \in Tx, k \in Key :
       Commits(t) /\ cas[t][k] # Nothing => table[k] = cas[t][k]]_vars

(* With isolation_level=repeatable_read or serializable, a transaction that *)
(* read a row and then wrote it overwrites the row it read and no other;    *)
(* except that set() and setm() insert anew a row that was deleted since.   *)
NoUnseenOverwrite ==
  [][\A t \in Tx, k \in Key :
       Commits(t) /\ iso # "ReadCommitted" /\ Written(t, k) /\ seen[t][k] # Nothing
         => table[k] \in {seen[t][k], NoVal}]_vars

(* TransactionConflict, the class of Deadlock and SerializationFailure      *)
(* ("the caller may retry"), is told of a transaction only if it is not and *)
(* never will be committed: to run that one again does nothing twice.  It   *)
(* is the only class of which this holds.  A lost connection, which the doc *)
(* of PgStoreError::Io calls retryable too, is told as ConnectionFailed or  *)
(* Transaction, and CommitUnknown tells it of a transaction that committed. *)
ConflictNeverCommits ==
  \A t \in Tx : "TransactionConflict" \in told[t] => status[t] # "committed"

(* Every call returns, however long others keep their transactions open:    *)
(* lock_timeout ends the wait that no deadlock explains (README.md:613,     *)
(* "lock_timeout ... 10s").                                                 *)
CallsReturn == \A t \in Tx : Pending(t) ~> ~Pending(t)

=============================================================================
