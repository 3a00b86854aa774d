# TLA+ verification of surreal-pg

surreal-pg stores SurrealDB's data in PostgreSQL: it implements SurrealDB's
transaction traits on one key-value table. This directory holds TLA+ models of
its core, TLC configurations that check them on small instances, and TLAPS
proofs. File names below are relative to `src/src/`; other documents are those
of the repository (`src/README.md`).

## 1. The system

### Components

| component | file | state | operations |
|---|---|---|---|
| `PgTx`, the handle SurrealDB's tasks share | `pg_tx.rs` | tokio mutex around `Option<PgTransaction>`, flag `done`, `write`; shared counters `tx_committed`, `tx_rolled_back` | every method of `Transactable`, `commit`, `cancel`, `Drop` |
| `PgTransaction`, one PostgreSQL transaction | `transaction.rs` | the connection, the stack `savepoints` of names, `savepoint_counter`, `tx_active` (shared) | reads, scans, `set`/`setm`/`put`/`putc`/`del`/`delc`/`delr`, savepoints, `commit`, `cancel`, `Drop` |
| `PgStore` | `store.rs`, `pg_builder.rs` | sqlx pool or connect options, barrier `shutting_down`, counters, heartbeat token and `JoinHandle` | `new`, `begin`, `vacuum`, `health_check`, `shutdown`, `Drop`, metrics |
| heartbeat of direct mode | `store.rs` | `conn`, `consecutive_failures` | a loop of interval, connect, `SELECT 1`, back-off |
| `PostgresComposer` | `composer.rs` | none | builds the store and hands a clone of it to the server |
| errors | `error.rs` | none | SQLSTATE to error class, transient or not, class to SurrealDB's error |
| configuration | `config.rs`, `tune.rs`, `store.rs` | none | URL and environment to settings |
| tuning | `tune.rs` | none | variables to session SQL and storage parameters |
| startup | `store.rs`, `tune.rs` | the table and its partitions, in PostgreSQL | `PgStore::new` on every server: connect, CREATE, tune, check |

### How they interact

SurrealDB calls `PgStore::begin` through `new_transaction`, wraps the
`PgTransaction` in a `PgTx` and shares it between its tasks. Every call is a
future; the engine may drop it at any `.await`. `PgTx` serialises calls with
the mutex, except that `commit` and `cancel` take the `PgTransaction` out and
send their statement *after* they have released it. The four counters and the
barrier are atomics shared by `Arc`: `shutdown` reads `tx_active`, which guards
and destructors of `PgTransaction` decrement. The pool belongs to sqlx and is
used by transactions and by maintenance alike. Transactions of all servers meet
in PostgreSQL, on the rows of one table, and so do servers that start at the
same time, on the catalog. All clones of a `PgStore` share
one cancellation token with the heartbeat task, and dropping any of them
cancels it.

### What is hard

* concurrent commit, cancel and statements on one handle, and futures dropped
  while they wait, hold the mutex, or have COMMIT in flight;
* a lost answer to COMMIT, and PostgreSQL's habit of answering COMMIT of an
  aborted transaction without an error;
* counters that several destructors update: once, not twice, not never;
* `begin` against `shutdown`, with connections, retries and returns in flight;
* background work that must end with its owner, even when PostgreSQL hangs;
* write calls of several transactions that wait for each other's row locks, and
  an error class by which SurrealDB decides whether to run a transaction again;
* servers that create the table at once, with settings that differ;
* a client-side stack of savepoint names that must mirror the server's while
  statements fail and futures are dropped;
* boundaries: chunks, deduplication, pages, a counter that wraps.

`PROJECT.json` lists the hazards at their lines with the properties that cover
them.

### What makes each part correct

* **PgTx** - one call at a time on a connection; exact `tx_active`; every
  transaction counted at most once, and exactly once if no future is dropped;
  an outcome reported as Ok is final, one reported as an error only if the
  connection is still there; only `commit` commits; every call returns; nothing
  lingers on the server.
* **PgTransaction** - a call has the effect of its plain meaning (conditional
  writes exact, the last value of a batch wins); savepoints behave like a stack
  of snapshots.
* **PgStore** - every `begin` returns; `shutdown` returns without waiting for
  its caller; afterwards the store is silent.
* **Heartbeat** - its token is cancelled exactly when the store is gone, failed
  or shut down, and it never reuses a connection that failed.
* **Transactions together** - conditional writes are atomic; a repeatable-read
  transaction overwrites only what it has read; no call waits for ever; the
  class of error that means a conflict is told of no transaction that commits.
* **Startup** - a server that is up has the table it is configured for; the
  settings come from the sources their rules say; no partition gets a name
  PostgreSQL would truncate; whichever way it ends, the
  heartbeat ends with the store.

## 2. Modules

| module | what it is | code |
|---|---|---|
| `PgTx` | the handle, its tasks, the server's view of each transaction, the counters | `pg_tx.rs`, `transaction.rs` (commit, cancel, `TxActiveGuard`, `Drop`), `pg_builder.rs` |
| `MCPgTx` | TLC instances of `PgTx` | |
| `PgTxProofs` | inductive invariant and theorems about `PgTx` | |
| `PgErrors` | errors of sqlx and PostgreSQL to classes and to SurrealDB's errors | `error.rs` |
| `PgStore`, `MCPgStore` | begin, maintenance and shutdown on an external pool, extends `PgErrors` | `store.rs` |
| `PgStoreProofs` | inductive invariant and theorems about `PgStore` | |
| `KvIsolation`, `MCKvIsolation` | the write calls of several transactions on one table, row by row, extends `PgErrors` | `transaction.rs`, `store.rs` (BEGIN), `tune.rs` (`lock_timeout`) |
| `KvIsolationProofs` | inductive invariants and theorems about `KvIsolation` | |
| `KvBatch` | `dedup_pairs`, `getm`, scans and pages as operators | `transaction.rs` |
| `KvTransaction`, `MCKvTransaction` | one `PgTransaction` statement by statement, extends `KvBatch` | `transaction.rs` |
| `KvTransactionProofs` | what batches compute; two inductive invariants, theorems about `KvTransaction` and its refinement of `NestedTx` | |
| `NestedTx` | abstract specification: a transaction with anonymous nested snapshots, implemented by `KvTransaction` (`Nested == INSTANCE NestedTx WITH ...`) | |
| `Heartbeat` | the heartbeat task, the owners of its token; the contract that `PgStore::new` must keep | `store.rs`, `composer.rs` |
| `HeartbeatProofs` | inductive invariant and theorems about `Heartbeat` | |
| `PgConfig` | URL, environment and defaults to settings, as operators | `config.rs`, `tune.rs`, `store.rs` |
| `PgConfigProofs` | what the merge of URL, environment and defaults yields, for URLs of any length | |
| `Folding` | induction over numbers and sequences, and what `FoldLeft` computes, for an operator `Op` given by `INSTANCE` | |
| `PgTune` | what `from_env` lets through and what the SQL generators assert, as operators | `tune.rs`, `store.rs` |
| `Startup`, `MCStartup` | `PgStore::new` on several servers and one database; extends `PgConfig` and `PgTune`, implements `Heartbeat` (`Hb == INSTANCE Heartbeat WITH ...`) | `store.rs`, `tune.rs`, `migrations/001_init_kv.sql` |
| `StartupProofs` | inductive invariant and theorems about `Startup`, its refinement of `Heartbeat`; extends `PgConfigProofs`, instantiates `HeartbeatProofs` | |

The modules meet at their borders: `PgStore` treats a transaction as a
connection held until its owner ends it, which `PgTx` details; `PgTx` treats a
statement as something that succeeds or aborts, which `KvTransaction` details;
`KvTransaction` assumes one call at a time, which `PgTx!ConnectionExclusive`
shows, and has its table to itself, which `KvIsolation` gives up; `Heartbeat`
takes `PgStore::new` as one step that succeeds or not, which `Startup` details.

### State and actions against the code

**PgTx.** `inner[t]` is "the mutex holds `Some(PgTransaction)`", `holder` and
`waiters` are the tokio mutex (documented as FIFO). A call goes
`entered -> waiting -> ...` through the checks of `check_version`, `lock` and
`lock_write` (`Refused`), the queue, and the second check under the mutex
(`FoundFinished`: `guard.is_none()` for statements, `done.swap` for closers).
Statements of the same shape are one action: `op` is "read" for every method
that goes through `lock()`, "savepoint" for those among them that may open an
aborted transaction again, "versioned" for a read with a version, "write" for
`lock_write()`. `Claim` is the swap, `Take`
is `guard.take()` with `drop(guard)`; `Execute` and `ExecuteClose` are the
server; `ReleaseActive` is the drop of `TxActiveGuard` and `FinishClose` the
counting that follows it. A call that sends nothing (an empty range, a key
batch without keys) is the case of a statement that answers without effect.
`DropFuture` is a future dropped at an await point; its locals are dropped
with it, so the mutex guard or the `TxActiveGuard` and the connection go.
Client and server need not learn together that a connection is gone. `line[t]`
is the client's side: `EndSession` is the server ending the session while the
client still believes in it, `LoseConnection` the client's loss (every later
answer is an error), with which COMMIT or ROLLBACK may be on its way; then
`ExecuteLate` may execute it, before or after the client has returned, or
`OrphanRollback` finds the socket dead. A closing future dropped before its
answer leaves its statement on its way in the same manner.

**PgStore.** Both retry loops share `head -> ... -> sleep -> head`. An attempt
fails with any error sqlx may report, and `is_transient(from_sqlx(keyed, e))` decides
whether there is another one; a closed pool is an error of its own. In direct mode the best-effort
ROLLBACK after a failed BEGIN is part of `BeginFailed`; it cannot fail the
call. The zombie detection of
`begin_pooled` changes log lines and the length of a delay, and is left out.
`shut` is the program counter of `shutdown`. The sqlx pool opens
connections on demand and, up to `min_connections`, in the background
(`OpenIdle`), returns them through a background ping, reaps idle ones
and after `close()` refuses every acquire.

**Heartbeat.** `hb` names the await the task is in; each is a `select!` with
the token. Durations are left out. `composed` is decided once: whether the
store is built by `PostgresComposer` (the server) or by calling `PgStore::new`
(the integration tests).

**Startup.** `step[s]` is where the future of `PgStore::new` is on server `s`.
The heartbeat of one server, `Local`, is followed: `Original` is the store that
`new` builds, as `Heartbeat` sees it, and `GuardCancels` the Drop of
`HeartbeatGuard` on every early return and on a dropped future (`Fail`).
`CREATE TABLE IF NOT EXISTS` and the partitions travel in one command, so they
are one PostgreSQL transaction (`creating` until `CreateCommits`); the check
for existence precedes the commit of a concurrent CREATE, which
`CreateCollides` turns into the unique violation PostgreSQL reports.
Before it sends anything `new` makes the SQL for the table, and panics there if
the table's name and the suffix of the last partition exceed 63 bytes
(`Panic`: `validate_partition_names`, `tune.rs:144`; the stack unwinds through
`HeartbeatGuard` like any other failure). Names are "kv", "KV" and "long", of
`LongBytes` bytes.
`table` is the number of partitions, and `part_cnt` what the check's query finds
under the name it is given. `Restart` and `Recreate` are outside: another server
stops, an operator drops the table or runs the migration script. A URL is a
sequence of parameters with abstract values (`Unset` for a number that does not
parse); the settings are computed by `PgConfig!Settings`, from the same merge
order. The tuning variables of `PgTune` come in one at a time, each at and about
the limits of its range, fractions in hundredths, durations in milliseconds.
Tuning the table itself is best-effort: its failure is logged and changes
nothing else.

**KvIsolation.** A call hands PostgreSQL the rows its statement selects
(`todo`); `ExecuteRow` locks and writes one. `WHERE` clauses are evaluated on
the statement's snapshot (`View`) and again on the locked row (`StillHolds`),
INSERT ... ON CONFLICT only on the latter. `stale` holds the keys others have
changed since the snapshot: in read committed they are looked at again, else the
statement fails with 40001. A client meanwhile may be told an error
(`told`: the class `KvsError(from_sqlx(keyed, e))`), from a lost answer to
COMMIT too. The codes that occur here do not depend on whether the caller names
a key; only 23505 does, which no statement of the code can cause (inserts have
ON CONFLICT).
`cas` and `seen` are history. Savepoints, chunks and dropped futures are left to
`KvTransaction`.

**KvTransaction.** A call sets `todo` (a statement) and `cont` (where it
resumes), `Execute` runs the statement on the server state
`table, view, stack, status`, and `Answered`, `SavepointAnswered`, `NextChunk`
and `ReleaseRestored` are the code after the `.await`. Names are numbers modulo
`Wrap`. `orphan` is a statement whose call was dropped after sending it: sqlx
reads its answer before it sends anything else, so a call that follows waits,
and dropped while waiting it sends nothing. Keys are numbers, values model
values; SQL text, escaping and encoding are left out. `goal` and the `snap` of
the client's stack are history, read by properties only. Two of the code's
limits are constants so that both sides of them are met: `SETM_MAX_PAIRS`
(32,000) and the thresholds of `dedup_pairs` and `getm` (32, 64, 8192).

**External parts**, modelled from how the code uses them: PostgreSQL's
transaction states and savepoints, the tokio mutex, the sqlx pool and
connection, the caller that drops futures, and the cursor of SurrealDB that
asks for the next page.

## 3. Runs

| run | instance | shows |
|---|---|---|
| `pgtx` | 1 transaction, 3 tasks, dropped futures | types, exclusive use, exact `tx_active`, no overcount, only commit commits, and after an error only if COMMIT was on its way when the connection was lost; outcomes that are known are final; every call returns; nothing lingers on the server |
| `store` | 3 tasks, pool of 2, 2 transactions | begin and shutdown return, a clean pooled shutdown is final, silence afterwards |
| `startup` | 2 servers, up to 2 URL parameters of 21, 3 environments, every tuning variable about its limits, tables with 0, 2, 4 or 11 partitions | a server that is up has the table it is configured for; the merge is exact; no number trips an assertion, no time limit is lost; no partition's name is truncated (the server panics instead); refinement of `Heartbeat`, whose task outlives neither its store nor a failed startup |
| `kv_isolation` | 2 transactions (2 calls and 1), 2 keys, 2 values, 3 isolation levels | conditional writes are atomic, no unseen overwrite, a conflict is told of no transaction that commits, every call returns |
| `kv_data` | 3 keys, 2 values, all operations, chunks of 2, batches of 3 | conditional writes are exact, chunked `setm` equals setting in turn; deduplication, `getm` and pages equal their plain meaning on every table and batch |
| `kv_savepoints` | depth 3, names modulo 2, failures | the stacks agree; refinement of `NestedTx` |
| `kv_dropped` | depth 3, dropped futures | a rollback reported as done restored its own savepoint |

Each property is checked against a mutated model as well (`mutants` in
`PROJECT.json`; the mutated operators stand next to the originals, marked
"mutant") and is violated there.

### Disagreements found

These five runs check what a comment or a document says and end in a
counterexample; the code does otherwise.

* `heartbeat_composer` - `new_transaction_builder` boxes a clone of the store
  and drops the `Arc`; `Drop` cancels the token the clone shares. In the server
  the heartbeat of direct mode never runs. `store.rs:110` says this cannot
  happen.
* `pgtx_identity_lost` - a commit or cancel dropped between `done.swap` and the
  counting is counted nowhere, so the identity of `README.md:686` is lost.
  Without dropped futures it holds (`IdentityWithoutDrops`, section 4).
* `store_late_start` - in direct mode a `begin` that passed the barrier starts
  its transaction after `shutdown` returned (`store.rs:775`). `BarrierSilences`
  holds: such a transaction is the last.
* `startup_folded` - the partition check compares `pg_class.relname` with the
  table name as configured, while every other statement uses it unquoted and so
  folded: with `table_name=KV` the check finds 0 partitions whatever there are,
  against `README.md:153`. A server for an unpartitioned table then starts on
  one with four; one for four never starts. The `startup` run, whose names are
  lower-case, shows that the check is otherwise sufficient.
* `kv_partial` - after a failed chunk of `setm`, `commit()` returns Ok and
  stores nothing, because PostgreSQL answers COMMIT of an aborted transaction
  with ROLLBACK and no error; the doc of `setm` promises partial data. The same
  happens after any other failed statement, and `pg_tx_committed` counts it.

Four more contradict a text on cases that a property of a passing run covers;
the property says what the code does:

* `pgtx`, `CommittedOnlyByCommit` - a COMMIT that was executed, or still will
  be, although the connection was lost is returned as an error and counted as a
  rollback; `pg_tx.rs:214` says PostgreSQL rolls back when COMMIT fails. The
  property has to except `verdict = "commitErr"` with `line = "commit"`;
* `kv_isolation`, `ConflictNeverCommits` - the lost answer to a COMMIT is
  `PgStoreError::Io`. `error.rs:51-53` says that the caller may retry it and
  that SurrealDB's engine identifies it as retryable, `error.rs:142-144` that
  SurrealDB's retry logic can kick in. The code tells SurrealDB
  `ConnectionFailed` (`error.rs:178`), the same as for an exhausted pool; if
  SurrealDB did retry that class, as those lines say, it would run transactions
  again that are committed. The property is about `TransactionConflict` alone
  ("the caller may retry", `error.rs:34` and `:38`), for which a retry is
  harmless; its mutant `KvsErrorIoConflict` tells `Io` likewise and breaks it.
  Nothing here says that retrying `Io` or `ConnectionFailed` is safe: it is not;
* `startup`, `MergeExact` - `min_connections` above `max_connections` is cut
  down to it (`store.rs:281-286`, `:316`); `README.md:341` says it is ignored;
* `startup`, `MergeExact` - an unrecognised value leaves what an earlier
  occurrence of the parameter has set (`config.rs:571`, `:596`); `README.md:368`
  says the default is taken, which is so for `isolation_level` only.

Seen while modelling, not expressed as runs:

* `closed()` is true while COMMIT is still to be sent (comment at
  `pg_tx.rs:189`); `ConnectionExclusive` shows that no call can misuse this;
* `new_save_point`, dropped while it waits behind an earlier dropped call,
  leaves a name PostgreSQL does not know (comment at `transaction.rs:1016`);
  `kv_dropped` shows the limit of the damage: a later rollback fails, it never
  restores wrong data;
* the zombie diagnosis also fires while `vacuum` or `health_check` holds the
  connections (`README.md:551`);
* a successful connect of the heartbeat resets its failure count although no
  probe was answered, and a failed probe does not back off (`README.md:172`);
* the doc of `begin` says direct mode needs no retry (`store.rs:773`), the code
  retries; `README.md:59` gives 3 s for the heartbeat's shutdown, the code
  15 s; `README.md:164` maps 08xxx to `ConnectionFailed`, `error.rs` produces a
  `Postgres` error that is merely treated as transient; the partition check of
  `store.rs:649` runs only when the table is created automatically
  (`PartitionsAsConfigured` says so);
* in direct mode the session SQL is a command of its own before BEGIN
  (`store.rs:950`). A transaction-mode pooler, for which the mode exists, may
  run the two on different sessions; without `lock_timeout` a wait for a row
  lock has no end, as the mutant of `KvIsolation!CallsReturn` shows. The log
  line at `store.rs:481` recommends the mode because it would keep the settings;
  the doc at `tune.rs:727` is more careful;
* `from_env` and `session_sql` accept -1 and 0 for
  `PG_TUNED_QUERY_STATS_TARGET` (`tune.rs:367`, test at `tune.rs:1356`);
  `default_statistics_target` starts at 1, so the SET fails, and with it every
  connection. `fillfactor` is accepted from 1, PostgreSQL wants 10: the whole
  tuning command then fails, with a warning;
* a table name of up to 63 bytes passes `validate_identifier`, but
  `create_table_sql` panics when the suffix of a partition no longer fits
  (`tune.rs:144`): `PG_TUNED_TABLE_HASH_PARTITIONS` and `table_name`, each valid
  for itself, make `PgStore::new` panic where it returns an error for an invalid
  name. `Startup` has the panic (`Panic`), `PartitionNamesFit` what it prevents;
* a lock timeout (55P03) reaches SurrealDB as `Transaction`, which it does not
  retry, although the statement had no effect (`error.rs:128`).

### Bounds

Three tasks let one hold the mutex, one wait and one arrive (or: a closer in
flight, a statement, a second closer). Handles interact through nothing but the
shared counters, so the run `pgtx` follows one; that the counters stay exact
with any number of handles is what the theorems of section 4 show.
A pool of two for three tasks has idle, used and exhausted states at once;
`MaxStarted` caps the only unbounded counter of `PgStore`. `MaxFailures` caps
the counter of `Heartbeat`, which decides a duration only. In `Startup` two
servers give every race on the catalog; two parameters give repetition,
reordering and each pair of settings; `MaxPartitions = 11` and
`MaxConnections = 10` stand for 1024 and 10,000. With `LongBytes = 60` the
partitions of a long name fit as long as their indices have one digit, and those
of 11 partitions do not. In `KvIsolation` two
transactions wait for each other with two keys, and two calls let one of them
read first and write later; initial tables that differ only in the naming of
keys or values are taken once. In `KvTransaction` three pairs in chunks of two give a full and a partial
chunk, and with three keys every pattern of duplicates across the boundary;
`MaxDepth = 3` with `Wrap = 2` makes two live savepoints share a name, with
a third between them. `kv_dropped` switches
wrapping off (`CounterWraps`) with enough names for every behaviour it
explores, because 2^32 savepoints in one transaction are out of reach and names
that repeat after dropped calls would be an artefact of a small `Wrap`. Symmetry
is used in safety runs only, over tasks and values, which no definition
distinguishes.

Deadlock checking is off where the system may stop: `PgTx` (all handles
dropped), `Heartbeat` and `Startup` (the task has exited, its store is gone, or the bound is
reached), `KvIsolation` (the transactions have ended) and `KvTransaction` (the bound on
savepoints). `PgStore` is checked for deadlock.

### Fairness

* `PgTx`: weak fairness of each task's own next step - the executor polls what
  can progress - and of the server noticing a connection given up. Answers come
  because `statement_timeout` or TCP ends every wait. Beginning, calling,
  dropping and losing are never forced. Without FIFO order of the mutex
  `CallsReturn` fails (its mutant).
* `PgStore`: weak fairness of the steps of `begin` and of `shutdown`, whose
  waits are bounded (acquire timeout, connect timeout, the server's answer,
  `POOL_CLOSE_TIMEOUT`, the grace period). The end of a transaction is fair only
  *after* `shutdown` has returned: SurrealDB shuts the store down before it
  drops transactions in flight, so `ShutdownReturns` may not rely on it.
* `Heartbeat`, `Startup`: only the cancellation branch is fair. Connects, probes
  and the startup itself may hang for ever, which is the case `CancelledExits`
  is about.
* `KvIsolation`: weak fairness of "a row is executed or the lock timer fires",
  for each transaction. The deadlock detector is not needed for `CallsReturn`
  and not assumed; that other transactions ever end is not assumed either.

## 4. Proofs

### PgTx

`PgTxProofs` proves, for every finite set of transactions and every set of
tasks, with dropped futures and connections lost on either side, COMMIT or ROLLBACK on
their way or not:

| theorem | states |
|---|---|
| `TypeCorrect` | `TypeOK`; `tx_active` never underflows |
| `ExclusiveUse` | `ConnectionExclusive` |
| `ActiveExact` | `ActiveCountExact` |
| `CountedAtMostOnce` | `NeverOvercounted` |
| `IdentityWithoutDrops` | `MetricsIdentity`, if `~CancelFutures` |
| `OnlyCommitCommits` | `CommittedOnlyByCommit` |
| `FinalOutcome` | `OutcomeIsFinal` |

Assumptions: `PgTxAssumption` (`Tx` is finite, the two "none" values are
outside their sets, `CancelFutures` is Boolean).

The argument. None of the properties is inductive. Exclusive use rests on
where the `PgTransaction` is: `LockInv` (who is inside the mutex is its
holder), `CallInv` (calls borrow a live handle), `PhaseInv` (in the mutex and
open during a statement; claimed but still in the mutex between swap and take;
with the closer afterwards), `HandleInv` (an unfinished live handle has its
transaction, a finished one only while its closer is between swap and take) and
`CloserUnique` (`done` is claimed once). `Typed` is `TypeOK` with `tx_active`
an integer, since that it is never negative follows from `ActiveCountExact`:
the count of a finite set. Two ledgers complete the invariant: `LedgerInv`
relates the outcome counters to the unsettled transactions, `OutcomeInv` the
verdict of a closing call, and the statement on its way on a lost connection, to
the server's state. Each conjunct is proved by one
step per action; cardinality facts come from `FiniteSetTheorems`.

### KvIsolation

`KvIsolationProofs` proves, for every set of transactions, keys and values,
every initial table and any bounds on the calls:

| theorem | states |
|---|---|
| `TypeCorrect` | `TypeOK`; no statement in progress has a row twice |
| `ConditionalWritesAtomic` | `NoLostCas` |
| `ConflictInvariant` | `ConflictNeverCommits` |
| `UnseenKept` | `NoUnseenOverwrite` |

Assumption: `KvIsolationAssumption` (keys are numbers, the values that mean
"none" are no values, no transaction and no snapshot).

The argument. `CallShape` shows that every write call, whatever it is, sends a
well-formed statement, and `StepShape` that a step is one of seven kinds.
`NoLostCas` needs two facts that hold between the comparison and the COMMIT:
`LockInv` (a written row is locked by its writer) and `CasInv` (so is a row
that was compared, and the committed value stays what it was compared with);
another COMMIT changes only rows its own transaction has written, hence locked.
`PutInv` says that the condition of an insert is the absence of the row.
`ConflictInv` strengthens `ConflictNeverCommits`: a conflict is told only together with
an abort or a lost session, and the errors that a lost answer to COMMIT can
have (`SessionErrors`) are none. `SnapInv` relates, for a transaction that keeps
its snapshot, what it read, the snapshot, the committed rows nobody has changed
since (`stale`), and the rows it has written; `CannotSerialize` is what makes it
hold when a row is written.

### PgStore

`PgStoreProofs` proves, for every finite set of callers, every pool size and
every number of transactions and attempts:

| theorem | states |
|---|---|
| `TypeInvariant` | `TypeOK` |
| `CleanCloseInvariant` | `CleanCloseIsFinal` |
| `GaugeCountsTransactions` | `tx_active` is the number of transactions callers own |
| `PoolLimitInvariant` | transactions, maintenance and returning connections stay within `max_connections` |
| `PooledBarrierIsTight` | in pooled mode no transaction starts after a clean `shutdown`; the counterexample of `store_late_start` is confined to direct mode |

Assumption: `PgStoreAssumption`. The argument: `TaskMoves` describes every step
of a caller as a move of one task that takes at most one connection with it
(none, from the pool, or back to it), so that cardinalities change by at most
one (`CountMoves`). `IInv` then has four parts: types (`Typed`); the gauge
(`GaugeExact`); the connections in use with those idle and returning stay within
the pool (`PoolWithinLimit`); and `CloseKept`, which makes `CleanCloseIsFinal`
inductive: once the pool was closed in time, no task holds a connection of it
and none is on its way back. A closed pool hands out none, which is what a late
`begin` meets.

### Heartbeat and Startup

`HeartbeatProofs` proves the safety part of the contract, for
stores with and without the composer: `TypeInvariant`, `CancelInvariant`
(`CancelledWithStore`: the token is cancelled exactly when `new` failed, the
`PgStore` it returned was dropped, or at `shutdown`) and `FailureInvariant`
(`FailureDropsConnection`). In the server, built by the composer, the store is
dropped at once, so `CancelInvariant` says there what `heartbeat_composer` shows.
Its only assumption is `MaxFailures \in Nat`. `OneOwner` says which of
guard, original and clone exist together, `TokenFollowsStore` which of them
cancels.

`StartupProofs` proves, for any number of servers, partitions and environments
and URLs of any length:

| theorem | states |
|---|---|
| `TypeInvariant` | `TypeOK` |
| `PartitionsInvariant` | `PartitionsAsConfigured`, if `UnfoldedNames` |
| `StartupIsHeartbeat` | `Hb!Spec`: every step maps to a step of `Heartbeat` or a stutter, which is `ImplementsHeartbeat` without its fairness |
| `CancelInvariant`, `FailureInvariant` | `CancelledWithStore`, `FailureDropsConnection` |
| `FailedStartInvariant` | a startup in direct mode that fails has cancelled its heartbeat |
| `MergeInvariant` | `MergeExact` |
| `NumbersInvariant` | `NumbersPassAsserts` (the assertion on partition names is not among them: it can be tripped) |
| `NamesInvariant` | `PartitionNamesFit` |
| `TimeoutsInvariant` | `TimeoutsInForce` |

`UnfoldedNames` (no table name has an upper-case letter) is needed: without it
`startup_folded` is the counterexample. `StartupAssumption` says what URLs,
environments and tuning variables may hold. The argument: `StartShape`,
`ConfigureShape` and `EndShape` reduce the stages of `PgStore::new` to
`ServerMoves` - one server moves on, with its settings kept, taken or forgotten,
and the table changes only when the server that is creating it commits.
`Servers` and `Database` are the invariant about the servers: an accepted
configuration exactly while a server starts or is up, one creator at most, and
no table while there is one. `Lives` and `Beats!IInv`, the invariant of
`HeartbeatProofs` under the refinement mapping, say the same of the store and
its task; so the theorems of `Heartbeat` need no second proof.
`PartitionsAsConfigured` is then inductive with `NamesStored`.

### Configuration: folds and induction over data

The settings are a fold over the URL. `Folding` shows, for any operator `Op`,
that `FoldLeft` of the library yields the base on the empty sequence and applies
`Op` once more for one more element; the library defines it by recursion over
sets of indices, so this needs the existence of a recursive function
(`RecursionSolved`, proved by induction on the size of the index set). Induction
itself comes without an operator as parameter, from well-founded
`<` on the numbers: `NumberInduction` and `SequenceInduction` speak of a *set*
that holds what it must hold, and a proof instantiates the set with a
comprehension. `PgConfigProofs` proves by it that `merge_url_params` yields
for each key its last value that counts (`MergeIsLastValid`), and from that the
theorem `SettingsExact`, on which `MergeInvariant` rests.

Proving `MergeExact` corrected it: an earlier form capped `min_connections` of
the URL by the environment's maximum as well, which the code does not do; it
was false only for an environment above `MaxConnections`, which no bounded run had.

### KvTransaction

`KvTransactionProofs` proves, for any keys and values, tables, batches, chunk
sizes, thresholds and depths of nesting:

| theorem | states | dropped futures | counter wraps |
|---|---|---|---|
| `TypeInvariant` | `TypeOK` | yes | yes |
| `DedupInvariant` | `DedupKeepsLast` | yes | yes |
| `GetmInvariant` | `GetmInPlace` | yes | yes |
| `PagesInvariant` | `PagesAddUp`, if `Key` is finite | yes | yes |
| `StacksInvariant` | `StacksAgree` | no | yes |
| `RollbackIsExact` | `RollbackRestores` | no | yes |
| `RollbackIsExactDropped` | `RollbackRestores` | yes | no |
| `SetmIsExact` | `SetmLastWins` | no | yes |
| `ConditionsAreExact` | `ConditionalExact` | no | yes |
| `TransactionIsNested` | `ImplementsNested` | no | yes |

Assumption: `KvTransactionAssumption` (keys are numbers, the values that mean
"none" are outside their sets, a chunk has at least one pair, the counter has at
least one value). "no" is a hypothesis of the theorem (`~DropFutures`, `~CounterWraps`).
`StacksAgree` is false with dropped futures (section 3), and a rollback after
2^32 savepoints *and* a dropped call could meet an old name; each of the two
alone is covered.

The operators first. `LastValuesAre` characterises the HashMap of
`dedup_pairs`, `KeepLists` its linear scan, and `ListsEffect` shows that any list
of a map's pairs, in whatever order, has the effect of the map: so both paths
of `dedup_pairs` have the effect of the pairs in turn (`DedupLists`).
`AssembleIs` does the same for the two searches of `getm`.
`SetAllConcat` splits a batch at the end of a chunk. For range scans, `SortExists`
and `SortUnique` say that a finite set of keys has exactly one sorted
sequence, `SortedRest` that what follows a page is the sorted rest of the range,
and `FetchesOn` that the rows fetched and the rows left make up the range after
every page. (Pages are counted up to the number of keys, hence the finite `Key`:
the keys of a `bytea` column of bounded length.)

Without dropped futures the invariant is `IInv`: what is on the wire
belongs to the call in progress (`InProgress`); the server's stack is the
client's, short of or beyond it by exactly the savepoint in flight, before and
after the answer (`Stacks`); and what a call has done together with
what it has still to do is its goal (`Effects`). Names play no part in it: when
both stacks agree, the innermost savepoint of the top name is the top one
(`HeldIsInnermost`), which is why a wrapping counter does no harm.

With dropped futures the stacks diverge, and `DroppedInv` argues by names
instead: while the counter does not wrap, every name is used once (`Fresh`), so
a name that the client and the server both know means the same snapshot
(`Remembered`), however many savepoints either side has lost; a rollback that
PostgreSQL accepts by name therefore restores the right one (`Restoring`).

`TransactionIsNested` maps the names away (`frames` is the sequence of
snapshots); every statement that PostgreSQL executes is one step of `NestedTx`
and everything else a stutter.

### What is left to TLC

* The liveness properties (`CallsReturn`, `NoLingeringTransaction`,
  `BeginReturns`, `ShutdownReturns`, `BarrierSilences`, `NoHeartbeatLeak`,
  `CancelledExits`) and the fairness of `ImplementsHeartbeat`: they need
  `ENABLED`, which no installed prover handles.
* What the violation runs show: counterexamples have no proof.

Every other property of a passing run is a theorem, under the hypotheses named
above.

## 5. Not modelled

* The text of SQL and URLs: percent-decoding, URL redaction, path checks in
  `composer.rs`, memory sizes, the values of settings that change only
  performance (`idle_timeout`, `max_lifetime`, thresholds for slow-query logs).
* Table tuning and `ALTER SYSTEM` recommendations: best-effort, logged, without
  effect on the program.
* Detection of the server's version and of managed databases: log lines.
* What SurrealDB does with an error: which classes it retries is its decision;
  the models stop at the class it is told.
* Session SQL that fails as a whole on the connections for DDL, the heartbeat and
  maintenance, where it is logged and the connection used all the same
  (`store.rs:1502`): `TimeoutsInForce` says that the SQL asks for the right
  limits, not that such a connection has them. In `begin` its failure is an
  error.
* Durations, except for the order of timeouts against what they bound. In direct
  mode some statements have no client-side timeout; the models then rely on the
  server or TCP.
* Metrics export: reading gauges has no state.

## 6. Plan

Done, in this order: `PgTx` and its proofs, `PgStore`, `Heartbeat`, `KvBatch`,
`KvTransaction` with `NestedTx`, `PgErrors` composed with `PgStore`, `PgConfig`,
`PgTune` and `Startup` with the refinement of `Heartbeat`, `KvIsolation` and its
proofs; then the proofs about `PgStore`, `Heartbeat`, `PgConfig`, `Startup`,
`KvBatch` and `KvTransaction` with both refinements.

Next:

1. `StacksAgree` and `ImplementsNested` with dropped futures, in the weaker form
   that is true there: the client's names are a subsequence of what the server
   ever opened.
2. A composition of `PgTx` with `KvTransaction`'s savepoints: several tasks
   nesting savepoints on one handle.
