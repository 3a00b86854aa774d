------------------------------ MODULE Startup ------------------------------
(***************************************************************************)
(* PgStore::new (src/store.rs) on several servers that share a database:   *)
(* the configuration, the creation of the table, the check of its hash     *)
(* partitions, and the heartbeat a store in direct mode starts before all  *)
(* that, whose task and owner are those of module Heartbeat.               *)
(*                                                                         *)
(* CREATE TABLE IF NOT EXISTS and the partitions are one multi-statement   *)
(* command, hence one transaction of PostgreSQL.  Tuning the table, which  *)
(* follows it, changes nothing that is modelled and may fail.              *)
(***************************************************************************)
EXTENDS PgConfig, PgTune

CONSTANTS
  Server,
  Local,         \* the server whose heartbeat is followed; it starts once
  NoServer,
  NoTable,       \* the table does not exist
  UrlParams,     \* parameters the URL of Local may have
  MaxParams,     \* bound on how many
  Envs,          \* the environments of the servers
  Tunings,       \* the tuning variables Local may be started with
  OtherUrls,     \* the URLs of the other servers
  Migrations,    \* the tables the migration script may create
  MaxFailures    \* bound on consecutive failures of the heartbeat

ASSUME StartupAssumption ==
  /\ Local \in Server
  /\ NoServer \notin Server
  /\ MaxParams \in Nat
  /\ MaxFailures \in Nat \ {0}
  /\ NoTable \notin Nat
  /\ \A p \in UrlParams : IsParam(p)
  /\ \A u \in OtherUrls : IsUrl(u)
  /\ \A e \in Envs : IsEnv(e)
  /\ \A t \in Tunings : IsTuning(t)
  /\ Migrations \subseteq 0..MaxPartitions \ {1}

VARIABLES
  step,      \* where the startup of each server is
  config,    \* its settings, once they are merged
  url, env, tuning,  \* what Local is started with
  table,     \* NoTable, 0 (not partitioned) or the number of partitions
  creator,   \* the server whose CREATE is not committed yet
  arc,       \* Local's Arc<PgStore> is held
  (* as in Heartbeat *)
  composed, boxed, cancelled, shut, hb, conn, consecutive_failures

inputs   == <<url, env, tuning>>
startup  == <<step, config, inputs, table, creator, arc>>
outside  == <<composed, boxed, shut>>
running  == <<hb, conn, consecutive_failures>>
vars     == <<startup, outside, cancelled, running>>

Building == {"connect", "create", "blocked", "creating", "check", "finish"}
Down     == {"down", "failed"}
Direct   == hb # "none"

(* A number and a duration among the PG_TUNED_* variables.                  *)
Untuned == [name |-> "fillfactor", value |-> Absent, duration |-> Absent]

(* The PgStore that new builds, as Heartbeat sees it.                       *)
Original ==
  CASE ~Direct -> "none"
    [] Direct /\ step[Local] \in Building -> "building"
    [] Direct /\ step[Local] = "up" /\ arc -> "alive"
    [] OTHER -> "dropped"
Armed == Original = "building"

Hb == INSTANCE Heartbeat WITH original <- Original, armed <- Armed

Partitioning == {NoTable} \cup 0..MaxPartitions
NoConfig == [valid |-> FALSE]

TypeOK ==
  /\ step \in [Server -> Building \cup Down \cup {"up"}]
  /\ \A s \in Server :
       /\ (config[s] = NoConfig) = (step[s] \in Down)
       /\ step[s] \notin Down => config[s].hash_partitions \in 1..MaxPartitions
  /\ step[Local] # "down" => url = <<>> /\ tuning = Untuned
  /\ tuning \in Tunings \cup {Untuned}
  /\ env \in Envs
  /\ table \in Partitioning \ {1}
  /\ creator \in Server \cup {NoServer}
  /\ \A s \in Server : (creator = s) = (step[s] = "creating")
  /\ creator # NoServer => table = NoTable
  /\ arc \in BOOLEAN
  /\ Hb!TypeOK

Init ==
  /\ step = [s \in Server |-> "down"]
  /\ config = [s \in Server |-> NoConfig]
  /\ url = <<>>
  /\ tuning = Untuned
  /\ env \in Envs
  /\ table \in {NoTable} \cup Migrations
  /\ creator = NoServer
  /\ arc = TRUE
  /\ hb = "none"
  /\ Hb!Init

-----------------------------------------------------------------------------
(* The configuration.                                                       *)

AddParam(p) ==
  /\ step[Local] = "down"
  /\ tuning = Untuned
  /\ Len(url) < MaxParams
  /\ url' = Append(url, p)
  /\ UNCHANGED <<step, config, env, tuning, table, creator, arc>>
  /\ UNCHANGED <<outside, cancelled, running>>

(* Parameters and tuning variables do not interact: one or the other.       *)
SetTuning(t) ==
  /\ step[Local] = "down"
  /\ url = <<>>
  /\ tuning' = t
  /\ UNCHANGED <<step, config, url, env, table, creator, arc>>
  /\ UNCHANGED <<outside, cancelled, running>>

(* What follows the merge: the pool, the connection for the DDL, or, with   *)
(* auto_create_table=false in direct mode, nothing at all.                  *)
FirstStep(c) == IF c.pooler /\ ~c.auto_create_table THEN "finish" ELSE "connect"

(* The settings the rest of the startup looks at.                           *)
Used(c) ==
  [f \in {"valid", "hash_partitions", "pooler", "auto_create_table", "table"} |->
     c[f]]

(* In direct mode the heartbeat is spawned as soon as the URL is parsed.    *)
Configure(s, c) ==
  /\ step[s] = "down"
  /\ IF c.valid
     THEN /\ step' = [step EXCEPT ![s] = FirstStep(c)]
          /\ config' = [config EXCEPT ![s] = Used(c)]
     ELSE /\ step' = [step EXCEPT ![s] = "failed"]
          /\ UNCHANGED config
  /\ UNCHANGED <<env, table, creator, arc, outside, cancelled>>

ConfigureLocal ==
  /\ Configure(Local, Settings(url, env))
  /\ url' = <<>>
  /\ tuning' = Untuned
  /\ hb' = IF Settings(url, env).valid /\ Settings(url, env).pooler
           THEN "sleep" ELSE "none"
  /\ UNCHANGED <<conn, consecutive_failures>>

ConfigureOther(s) ==
  /\ s # Local
  /\ \E u \in OtherUrls, e \in Envs : Configure(s, Settings(u, e))
  /\ UNCHANGED <<url, tuning, running>>

-----------------------------------------------------------------------------
(* The database.                                                            *)

Advance(s, to) ==
  /\ step' = [step EXCEPT ![s] = to]
  /\ UNCHANGED <<config, inputs, arc, outside, running>>

(* The startup of s ends: new returns, with its guard disarmed ...          *)
DisarmedNot == Direct            \* mutant: the guard is not disarmed
Disarmed == FALSE

Succeed(s) ==
  /\ Advance(s, "up")
  /\ cancelled' = (cancelled \/ (s = Local /\ Disarmed))
  /\ UNCHANGED <<table, creator>>

(* ... or it returns early, or its future is dropped, with the guard armed. *)
(* An uncommitted CREATE is rolled back with its connection.                *)
GuardCancelsNever == FALSE       \* mutant: no HeartbeatGuard
GuardCancelsLate ==              \* mutant: the guard is made after the DDL
  Direct /\ step[Local] = "check"
GuardCancels == Direct

Fail(s) ==
  /\ step' = [step EXCEPT ![s] = "failed"]
  /\ config' = [config EXCEPT ![s] = NoConfig]
  /\ creator' = IF creator = s THEN NoServer ELSE creator
  /\ cancelled' = (cancelled \/ (s = Local /\ GuardCancels))
  /\ UNCHANGED <<inputs, table, arc, outside, running>>

Interrupted(s) == step[s] \in Building \ {"finish"} /\ Fail(s)

Finish(s) == step[s] = "finish" /\ Succeed(s)

(* The SQL for the table is made once there is a pool or, in direct mode,   *)
(* before the connection for it: new panics if the names of the partitions  *)
(* are too long, and the guard is dropped as the stack unwinds.             *)
Generates(s) ==
  /\ step[s] \in {"connect", "create"}
  /\ config[s].auto_create_table
  /\ config[s].pooler <=> step[s] = "connect"
NamesTooLong(c) == ~validate_partition_names(Bytes(c.table), c.hash_partitions)
Panics(s) == Generates(s) /\ NamesTooLong(config[s])
Panic(s) == Panics(s) /\ Fail(s)

Connected(s) ==
  /\ step[s] = "connect"
  /\ IF config[s].auto_create_table
     THEN Advance(s, "create") /\ UNCHANGED <<table, creator, cancelled>>
     ELSE Succeed(s)

(* The number of partitions the settings ask for: 0 for an ordinary table.  *)
Wanted(c) == IF c.hash_partitions <= 1 THEN 0 ELSE c.hash_partitions

(* CREATE TABLE IF NOT EXISTS on a table that exists does nothing, as do    *)
(* the partitions that exist; a further one fails, for it would overlap.    *)
CreateSkips(c) == Wanted(c) <= table
CreateExisting(s) ==
  /\ step[s] = "create"
  /\ table # NoTable
  /\ IF CreateSkips(config[s])
     THEN Advance(s, "check") /\ UNCHANGED <<table, creator, cancelled>>
     ELSE Fail(s)

CreateNew(s) ==
  /\ step[s] \in {"create", "blocked"}
  /\ table = NoTable
  /\ creator = NoServer
  /\ Advance(s, "creating")
  /\ creator' = s
  /\ UNCHANGED <<table, cancelled>>

(* Another CREATE is in progress: wait for the end of its transaction.      *)
CreateBlocks(s) ==
  /\ step[s] = "create"
  /\ table = NoTable
  /\ creator # NoServer
  /\ Advance(s, "blocked")
  /\ UNCHANGED <<table, creator, cancelled>>

(* It commits: IF NOT EXISTS looked before that, and now the name is taken  *)
(* (a unique violation in the catalog).                                     *)
CreateCollides(s) ==
  /\ step[s] = "blocked"
  /\ table # NoTable
  /\ Fail(s)

CreateCommits(s) ==
  /\ step[s] = "creating"
  /\ Advance(s, "check")
  /\ table' = Wanted(config[s])
  /\ creator' = NoServer
  /\ UNCHANGED cancelled

(* partition_count_sql: relname = $1 compares with the name as configured,  *)
(* which is not the table's if PostgreSQL has folded it.                    *)
part_cnt(s) == IF Folded(config[s].table) = config[s].table THEN table ELSE 0

PartitionCountOkLax(expected, actual) ==      \* mutant: 1 accepts any table
  expected <= 1 \/ actual = expected
PartitionCountOk(expected, actual) ==
  IF expected <= 1 THEN actual = 0 ELSE actual = expected

CheckPartitions(s) ==
  /\ step[s] = "check"
  /\ IF PartitionCountOk(config[s].hash_partitions, part_cnt(s))
     THEN Succeed(s)
     ELSE Fail(s)

-----------------------------------------------------------------------------
(* Outside the startup.                                                     *)

(* Another server stops or is killed, and may start again.                  *)
Restart(s) ==
  /\ s # Local
  /\ step[s] # "down"
  /\ step' = [step EXCEPT ![s] = "down"]
  /\ config' = [config EXCEPT ![s] = NoConfig]
  /\ creator' = IF creator = s THEN NoServer ELSE creator
  /\ UNCHANGED <<inputs, table, arc, outside, cancelled, running>>

(* An operator drops the table while no server uses it, "to change the      *)
(* partition count", or runs migrations/001_init_kv.sql.                    *)
Recreate ==
  /\ \A s \in Server : step[s] \in Down
  /\ table' \in {NoTable} \cup Migrations
  /\ table' = NoTable \/ table = NoTable
  /\ UNCHANGED <<step, config, inputs, creator, arc, outside, cancelled, running>>

(* Local's store is handed to the composer, dropped or shut down.           *)
Owner ==
  /\ step[Local] = "up"
  /\ arc' \in BOOLEAN
  /\ UNCHANGED <<step, config, inputs, table, creator, hb>>
  /\ Hb!Owner

Beat == UNCHANGED startup /\ Hb!HeartbeatStep
BeatEnds == UNCHANGED startup /\ Hb!Exit

-----------------------------------------------------------------------------
Proceed(s) ==
  \/ Connected(s)
  \/ CreateExisting(s)
  \/ CreateNew(s)
  \/ CreateBlocks(s)
  \/ CreateCollides(s)
  \/ CreateCommits(s)
  \/ CheckPartitions(s)
  \/ Finish(s)

Start(s) == Panic(s) \/ (~Panics(s) /\ Proceed(s))

Next ==
  \/ \E p \in UrlParams : AddParam(p)
  \/ \E t \in Tunings : SetTuning(t)
  \/ ConfigureLocal
  \/ \E s \in Server :
       \/ ConfigureOther(s)
       \/ Start(s)
       \/ Interrupted(s)
       \/ Restart(s)
  \/ Recreate
  \/ Owner
  \/ Beat
  \/ BeatEnds

Spec == Init /\ [][Next]_vars

(* Only the cancellation of the heartbeat is assumed to be polled.          *)
FairSpec == Spec /\ WF_vars(BeatEnds)

-----------------------------------------------------------------------------
(* Properties.                                                              *)

(* README, "Hash partitions": a configuration that does not match the       *)
(* number of partitions of the table is an error at startup.  A server that *)
(* is up and manages its table therefore has the table it is configured     *)
(* for, whoever created it and whatever started or stopped at the same time.*)
PartitionsAsConfigured ==
  \A s \in Server :
    step[s] = "up" /\ config[s].auto_create_table
      => table = Wanted(config[s])

(* The settings, for every URL with repeated, reordered, missing or invalid *)
(* parameters.  A parameter counts if its value is valid, the last one that *)
(* counts wins, and without one the environment decides, else the default;  *)
(* but a size above the limit is cut down to it, the last isolation level   *)
(* counts whatever its value (an unknown one is the default), and           *)
(* PG_PERSISTENT_STATEMENTS comes before the URL.  min_connections above    *)
(* max_connections is cut down to it.  The result is usable: sqlx's pool    *)
(* gets 0 <= min <= max and max > 0, no timeout is 0, and behind a pooler   *)
(* no statement is persistent.                                              *)
Given(key) == {i \in DOMAIN url : url[i].key = key}
Occurrences(key, valid) == {i \in Given(key) : url[i].val \in valid}
LastOf(is, default) ==
  IF is = {} THEN default ELSE url[CHOOSE i \in is : \A j \in is : j <= i].val

PoolExact(set) ==
  LET env_max == IF env.max > 0 THEN env.max ELSE 20
      env_min == AtMost(Or(env.min, 5), env_max)
      maxs == Occurrences("max_connections", Positive)
      mins == Occurrences("min_connections", Nat)
      max == IF maxs = {} THEN env_max ELSE AtMost(LastOf(maxs, 0), MaxConnections)
      min == IF mins = {} THEN env_min ELSE AtMost(LastOf(mins, 0), MaxConnections)
  IN  /\ set.pool_max = max /\ max > 0
      /\ set.pool_min = AtMost(min, max) /\ min >= 0

TimeoutsExact(set) ==
  LET env_timeout == IF env.timeout > 0 THEN env.timeout ELSE 10
      timeouts == Occurrences("connect_timeout", Positive)
      direct == IF env_timeout > 30 THEN env_timeout ELSE 30
  IN  /\ set.acquire_timeout = LastOf(timeouts, env_timeout)
      /\ set.connect_timeout = IF set.pooler THEN LastOf(timeouts, direct) ELSE 0
      /\ set.acquire_timeout > 0 /\ (set.pooler => set.connect_timeout > 0)

TableExact(set) ==
  /\ set.hash_partitions =
       LastOf(Occurrences("hash_partitions", Partitions),
              IF env.hash \in Partitions THEN env.hash ELSE 1)
  /\ set.auto_create_table =
       (LastOf(Occurrences("auto_create_table", Bools), "true") = "true")
  /\ set.table = LastOf(Given("table_name"), "kv")

StatementsExact(set) ==
  LET level == LastOf(Given("isolation_level"), "ReadCommitted")
      policy == IF env.persistent \in Policies THEN env.persistent
                ELSE LastOf(Occurrences("persistent_statements", Policies), "Auto")
  IN  /\ set.pooler = (LastOf(Occurrences("pooler", Bools), "false") = "true")
      /\ set.isolation = IF level \in Isolations THEN level ELSE "ReadCommitted"
      /\ set.persistent = (policy # "Disabled" /\ ~set.pooler)

MergeExact ==
  LET set == Settings(url, env)
  IN  /\ set.valid = \A i \in Given("table_name") : url[i].val \in Names
      /\ set.valid => /\ PoolExact(set)
                      /\ TimeoutsExact(set)
                      /\ TableExact(set)
                      /\ StatementsExact(set)

(* Whatever the environment, the numbers and durations that from_env lets   *)
(* through satisfy the assertions of the SQL generators, which are meant    *)
(* for a PgTuneConfig that was not made by from_env.  (The one assertion    *)
(* that a configuration does trip is about the names of the partitions:     *)
(* action Panic.)                                                           *)
NumbersPassAsserts ==
  LET v == env_number(tuning.name, tuning.value)
  IN  /\ tuning.name \in DOMAIN tune_table_sql => v \in tune_table_sql[tuning.name]
      /\ tuning.name \in DOMAIN session_sql => v \in session_sql[tuning.name]

(* No partition is ever created or looked for under a name that PostgreSQL  *)
(* truncates, so that two partitions would get the same one: a server whose *)
(* partitions, any of them, have names of more than 63 bytes does not get   *)
(* past the making of the SQL (it panics; NoHeartbeatLeak says that its     *)
(* heartbeat is cancelled all the same).                                    *)
PartitionNamesFit ==
  \A s \in Server :
    /\ step[s] \in {"blocked", "creating", "check", "up"}
    /\ config[s].auto_create_table
    /\ config[s].hash_partitions > 1
    => \A i \in 0..(config[s].hash_partitions - 1) :
         NameBytes(Bytes(config[s].table), i) <= 63

(* A time limit reaches PostgreSQL as the one that was asked for, never as  *)
(* 0, which would switch it off: a value below a second is not truncated,   *)
(* and keepalive intervals are rounded down by less than one second or up   *)
(* to one.                                                                  *)
TimeoutsInForce ==
  LET ms   == env_duration_nonzero(tuning.duration, 10000)
      sent == parse_duration(fmt_dur(ms))
      secs == fmt_keepalive_secs(ms)
  IN  /\ sent > 0 /\ sent = ms
      /\ secs > 0 /\ (ms >= 1000 => ms - 1000 * secs \in 0..999)

(* The startup keeps the contract of the heartbeat: the task is spawned     *)
(* once, every way the startup can end early cancels it, success does not.  *)
ImplementsHeartbeat == Hb!FairSpec

(* Those of Heartbeat, with the startup as it is: the token is cancelled    *)
(* exactly when the startup failed, the PgStore it made is gone or shutdown *)
(* has begun, a failed connection is not probed again, and the task ends    *)
(* with its store, from every await and after a failed startup too.         *)
CancelledWithStore == Hb!CancelledWithStore
FailureDropsConnection == Hb!FailureDropsConnection
NoHeartbeatLeak == Hb!NoHeartbeatLeak
CancelledExits == Hb!CancelledExits

=============================================================================
