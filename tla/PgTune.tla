------------------------------- MODULE PgTune -------------------------------
(***************************************************************************)
(* The PG_TUNED_* environment variables behind the session settings and    *)
(* the storage parameters of the table (src/tune.rs): what                 *)
(* PgTuneConfig::from_env lets through, what session_sql and               *)
(* tune_table_sql assert, and what PostgreSQL reads in the SQL.            *)
(*                                                                         *)
(* Fractions are in hundredths and durations in milliseconds.              *)
(***************************************************************************)
EXTENDS Integers

CONSTANTS
  Absent,     \* a variable that is not set or does not parse
  NotFinite   \* NaN and the infinities

ASSUME PgTuneAssumption ==
  /\ Absent # NotFinite
  /\ {Absent, NotFinite} \cap Int = {}

-----------------------------------------------------------------------------
(* Numbers.                                                                 *)

MaxInt == 2147483647
Limit(lo, hi, default) == [lo |-> lo, hi |-> hi, default |-> default]

numbers ==
  [fillfactor                |-> Limit(1, 100, 90),
   toast_threshold           |-> Limit(128, 8160, 2032),
   autovac_vacuum_scale      |-> Limit(0, 100, 5),
   autovac_vacuum_threshold  |-> Limit(0, MaxInt, 50),
   autovac_analyze_scale     |-> Limit(0, 100, 2),
   autovac_vacuum_cost_limit |-> Limit(0, MaxInt, 2000),
   autovac_vacuum_cost_delay |-> Limit(0, MaxInt, 1),
   stats_target              |-> Limit(-1, 10000, 500),
   server_random_page_cost   |-> Limit(1, MaxInt, 110)]

(* Whatever is out of range is replaced by the default.                     *)
env_numberUnchecked(f, v) ==               \* mutant: no range check
  IF v \in {Absent, NotFinite} THEN numbers[f].default ELSE v
env_number(f, v) ==
  IF v \notin {Absent, NotFinite} /\ numbers[f].lo <= v /\ v <= numbers[f].hi
  THEN v ELSE numbers[f].default

(* The values the assert!s of the two generators let pass.                  *)
tune_table_sql ==
  [fillfactor                |-> 1..100,
   toast_threshold           |-> 128..8160,
   autovac_vacuum_scale      |-> 0..100,
   autovac_vacuum_threshold  |-> Nat,
   autovac_analyze_scale     |-> 0..100,
   autovac_vacuum_cost_limit |-> Nat,
   autovac_vacuum_cost_delay |-> Nat]

session_sql ==
  [stats_target |-> -1..10000, server_random_page_cost |-> Nat \ {0}]

(* The assertion both generators of table SQL begin with: PostgreSQL would  *)
(* truncate the name of a partition, {table}_p{i}, to 63 bytes.  The last   *)
(* index, below 1024, has the most digits.                                  *)
Digits(i) == IF i < 10 THEN 1 ELSE IF i < 100 THEN 2 ELSE IF i < 1000 THEN 3 ELSE 4
NameBytes(bytes, i) == bytes + 2 + Digits(i)

validate_partition_namesOneDigit(bytes, n) ==  \* mutant
  n <= 1 \/ bytes + 3 <= 63
validate_partition_names(bytes, n) == n <= 1 \/ NameBytes(bytes, n - 1) <= 63

-----------------------------------------------------------------------------
(* Durations: a number and a unit.                                          *)

InMillis == [ms |-> 1, s |-> 1000, m |-> 60000, h |-> 3600000]
parse_duration(d) == d.n * InMillis[d.unit]

(* A variable of the environment, as from_env may find it.                  *)
IsTuning(t) ==
  /\ t.name \in DOMAIN numbers
  /\ t.value \in Int \cup {Absent, NotFinite}
  /\ t.duration # Absent
       => t.duration.n \in Nat /\ t.duration.unit \in DOMAIN InMillis

env_duration_nonzero(d, default) ==
  IF d = Absent \/ parse_duration(d) = 0 THEN default ELSE parse_duration(d)

(* The text of statement_timeout, idle_in_transaction_session_timeout and   *)
(* lock_timeout in session_sql.                                             *)
fmt_durTruncated(ms) == [n |-> ms \div 1000, unit |-> "s"]   \* mutant
fmt_dur(ms) ==
  IF ms % 1000 = 0 THEN [n |-> ms \div 1000, unit |-> "s"]
                   ELSE [n |-> ms, unit |-> "ms"]

(* tcp_keepalives_idle and tcp_keepalives_interval are whole seconds.       *)
fmt_keepalive_secs(ms) ==
  IF ms \div 1000 = 0 /\ ms # 0 THEN 1 ELSE ms \div 1000

=============================================================================
