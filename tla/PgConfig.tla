------------------------------ MODULE PgConfig ------------------------------
(***************************************************************************)
(* The configuration of a store: PgConfig::merge_url_params and merge_env  *)
(* (src/config.rs), PgTuneConfig::from_env (src/tune.rs), and how          *)
(* PgStore::new (src/store.rs) combines the two.                           *)
(*                                                                         *)
(* A URL is the sequence of its parameters [key, val].  The value of a     *)
(* numeric parameter is a number, or Unset when its text is not one; the   *)
(* spellings of a Boolean are "true" and "false".  An environment variable *)
(* that is absent and one that does not parse are alike: Unset.            *)
(***************************************************************************)
EXTENDS Integers, Sequences, SequencesExt

CONSTANTS
  MaxConnections,  \* largest pool size accepted (10,000)
  MaxPartitions,   \* largest number of hash partitions accepted (1024)
  LongBytes        \* the length of the table name "long"

ASSUME PgConfigAssumption ==
  /\ MaxConnections \in Nat \ {0}
  /\ MaxPartitions \in 1..1024
  /\ LongBytes \in 1..63

Unset == -1

(* What the callers of this module may pass: numbers are unsigned or Unset, *)
(* and so are those of an environment.                                      *)
NumericKeys == {"max_connections", "min_connections", "hash_partitions",
                "connect_timeout"}
IsParam(p) == p.key \in NumericKeys => p.val \in Nat \cup {Unset}
IsUrl(u) ==
  /\ u \in Seq({u[i] : i \in DOMAIN u})
  /\ \A i \in DOMAIN u : IsParam(u[i])
IsEnv(e) == {e.max, e.min, e.hash, e.timeout} \subseteq Nat \cup {Unset}

(* The values of a pool size or timeout, a partition count and a flag that  *)
(* are valid in a URL.                                                      *)
Positive == Nat \ {0}
Partitions == 1..MaxPartitions
Bools == {"true", "false"}

AtMost(v, limit) == IF v > limit THEN limit ELSE v
Or(v, default) == IF v = Unset THEN default ELSE v

-----------------------------------------------------------------------------
(* src/config.rs.                                                           *)

DefaultConfig ==
  [max |-> Unset, min |-> Unset, hash |-> Unset, timeout |-> Unset,
   auto |-> TRUE, pooler |-> FALSE, table |-> "kv", isolation |-> "ReadCommitted",
   persistent |-> "Auto", err |-> FALSE]

Isolations == {"ReadCommitted", "RepeatableRead", "Serializable"}
Policies   == {"Auto", "Enabled", "Disabled"}

(* Unquoted identifiers, of 63 bytes at most; PostgreSQL folds them to      *)
(* lower case.                                                              *)
Names == {"kv", "KV", "long"}
Bytes(name) == IF name = "long" THEN LongBytes ELSE 2
Folded(name) == IF name = "KV" THEN "kv" ELSE name

(* hash_partitions in the URL: zero and large values are ignored.           *)
PartitionsAcceptedAny(v) == v > 0          \* mutant: no upper limit
PartitionsAccepted(v) == v > 0 /\ v <= MaxPartitions

(* One parameter.  The pool sizes are capped, the other values out of range *)
(* are ignored; an unknown isolation level resets it to the default, and an *)
(* invalid table name ends the parsing.                                     *)
merge_param(c, p) ==
  IF c.err THEN c ELSE
  CASE p.key = "max_connections" /\ p.val > 0
         -> [c EXCEPT !.max = AtMost(p.val, MaxConnections)]
    [] p.key = "min_connections" /\ p.val >= 0
         -> [c EXCEPT !.min = AtMost(p.val, MaxConnections)]
    [] p.key = "hash_partitions" /\ PartitionsAccepted(p.val)
         -> [c EXCEPT !.hash = p.val]
    [] p.key = "connect_timeout" /\ p.val > 0
         -> [c EXCEPT !.timeout = p.val]
    [] p.key = "auto_create_table" /\ p.val \in {"true", "false"}
         -> [c EXCEPT !.auto = (p.val = "true")]
    [] p.key = "pooler" /\ p.val \in {"true", "false"}
         -> [c EXCEPT !.pooler = (p.val = "true")]
    [] p.key = "isolation_level"
         -> [c EXCEPT !.isolation = IF p.val \in Isolations THEN p.val
                                                            ELSE "ReadCommitted"]
    [] p.key = "persistent_statements" /\ p.val \in Policies
         -> [c EXCEPT !.persistent = p.val]
    [] p.key = "table_name" /\ p.val \in Names
         -> [c EXCEPT !.table = p.val]
    [] p.key = "table_name" /\ p.val \notin Names
         -> [c EXCEPT !.err = TRUE]
    [] OTHER -> c

merge_url_params(url) == FoldLeft(merge_param, DefaultConfig, url)

(* PG_PERSISTENT_STATEMENTS wins over the URL.                              *)
merge_env(c, env) ==
  IF env.persistent \in Policies THEN [c EXCEPT !.persistent = env.persistent] ELSE c

-----------------------------------------------------------------------------
(* src/tune.rs: out-of-range values fall back to the default.               *)

from_env(env) ==
  LET pool_max == IF Or(env.max, 20) = 0 THEN 20 ELSE Or(env.max, 20)
  IN  [pool_max |-> pool_max,
       pool_min |-> AtMost(Or(env.min, 5), pool_max),
       acquire_timeout |-> IF Or(env.timeout, 10) = 0 THEN 10 ELSE Or(env.timeout, 10),
       hash_partitions |-> IF Or(env.hash, 1) \in 1..MaxPartitions
                           THEN Or(env.hash, 1) ELSE 1]

-----------------------------------------------------------------------------
(* src/store.rs: URL parameters before the environment before defaults.     *)

(* The least number of pooled connections, never above the largest.         *)
PoolMinUncapped(min, max) == min           \* mutant: no cross-validation
PoolMin(min, max) == AtMost(min, max)

resolve_persistent(c) ==
  /\ ~c.pooler
  /\ c.persistent \in {"Auto", "Enabled"}

DefaultConnectTimeout == 30

Settings(url, env) ==
  LET c     == merge_env(merge_url_params(url), env)
      tune  == from_env(env)
      p_max == Or(c.max, tune.pool_max)
      p_min == IF c.min # Unset /\ c.max # Unset THEN PoolMin(c.min, c.max)
                                                 ELSE Or(c.min, tune.pool_min)
  IN  [valid |-> ~c.err /\ (p_max > 0 \/ c.pooler),
       hash_partitions |-> Or(c.hash, tune.hash_partitions),
       pool_max |-> p_max,
       pool_min |-> PoolMin(p_min, p_max),
       acquire_timeout |-> Or(c.timeout, tune.acquire_timeout),
       connect_timeout |->
         IF c.pooler THEN Or(c.timeout, IF tune.acquire_timeout > DefaultConnectTimeout
                                        THEN tune.acquire_timeout
                                        ELSE DefaultConnectTimeout)
         ELSE 0,
       auto_create_table |-> c.auto,
       pooler |-> c.pooler,
       table |-> c.table,
       isolation |-> c.isolation,
       persistent |-> resolve_persistent(c)]

=============================================================================
