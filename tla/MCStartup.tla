------------------------------ MODULE MCStartup ------------------------------
(* TLC instances of Startup: values of its constants.                       *)
EXTENDS Startup

Param(k, v) == [key |-> k, val |-> v]

(* Parameters of the local server: accepted, rejected, capped.              *)
LocalParams ==
  {Param("hash_partitions", 2), Param("hash_partitions", 0),
   Param("hash_partitions", MaxPartitions), Param("hash_partitions", MaxPartitions + 1),
   Param("max_connections", 3), Param("max_connections", 0),
   Param("max_connections", MaxConnections + 1),
   Param("min_connections", 4), Param("min_connections", Unset),
   Param("min_connections", MaxConnections + 1),
   Param("pooler", "true"), Param("pooler", "?"),
   Param("auto_create_table", "false"),
   Param("connect_timeout", 0), Param("connect_timeout", 40),
   Param("persistent_statements", "Enabled"), Param("persistent_statements", "Disabled"),
   Param("isolation_level", "Serializable"), Param("isolation_level", "?"),
   Param("table_name", "KV"), Param("table_name", "long"), Param("table_name", "?")}

LowerCaseParams == LocalParams \ {Param("table_name", "KV")}

Others ==
  {<<>>, <<Param("hash_partitions", 2), Param("pooler", "true")>>,
   <<Param("hash_partitions", 4)>>}

Env(max, min, hash, timeout, persistent) ==
  [max |-> max, min |-> min, hash |-> hash, timeout |-> timeout,
   persistent |-> persistent]

LocalEnvs ==
  {Env(Unset, Unset, Unset, Unset, "?"), Env(6, 8, 2, 50, "Enabled"),
   Env(0, 0, MaxPartitions + 1, 0, "?")}

(* Every number of PgTune about its limits, and durations about a second.   *)
Around(n) == {n - 1, n} \cup (IF n = MaxInt THEN {} ELSE {n + 1})
NumberVars(f) ==
  {Absent, NotFinite} \cup Around(numbers[f].lo) \cup Around(numbers[f].hi)
DurationVars == [n : {0, 1, 500, 999, 1000, 1500}, unit : {"ms", "s", "m"}]

LocalTunings ==
  (UNION {[name : {f}, value : NumberVars(f), duration : {Absent}] :
            f \in DOMAIN numbers})
  \cup {[Untuned EXCEPT !.duration = d] : d \in DurationVars}

=============================================================================
