--------------------------- MODULE PgConfigProofs ---------------------------
(***************************************************************************)
(* TLAPS proofs about PgConfig: what the merge of a URL, an environment    *)
(* and the defaults yields, for URLs of any length.                        *)
(***************************************************************************)
EXTENDS PgConfig, TLAPS

Merge == INSTANCE Folding WITH Op <- merge_param

(* merge_url_params goes through the parameters with merge_param.           *)
LEMMA MergeIsFold == \A url : merge_url_params(url) = Merge!Fold(DefaultConfig, url)
BY SMT DEF merge_url_params, FoldLeft, MapThenFoldSet, Max,
           Merge!Fold, Merge!FoldLeft, Merge!MapThenFoldSet, Merge!Max

(* A URL without parameters leaves the defaults.                            *)
LEMMA MergeNothing == merge_url_params(<<>>) = DefaultConfig
BY MergeIsFold, Merge!FoldEmpty

(* One more parameter is merged after the others.                           *)
LEMMA MergeOneMore ==
  ASSUME NEW S, NEW url \in Seq(S), NEW p \in S
  PROVE  merge_url_params(Append(url, p)) = merge_param(merge_url_params(url), p)
BY MergeIsFold, Merge!FoldAppend

-----------------------------------------------------------------------------
(* Types.                                                                   *)

(* The configurations a URL without the table names outside `tables' yields.*)
Configs(tables) ==
  [max : Nat \cup {Unset}, min : Nat \cup {Unset},
   hash : 1..MaxPartitions \cup {Unset}, timeout : Nat \cup {Unset},
   auto : BOOLEAN, pooler : BOOLEAN, table : tables, isolation : Isolations,
   persistent : Policies, err : BOOLEAN]

NamesIn(p, tables) == p.key = "table_name" /\ p.val \in Names => p.val \in tables

(* PgConfig::default() has its type.                                        *)
LEMMA DefaultTyped ==
  ASSUME NEW tables, "kv" \in tables
  PROVE  DefaultConfig \in Configs(tables)
BY DEF DefaultConfig, Configs, Isolations, Policies

(* One parameter changes one field, to a value of its type.                 *)
LEMMA ParamTyped ==
  ASSUME NEW tables, NEW c \in Configs(tables), NEW p, IsParam(p), NamesIn(p, tables)
  PROVE  merge_param(c, p) \in Configs(tables)
<1>1. c.err \in BOOLEAN
  BY DEF Configs
<1>2. CASE c.err
  BY <1>2 DEF merge_param
<1> DEFINE changed ==
  \/ p.val > 0 /\ merge_param(c, p) = [c EXCEPT !.max = AtMost(p.val, MaxConnections)]
  \/ p.val >= 0 /\ merge_param(c, p) = [c EXCEPT !.min = AtMost(p.val, MaxConnections)]
  \/ PartitionsAccepted(p.val) /\ merge_param(c, p) = [c EXCEPT !.hash = p.val]
  \/ p.val > 0 /\ merge_param(c, p) = [c EXCEPT !.timeout = p.val]
<1>3. ASSUME ~c.err, p.key \in NumericKeys
      PROVE  merge_param(c, p) \in Configs(tables)
  <2>1. p.val \in Nat \cup {Unset}
    BY <1>3 DEF IsParam
  <2>2. changed \/ merge_param(c, p) = c
    BY <1>3 DEF merge_param, NumericKeys
  <2> QED
    BY <2>1, <2>2, PgConfigAssumption DEF Configs, AtMost, PartitionsAccepted, Unset
<1>4. ASSUME ~c.err, p.key \notin NumericKeys
      PROVE  merge_param(c, p) \in Configs(tables)
  <2>1. \/ merge_param(c, p) = c
        \/ merge_param(c, p) = [c EXCEPT !.auto = (p.val = "true")]
        \/ merge_param(c, p) = [c EXCEPT !.pooler = (p.val = "true")]
        \/ \E i \in Isolations : merge_param(c, p) = [c EXCEPT !.isolation = i]
        \/ p.val \in Policies /\ merge_param(c, p) = [c EXCEPT !.persistent = p.val]
        \/ p.val \in tables /\ merge_param(c, p) = [c EXCEPT !.table = p.val]
        \/ merge_param(c, p) = [c EXCEPT !.err = TRUE]
    BY <1>4 DEF merge_param, NumericKeys, NamesIn, Isolations
  <2>2. \A b \in BOOLEAN : /\ [c EXCEPT !.auto = b] \in Configs(tables)
                          /\ [c EXCEPT !.pooler = b] \in Configs(tables)
                          /\ [c EXCEPT !.err = b] \in Configs(tables)
    BY DEF Configs
  <2>3. /\ \A i \in Isolations : [c EXCEPT !.isolation = i] \in Configs(tables)
        /\ \A q \in Policies : [c EXCEPT !.persistent = q] \in Configs(tables)
        /\ \A t \in tables : [c EXCEPT !.table = t] \in Configs(tables)
    BY DEF Configs
  <2> QED
    BY <2>1, <2>2, <2>3
<1> QED
  BY <1>1, <1>2, <1>3, <1>4

(* merge_url_params returns a configuration of the right type.              *)
LEMMA MergeTyped ==
  ASSUME NEW tables, "kv" \in tables, NEW url, IsUrl(url),
         \A i \in DOMAIN url : NamesIn(url[i], tables)
  PROVE  merge_url_params(url) \in Configs(tables)
<1> DEFINE S == {url[i] : i \in DOMAIN url}
<1>1. url \in Seq(S) /\ \A p \in S : IsParam(p) /\ NamesIn(p, tables)
  BY DEF IsUrl
<1> HIDE DEF S
<1>2. \A c \in Configs(tables), p \in S : merge_param(c, p) \in Configs(tables)
  BY <1>1, ParamTyped
<1>3. Merge!Fold(DefaultConfig, url) \in Configs(tables)
  BY <1>1, <1>2, DefaultTyped, Merge!FoldInvariant
<1> QED
  BY <1>3, MergeIsFold

(* What the startup reads off the settings.                                 *)
LEMMA SettingsTyped ==
  ASSUME NEW tables, "kv" \in tables, NEW url, IsUrl(url),
         \A i \in DOMAIN url : NamesIn(url[i], tables),
         NEW env, IsEnv(env)
  PROVE  /\ Settings(url, env).hash_partitions \in 1..MaxPartitions
         /\ Settings(url, env).table \in tables
         /\ Settings(url, env).valid \in BOOLEAN
         /\ Settings(url, env).pooler \in BOOLEAN
         /\ Settings(url, env).auto_create_table \in BOOLEAN
<1> DEFINE c == merge_url_params(url)
           d == merge_env(c, env)
<1>1. c \in Configs(tables)
  BY MergeTyped
<1> HIDE DEF c
<1>2. d \in Configs(tables)
  BY <1>1 DEF merge_env, Configs
<1>3. from_env(env).hash_partitions \in 1..MaxPartitions
  BY PgConfigAssumption DEF from_env
<1>4. /\ d.hash \in 1..MaxPartitions \cup {Unset}
      /\ d.table \in tables
      /\ d.pooler \in BOOLEAN /\ d.auto \in BOOLEAN
  BY <1>2 DEF Configs
<1> HIDE DEF d
<1>5. /\ Settings(url, env).hash_partitions = Or(d.hash, from_env(env).hash_partitions)
      /\ Settings(url, env).table = d.table
      /\ Settings(url, env).valid \in BOOLEAN
      /\ Settings(url, env).pooler = d.pooler
      /\ Settings(url, env).auto_create_table = d.auto
  BY DEF Settings, c, d
<1> QED
  BY <1>3, <1>4, <1>5 DEF Or

-----------------------------------------------------------------------------
(* The last valid occurrence of a parameter.                                *)

Occ(url, key, good) == {i \in DOMAIN url : url[i].key = key /\ url[i].val \in good}
LastVal(url, key, good, default) ==
  IF Occ(url, key, good) = {} THEN default
  ELSE url[CHOOSE i \in Occ(url, key, good) : \A j \in Occ(url, key, good) : j <= i].val

(* Without parameters the last valid value is the default.                  *)
LEMMA LastValNothing ==
  ASSUME NEW key, NEW good, NEW default
  PROVE  LastVal(<<>>, key, good, default) = default
BY DEF LastVal, Occ

(* One more parameter is the last one if it is valid, and is ignored if not.*)
(* One more parameter is the last valid one, or changes nothing.            *)
LEMMA LastValOneMore ==
  ASSUME NEW S, NEW url \in Seq(S), NEW p \in S, NEW key, NEW good, NEW default
  PROVE  LastVal(Append(url, p), key, good, default) =
           IF p.key = key /\ p.val \in good THEN p.val
           ELSE LastVal(url, key, good, default)
<1> DEFINE long == Append(url, p)
           n == Len(url)
           At(u) == CHOOSE i \in Occ(u, key, good) : \A j \in Occ(u, key, good) : j <= i
<1>1. /\ n \in Nat /\ DOMAIN url = 1..n /\ DOMAIN long = 1..(n+1)
      /\ long[n+1] = p
      /\ \A i \in 1..n : long[i] = url[i]
  OBVIOUS
<1> HIDE DEF n, long
<1>2. CASE p.key = key /\ p.val \in good
  <2>1. n + 1 \in Occ(long, key, good) /\ \A j \in Occ(long, key, good) : j <= n + 1
    BY <1>1, <1>2 DEF Occ
  <2>2. At(long) = n + 1
    <3>1. \A i \in Occ(long, key, good) :
            (\A j \in Occ(long, key, good) : j <= i) => i = n + 1
      BY <1>1, <2>1 DEF Occ
    <3> QED
      BY <2>1, <3>1
  <2>3. LastVal(long, key, good, default) = long[At(long)].val
    BY <2>1 DEF LastVal
  <2> QED
    BY <1>1, <1>2, <2>2, <2>3 DEF long
<1>3. CASE ~(p.key = key /\ p.val \in good)
  <2>1. Occ(long, key, good) = Occ(url, key, good)
    BY <1>1, <1>3 DEF Occ
  <2>2. CASE Occ(url, key, good) = {}
    BY <1>3, <2>1, <2>2 DEF LastVal, long
  <2>3. CASE Occ(url, key, good) # {}
    <3>1. \E i \in Occ(url, key, good) : \A j \in Occ(url, key, good) : j <= i
      <4>1. Occ(url, key, good) \in SUBSET (1..n)
        BY <1>1 DEF Occ
      <4> QED
        BY <1>1, <2>3, <4>1, Merge!LargestIndex
    <3>2. At(url) \in Occ(url, key, good) /\ At(long) = At(url)
      BY <2>1, <3>1
    <3>3. long[At(url)] = url[At(url)]
      BY <1>1, <3>2 DEF Occ
    <3> QED
      BY <1>3, <2>1, <2>3, <3>2, <3>3 DEF LastVal, long
  <2> QED
    BY <2>2, <2>3
<1> QED
  BY <1>2, <1>3

-----------------------------------------------------------------------------
(* The merge of a URL is that of its last valid parameters.                 *)

BadName(p) == p.key = "table_name" /\ p.val \notin Names

(* The last isolation level of a URL, whatever its value.                   *)
Vals(url) == {url[i].val : i \in DOMAIN url}
LevelOf(v) == IF v \in Isolations THEN v ELSE "ReadCommitted"

(* A configuration is that of the last valid parameters, if `any' has all   *)
(* values of the URL.                                                       *)
LastValid(url, c, any) ==
  /\ c.max = AtMost(LastVal(url, "max_connections", Positive, Unset), MaxConnections)
  /\ c.min = AtMost(LastVal(url, "min_connections", Nat, Unset), MaxConnections)
  /\ c.hash = LastVal(url, "hash_partitions", 1..MaxPartitions, Unset)
  /\ c.timeout = LastVal(url, "connect_timeout", Positive, Unset)
  /\ c.auto <=> LastVal(url, "auto_create_table", Bools, "true") = "true"
  /\ c.pooler <=> LastVal(url, "pooler", Bools, "false") = "true"
  /\ c.table = LastVal(url, "table_name", Names, "kv")
  /\ c.isolation = LevelOf(LastVal(url, "isolation_level", any, "ReadCommitted"))
  /\ c.persistent = LastVal(url, "persistent_statements", Policies, "Auto")

Merged(url, c, any) ==
  /\ c.err <=> \E i \in DOMAIN url : BadName(url[i])
  /\ ~c.err => LastValid(url, c, any)

(* The defaults are the last valid values of no parameters.                 *)
LEMMA MergedNothing == \A any : Merged(<<>>, DefaultConfig, any)
<1> TAKE any
<1>1. LastValid(<<>>, DefaultConfig, any)
  <2>1. \A key, good, default : LastVal(<<>>, key, good, default) = default
    BY LastValNothing
  <2>2. AtMost(Unset, MaxConnections) = Unset
    BY PgConfigAssumption DEF AtMost, Unset
  <2> QED
    BY <2>1, <2>2 DEF LastValid, DefaultConfig, LevelOf
<1> QED
  BY <1>1 DEF Merged, DefaultConfig

(* A parameter that is accepted, as the last one of the URL.                *)
LEMMA MergedOneMore ==
  ASSUME NEW S, \A q \in S : IsParam(q), NEW url \in Seq(S), NEW p \in S,
         NEW any, p.val \in any,
         NEW c \in Configs(Names), Merged(url, c, any)
  PROVE  Merged(Append(url, p), merge_param(c, p), any)
<1> DEFINE long == Append(url, p)
           d == merge_param(c, p)
<1>0. /\ c.err \in BOOLEAN /\ c.auto \in BOOLEAN /\ c.pooler \in BOOLEAN
      /\ IsParam(p)
  BY DEF Configs
<1>1. (\E i \in DOMAIN long : BadName(long[i]))
        <=> (\E i \in DOMAIN url : BadName(url[i])) \/ BadName(p)
  <2>1. /\ Len(url) \in Nat /\ DOMAIN url = 1..Len(url)
        /\ DOMAIN long = 1..(Len(url)+1) /\ long[Len(url)+1] = p
        /\ \A i \in 1..Len(url) : long[i] = url[i]
    OBVIOUS
  <2> HIDE DEF long
  <2> QED
    BY <2>1
<1>2. CASE c.err
  <2>1. d = c
    BY <1>2 DEF merge_param
  <2> QED
    BY <1>1, <1>2, <2>1 DEF Merged
<1>3. CASE ~c.err
  <2>1. \A key, good, default :
          LastVal(long, key, good, default) =
            IF p.key = key /\ p.val \in good THEN p.val
            ELSE LastVal(url, key, good, default)
    BY LastValOneMore
  <2>2. LastValid(url, c, any) /\ ~ \E i \in DOMAIN url : BadName(url[i])
    BY <1>3 DEF Merged
  <2> HIDE DEF long
  <2>3. p.key \in NumericKeys =>
          /\ p.val \in Nat \cup {Unset}
          /\ p.val > 0 <=> p.val \in Positive
          /\ p.val >= 0 <=> p.val \in Nat
          /\ PartitionsAccepted(p.val) <=> p.val \in 1..MaxPartitions
    BY <1>0, PgConfigAssumption DEF IsParam, Positive, PartitionsAccepted, Unset
  <2>4. d.err <=> BadName(p)
    <3>1. CASE BadName(p)
      BY <1>3, <3>1 DEF BadName, merge_param, Configs
    <3>2. CASE ~BadName(p)
      BY <1>3, <3>2 DEF BadName, merge_param, Configs
    <3> QED
      BY <3>1, <3>2
  <2>5. ASSUME ~BadName(p)
        PROVE  LastValid(long, d, any)
    <3>1. /\ d.max = IF p.key = "max_connections" /\ p.val \in Positive
                     THEN AtMost(p.val, MaxConnections) ELSE c.max
          /\ d.min = IF p.key = "min_connections" /\ p.val \in Nat
                     THEN AtMost(p.val, MaxConnections) ELSE c.min
          /\ d.hash = IF p.key = "hash_partitions" /\ p.val \in 1..MaxPartitions
                      THEN p.val ELSE c.hash
          /\ d.timeout = IF p.key = "connect_timeout" /\ p.val \in Positive
                         THEN p.val ELSE c.timeout
      BY <1>3, <2>3, <2>5 DEF merge_param, NumericKeys, Configs, BadName
    <3>2. /\ d.auto <=> (IF p.key = "auto_create_table" /\ p.val \in Bools
                        THEN p.val = "true" ELSE c.auto)
          /\ d.pooler <=> (IF p.key = "pooler" /\ p.val \in Bools
                          THEN p.val = "true" ELSE c.pooler)
      BY <1>3, <2>3, <2>5 DEF merge_param, NumericKeys, Configs, Bools, BadName
    <3>8. /\ d.table = IF p.key = "table_name" /\ p.val \in Names
                       THEN p.val ELSE c.table
          /\ d.isolation = IF p.key = "isolation_level" THEN LevelOf(p.val)
                           ELSE c.isolation
          /\ d.persistent = IF p.key = "persistent_statements" /\ p.val \in Policies
                            THEN p.val ELSE c.persistent
      BY <1>3, <2>3, <2>5 DEF merge_param, NumericKeys, Configs, BadName, LevelOf
    <3> HIDE DEF d
    <3>3. d.max = AtMost(LastVal(long, "max_connections", Positive, Unset), MaxConnections)
      <4>1. LastVal(long, "max_connections", Positive, Unset) =
              IF p.key = "max_connections" /\ p.val \in Positive THEN p.val
              ELSE LastVal(url, "max_connections", Positive, Unset)
        BY <2>1
      <4>2. c.max = AtMost(LastVal(url, "max_connections", Positive, Unset), MaxConnections)
        BY <2>2 DEF LastValid
      <4> QED
        BY <3>1, <4>1, <4>2
    <3>4. d.min = AtMost(LastVal(long, "min_connections", Nat, Unset), MaxConnections)
      <4>1. LastVal(long, "min_connections", Nat, Unset) =
              IF p.key = "min_connections" /\ p.val \in Nat THEN p.val
              ELSE LastVal(url, "min_connections", Nat, Unset)
        BY <2>1
      <4>2. c.min = AtMost(LastVal(url, "min_connections", Nat, Unset), MaxConnections)
        BY <2>2 DEF LastValid
      <4> QED
        BY <3>1, <4>1, <4>2
    <3>5. d.hash = LastVal(long, "hash_partitions", 1..MaxPartitions, Unset)
      <4>1. LastVal(long, "hash_partitions", 1..MaxPartitions, Unset) =
              IF p.key = "hash_partitions" /\ p.val \in 1..MaxPartitions THEN p.val
              ELSE LastVal(url, "hash_partitions", 1..MaxPartitions, Unset)
        BY <2>1
      <4>2. c.hash = LastVal(url, "hash_partitions", 1..MaxPartitions, Unset)
        BY <2>2 DEF LastValid
      <4> QED
        BY <3>1, <4>1, <4>2
    <3>6. d.timeout = LastVal(long, "connect_timeout", Positive, Unset)
      <4>1. LastVal(long, "connect_timeout", Positive, Unset) =
              IF p.key = "connect_timeout" /\ p.val \in Positive THEN p.val
              ELSE LastVal(url, "connect_timeout", Positive, Unset)
        BY <2>1
      <4>2. c.timeout = LastVal(url, "connect_timeout", Positive, Unset)
        BY <2>2 DEF LastValid
      <4> QED
        BY <3>1, <4>1, <4>2
    <3>7. /\ d.auto <=> LastVal(long, "auto_create_table", Bools, "true") = "true"
          /\ d.pooler <=> LastVal(long, "pooler", Bools, "false") = "true"
      BY <2>1, <2>2, <3>2 DEF LastValid
    <3>9. d.table = LastVal(long, "table_name", Names, "kv")
      <4>1. LastVal(long, "table_name", Names, "kv") =
              IF p.key = "table_name" /\ p.val \in Names THEN p.val
              ELSE LastVal(url, "table_name", Names, "kv")
        BY <2>1
      <4>2. c.table = LastVal(url, "table_name", Names, "kv")
        BY <2>2 DEF LastValid
      <4> QED
        BY <3>8, <4>1, <4>2
    <3>10. d.isolation = LevelOf(LastVal(long, "isolation_level", any, "ReadCommitted"))
      <4>1. LastVal(long, "isolation_level", any, "ReadCommitted") =
              IF p.key = "isolation_level" THEN p.val
              ELSE LastVal(url, "isolation_level", any, "ReadCommitted")
        BY <2>1
      <4>2. c.isolation
              = LevelOf(LastVal(url, "isolation_level", any, "ReadCommitted"))
        BY <2>2 DEF LastValid
      <4> QED
        BY <3>8, <4>1, <4>2
    <3>11. d.persistent = LastVal(long, "persistent_statements", Policies, "Auto")
      <4>1. LastVal(long, "persistent_statements", Policies, "Auto") =
              IF p.key = "persistent_statements" /\ p.val \in Policies THEN p.val
              ELSE LastVal(url, "persistent_statements", Policies, "Auto")
        BY <2>1
      <4>2. c.persistent = LastVal(url, "persistent_statements", Policies, "Auto")
        BY <2>2 DEF LastValid
      <4> QED
        BY <3>8, <4>1, <4>2
    <3> QED
      BY <3>3, <3>4, <3>5, <3>6, <3>7, <3>9, <3>10, <3>11 DEF LastValid
  <2> QED
    BY <1>1, <2>2, <2>4, <2>5 DEF Merged, long
<1> QED
  BY <1>0, <1>2, <1>3

(* Every URL: the settings read from it are those of the last valid         *)
(* occurrence of each parameter (merge_url_params), the sizes capped.       *)
LEMMA MergeIsLastValid ==
  ASSUME NEW url, IsUrl(url)
  PROVE  Merged(url, merge_url_params(url), Vals(url))
<1> DEFINE S == {url[i] : i \in DOMAIN url}
           T == {u \in Seq(S) : Merged(u, merge_url_params(u), Vals(url))
                                /\ merge_url_params(u) \in Configs(Names)}
<1>1. url \in Seq(S) /\ \A p \in S : IsParam(p) /\ p.val \in Vals(url)
  BY DEF IsUrl, Vals
<1> HIDE DEF S
<1>2. <<>> \in T
  <2>1. DefaultConfig \in Configs(Names)
    BY DefaultTyped DEF Names
  <2> QED
    BY <2>1, MergeNothing, MergedNothing
<1>3. ASSUME NEW u \in Seq(S), NEW p \in S, u \in T
      PROVE  Append(u, p) \in T
  <2>1. merge_url_params(Append(u, p)) = merge_param(merge_url_params(u), p)
    BY MergeOneMore
  <2>2. merge_param(merge_url_params(u), p) \in Configs(Names)
    <3>1. IsParam(p) /\ NamesIn(p, Names)
      BY <1>1 DEF NamesIn
    <3> QED
      BY <1>3, <3>1, ParamTyped
  <2>3. Merged(Append(u, p), merge_param(merge_url_params(u), p), Vals(url))
    BY <1>1, <1>3, MergedOneMore
  <2> QED
    BY <2>1, <2>2, <2>3
<1>4. \A u \in Seq(S) : u \in T
  <2> HIDE DEF T
  <2> QED
    BY <1>2, <1>3, Merge!SequenceInduction
<1> QED
  BY <1>1, <1>4

-----------------------------------------------------------------------------
(* The settings.                                                            *)

(* Without an occurrence the default, else a value that is good.            *)
LEMMA LastValTyped ==
  ASSUME NEW url, IsUrl(url), NEW key, NEW good
  PROVE  /\ Occ(url, key, good) = {} => \A d : LastVal(url, key, good, d) = d
         /\ Occ(url, key, good) # {}
              => /\ \A d, e : LastVal(url, key, good, d) = LastVal(url, key, good, e)
                 /\ \A d : LastVal(url, key, good, d) \in good
<1> DEFINE O == Occ(url, key, good)
<1>1. CASE O = {}
  BY <1>1 DEF LastVal
<1>2. CASE O # {}
  <2>1. DOMAIN url = 1..Len(url) /\ Len(url) \in Nat
    BY DEF IsUrl
  <2>2. O \in SUBSET (1..Len(url))
    BY <2>1 DEF Occ
  <2>3. \E i \in O : \A j \in O : j <= i
    BY <1>2, <2>1, <2>2, Merge!LargestIndex
  <2>4. (CHOOSE i \in O : \A j \in O : j <= i) \in O
    BY <2>3
  <2>5. \A d : LastVal(url, key, good, d)
                 = url[CHOOSE i \in O : \A j \in O : j <= i].val
    BY <1>2 DEF LastVal
  <2>6. \A i \in O : url[i].val \in good
    BY DEF Occ
  <2> QED
    BY <1>2, <2>4, <2>5, <2>6
<1> QED
  BY <1>1, <1>2

(* What the environment alone asks for.                                     *)
EnvMax(env) == IF env.max > 0 THEN env.max ELSE 20
EnvHash(env) == IF env.hash \in 1..MaxPartitions THEN env.hash ELSE 1
EnvTimeout(env) == IF env.timeout > 0 THEN env.timeout ELSE 10

(* from_env: the pool sizes and partitions of the environment.              *)
LEMMA FromEnv ==
  ASSUME NEW env, IsEnv(env)
  PROVE  /\ from_env(env).pool_max = EnvMax(env) /\ EnvMax(env) \in Positive
         /\ from_env(env).pool_min = AtMost(Or(env.min, 5), EnvMax(env))
         /\ from_env(env).pool_min \in Nat
         /\ from_env(env).hash_partitions = EnvHash(env)
         /\ from_env(env).acquire_timeout = EnvTimeout(env)
         /\ EnvTimeout(env) \in Positive
<1>1. env.max \in Nat \cup {Unset} /\ env.min \in Nat \cup {Unset}
      /\ env.hash \in Nat \cup {Unset} /\ env.timeout \in Nat \cup {Unset}
  BY DEF IsEnv
<1>2. from_env(env).pool_max = EnvMax(env) /\ EnvMax(env) \in Positive
  BY <1>1 DEF from_env, EnvMax, Positive, Or, Unset
<1>3. from_env(env).pool_min = AtMost(Or(env.min, 5), EnvMax(env))
      /\ from_env(env).pool_min \in Nat
  <2>1. from_env(env).pool_min = AtMost(Or(env.min, 5), from_env(env).pool_max)
    BY DEF from_env
  <2>2. Or(env.min, 5) \in Nat
    BY <1>1 DEF Or, Unset
  <2> QED
    BY <1>2, <2>1, <2>2 DEF AtMost, Positive
<1>4. from_env(env).hash_partitions = EnvHash(env)
  BY <1>1, PgConfigAssumption DEF from_env, EnvHash, Or, Unset
<1>5. from_env(env).acquire_timeout = EnvTimeout(env) /\ EnvTimeout(env) \in Positive
  BY <1>1 DEF from_env, EnvTimeout, Positive, Or, Unset
<1> QED
  BY <1>2, <1>3, <1>4, <1>5

(* The pool sizes: capped in the URL, capped again against each other.      *)
MaxOf(url, env) ==
  IF Occ(url, "max_connections", Positive) = {} THEN EnvMax(env)
  ELSE AtMost(LastVal(url, "max_connections", Positive, 0), MaxConnections)
MinOf(url, env) ==
  IF Occ(url, "min_connections", Nat) = {} THEN AtMost(Or(env.min, 5), EnvMax(env))
  ELSE AtMost(LastVal(url, "min_connections", Nat, 0), MaxConnections)

(* The time limits, longer by default for a connection of its own.          *)
DirectTimeout(env) == IF EnvTimeout(env) > 30 THEN EnvTimeout(env) ELSE 30
TimeoutOf(url, default) == LastVal(url, "connect_timeout", Positive, default)

(* The environment decides about prepared statements before the URL.        *)
PolicyOf(url, env) ==
  IF env.persistent \in Policies THEN env.persistent
  ELSE LastVal(url, "persistent_statements", Policies, "Auto")

(* A server comes up only with a table name that is an identifier, and its  *)
(* settings are then, field by field, those of the last valid parameter of  *)
(* the URL, else of the environment, else the default.                      *)
THEOREM SettingsExact ==
  ASSUME NEW url, IsUrl(url), NEW env, IsEnv(env)
  PROVE  LET set == Settings(url, env)
         IN  /\ set.valid <=> \A i \in DOMAIN url : ~BadName(url[i])
             /\ set.valid =>
                  /\ set.hash_partitions
                       = LastVal(url, "hash_partitions", 1..MaxPartitions, EnvHash(env))
                  /\ set.pool_max = MaxOf(url, env)
                  /\ set.pool_min = AtMost(MinOf(url, env), MaxOf(url, env))
                  /\ set.pool_max \in Positive
                  /\ set.pool_min \in 0..set.pool_max
                  /\ set.pooler <=> LastVal(url, "pooler", Bools, "false") = "true"
                  /\ set.auto_create_table
                       <=> LastVal(url, "auto_create_table", Bools, "true") = "true"
                  /\ set.acquire_timeout = TimeoutOf(url, EnvTimeout(env))
                  /\ set.connect_timeout = IF set.pooler
                                           THEN TimeoutOf(url, DirectTimeout(env))
                                           ELSE 0
                  /\ set.acquire_timeout \in Positive
                  /\ set.pooler => set.connect_timeout \in Positive
                  /\ set.table = LastVal(url, "table_name", Names, "kv")
                  /\ set.isolation = LevelOf(LastVal(url, "isolation_level",
                                                     Vals(url), "ReadCommitted"))
                  /\ set.persistent <=> PolicyOf(url, env) # "Disabled" /\ ~set.pooler
                  /\ set.persistent \in BOOLEAN
<1> DEFINE c    == merge_url_params(url)
           d    == merge_env(c, env)
           tune == from_env(env)
           maxs == Occ(url, "max_connections", Positive)
           mins == Occ(url, "min_connections", Nat)
           pmax == Or(d.max, tune.pool_max)
           pmin == IF d.min # Unset /\ d.max # Unset THEN PoolMin(d.min, d.max)
                                                     ELSE Or(d.min, tune.pool_min)
<1>1. c \in Configs(Names) /\ Merged(url, c, Vals(url))
  BY MergeTyped, MergeIsLastValid DEF NamesIn, Names
<1>2. /\ Settings(url, env).valid = (~d.err /\ (pmax > 0 \/ d.pooler))
      /\ Settings(url, env).hash_partitions = Or(d.hash, tune.hash_partitions)
      /\ Settings(url, env).pool_max = pmax
      /\ Settings(url, env).pool_min = PoolMin(pmin, pmax)
      /\ Settings(url, env).pooler = d.pooler
      /\ Settings(url, env).auto_create_table = d.auto
      /\ Settings(url, env).acquire_timeout = Or(d.timeout, tune.acquire_timeout)
      /\ Settings(url, env).connect_timeout
           = IF d.pooler
             THEN Or(d.timeout, IF tune.acquire_timeout > DefaultConnectTimeout
                                THEN tune.acquire_timeout ELSE DefaultConnectTimeout)
             ELSE 0
      /\ Settings(url, env).table = d.table
      /\ Settings(url, env).isolation = d.isolation
      /\ Settings(url, env).persistent = (~d.pooler /\ d.persistent \in {"Auto", "Enabled"})
  BY DEF Settings, resolve_persistent
<1> HIDE DEF c
<1>3. /\ d \in Configs(Names)
      /\ d.err = c.err /\ d.max = c.max /\ d.min = c.min /\ d.hash = c.hash
      /\ d.timeout = c.timeout /\ d.pooler = c.pooler /\ d.auto = c.auto
      /\ d.table = c.table /\ d.isolation = c.isolation
      /\ d.persistent = IF env.persistent \in Policies THEN env.persistent
                        ELSE c.persistent
  BY <1>1 DEF merge_env, Configs
<1>4. /\ tune.pool_max = EnvMax(env) /\ EnvMax(env) \in Positive
      /\ tune.pool_min = AtMost(Or(env.min, 5), EnvMax(env))
      /\ tune.pool_min \in Nat
      /\ tune.hash_partitions = EnvHash(env)
      /\ tune.acquire_timeout = EnvTimeout(env) /\ EnvTimeout(env) \in Positive
  BY FromEnv
<1> HIDE DEF d, tune
<1>5. d.err \in BOOLEAN /\ d.max \in Nat \cup {Unset} /\ d.min \in Nat \cup {Unset}
      /\ d.timeout \in Nat \cup {Unset} /\ d.pooler \in BOOLEAN /\ d.auto \in BOOLEAN
      /\ d.persistent \in Policies
  BY <1>3 DEF Configs
<1>6. CASE d.err
  BY <1>1, <1>2, <1>3, <1>6 DEF Merged
<1>7. CASE ~d.err
  <2>1. LastValid(url, c, Vals(url)) /\ \A i \in DOMAIN url : ~BadName(url[i])
    BY <1>1, <1>3, <1>7 DEF Merged
  <2>2. IF maxs = {} THEN d.max = Unset /\ MaxOf(url, env) = EnvMax(env)
                     ELSE d.max = MaxOf(url, env) /\ d.max \in Positive
    <3>1. d.max = AtMost(LastVal(url, "max_connections", Positive, Unset),
                         MaxConnections)
      BY <1>3, <2>1 DEF LastValid
    <3>2. CASE maxs = {}
      BY <1>4, <3>1, <3>2, LastValTyped, PgConfigAssumption
         DEF MaxOf, AtMost, Unset, Positive
    <3>3. CASE maxs # {}
      <4>1. /\ LastVal(url, "max_connections", Positive, Unset)
                 = LastVal(url, "max_connections", Positive, 0)
            /\ LastVal(url, "max_connections", Positive, Unset) \in Positive
        BY <3>3, LastValTyped
      <4> QED
        BY <3>1, <3>3, <4>1, PgConfigAssumption DEF MaxOf, AtMost, Positive
    <3> QED
      BY <3>2, <3>3
  <2>3. IF mins = {} THEN d.min = Unset /\ MinOf(url, env) = tune.pool_min
                     ELSE d.min = MinOf(url, env) /\ d.min \in Nat
    <3>1. d.min = AtMost(LastVal(url, "min_connections", Nat, Unset), MaxConnections)
      BY <1>3, <2>1 DEF LastValid
    <3>2. CASE mins = {}
      <4>1. LastVal(url, "min_connections", Nat, Unset) = Unset
        BY <3>2, LastValTyped
      <4> QED
        BY <1>4, <3>1, <3>2, <4>1, PgConfigAssumption
           DEF MinOf, AtMost, Unset
    <3>3. CASE mins # {}
      <4>1. /\ LastVal(url, "min_connections", Nat, Unset)
                 = LastVal(url, "min_connections", Nat, 0)
            /\ LastVal(url, "min_connections", Nat, Unset) \in Nat
        BY <3>3, LastValTyped
      <4> QED
        BY <1>4, <3>1, <3>3, <4>1, PgConfigAssumption DEF MinOf, AtMost
    <3> QED
      BY <3>2, <3>3
  <2>4. pmax = MaxOf(url, env) /\ pmax \in Positive
    BY <1>4, <2>2 DEF Or, Unset, Positive
  <2>5. pmin \in Nat /\ AtMost(pmin, pmax) = AtMost(MinOf(url, env), MaxOf(url, env))
        /\ PoolMin(pmin, pmax) = AtMost(pmin, pmax)
    <3>1. CASE mins = {}
      BY <1>4, <2>3, <2>4, <3>1 DEF Or, Unset, PoolMin
    <3>2. CASE mins # {} /\ maxs = {}
      BY <2>2, <2>3, <2>4, <3>2 DEF Or, Unset, PoolMin
    <3>3. CASE mins # {} /\ maxs # {}
      <4>1. pmax = d.max /\ pmin = AtMost(d.min, d.max) /\ d.min = MinOf(url, env)
            /\ d.min \in Nat /\ d.max \in Nat /\ d.max = MaxOf(url, env)
        BY <2>2, <2>3, <3>3 DEF Or, Unset, PoolMin, Positive
      <4> QED
        BY <4>1 DEF AtMost, PoolMin
    <3> QED
      BY <3>1, <3>2, <3>3
  <2>6. PoolMin(pmin, pmax) \in 0..pmax
    BY <2>4, <2>5 DEF AtMost, Positive
  <2>7. Or(d.hash, tune.hash_partitions)
          = LastVal(url, "hash_partitions", 1..MaxPartitions, EnvHash(env))
    <3>1. d.hash = LastVal(url, "hash_partitions", 1..MaxPartitions, Unset)
      BY <1>3, <2>1 DEF LastValid
    <3>2. CASE Occ(url, "hash_partitions", 1..MaxPartitions) = {}
      BY <1>4, <3>1, <3>2, LastValTyped DEF Or
    <3>3. CASE Occ(url, "hash_partitions", 1..MaxPartitions) # {}
      <4> DEFINE good == 1..MaxPartitions
      <4>0. Occ(url, "hash_partitions", good) # {}
        BY <3>3
      <4> HIDE DEF good
      <4>2. /\ LastVal(url, "hash_partitions", good, Unset)
                 = LastVal(url, "hash_partitions", good, EnvHash(env))
            /\ LastVal(url, "hash_partitions", good, Unset) \in good
        BY <4>0, LastValTyped
      <4>1. /\ LastVal(url, "hash_partitions", 1..MaxPartitions, Unset)
                 = LastVal(url, "hash_partitions", 1..MaxPartitions, EnvHash(env))
            /\ LastVal(url, "hash_partitions", 1..MaxPartitions, Unset)
                 \in 1..MaxPartitions
        BY <4>2 DEF good
      <4> QED
        BY <3>1, <4>1, PgConfigAssumption DEF Or, Unset
    <3> QED
      BY <3>2, <3>3
  <2>8. /\ d.pooler <=> LastVal(url, "pooler", Bools, "false") = "true"
        /\ d.auto <=> LastVal(url, "auto_create_table", Bools, "true") = "true"
    BY <1>3, <2>1 DEF LastValid
  <2>9. /\ Settings(url, env).acquire_timeout = TimeoutOf(url, EnvTimeout(env))
        /\ Settings(url, env).connect_timeout
             = IF d.pooler THEN TimeoutOf(url, DirectTimeout(env)) ELSE 0
        /\ TimeoutOf(url, EnvTimeout(env)) \in Positive
        /\ TimeoutOf(url, DirectTimeout(env)) \in Positive
    <3> DEFINE times == Occ(url, "connect_timeout", Positive)
    <3>1. d.timeout = TimeoutOf(url, Unset)
      BY <1>3, <2>1 DEF LastValid, TimeoutOf
    <3>2. DirectTimeout(env) \in Positive
          /\ DirectTimeout(env) = IF tune.acquire_timeout > DefaultConnectTimeout
                                  THEN tune.acquire_timeout ELSE DefaultConnectTimeout
      BY <1>4 DEF DirectTimeout, Positive, DefaultConnectTimeout
    <3>3. CASE times = {}
      <4>1. \A t : TimeoutOf(url, t) = t
        BY <3>3, LastValTyped DEF TimeoutOf
      <4> QED
        BY <1>2, <1>4, <3>1, <3>2, <4>1 DEF Or
    <3>4. CASE times # {}
      <4>1. /\ \A t : TimeoutOf(url, t) = TimeoutOf(url, Unset)
            /\ TimeoutOf(url, Unset) \in Positive
        BY <3>4, LastValTyped DEF TimeoutOf
      <4>2. TimeoutOf(url, Unset) # Unset
        BY <4>1 DEF Positive, Unset
      <4>3. TimeoutOf(url, EnvTimeout(env)) = TimeoutOf(url, Unset)
            /\ TimeoutOf(url, DirectTimeout(env)) = TimeoutOf(url, Unset)
        BY <4>1
      <4> HIDE DEF times
      <4> QED
        BY <1>2, <3>1, <4>1, <4>2, <4>3 DEF Or
    <3> QED
      BY <3>3, <3>4
  <2>11. /\ Settings(url, env).table = LastVal(url, "table_name", Names, "kv")
         /\ Settings(url, env).isolation
              = LevelOf(LastVal(url, "isolation_level", Vals(url), "ReadCommitted"))
    BY <1>2, <1>3, <2>1 DEF LastValid
  <2>12. /\ Settings(url, env).persistent <=> PolicyOf(url, env) # "Disabled" /\ ~d.pooler
         /\ Settings(url, env).persistent \in BOOLEAN
    <3>1. d.persistent = PolicyOf(url, env)
      BY <1>3, <2>1 DEF LastValid, PolicyOf
    <3> QED
      BY <1>2, <1>5, <3>1 DEF Policies
  <2>10. Settings(url, env).valid
    <3>1. pmax > 0
      BY <2>4 DEF Positive
    <3> HIDE DEF pmax
    <3> QED
      BY <1>2, <1>7, <3>1
  <2> HIDE DEF pmax, pmin
  <2> QED
    BY <1>2, <2>1, <2>4, <2>5, <2>6, <2>7, <2>8, <2>9, <2>10, <2>11, <2>12
<1> QED
  BY <1>5, <1>6, <1>7

=============================================================================
