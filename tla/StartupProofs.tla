---------------------------- MODULE StartupProofs ----------------------------
(***************************************************************************)
(* TLAPS proofs about Startup, for any number of servers, partitions, URL  *)
(* parameters, environments and failures.                                  *)
(***************************************************************************)
EXTENDS Startup, PgConfigProofs, TLAPS

(* Heartbeat again, with its proofs.                                        *)
Beats == INSTANCE HeartbeatProofs WITH original <- Original, armed <- Armed

-----------------------------------------------------------------------------
(* The inductive invariant.                                                 *)

Steps == Building \cup Down \cup {"up"}

(* A configuration that PgStore::new accepted.                              *)
Accepted(c) ==
  /\ c # NoConfig
  /\ c.hash_partitions \in 1..MaxPartitions
  /\ c.auto_create_table \in BOOLEAN
  /\ c.pooler \in BOOLEAN

(* Past the making of the SQL for the table.                                *)
Generated == {"blocked", "creating", "check"}
NamesFit(s) ==
  /\ config[s].auto_create_table
  /\ \/ step[s] \in Generated \cup {"up"}
     \/ step[s] = "create" /\ config[s].pooler
  => ~NamesTooLong(config[s])

Servers ==
  /\ step \in [Server -> Steps]
  /\ config = [s \in Server |-> config[s]]
  /\ \A s \in Server : IF step[s] \in Down THEN config[s] = NoConfig
                                           ELSE Accepted(config[s])
  /\ \A s \in Server : step[s] = "finish" => ~config[s].auto_create_table
  /\ \A s \in Server : NamesFit(s)

(* At most one CREATE TABLE is uncommitted, and there is no table yet.      *)
Database ==
  /\ table \in Partitioning \ {1}
  /\ creator \in Server \cup {NoServer}
  /\ \A s \in Server : creator = s <=> step[s] = "creating"
  /\ creator # NoServer => table = NoTable

Inputs ==
  /\ url \in Seq(UrlParams)
  /\ tuning \in Tunings \cup {Untuned}
  /\ env \in Envs
  /\ step[Local] # "down" => url = <<>> /\ tuning = Untuned

(* Local's heartbeat starts with it, and its store is held while it starts. *)
Lives ==
  /\ arc \in BOOLEAN
  /\ step[Local] = "down" => hb = "none"
  /\ step[Local] # "up" => arc

IInv == Servers /\ Database /\ Inputs /\ Lives /\ Beats!IInv

(* The names of the tables are stored as they are configured: none of them  *)
(* has an upper-case letter.                                                *)
UnfoldedNames ==
  LET Unfolded(p) == p.key = "table_name" /\ p.val \in Names => Folded(p.val) = p.val
  IN  /\ \A p \in UrlParams : Unfolded(p)
      /\ \A u \in OtherUrls : \A i \in DOMAIN u : Unfolded(u[i])

NamesStored ==
  \A s \in Server : step[s] \notin Down => Folded(config[s].table) = config[s].table

-----------------------------------------------------------------------------
(* A step of a server: where it goes, with which configuration, and what    *)
(* becomes of the table.                                                    *)

ServerMoves(s, to, c) ==
  /\ step' = [step EXCEPT ![s] = to]
  /\ config' = [config EXCEPT ![s] = c]
  /\ to \in Steps
  /\ IF to \in Down THEN c = NoConfig ELSE Accepted(c)
  /\ to = "finish" => ~c.auto_create_table
  /\ /\ c.auto_create_table
     /\ to \in Generated \cup {"up"} \/ (to = "create" /\ c.pooler)
     => ~NamesTooLong(c)
  /\ creator' = IF to = "creating" THEN s
                ELSE IF creator = s THEN NoServer ELSE creator
  /\ to = "creating" => creator = NoServer /\ table = NoTable
  /\ table' # table => /\ step[s] = "creating" /\ to = "check"
                       /\ table' = Wanted(c)
  /\ to = "up" => /\ table' = table
                  /\ c = config[s] /\ step[s] \notin Down
                  /\ c.auto_create_table
                       => PartitionCountOk(c.hash_partitions, part_cnt(s))
  /\ to \notin Down => \/ c = config[s] /\ step[s] \notin Down
                       \/ UnfoldedNames => Folded(c.table) = c.table

ServerStep(s) == \E to, c : ServerMoves(s, to, c)

(* To show that a server steps, name where it goes.                         *)
LEMMA ServerMoveIntro ==
  ASSUME NEW s \in Server, NEW to, NEW c, ServerMoves(s, to, c)
  PROVE  ServerStep(s)
BY DEF ServerStep

(* What a step leaves alone.                                                *)
LEMMA Same ==
  ASSUME Servers, NEW s \in Server
  PROVE  /\ [config EXCEPT ![s] = config[s]] = config
         /\ step[s] \in Steps
         /\ step[s] \in Down => config[s] = NoConfig
         /\ step[s] \notin Down => Accepted(config[s])
BY DEF Servers

(* No table, or what the migration script creates, is never one partition.  *)
LEMMA MigratedTyped ==
  {NoTable} \cup Migrations \subseteq Partitioning \ {1}
<1>1. NoTable # 1 /\ Migrations \subseteq 0..MaxPartitions
                 /\ \A m \in Migrations : m # 1
  BY StartupAssumption
<1> QED
  BY <1>1 DEF Partitioning

(* What PgStore::new creates is a table, and never of one partition.        *)
LEMMA WantedTyped ==
  ASSUME NEW c, Accepted(c)
  PROVE  Wanted(c) \in Partitioning \ {1} /\ Wanted(c) # NoTable
BY StartupAssumption, PgConfigAssumption DEF Accepted, Wanted, Partitioning

(* The steps of the startup proper.                                         *)
LEMMA StartShape ==
  ASSUME Servers, Database, NEW s \in Server, Start(s)
  PROVE  ServerStep(s)
<1> DEFINE c == config[s]
<1>a. /\ [config EXCEPT ![s] = c] = config
      /\ step[s] \notin Down => Accepted(c)
      /\ NoServer \notin Server
      /\ creator = s <=> step[s] = "creating"
      /\ step[s] = "finish" => ~c.auto_create_table
  BY Same, StartupAssumption DEF Database, Servers
<1>b. /\ c.auto_create_table /\ step[s] \in Generated => ~NamesTooLong(c)
      /\ c.auto_create_table /\ step[s] = "create" /\ c.pooler => ~NamesTooLong(c)
  BY DEF Servers, NamesFit
<1>c. /\ ~Panics(s) /\ step[s] = "connect" /\ c.auto_create_table /\ c.pooler
           => ~NamesTooLong(c)
      /\ ~Panics(s) /\ step[s] = "create" /\ c.auto_create_table => ~NamesTooLong(c)
  BY <1>a, <1>b DEF Panics, Generates, Accepted, Down
<1> USE DEF Steps, Building, Down, Generated
<1>9. CASE Panic(s)
  <2>1. ServerMoves(s, "failed", NoConfig)
    BY <1>9, <1>a DEF Panic, Fail, ServerMoves
  <2> QED
    BY <2>1, ServerMoveIntro
<1>d. ~Panic(s) => ~Panics(s) /\ Proceed(s)
  BY DEF Start
<1>1. CASE ~Panics(s) /\ Connected(s)
  <2>1. CASE c.auto_create_table
    <3>1. ServerMoves(s, "create", c)
      BY <1>1, <1>a, <1>b, <1>c, <2>1 DEF Connected, Advance, ServerMoves
    <3> QED
      BY <3>1, ServerMoveIntro
  <2>2. CASE ~c.auto_create_table
    <3>1. ServerMoves(s, "up", c)
      BY <1>1, <1>a, <1>b, <1>c, <2>2 DEF Connected, Succeed, Advance, ServerMoves
    <3> QED
      BY <3>1, ServerMoveIntro
  <2> QED
    BY <2>1, <2>2
<1>2. CASE ~Panics(s) /\ CreateExisting(s)
  <2>1. CASE CreateSkips(c)
    <3>1. ServerMoves(s, "check", c)
      BY <1>2, <1>a, <1>b, <1>c, <2>1 DEF CreateExisting, Advance, ServerMoves
    <3> QED
      BY <3>1, ServerMoveIntro
  <2>2. CASE ~CreateSkips(c)
    <3>1. ServerMoves(s, "failed", NoConfig)
      BY <1>2, <1>a, <1>b, <1>c, <2>2 DEF CreateExisting, Fail, ServerMoves
    <3> QED
      BY <3>1, ServerMoveIntro
  <2> QED
    BY <2>1, <2>2
<1>3. CASE ~Panics(s) /\ CreateNew(s)
  <2>1. ServerMoves(s, "creating", c)
    BY <1>3, <1>a, <1>b, <1>c DEF CreateNew, Advance, ServerMoves
  <2> QED
    BY <2>1, ServerMoveIntro
<1>4. CASE ~Panics(s) /\ CreateBlocks(s)
  <2>1. ServerMoves(s, "blocked", c)
    BY <1>4, <1>a, <1>b, <1>c DEF CreateBlocks, Advance, ServerMoves
  <2> QED
    BY <2>1, ServerMoveIntro
<1>5. CASE ~Panics(s) /\ CreateCollides(s)
  <2>1. ServerMoves(s, "failed", NoConfig)
    BY <1>5, <1>a, <1>b, <1>c DEF CreateCollides, Fail, ServerMoves
  <2> QED
    BY <2>1, ServerMoveIntro
<1>6. CASE ~Panics(s) /\ CreateCommits(s)
  <2>1. ServerMoves(s, "check", c)
    BY <1>6, <1>a, <1>b, <1>c DEF CreateCommits, Advance, ServerMoves
  <2> QED
    BY <2>1, ServerMoveIntro
<1>7. CASE ~Panics(s) /\ CheckPartitions(s)
  <2>1. CASE PartitionCountOk(c.hash_partitions, part_cnt(s))
    <3>1. ServerMoves(s, "up", c)
      BY <1>7, <1>a, <1>b, <1>c, <2>1 DEF CheckPartitions, Succeed, Advance, ServerMoves
    <3> QED
      BY <3>1, ServerMoveIntro
  <2>2. CASE ~PartitionCountOk(c.hash_partitions, part_cnt(s))
    <3>1. ServerMoves(s, "failed", NoConfig)
      BY <1>7, <1>a, <1>b, <1>c, <2>2 DEF CheckPartitions, Fail, ServerMoves
    <3> QED
      BY <3>1, ServerMoveIntro
  <2> QED
    BY <2>1, <2>2
<1>8. CASE ~Panics(s) /\ Finish(s)
  <2>1. ServerMoves(s, "up", c)
    BY <1>8, <1>a, <1>b, <1>c DEF Finish, Succeed, Advance, ServerMoves
  <2> QED
    BY <2>1, ServerMoveIntro
<1> QED
  BY <1>1, <1>2, <1>3, <1>4, <1>5, <1>6, <1>7, <1>8, <1>9, <1>d DEF Proceed

(* The merge of the configuration.                                          *)
LEMMA ConfigureShape ==
  ASSUME Servers, Database, NEW s \in Server, NEW u, IsUrl(u), NEW e \in Envs,
         UnfoldedNames => \A i \in DOMAIN u : NamesIn(u[i], {"kv", "long"}),
         Configure(s, Settings(u, e))
  PROVE  ServerStep(s)
<1> DEFINE c == Settings(u, e)
<1>a. /\ step[s] = "down" /\ config[s] = NoConfig
      /\ NoServer \notin Server
      /\ creator = s <=> step[s] = "creating"
      /\ creator' = creator /\ table' = table
      /\ IF c.valid
         THEN /\ step' = [step EXCEPT ![s] = FirstStep(c)]
              /\ config' = [config EXCEPT ![s] = Used(c)]
         ELSE /\ step' = [step EXCEPT ![s] = "failed"]
              /\ config' = config
  BY Same, StartupAssumption DEF Configure, Database, Down
<1>b. /\ IsEnv(e)
      /\ \A i \in DOMAIN u : NamesIn(u[i], Names)
      /\ "kv" \in Names
  BY StartupAssumption DEF NamesIn, Names
<1>c. /\ c.valid \in BOOLEAN
      /\ c.hash_partitions \in 1..MaxPartitions
      /\ c.auto_create_table \in BOOLEAN
      /\ c.pooler \in BOOLEAN
  BY <1>b, SettingsTyped
<1>d. UnfoldedNames => Folded(c.table) = c.table
  <2> SUFFICES ASSUME UnfoldedNames
               PROVE  Folded(c.table) = c.table
    OBVIOUS
  <2>1. c.table \in {"kv", "long"}
    BY <1>b, SettingsTyped
  <2> QED
    BY <2>1 DEF Folded
<1> HIDE DEF c
<1>1. CASE c.valid
  <2>1. /\ Used(c).valid = c.valid
        /\ Used(c).hash_partitions = c.hash_partitions
        /\ Used(c).auto_create_table = c.auto_create_table
        /\ Used(c).table = c.table
        /\ Used(c).pooler = c.pooler
    BY DEF Used
  <2>2. NoConfig.valid = FALSE
    BY DEF NoConfig
  <2>3. Accepted(Used(c))
    BY <1>1, <1>c, <2>1, <2>2 DEF Accepted
  <2>4. FirstStep(c) = IF c.pooler /\ ~c.auto_create_table THEN "finish" ELSE "connect"
    BY DEF FirstStep
  <2>5. ServerMoves(s, FirstStep(c), Used(c))
    BY <1>1, <1>a, <1>d, <2>1, <2>3, <2>4
       DEF ServerMoves, Steps, Building, Down, Generated
  <2> QED
    BY <2>5, ServerMoveIntro
<1>2. CASE ~c.valid
  <2>1. config' = [config EXCEPT ![s] = NoConfig]
    BY <1>2, <1>a, Same
  <2>2. ServerMoves(s, "failed", NoConfig)
    BY <1>2, <1>a, <2>1 DEF ServerMoves, Steps, Building, Down, Generated
  <2> QED
    BY <2>2, ServerMoveIntro
<1> QED
  BY <1>1, <1>2, <1>c

(* The followed server reads its settings and moves on, or fails.           *)
LEMMA ConfigureLocalShape ==
  ASSUME Servers, Database, Inputs, ConfigureLocal
  PROVE  ServerStep(Local)
<1> DEFINE range == {url[i] : i \in DOMAIN url}
<1>1. IsUrl(url)
  <2>1. /\ url \in Seq(UrlParams)
        /\ \A p \in UrlParams : IsParam(p)
    BY StartupAssumption DEF Inputs
  <2>2. url \in Seq(range) /\ \A i \in DOMAIN url : url[i] \in UrlParams
    BY <2>1
  <2> QED
    BY <2>1, <2>2 DEF IsUrl
<1>2. UnfoldedNames => \A i \in DOMAIN url : NamesIn(url[i], {"kv", "long"})
  BY DEF UnfoldedNames, NamesIn, Names, Folded, Inputs
<1>3. env \in Envs /\ Local \in Server
  BY StartupAssumption DEF Inputs
<1> QED
  BY <1>1, <1>2, <1>3, ConfigureShape DEF ConfigureLocal

(* So does any other server.                                                *)
LEMMA ConfigureOtherShape ==
  ASSUME Servers, Database, NEW s \in Server, ConfigureOther(s)
  PROVE  ServerStep(s)
<1>1. PICK u \in OtherUrls, e \in Envs : Configure(s, Settings(u, e))
  BY DEF ConfigureOther
<1>2. IsUrl(u)
  BY StartupAssumption
<1>3. UnfoldedNames => \A i \in DOMAIN u : NamesIn(u[i], {"kv", "long"})
  BY DEF UnfoldedNames, NamesIn, Names, Folded
<1> QED
  BY <1>1, <1>2, <1>3, ConfigureShape

(* A startup that fails, is interrupted, or a server that stops.            *)
LEMMA EndShape ==
  ASSUME Servers, Database, NEW s \in Server, Interrupted(s) \/ Restart(s)
  PROVE  ServerStep(s)
<1>a. /\ NoServer \notin Server
      /\ creator = s <=> step[s] = "creating"
  BY StartupAssumption DEF Database
<1>1. CASE Interrupted(s)
  <2>1. ServerMoves(s, "failed", NoConfig)
    BY <1>1, <1>a DEF Interrupted, Fail, ServerMoves, Steps, Down, Generated
  <2> QED
    BY <2>1, ServerMoveIntro
<1>2. CASE Restart(s)
  <2>1. ServerMoves(s, "down", NoConfig)
    BY <1>2, <1>a DEF Restart, ServerMoves, Steps, Down, Generated
  <2> QED
    BY <2>1, ServerMoveIntro
<1> QED
  BY <1>1, <1>2

(* Everything else leaves the servers alone, and Recreate the table too     *)
(* unless no server runs.                                                   *)
OtherSteps ==
  \/ \E p \in UrlParams : AddParam(p)
  \/ \E t \in Tunings : SetTuning(t)
  \/ Recreate
  \/ Owner
  \/ Beat
  \/ BeatEnds

(* A step is that of one server, or of the world around the servers.        *)
LEMMA NextShape ==
  ASSUME Servers, Database, Inputs, Next
  PROVE  (\E s \in Server : ServerStep(s)) \/ OtherSteps
BY StartShape, ConfigureLocalShape, ConfigureOtherShape, EndShape, StartupAssumption
   DEF Next, OtherSteps

-----------------------------------------------------------------------------
(* The servers, the table and the partitions.                               *)

LEMMA ServerStepKeeps ==
  ASSUME Servers, Database, NEW s \in Server, ServerStep(s)
  PROVE  Servers' /\ Database'
<1>1. PICK to, c : ServerMoves(s, to, c)
  BY DEF ServerStep
<1>a. /\ step \in [Server -> Steps] /\ config = [r \in Server |-> config[r]]
      /\ step' = [step EXCEPT ![s] = to] /\ config' = [config EXCEPT ![s] = c]
      /\ to \in Steps
      /\ IF to \in Down THEN c = NoConfig ELSE Accepted(c)
  BY <1>1 DEF ServerMoves, Servers
<1>b. /\ step'[s] = to /\ config'[s] = c
      /\ \A r \in Server : r # s => step'[r] = step[r] /\ config'[r] = config[r]
  BY <1>a
<1>2. Servers'
  <2>1. step' \in [Server -> Steps]
    BY <1>a
  <2>2. config' = [r \in Server |-> config'[r]]
    BY <1>a
  <2>3. \A r \in Server : IF step'[r] \in Down THEN config'[r] = NoConfig
                                               ELSE Accepted(config'[r])
    BY <1>a, <1>b DEF Servers
  <2>4. \A r \in Server : step'[r] = "finish" => ~config'[r].auto_create_table
    BY <1>1, <1>b DEF Servers, ServerMoves
  <2>5. \A r \in Server : NamesFit(r)'
    <3> SUFFICES ASSUME NEW r \in Server
                 PROVE  NamesFit(r)'
      OBVIOUS
    <3>1. CASE r = s
      BY <1>1, <1>b, <3>1 DEF ServerMoves, NamesFit, Generated, NamesTooLong
    <3>2. CASE r # s
      BY <1>b, <3>2 DEF Servers, NamesFit, Generated, NamesTooLong
    <3> QED
      BY <3>1, <3>2
  <2> QED
    BY <2>1, <2>2, <2>3, <2>4, <2>5 DEF Servers, Accepted
<1>3. Database'
  <2>a. /\ creator' = IF to = "creating" THEN s
                      ELSE IF creator = s THEN NoServer ELSE creator
        /\ to = "creating" => creator = NoServer /\ table = NoTable
        /\ table' # table => /\ step[s] = "creating" /\ to = "check"
                             /\ table' = Wanted(c)
        /\ to = "up" => table' = table
        /\ NoServer \notin Server
    BY <1>1, StartupAssumption DEF ServerMoves
  <2>1. table' \in Partitioning \ {1}
    <3>1. table' # table => Accepted(c)
      BY <1>a, <2>a DEF Down
    <3> QED
      BY <2>a, <3>1, WantedTyped DEF Database
  <2>2. creator' \in Server \cup {NoServer}
    BY <2>a DEF Database
  <2>3. \A r \in Server : creator' = r <=> step'[r] = "creating"
    BY <1>b, <2>a DEF Database
  <2>4. creator' # NoServer => table' = NoTable
    BY <1>b, <2>a DEF Database
  <2> QED
    BY <2>1, <2>2, <2>3, <2>4 DEF Database
<1> QED
  BY <1>2, <1>3

(* What happens around the servers keeps their invariants.                  *)
LEMMA OtherStepKeeps ==
  ASSUME Servers, Database, OtherSteps \/ UNCHANGED vars
  PROVE  Servers' /\ Database'
<1>1. CASE ~Recreate
  <2>1. step' = step /\ config' = config /\ table' = table /\ creator' = creator
    BY <1>1 DEF OtherSteps, AddParam, SetTuning, Owner, Beat, BeatEnds, startup, vars
  <2> QED
    BY <2>1 DEF Servers, Database, Accepted, NamesFit, NamesTooLong
<1>2. CASE Recreate
  <2>1. step' = step /\ config' = config /\ creator' = creator
    BY <1>2 DEF Recreate
  <2>2. creator = NoServer
    BY <1>2 DEF Recreate, Database, Down
  <2>3. table' \in Partitioning \ {1}
    BY <1>2, MigratedTyped DEF Recreate
  <2> QED
    BY <2>1, <2>2, <2>3 DEF Servers, Database, Accepted, NamesFit, NamesTooLong
<1> QED
  BY <1>1, <1>2

(* Before the start no server has settings and nobody creates a table.      *)
LEMMA ServersInit ==
  ASSUME Init
  PROVE  Servers /\ Database
<1>1. Servers
  BY DEF Init, Servers, Steps, Down, NamesFit, Generated
<1>2. Database
  <2>1. table \in Partitioning \ {1}
    BY MigratedTyped DEF Init
  <2>2. /\ creator = NoServer /\ NoServer \notin Server
        /\ \A s \in Server : step[s] = "down"
    BY StartupAssumption DEF Init
  <2> QED
    BY <2>1, <2>2 DEF Database
<1> QED
  BY <1>1, <1>2

(* A server that is up matches the table: only the check lets it up, the    *)
(* table does not change while a server is up, for a CREATE is only open    *)
(* where there is no table.                                                 *)
LEMMA PartitionsKept ==
  ASSUME Servers, Database, NamesStored, PartitionsAsConfigured,
         NEW s \in Server, ServerStep(s)
  PROVE  PartitionsAsConfigured'
<1>1. PICK to, c : ServerMoves(s, to, c)
  BY DEF ServerStep
<1>a. /\ step \in [Server -> Steps] /\ config = [r \in Server |-> config[r]]
      /\ step' = [step EXCEPT ![s] = to] /\ config' = [config EXCEPT ![s] = c]
  BY <1>1 DEF ServerMoves, Servers
<1>b. /\ step'[s] = to /\ config'[s] = c
      /\ \A r \in Server : r # s => step'[r] = step[r] /\ config'[r] = config[r]
  BY <1>a
<1> SUFFICES ASSUME NEW r \in Server, step'[r] = "up", config'[r].auto_create_table
             PROVE  table' = Wanted(config'[r])
  BY DEF PartitionsAsConfigured, Wanted
<1>2. CASE r = s
  <2>1. /\ table' = table /\ to = "up"
        /\ PartitionCountOk(c.hash_partitions, part_cnt(s))
        /\ Accepted(c)
        /\ \/ c = config[s] /\ step[s] \notin Down
           \/ UnfoldedNames => Folded(c.table) = c.table
    BY <1>1, <1>2, <1>b DEF ServerMoves, Down
  <2>2. c = config[s] /\ step[s] \notin Down
    BY <1>1, <1>2, <1>b DEF ServerMoves
  <2>3. part_cnt(s) = table
    BY <2>2 DEF NamesStored, part_cnt
  <2> QED
    BY <1>2, <1>b, <2>1, <2>3, PgConfigAssumption DEF PartitionCountOk, Wanted, Accepted
<1>3. CASE r # s
  <2>1. table = Wanted(config[r]) /\ Accepted(config[r])
    BY <1>3, <1>b DEF PartitionsAsConfigured, Servers, Down
  <2>2. table # NoTable
    BY <2>1, WantedTyped
  <2>3. table' = table
    BY <1>1, <2>2, StartupAssumption DEF ServerMoves, Database
  <2> QED
    BY <1>3, <1>b, <2>1, <2>3
<1> QED
  BY <1>2, <1>3

(* A server that takes its settings takes an unfolded name.                 *)
LEMMA NamesKept ==
  ASSUME UnfoldedNames, Servers, NamesStored, NEW s \in Server, ServerStep(s)
  PROVE  NamesStored'
<1>1. PICK to, c : ServerMoves(s, to, c)
  BY DEF ServerStep
<1>2. /\ step' = [step EXCEPT ![s] = to] /\ config' = [config EXCEPT ![s] = c]
      /\ to \notin Down => Folded(c.table) = c.table
  BY <1>1 DEF ServerMoves, NamesStored
<1> QED
  BY <1>2 DEF NamesStored, Servers

(* No step around the servers changes a table that a server relies on.      *)
LEMMA PartitionsUntouched ==
  ASSUME Servers, Database, OtherSteps \/ UNCHANGED vars
  PROVE  /\ NamesStored => NamesStored'
         /\ PartitionsAsConfigured => PartitionsAsConfigured'
<1>1. step' = step /\ config' = config
  BY DEF OtherSteps, Recreate, AddParam, SetTuning, Owner, Beat, BeatEnds, startup, vars
<1>2. CASE table' = table
  BY <1>1, <1>2 DEF NamesStored, PartitionsAsConfigured
<1>3. CASE Recreate
  BY <1>1, <1>3 DEF NamesStored, PartitionsAsConfigured, Recreate, Down
<1> QED
  BY <1>2, <1>3 DEF OtherSteps, AddParam, SetTuning, Owner, Beat, BeatEnds, startup, vars

-----------------------------------------------------------------------------
(* The inputs and the life of Local's store.                                *)

LEMMA InputsKept ==
  ASSUME Servers, Inputs, [Next]_vars
  PROVE  Inputs'
<1>0. Local \in Server /\ DOMAIN step = Server
  BY StartupAssumption DEF Servers
<1>1. ASSUME NEW p \in UrlParams, AddParam(p)
      PROVE  Inputs'
  BY <1>1 DEF AddParam, Inputs
<1>2. ASSUME NEW t \in Tunings, SetTuning(t)
      PROVE  Inputs'
  BY <1>2 DEF SetTuning, Inputs
<1>3. CASE ConfigureLocal
  BY <1>0, <1>3 DEF ConfigureLocal, Configure, Inputs
<1>4. ASSUME UNCHANGED <<url, env, tuning>>, step[Local] = "down" => step'[Local] = "down"
      PROVE  Inputs'
  BY <1>4 DEF Inputs
<1>5. ASSUME NEW s \in Server, ConfigureOther(s)
      PROVE  Inputs'
  <2>1. UNCHANGED <<url, env, tuning>> /\ step'[Local] = step[Local]
    BY <1>0, <1>5 DEF ConfigureOther, Configure
  <2> QED
    BY <1>4, <2>1
<1>6. ASSUME NEW s \in Server, Start(s) \/ Interrupted(s) \/ Restart(s)
      PROVE  Inputs'
  <2>1. UNCHANGED <<url, env, tuning>>
    BY <1>6 DEF Start, Interrupted, Restart, Connected, CreateExisting, CreateNew,
                CreateBlocks, CreateCollides, CreateCommits, CheckPartitions, Finish,
                Proceed, Panic, Panics, Generates,
                Advance, Succeed, Fail, inputs
  <2>2. step[s] # "down"
    BY <1>6 DEF Start, Interrupted, Restart, Connected, CreateExisting, CreateNew,
                CreateBlocks, CreateCollides, CreateCommits, CheckPartitions, Finish,
                Proceed, Panic, Panics, Generates,
                Building
  <2>3. s # Local => step'[Local] = step[Local]
    BY <1>0, <1>6 DEF Start, Interrupted, Restart, Connected, CreateExisting, CreateNew,
                CreateBlocks, CreateCollides, CreateCommits, CheckPartitions, Finish,
                Proceed, Panic, Panics, Generates,
                Advance, Succeed, Fail
  <2> QED
    BY <1>4, <2>1, <2>2, <2>3
<1>7. CASE Recreate \/ Owner \/ Beat \/ BeatEnds \/ UNCHANGED vars
  <2>1. UNCHANGED <<url, env, tuning, step>>
    BY <1>7 DEF Recreate, Owner, Beat, BeatEnds, startup, inputs, vars
  <2> QED
    BY <1>4, <2>1
<1> QED
  BY <1>1, <1>2, <1>3, <1>5, <1>6, <1>7 DEF Next

-----------------------------------------------------------------------------
(* The heartbeat: every step of the startup is one of Heartbeat or changes  *)
(* nothing Heartbeat speaks of.                                             *)

(* What a step of the startup does to the token.                            *)
LEMMA StartToken ==
  ASSUME NEW s \in Server, Start(s) \/ Interrupted(s)
  PROVE  /\ step[s] \in Building
         /\ UNCHANGED <<arc, composed, boxed, shut, hb, conn, consecutive_failures>>
         /\ \E to \in Building \cup {"up", "failed"} :
              /\ step' = [step EXCEPT ![s] = to]
              /\ cancelled' = CASE to = "failed" -> cancelled \/ (s = Local /\ Direct)
                                [] to = "up" -> cancelled \/ (s = Local /\ FALSE)
                                [] OTHER -> cancelled
<1> USE DEF Advance, Succeed, Fail, Disarmed, GuardCancels, Building, outside, running
<1>1. CASE Connected(s)
  BY <1>1 DEF Connected
<1>2. CASE CreateExisting(s)
  BY <1>2 DEF CreateExisting
<1>3. CASE CreateNew(s) \/ CreateBlocks(s) \/ CreateCollides(s) \/ CreateCommits(s)
  BY <1>3 DEF CreateNew, CreateBlocks, CreateCollides, CreateCommits
<1>4. CASE CheckPartitions(s)
  BY <1>4 DEF CheckPartitions
<1>5. CASE Finish(s) \/ Interrupted(s)
  BY <1>5 DEF Finish, Interrupted
<1>6. CASE Panic(s)
  BY <1>6 DEF Panic, Panics, Generates
<1> QED
  BY <1>1, <1>2, <1>3, <1>4, <1>5, <1>6 DEF Start, Proceed

(* The heartbeat does not see a step that keeps these.                      *)
LEMMA Unseen ==
  ASSUME step'[Local] = step[Local], arc' = arc, cancelled' = cancelled,
         UNCHANGED <<composed, boxed, shut, hb, conn, consecutive_failures>>
  PROVE  UNCHANGED Beats!vars
BY DEF Beats!vars, Beats!stores, Beats!task, Original, Armed, Direct

(* The steps of other servers do not touch the heartbeat.                   *)
LEMMA OtherBeats ==
  ASSUME Servers, Beats!TypeOK, NEW s \in Server, s # Local,
         Start(s) \/ Interrupted(s) \/ ConfigureOther(s) \/ Restart(s)
  PROVE  UNCHANGED Beats!vars
<1>0. cancelled \in BOOLEAN /\ Local \in Server /\ step \in [Server -> Steps]
  BY StartupAssumption DEF Beats!TypeOK, Servers
<1>1. CASE Start(s) \/ Interrupted(s)
  <2>1. cancelled' = cancelled /\ step'[Local] = step[Local]
    BY <1>0, <1>1, StartToken DEF Building
  <2> QED
    BY <1>1, <2>1, StartToken, Unseen
<1>2. CASE ConfigureOther(s) \/ Restart(s)
  <2>1. /\ cancelled' = cancelled /\ step'[Local] = step[Local] /\ arc' = arc
        /\ UNCHANGED <<composed, boxed, shut, hb, conn, consecutive_failures>>
    BY <1>0, <1>2 DEF ConfigureOther, Configure, Restart, outside, running
  <2> QED
    BY <2>1, Unseen
<1> QED
  BY <1>1, <1>2

(* The steps of the followed server are steps of Heartbeat.                 *)
LEMMA LocalBeats ==
  ASSUME Servers, Lives, Beats!TypeOK, Start(Local) \/ Interrupted(Local)
  PROVE  [Beats!Next]_(Beats!vars) /\ Lives'
<1>0. /\ cancelled \in BOOLEAN /\ Local \in Server /\ step \in [Server -> Steps]
      /\ step[Local] \in Building
      /\ arc' = arc /\ arc
      /\ UNCHANGED <<composed, boxed, shut, hb, conn, consecutive_failures>>
  BY StartupAssumption, StartToken DEF Beats!TypeOK, Servers, Lives, Building
<1>1. PICK to \in Building \cup {"up", "failed"} :
        /\ step' = [step EXCEPT ![Local] = to]
        /\ cancelled' = CASE to = "failed" -> cancelled \/ (Local = Local /\ Direct)
                          [] to = "up" -> cancelled \/ (Local = Local /\ FALSE)
                          [] OTHER -> cancelled
  BY <1>0, StartToken
<1>2. step'[Local] = to
  BY <1>0, <1>1
<1>3. Lives'
  BY <1>0, <1>2 DEF Lives, Building
<1>4. CASE ~Direct
  <2>1. cancelled' = cancelled
    BY <1>0, <1>1, <1>4 DEF Building
  <2>2. Original = "none" /\ Original' = "none"
    BY <1>0, <1>4 DEF Original, Direct
  <2> QED
    BY <1>0, <1>3, <2>1, <2>2 DEF Beats!vars, Beats!stores, Beats!task, Armed
<1>5. CASE Direct
  <2>0. Original = "building" /\ Armed
    BY <1>0, <1>5 DEF Original, Direct, Armed, Building
  <2>1. CASE to \in Building
    <3>1. cancelled' = cancelled
      BY <1>1, <2>1 DEF Building
    <3>2. Original' = "building"
      BY <1>0, <1>2, <1>5, <2>1 DEF Original, Direct, Building
    <3> QED
      BY <1>0, <1>3, <2>0, <3>1, <3>2
         DEF Beats!vars, Beats!stores, Beats!task, Armed
  <2>2. CASE to = "up"
    <3>1. cancelled' = (cancelled \/ FALSE)
      BY <1>1, <2>2
    <3>2. Original' = "alive" /\ ~Armed'
      BY <1>0, <1>2, <1>5, <2>2 DEF Original, Direct, Armed, Building
    <3>3. Beats!BuildOk
      BY <1>0, <2>0, <3>1, <3>2 DEF Beats!BuildOk, Beats!Disarmed, Beats!task, Armed
    <3> QED
      BY <1>3, <3>3 DEF Beats!Next
  <2>3. CASE to = "failed"
    <3>1. cancelled' = (cancelled \/ Direct)
      BY <1>1, <2>3
    <3>2. Original' = "dropped" /\ ~Armed'
      BY <1>0, <1>2, <1>5, <2>3 DEF Original, Direct, Armed, Building
    <3>3. Beats!BuildFails
      BY <1>0, <1>5, <2>0, <3>1, <3>2
         DEF Beats!BuildFails, Beats!GuardCancels, Beats!task, Armed
    <3> QED
      BY <1>3, <3>3 DEF Beats!Next
  <2> QED
    BY <2>1, <2>2, <2>3
<1> QED
  BY <1>4, <1>5

(* Taking the settings starts the heartbeat exactly in direct mode.         *)
LEMMA ConfigureBeats ==
  ASSUME Servers, Lives, ConfigureLocal
  PROVE  [Beats!Next]_(Beats!vars) /\ Lives'
<1> DEFINE c == Settings(url, env)
<1>0. /\ Local \in Server /\ step \in [Server -> Steps]
      /\ step[Local] = "down" /\ hb = "none" /\ arc
      /\ UNCHANGED <<arc, composed, boxed, shut, cancelled, conn, consecutive_failures>>
      /\ IF c.valid THEN step' = [step EXCEPT ![Local] = FirstStep(c)]
                    ELSE step' = [step EXCEPT ![Local] = "failed"]
      /\ hb' = IF c.valid /\ c.pooler THEN "sleep" ELSE "none"
  BY StartupAssumption DEF ConfigureLocal, Configure, Servers, Lives, outside
<1> HIDE DEF c
<1>1. IF c.valid THEN step'[Local] \in {"finish", "connect"} ELSE step'[Local] = "failed"
  BY <1>0 DEF FirstStep
<1>2. Lives'
  BY <1>0, <1>1 DEF Lives
<1>3. Original = "none" /\ ~Armed
  BY <1>0 DEF Original, Armed, Direct
<1>4. CASE c.valid /\ c.pooler
  <2>1. Original' = "building" /\ Armed'
    BY <1>0, <1>1, <1>4 DEF Original, Armed, Direct, Building
  <2>2. Beats!Spawn
    BY <1>0, <1>3, <1>4, <2>1 DEF Beats!Spawn, Armed
  <2> QED
    BY <1>2, <2>2 DEF Beats!Next
<1>5. CASE ~(c.valid /\ c.pooler)
  <2>1. Original' = "none" /\ hb' = hb
    BY <1>0, <1>5 DEF Original, Direct
  <2> QED
    BY <1>0, <1>2, <1>3, <2>1 DEF Beats!vars, Beats!stores, Beats!task, Armed
<1> QED
  BY <1>4, <1>5

(* The refinement step.                                                     *)
LEMMA BeatsStep ==
  ASSUME Servers, Lives, Beats!TypeOK, [Next]_vars
  PROVE  [Beats!Next]_(Beats!vars) /\ Lives'
<1>0. Local \in Server /\ step \in [Server -> Steps]
  BY StartupAssumption DEF Servers
<1>1. CASE \/ \E p \in UrlParams : AddParam(p)
           \/ \E t \in Tunings : SetTuning(t)
           \/ Recreate
           \/ UNCHANGED vars
  <2>1. /\ step' = step /\ arc' = arc /\ cancelled' = cancelled
        /\ UNCHANGED <<composed, boxed, shut, hb, conn, consecutive_failures>>
    BY <1>1 DEF AddParam, SetTuning, Recreate, vars, startup, outside, running
  <2> QED
    BY <2>1, Unseen DEF Lives
<1>2. CASE ConfigureLocal
  BY <1>2, ConfigureBeats
<1>3. ASSUME NEW s \in Server, s # Local,
             ConfigureOther(s) \/ Start(s) \/ Interrupted(s) \/ Restart(s)
      PROVE  [Beats!Next]_(Beats!vars) /\ Lives'
  <2>1. UNCHANGED Beats!vars
    BY <1>3, OtherBeats
  <2>2. step'[Local] = step[Local] /\ arc' = arc /\ hb' = hb
    BY <1>0, <1>3, StartToken
       DEF ConfigureOther, Configure, Restart, running
  <2> QED
    BY <2>1, <2>2 DEF Lives
<1>4. CASE Start(Local) \/ Interrupted(Local)
  BY <1>4, LocalBeats
<1>5. CASE Owner
  <2>1. Beats!Owner
    BY <1>5 DEF Owner, Hb!Owner, Hb!ComposerBuild, Hb!DropStore, Hb!Shutdown,
                Hb!ShutdownReturns, Hb!Usable, Hb!task,
                Beats!Owner, Beats!ComposerBuild, Beats!DropStore, Beats!Shutdown,
                Beats!ShutdownReturns, Beats!Usable, Beats!task
  <2>2. Lives'
    BY <1>5 DEF Owner, Lives
  <2> QED
    BY <2>1, <2>2 DEF Beats!Next
<1>6. CASE Beat
  <2>1. Beats!HeartbeatStep
    BY <1>6 DEF Beat, Hb!HeartbeatStep, Hb!Tick, Hb!Connected, Hb!ConnectFailed,
                Hb!BackoffOver, Hb!SelectOk, Hb!SelectFailed, Hb!FailRound, Hb!stores,
                Hb!NeedsConnect, Hb!ConnAfterFailure,
                Beats!HeartbeatStep, Beats!Tick, Beats!Connected, Beats!ConnectFailed,
                Beats!BackoffOver, Beats!SelectOk, Beats!SelectFailed, Beats!FailRound,
                Beats!stores, Beats!NeedsConnect, Beats!ConnAfterFailure
  <2>2. step' = step /\ arc' = arc /\ hb # "none"
    BY <1>6 DEF Beat, startup, Hb!HeartbeatStep, Hb!Tick, Hb!Connected,
                Hb!ConnectFailed, Hb!BackoffOver, Hb!SelectOk, Hb!SelectFailed
  <2> QED
    BY <2>1, <2>2 DEF Beats!Next, Lives
<1>7. CASE BeatEnds
  <2>1. Beats!Exit
    BY <1>7 DEF BeatEnds, Hb!Exit, Hb!HeedsCancel, Hb!Awaits, Hb!stores,
                Beats!Exit, Beats!HeedsCancel, Beats!Awaits, Beats!stores
  <2>2. step' = step /\ arc' = arc /\ hb # "none"
    BY <1>7 DEF BeatEnds, startup, Hb!Exit, Hb!HeedsCancel, Hb!Awaits
  <2> QED
    BY <2>1, <2>2 DEF Beats!Next, Lives
<1>8. ~Restart(Local) /\ ~ConfigureOther(Local)
  BY DEF Restart, ConfigureOther
<1> QED
  BY <1>1, <1>2, <1>3, <1>4, <1>5, <1>6, <1>7, <1>8 DEF Next

-----------------------------------------------------------------------------
(* The induction.                                                           *)

LEMMA InitHolds ==
  ASSUME Init
  PROVE  IInv
<1>1. Servers /\ Database
  BY ServersInit
<1>2. Inputs /\ Lives
  BY StartupAssumption DEF Init, Inputs, Lives
<1>3. Beats!Init
  <2>1. Original = "none" /\ ~Armed
    BY DEF Init, Original, Armed, Direct
  <2> QED
    BY <2>1 DEF Init, Hb!Init, Beats!Init, Armed
<1>4. Beats!IInv
  BY <1>3, StartupAssumption, Beats!InitHolds
<1> QED
  BY <1>1, <1>2, <1>4 DEF IInv

(* Every step keeps the inductive invariant.                                *)
LEMMA StepKeeps ==
  ASSUME IInv, [Next]_vars
  PROVE  IInv'
<1>1. Servers' /\ Database'
  BY NextShape, ServerStepKeeps, OtherStepKeeps DEF IInv
<1>2. Inputs'
  BY InputsKept DEF IInv
<1>3. [Beats!Next]_(Beats!vars) /\ Lives'
  BY BeatsStep DEF IInv, Beats!IInv
<1>4. Beats!IInv'
  BY <1>3, StartupAssumption, Beats!StepKeeps DEF IInv
<1> QED
  BY <1>1, <1>2, <1>3, <1>4 DEF IInv

(* The inductive invariant holds throughout.                                *)
LEMMA IInvInductive == Spec => []IInv
<1>1. Init => IInv
  BY InitHolds
<1>2. IInv /\ [Next]_vars => IInv'
  BY StepKeeps
<1> QED
  BY <1>1, <1>2, PTL DEF Spec

-----------------------------------------------------------------------------
(* The theorems.                                                            *)

(* A server has settings, with a usable number of partitions, exactly while *)
(* it starts or is up, and one CREATE TABLE at most is uncommitted, by the  *)
(* server that is creating and while there is no table.                     *)
THEOREM TypeInvariant == Spec => []TypeOK
<1>1. IInv => TypeOK
  <2> SUFFICES ASSUME IInv PROVE TypeOK
    OBVIOUS
  <2>1. Hb!TypeOK
    BY DEF IInv, Beats!IInv, Beats!TypeOK, Beats!Awaits, Hb!TypeOK, Hb!Awaits
  <2>2. step \in [Server -> Building \cup Down \cup {"up"}]
    BY DEF IInv, Servers, Steps
  <2>3. \A s \in Server :
          /\ (config[s] = NoConfig) = (step[s] \in Down)
          /\ step[s] \notin Down => config[s].hash_partitions \in 1..MaxPartitions
    BY DEF IInv, Servers, Accepted
  <2>4. \A s \in Server : (creator = s) = (step[s] = "creating")
    BY DEF IInv, Database
  <2> QED
    BY <2>1, <2>2, <2>3, <2>4 DEF TypeOK, IInv, Database, Inputs, Lives
<1> QED
  BY <1>1, IInvInductive, PTL

(* The check of the partitions is enough: a server that is up and manages   *)
(* its table has the partitions it is configured for, however many servers  *)
(* start, stop and create at the same time, if no name of a table is folded *)
(* by PostgreSQL.                                                           *)
THEOREM PartitionsInvariant ==
  ASSUME UnfoldedNames
  PROVE  Spec => []PartitionsAsConfigured
<1> DEFINE Inv == IInv /\ NamesStored /\ PartitionsAsConfigured
<1>1. Init => Inv
  <2>1. Init => NamesStored /\ PartitionsAsConfigured
    BY DEF Init, NamesStored, PartitionsAsConfigured, Down
  <2> QED
    BY <2>1, InitHolds
<1>2. Inv /\ [Next]_vars => Inv'
  <2> SUFFICES ASSUME Inv, [Next]_vars
               PROVE  NamesStored' /\ PartitionsAsConfigured'
    BY StepKeeps
  <2>1. ASSUME NEW s \in Server, ServerStep(s)
        PROVE  NamesStored' /\ PartitionsAsConfigured'
    BY <2>1, PartitionsKept, NamesKept DEF IInv
  <2>2. CASE OtherSteps \/ UNCHANGED vars
    BY <2>2, PartitionsUntouched DEF IInv
  <2> QED
    BY <2>1, <2>2, NextShape DEF IInv
<1>3. Inv => PartitionsAsConfigured
  OBVIOUS
<1> HIDE DEF Inv
<1> QED
  BY <1>1, <1>2, <1>3, PTL DEF Spec

(* The startup is a Heartbeat: every way out of PgStore::new either disarms *)
(* the guard of a store that is used or cancels the task.  This is the      *)
(* safety part of ImplementsHeartbeat.                                      *)
THEOREM StartupIsHeartbeat == Spec => Hb!Spec
<1>1. Init => Hb!Init
  BY DEF Init
<1>2. IInv /\ [Next]_vars => [Hb!Next]_(Hb!vars)
  <2> SUFFICES ASSUME IInv, [Next]_vars
               PROVE  [Hb!Next]_(Hb!vars)
    OBVIOUS
  <2>1. [Beats!Next]_(Beats!vars)
    BY BeatsStep DEF IInv, Beats!IInv
  <2>2. CASE UNCHANGED Beats!vars
    BY <2>2 DEF Beats!vars, Beats!stores, Beats!task, Hb!vars, Hb!stores, Hb!task
  <2>3. CASE Beats!Spawn \/ Beats!BuildFails \/ Beats!BuildOk
    BY <2>3 DEF Hb!Next, Beats!Spawn, Beats!BuildFails, Beats!BuildOk,
                Hb!Spawn, Hb!BuildFails, Hb!BuildOk, Hb!task, Beats!task,
                Hb!GuardCancels, Beats!GuardCancels, Hb!Disarmed, Beats!Disarmed
  <2>4. CASE Beats!Owner
    BY <2>4 DEF Hb!Next, Hb!Owner, Hb!ComposerBuild, Hb!DropStore, Hb!Shutdown,
                Hb!ShutdownReturns, Hb!Usable, Hb!task,
                Beats!Owner, Beats!ComposerBuild, Beats!DropStore, Beats!Shutdown,
                Beats!ShutdownReturns, Beats!Usable, Beats!task
  <2>5. CASE Beats!Exit
    BY <2>5 DEF Hb!Next, Hb!Exit, Hb!HeedsCancel, Hb!Awaits, Hb!stores,
                Beats!Exit, Beats!HeedsCancel, Beats!Awaits, Beats!stores
  <2>6. CASE Beats!HeartbeatStep
    BY <2>6 DEF Hb!Next, Hb!HeartbeatStep, Hb!Tick, Hb!Connected, Hb!ConnectFailed,
                Hb!BackoffOver, Hb!SelectOk, Hb!SelectFailed, Hb!FailRound, Hb!stores,
                Hb!NeedsConnect, Hb!ConnAfterFailure,
                Beats!HeartbeatStep, Beats!Tick, Beats!Connected, Beats!ConnectFailed,
                Beats!BackoffOver, Beats!SelectOk, Beats!SelectFailed, Beats!FailRound,
                Beats!stores, Beats!NeedsConnect, Beats!ConnAfterFailure
  <2> QED
    BY <2>1, <2>2, <2>3, <2>4, <2>5, <2>6 DEF Beats!Next
<1> QED
  BY <1>1, <1>2, IInvInductive, PTL DEF Spec, Hb!Spec

(* Local's heartbeat is cancelled exactly when the store that new built is  *)
(* gone, by a failure, a panic, a drop or the composer, or shut down.       *)
THEOREM CancelInvariant == Spec => []CancelledWithStore
<1>1. IInv => CancelledWithStore
  <2>1. Original \in {"none", "building", "alive", "dropped"}
    BY DEF Original
  <2>2. IInv => cancelled \in BOOLEAN
    BY DEF IInv, Beats!IInv, Beats!TypeOK
  <2> QED
    BY <2>1, <2>2 DEF IInv, Beats!IInv, Beats!TokenFollowsStore, CancelledWithStore,
                Hb!CancelledWithStore
<1> QED
  BY <1>1, IInvInductive, PTL

(* The heartbeat that starts before the DDL drops a broken connection too.  *)
THEOREM FailureInvariant == Spec => []FailureDropsConnection
<1>1. IInv => FailureDropsConnection
  BY DEF IInv, Beats!IInv, Beats!FailureDropsConnection, FailureDropsConnection,
         Hb!FailureDropsConnection
<1> QED
  BY <1>1, IInvInductive, PTL

(* A startup that fails, wherever it does, leaves no heartbeat that is not  *)
(* cancelled.                                                               *)
FailedStartCancels == Direct /\ step[Local] = "failed" => cancelled

(* A direct-mode start that failed leaves no running heartbeat behind.      *)
THEOREM FailedStartInvariant == Spec => []FailedStartCancels
<1>1. IInv => FailedStartCancels
  BY DEF IInv, Beats!IInv, Beats!TokenFollowsStore, FailedStartCancels, Original,
         Building
<1> QED
  BY <1>1, IInvInductive, PTL

-----------------------------------------------------------------------------
(* The configuration of Local.                                              *)

LEMMA MergeExactHolds ==
  ASSUME IInv
  PROVE  MergeExact
<1> DEFINE set == Settings(url, env)
<1>1. IsUrl(url) /\ IsEnv(env)
  <2>1. /\ url \in Seq(UrlParams) /\ env \in Envs
        /\ \A p \in UrlParams : IsParam(p)
        /\ \A e \in Envs : IsEnv(e)
    BY StartupAssumption DEF IInv, Inputs
  <2>2. \A i \in DOMAIN url : IsParam(url[i])
    BY <2>1
  <2>3. url \in Seq({url[i] : i \in DOMAIN url})
    BY <2>1
  <2> QED
    BY <2>1, <2>2, <2>3 DEF IsUrl
<1>2. \A key, good : Occurrences(key, good) = Occ(url, key, good)
  BY DEF Occurrences, Given, Occ
<1>3. \A key, good, d : LastOf(Occurrences(key, good), d) = LastVal(url, key, good, d)
  <2>1. \A key, good, d : LastOf(Occ(url, key, good), d) = LastVal(url, key, good, d)
    BY DEF LastOf, LastVal
  <2> QED
    BY <1>2, <2>1
<1>4. Given("isolation_level") = Occurrences("isolation_level", Vals(url))
  BY DEF Occurrences, Given, Vals
<1>5. (\A i \in Given("table_name") : url[i].val \in Names)
        => Given("table_name") = Occurrences("table_name", Names)
  BY DEF Occurrences, Given
<1>6. /\ set.valid <=> \A i \in DOMAIN url : ~BadName(url[i])
      /\ set.valid =>
           /\ set.hash_partitions
                = LastVal(url, "hash_partitions", 1..MaxPartitions, EnvHash(env))
           /\ set.pool_max = MaxOf(url, env)
           /\ set.pool_min = AtMost(MinOf(url, env), MaxOf(url, env))
           /\ set.pool_max \in Positive
           /\ set.pool_min \in 0..set.pool_max
           /\ set.pooler <=> LastVal(url, "pooler", Bools, "false") = "true"
           /\ set.auto_create_table
                <=> LastVal(url, "auto_create_table", Bools, "true") = "true"
           /\ set.acquire_timeout = TimeoutOf(url, EnvTimeout(env))
           /\ set.connect_timeout = IF set.pooler
                                    THEN TimeoutOf(url, DirectTimeout(env))
                                    ELSE 0
           /\ set.acquire_timeout \in Positive
           /\ set.pooler => set.connect_timeout \in Positive
           /\ set.table = LastVal(url, "table_name", Names, "kv")
           /\ set.isolation = LevelOf(LastVal(url, "isolation_level",
                                              Vals(url), "ReadCommitted"))
           /\ set.persistent <=> PolicyOf(url, env) # "Disabled" /\ ~set.pooler
           /\ set.persistent \in BOOLEAN
  BY <1>1, SettingsExact
<1>7. set.valid \in BOOLEAN /\ set.pooler \in BOOLEAN /\ set.auto_create_table \in BOOLEAN
  BY <1>1, SettingsTyped DEF NamesIn, Names
<1>8. MinOf(url, env) \in Nat
  <2>1. env.max \in Nat \cup {Unset} /\ env.min \in Nat \cup {Unset}
    BY <1>1 DEF IsEnv
  <2>2. Occ(url, "min_connections", Nat) # {}
          => LastVal(url, "min_connections", Nat, 0) \in Nat
    BY <1>1, LastValTyped
  <2> QED
    BY <2>1, <2>2, PgConfigAssumption DEF MinOf, EnvMax, AtMost, Or, Unset
<1> HIDE DEF set
<1>9. set.valid = \A i \in Given("table_name") : url[i].val \in Names
  BY <1>6, <1>7 DEF BadName, Given
<1>10. ASSUME set.valid
       PROVE  PoolExact(set) /\ TimeoutsExact(set) /\ TableExact(set)
              /\ StatementsExact(set)
  <2>1. PoolExact(set)
    <3>1. MaxOf(url, env) > 0
      BY <1>6, <1>10 DEF Positive
    <3>2. MinOf(url, env) >= 0
      BY <1>8
    <3> QED
      BY <1>2, <1>3, <1>6, <1>10, <3>1, <3>2
         DEF PoolExact, MaxOf, MinOf, EnvMax
  <2>2. TimeoutsExact(set)
    <3>1. set.acquire_timeout > 0 /\ (set.pooler => set.connect_timeout > 0)
      BY <1>6, <1>10 DEF Positive
    <3> QED
      BY <1>3, <1>6, <1>10, <3>1
         DEF TimeoutsExact, EnvTimeout, DirectTimeout, TimeoutOf
  <2>3. TableExact(set)
    <3>1. set.auto_create_table
            = (LastVal(url, "auto_create_table", Bools, "true") = "true")
      BY <1>6, <1>7, <1>10
    <3>2. set.table = LastOf(Given("table_name"), "kv")
      <4>1. Given("table_name") = Occurrences("table_name", Names)
        BY <1>5, <1>9, <1>10
      <4>2. LastOf(Occurrences("table_name", Names), "kv")
              = LastVal(url, "table_name", Names, "kv")
        BY <1>3
      <4> QED
        BY <1>6, <1>10, <4>1, <4>2
    <3> QED
      BY <1>3, <1>6, <1>10, <3>1, <3>2 DEF TableExact, EnvHash, Partitions
  <2>4. StatementsExact(set)
    <3>1. set.pooler = (LastVal(url, "pooler", Bools, "false") = "true")
      BY <1>6, <1>7, <1>10
    <3>2. set.persistent = (PolicyOf(url, env) # "Disabled" /\ ~set.pooler)
      BY <1>6, <1>7, <1>10
    <3> QED
      BY <1>3, <1>4, <1>6, <1>10, <3>1, <3>2 DEF StatementsExact, PolicyOf, LevelOf
  <2> QED
    BY <2>1, <2>2, <2>3, <2>4
<1> QED
  BY <1>9, <1>10 DEF MergeExact, set

(* The merge of a URL, an environment and the defaults, for every URL.      *)
THEOREM MergeInvariant == Spec => []MergeExact
<1>1. IInv => MergeExact
  BY MergeExactHolds
<1> QED
  BY <1>1, IInvInductive, PTL

(* The tuning variables are of the kind from_env reads.                     *)
LEMMA TuningTyped ==
  ASSUME IInv
  PROVE  IsTuning(tuning)
BY StartupAssumption, SMT DEF IInv, Inputs, IsTuning, Untuned, numbers

(* The number in force is the default or one within the range.              *)
LEMMA NumberInForce ==
  ASSUME NEW f \in DOMAIN numbers, NEW v \in Int \cup {Absent, NotFinite}
  PROVE  env_number(f, v) \in numbers[f].lo..numbers[f].hi
<1>1. /\ numbers[f].lo \in Int /\ numbers[f].hi \in Int /\ numbers[f].default \in Int
      /\ numbers[f].lo <= numbers[f].default /\ numbers[f].default <= numbers[f].hi
  BY SMT DEF numbers, Limit, MaxInt
<1> QED
  BY <1>1 DEF env_number

(* What from_env lets through is within what the generators assert.         *)
LEMMA RangeAsserted ==
  ASSUME NEW f, NEW v
  PROVE  /\ f \in DOMAIN tune_table_sql /\ v \in numbers[f].lo..numbers[f].hi
              => v \in tune_table_sql[f]
         /\ f \in DOMAIN session_sql /\ v \in numbers[f].lo..numbers[f].hi
              => v \in session_sql[f]
<1>1. CASE f = "fillfactor"
  BY <1>1, SMT DEF numbers, Limit, tune_table_sql, session_sql
<1>2. CASE f = "toast_threshold"
  <2>0. numbers[f] = Limit(128, 8160, 2032)
    BY <1>2, SMT DEF numbers
  <2>1. numbers[f].lo..numbers[f].hi = 128..8160
    BY <2>0, SMT DEF Limit
  <2>2. tune_table_sql[f] = 128..8160 /\ f \notin DOMAIN session_sql
    BY <1>2, SMT DEF tune_table_sql, session_sql
  <2> QED
    BY <2>1, <2>2
<1>3. CASE f \in {"autovac_vacuum_scale", "autovac_analyze_scale"}
  BY <1>3, SMT DEF numbers, Limit, tune_table_sql, session_sql
<1>4. CASE f \in {"autovac_vacuum_threshold", "autovac_vacuum_cost_limit",
                  "autovac_vacuum_cost_delay"}
  BY <1>4, SMT DEF numbers, Limit, tune_table_sql, session_sql, MaxInt
<1>5. CASE f = "stats_target"
  <2>0. numbers[f] = Limit(-1, 10000, 500)
    BY <1>5, SMT DEF numbers
  <2>1. numbers[f].lo..numbers[f].hi = -1..10000
    BY <2>0, SMT DEF Limit
  <2>2. session_sql[f] = -1..10000 /\ f \notin DOMAIN tune_table_sql
    BY <1>5, SMT DEF tune_table_sql, session_sql
  <2> QED
    BY <2>1, <2>2
<1>6. CASE f = "server_random_page_cost"
  <2>0. numbers[f] = Limit(1, MaxInt, 110)
    BY <1>6, SMT DEF numbers
  <2>1. numbers[f].lo..numbers[f].hi = 1..MaxInt
    BY <2>0, SMT DEF Limit
  <2>2. session_sql[f] = Nat \ {0} /\ f \notin DOMAIN tune_table_sql
    BY <1>6, SMT DEF tune_table_sql, session_sql
  <2>3. MaxInt \in Nat
    BY SMT DEF MaxInt
  <2>4. v \in 1..MaxInt => v \in Nat \ {0}
    BY <2>3
  <2> QED
    BY <2>1, <2>2, <2>4
<1>7. /\ DOMAIN session_sql = {"stats_target", "server_random_page_cost"}
      /\ DOMAIN tune_table_sql =
           {"fillfactor", "toast_threshold", "autovac_vacuum_scale",
            "autovac_vacuum_threshold", "autovac_analyze_scale",
            "autovac_vacuum_cost_limit", "autovac_vacuum_cost_delay"}
  BY SMT DEF session_sql, tune_table_sql
<1> QED
  BY <1>1, <1>2, <1>3, <1>4, <1>5, <1>6, <1>7, SMT

(* No number or duration of a PG_TUNED_* variable trips an assertion of the *)
(* SQL generators; PG_TUNED_TABLE_HASH_PARTITIONS is not one of these.      *)
THEOREM NumbersInvariant == Spec => []NumbersPassAsserts
<1>1. IInv => NumbersPassAsserts
  <2> SUFFICES ASSUME IInv
               PROVE  NumbersPassAsserts
    OBVIOUS
  <2> DEFINE f == tuning.name
             v == env_number(f, tuning.value)
  <2>1. f \in DOMAIN numbers /\ v \in numbers[f].lo..numbers[f].hi
    BY TuningTyped, NumberInForce DEF IsTuning
  <2> HIDE DEF v
  <2>2. f \in DOMAIN tune_table_sql => v \in tune_table_sql[f]
    BY <2>1, RangeAsserted
  <2>3. f \in DOMAIN session_sql => v \in session_sql[f]
    BY <2>1, RangeAsserted
  <2> QED
    BY <2>2, <2>3 DEF NumbersPassAsserts, v
<1> QED
  BY <1>1, IInvInductive, PTL

(* The last partition has the longest name.                                 *)
LEMMA LastIsLongest ==
  ASSUME NEW bytes \in Nat, NEW n \in Nat, n > 1, validate_partition_names(bytes, n),
         NEW i \in 0..(n - 1)
  PROVE  NameBytes(bytes, i) <= 63
BY DEF validate_partition_names, NameBytes, Digits

(* A server that has sent the SQL for its table uses names of partitions    *)
(* that PostgreSQL stores as they are, for tables' names of any length and  *)
(* up to 1024 partitions.                                                   *)
THEOREM NamesInvariant == Spec => []PartitionNamesFit
<1>1. IInv => PartitionNamesFit
  <2> SUFFICES ASSUME IInv, NEW s \in Server,
                      step[s] \in {"blocked", "creating", "check", "up"},
                      config[s].auto_create_table,
                      config[s].hash_partitions > 1,
                      NEW i \in 0..(config[s].hash_partitions - 1)
               PROVE  NameBytes(Bytes(config[s].table), i) <= 63
    BY DEF PartitionNamesFit
  <2>1. NamesFit(s) /\ Accepted(config[s])
    BY DEF IInv, Servers, Down
  <2>2. validate_partition_names(Bytes(config[s].table), config[s].hash_partitions)
    BY <2>1 DEF NamesFit, Generated, NamesTooLong
  <2>3. Bytes(config[s].table) \in Nat /\ config[s].hash_partitions \in Nat
    BY <2>1, PgConfigAssumption DEF Bytes, Accepted
  <2> QED
    BY <2>2, <2>3, LastIsLongest
<1> QED
  BY <1>1, IInvInductive, PTL

(* A duration survives the conversion to seconds or milliseconds.           *)
LEMMA DurationInForce ==
  ASSUME NEW ms \in Nat, ms > 0
  PROVE  /\ parse_duration(fmt_dur(ms)) = ms
         /\ fmt_keepalive_secs(ms) > 0
         /\ ms >= 1000 => ms - 1000 * fmt_keepalive_secs(ms) \in 0..999
<1>1. /\ ms \div 1000 \in Nat /\ ms % 1000 \in 0..999
      /\ ms = 1000 * (ms \div 1000) + (ms % 1000)
  OBVIOUS
<1>2. parse_duration(fmt_dur(ms)) = ms
  <2>1. CASE ms % 1000 = 0
    <3>1. fmt_dur(ms) = [n |-> ms \div 1000, unit |-> "s"]
      BY <2>1 DEF fmt_dur
    <3>2. parse_duration(fmt_dur(ms)) = (ms \div 1000) * 1000
      BY <3>1, SMT DEF parse_duration, InMillis
    <3> QED
      BY <1>1, <2>1, <3>2
  <2>2. CASE ms % 1000 # 0
    <3>1. fmt_dur(ms) = [n |-> ms, unit |-> "ms"]
      BY <2>2 DEF fmt_dur
    <3>2. parse_duration(fmt_dur(ms)) = ms * 1
      BY <3>1, SMT DEF parse_duration, InMillis
    <3> QED
      BY <3>2
  <2> QED
    BY <2>1, <2>2
<1>3. fmt_keepalive_secs(ms) > 0
  BY <1>1 DEF fmt_keepalive_secs
<1>4. ms >= 1000 => ms - 1000 * fmt_keepalive_secs(ms) \in 0..999
  BY <1>1 DEF fmt_keepalive_secs
<1> QED
  BY <1>2, <1>3, <1>4

(* A time limit of the environment reaches PostgreSQL as it was written.    *)
THEOREM TimeoutsInvariant == Spec => []TimeoutsInForce
<1>1. IInv => TimeoutsInForce
  <2> SUFFICES ASSUME IInv
               PROVE  TimeoutsInForce
    OBVIOUS
  <2> DEFINE ms == env_duration_nonzero(tuning.duration, 10000)
  <2>1. ms \in Nat /\ ms > 0
    <3>1. tuning.duration # Absent => parse_duration(tuning.duration) \in Nat
      BY TuningTyped, SMT DEF IsTuning, parse_duration, InMillis
    <3> QED
      BY <3>1 DEF env_duration_nonzero
  <2> HIDE DEF ms
  <2>2. /\ parse_duration(fmt_dur(ms)) = ms
        /\ fmt_keepalive_secs(ms) > 0
        /\ ms >= 1000 => ms - 1000 * fmt_keepalive_secs(ms) \in 0..999
    BY <2>1, DurationInForce
  <2> QED
    BY <2>1, <2>2 DEF TimeoutsInForce, ms
<1> QED
  BY <1>1, IInvInductive, PTL

=============================================================================
