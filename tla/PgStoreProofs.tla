---------------------------- MODULE PgStoreProofs ----------------------------
(***************************************************************************)
(* TLAPS proofs about PgStore, for every finite set of callers, every pool *)
(* size and any number of transactions.                                    *)
(***************************************************************************)
EXTENDS PgStore, FiniteSetTheorems, TLAPS

-----------------------------------------------------------------------------
(* Counting tasks by where they are.                                        *)

At(f, P) == {k \in Task : f[k] \in P}

Holding == {"beginning", "started", "maint"}

One(b) == IF b THEN 1 ELSE 0

(* The number of tasks at the places P is a number, 0 only when there are   *)
(* none, and at most that of all tasks.                                     *)
LEMMA CountTyped ==
  ASSUME NEW f, NEW P
  PROVE  /\ IsFiniteSet(At(f, P))
         /\ Cardinality(At(f, P)) \in Nat
         /\ Cardinality(Task) \in Nat
         /\ Cardinality(At(f, P)) <= Cardinality(Task)
         /\ Cardinality(At(f, P)) = 0 <=> At(f, P) = {}
<1>1. IsFiniteSet(Task) /\ At(f, P) \in SUBSET Task
  BY PgStoreAssumption DEF At
<1> HIDE DEF At
<1>2. IsFiniteSet(At(f, P)) /\ Cardinality(At(f, P)) <= Cardinality(Task)
  BY <1>1, FS_Subset
<1> QED
  BY <1>1, <1>2, FS_CardinalityType, FS_EmptySet

(* A task that moves from one place to another changes the number at the    *)
(* places P by what it leaves and what it enters.                           *)
LEMMA CountMoves ==
  ASSUME NEW f \in [Task -> PCs], NEW k \in Task, NEW w \in PCs, NEW P
  PROVE  /\ Cardinality(At([f EXCEPT ![k] = w], P)) + One(f[k] \in P)
              = Cardinality(At(f, P)) + One(w \in P)
         /\ Cardinality(At(f, P)) >= One(f[k] \in P)
<1> DEFINE rest == At(f, P) \ {k}
<1>1. /\ IsFiniteSet(rest)
      /\ Cardinality(rest) \in Nat
      /\ Cardinality(At(f, P)) = Cardinality(rest) + One(f[k] \in P)
  <2>1. k \in At(f, P) <=> f[k] \in P
    BY DEF At
  <2>2. IsFiniteSet(At(f, P)) /\ Cardinality(At(f, P)) \in Nat
    BY CountTyped
  <2>3. /\ IsFiniteSet(rest)
        /\ Cardinality(rest) = IF k \in At(f, P) THEN Cardinality(At(f, P)) - 1
                               ELSE Cardinality(At(f, P))
    BY <2>2, FS_RemoveElement
  <2>4. Cardinality(rest) \in Nat
    BY <2>3, FS_CardinalityType
  <2> QED
    BY <2>1, <2>2, <2>3, <2>4 DEF One
<1>2. Cardinality(At([f EXCEPT ![k] = w], P)) = Cardinality(rest) + One(w \in P)
  <2>1. k \notin rest
    OBVIOUS
  <2>2. CASE w \in P
    <3>1. At([f EXCEPT ![k] = w], P) = rest \cup {k}
      BY <2>2 DEF At
    <3>2. Cardinality(rest \cup {k}) = Cardinality(rest) + 1
      BY <1>1, <2>1, FS_AddElement
    <3> QED
      BY <2>2, <3>1, <3>2 DEF One
  <2>3. CASE w \notin P
    <3>1. At([f EXCEPT ![k] = w], P) = rest
      BY <2>3 DEF At
    <3>2. One(w \in P) = 0
      BY <2>3 DEF One
    <3> HIDE DEF rest
    <3> QED
      BY <1>1, <3>1, <3>2
  <2> QED
    BY <2>2, <2>3
<1> QED
  BY <1>1, <1>2 DEF One

-----------------------------------------------------------------------------
(* The inductive invariant.                                                 *)

(* The attempts of a call that is idle or about to start another one leave  *)
(* room for one more.                                                       *)
Resting == {"idle", "head", "sleep"}

(* A place of begin_pooled, of begin_direct, or of both.                    *)
InMode(w) ==
  /\ w = "acquire" => mode = "pooled"
  /\ w \in {"connect", "keepalive", "session"} => mode = "direct"

Typed ==
  /\ mode \in {"pooled", "direct"}
  /\ shutting_down \in BOOLEAN
  /\ shut \in ShutPCs
  /\ pc \in [Task -> PCs]
  /\ attempt \in [Task -> 0..MAX_RETRIES+1]
  /\ pool_closed \in BOOLEAN
  /\ idle \in Nat /\ returning \in Nat
  /\ tx_started \in 0..MaxStarted
  /\ \A k \in Task : InMode(pc[k]) /\ (pc[k] \in Resting => attempt[k] <= MAX_RETRIES)

(* The gauge of active transactions is the number of callers that own one.  *)
GaugeExact == tx_active = Cardinality(At(pc, {"started"}))

(* Idle, returning and used connections are within max_connections, and     *)
(* direct mode has no pool.                                                 *)
PoolWithinLimit ==
  /\ mode = "pooled"
       => idle + returning + Cardinality(At(pc, Holding)) <= PoolMax
  /\ mode = "direct" => idle = 0 /\ returning = 0

(* A closed pool keeps nothing, and shutdown() leaves no pool open.         *)
CloseKept ==
  /\ pool_closed => idle = 0
  /\ mode = "pooled" => shut # "grace"
  /\ mode = "pooled" /\ shut \in {"closing", "returned", "timedOut"} => pool_closed
  /\ mode = "pooled" /\ shut = "returned"
       => At(pc, Holding) = {} /\ returning = 0

IInv == Typed /\ GaugeExact /\ PoolWithinLimit /\ CloseKept

-----------------------------------------------------------------------------
(* A step of a task moves it, and with it at most one connection.           *)

NoConnectionMoves(k, w) ==
  /\ UNCHANGED pool
  /\ mode = "pooled" => One(pc[k] \in Holding) = One(w \in Holding)

GetsConnection(k, w) ==
  /\ mode = "pooled" /\ ~pool_closed /\ Checkout
  /\ pc[k] \notin Holding /\ w \in Holding

GivesConnection(k, w) ==
  /\ GiveBack
  /\ pc[k] \in Holding /\ w \notin Holding

TaskMoves(k, w, a) ==
  /\ pc' = [pc EXCEPT ![k] = w]
  /\ attempt' = [attempt EXCEPT ![k] = a]
  /\ InMode(w) /\ (w \in Resting => a <= MAX_RETRIES)
  /\ UNCHANGED <<mode, closing>>
  /\ tx_active' + One(pc[k] = "started") = tx_active + One(w = "started")
  /\ tx_active' \in Int
  /\ tx_started' \in {tx_started, tx_started + 1} /\ tx_started' <= MaxStarted
  /\ tx_started' # tx_started => pc[k] = "beginning"
  /\ NoConnectionMoves(k, w) \/ GetsConnection(k, w) \/ GivesConnection(k, w)

TaskStep(k) == \E w \in PCs, a \in 0..MAX_RETRIES+1 : TaskMoves(k, w, a)

(* The value a step leaves alone is the one it writes.                      *)
LEMMA Unmoved ==
  ASSUME NEW S, NEW f \in [Task -> S], NEW k \in Task
  PROVE  [f EXCEPT ![k] = f[k]] = f
OBVIOUS

(* To show that a task steps, name where it goes.                           *)
LEMMA TaskStepIntro ==
  ASSUME NEW k \in Task, NEW w \in PCs, NEW a \in 0..MAX_RETRIES+1,
         TaskMoves(k, w, a)
  PROVE  TaskStep(k)
BY DEF TaskStep

(* A failed attempt backs off, or is the last one.                          *)
LEMMA FailedAttempt ==
  ASSUME Typed, NEW k \in Task, NEW transient \in BOOLEAN, FailAttempt(k, transient)
  PROVE  \E w \in {"idle", "sleep"}, a \in 0..MAX_RETRIES :
           /\ pc' = [pc EXCEPT ![k] = w]
           /\ attempt' = [attempt EXCEPT ![k] = a]
<1>1. attempt \in [Task -> 0..MAX_RETRIES+1] /\ attempt[k] \in 0..MAX_RETRIES+1
  BY DEF Typed
<1>2. CASE GivesUp(k, transient) /\ Leave(k, "idle")
  <2>1. pc' = [pc EXCEPT ![k] = "idle"] /\ attempt' = [attempt EXCEPT ![k] = 0]
    BY <1>2 DEF Leave, Goto
  <2> QED
    BY <2>1 DEF MAX_RETRIES
<1>3. CASE ~GivesUp(k, transient) /\ Goto(k, "sleep") /\ UNCHANGED attempt
  <2>1. attempt[k] \in 0..MAX_RETRIES
    BY <1>1, <1>3 DEF GivesUp, MAX_RETRIES
  <2>2. attempt' = [attempt EXCEPT ![k] = attempt[k]]
    BY <1>1, <1>3, Unmoved
  <2> QED
    BY <1>3, <2>1, <2>2 DEF Goto
<1> QED
  BY <1>2, <1>3 DEF FailAttempt

(* Which errors are retried is decided one way or the other.                *)
LEMMA TransientTyped ==
  /\ Transient \subseteq BOOLEAN
  /\ PoolClosed \subseteq BOOLEAN
<1>1. \A err : is_transient(err) \in BOOLEAN
  BY DEF is_transient
<1> QED
  BY <1>1 DEF Transient, PoolClosed

(* The steps of begin() up to the connection.                               *)
LEMMA BeginStepShape ==
  ASSUME Typed, tx_active \in Nat, NEW k \in Task, CallBegin(k) \/ BeginStep(k)
  PROVE  TaskStep(k)
<1> USE DEF One, Holding, Resting, InMode
<1>a. /\ attempt \in [Task -> 0..MAX_RETRIES+1] /\ attempt[k] \in 0..MAX_RETRIES+1
      /\ pc \in [Task -> PCs]
      /\ [attempt EXCEPT ![k] = attempt[k]] = attempt
      /\ InMode(pc[k])
      /\ pc[k] \in Resting => attempt[k] <= MAX_RETRIES
      /\ mode \in {"pooled", "direct"}
      /\ tx_started \in 0..MaxStarted /\ MaxStarted \in Nat
  BY Unmoved, PgStoreAssumption DEF Typed
<1>b. PCs = {"acquire", "connect", "keepalive", "session", "beginning", "head",
             "sleep", "idle", "started", "want", "maint"}
  BY DEF PCs, InBegin, Attempting
<1>1. CASE CallBegin(k)
  <2>1. TaskMoves(k, "head", attempt[k])
    BY <1>1, <1>a DEF CallBegin, TaskMoves, NoConnectionMoves, Goto, counts
  <2> QED
    BY <1>a, <1>b, <2>1, TaskStepIntro
<1>2. CASE Refuse(k)
  <2>1. TaskMoves(k, "idle", 0)
    BY <1>2, <1>a DEF Refuse, TaskMoves, NoConnectionMoves, Leave, Goto, counts, MAX_RETRIES
  <2> QED
    BY <1>b, <2>1, TaskStepIntro DEF MAX_RETRIES
<1>3. CASE StartAttempt(k)
  <2>1. attempt[k] + 1 \in 0..MAX_RETRIES+1
    BY <1>3, <1>a DEF StartAttempt, MAX_RETRIES
  <2>2. PICK w \in {"acquire", "connect"} :
          /\ pc' = [pc EXCEPT ![k] = w]
          /\ w = "acquire" <=> mode = "pooled"
    BY <1>3 DEF StartAttempt, Goto
  <2>3. TaskMoves(k, w, attempt[k] + 1)
    BY <1>3, <1>a, <2>1, <2>2 DEF StartAttempt, NextAttempt, TaskMoves, NoConnectionMoves, counts
  <2> QED
    BY <1>b, <2>1, <2>3, TaskStepIntro
<1>4. CASE Wake(k)
  <2>1. TaskMoves(k, "head", attempt[k])
    BY <1>4, <1>a DEF Wake, TaskMoves, NoConnectionMoves, Goto, counts
  <2> QED
    BY <1>a, <1>b, <2>1, TaskStepIntro
<1>5. CASE AcquireOk(k)
  <2>1. mode = "pooled"
    BY <1>5, <1>a DEF AcquireOk
  <2>2. TaskMoves(k, "beginning", attempt[k])
    BY <1>5, <1>a, <2>1 DEF AcquireOk, TaskMoves, GetsConnection, Goto, counts
  <2> QED
    BY <1>a, <1>b, <2>2, TaskStepIntro
<1>6. CASE AcquireFailed(k)
  <2>1. PICK transient \in BOOLEAN : FailAttempt(k, transient)
    BY <1>6, TransientTyped DEF AcquireFailed
  <2>2. PICK w \in {"idle", "sleep"}, n \in 0..MAX_RETRIES :
          /\ pc' = [pc EXCEPT ![k] = w]
          /\ attempt' = [attempt EXCEPT ![k] = n]
    BY <2>1, FailedAttempt
  <2>3. TaskMoves(k, w, n)
    BY <1>6, <1>a, <2>2 DEF AcquireFailed, TaskMoves, NoConnectionMoves, counts, MAX_RETRIES
  <2> QED
    BY <1>b, <2>3, TaskStepIntro DEF MAX_RETRIES
<1>7. CASE ConnectOk(k) \/ Keepalive(k) \/ SessionOk(k)
  <2>1. PICK w \in {"keepalive", "session", "beginning"} : pc' = [pc EXCEPT ![k] = w]
    BY <1>7 DEF ConnectOk, Keepalive, SessionOk, Goto
  <2>2. mode = "direct" /\ pc[k] \in {"connect", "keepalive", "session"}
    BY <1>7, <1>a DEF ConnectOk, Keepalive, SessionOk
  <2>3. TaskMoves(k, w, attempt[k])
    BY <1>7, <1>a, <2>1, <2>2
       DEF ConnectOk, Keepalive, SessionOk, TaskMoves, NoConnectionMoves, counts
  <2> QED
    BY <1>a, <1>b, <2>3, TaskStepIntro
<1>8. CASE SetupFailed(k)
  <2>1. PICK transient \in BOOLEAN : FailAttempt(k, transient)
    BY <1>8, TransientTyped DEF SetupFailed
  <2>2. PICK w \in {"idle", "sleep"}, n \in 0..MAX_RETRIES :
          /\ pc' = [pc EXCEPT ![k] = w]
          /\ attempt' = [attempt EXCEPT ![k] = n]
    BY <2>1, FailedAttempt
  <2>3. TaskMoves(k, w, n)
    BY <1>8, <1>a, <2>2 DEF SetupFailed, TaskMoves, NoConnectionMoves, counts, MAX_RETRIES
  <2> QED
    BY <1>b, <2>3, TaskStepIntro DEF MAX_RETRIES
<1>9. CASE BeginOk(k)
  <2>1. TaskMoves(k, "started", 0)
    BY <1>9, <1>a DEF BeginOk, TaskMoves, NoConnectionMoves, Leave, Goto, MAX_RETRIES
  <2> QED
    BY <1>b, <2>1, TaskStepIntro DEF MAX_RETRIES
<1>10. CASE BeginFailed(k)
  <2>1. PICK transient \in BOOLEAN : FailAttempt(k, transient)
    BY <1>10, TransientTyped DEF BeginFailed
  <2>2. PICK w \in {"idle", "sleep"}, n \in 0..MAX_RETRIES :
          /\ pc' = [pc EXCEPT ![k] = w]
          /\ attempt' = [attempt EXCEPT ![k] = n]
    BY <2>1, FailedAttempt
  <2>3. TaskMoves(k, w, n)
    BY <1>10, <1>a, <2>2 DEF BeginFailed, TaskMoves, GivesConnection, counts, MAX_RETRIES
  <2> QED
    BY <1>b, <2>3, TaskStepIntro DEF MAX_RETRIES
<1> QED
  BY <1>1, <1>2, <1>3, <1>4, <1>5, <1>6, <1>7, <1>8, <1>9, <1>10 DEF BeginStep

(* The steps of the callers: transactions, maintenance, dropped futures.    *)
LEMMA CallerStepShape ==
  ASSUME Typed, tx_active \in Nat, NEW k \in Task,
         \/ EndTx(k) \/ DropBegin(k) \/ CallMaintenance(k)
         \/ MaintenanceConnected(k) \/ MaintenanceEnds(k) \/ HealthCheckRetry(k)
  PROVE  TaskStep(k)
<1> USE DEF One, Holding, Resting, InMode
<1>a. /\ attempt \in [Task -> 0..MAX_RETRIES+1] /\ attempt[k] \in 0..MAX_RETRIES+1
      /\ pc \in [Task -> PCs]
      /\ [attempt EXCEPT ![k] = attempt[k]] = attempt
      /\ mode \in {"pooled", "direct"}
      /\ tx_started \in 0..MaxStarted /\ MaxStarted \in Nat
  BY Unmoved, PgStoreAssumption DEF Typed
<1>b. PCs = {"acquire", "connect", "keepalive", "session", "beginning", "head",
             "sleep", "idle", "started", "want", "maint"}
  BY DEF PCs, InBegin, Attempting
<1>1. CASE EndTx(k)
  <2>1. TaskMoves(k, "idle", 0)
    BY <1>1, <1>a DEF EndTx, TaskMoves, GivesConnection, Leave, Goto, MAX_RETRIES
  <2> QED
    BY <1>b, <2>1, TaskStepIntro DEF MAX_RETRIES
<1>2. CASE DropBegin(k)
  <2>1. TaskMoves(k, "idle", 0)
    BY <1>2, <1>a DEF DropBegin, TaskMoves, GivesConnection, NoConnectionMoves,
                      Attempting, Leave, Goto, counts, MAX_RETRIES
  <2> QED
    BY <1>b, <2>1, TaskStepIntro DEF MAX_RETRIES
<1>3. CASE CallMaintenance(k)
  <2>1. TaskMoves(k, "want", attempt[k])
    BY <1>3, <1>a DEF CallMaintenance, TaskMoves, NoConnectionMoves, Goto, counts
  <2> QED
    BY <1>a, <1>b, <2>1, TaskStepIntro
<1>4. CASE MaintenanceConnected(k)
  <2>1. TaskMoves(k, "maint", attempt[k])
    BY <1>4, <1>a DEF MaintenanceConnected, TaskMoves, GetsConnection,
                      NoConnectionMoves, Goto, counts
  <2> QED
    BY <1>a, <1>b, <2>1, TaskStepIntro
<1>5. CASE MaintenanceEnds(k)
  <2>1. TaskMoves(k, "idle", 0)
    BY <1>5, <1>a DEF MaintenanceEnds, TaskMoves, GivesConnection, NoConnectionMoves,
                      Leave, Goto, counts, MAX_RETRIES
  <2> QED
    BY <1>b, <2>1, TaskStepIntro DEF MAX_RETRIES
<1>6. CASE HealthCheckRetry(k)
  <2>1. TaskMoves(k, "want", 1)
    BY <1>6, <1>a DEF HealthCheckRetry, TaskMoves, NoConnectionMoves, Goto, counts
  <2> QED
    BY <1>b, <2>1, TaskStepIntro DEF MAX_RETRIES
<1> QED
  BY <1>1, <1>2, <1>3, <1>4, <1>5, <1>6

(* A step is one of a task, of the pool, or of shutdown().                  *)
LEMMA NextShape ==
  ASSUME Typed, tx_active \in Nat, Next
  PROVE  (\E k \in Task : TaskStep(k)) \/ FinishReturn \/ ReapIdle \/ OpenIdle
         \/ ShutdownBarrier \/ Shutdown
BY BeginStepShape, CallerStepShape DEF Next

-----------------------------------------------------------------------------
(* The invariant is kept.                                                   *)

LEMMA InUseAt ==
  InUse = IF mode = "pooled" THEN At(pc, Holding) ELSE {}
BY DEF InUse, At, Holding

(* A task's step keeps the types.                                           *)
LEMMA TaskStepTyped ==
  ASSUME IInv, NEW k \in Task, TaskStep(k)
  PROVE  Typed' /\ GaugeExact'
<1>1. PICK w \in PCs, a \in 0..MAX_RETRIES+1 : TaskMoves(k, w, a)
  BY DEF TaskStep
<1>a. Typed /\ PoolWithinLimit /\ tx_active = Cardinality(At(pc, {"started"}))
  BY DEF IInv, GaugeExact
<1>b. pc \in [Task -> PCs] /\ pc' = [pc EXCEPT ![k] = w]
  BY <1>1, <1>a DEF Typed, TaskMoves
<1>2. Typed'
  <2>1. /\ pc' \in [Task -> PCs]
        /\ attempt' = [attempt EXCEPT ![k] = a]
        /\ attempt' \in [Task -> 0..MAX_RETRIES+1]
    BY <1>1, <1>a, <1>b DEF Typed, TaskMoves
  <2>2. ASSUME NEW j \in Task
        PROVE  InMode(pc[j])' /\ (pc'[j] \in Resting => attempt'[j] <= MAX_RETRIES)
    <3>1. InMode(pc[j]) /\ (pc[j] \in Resting => attempt[j] <= MAX_RETRIES)
      BY <1>a DEF Typed
    <3>2. mode' = mode /\ InMode(w) /\ (w \in Resting => a <= MAX_RETRIES)
      BY <1>1 DEF TaskMoves
    <3>3. \/ pc'[j] = pc[j] /\ attempt'[j] = attempt[j]
          \/ pc'[j] = w /\ attempt'[j] = a
      BY <1>a, <1>b, <2>1 DEF Typed
    <3> QED
      BY <3>1, <3>2, <3>3 DEF InMode
  <2>3. idle' \in Nat /\ returning' \in Nat /\ pool_closed' \in BOOLEAN
    <3>1. idle \in Nat /\ returning \in Nat /\ pool_closed \in BOOLEAN
      BY <1>a DEF Typed
    <3> QED
      BY <1>1, <3>1 DEF TaskMoves, NoConnectionMoves, GetsConnection, GivesConnection,
                        Checkout, GiveBack, pool
  <2>4. tx_started' \in 0..MaxStarted
    BY <1>1, <1>a, PgStoreAssumption DEF TaskMoves, Typed
  <2> QED
    BY <1>1, <1>a, <2>1, <2>2, <2>3, <2>4 DEF Typed, TaskMoves, closing
<1>3. GaugeExact'
  <2>1. /\ Cardinality(At(pc', {"started"})) + One(pc[k] \in {"started"})
             = Cardinality(At(pc, {"started"})) + One(w \in {"started"})
        /\ Cardinality(At(pc', {"started"})) \in Nat
        /\ Cardinality(At(pc, {"started"})) \in Nat
    BY <1>b, CountMoves, CountTyped
  <2>2. /\ One(pc[k] \in {"started"}) = One(pc[k] = "started")
        /\ One(w \in {"started"}) = One(w = "started")
        /\ One(pc[k] = "started") \in Nat /\ One(w = "started") \in Nat
    BY DEF One
  <2>3. /\ tx_active' + One(pc[k] = "started") = tx_active + One(w = "started")
        /\ tx_active' \in Int
    BY <1>1 DEF TaskMoves
  <2> QED
    BY <1>a, <2>1, <2>2, <2>3 DEF GaugeExact
<1> QED
  BY <1>2, <1>3

(* A task's step keeps the pool within its limit, closed if it was.         *)
LEMMA TaskStepPool ==
  ASSUME IInv, NEW k \in Task, TaskStep(k)
  PROVE  PoolWithinLimit' /\ CloseKept'
<1>1. PICK w \in PCs, a \in 0..MAX_RETRIES+1 : TaskMoves(k, w, a)
  BY DEF TaskStep
<1> DEFINE old == Cardinality(At(pc, Holding))
           new == Cardinality(At(pc', Holding))
<1>a. /\ idle \in Nat /\ returning \in Nat /\ PoolMax \in Nat
      /\ mode \in {"pooled", "direct"}
      /\ mode = "pooled" => idle + returning + old <= PoolMax
      /\ mode = "direct" => idle = 0 /\ returning = 0
  BY PgStoreAssumption DEF IInv, Typed, PoolWithinLimit
<1>b. /\ mode' = mode /\ shut' = shut /\ pool_closed' = pool_closed
      /\ NoConnectionMoves(k, w) \/ GetsConnection(k, w) \/ GivesConnection(k, w)
  BY <1>1 DEF TaskMoves, closing, NoConnectionMoves, GetsConnection, GivesConnection,
              Checkout, GiveBack, pool
<1>c. /\ new + One(pc[k] \in Holding) = old + One(w \in Holding)
      /\ old \in Nat /\ new \in Nat
      /\ old >= One(pc[k] \in Holding)
      /\ old = 0 <=> At(pc, Holding) = {}
      /\ new = 0 <=> At(pc', Holding) = {}
  <2>1. pc \in [Task -> PCs] /\ pc' = [pc EXCEPT ![k] = w]
    BY <1>1 DEF IInv, Typed, TaskMoves
  <2> QED
    BY <2>1, CountMoves, CountTyped
<1>d. /\ pool_closed => idle = 0
      /\ mode = "pooled" => shut # "grace"
      /\ mode = "pooled" /\ shut \in {"closing", "returned", "timedOut"} => pool_closed
      /\ mode = "pooled" /\ shut = "returned" => old = 0 /\ returning = 0
  BY <1>c DEF IInv, CloseKept
<1>e. size = idle + returning + old \/ mode = "direct"
  BY <1>a, InUseAt DEF size
<1> HIDE DEF old, new
<1>2. /\ mode = "pooled" => idle' + returning' + new <= PoolMax
      /\ mode = "direct" => idle' = 0 /\ returning' = 0
      /\ pool_closed => idle' = 0
      /\ mode = "pooled" /\ shut = "returned" => new = 0 /\ returning' = 0
  <2>1. CASE NoConnectionMoves(k, w)
    <3>1. idle' = idle /\ returning' = returning
      BY <2>1 DEF NoConnectionMoves, pool
    <3>2. mode = "pooled" => new = old
      BY <1>c, <2>1 DEF NoConnectionMoves, One
    <3> QED
      BY <1>a, <1>d, <3>1, <3>2
  <2>2. CASE GetsConnection(k, w)
    <3>1. /\ mode = "pooled" /\ ~pool_closed /\ Checkout
          /\ One(pc[k] \in Holding) = 0 /\ One(w \in Holding) = 1
      BY <2>2 DEF GetsConnection, One
    <3>2. new = old + 1
      BY <1>c, <3>1
    <3>3. \/ idle > 0 /\ idle' = idle - 1 /\ returning' = returning
          \/ idle = 0 /\ idle' = idle /\ returning' = returning /\ size < PoolMax
      BY <3>1 DEF Checkout, pool
    <3> QED
      BY <1>a, <1>c, <1>d, <1>e, <3>1, <3>2, <3>3
  <2>3. CASE GivesConnection(k, w)
    <3>1. One(pc[k] \in Holding) = 1 /\ One(w \in Holding) = 0
      BY <2>3 DEF GivesConnection, One
    <3>2. old = new + 1
      BY <1>c, <3>1
    <3>3. /\ mode = "pooled" => returning' = returning + 1 /\ idle' = idle
          /\ mode # "pooled" => returning' = returning /\ idle' = idle
      BY <2>3 DEF GivesConnection, GiveBack, pool
    <3> QED
      BY <1>a, <1>c, <1>d, <3>2, <3>3
  <2> QED
    BY <1>b, <2>1, <2>2, <2>3
<1> USE DEF old, new
<1> QED
  BY <1>b, <1>c, <1>d, <1>2 DEF PoolWithinLimit, CloseKept

(* The pool's own steps keep the invariant.                                 *)
LEMMA PoolStepKeeps ==
  ASSUME IInv, FinishReturn \/ ReapIdle
  PROVE  IInv'
<1>a. /\ idle \in Nat /\ returning \in Nat /\ PoolMax \in Nat
      /\ Cardinality(At(pc, Holding)) \in Nat
      /\ mode \in {"pooled", "direct"}
  BY CountTyped, PgStoreAssumption DEF IInv, Typed
<1>b. UNCHANGED <<mode, shutting_down, shut, pc, attempt, pool_closed, tx_started, tx_active>>
  BY DEF FinishReturn, ReapIdle, closing, local, counts
<1>1. /\ idle' \in Nat /\ returning' \in Nat
      /\ idle' + returning' <= idle + returning
      /\ pool_closed => idle' <= idle
      /\ idle' > 0 => idle > 0 \/ returning > 0
      /\ returning' <= returning
  BY <1>a DEF FinishReturn, ReapIdle
<1>2. Typed' /\ GaugeExact'
  <2>1. At(pc, {"started"})' = At(pc, {"started"})
    BY <1>b DEF At
  <2> QED
    BY <1>b, <1>1, <2>1 DEF IInv, Typed, GaugeExact, InMode
<1>3. PoolWithinLimit' /\ CloseKept'
  <2>1. At(pc, Holding)' = At(pc, Holding)
    BY <1>b DEF At, Holding
  <2>2. (pool_closed => idle = 0) /\ PoolWithinLimit /\ CloseKept
    BY DEF IInv, CloseKept
  <2>3. PoolWithinLimit'
    BY <1>a, <1>b, <1>1, <2>1, <2>2 DEF PoolWithinLimit, FinishReturn, ReapIdle
  <2>4. pool_closed => idle' = 0
    BY <1>a, <1>1, <2>2
  <2>5. returning = 0 => returning' = 0
    BY <1>a, <1>1
  <2> QED
    BY <1>b, <2>1, <2>2, <2>3, <2>4, <2>5 DEF CloseKept
<1> QED
  BY <1>2, <1>3 DEF IInv

(* So does a connection the pool opens on its own.                          *)
LEMMA OpenIdleKeeps ==
  ASSUME IInv, OpenIdle
  PROVE  IInv'
<1>1. /\ UNCHANGED <<mode, shutting_down, shut, pc, attempt, pool_closed, returning>>
      /\ UNCHANGED <<tx_started, tx_active>>
      /\ mode = "pooled" /\ ~pool_closed /\ idle' = idle + 1
  BY DEF OpenIdle, closing, local, counts
<1>2. At(pc, {"started"})' = At(pc, {"started"}) /\ At(pc, Holding)' = At(pc, Holding)
  BY <1>1 DEF At, Holding
<1>3. idle + returning + Cardinality(At(pc, Holding)) < PoolMax
  BY <1>1, InUseAt DEF OpenIdle, size
<1>4. Typed' /\ GaugeExact'
  BY <1>1, <1>2 DEF IInv, Typed, GaugeExact, InMode
<1>5. PoolWithinLimit'
  <2>1. idle \in Nat /\ returning \in Nat /\ PoolMax \in Nat
        /\ Cardinality(At(pc, Holding)) \in Nat
    BY CountTyped, PgStoreAssumption DEF IInv, Typed
  <2> QED
    BY <1>1, <1>2, <1>3, <2>1 DEF PoolWithinLimit
<1>6. CloseKept'
  BY <1>1, <1>2 DEF IInv, CloseKept
<1> QED
  BY <1>4, <1>5, <1>6 DEF IInv

(* The steps of shutdown() keep the invariant.                              *)
LEMMA ShutdownStepKeeps ==
  ASSUME IInv, ShutdownBarrier \/ Shutdown
  PROVE  IInv'
<1> USE DEF Shutdown, ShutdownBarrier, HeartbeatAwaited, ClosePool, PoolCloseOk,
            PoolCloseTimeout, CloseDeadline, DirectDrain, GraceDrained, GraceExpired,
            local, counts, pool
<1>a. /\ Typed /\ CloseKept /\ PoolWithinLimit
      /\ idle \in Nat /\ returning \in Nat /\ PoolMax \in Nat
      /\ Cardinality(At(pc, Holding)) \in Nat
      /\ shut \in {"no", "heartbeat", "drain", "closing", "grace", "returned", "timedOut"}
      /\ mode \in {"pooled", "direct"}
  BY CountTyped, PgStoreAssumption DEF IInv, Typed, ShutPCs
<1>b. UNCHANGED <<mode, pc, attempt, returning, tx_started, tx_active>>
  OBVIOUS
<1>c. At(pc, Holding)' = At(pc, Holding) /\ At(pc, {"started"})' = At(pc, {"started"})
  BY <1>b DEF At, Holding
<1>d. \/ /\ idle' = idle /\ pool_closed' = pool_closed
         /\ mode = "pooled" /\ shut' \in {"closing", "returned", "timedOut"} => pool_closed
      \/ idle' = 0 /\ pool_closed' = TRUE
  <2>1. CASE ShutdownBarrier \/ HeartbeatAwaited \/ ClosePool
    BY <2>1
  <2>2. CASE PoolCloseOk \/ PoolCloseTimeout \/ GraceDrained \/ GraceExpired
    BY <1>a, <2>2 DEF CloseKept
  <2>3. CASE DirectDrain
    BY <2>3
  <2> QED
    BY <2>1, <2>2, <2>3
<1>1. Typed'
  <2>1. shut' \in ShutPCs /\ shutting_down' \in BOOLEAN
    BY <1>a DEF Typed, ShutPCs
  <2> HIDE DEF Shutdown, ShutdownBarrier
  <2>2. idle' \in Nat /\ pool_closed' \in BOOLEAN
    <3>1. pool_closed \in BOOLEAN
      BY <1>a DEF Typed
    <3>2. pool_closed' = pool_closed \/ pool_closed' = TRUE
      BY <1>d
    <3>3. idle' \in Nat
      BY <1>a, <1>d
    <3> QED
      BY <3>1, <3>2, <3>3
  <2>3. \A k \in Task : InMode(pc[k])' <=> InMode(pc[k])
    BY <1>b DEF InMode
  <2> QED
    BY <1>a, <1>b, <2>1, <2>2, <2>3 DEF Typed
<1>2. GaugeExact'
  BY <1>b, <1>c DEF IInv, GaugeExact
<1>3. PoolWithinLimit'
  BY <1>a, <1>b, <1>c, <1>d DEF PoolWithinLimit
<1>4. mode = "pooled" => shut' # "grace"
  BY <1>a DEF CloseKept
<1>5. ASSUME mode = "pooled", shut' = "returned"
      PROVE  At(pc, Holding) = {} /\ returning = 0
  <2>1. CASE PoolCloseOk
    BY <1>5, <2>1, InUseAt DEF PoolDrained
  <2>2. CASE GraceDrained \/ GraceExpired
    BY <1>a, <1>5, <2>2 DEF CloseKept
  <2>3. CASE ShutdownBarrier \/ HeartbeatAwaited \/ ClosePool \/ PoolCloseTimeout \/ DirectDrain
    BY <1>5, <2>3
  <2> QED
    BY <2>1, <2>2, <2>3
<1>6. CloseKept'
  BY <1>a, <1>b, <1>c, <1>d, <1>4, <1>5 DEF CloseKept
<1> QED
  BY <1>1, <1>2, <1>3, <1>6 DEF IInv

(* A step that changes nothing keeps the invariant.                         *)
LEMMA StutterKeeps ==
  ASSUME IInv, UNCHANGED vars
  PROVE  IInv'
BY DEF IInv, Typed, InMode, GaugeExact, PoolWithinLimit, CloseKept, At, Holding,
       vars, closing, local, pool, counts

(* The invariant holds for a store that was just built.                     *)
LEMMA InitHolds ==
  ASSUME Init
  PROVE  IInv
<1>1. At(pc, Holding) = {} /\ At(pc, {"started"}) = {}
  BY DEF Init, At, Holding
<1>2. Cardinality({}) = 0
  BY FS_EmptySet
<1>3. Typed
  <2>1. pc \in [Task -> PCs] /\ \A k \in Task : pc[k] = "idle"
    BY DEF Init, PCs
  <2>2. attempt \in [Task -> 0..MAX_RETRIES+1] /\ \A k \in Task : attempt[k] = 0
    BY DEF Init, MAX_RETRIES
  <2>3. \A k \in Task : InMode(pc[k]) /\ attempt[k] <= MAX_RETRIES
    BY <2>1, <2>2 DEF InMode, MAX_RETRIES
  <2>4. tx_started \in 0..MaxStarted /\ idle \in Nat /\ returning \in Nat
    BY PgStoreAssumption DEF Init
  <2> QED
    BY <2>1, <2>2, <2>3, <2>4 DEF Init, Typed, ShutPCs
<1> QED
  BY <1>1, <1>2, <1>3, PgStoreAssumption DEF IInv, Init, GaugeExact, PoolWithinLimit, CloseKept

(* The inductive invariant holds throughout.                                *)
LEMMA IInvInductive == Spec => []IInv
<1>1. Init => IInv
  BY InitHolds
<1>2. IInv /\ [Next]_vars => IInv'
  <2> SUFFICES ASSUME IInv, [Next]_vars
               PROVE  IInv'
    OBVIOUS
  <2>1. CASE UNCHANGED vars
    BY <2>1, StutterKeeps
  <2>2. ASSUME NEW k \in Task, TaskStep(k)
        PROVE  IInv'
    BY <2>2, TaskStepTyped, TaskStepPool DEF IInv
  <2>3. tx_active \in Nat
    BY CountTyped DEF IInv, GaugeExact
  <2>4. CASE Next
    <3>1. Typed
      BY DEF IInv
    <3> QED
      BY <2>2, <2>3, <2>4, <3>1, NextShape, PoolStepKeeps, OpenIdleKeeps,
         ShutdownStepKeeps
  <2> QED
    BY <2>1, <2>4
<1> QED
  BY <1>1, <1>2, PTL DEF Spec

-----------------------------------------------------------------------------
(* The theorems.                                                            *)

(* The state of the store is what its types say: BEGIN is attempted at most *)
(* 1 + BEGIN_MAX_RETRIES times, and tx_active, the AtomicU64 that           *)
(* shutdown() polls, is never decremented below zero.                       *)
THEOREM TypeInvariant == Spec => []TypeOK
<1>1. IInv => TypeOK
  <2> SUFFICES ASSUME IInv
               PROVE  TypeOK
    OBVIOUS
  <2>1. /\ idle + returning <= PoolMax
        /\ idle \in Nat /\ returning \in Nat
    <3>1. Cardinality(At(pc, Holding)) \in Nat
      BY CountTyped
    <3> QED
      BY <3>1, PgStoreAssumption DEF IInv, Typed, PoolWithinLimit
  <2>2. idle \in 0..PoolMax /\ returning \in 0..PoolMax
    BY <2>1, PgStoreAssumption
  <2>3. tx_active \in 0..Cardinality(Task)
    BY CountTyped DEF IInv, GaugeExact
  <2> QED
    BY <2>2, <2>3 DEF TypeOK, IInv, Typed
<1> QED
  BY <1>1, IInvInductive, PTL

(* Every transaction a caller owns is counted by tx_active and nothing else *)
(* is, whatever attempts failed and whatever futures were dropped: the      *)
(* grace period of a direct-mode shutdown() waits for exactly these.        *)
THEOREM GaugeCountsTransactions ==
  Spec => [](tx_active = Cardinality({k \in Task : pc[k] = "started"}))
<1>1. IInv => tx_active = Cardinality({k \in Task : pc[k] = "started"})
  <2>1. At(pc, {"started"}) = {k \in Task : pc[k] = "started"}
    BY DEF At
  <2> QED
    BY <2>1 DEF IInv, GaugeExact
<1> QED
  BY <1>1, IInvInductive, PTL

(* begin(), vacuum() and health_check() together never hold more than       *)
(* max_connections of the pool, the connections on their way back included. *)
THEOREM PoolLimitInvariant == Spec => [](mode = "pooled" => size <= PoolMax)
<1>1. IInv => (mode = "pooled" => size <= PoolMax)
  BY InUseAt DEF IInv, PoolWithinLimit, size
<1> QED
  BY <1>1, IInvInductive, PTL

(* A shutdown() of the pool that returned without its timeout is final: the *)
(* calls that passed the barrier before it was set are refused by the       *)
(* closed pool, so what PoolCloseOk waited for stays away.                  *)
THEOREM CleanCloseInvariant == Spec => []CleanCloseIsFinal
<1>1. IInv => CleanCloseIsFinal
  BY InUseAt DEF IInv, CloseKept, CleanCloseIsFinal
<1> QED
  BY <1>1, IInvInductive, PTL

(* In pooled mode the barrier is tight: once shutdown() has returned and    *)
(* reported a clean close, no transaction starts.  (In direct mode one can: *)
(* NoStartAfterShutdown.)                                                   *)
PooledNoStartAfterShutdown ==
  mode = "pooled" /\ tx_started' > tx_started => shut # "returned"

(* In pooled mode no transaction starts after shutdown() was a clean close.  *)
THEOREM PooledBarrierIsTight == Spec => [][PooledNoStartAfterShutdown]_vars
<1>1. IInv /\ [Next]_vars => [PooledNoStartAfterShutdown]_vars
  <2> SUFFICES ASSUME IInv, Next, mode = "pooled", tx_started' > tx_started
               PROVE  shut # "returned"
    BY DEF PooledNoStartAfterShutdown
  <2>1. tx_active \in Nat /\ Typed /\ tx_started \in Nat
    BY CountTyped DEF IInv, GaugeExact, Typed
  <2>2. ~(tx_started' = tx_started)
    BY <2>1
  <2>3. PICK k \in Task : TaskStep(k)
    BY <2>1, <2>2, NextShape
       DEF FinishReturn, ReapIdle, OpenIdle, local, Shutdown, ShutdownBarrier, HeartbeatAwaited, ClosePool,
           PoolCloseOk, PoolCloseTimeout, DirectDrain, GraceDrained, GraceExpired, counts
  <2>4. pc[k] = "beginning"
    BY <2>2, <2>3 DEF TaskStep, TaskMoves
  <2>5. At(pc, Holding) # {}
    BY <2>4 DEF At, Holding
  <2> QED
    BY <2>5 DEF IInv, CloseKept
<1> QED
  BY <1>1, IInvInductive, PTL DEF Spec

=============================================================================
