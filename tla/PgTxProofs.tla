----------------------------- MODULE PgTxProofs -----------------------------
(***************************************************************************)
(* TLAPS proofs about PgTx, for every finite set of transactions and every *)
(* set of tasks.                                                           *)
(***************************************************************************)
EXTENDS PgTx, FiniteSetTheorems, TLAPS

-----------------------------------------------------------------------------
(* The parts of the inductive invariant.                                    *)

(* The mutex: a task that holds it is its recorded holder.                  *)
LockInv == \A k \in Task : pc[k] \in LockPCs => holder[cur[k]] = k

(* A call in progress borrows a live handle.                                *)
CallInv ==
  \A k \in Task :
    /\ pc[k] = "idle" => cur[k] = NoTx
    /\ pc[k] # "idle" => cur[k] \in Tx /\ life[cur[k]] = "live"

(* Where the PgTransaction is in each phase of a call.                      *)
PhaseInv ==
  \A k \in Task :
    /\ pc[k] \in {"stmt", "stmtDone"} =>
         inner[cur[k]] /\ ~done[cur[k]] /\ op[k] \in Statements
    /\ pc[k] = "claimed" =>
         inner[cur[k]] /\ done[cur[k]] /\ op[k] \in Closers
    /\ pc[k] \in {"closing", "closed", "released"} =>
         ~inner[cur[k]] /\ done[cur[k]] /\ op[k] \in Closers

(* A handle keeps its PgTransaction until the closing call that set `done'  *)
(* takes it out, before that call gives the mutex back.                     *)
HandleInv ==
  \A t \in Tx :
    /\ life[t] = "live" /\ ~done[t] => inner[t]
    /\ life[t] # "live" => ~inner[t]
    /\ life[t] = "unborn" => ~done[t]
    /\ inner[t] /\ done[t] => /\ holder[t] \in Task
                             /\ pc[holder[t]] = "claimed"
                             /\ cur[holder[t]] = t

ClosingPCs == {"claimed", "closing", "closed", "released"}

(* `done' is claimed once: no two closing calls get past it.                *)
CloserUnique ==
  \A k1, k2 \in Task :
    /\ pc[k1] \in ClosingPCs
    /\ pc[k2] \in ClosingPCs
    /\ cur[k1] = cur[k2]
    => k1 = k2

PgStates == {"none", "open", "aborted", "committed", "rolledback"}

(* TypeOK without tx_active's lower bound, which rests on the exact count.  *)
Typed ==
  /\ life \in [Tx -> {"unborn", "live", "dropped"}]
  /\ write \in [Tx -> BOOLEAN]
  /\ done \in [Tx -> BOOLEAN]
  /\ inner \in [Tx -> BOOLEAN]
  /\ holder \in [Tx -> Task \cup {NoTask}]
  /\ waiters \in [Tx -> Seq(Task)]
  /\ pg \in [Tx -> PgStates]
  /\ line \in [Tx -> {"up", "down"} \cup Closers]
  /\ verdict \in [Tx -> {"none", "commitOk", "commitErr",
                         "cancelOk", "cancelErr"}]
  /\ pc \in [Task -> PCs]
  /\ cur \in [Task -> Tx \cup {NoTx}]
  /\ op \in [Task -> Statements \cup Closers]
  /\ ans \in [Task -> {"none", "ok", "err"}]
  /\ tx_started \in Nat
  /\ tx_active \in Int
  /\ tx_committed \in Nat
  /\ tx_rolled_back \in Nat

Inv == Typed /\ LockInv /\ CallInv /\ PhaseInv /\ HandleInv /\ CloserUnique

-----------------------------------------------------------------------------
LEMMA InitInv == Init => Inv
BY PgTxAssumption DEF Init, Inv, Typed, LockInv, CallInv, PhaseInv, HandleInv,
   CloserUnique, PCs, LockPCs, ClosingPCs, Statements, Closers, PgStates

(* Leaving the mutex's queue leaves a sequence of tasks.                    *)
LEMMA QueueTyped ==
  ASSUME waiters \in [Tx -> Seq(Task)],
         NEW k \in Task, cur[k] \in Tx, LeaveQueue(k)
  PROVE  waiters' \in [Tx -> Seq(Task)]
<1>1. PICK i \in 1..Len(waiters[cur[k]]) :
        waiters' = [waiters EXCEPT ![cur[k]] =
                      SubSeq(@, 1, i-1) \o SubSeq(@, i+1, Len(@))]
  BY DEF LeaveQueue
<1>2. /\ SubSeq(waiters[cur[k]], 1, i-1) \in Seq(Task)
      /\ SubSeq(waiters[cur[k]], i+1, Len(waiters[cur[k]])) \in Seq(Task)
  OBVIOUS
<1> QED
  BY <1>1, <1>2

(* What PostgreSQL makes of a statement is again a state and an answer.     *)
LEMMA OutcomeTyped ==
  ASSUME pg \in [Tx -> PgStates], line \in [Tx -> {"up", "down"} \cup Closers],
         NEW t \in Tx, NEW o, NEW r,
         \/ r \in StatementOutcome(o, pg[t])
         \/ r \in CloseOutcome(o, pg[t])
         \/ r \in Answers(t, StatementOutcome(o, pg[t]))
         \/ r \in Answers(t, CloseOutcome(o, pg[t]))
  PROVE  r[1] \in PgStates /\ r[2] \in {"ok", "err"}
BY DEF PgStates, Answers, StatementOutcome, CloseOutcome, CommitOutcome,
       RollbackOutcome, Undecided

(* Every step preserves the types.                                          *)
LEMMA TypedStep == Inv /\ [Next]_vars => Typed'
<1> SUFFICES ASSUME Inv, [Next]_vars PROVE Typed'
  OBVIOUS
<1> USE DEF Inv, Typed, PCs, Statements, Closers, handle, call, metrics
<1>1. ASSUME NEW t \in Tx, NEW w \in BOOLEAN, Begin(t, w) PROVE Typed'
  BY <1>1 DEF Begin, PgStates
<1>2. ASSUME NEW t \in Tx, DropHandle(t) PROVE Typed'
  BY <1>2 DEF DropHandle, CountOnDrop, ReleaseOnDrop
<1>3. ASSUME NEW k \in Task, NEW t \in Tx, NEW o \in Statements \cup Closers,
             Call(k, t, o)
      PROVE  Typed'
  BY <1>3 DEF Call
<1>4. ASSUME NEW k \in Task, Proceed(k) PROVE Typed'
  <2>0. /\ pc[k] # "idle"
        /\ cur[k] \in Tx
        /\ waiters[cur[k]] \in Seq(Task)
    <3>1. pc[k] # "idle"
      BY <1>4 DEF Proceed, Refuse, Enqueue, AcquireFinished, AcquireStatement,
                  Claim, MyTurn, Take, Execute, ExecuteClose, FinishStatement,
                  ReleaseActive, CloseAnswered, FinishClose
    <3> QED
      BY <3>1 DEF CallInv
  <2>1. CASE Refuse(k)
    BY <2>0, <2>1 DEF Refuse, Return
  <2>2. CASE Enqueue(k)
    <3>1. Append(waiters[cur[k]], k) \in Seq(Task)
      BY <2>0
    <3> QED
      BY <2>0, <2>2, <3>1 DEF Enqueue
  <2>3. CASE AcquireFinished(k)
    BY <2>0, <2>3, QueueTyped DEF AcquireFinished, Return
  <2>4. CASE AcquireStatement(k)
    BY <2>0, <2>4, QueueTyped DEF AcquireStatement
  <2>5. CASE Claim(k)
    BY <2>0, <2>5, QueueTyped DEF Claim
  <2>6. CASE Take(k)
    BY <2>0, <2>6 DEF Take
  <2>7. CASE Execute(k)
    BY <2>0, <2>7, OutcomeTyped DEF Execute
  <2>8. CASE ExecuteClose(k)
    BY <2>0, <2>8, OutcomeTyped DEF ExecuteClose
  <2>9. CASE FinishStatement(k)
    BY <2>0, <2>9 DEF FinishStatement, Return
  <2>10. CASE ReleaseActive(k)
    BY <2>0, <2>10 DEF ReleaseActive, CloseAnswered
  <2>11. CASE FinishClose(k)
    BY <2>0, <2>11 DEF FinishClose, Return, Verdict
  <2> QED
    BY <1>4, <2>1, <2>2, <2>3, <2>4, <2>5, <2>6, <2>7, <2>8, <2>9, <2>10, <2>11
       DEF Proceed
<1>5. ASSUME NEW k \in Task, DropFuture(k) PROVE Typed'
  <2>0. /\ cur[k] \in Tx
        /\ waiters[cur[k]] \in Seq(Task)
    BY <1>5 DEF CallInv, DropFuture, DropEntered, DropWaiting, DropStatement,
                DropClosing
  <2>1. CASE DropEntered(k)
    BY <2>1 DEF DropEntered, Return
  <2>2. CASE DropWaiting(k)
    BY <2>0, <2>2, QueueTyped DEF DropWaiting, Return
  <2>3. CASE DropStatement(k)
    <3>1. pg' \in [Tx -> PgStates]
      <4>1. CASE UNCHANGED pg
        BY <4>1
      <4>2. CASE \E r \in Answers(cur[k], StatementOutcome(op[k], pg[cur[k]])) :
                   pg' = [pg EXCEPT ![cur[k]] = r[1]]
        BY <2>0, <4>2, OutcomeTyped
      <4> QED
        BY <2>3, <4>1, <4>2 DEF DropStatement
    <3> QED
      BY <2>0, <2>3, <3>1 DEF DropStatement, Return
  <2>4. CASE DropClosing(k)
    BY <2>0, <2>4 DEF DropClosing, Return, PhaseInv
  <2> QED
    BY <1>5, <2>1, <2>2, <2>3, <2>4 DEF DropFuture
<1>6. ASSUME NEW t \in Tx,
             EndSession(t) \/ LoseConnection(t) \/ ExecuteLate(t) \/ OrphanRollback(t)
      PROVE  Typed'
  <2>1. CASE ExecuteLate(t)
    BY <2>1, OutcomeTyped DEF ExecuteLate
  <2>2. CASE LoseConnection(t)
    <3>1. InFlight(t) \subseteq Closers
      BY DEF InFlight, PhaseInv
    <3> QED
      BY <2>2, <3>1 DEF LoseConnection
  <2>3. CASE EndSession(t)
    BY <2>3 DEF EndSession, PgStates
  <2>4. CASE OrphanRollback(t)
    BY <2>4 DEF OrphanRollback, PgStates
  <2> QED
    BY <1>6, <2>1, <2>2, <2>3, <2>4
<1>7. CASE UNCHANGED vars
  BY <1>7 DEF vars
<1> QED
  BY <1>1, <1>2, <1>3, <1>4, <1>5, <1>6, <1>7 DEF Next

(* The mutex, the phases of the calls and the claim on `done': what makes   *)
(* one task at a time use a connection.                                     *)
Structure == LockInv /\ CallInv /\ PhaseInv /\ HandleInv /\ CloserUnique

LEMMA StructureStep == Inv /\ [Next]_vars => Structure'
<1> SUFFICES ASSUME Inv, [Next]_vars PROVE Structure'
  OBVIOUS
<1> USE PgTxAssumption DEF Inv, Typed, Structure, LockInv, CallInv, PhaseInv,
      HandleInv, CloserUnique, PCs, LockPCs, ClosingPCs, Statements, Closers,
      handle, call, metrics
<1>1. ASSUME NEW t \in Tx, NEW w \in BOOLEAN, Begin(t, w) PROVE Structure'
  BY <1>1 DEF Begin
<1>2. ASSUME NEW t \in Tx, DropHandle(t) PROVE Structure'
  BY <1>2 DEF DropHandle, CountOnDrop, ReleaseOnDrop
<1>3. ASSUME NEW k \in Task, NEW t \in Tx, NEW o \in Statements \cup Closers,
             Call(k, t, o)
      PROVE  Structure'
  BY <1>3 DEF Call
<1>4. ASSUME NEW k \in Task, Proceed(k) PROVE Structure'
  <2>1. CASE Refuse(k)
    BY <2>1 DEF Refuse, Return
  <2>2. CASE Enqueue(k)
    BY <2>2 DEF Enqueue
  <2>3. CASE AcquireFinished(k)
    BY <2>3 DEF AcquireFinished, MyTurn, Return
  <2>4. CASE AcquireStatement(k)
    BY <2>4 DEF AcquireStatement, MyTurn, FoundFinished
  <2>5. CASE Claim(k)
    BY <2>5 DEF Claim, MyTurn, FoundFinished
  <2>6. CASE Take(k)
    BY <2>6 DEF Take
  <2>7. CASE Execute(k)
    BY <2>7 DEF Execute
  <2>8. CASE ExecuteClose(k)
    BY <2>8 DEF ExecuteClose
  <2>9. CASE FinishStatement(k)
    BY <2>9 DEF FinishStatement, Return
  <2>10. CASE ReleaseActive(k)
    BY <2>10 DEF ReleaseActive, CloseAnswered
  <2>11. CASE FinishClose(k)
    BY <2>11 DEF FinishClose, Return
  <2> QED
    BY <1>4, <2>1, <2>2, <2>3, <2>4, <2>5, <2>6, <2>7, <2>8, <2>9, <2>10, <2>11
       DEF Proceed
<1>5. ASSUME NEW k \in Task, DropFuture(k) PROVE Structure'
  <2>1. CASE DropEntered(k)
    BY <2>1 DEF DropEntered, Return
  <2>2. CASE DropWaiting(k)
    BY <2>2 DEF DropWaiting, Return
  <2>3. CASE DropStatement(k)
    BY <2>3 DEF DropStatement, Return
  <2>4. CASE DropClosing(k)
    BY <2>4 DEF DropClosing, Return
  <2> QED
    BY <1>5, <2>1, <2>2, <2>3, <2>4 DEF DropFuture
<1>6. ASSUME NEW t \in Tx,
             EndSession(t) \/ LoseConnection(t) \/ ExecuteLate(t) \/ OrphanRollback(t)
      PROVE   Structure'
  BY <1>6 DEF EndSession, LoseConnection, ExecuteLate, OrphanRollback
<1>7. CASE UNCHANGED vars
  BY <1>7 DEF vars
<1> QED
  BY <1>1, <1>2, <1>3, <1>4, <1>5, <1>6, <1>7 DEF Next

-----------------------------------------------------------------------------
(* A subset of a finite set: its cardinality with one element more or less. *)
LEMMA CountStep ==
  ASSUME NEW A, NEW B, IsFiniteSet(A), NEW x
  PROVE  /\ Cardinality(A) \in Nat
         /\ x \notin A /\ B = A \cup {x} => Cardinality(B) = Cardinality(A) + 1
         /\ x \in A /\ B = A \ {x} => Cardinality(B) = Cardinality(A) - 1
BY FS_CardinalityType, FS_AddElement, FS_RemoveElement

LEMMA HoldingFinite == IsFiniteSet(Holding)
BY PgTxAssumption, FS_Subset DEF Holding

(* Every step that takes or gives up a connection counts it in tx_active.   *)
LEMMA ActiveStep ==
  Inv /\ ActiveCountExact /\ [Next]_vars => ActiveCountExact'
<1> SUFFICES ASSUME Inv, ActiveCountExact, [Next]_vars PROVE ActiveCountExact'
  OBVIOUS
<1> USE DEF Inv, Typed, PCs, Statements, Closers, handle, call, metrics
<1>a. ASSUME Holding' = Holding, tx_active' = tx_active PROVE ActiveCountExact'
  BY <1>a DEF ActiveCountExact
<1>b. ASSUME NEW t \in Tx, t \in Holding, Holding' = Holding \ {t},
             tx_active' = tx_active - 1
      PROVE  ActiveCountExact'
  BY <1>b, HoldingFinite, CountStep DEF ActiveCountExact
<1>1. ASSUME NEW t \in Tx, NEW w \in BOOLEAN, Begin(t, w)
      PROVE  ActiveCountExact'
  <2>1. t \notin Holding
    BY <1>1 DEF Begin, Holding, Closing, HandleInv, CallInv
  <2>2. Holding' = Holding \cup {t}
    BY <1>1 DEF Begin, Holding, Closing
  <2>3. tx_active' = tx_active + 1
    BY <1>1 DEF Begin
  <2> QED
    BY <2>1, <2>2, <2>3, HoldingFinite, CountStep DEF ActiveCountExact
<1>2. ASSUME NEW t \in Tx, DropHandle(t) PROVE ActiveCountExact'
  <2>1. CASE inner[t]
    <3>1. t \in Holding /\ Holding' = Holding \ {t}
      BY <1>2, <2>1 DEF DropHandle, CountOnDrop, ReleaseOnDrop, Holding, Closing
    <3> QED
      BY <1>2, <2>1, <3>1, <1>b DEF DropHandle, CountOnDrop, ReleaseOnDrop
  <2>2. CASE ~inner[t]
    <3>1. Holding' = Holding
      BY <1>2, <2>2 DEF DropHandle, CountOnDrop, ReleaseOnDrop, Holding, Closing
    <3> QED
      BY <1>2, <2>2, <3>1, <1>a DEF DropHandle, CountOnDrop, ReleaseOnDrop
  <2> QED
    BY <2>1, <2>2
<1>3. ASSUME NEW k \in Task, NEW t \in Tx, NEW o \in Statements \cup Closers,
             Call(k, t, o)
      PROVE  ActiveCountExact'
  <2>1. Holding' = Holding
    BY <1>3 DEF Call, Holding, Closing, CallInv
  <2> QED
    BY <1>3, <2>1, <1>a DEF Call
<1>4. ASSUME NEW k \in Task, Proceed(k) PROVE ActiveCountExact'
  <2>1. CASE Refuse(k)
    <3>1. Holding' = Holding
      BY <2>1 DEF Refuse, Return, Holding, Closing
    <3> QED
      BY <2>1, <3>1, <1>a DEF Refuse
  <2>2. CASE Enqueue(k)
    <3>1. Holding' = Holding
      BY <2>2 DEF Enqueue, Holding, Closing
    <3> QED
      BY <2>2, <3>1, <1>a DEF Enqueue
  <2>3. CASE AcquireFinished(k)
    <3>1. Holding' = Holding
      BY <2>3 DEF AcquireFinished, MyTurn, Return, Holding, Closing
    <3> QED
      BY <2>3, <3>1, <1>a DEF AcquireFinished
  <2>4. CASE AcquireStatement(k)
    <3>1. Holding' = Holding
      BY <2>4 DEF AcquireStatement, MyTurn, Holding, Closing
    <3> QED
      BY <2>4, <3>1, <1>a DEF AcquireStatement
  <2>5. CASE Claim(k)
    <3>1. Holding' = Holding
      BY <2>5 DEF Claim, MyTurn, Holding, Closing
    <3> QED
      BY <2>5, <3>1, <1>a DEF Claim
  <2>6. CASE Take(k)
    <3>1. Holding' = Holding
      BY <2>6 DEF Take, Holding, Closing, CallInv, PhaseInv
    <3> QED
      BY <2>6, <3>1, <1>a DEF Take
  <2>7. CASE Execute(k)
    <3>1. Holding' = Holding
      BY <2>7 DEF Execute, Holding, Closing
    <3> QED
      BY <2>7, <3>1, <1>a DEF Execute
  <2>8. CASE ExecuteClose(k)
    <3>1. Holding' = Holding
      BY <2>8 DEF ExecuteClose, Holding, Closing, CallInv, PhaseInv
    <3> QED
      BY <2>8, <3>1, <1>a DEF ExecuteClose
  <2>9. CASE FinishStatement(k)
    <3>1. Holding' = Holding
      BY <2>9 DEF FinishStatement, Return, Holding, Closing
    <3> QED
      BY <2>9, <3>1, <1>a DEF FinishStatement
  <2>10. CASE ReleaseActive(k)
    <3>1. cur[k] \in Holding /\ Holding' = Holding \ {cur[k]}
      BY <2>10 DEF ReleaseActive, CloseAnswered, Holding, Closing, CallInv, PhaseInv,
                   CloserUnique, ClosingPCs
    <3> QED
      BY <2>10, <3>1, <1>b DEF ReleaseActive, CloseAnswered, Holding
  <2>11. CASE FinishClose(k)
    <3>1. Holding' = Holding
      BY <2>11 DEF FinishClose, Return, Holding, Closing
    <3> QED
      BY <2>11, <3>1, <1>a DEF FinishClose
  <2> QED
    BY <1>4, <2>1, <2>2, <2>3, <2>4, <2>5, <2>6, <2>7, <2>8, <2>9, <2>10, <2>11
       DEF Proceed
<1>5. ASSUME NEW k \in Task, DropFuture(k) PROVE ActiveCountExact'
  <2>1. CASE DropEntered(k)
    <3>1. Holding' = Holding
      BY <2>1 DEF DropEntered, Return, Holding, Closing
    <3> QED
      BY <2>1, <3>1, <1>a DEF DropEntered
  <2>2. CASE DropWaiting(k)
    <3>1. Holding' = Holding
      BY <2>2 DEF DropWaiting, Return, Holding, Closing
    <3> QED
      BY <2>2, <3>1, <1>a DEF DropWaiting
  <2>3. CASE DropStatement(k)
    <3>1. Holding' = Holding
      BY <2>3 DEF DropStatement, Return, Holding, Closing
    <3> QED
      BY <2>3, <3>1, <1>a DEF DropStatement
  <2>4. CASE DropClosing(k)
    <3>1. cur[k] \in Holding /\ Holding' = Holding \ {cur[k]}
      BY <2>4, PgTxAssumption DEF DropClosing, Return, Holding, Closing,
         CallInv, PhaseInv, CloserUnique, ClosingPCs
    <3> QED
      BY <2>4, <3>1, <1>b DEF DropClosing, Holding
  <2> QED
    BY <1>5, <2>1, <2>2, <2>3, <2>4 DEF DropFuture
<1>6. ASSUME NEW t \in Tx,
             EndSession(t) \/ LoseConnection(t) \/ ExecuteLate(t) \/ OrphanRollback(t)
      PROVE   ActiveCountExact'
  <2>1. Holding' = Holding /\ tx_active' = tx_active
    BY <1>6 DEF EndSession, LoseConnection, ExecuteLate, OrphanRollback, Holding, Closing
  <2> QED
    BY <2>1, <1>a
<1>7. CASE UNCHANGED vars
  <2>1. Holding' = Holding /\ tx_active' = tx_active
    BY <1>7 DEF vars, Holding, Closing
  <2> QED
    BY <2>1, <1>a
<1> QED
  BY <1>1, <1>2, <1>3, <1>4, <1>5, <1>6, <1>7 DEF Next

-----------------------------------------------------------------------------
(* The ledger: never overcounted, and exact when no future is dropped.      *)
LedgerInv ==
  /\ NeverOvercounted
  /\ ~CancelFutures =>
       tx_committed + tx_rolled_back + Cardinality(Unsettled) = tx_started

LEMMA UnsettledFinite == IsFiniteSet(Unsettled)
BY PgTxAssumption, FS_Subset DEF Unsettled

LEMMA LedgerStep == Inv /\ LedgerInv /\ [Next]_vars => LedgerInv'
<1> SUFFICES ASSUME Inv, LedgerInv, [Next]_vars PROVE LedgerInv'
  OBVIOUS
<1> USE DEF Inv, Typed, PCs, Statements, Closers, handle, call, metrics
<1> DEFINE counted == tx_committed + tx_rolled_back
<1>a. ASSUME Unsettled' = Unsettled, counted' = counted,
             tx_started' = tx_started
      PROVE  LedgerInv'
  BY <1>a DEF LedgerInv, NeverOvercounted
<1>b. ASSUME NEW t, t \in Unsettled, Unsettled' = Unsettled \ {t},
             \/ counted' = counted + 1
             \/ CancelFutures /\ counted' = counted,
             tx_started' = tx_started
      PROVE  LedgerInv'
  <2>1. /\ Cardinality(Unsettled) \in Nat
        /\ Cardinality(Unsettled') = Cardinality(Unsettled) - 1
    BY <1>b, UnsettledFinite, CountStep
  <2> QED
    BY <1>b, <2>1 DEF LedgerInv, NeverOvercounted
<1>1. ASSUME NEW t \in Tx, NEW w \in BOOLEAN, Begin(t, w) PROVE LedgerInv'
  <2>1. t \notin Unsettled /\ Unsettled' = Unsettled \cup {t}
    BY <1>1 DEF Begin, Unsettled, Settling, HandleInv
  <2>2. /\ Cardinality(Unsettled) \in Nat
        /\ Cardinality(Unsettled') = Cardinality(Unsettled) + 1
    BY <2>1, UnsettledFinite, CountStep
  <2>3. counted' = counted /\ tx_started' = tx_started + 1
    BY <1>1 DEF Begin
  <2>4. NeverOvercounted'
    BY <2>2, <2>3 DEF LedgerInv, NeverOvercounted
  <2>5. ~CancelFutures =>
          (counted + Cardinality(Unsettled) = tx_started)'
    BY <2>2, <2>3 DEF LedgerInv
  <2> QED
    BY <2>4, <2>5 DEF LedgerInv
<1>2. ASSUME NEW t \in Tx, DropHandle(t) PROVE LedgerInv'
  <2>1. CASE ~done[t]
    <3>1. t \in Unsettled /\ Unsettled' = Unsettled \ {t}
      BY <1>2, <2>1 DEF DropHandle, CountOnDrop, ReleaseOnDrop, Unsettled, Settling
    <3>2. counted' = counted + 1 /\ tx_started' = tx_started
      BY <1>2, <2>1 DEF DropHandle, CountOnDrop, ReleaseOnDrop
    <3> QED
      BY <3>1, <3>2, <1>b
  <2>2. CASE done[t]
    <3>1. Unsettled' = Unsettled
      BY <1>2, <2>2 DEF DropHandle, CountOnDrop, ReleaseOnDrop, Unsettled, Settling
    <3> QED
      BY <1>2, <2>2, <3>1, <1>a DEF DropHandle, CountOnDrop, ReleaseOnDrop
  <2> QED
    BY <2>1, <2>2
<1>3. ASSUME NEW k \in Task, NEW t \in Tx, NEW o \in Statements \cup Closers,
             Call(k, t, o)
      PROVE  LedgerInv'
  <2>1. Unsettled' = Unsettled
    BY <1>3 DEF Call, Unsettled, Settling, CallInv
  <2> QED
    BY <1>3, <2>1, <1>a DEF Call
<1>4. ASSUME NEW k \in Task, Proceed(k) PROVE LedgerInv'
  <2>1. CASE Refuse(k)
    <3>1. Unsettled' = Unsettled
      BY <2>1 DEF Refuse, Return, Unsettled, Settling
    <3> QED
      BY <2>1, <3>1, <1>a DEF Refuse
  <2>2. CASE Enqueue(k)
    <3>1. Unsettled' = Unsettled
      BY <2>2 DEF Enqueue, Unsettled, Settling
    <3> QED
      BY <2>2, <3>1, <1>a DEF Enqueue
  <2>3. CASE AcquireFinished(k)
    <3>1. Unsettled' = Unsettled
      BY <2>3 DEF AcquireFinished, MyTurn, Return, Unsettled, Settling
    <3> QED
      BY <2>3, <3>1, <1>a DEF AcquireFinished
  <2>4. CASE AcquireStatement(k)
    <3>1. Unsettled' = Unsettled
      BY <2>4 DEF AcquireStatement, MyTurn, Unsettled, Settling
    <3> QED
      BY <2>4, <3>1, <1>a DEF AcquireStatement
  <2>5. CASE Claim(k)
    <3>1. Unsettled' = Unsettled
      BY <2>5 DEF Claim, MyTurn, FoundFinished, Unsettled, Settling, CallInv
    <3> QED
      BY <2>5, <3>1, <1>a DEF Claim
  <2>6. CASE Take(k)
    <3>1. Unsettled' = Unsettled
      BY <2>6 DEF Take, Unsettled, Settling
    <3> QED
      BY <2>6, <3>1, <1>a DEF Take
  <2>7. CASE Execute(k)
    <3>1. Unsettled' = Unsettled
      BY <2>7 DEF Execute, Unsettled, Settling
    <3> QED
      BY <2>7, <3>1, <1>a DEF Execute
  <2>8. CASE ExecuteClose(k)
    <3>1. Unsettled' = Unsettled
      BY <2>8 DEF ExecuteClose, Unsettled, Settling
    <3> QED
      BY <2>8, <3>1, <1>a DEF ExecuteClose
  <2>9. CASE FinishStatement(k)
    <3>1. Unsettled' = Unsettled
      BY <2>9 DEF FinishStatement, Return, Unsettled, Settling
    <3> QED
      BY <2>9, <3>1, <1>a DEF FinishStatement
  <2>10. CASE ReleaseActive(k)
    <3>1. Unsettled' = Unsettled
      BY <2>10 DEF ReleaseActive, CloseAnswered, Unsettled, Settling
    <3> QED
      BY <2>10, <3>1, <1>a DEF ReleaseActive, CloseAnswered
  <2>11. CASE FinishClose(k)
    <3>1. cur[k] \in Unsettled /\ Unsettled' = Unsettled \ {cur[k]}
      BY <2>11, PgTxAssumption DEF FinishClose, Return, Unsettled, Settling,
         CallInv, PhaseInv, CloserUnique, ClosingPCs
    <3>2. counted' = counted + 1 /\ tx_started' = tx_started
      BY <2>11 DEF FinishClose
    <3> QED
      BY <3>1, <3>2, <1>b
  <2> QED
    BY <1>4, <2>1, <2>2, <2>3, <2>4, <2>5, <2>6, <2>7, <2>8, <2>9, <2>10, <2>11
       DEF Proceed
<1>5. ASSUME NEW k \in Task, DropFuture(k) PROVE LedgerInv'
  <2>1. CASE DropEntered(k)
    <3>1. Unsettled' = Unsettled
      BY <2>1 DEF DropEntered, Return, Unsettled, Settling
    <3> QED
      BY <2>1, <3>1, <1>a DEF DropEntered
  <2>2. CASE DropWaiting(k)
    <3>1. Unsettled' = Unsettled
      BY <2>2 DEF DropWaiting, Return, Unsettled, Settling
    <3> QED
      BY <2>2, <3>1, <1>a DEF DropWaiting
  <2>3. CASE DropStatement(k)
    <3>1. Unsettled' = Unsettled
      BY <2>3 DEF DropStatement, Return, Unsettled, Settling
    <3> QED
      BY <2>3, <3>1, <1>a DEF DropStatement
  <2>4. CASE DropClosing(k)
    <3>1. cur[k] \in Unsettled /\ Unsettled' = Unsettled \ {cur[k]}
      BY <2>4, PgTxAssumption DEF DropClosing, Return, Unsettled, Settling,
         CallInv, PhaseInv, CloserUnique, ClosingPCs
    <3>2. CancelFutures /\ counted' = counted /\ tx_started' = tx_started
      BY <1>5, <2>4 DEF DropFuture, DropClosing
    <3> QED
      BY <3>1, <3>2, <1>b
  <2> QED
    BY <1>5, <2>1, <2>2, <2>3, <2>4 DEF DropFuture
<1>6. ASSUME NEW t \in Tx,
             EndSession(t) \/ LoseConnection(t) \/ ExecuteLate(t) \/ OrphanRollback(t)
      PROVE   LedgerInv'
  <2>1. Unsettled' = Unsettled
    BY <1>6 DEF EndSession, LoseConnection, ExecuteLate, OrphanRollback, Unsettled, Settling
  <2> QED
    BY <1>6, <2>1, <1>a DEF EndSession, LoseConnection, ExecuteLate, OrphanRollback
<1>7. CASE UNCHANGED vars
  <2>1. Unsettled' = Unsettled
    BY <1>7 DEF vars, Unsettled, Settling
  <2> QED
    BY <1>7, <2>1, <1>a DEF vars
<1> QED
  BY <1>1, <1>2, <1>3, <1>4, <1>5, <1>6, <1>7 DEF Next

-----------------------------------------------------------------------------
(* How the server-side outcome, the connection, the phase of the closing    *)
(* call and its verdict go together: a client that has Ok, or an error on a *)
(* connection that is up, faces a decided transaction, and one committed    *)
(* without a positive answer was committed by a COMMIT on its way.          *)
OutcomeInv ==
  /\ \A t \in Tx :
       /\ life[t] = "unborn" => pg[t] = "none" /\ verdict[t] = "none" /\ line[t] = "up"
       /\ verdict[t] # "none" =>
            /\ done[t]
            /\ verdict[t] \in {"commitOk", "cancelOk"} \/ line[t] = "up" =>
                 pg[t] \notin Undecided
            /\ \A k \in Task : cur[k] = t => pc[k] \notin ClosingPCs
       /\ pg[t] = "committed" \/ line[t] = "commit" =>
            done[t] /\ verdict[t] \notin {"cancelOk", "cancelErr"}
       /\ pg[t] = "committed" => line[t] \in {"up", "commit"}
       /\ pg[t] = "committed" /\ verdict[t] = "commitErr" => line[t] = "commit"
  /\ \A k \in Task :
       /\ pc[k] \in {"closed", "released"} /\ (ans[k] = "ok" \/ line[cur[k]] = "up") =>
            pg[cur[k]] \notin Undecided
       /\ pc[k] \in ClosingPCs /\ (pg[cur[k]] = "committed" \/ line[cur[k]] = "commit") =>
            pc[k] # "claimed" /\ op[k] = "commit"
       /\ pc[k] \in ClosingPCs /\ pg[cur[k]] = "committed" =>
            \/ pc[k] # "closing" /\ ans[k] = "ok"
            \/ line[cur[k]] = "commit"

LEMMA OutcomeStep == Inv /\ OutcomeInv /\ [Next]_vars => OutcomeInv'
<1> SUFFICES ASSUME Inv, OutcomeInv, [Next]_vars PROVE OutcomeInv'
  OBVIOUS
<1> USE PgTxAssumption DEF Inv, Typed, OutcomeInv, CallInv, PhaseInv,
      CloserUnique, HandleInv, PCs, ClosingPCs, Undecided, Statements, Closers,
      handle, call, metrics
<1>1. ASSUME NEW t \in Tx, NEW w \in BOOLEAN, Begin(t, w) PROVE OutcomeInv'
  BY <1>1 DEF Begin
<1>2. ASSUME NEW t \in Tx, DropHandle(t) PROVE OutcomeInv'
  BY <1>2 DEF DropHandle, CountOnDrop, ReleaseOnDrop
<1>3. ASSUME NEW k \in Task, NEW t \in Tx, NEW o \in Statements \cup Closers,
             Call(k, t, o)
      PROVE  OutcomeInv'
  BY <1>3 DEF Call
<1>4. ASSUME NEW k \in Task, Proceed(k) PROVE OutcomeInv'
  <2>1. CASE Refuse(k)
    BY <2>1 DEF Refuse, Return
  <2>2. CASE Enqueue(k)
    BY <2>2 DEF Enqueue
  <2>3. CASE AcquireFinished(k)
    BY <2>3 DEF AcquireFinished, MyTurn, Return
  <2>4. CASE AcquireStatement(k)
    BY <2>4 DEF AcquireStatement, MyTurn
  <2>5. CASE Claim(k)
    BY <2>5 DEF Claim, MyTurn, FoundFinished
  <2>6. CASE Take(k)
    BY <2>6 DEF Take
  <2>7. CASE Execute(k)
    BY <2>7 DEF Execute, Answers, StatementOutcome
  <2>8. CASE ExecuteClose(k)
    BY <2>8 DEF ExecuteClose, Answers, CloseOutcome, CommitOutcome, RollbackOutcome
  <2>9. CASE FinishStatement(k)
    BY <2>9 DEF FinishStatement, Return
  <2>10. CASE ReleaseActive(k)
    BY <2>10 DEF ReleaseActive, CloseAnswered
  <2>11. CASE FinishClose(k)
    BY <2>11 DEF FinishClose, Return, Verdict
  <2> QED
    BY <1>4, <2>1, <2>2, <2>3, <2>4, <2>5, <2>6, <2>7, <2>8, <2>9, <2>10, <2>11
       DEF Proceed
<1>5. ASSUME NEW k \in Task, DropFuture(k) PROVE OutcomeInv'
  <2>1. CASE DropEntered(k)
    BY <2>1 DEF DropEntered, Return
  <2>2. CASE DropWaiting(k)
    BY <2>2 DEF DropWaiting, Return
  <2>3. CASE DropStatement(k)
    BY <2>3 DEF DropStatement, Return, Answers, StatementOutcome
  <2>4. CASE DropClosing(k)
    BY <2>4 DEF DropClosing, Return
  <2> QED
    BY <1>5, <2>1, <2>2, <2>3, <2>4 DEF DropFuture
<1>6. ASSUME NEW t \in Tx,
             EndSession(t) \/ LoseConnection(t) \/ ExecuteLate(t) \/ OrphanRollback(t)
      PROVE   OutcomeInv'
  <2>1. CASE EndSession(t)
    BY <2>1 DEF EndSession
  <2>2. CASE LoseConnection(t)
    BY <2>2 DEF LoseConnection, InFlight
  <2>3. CASE ExecuteLate(t)
    BY <2>3 DEF ExecuteLate, CloseOutcome, CommitOutcome, RollbackOutcome
  <2>4. CASE OrphanRollback(t)
    BY <2>4 DEF OrphanRollback
  <2> QED
    BY <1>6, <2>1, <2>2, <2>3, <2>4
<1>7. CASE UNCHANGED vars
  BY <1>7 DEF vars
<1> QED
  BY <1>1, <1>2, <1>3, <1>4, <1>5, <1>6, <1>7 DEF Next

-----------------------------------------------------------------------------
(* The inductive invariant and the theorems.                                *)
IInv == Inv /\ ActiveCountExact /\ LedgerInv /\ OutcomeInv

LEMMA InitIInv == Init => IInv
<1> SUFFICES ASSUME Init PROVE IInv
  OBVIOUS
<1>1. Holding = {} /\ Unsettled = {}
  BY DEF Init, Holding, Closing, Unsettled
<1>2. ActiveCountExact /\ LedgerInv
  BY <1>1, FS_EmptySet DEF Init, ActiveCountExact, LedgerInv, NeverOvercounted
<1>3. OutcomeInv
  BY DEF Init, OutcomeInv, ClosingPCs
<1> QED
  BY <1>2, <1>3, InitInv DEF IInv

LEMMA IInvStep == IInv /\ [Next]_vars => IInv'
BY TypedStep, StructureStep, ActiveStep, LedgerStep, OutcomeStep
   DEF IInv, Inv, Structure

LEMMA IInvAlways == Spec => []IInv
BY InitIInv, IInvStep, PTL DEF Spec

(* Type correctness; in particular tx_active never drops below zero.        *)
THEOREM TypeCorrect == Spec => []TypeOK
<1>1. IInv => TypeOK
  BY HoldingFinite, FS_CardinalityType
     DEF IInv, Inv, Typed, PgStates, TypeOK, ActiveCountExact
<1> QED
  BY <1>1, IInvAlways, PTL

(* No two calls use the connection of a transaction at the same time.       *)
THEOREM ExclusiveUse == Spec => []ConnectionExclusive
<1>1. IInv => ConnectionExclusive
  BY DEF IInv, Inv, LockInv, PhaseInv, CloserUnique, ConnectionExclusive,
         UsesConnection, LockPCs, ClosingPCs
<1> QED
  BY <1>1, IInvAlways, PTL

(* tx_active is at all times the number of connections transactions hold.   *)
THEOREM ActiveExact == Spec => []ActiveCountExact
BY IInvAlways, PTL DEF IInv

(* No transaction is counted twice, however its calls and futures end.      *)
THEOREM CountedAtMostOnce == Spec => []NeverOvercounted
BY IInvAlways, PTL DEF IInv, LedgerInv

(* The metrics identity holds when no caller drops a commit() or cancel()   *)
(* future: that is the one way it can fail.                                 *)
THEOREM IdentityWithoutDrops ==
  ASSUME ~CancelFutures PROVE Spec => []MetricsIdentity
<1>1. IInv => MetricsIdentity
  <2> SUFFICES ASSUME IInv, \A t \in Tx : life[t] # "live"
               PROVE  tx_started = tx_committed + tx_rolled_back
    BY DEF MetricsIdentity
  <2>1. Unsettled = {}
    BY DEF Unsettled
  <2>2. Cardinality(Unsettled) = 0
    BY <2>1, FS_EmptySet
  <2> QED
    BY <2>2 DEF IInv, Inv, Typed, LedgerInv
<1> QED
  BY <1>1, IInvAlways, PTL

(* Nothing but commit() commits, and commit() returns an error for what the *)
(* server committed only if the connection was lost with COMMIT on its way. *)
THEOREM OnlyCommitCommits == Spec => []CommittedOnlyByCommit
<1>1. IInv => CommittedOnlyByCommit
  BY DEF IInv, OutcomeInv, CommittedOnlyByCommit
<1> QED
  BY <1>1, IInvAlways, PTL

(* A commit() or cancel() that returned Ok, or an error on a connection     *)
(* that is up, leaves nothing undecided behind.                             *)
THEOREM FinalOutcome == Spec => OutcomeIsFinal
<1>1. IInv /\ [Next]_vars =>
        [\A t \in Tx :
           \/ verdict[t] \in {"commitOk", "cancelOk"}
           \/ verdict[t] # "none" /\ line[t] = "up"
           => pg'[t] = pg[t]]_vars
  <2> SUFFICES ASSUME IInv, [Next]_vars, NEW t \in Tx,
                      \/ verdict[t] \in {"commitOk", "cancelOk"}
                      \/ verdict[t] # "none" /\ line[t] = "up"
               PROVE  pg'[t] = pg[t]
    OBVIOUS
  <2> USE DEF IInv, Inv, Typed, OutcomeInv, CallInv, PhaseInv, ClosingPCs,
              Undecided, handle, call, metrics
  <2>1. CASE UNCHANGED vars
    BY <2>1 DEF vars
  <2>2. ASSUME NEW u \in Tx, NEW w \in BOOLEAN, Begin(u, w) PROVE pg'[t] = pg[t]
    BY <2>2 DEF Begin
  <2>3. ASSUME NEW u \in Tx, DropHandle(u) PROVE pg'[t] = pg[t]
    BY <2>3 DEF DropHandle
  <2>4. ASSUME NEW k \in Task, NEW u \in Tx,
               NEW o \in Statements \cup Closers, Call(k, u, o)
        PROVE  pg'[t] = pg[t]
    BY <2>4 DEF Call
  <2>5. ASSUME NEW k \in Task, Proceed(k) PROVE pg'[t] = pg[t]
    <3>1. CASE Execute(k)
      BY <3>1 DEF Execute
    <3>2. CASE ExecuteClose(k)
      BY <3>2 DEF ExecuteClose
    <3>3. CASE ~Execute(k) /\ ~ExecuteClose(k)
      BY <2>5, <3>3 DEF Proceed, Refuse, Enqueue, AcquireFinished,
         AcquireStatement, Claim, Take, FinishStatement, ReleaseActive,
         FinishClose
    <3> QED
      BY <3>1, <3>2, <3>3
  <2>6. ASSUME NEW k \in Task, DropFuture(k) PROVE pg'[t] = pg[t]
    <3>1. CASE DropEntered(k) \/ DropWaiting(k)
      BY <3>1 DEF DropEntered, DropWaiting
    <3>2. CASE DropStatement(k)
      BY <3>2 DEF DropStatement
    <3>3. CASE DropClosing(k)
      BY <3>3 DEF DropClosing
    <3> QED
      BY <2>6, <3>1, <3>2, <3>3 DEF DropFuture
  <2>7. ASSUME NEW u \in Tx,
               EndSession(u) \/ LoseConnection(u) \/ ExecuteLate(u) \/ OrphanRollback(u)
        PROVE  pg'[t] = pg[t]
    BY <2>7 DEF EndSession, LoseConnection, ExecuteLate, OrphanRollback
  <2> QED
    BY <2>1, <2>2, <2>3, <2>4, <2>5, <2>6, <2>7 DEF Next
<1> QED
  BY <1>1, IInvAlways, PTL DEF Spec, OutcomeIsFinal

=============================================================================
