-------------------------- MODULE KvIsolationProofs --------------------------
(***************************************************************************)
(* TLAPS proofs about KvIsolation, for every set of transactions, keys and *)
(* values, every initial table and any number of calls.                    *)
(***************************************************************************)
EXTENDS KvIsolation, TLAPS

-----------------------------------------------------------------------------
(* Statements, as the calls make them.                                      *)

(* No key twice, and an insert's condition is that there is no row.         *)
WellFormed(rows) ==
  /\ \A i, j \in DOMAIN rows : rows[i].key = rows[j].key => i = j
  /\ \A i \in DOMAIN rows : rows[i].kind = "put" => rows[i].chk = NoVal

(* The calls that write: the statement they send, whatever the call.        *)
Sends(t) == \E rows \in Seq(Rows) : WellFormed(rows) /\ Statement(t, rows)

LEMMA RowTyped ==
  ASSUME NEW kind \in {"set", "put", "putc", "del", "delc"}, NEW k \in Key,
         NEW v \in Content, NEW chk \in Content
  PROVE  Row(kind, k, v, chk) \in Rows
BY DEF Row, Rows

LEMMA OneRow ==
  ASSUME NEW row \in Rows, row.kind = "put" => row.chk = NoVal
  PROVE  /\ <<row>> \in Seq(Rows)
         /\ WellFormed(<<row>>)
BY DEF WellFormed

LEMMA NoRow == <<>> \in Seq(Rows) /\ WellFormed(<<>>)
BY DEF WellFormed

LEMMA TwoParts ==
  ASSUME NEW p \in Seq(Rows), NEW q \in Seq(Rows), WellFormed(p), WellFormed(q),
         \A i \in DOMAIN p, j \in DOMAIN q : p[i].key # q[j].key
  PROVE  /\ p \o q \in Seq(Rows)
         /\ WellFormed(p \o q)
<1>1. /\ p \o q \in Seq(Rows)
      /\ Len(p \o q) = Len(p) + Len(q)
      /\ Len(p) \in Nat /\ Len(q) \in Nat
      /\ DOMAIN (p \o q) = 1..(Len(p) + Len(q))
      /\ DOMAIN p = 1..Len(p) /\ DOMAIN q = 1..Len(q)
  OBVIOUS
<1>2. \A i \in DOMAIN (p \o q) :
        \/ i \in DOMAIN p /\ (p \o q)[i] = p[i]
        \/ i - Len(p) \in DOMAIN q /\ (p \o q)[i] = q[i - Len(p)]
  BY <1>1
<1> QED
  BY <1>1, <1>2 DEF WellFormed

LEMMA WhereSends ==
  ASSUME NEW t \in Tx, NEW row \in Rows, row.kind # "put", NEW b, Where(t, row, b)
  PROVE  Sends(t)
BY OneRow, NoRow DEF Where, If, Sends

(* Every call either reads or sends a well-formed statement.                *)
LEMMA CallShape ==
  ASSUME NEW t \in Tx, Calls(t)
  PROVE  (\E k \in Key : get(t, k)) \/ Sends(t)
<1> USE KvIsolationAssumption
<1>0. Val \subseteq Content /\ NoVal \in Content
  BY DEF Content
<1>1. CASE \E k \in Key : get(t, k)
  BY <1>1
<1>2. ASSUME NEW k \in Key, del(t, k) PROVE Sends(t)
  <2>1. Row("del", k, NoVal, NoVal) \in Rows
    BY <1>0, RowTyped
  <2> QED
    BY <1>2, <2>1, WhereSends DEF del, Row
<1>3. ASSUME NEW k \in Key, NEW v \in Val, set(t, k, v) \/ put(t, k, v)
      PROVE  Sends(t)
  <2>1. Row("set", k, v, NoVal) \in Rows /\ Row("put", k, v, NoVal) \in Rows
    BY <1>0, RowTyped
  <2>2. /\ Row("set", k, v, NoVal).chk = NoVal
        /\ Row("put", k, v, NoVal).chk = NoVal
    BY DEF Row
  <2> QED
    BY <1>3, <2>1, <2>2, OneRow DEF set, put, Sends
<1>4. ASSUME NEW k \in Key, NEW v \in Val, NEW chk \in Val, putc(t, k, v, chk)
      PROVE  Sends(t)
  <2>1. Row("putc", k, v, chk) \in Rows
    BY <1>0, RowTyped
  <2> QED
    BY <1>4, <2>1, WhereSends DEF putc, Row
<1>5. ASSUME NEW k \in Key, NEW chk \in Val, delc(t, k, chk) PROVE Sends(t)
  <2>1. Row("delc", k, NoVal, chk) \in Rows
    BY <1>0, RowTyped
  <2> QED
    BY <1>5, <2>1, WhereSends DEF delc, Row
<1>6. ASSUME NEW lo \in Key, NEW hi \in Key, delr(t, lo, hi) PROVE Sends(t)
  <2> DEFINE p == If(View(t, lo) # NoVal, Row("del", lo, NoVal, NoVal))
             q == If(View(t, hi) # NoVal, Row("del", hi, NoVal, NoVal))
  <2>1. /\ Row("del", lo, NoVal, NoVal) \in Rows
        /\ Row("del", hi, NoVal, NoVal) \in Rows
    BY <1>0, RowTyped
  <2>2. /\ p \in Seq(Rows) /\ WellFormed(p)
        /\ q \in Seq(Rows) /\ WellFormed(q)
    BY <2>1, OneRow, NoRow DEF If, Row
  <2>3. /\ \A i \in DOMAIN p : p[i].key = lo
        /\ \A i \in DOMAIN q : q[i].key = hi
    BY DEF If, Row
  <2>4. lo # hi /\ Statement(t, p \o q)
    BY <1>6 DEF delr
  <2> HIDE DEF p, q
  <2>5. p \o q \in Seq(Rows) /\ WellFormed(p \o q)
    BY <2>2, <2>3, <2>4, TwoParts
  <2> QED
    BY <2>4, <2>5 DEF Sends
<1>7. ASSUME NEW keys \in [1..2 -> Key], NEW v \in Val, setm(t, keys, v)
      PROVE  Sends(t)
  <2> DEFINE rows == [i \in DOMAIN keys |-> Row("set", keys[i], v, NoVal)]
  <2>1. rows \in [1..2 -> Rows]
    BY <1>0, RowTyped
  <2>2. rows \in Seq(Rows)
    BY <2>1
  <2>3. keys[1] # keys[2]
    BY <1>7 DEF setm, DistinctKeys
  <2>4. \A i, j \in 1..2 : keys[i] = keys[j] => i = j
    BY <2>3
  <2>5. \A i \in DOMAIN rows : rows[i].key = keys[i] /\ rows[i].kind = "set"
    BY DEF Row
  <2>6. WellFormed(rows)
    BY <2>4, <2>5 DEF WellFormed
  <2> QED
    BY <1>7, <2>2, <2>6 DEF setm, Sends
<1> QED
  BY <1>1, <1>2, <1>3, <1>4, <1>5, <1>6, <1>7 DEF Calls

-----------------------------------------------------------------------------
(* Steps.                                                                   *)

(* A row of a statement is done with; the transaction stays open.           *)
RowDone(t) ==
  /\ Pending(t)
  /\ ~Blocked(t)
  /\ ~CannotSerialize(t, NextRow(t))
  /\ WriteRow(t) \/ SkipRow(t)
  /\ todo' = [todo EXCEPT ![t] = Tail(@)]
  /\ UNCHANGED <<iso, table, snap, stale, status, calls, told, seen>>

(* A transaction is over without a COMMIT, by the client or the server.     *)
GivesUp(t) == Rollback(t) \/ LoseSession(t)

(* Seven kinds of steps.                                                    *)
LEMMA StepShape ==
  ASSUME [Next]_vars
  PROVE  \/ UNCHANGED vars
         \/ \E t \in Tx : \/ \E k \in Key : get(t, k)
                          \/ Sends(t)
                          \/ RowDone(t)
                          \/ \E e : Abort(t, e)
                          \/ CommitOk(t)
                          \/ CommitUnknown(t)
                          \/ GivesUp(t)
<1> SUFFICES ASSUME Next
             PROVE  \E t \in Tx : \/ \E k \in Key : get(t, k)
                                  \/ Sends(t)
                                  \/ RowDone(t)
                                  \/ \E e : Abort(t, e)
                                  \/ CommitOk(t)
                                  \/ CommitUnknown(t)
                                  \/ GivesUp(t)
  OBVIOUS
<1>1. ASSUME NEW t \in Tx, ExecuteRow(t)
      PROVE  RowDone(t) \/ \E e : Abort(t, e)
  BY <1>1 DEF ExecuteRow, RowDone
<1>2. ASSUME NEW t \in Tx, LockTimeout(t) \/ DetectDeadlock(t) \/ DetectConflict(t)
      PROVE  \E e : Abort(t, e)
  BY <1>2 DEF LockTimeout, DetectDeadlock, DetectConflict
<1> QED
  BY <1>1, <1>2, CallShape DEF Next, GivesUp

(* The classes SurrealDB is told, and that a lost session is no conflict.   *)
Classes == {"TransactionConflict", "ConnectionFailed", "Transaction"}

LEMMA ClassOf == ASSUME NEW e PROVE KvsError(from_sqlx(FALSE, e)) \in Classes
BY DEF from_sqlx, KvsError, Classes

LEMMA TellTyped ==
  ASSUME told \in [Tx -> SUBSET Classes], NEW t \in Tx, NEW e, Tell(t, e)
  PROVE  told' \in [Tx -> SUBSET Classes]
<1> DEFINE c == KvsError(from_sqlx(FALSE, e))
<1>1. c \in Classes
  BY ClassOf
<1>2. told' = [told EXCEPT ![t] = @ \cup {c}]
  BY DEF Tell
<1> HIDE DEF c
<1> QED
  BY <1>1, <1>2

LEMMA SessionClass ==
  ASSUME NEW e \in SessionErrors PROVE KvsError(from_sqlx(FALSE, e)) # "TransactionConflict"
BY DEF SessionErrors, from_sqlx, KvsError

-----------------------------------------------------------------------------
(* Types.                                                                   *)

LEMMA ViewTyped ==
  ASSUME TypeOK, NEW t \in Tx, NEW k \in Key
  PROVE  View(t, k) \in Content /\ Snapshot(t) \in [Key -> Content]
BY DEF TypeOK, View, Snapshot, Written

(* The call ends in types that fit, but for what its statement changes.     *)
LEMMA CallTyped ==
  ASSUME TypeOK, NEW t \in Tx, Call(t)
  PROVE  /\ calls' \in [Tx -> Nat]
         /\ \A u \in Tx : calls'[u] <= MaxCalls[u]
         /\ snap' \in [Tx -> [Key -> Content] \cup {Nothing}]
<1>1. Snapshot(t) \in [Key -> Content]
  BY DEF TypeOK, Snapshot
<1>2. snap' \in [Tx -> [Key -> Content] \cup {Nothing}]
  BY <1>1 DEF TypeOK, Call
<1>3. /\ calls \in [Tx -> Nat] /\ MaxCalls \in [Tx -> Nat]
      /\ calls' = [calls EXCEPT ![t] = calls[t] + 1]
      /\ calls[t] < MaxCalls[t]
      /\ \A u \in Tx : calls[u] <= MaxCalls[u]
  BY KvIsolationAssumption DEF TypeOK, Call
<1>4. calls' \in [Tx -> Nat]
  BY <1>3
<1>5. \A u \in Tx : calls'[u] = IF u = t THEN calls[t] + 1 ELSE calls[u]
  BY <1>3
<1>6. \A u \in Tx : calls'[u] <= MaxCalls[u]
  BY <1>3, <1>5
<1> QED
  BY <1>2, <1>4, <1>6

LEMMA RowsTyped ==
  ASSUME TypeOK, NEW t \in Tx, Pending(t)
  PROVE  /\ NextRow(t) \in Rows
         /\ Tail(todo[t]) \in Seq(Rows)
         /\ \A i \in DOMAIN Tail(todo[t]) : /\ i + 1 \in DOMAIN todo[t]
                                            /\ Tail(todo[t])[i] = todo[t][i + 1]
         /\ 1 \in DOMAIN todo[t] /\ NextRow(t) = todo[t][1]
<1>1. todo[t] \in Seq(Rows) /\ todo[t] # <<>>
  BY DEF TypeOK, Pending
<1> HIDE DEF Rows
<1> QED
  BY <1>1 DEF NextRow

LEMMA UnlockTyped ==
  ASSUME TypeOK, NEW t \in Tx, Unlock(t)
  PROVE  /\ owner' \in [Key -> Tx \cup {NoTx}]
         /\ own' \in [Tx -> [Key -> Content \cup {Nothing}]]
         /\ snap' \in [Tx -> [Key -> Content] \cup {Nothing}]
         /\ todo' \in [Tx -> Seq(Rows)]
         /\ \A u \in Tx : \A i, j \in DOMAIN todo'[u] :
              todo'[u][i].key = todo'[u][j].key => i = j
<1>1. <<>> \in Seq(Rows)
  BY NoRow
<1>2. todo' = [todo EXCEPT ![t] = <<>>]
  BY DEF Unlock
<1> HIDE DEF Rows
<1> QED
  BY <1>1, <1>2 DEF TypeOK, Unlock

LEMMA TypeInit == Init => TypeOK
<1> SUFFICES ASSUME Init PROVE TypeOK
  OBVIOUS
<1>1. <<>> \in Seq(Rows)
  BY NoRow
<1> HIDE DEF Rows
<1> QED
  BY <1>1, KvIsolationAssumption DEF Init, TypeOK, Content

LEMMA TypeStep == TypeOK /\ [Next]_vars => TypeOK'
<1> SUFFICES ASSUME TypeOK, [Next]_vars PROVE TypeOK'
  OBVIOUS
<1>0. CASE UNCHANGED vars
  BY <1>0 DEF vars, server, TypeOK
<1>1. ASSUME NEW t \in Tx, NEW k \in Key, get(t, k) PROVE TypeOK'
  <2>1. Call(t)
    BY <1>1 DEF get
  <2>2. View(t, k) \in Content
    BY ViewTyped
  <2>3. seen' \in [Tx -> [Key -> Content \cup {Nothing}]]
    BY <1>1, <2>2 DEF get, TypeOK
  <2> QED
    BY <1>1, <2>1, <2>3, CallTyped DEF get, Call, TypeOK
<1>2. ASSUME NEW t \in Tx, Sends(t) PROVE TypeOK'
  <2>1. PICK rows \in Seq(Rows) : WellFormed(rows) /\ Statement(t, rows)
    BY <1>2 DEF Sends
  <2>2. Call(t)
    BY <2>1 DEF Statement
  <2>3. /\ todo' \in [Tx -> Seq(Rows)]
        /\ \A u \in Tx : \A i, j \in DOMAIN todo'[u] :
             todo'[u][i].key = todo'[u][j].key => i = j
    <3> HIDE DEF Rows
    <3> QED
      BY <2>1 DEF Statement, TypeOK, WellFormed
  <2>4. stale' \in [Tx -> SUBSET Key]
    BY <2>1 DEF Statement, TypeOK
  <2> QED
    BY <2>1, <2>2, <2>3, <2>4, CallTyped DEF Statement, Call, TypeOK
<1>3. ASSUME NEW t \in Tx, RowDone(t) PROVE TypeOK'
  <2> DEFINE row == NextRow(t)
  <2>1. row \in Rows /\ Tail(todo[t]) \in Seq(Rows)
    BY <1>3, RowsTyped DEF RowDone
  <2>2. row.key \in Key /\ row.val \in Content /\ row.chk \in Content
    BY <2>1 DEF Rows
  <2>3. /\ todo' \in [Tx -> Seq(Rows)]
        /\ \A u \in Tx : \A i, j \in DOMAIN todo'[u] :
             todo'[u][i].key = todo'[u][j].key => i = j
    <3>1. todo' = [todo EXCEPT ![t] = Tail(todo[t])]
      BY <1>3 DEF RowDone
    <3>2. \A i, j \in DOMAIN Tail(todo[t]) :
            Tail(todo[t])[i].key = Tail(todo[t])[j].key => i = j
      <4> SUFFICES ASSUME NEW i \in DOMAIN Tail(todo[t]),
                          NEW j \in DOMAIN Tail(todo[t]),
                          Tail(todo[t])[i].key = Tail(todo[t])[j].key
                   PROVE  i = j
        OBVIOUS
      <4>1. i \in Nat /\ j \in Nat
        <5> HIDE DEF Rows
        <5> QED
          BY <2>1
      <4>2. /\ i + 1 \in DOMAIN todo[t] /\ Tail(todo[t])[i] = todo[t][i + 1]
            /\ j + 1 \in DOMAIN todo[t] /\ Tail(todo[t])[j] = todo[t][j + 1]
        BY <1>3, RowsTyped DEF RowDone
      <4>3. i + 1 = j + 1
        BY <4>2 DEF TypeOK
      <4> QED
        BY <4>1, <4>3
    <3> HIDE DEF Rows
    <3> QED
      BY <2>1, <3>1, <3>2 DEF TypeOK
  <2>4. /\ owner' \in [Key -> Tx \cup {NoTx}]
        /\ own' \in [Tx -> [Key -> Content \cup {Nothing}]]
        /\ cas' \in [Tx -> [Key -> Content \cup {Nothing}]]
    <3> DEFINE k == row.key
    <3>0. /\ owner \in [Key -> Tx \cup {NoTx}]
          /\ own \in [Tx -> [Key -> Content \cup {Nothing}]]
          /\ cas \in [Tx -> [Key -> Content \cup {Nothing}]]
          /\ k \in Key
      BY <2>2 DEF TypeOK
    <3> HIDE DEF row, k
    <3>1. CASE WriteRow(t)
      <4>1. /\ owner' = [owner EXCEPT ![k] = t]
            /\ own' = [own EXCEPT ![t][k] = row.val]
            /\ cas' = cas \/ cas' = [cas EXCEPT ![t][k] = row.chk]
        BY <3>1 DEF WriteRow, row, k
      <4>2. own' \in [Tx -> [Key -> Content \cup {Nothing}]]
        BY <2>2, <3>0, <4>1
      <4>3. cas' \in [Tx -> [Key -> Content \cup {Nothing}]]
        BY <2>2, <3>0, <4>1
      <4> QED
        BY <3>0, <4>1, <4>2, <4>3
    <3>2. CASE SkipRow(t)
      <4>1. /\ owner' = owner \/ owner' = [owner EXCEPT ![k] = t]
            /\ own' = own /\ cas' = cas
        BY <3>2 DEF SkipRow, row, k
      <4> QED
        BY <3>0, <4>1
    <3> QED
      BY <1>3, <3>1, <3>2 DEF RowDone
  <2> QED
    BY <1>3, <2>3, <2>4 DEF RowDone, TypeOK
<1>4. ASSUME NEW t \in Tx, NEW e, Abort(t, e) PROVE TypeOK'
  <2>1. told' \in [Tx -> SUBSET Classes]
    BY <1>4, TellTyped DEF Abort, TypeOK, Classes
  <2> QED
    BY <1>4, <2>1, UnlockTyped DEF Abort, TypeOK, Classes
<1>5. ASSUME NEW t \in Tx, Commit(t), told' \in [Tx -> SUBSET Classes]
      PROVE  TypeOK'
  <2>1. table' \in [Key -> Content]
    BY <1>5 DEF Commit, Written, TypeOK
  <2>2. stale' \in [Tx -> SUBSET Key]
    BY <1>5 DEF Commit, TypeOK
  <2> QED
    BY <1>5, <2>1, <2>2, UnlockTyped DEF Commit, TypeOK, Classes
<1>6. ASSUME NEW t \in Tx, CommitOk(t) \/ CommitUnknown(t) PROVE TypeOK'
  <2>1. told' \in [Tx -> SUBSET Classes]
    BY <1>6, TellTyped DEF CommitOk, CommitUnknown, TypeOK, Classes
  <2> QED
    BY <1>5, <1>6, <2>1 DEF CommitOk, CommitUnknown
<1>7. ASSUME NEW t \in Tx, GivesUp(t) PROVE TypeOK'
  <2>1. told' \in [Tx -> SUBSET Classes]
    BY <1>7, TellTyped DEF GivesUp, Rollback, LoseSession, TypeOK, Classes
  <2>2. Unlock(t)
    BY <1>7 DEF GivesUp, Rollback, LoseSession
  <2> QED
    BY <1>7, <2>1, <2>2, UnlockTyped DEF GivesUp, Rollback, LoseSession, TypeOK, Classes
<1> QED
  BY <1>0, <1>1, <1>2, <1>3, <1>4, <1>6, <1>7, StepShape

(* Every variable keeps its type; no statement locks a row twice.           *)
THEOREM TypeCorrect == Spec => []TypeOK
<1>1. TypeOK /\ [Next]_vars => TypeOK'
  BY TypeStep
<1> QED
  BY <1>1, TypeInit, PTL DEF Spec

-----------------------------------------------------------------------------
(* Conditional writes.                                                      *)

(* The rows still to come compare with what their calls said.               *)
PutInv ==
  \A t \in Tx : \A i \in DOMAIN todo[t] :
    todo[t][i].kind = "put" => todo[t][i].chk = NoVal

(* A written row stays locked.                                              *)
LockInv == \A t \in Tx, k \in Key : Written(t, k) => owner[k] = t

(* So does one that was compared, and what it was compared with stays the   *)
(* committed value.                                                         *)
CasInv ==
  \A t \in Tx, k \in Key :
    status[t] = "open" /\ cas[t][k] # Nothing
      => owner[k] = t /\ Written(t, k) /\ table[k] = cas[t][k]

CasIInv == TypeOK /\ PutInv /\ LockInv /\ CasInv

(* A statement's row has the lock or takes it from nobody.                  *)
LEMMA RowLocked ==
  ASSUME TypeOK, NEW t \in Tx, RowDone(t)
  PROVE  /\ NextRow(t).key \in Key
         /\ owner[NextRow(t).key] \in {t, NoTx}
         /\ \A k \in Key : \/ owner'[k] = owner[k]
                           \/ k = NextRow(t).key /\ owner'[k] = t
<1> DEFINE row == NextRow(t)
<1>1. row \in Rows
  BY RowsTyped DEF RowDone
<1>2. row.key \in Key
  BY <1>1 DEF Rows
<1>3. owner' = owner \/ owner' = [owner EXCEPT ![row.key] = t]
  BY DEF RowDone, WriteRow, SkipRow
<1>4. owner[row.key] \in {t, NoTx}
  BY DEF RowDone, Blocked
<1>5. owner \in [Key -> Tx \cup {NoTx}]
  BY DEF TypeOK
<1> HIDE DEF row
<1>6. \A k \in Key : \/ owner'[k] = owner[k]
                     \/ k = row.key /\ owner'[k] = t
  BY <1>2, <1>3, <1>5
<1> QED
  BY <1>2, <1>4, <1>6 DEF row

LEMMA PutStep == CasIInv /\ [Next]_vars => PutInv'
<1> SUFFICES ASSUME CasIInv, [Next]_vars PROVE PutInv'
  OBVIOUS
<1> USE DEF CasIInv
<1>t. todo \in [Tx -> Seq(Rows)]
  BY DEF TypeOK
<1>1. ASSUME UNCHANGED todo PROVE PutInv'
  BY <1>1 DEF PutInv
<1>2. ASSUME NEW t \in Tx, Unlock(t) PROVE PutInv'
  <2>1. todo' = [todo EXCEPT ![t] = <<>>]
    BY <1>2 DEF Unlock
  <2> QED
    BY <2>1, <1>t DEF PutInv
<1>3. ASSUME NEW t \in Tx, Sends(t) PROVE PutInv'
  <2>1. PICK rows \in Seq(Rows) : WellFormed(rows) /\ Statement(t, rows)
    BY <1>3 DEF Sends
  <2>2. todo' = [todo EXCEPT ![t] = rows]
    BY <2>1 DEF Statement
  <2> QED
    BY <2>1, <2>2, <1>t DEF PutInv, WellFormed
<1>4. ASSUME NEW t \in Tx, RowDone(t) PROVE PutInv'
  <2>1. todo' = [todo EXCEPT ![t] = Tail(todo[t])]
    BY <1>4 DEF RowDone
  <2>2. \A i \in DOMAIN Tail(todo[t]) :
          Tail(todo[t])[i].kind = "put" => Tail(todo[t])[i].chk = NoVal
    BY <1>4, RowsTyped DEF RowDone, PutInv
  <2> QED
    BY <2>1, <2>2, <1>t DEF PutInv
<1> QED
  BY <1>1, <1>2, <1>3, <1>4, StepShape
     DEF vars, server, get, Abort, CommitOk, CommitUnknown, Commit, GivesUp,
         Rollback, LoseSession

LEMMA LockStep == CasIInv /\ [Next]_vars => LockInv'
<1> SUFFICES ASSUME CasIInv, [Next]_vars PROVE LockInv'
  OBVIOUS
<1> USE DEF CasIInv
<1>t. own \in [Tx -> [Key -> Content \cup {Nothing}]] /\ owner \in [Key -> Tx \cup {NoTx}]
  BY DEF TypeOK
<1>1. ASSUME UNCHANGED <<own, owner>> PROVE LockInv'
  BY <1>1 DEF LockInv, Written
<1>2. ASSUME NEW t \in Tx, Unlock(t) PROVE LockInv'
  BY <1>2, <1>t DEF LockInv, Written, Unlock
<1>3. ASSUME NEW t \in Tx, RowDone(t) PROVE LockInv'
  <2> DEFINE k == NextRow(t).key
  <2>1. /\ k \in Key /\ owner[k] \in {t, NoTx}
        /\ \A l \in Key : owner'[l] = owner[l] \/ (l = k /\ owner'[l] = t)
    BY <1>3, RowLocked
  <2>2. CASE WriteRow(t)
    <3>1. owner' = [owner EXCEPT ![k] = t] /\ own' = [own EXCEPT ![t][k] = NextRow(t).val]
      BY <2>2 DEF WriteRow
    <3> HIDE DEF k
    <3> SUFFICES ASSUME NEW u \in Tx, NEW l \in Key, own'[u][l] # Nothing
                 PROVE  owner'[l] = u
      BY DEF LockInv, Written
    <3>2. CASE u = t /\ l = k
      BY <2>1, <3>1, <3>2, <1>t
    <3>3. CASE ~(u = t /\ l = k)
      <4>1. own'[u][l] = own[u][l]
        BY <2>1, <3>1, <3>3, <1>t
      <4>2. owner[l] = u
        BY <4>1 DEF LockInv, Written
      <4> QED
        BY <2>1, <3>3, <4>2, KvIsolationAssumption
    <3> QED
      BY <3>2, <3>3
  <2>3. CASE SkipRow(t)
    <3>1. own' = own
      BY <2>3 DEF SkipRow
    <3> HIDE DEF k
    <3> SUFFICES ASSUME NEW u \in Tx, NEW l \in Key, own[u][l] # Nothing
                 PROVE  owner'[l] = u
      BY <3>1 DEF LockInv, Written
    <3>2. owner[l] = u
      BY DEF LockInv, Written
    <3> QED
      BY <2>1, <3>2, KvIsolationAssumption
  <2> QED
    BY <1>3, <2>2, <2>3 DEF RowDone
<1> QED
  BY <1>1, <1>2, <1>3, StepShape
     DEF vars, server, get, Sends, Statement, Call, Abort, CommitOk, CommitUnknown,
         Commit, GivesUp, Rollback, LoseSession

(* The table changes by a COMMIT only, and only where its transaction has   *)
(* written.                                                                 *)
LEMMA CommitWrites ==
  ASSUME TypeOK, NEW t \in Tx, Commit(t), NEW k \in Key, ~Written(t, k)
  PROVE  table'[k] = table[k]
BY DEF Commit

LEMMA CasStep == CasIInv /\ [Next]_vars => CasInv'
<1> SUFFICES ASSUME CasIInv, [Next]_vars PROVE CasInv'
  OBVIOUS
<1> USE DEF CasIInv
<1>t. /\ own \in [Tx -> [Key -> Content \cup {Nothing}]]
      /\ cas \in [Tx -> [Key -> Content \cup {Nothing}]]
      /\ owner \in [Key -> Tx \cup {NoTx}]
      /\ status \in [Tx -> {"open", "aborted", "committed", "rolledback"}]
      /\ table \in [Key -> Content]
  BY DEF TypeOK
<1>1. ASSUME UNCHANGED <<own, owner, table, status, cas>> PROVE CasInv'
  BY <1>1 DEF CasInv, Written
<1>2. ASSUME NEW t \in Tx, Unlock(t), UNCHANGED cas,
             NEW s \in {"aborted", "committed", "rolledback"},
             status' = [status EXCEPT ![t] = s],
             \A k \in Key : ~Written(t, k) => table'[k] = table[k]
      PROVE  CasInv'
  <2> SUFFICES ASSUME NEW u \in Tx, NEW k \in Key, status'[u] = "open",
                      cas[u][k] # Nothing
               PROVE  owner'[k] = u /\ own'[u][k] # Nothing /\ table'[k] = cas[u][k]
    BY <1>2 DEF CasInv, Written
  <2>1. u # t /\ status[u] = "open"
    BY <1>2, <1>t
  <2>2. owner[k] = u /\ own[u][k] # Nothing /\ table[k] = cas[u][k]
    BY <2>1 DEF CasInv, Written
  <2>3. owner'[k] = u /\ own'[u][k] = own[u][k]
    BY <1>2, <1>t, <2>1, <2>2 DEF Unlock
  <2>4. ~Written(t, k)
    BY <2>1, <2>2 DEF LockInv
  <2> QED
    BY <1>2, <2>2, <2>3, <2>4
<1>3. ASSUME NEW t \in Tx, RowDone(t) PROVE CasInv'
  <2> DEFINE row == NextRow(t)
             k == row.key
  <2>1. /\ k \in Key /\ owner[k] \in {t, NoTx}
        /\ \A l \in Key : owner'[l] = owner[l] \/ (l = k /\ owner'[l] = t)
    BY <1>3, RowLocked
  <2>2. table' = table /\ status' = status
    BY <1>3 DEF RowDone
  <2>3. \A u \in Tx, l \in Key :
          status[u] = "open" /\ cas[u][l] # Nothing => owner'[l] = u
    <3> HIDE DEF k, row
    <3> QED
      BY <2>1, KvIsolationAssumption DEF CasInv
  <2>4. CASE SkipRow(t)
    <3>1. own' = own /\ cas' = cas
      BY <2>4 DEF SkipRow
    <3> QED
      BY <2>2, <2>3, <3>1 DEF CasInv, Written
  <2>5. CASE WriteRow(t)
    <3>1. /\ own' = [own EXCEPT ![t][k] = row.val]
          /\ owner' = [owner EXCEPT ![k] = t]
          /\ cas' = cas \/ (cas' = [cas EXCEPT ![t][k] = row.chk]
                            /\ row.kind \in Conditional /\ ~Written(t, k))
          /\ StillHolds(t, row)
      BY <2>5 DEF WriteRow
    <3>2. row \in Rows /\ row = todo[t][1] /\ 1 \in DOMAIN todo[t]
      BY <1>3, RowsTyped DEF RowDone
    <3>3. row.val # Nothing
      BY <3>2, KvIsolationAssumption DEF Rows, Content
    <3>4. row.kind \in Conditional /\ ~Written(t, k) => table[k] = row.chk
      BY <3>1, <3>2 DEF StillHolds, Current, Conditional, PutInv
    <3> HIDE DEF k, row
    <3> SUFFICES ASSUME NEW u \in Tx, NEW l \in Key, status[u] = "open",
                        cas'[u][l] # Nothing
                 PROVE  owner'[l] = u /\ own'[u][l] # Nothing /\ table[l] = cas'[u][l]
      BY <2>2 DEF CasInv, Written
    <3>5. CASE u = t /\ l = k /\ cas' # cas
      <4>1. cas'[u][l] = row.chk
        BY <2>1, <3>1, <3>5, <1>t
      <4> QED
        BY <2>1, <3>1, <3>3, <3>4, <3>5, <4>1, <1>t
    <3>6. CASE ~(u = t /\ l = k /\ cas' # cas)
      <4>1. cas'[u][l] = cas[u][l]
        BY <2>1, <3>1, <3>6, <1>t
      <4>2. own[u][l] # Nothing /\ table[l] = cas[u][l] /\ owner'[l] = u
        BY <2>3, <4>1 DEF CasInv, Written
      <4>3. own'[u][l] # Nothing
        BY <2>1, <3>1, <3>3, <4>2, <1>t
      <4> QED
        BY <4>1, <4>2, <4>3
    <3> QED
      BY <3>5, <3>6
  <2> QED
    BY <1>3, <2>4, <2>5 DEF RowDone
<1>4. ASSUME NEW t \in Tx, NEW e, Abort(t, e) PROVE CasInv'
  BY <1>2, <1>4 DEF Abort
<1>5. ASSUME NEW t \in Tx, Commit(t) PROVE CasInv'
  BY <1>2, <1>5, CommitWrites DEF Commit
<1>6. ASSUME NEW t \in Tx, GivesUp(t) PROVE CasInv'
  BY <1>2, <1>6 DEF GivesUp, Rollback, LoseSession
<1> QED
  BY <1>1, <1>3, <1>4, <1>5, <1>6, StepShape
     DEF vars, server, get, Sends, Statement, Call, CommitOk, CommitUnknown

LEMMA CasInvariant == Spec => []CasIInv
<1>1. Init => CasIInv
  <2> SUFFICES ASSUME Init PROVE CasIInv
    OBVIOUS
  <2>1. TypeOK
    BY TypeInit
  <2>2. PutInv
    BY DEF Init, PutInv
  <2> QED
    BY <2>1, <2>2 DEF CasIInv, Init, LockInv, CasInv, Written
<1>2. CasIInv /\ [Next]_vars => CasIInv'
  BY TypeStep, PutStep, LockStep, CasStep DEF CasIInv
<1> QED
  BY <1>1, <1>2, PTL DEF Spec

(* A transaction becomes committed by its COMMIT.                           *)
LEMMA OnlyCommit ==
  ASSUME TypeOK, [Next]_vars, NEW t \in Tx, Commits(t)
  PROVE  Commit(t)
<1>t. status \in [Tx -> {"open", "aborted", "committed", "rolledback"}]
  BY DEF TypeOK
<1>1. ASSUME NEW u \in Tx, NEW s, s # "committed" \/ u # t,
             status' = [status EXCEPT ![u] = s]
      PROVE  FALSE
  BY <1>1, <1>t DEF Commits
<1>2. status' # status
  BY DEF Commits
<1>3. PICK u \in Tx : \/ \E e : Abort(u, e)
                      \/ Commit(u)
                      \/ GivesUp(u)
  BY <1>2, StepShape
     DEF vars, server, get, Sends, Statement, Call, RowDone, CommitOk, CommitUnknown
<1> QED
  BY <1>1, <1>3 DEF Abort, Commit, GivesUp, Rollback, LoseSession

(* put, putc and delc are atomic across transactions: a row that was        *)
(* compared is, until its transaction commits, what it was compared with.   *)
THEOREM ConditionalWritesAtomic == Spec => NoLostCas
<1>1. ASSUME CasIInv, [Next]_vars, NEW t \in Tx, NEW k \in Key, Commits(t),
             cas[t][k] # Nothing
      PROVE  table[k] = cas[t][k]
  <2>1. status[t] = "open"
    BY <1>1, OnlyCommit DEF CasIInv, Commit
  <2> QED
    BY <1>1, <2>1 DEF CasIInv, CasInv
<1>2. CasIInv /\ [Next]_vars
        => [\A t \in Tx, k \in Key :
              Commits(t) /\ cas[t][k] # Nothing => table[k] = cas[t][k]]_vars
  BY <1>1
<1> QED
  BY <1>2, CasInvariant, PTL DEF Spec, NoLostCas

-----------------------------------------------------------------------------
(* Retries.                                                                 *)

(* A conflict is told only when the transaction cannot commit any more.     *)
ConflictInv ==
  \A t \in Tx :
    "TransactionConflict" \in told[t] => status[t] \in {"aborted", "rolledback"}

LEMMA ConflictStep == TypeOK /\ ConflictInv /\ [Next]_vars => ConflictInv'
<1> SUFFICES ASSUME TypeOK, ConflictInv, [Next]_vars PROVE ConflictInv'
  OBVIOUS
<1>t. /\ status \in [Tx -> {"open", "aborted", "committed", "rolledback"}]
      /\ told \in [Tx -> SUBSET Classes]
  BY DEF TypeOK, Classes
<1>1. ASSUME UNCHANGED <<status, told>> PROVE ConflictInv'
  BY <1>1 DEF ConflictInv
<1>2. ASSUME NEW t \in Tx, NEW s \in {"aborted", "rolledback"},
             status' = [status EXCEPT ![t] = s],
             (\E e : Tell(t, e)) \/ UNCHANGED told
      PROVE  ConflictInv'
  <2>1. \A u \in Tx \ {t} : told'[u] = told[u]
    BY <1>2, <1>t DEF Tell
  <2> QED
    BY <1>2, <1>t, <2>1 DEF ConflictInv
<1>3. ASSUME NEW t \in Tx, Commit(t),
             (\E e \in SessionErrors : Tell(t, e)) \/ UNCHANGED told
      PROVE  ConflictInv'
  <2>1. status' = [status EXCEPT ![t] = "committed"] /\ status[t] = "open"
    BY <1>3 DEF Commit
  <2>2. "TransactionConflict" \notin told[t]
    BY <2>1 DEF ConflictInv
  <2>3. \A u \in Tx \ {t} : told'[u] = told[u]
    BY <1>3, <1>t DEF Tell
  <2>4. ASSUME NEW e \in SessionErrors, Tell(t, e)
        PROVE  "TransactionConflict" \notin told'[t]
    <3> DEFINE c == KvsError(from_sqlx(FALSE, e))
    <3>1. c # "TransactionConflict"
      BY SessionClass
    <3>2. told' = [told EXCEPT ![t] = @ \cup {c}]
      BY <2>4 DEF Tell
    <3> HIDE DEF c
    <3> QED
      BY <2>2, <3>1, <3>2, <1>t
  <2> QED
    BY <1>3, <1>t, <2>1, <2>2, <2>3, <2>4 DEF ConflictInv
<1>4. ASSUME NEW t \in Tx, NEW e, Abort(t, e) PROVE ConflictInv'
  BY <1>2, <1>4 DEF Abort
<1>5. ASSUME NEW t \in Tx, GivesUp(t) PROVE ConflictInv'
  BY <1>2, <1>5 DEF GivesUp, Rollback, LoseSession
<1> QED
  BY <1>1, <1>3, <1>4, <1>5, StepShape
     DEF vars, server, get, Sends, Statement, Call, RowDone, CommitOk, CommitUnknown

(* A transaction of which TransactionConflict is told is not committed and  *)
(* never will be, whatever became of the answer to a COMMIT.                *)
THEOREM ConflictInvariant == Spec => []ConflictNeverCommits
<1>1. Init => TypeOK /\ ConflictInv
  BY TypeInit DEF Init, ConflictInv
<1>2. TypeOK /\ ConflictInv /\ [Next]_vars => (TypeOK /\ ConflictInv)'
  BY TypeStep, ConflictStep
<1>3. ConflictInv => ConflictNeverCommits
  BY DEF ConflictInv, ConflictNeverCommits
<1> QED
  BY <1>1, <1>2, <1>3, PTL DEF Spec

-----------------------------------------------------------------------------
(* Snapshots.                                                               *)

(* What a transaction with a snapshot knows of the committed rows: those    *)
(* it has read were in the snapshot, those nobody changed are still as in   *)
(* the snapshot, and those it has written were, unless they are gone.       *)
SnapInv ==
  \A t \in Tx :
    KeepsSnapshot /\ status[t] = "open" =>
      /\ Pending(t) => snap[t] # Nothing
      /\ \A k \in Key :
           /\ Written(t, k) \/ seen[t][k] # Nothing => snap[t] # Nothing
           /\ seen[t][k] # Nothing => seen[t][k] = snap[t][k]
           /\ snap[t] # Nothing /\ k \notin stale[t] => table[k] = snap[t][k]
           /\ Written(t, k) => table[k] \in {snap[t][k], NoVal}

SnapIInv == TypeOK /\ LockInv /\ SnapInv

(* A call takes the snapshot or keeps the one there is.                     *)
LEMMA CallSnap ==
  ASSUME TypeOK, SnapInv, NEW t \in Tx, Call(t), KeepsSnapshot
  PROVE  /\ snap' = [snap EXCEPT ![t] = Snapshot(t)]
         /\ Snapshot(t) # Nothing
         /\ snap[t] # Nothing => Snapshot(t) = snap[t]
         /\ \A k \in Key : k \notin stale[t] => table[k] = Snapshot(t)[k]
         /\ \A k \in Key : Written(t, k) => table[k] \in {Snapshot(t)[k], NoVal}
         /\ \A k \in Key : seen[t][k] # Nothing => seen[t][k] = Snapshot(t)[k]
<1>1. Snapshot(t) \in [Key -> Content]
  BY DEF TypeOK, Snapshot
<1>2. Snapshot(t) # Nothing
  BY <1>1, KvIsolationAssumption DEF Content
<1>3. status[t] = "open" /\ snap' = [snap EXCEPT ![t] = Snapshot(t)]
  BY DEF Call
<1> QED
  BY <1>2, <1>3 DEF Snapshot, SnapInv

LEMMA SnapStep == SnapIInv /\ [Next]_vars => SnapInv'
<1> SUFFICES ASSUME SnapIInv, [Next]_vars PROVE SnapInv'
  OBVIOUS
<1> USE DEF SnapIInv
<1>t. /\ own \in [Tx -> [Key -> Content \cup {Nothing}]]
      /\ snap \in [Tx -> [Key -> Content] \cup {Nothing}]
      /\ seen \in [Tx -> [Key -> Content \cup {Nothing}]]
      /\ stale \in [Tx -> SUBSET Key]
      /\ todo \in [Tx -> Seq(Rows)]
      /\ owner \in [Key -> Tx \cup {NoTx}]
      /\ status \in [Tx -> {"open", "aborted", "committed", "rolledback"}]
      /\ table \in [Key -> Content]
  BY DEF TypeOK
<1>i. iso' = iso
  BY StepShape
     DEF vars, server, get, Sends, Statement, Call, RowDone, Abort, CommitOk,
         CommitUnknown, Commit, GivesUp, Rollback, LoseSession
<1>k. KeepsSnapshot' = KeepsSnapshot
  BY <1>i DEF KeepsSnapshot
<1> SUFFICES ASSUME KeepsSnapshot PROVE SnapInv'
  BY <1>k DEF SnapInv
<1>0. ASSUME UNCHANGED server, UNCHANGED seen PROVE SnapInv'
  BY <1>0, <1>k DEF server, SnapInv, Pending, Written
(* A call fixes the snapshot, if it is the first.                           *)
<1>1. ASSUME NEW t \in Tx, NEW k \in Key, get(t, k) PROVE SnapInv'
  <2> DEFINE S == Snapshot(t)
  <2>1. Call(t)
    BY <1>1 DEF get
  <2>2. /\ snap' = [snap EXCEPT ![t] = S]
        /\ S # Nothing
        /\ \A l \in Key : l \notin stale[t] => table[l] = S[l]
        /\ \A l \in Key : Written(t, l) => table[l] \in {S[l], NoVal}
        /\ \A l \in Key : seen[t][l] # Nothing => seen[t][l] = S[l]
    BY <2>1, CallSnap
  <2>3. UNCHANGED <<table, own, stale, todo, status>>
    BY <1>1, <2>1 DEF get, Call
  <2>4. seen' = seen \/ (~Written(t, k) /\ seen' = [seen EXCEPT ![t][k] = S[k]])
    BY <1>1 DEF get, View
  <2> HIDE DEF S
  <2>5. /\ \A u \in Tx \ {t} : seen'[u] = seen[u] /\ snap'[u] = snap[u]
        /\ snap'[t] = S
        /\ \A l \in Key : seen'[t][l] # Nothing => seen'[t][l] = S[l]
    BY <2>2, <2>4, <1>t
  <2> QED
    BY <2>2, <2>3, <2>5 DEF SnapInv, Pending, Written
<1>2. ASSUME NEW t \in Tx, Sends(t) PROVE SnapInv'
  <2> DEFINE S == Snapshot(t)
  <2>1. PICK rows \in Seq(Rows) : Statement(t, rows)
    BY <1>2 DEF Sends
  <2>2. Call(t)
    BY <2>1 DEF Statement
  <2>3. /\ snap' = [snap EXCEPT ![t] = S]
        /\ S # Nothing
        /\ \A l \in Key : l \notin stale[t] => table[l] = S[l]
        /\ \A l \in Key : Written(t, l) => table[l] \in {S[l], NoVal}
        /\ \A l \in Key : seen[t][l] # Nothing => seen[t][l] = S[l]
    BY <2>2, CallSnap
  <2>4. UNCHANGED <<table, own, stale, status, seen>>
    BY <2>1, <2>2 DEF Statement, Call
  <2>5. todo' = [todo EXCEPT ![t] = rows]
    BY <2>1 DEF Statement
  <2> HIDE DEF S
  <2>6. /\ \A u \in Tx \ {t} : todo'[u] = todo[u] /\ snap'[u] = snap[u]
        /\ snap'[t] = S
    BY <2>3, <2>5, <1>t
  <2> QED
    BY <2>3, <2>4, <2>6 DEF SnapInv, Pending, Written
(* A row is written only as the snapshot has it, or anew.                   *)
<1>3. ASSUME NEW t \in Tx, RowDone(t) PROVE SnapInv'
  <2> DEFINE row == NextRow(t)
             k == row.key
  <2>1. k \in Key
    BY <1>3, RowLocked
  <2>2. /\ UNCHANGED <<table, snap, stale, status, seen>>
        /\ todo' = [todo EXCEPT ![t] = Tail(todo[t])]
        /\ Pending(t)
    BY <1>3 DEF RowDone
  <2>3. \A u \in Tx : Pending(u)' => Pending(u)
    BY <2>2, <1>t DEF Pending
  <2>4. own' = own \/ (own' = [own EXCEPT ![t][k] = row.val] /\ WriteRow(t))
    BY <1>3 DEF RowDone, WriteRow, SkipRow
  <2>5. ASSUME status[t] = "open", WriteRow(t)
        PROVE  table[k] \in {snap[t][k], NoVal}
    <3>1. CASE Written(t, k)
      BY <2>1, <2>5, <3>1 DEF SnapInv
    <3>2. CASE ~Written(t, k) /\ k \notin stale[t]
      BY <2>1, <2>2, <2>5, <3>2 DEF SnapInv
    <3>3. CASE ~Written(t, k) /\ k \in stale[t]
      <4>1. Outdated(t, k)
        BY <3>3 DEF Outdated
      <4>2. table[k] = NoVal
        BY <1>3, <4>1 DEF RowDone, CannotSerialize
      <4> QED
        BY <4>2
    <3> QED
      BY <3>1, <3>2, <3>3
  <2>6. status[t] = "open" => snap[t] # Nothing
    BY <2>2 DEF SnapInv
  <2> HIDE DEF k, row
  <2>7. \A u \in Tx, l \in Key :
          own'[u][l] = own[u][l] \/ (u = t /\ l = k /\ WriteRow(t))
    BY <2>1, <2>4, <1>t
  <2> QED
    BY <2>2, <2>3, <2>5, <2>6, <2>7 DEF SnapInv, Written
(* The end of a transaction does not matter to it; a COMMIT makes what it   *)
(* has written stale for the others.                                        *)
<1>4. ASSUME NEW t \in Tx, Unlock(t),
             NEW s \in {"aborted", "committed", "rolledback"},
             status' = [status EXCEPT ![t] = s], UNCHANGED seen,
             \A u \in Tx \ {t} : stale[u] \subseteq stale'[u],
             \A k \in Key :
               \/ table'[k] = table[k]
               \/ /\ Written(t, k)
                  /\ \A u \in Tx \ {t} : snap[u] # Nothing => k \in stale'[u]
      PROVE  SnapInv'
  <2> SUFFICES ASSUME NEW u \in Tx, status'[u] = "open"
               PROVE  /\ Pending(u)' => snap'[u] # Nothing
                      /\ \A k \in Key :
                           /\ Written(u, k)' \/ seen'[u][k] # Nothing
                                => snap'[u] # Nothing
                           /\ seen'[u][k] # Nothing => seen'[u][k] = snap'[u][k]
                           /\ snap'[u] # Nothing /\ k \notin stale'[u]
                                => table'[k] = snap'[u][k]
                           /\ Written(u, k)' => table'[k] \in {snap'[u][k], NoVal}
    BY DEF SnapInv
  <2>1. u # t /\ status[u] = "open"
    BY <1>4, <1>t
  <2>2. /\ own'[u] = own[u] /\ snap'[u] = snap[u] /\ todo'[u] = todo[u]
        /\ seen'[u] = seen[u]
    BY <1>4, <1>t, <2>1 DEF Unlock
  <2>3. \A k \in Key : Written(u, k) => table'[k] = table[k]
    BY <1>4, <2>1 DEF LockInv
  <2>4. stale[u] \subseteq stale'[u]
    BY <1>4, <2>1
  <2>5. \A k \in Key : snap[u] # Nothing /\ k \notin stale'[u] => table'[k] = table[k]
    BY <1>4, <2>1
  <2> QED
    BY <2>1, <2>2, <2>3, <2>4, <2>5 DEF SnapInv, Pending, Written
<1>5. ASSUME NEW t \in Tx, NEW e, Abort(t, e) PROVE SnapInv'
  <2>1. \A u \in Tx \ {t} : stale[u] \subseteq stale'[u]
    BY <1>5, <1>t DEF Abort
  <2> QED
    BY <1>4, <1>5, <2>1 DEF Abort
<1>6. ASSUME NEW t \in Tx, GivesUp(t) PROVE SnapInv'
  <2>1. \A u \in Tx \ {t} : stale[u] \subseteq stale'[u]
    BY <1>6, <1>t DEF GivesUp, Rollback, LoseSession
  <2> QED
    BY <1>4, <1>6, <2>1 DEF GivesUp, Rollback, LoseSession
<1>7. ASSUME NEW t \in Tx, Commit(t) PROVE SnapInv'
  <2>1. \A u \in Tx \ {t} :
          /\ stale[u] \subseteq stale'[u]
          /\ snap[u] # Nothing => {k \in Key : Written(t, k)} \subseteq stale'[u]
    BY <1>7 DEF Commit
  <2>2. \A k \in Key : ~Written(t, k) => table'[k] = table[k]
    BY <1>7, CommitWrites
  <2>3. Unlock(t) /\ status' = [status EXCEPT ![t] = "committed"] /\ UNCHANGED seen
    BY <1>7 DEF Commit
  <2> QED
    BY <1>4, <2>1, <2>2, <2>3
<1> QED
  BY <1>0, <1>1, <1>2, <1>3, <1>5, <1>6, <1>7, StepShape
     DEF vars, CommitOk, CommitUnknown

LEMMA SnapInvariant == Spec => [](CasIInv /\ SnapInv)
<1>1. Init => SnapInv
  BY KvIsolationAssumption DEF Init, SnapInv, Pending, Written
<1>2. CasIInv /\ SnapInv /\ [Next]_vars => SnapInv'
  BY SnapStep DEF CasIInv, SnapIInv
<1> QED
  BY <1>1, <1>2, CasInvariant, PTL DEF Spec

(* At repeatable read and above a transaction overwrites the rows it has    *)
(* read and no others, but for inserting a row that was deleted since.      *)
THEOREM UnseenKept == Spec => NoUnseenOverwrite
<1>1. ASSUME CasIInv, SnapInv, [Next]_vars, NEW t \in Tx, NEW k \in Key, Commits(t),
             iso # "ReadCommitted", Written(t, k), seen[t][k] # Nothing
      PROVE  table[k] \in {seen[t][k], NoVal}
  <2>1. status[t] = "open" /\ KeepsSnapshot
    BY <1>1, OnlyCommit DEF CasIInv, Commit, KeepsSnapshot
  <2> QED
    BY <1>1, <2>1 DEF SnapInv
<1>2. CasIInv /\ SnapInv /\ [Next]_vars
        => [\A t \in Tx, k \in Key :
              Commits(t) /\ iso # "ReadCommitted" /\ Written(t, k)
                /\ seen[t][k] # Nothing
              => table[k] \in {seen[t][k], NoVal}]_vars
  BY <1>1
<1> QED
  BY <1>2, SnapInvariant, PTL DEF Spec, NoUnseenOverwrite

=============================================================================
