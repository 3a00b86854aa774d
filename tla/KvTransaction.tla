--------------------------- MODULE KvTransaction ---------------------------
(***************************************************************************)
(* One PgTransaction (src/transaction.rs): its key-value statements, the   *)
(* chunked setm, and the savepoints it names itself and keeps on a stack   *)
(* of names, against the stack of named savepoints PostgreSQL keeps.       *)
(*                                                                         *)
(* PgTx lets one call at a time use a transaction (see PgTx), so one call  *)
(* is in progress here.  A call leaves a statement in `todo', PostgreSQL   *)
(* executes it and answers, and the call goes on from there.  A caller may *)
(* drop the future of a call: a statement that was sent is still executed, *)
(* before any later one; a call that meets such an orphan waits for it     *)
(* before it sends anything, and if it is dropped while it waits its own   *)
(* statement is never sent.                                                *)
(***************************************************************************)
EXTENDS KvBatch

CONSTANTS
  Key, Val,
  NoStmt,          \* no statement
  NoSavepoint,     \* no savepoint name taken off the stack
  Ops,             \* the key-value operations callers use
  SETM_MAX_PAIRS,  \* pairs in one statement of setm (32,000 in the code)
  MaxPairs,        \* bound on the pairs given to setm
  MaxDepth,        \* bound on nested savepoints
  Wrap,            \* the savepoint counter counts modulo this (2^32)
  CounterWraps,    \* whether it may wrap around in this instance
  DropFutures      \* whether callers may drop the future of a call

Views  == [Key -> Val \cup {NoVal}]
Names  == 0..Wrap-1

(* A savepoint is its name and, on the server, the view it returns to.  The *)
(* client's stack carries the view the caller saw, for the properties.      *)
Savepoints == [name : Names, snap : Views]

Stmts ==
  [kind : {"read", "commit", "rollback"}]
  \cup [kind : {"savepoint", "release", "rollbackTo"}, name : Names]
  \cup [kind : {"set", "put"}, key : Key, val : Val]
  \cup [kind : {"putc"}, key : Key, val : Val, chk : Val]
  \cup [kind : {"del"}, key : Key]
  \cup [kind : {"delc"}, key : Key, chk : Val]
  \cup [kind : {"delr"}, lo : Key, hi : Nat]
  \cup [kind : {"setm"}, pairs : Seq(Key \X Val)]

ASSUME KvTransactionAssumption ==
  /\ Key \subseteq Nat
  /\ NoVal \notin Val
  /\ NoStmt \notin Stmts
  /\ NoSavepoint \notin Savepoints
  /\ SETM_MAX_PAIRS \in Nat \ {0}
  /\ MaxPairs \in Nat
  /\ MaxDepth \in Nat
  /\ Wrap \in Nat \ {0}
  /\ CounterWraps \in BOOLEAN
  /\ DropFutures \in BOOLEAN

VARIABLES
  (* PgTransaction *)
  conn, writeable, savepoints, savepoint_counter,
  (* the call in progress, and what the last one returned *)
  cont,     \* where the call resumes when its statement is answered
  held,     \* the savepoint a call has taken off the stack
  batch, start,   \* setm: the deduplicated pairs and the loop variable
  goal,     \* what the caller may expect of the view, for the properties
  reply,
  (* the connection *)
  todo, answer, orphan,
  (* PostgreSQL *)
  table, view, stack, status

client == <<conn, writeable, savepoints, savepoint_counter>>
call   == <<cont, held, batch, start, goal, reply>>
wire   == <<todo, answer, orphan>>
server == <<table, view, stack, status>>
vars   == <<client, call, wire, server>>

Alive == status \in {"open", "aborted"}
Idle  == cont = "idle"

TypeOK ==
  /\ conn \in BOOLEAN
  /\ writeable \in BOOLEAN
  /\ savepoints \in Seq(Savepoints)
  /\ savepoint_counter \in Names
  /\ cont \in {"idle", "plain", "put", "cas", "setm", "close",
               "savepoint", "release", "rollback", "rollbackRelease"}
  /\ held \in Savepoints \cup {NoSavepoint}
  /\ (held # NoSavepoint) = (cont \in {"release", "rollback", "rollbackRelease"})
  /\ batch \in Seq(Key \X Val)
  /\ start \in 0..MaxPairs
  /\ IF cont = "setm" THEN start < Len(batch) ELSE batch = <<>> /\ start = 0
  /\ goal \in Views
  /\ reply \in {"none", "ok", "committed", "rolledBack", "setmOk", "err",
                "TxClosed", "TxReadOnly", "KeyAlreadyExists", "ConditionNotMet"}
  /\ todo \in Stmts \cup {NoStmt}
  /\ orphan \in Stmts \cup {NoStmt}
  /\ answer \in {"none", "ok", "zero", "err"}
  /\ table \in Views
  /\ view \in Views
  /\ stack \in Seq(Savepoints)
  /\ status \in {"open", "aborted", "committed", "rolledback"}

Init ==
  /\ conn = TRUE
  /\ writeable \in BOOLEAN
  /\ savepoints = <<>>
  /\ savepoint_counter = 0
  /\ cont = "idle"
  /\ held = NoSavepoint
  /\ batch = <<>>
  /\ start = 0
  /\ reply = "none"
  /\ todo = NoStmt
  /\ answer = "none"
  /\ orphan = NoStmt
  /\ table \in Views
  /\ view = table
  /\ goal = table
  /\ stack = <<>>
  /\ status = "open"

-----------------------------------------------------------------------------
(* PostgreSQL: Perform(s, r) executes statement s with answer r, which is   *)
(* "ok", "zero" (no row affected) or "err".                                 *)

MatchesAnyValue(s) ==       \* mutant: the value is not compared
  \/ s.kind = "put" /\ view[s.key] = NoVal
  \/ s.kind \in {"putc", "delc"} /\ view[s.key] # NoVal
Matches(s) ==
  \/ s.kind = "put" /\ view[s.key] = NoVal
  \/ s.kind \in {"putc", "delc"} /\ view[s.key] = s.chk

Changed(s) ==
  IF s.kind \in {"set", "put", "putc"} THEN [view EXCEPT ![s.key] = s.val]
  ELSE IF s.kind \in {"del", "delc"} THEN [view EXCEPT ![s.key] = NoVal]
  ELSE [k \in Key |-> IF s.lo <= k /\ k < s.hi THEN NoVal ELSE view[k]]

Conditional == {"put", "putc", "delc"}

(* put inserts ON CONFLICT DO NOTHING, putc and delc have the expected      *)
(* value in their WHERE clause: without a match no row is affected.         *)
PerformData(s, r) ==
  \/ s.kind = "read" /\ r = "ok" /\ UNCHANGED server
  \/ /\ s.kind \in {"set", "del", "delr"}
     /\ r = "ok"
     /\ view' = Changed(s)
     /\ UNCHANGED <<table, stack, status>>
  \/ /\ s.kind \in Conditional
     /\ IF Matches(s) THEN /\ r = "ok"
                           /\ view' = Changed(s)
                           /\ UNCHANGED <<table, stack, status>>
                      ELSE r = "zero" /\ UNCHANGED server
  \/ /\ s.kind = "setm"
     /\ \A i, j \in DOMAIN s.pairs : s.pairs[i][1] = s.pairs[j][1] => i = j
     /\ r = "ok"
     /\ view' = SetAll(view, s.pairs)
     /\ UNCHANGED <<table, stack, status>>

Known(n) == {i \in DOMAIN stack : stack[i].name = n}
Innermost(n) == CHOOSE i \in Known(n) : \A j \in Known(n) : j <= i

PerformSavepoint(s, r) ==
  /\ r = "ok"
  /\ \/ /\ s.kind = "savepoint"
        /\ status = "open"
        /\ stack' = Append(stack, [name |-> s.name, snap |-> view])
        /\ UNCHANGED <<table, view, status>>
     \/ /\ s.kind = "release"
        /\ status = "open"
        /\ Known(s.name) # {}
        /\ stack' = SubSeq(stack, 1, Innermost(s.name) - 1)
        /\ UNCHANGED <<table, view, status>>
     \/ /\ s.kind = "rollbackTo"
        /\ Known(s.name) # {}
        /\ stack' = SubSeq(stack, 1, Innermost(s.name))
        /\ view' = stack[Innermost(s.name)].snap
        /\ status' = "open"
        /\ UNCHANGED table

(* An error, whatever its cause, leaves the transaction aborted; so does a  *)
(* savepoint the server does not know.                                      *)
PerformFails(s, r) ==
  /\ s.kind \notin {"commit", "rollback"}
  /\ r = "err"
  /\ status' = "aborted"
  /\ UNCHANGED <<table, view, stack>>

PerformEnd(s, r) ==
  \/ /\ s.kind = "commit"
     /\ status = "open"
     /\ r = "ok"
     /\ table' = view
     /\ status' = "committed"
     /\ UNCHANGED <<view, stack>>
  \/ /\ \/ s.kind = "commit" /\ status = "open" /\ r = "err"
        \/ s.kind = "commit" /\ status = "aborted" /\ r = "ok"
        \/ s.kind = "rollback" /\ r = "ok"
     /\ status' = "rolledback"
     /\ UNCHANGED <<table, view, stack>>

Perform(s, r) ==
  \/ ~Alive /\ r = "err" /\ UNCHANGED server
  \/ status = "open" /\ PerformData(s, r)
  \/ Alive /\ PerformSavepoint(s, r)
  \/ Alive /\ PerformFails(s, r)
  \/ Alive /\ PerformEnd(s, r)

Results == {"ok", "zero", "err"}

Execute ==
  /\ todo # NoStmt
  /\ orphan = NoStmt
  /\ answer = "none"
  /\ \E r \in Results : Perform(todo, r) /\ answer' = r
  /\ UNCHANGED <<client, call, todo, orphan>>

(* A statement whose call was dropped is executed; its answer is skipped.   *)
(* A savepoint waiting behind it will see its effect.                       *)
ExecuteOrphan ==
  /\ orphan # NoStmt
  /\ \E r \in Results : Perform(orphan, r)
  /\ orphan' = NoStmt
  /\ savepoints' = IF cont = "savepoint"
                   THEN [savepoints EXCEPT ![Len(savepoints)].snap = view']
                   ELSE savepoints
  /\ UNCHANGED <<conn, writeable, savepoint_counter, call, todo, answer>>

(* The connection breaks: the server rolls back, an answer on its way is    *)
(* lost, and later statements fail.                                         *)
LoseConnection ==
  /\ Alive
  /\ status' = "rolledback"
  /\ answer' = IF answer = "none" THEN "none" ELSE "err"
  /\ UNCHANGED <<client, call, todo, orphan, table, view, stack>>

LoseCommitAnswer ==
  /\ status = "committed"
  /\ answer = "ok"
  /\ answer' = "err"
  /\ UNCHANGED <<client, call, todo, orphan, server>>

-----------------------------------------------------------------------------
(* Calls.                                                                   *)

Send(s, where) ==
  /\ todo' = s
  /\ cont' = where
  /\ UNCHANGED <<answer, orphan>>

Return(r) ==
  /\ reply' = r
  /\ cont' = "idle"
  /\ held' = NoSavepoint
  /\ batch' = <<>>
  /\ start' = 0

(* A call that returns before it sends anything.                            *)
Refuse(r) ==
  /\ Return(r)
  /\ UNCHANGED <<client, goal, wire, server>>

(* A key-value call with one statement; the caller's view is remembered.    *)
OneStatement(s, where) ==
  /\ Idle
  /\ \/ s.kind # "read" /\ ~writeable /\ Refuse("TxReadOnly")
     \/ (s.kind = "read" \/ writeable) /\ ~conn /\ Refuse("TxClosed")
     \/ /\ s.kind = "read" \/ writeable
        /\ conn
        /\ Send(s, where)
        /\ goal' = view
        /\ UNCHANGED <<client, held, batch, start, reply, server>>

(* exists, get, getm, keys, keysr, scan, scanr, getr, count, count_approx.  *)
(* With no keys, or an empty range, getm, getr and count return without a   *)
(* look at the transaction.                                                 *)
ReadNothing == Idle /\ Refuse("ok")
Read ==
  /\ "read" \in Ops
  /\ OneStatement([kind |-> "read"], "plain") \/ ReadNothing

set(k, v) ==
  "set" \in Ops /\ OneStatement([kind |-> "set", key |-> k, val |-> v], "plain")

put(k, v) ==
  "put" \in Ops /\ OneStatement([kind |-> "put", key |-> k, val |-> v], "put")

putc(k, v, chk) ==
  /\ "putc" \in Ops
  /\ IF chk = NoVal
     THEN OneStatement([kind |-> "put", key |-> k, val |-> v], "put")
     ELSE OneStatement([kind |-> "putc", key |-> k, val |-> v, chk |-> chk], "cas")

del(k) == "del" \in Ops /\ OneStatement([kind |-> "del", key |-> k], "plain")

delc(k, chk) ==
  /\ "delc" \in Ops
  /\ IF chk = NoVal
     THEN OneStatement([kind |-> "del", key |-> k], "plain")
     ELSE OneStatement([kind |-> "delc", key |-> k, chk |-> chk], "cas")

delr(lo, hi) ==
  /\ "delr" \in Ops
  /\ IF lo < hi
     THEN OneStatement([kind |-> "delr", lo |-> lo, hi |-> hi], "plain")
     ELSE Idle /\ Refuse(IF writeable THEN "ok" ELSE "TxReadOnly")

-----------------------------------------------------------------------------
(* setm: deduplicate, then one statement for each chunk.                    *)

Smaller(a, b) == IF a < b THEN a ELSE b

ChunkEndShort(pairs, from) ==   \* mutant: the chunk's last pair is left out
  Smaller(from + SETM_MAX_PAIRS - 1, Len(pairs))
ChunkEnd(pairs, from) == Smaller(from + SETM_MAX_PAIRS, Len(pairs))

ChunkStmt(pairs, from) ==
  [kind |-> "setm", pairs |-> SubSeq(pairs, from + 1, ChunkEnd(pairs, from))]

setm(pairs) ==
  /\ "setm" \in Ops
  /\ Idle
  /\ \/ ~conn /\ Refuse("TxClosed")
     \/ conn /\ ~writeable /\ Refuse("TxReadOnly")
     \/ conn /\ writeable /\ pairs = <<>> /\ Refuse("ok")
     \/ /\ conn /\ writeable /\ pairs # <<>>
        /\ batch' \in dedup_pairs(pairs)
        /\ Send(ChunkStmt(batch', 0), "setm")
        /\ goal' = SetAll(view, pairs)
        /\ UNCHANGED <<client, held, start, reply, server>>

MoreChunksInclusive ==       \* mutant: an empty chunk may follow the last
  start + SETM_MAX_PAIRS <= Len(batch)
MoreChunks == start + SETM_MAX_PAIRS < Len(batch)

NextChunk ==
  /\ cont = "setm"
  /\ answer = "ok"
  /\ MoreChunks
  /\ start' = start + SETM_MAX_PAIRS
  /\ todo' = ChunkStmt(batch, start')
  /\ answer' = "none"
  /\ UNCHANGED <<client, cont, held, batch, goal, reply, orphan, server>>

-----------------------------------------------------------------------------
(* Savepoints: the name is pushed or popped before the statement is sent.   *)

Pop(s) == SubSeq(s, 1, Len(s) - 1)
Top(s) == s[Len(s)]

NextCounter == (savepoint_counter + 1) % Wrap

push_savepoint_name_fixed ==    \* mutant: every savepoint has one name
  /\ savepoints' = Append(savepoints, [name |-> 0, snap |-> view])
  /\ UNCHANGED savepoint_counter
push_savepoint_name ==
  /\ savepoint_counter' = NextCounter
  /\ savepoints' = Append(savepoints, [name |-> NextCounter, snap |-> view])

new_save_point ==
  /\ Idle
  /\ conn
  /\ Len(savepoints) < MaxDepth
  /\ Len(stack) < MaxDepth
  /\ CounterWraps \/ savepoint_counter < Wrap - 1
  /\ push_savepoint_name
  /\ Send([kind |-> "savepoint", name |-> savepoint_counter'], "savepoint")
  /\ UNCHANGED <<conn, writeable, held, batch, start, goal, reply, server>>

TakeTop(kind, where) ==
  /\ Idle
  /\ savepoints # <<>>
  /\ held' = Top(savepoints)
  /\ savepoints' = Pop(savepoints)
  /\ Send([kind |-> kind, name |-> Top(savepoints).name], where)
  /\ UNCHANGED <<conn, writeable, savepoint_counter, batch, start, reply, server>>

release_last_save_point ==
  /\ TakeTop("release", "release")
  /\ UNCHANGED goal

rollback_to_save_point ==
  /\ TakeTop("rollbackTo", "rollback")
  /\ goal' = Top(savepoints).snap

(* Without a savepoint both return Ok, on a closed transaction too; there   *)
(* new_save_point pushes a name, meets TxClosed and pops it.                *)
NoSavepointLeft ==
  /\ Idle
  /\ savepoints = <<>>
  /\ Refuse("ok")

NewSavepointClosed ==
  /\ Idle
  /\ ~conn
  /\ CounterWraps \/ savepoint_counter < Wrap - 1
  /\ savepoint_counter' = NextCounter
  /\ Return("TxClosed")
  /\ UNCHANGED <<conn, writeable, savepoints, goal, wire, server>>

-----------------------------------------------------------------------------
(* commit and cancel take the connection.                                   *)

Close(kind) ==
  /\ Idle
  /\ \/ ~conn /\ Refuse("TxClosed")
     \/ /\ conn
        /\ conn' = FALSE
        /\ savepoints' = <<>>
        /\ Send([kind |-> kind], "close")
        /\ UNCHANGED <<writeable, savepoint_counter, held, batch, start,
                       goal, reply, server>>

commit == Close("commit")
cancel == Close("rollback")

-----------------------------------------------------------------------------
(* The answer arrives and the call goes on.                                 *)

Finish(r) ==
  /\ Return(r)
  /\ todo' = NoStmt
  /\ answer' = "none"
  /\ UNCHANGED <<conn, writeable, savepoint_counter, goal, orphan, server>>

(* The stack of names after a failed SAVEPOINT, and after a failed RELEASE  *)
(* or ROLLBACK TO.                                                          *)
UndoPushNot == savepoints                      \* mutant: the name stays
UndoPush == Pop(savepoints)
PushBackNot == savepoints                      \* mutant: the name is gone
PushBack == Append(savepoints, held)

Answered ==
  \/ /\ cont \in {"plain", "put", "cas", "setm", "close"}
     /\ answer = "err"
     /\ Finish("err")
     /\ UNCHANGED savepoints
  \/ /\ cont \in {"plain", "put", "cas"}
     /\ answer = "ok"
     /\ Finish("ok")
     /\ UNCHANGED savepoints
  \/ /\ cont = "put"
     /\ answer = "zero"
     /\ Finish("KeyAlreadyExists")
     /\ UNCHANGED savepoints
  \/ /\ cont = "cas"
     /\ answer = "zero"
     /\ Finish("ConditionNotMet")
     /\ UNCHANGED savepoints
  \/ /\ cont = "setm"
     /\ answer = "ok"
     /\ ~MoreChunks
     /\ Finish("setmOk")
     /\ UNCHANGED savepoints
  \/ /\ cont = "close"
     /\ answer = "ok"
     /\ Finish(IF todo.kind = "commit" THEN "committed" ELSE "ok")
     /\ UNCHANGED savepoints

SavepointAnswered ==
  \/ /\ cont = "savepoint"
     /\ answer \in {"ok", "err"}
     /\ Finish(answer)
     /\ savepoints' = IF answer = "err" THEN UndoPush ELSE savepoints
  \/ /\ cont = "release"
     /\ answer \in {"ok", "err"}
     /\ Finish(answer)
     /\ savepoints' = IF answer = "err" THEN PushBack ELSE savepoints
  \/ /\ cont \in {"rollback", "rollbackRelease"}
     /\ answer = "err"
     /\ Finish("err")
     /\ savepoints' = PushBack
  \/ /\ cont = "rollbackRelease"
     /\ answer = "ok"
     /\ Finish("rolledBack")
     /\ UNCHANGED savepoints

(* ROLLBACK TO is done: the savepoint itself is released.                   *)
ReleaseRestored ==
  /\ cont = "rollback"
  /\ answer = "ok"
  /\ cont' = "rollbackRelease"
  /\ todo' = [kind |-> "release", name |-> held.name]
  /\ answer' = "none"
  /\ UNCHANGED <<client, held, batch, start, goal, reply, orphan, server>>

(* The caller drops the future.  A statement already sent becomes an orphan *)
(* unless it was answered; one still waiting for an orphan is forgotten.    *)
DropFuture ==
  /\ DropFutures
  /\ ~Idle
  /\ orphan' = IF orphan = NoStmt /\ answer = "none" THEN todo ELSE orphan
  /\ Return("none")
  /\ todo' = NoStmt
  /\ answer' = "none"
  /\ UNCHANGED <<client, goal, server>>

-----------------------------------------------------------------------------
CallKv ==
  \/ Read
  \/ \E k \in Key, v \in Val : set(k, v) \/ put(k, v)
  \/ \E k \in Key, v \in Val, c \in Val \cup {NoVal} : putc(k, v, c)
  \/ \E k \in Key : del(k)
  \/ \E k \in Key, c \in Val \cup {NoVal} : delc(k, c)
  \/ \E lo, hi \in Key : delr(lo, hi) \/ delr(lo, hi + 1)
  \/ \E pairs \in BoundedSeq(Key \X Val, MaxPairs) : setm(pairs)

CallSavepoint ==
  \/ new_save_point
  \/ release_last_save_point
  \/ rollback_to_save_point
  \/ NoSavepointLeft
  \/ NewSavepointClosed

Next ==
  \/ CallKv
  \/ CallSavepoint
  \/ commit
  \/ cancel
  \/ Execute
  \/ ExecuteOrphan
  \/ LoseConnection
  \/ LoseCommitAnswer
  \/ NextChunk
  \/ Answered
  \/ SavepointAnswered
  \/ ReleaseRestored
  \/ DropFuture

Spec == Init /\ [][Next]_vars

-----------------------------------------------------------------------------
(* Properties.                                                              *)

(* Between calls, whichever statements failed, the client's stack of names  *)
(* is the server's stack of savepoints, each with the view the caller saw   *)
(* when it made it, although the counter wraps around and names repeat.     *)
StacksAgree == Idle /\ Alive /\ conn => savepoints = stack

(* A rollback_to_save_point that returns Ok has restored exactly the view   *)
(* the caller saw when it made its innermost savepoint, whatever futures    *)
(* were dropped since.                                                      *)
RollbackRestores ==
  [][reply' = "rolledBack" /\ ~Idle /\ cont' = "idle" => view = goal]_vars

(* A setm that returns Ok has the effect of setting its pairs in turn, the  *)
(* last value of a repeated key included, in however many chunks.           *)
SetmLastWins ==
  [][reply' = "setmOk" /\ ~Idle /\ cont' = "idle" => view = goal]_vars

(* put, putc and delc are exact: Ok only if the caller's view met the       *)
(* condition, and KeyAlreadyExists or ConditionNotMet only if it did not;   *)
(* then nothing has changed and, unlike after a failed statement, the       *)
(* transaction can go on.                                                   *)
Met == goal[todo.key] = IF todo.kind = "put" THEN NoVal ELSE todo.chk
Conclusive ==
  /\ reply' = "ok" => Met
  /\ reply' \in {"KeyAlreadyExists", "ConditionNotMet"}
       => ~Met /\ view = goal /\ status # "aborted"
ConditionalExact ==
  [][cont' = "idle" /\ cont \in {"put", "cas"} => Conclusive]_vars

(* Savepoints with generated names, two-step rollbacks and chunked batches  *)
(* implement a transaction with a stack of anonymous snapshots.             *)
frames == [i \in DOMAIN stack |-> stack[i].snap]
Nested == INSTANCE NestedTx WITH Views <- Views, table <- table, view <- view,
                                 frames <- frames, status <- status
ImplementsNested == Nested!Spec

(* setm: "If a chunk fails midway, previously successful chunks remain in   *)
(* the transaction buffer -- the caller can commit() (partial data)".  A    *)
(* commit() that returned Ok has committed what the transaction had done.   *)
PartialSetmCommits == reply = "committed" => table = view

(* Three invariants about the pure operators of KvBatch, for all inputs     *)
(* within the bounds, on the table the transaction finds, which is any      *)
(* table before its first call.                                             *)
BeforeFirstCall == cont = "idle" /\ reply = "none" /\ todo = NoStmt

Batches == BoundedSeq(Key \X Val, MaxPairs)
KeyLists == BoundedSeq(Key, MaxPairs)
Ends == Key \cup {k + 1 : k \in Key}

(* setm's deduplication: each key occurs once (PostgreSQL rejects a second  *)
(* row for it) and sending the result in one statement or in several, in    *)
(* whatever order the HashMap yields, equals setting the pairs in turn.     *)
DedupKeepsLast ==
  BeforeFirstCall =>
    \A pairs \in Batches : \A d \in dedup_pairs(pairs) :
      /\ \A i, j \in DOMAIN d : d[i][1] = d[j][1] => i = j
      /\ SetAll(table, d) = SetAll(table, pairs)

(* getm answers every key in its own place, repeated and missing keys       *)
(* included, on both search paths and for every order of the rows.          *)
GetmInPlace ==
  BeforeFirstCall =>
    \A keys \in KeyLists :
      getm(table, keys) = {[i \in DOMAIN keys |-> table[keys[i]]]}

(* Keyset pagination with scan() returns exactly what getr() returns in one *)
(* statement, in as many rows as count() says, for every range and page     *)
(* size, an empty or inverted range included.                               *)
PagesAddUp ==
  BeforeFirstCall =>
    \A from \in Ends, end \in Ends, limit \in 1..Cardinality(Key) :
      LET paged == PagedScan(table, from, end, limit)
      IN  /\ paged.over
          /\ paged.rows = getr(table, from, end)
          /\ Len(paged.rows) = count(table, from, end)

=============================================================================
