------------------------------ MODULE KvBatch ------------------------------
(***************************************************************************)
(* The pure parts of PgTransaction (src/transaction.rs): the deduplication *)
(* that setm performs before it sends a batch, the reassembly of getm's    *)
(* answer, and range scans with the keyset pagination they are used for.   *)
(*                                                                         *)
(* Keys are numbers in the order of the code's byte strings; the successor *)
(* last_key + \x00 of a key is then the next number.  A table is a         *)
(* function from keys to values or NoVal.  The limits of the code (32      *)
(* pairs, 64 rows and 8192 comparisons) are parameters, so that both sides *)
(* of each are met on small inputs.                                        *)
(***************************************************************************)
EXTENDS Integers, Sequences, SequencesExt

CONSTANTS
  NoVal,          \* the absence of a value (None)
  DedupLinear,    \* most pairs that dedup_pairs scans linearly (32)
  GetmRows,       \* most rows that getm searches linearly (64)
  GetmProduct     \* most row comparisons of getm's linear search (8192)

ASSUME KvBatchAssumption ==
  /\ DedupLinear \in Nat
  /\ GetmRows \in Nat
  /\ GetmProduct \in Nat

-----------------------------------------------------------------------------
(* dedup_pairs: one pair for each key.  A HashMap is read back in any       *)
(* order, so the result is a set of possible sequences.                     *)

Insert(map, p) ==
  [k \in DOMAIN map \cup {p[1]} |-> IF k = p[1] THEN p[2] ELSE map[k]]

KeepOrReplaceFirst(result, p) ==     \* mutant: the first value wins
  IF \E i \in DOMAIN result : result[i][1] = p[1] THEN result
                                                  ELSE Append(result, p)
KeepOrReplace(result, p) ==
  LET i == SelectInSeq(result, LAMBDA r : r[1] = p[1])
  IN  IF i = 0 THEN Append(result, p) ELSE [result EXCEPT ![i] = p]

dedup_pairs(pairs) ==
  IF Len(pairs) <= 1 THEN {pairs}
  ELSE IF Len(pairs) <= DedupLinear
       THEN {FoldLeft(KeepOrReplace, <<>>, pairs)}
       ELSE LET map == FoldLeft(Insert, <<>>, pairs)
            IN  SetToSeqs({<<k, map[k]>> : k \in DOMAIN map})

(* The effect of setting the pairs one after the other: what setm promises. *)
SetOne(table, p) == [table EXCEPT ![p[1]] = p[2]]
SetAll(table, pairs) == FoldLeft(SetOne, table, pairs)

-----------------------------------------------------------------------------
(* getm: PostgreSQL returns the rows of the requested keys once each and in *)
(* any order; the code puts one answer in the place of every key.           *)

RowsOf(table, keys) ==
  SetToSeqs({<<k, table[k]>> : k \in {k \in ToSet(keys) : table[k] # NoVal}})

FindRow(rows, k) ==
  LET i == SelectInSeq(rows, LAMBDA r : r[1] = k)
  IN  IF i = 0 THEN NoVal ELSE rows[i][2]

AssembleByRow(keys, rows) ==         \* mutant: rows are taken in order
  [i \in DOMAIN keys |-> IF i \in DOMAIN rows THEN rows[i][2] ELSE NoVal]
Assemble(keys, rows) ==
  IF Len(rows) <= GetmRows /\ Len(rows) * Len(keys) <= GetmProduct
  THEN [i \in DOMAIN keys |-> FindRow(rows, keys[i])]
  ELSE LET map == FoldLeft(Insert, <<>>, rows)
       IN  [i \in DOMAIN keys |->
              IF keys[i] \in DOMAIN map THEN map[keys[i]] ELSE NoVal]

getm(table, keys) ==
  IF keys = <<>> THEN {<<>>} ELSE {Assemble(keys, rows) : rows \in RowsOf(table, keys)}

-----------------------------------------------------------------------------
(* Range scans over [start, end): ORDER BY key, LIMIT and OFFSET (keysr and *)
(* scanr, the descending ones, only reverse the order).                     *)

InRange(table, start, end) ==
  {k \in DOMAIN table : start <= k /\ k < end /\ table[k] # NoVal}

Limited(seq, limit, skip) ==
  SubSeq(seq, skip + 1, IF skip + limit < Len(seq) THEN skip + limit ELSE Len(seq))

(* ORDER BY key.                                                            *)
Increasing(seq) == \A i, j \in DOMAIN seq : i < j => seq[i] < seq[j]
ByKey(S) ==
  CHOOSE seq \in [1..Cardinality(S) -> S] :
    Increasing(seq) /\ \A k \in S : \E i \in DOMAIN seq : seq[i] = k

keys_asc(table, start, end, limit, skip) ==
  IF start >= end THEN <<>>
  ELSE Limited(ByKey(InRange(table, start, end)), limit, skip)

scan_asc(table, start, end, limit, skip) ==
  LET ks == keys_asc(table, start, end, limit, skip)
  IN  [i \in DOMAIN ks |-> <<ks[i], table[ks[i]]>>]

getr(table, start, end) ==
  IF start >= end THEN <<>>
  ELSE LET ks == ByKey(InRange(table, start, end))
       IN  [i \in DOMAIN ks |-> <<ks[i], table[ks[i]]>>]

count(table, start, end) ==
  IF start >= end THEN 0 ELSE Cardinality(InRange(table, start, end))

(* The cursor of SurrealDB's trait: the next page starts just above the     *)
(* last key; an empty page ends the scan.                                   *)
NextStartSame(last) == last          \* mutant: the last key is read again
NextStart(last) == last + 1

NextPage(table, end, limit, p) ==
  LET page == scan_asc(table, p.from, end, limit, 0)
  IN  IF p.over \/ page = <<>> THEN [p EXCEPT !.over = TRUE]
      ELSE [rows |-> p.rows \o page,
            from |-> NextStart(page[Len(page)][1]),
            over |-> FALSE]

PagedScan(table, start, end, limit) ==
  LET last == Cardinality(DOMAIN table) + 1
      pages[n \in 0..last] ==
        IF n = 0 THEN [rows |-> <<>>, from |-> start, over |-> FALSE]
        ELSE NextPage(table, end, limit, pages[n-1])
  IN  pages[last]

=============================================================================
