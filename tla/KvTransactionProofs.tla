------------------------- MODULE KvTransactionProofs -------------------------
(***************************************************************************)
(* TLAPS proofs about KvBatch and KvTransaction, for any keys and values,  *)
(* batches of any length, and chunks and savepoint counters of any size.   *)
(***************************************************************************)
EXTENDS KvTransaction, FiniteSetTheorems, SequenceTheorems, TLAPS

Setting == INSTANCE Folding WITH Op <- SetOne
Mapping == INSTANCE Folding WITH Op <- Insert
Keeping == INSTANCE Folding WITH Op <- KeepOrReplace

Pairs == Key \X Val

-----------------------------------------------------------------------------
(* setm: the effect of a batch is that of the map of its last values.       *)

LastValues(pairs) == FoldLeft(Insert, <<>>, pairs)
Kept(pairs) == FoldLeft(KeepOrReplace, <<>>, pairs)

(* SetAll, the HashMap and the linear scan are folds of one operator each.  *)
LEMMA FoldsAre ==
  \A pairs : /\ \A base : SetAll(base, pairs) = Setting!Fold(base, pairs)
             /\ LastValues(pairs) = Mapping!Fold(<<>>, pairs)
             /\ Kept(pairs) = Keeping!Fold(<<>>, pairs)
<1>1. \A pairs, base : SetAll(base, pairs) = Setting!Fold(base, pairs)
  BY SMT DEF SetAll, FoldLeft, MapThenFoldSet, Max,
             Setting!Fold, Setting!FoldLeft, Setting!MapThenFoldSet, Setting!Max
<1>2. \A pairs : LastValues(pairs) = Mapping!Fold(<<>>, pairs)
  BY SMT DEF LastValues, FoldLeft, MapThenFoldSet, Max,
             Mapping!Fold, Mapping!FoldLeft, Mapping!MapThenFoldSet, Mapping!Max
<1>3. \A pairs : Kept(pairs) = Keeping!Fold(<<>>, pairs)
  BY SMT DEF Kept, FoldLeft, MapThenFoldSet, Max,
             Keeping!Fold, Keeping!FoldLeft, Keeping!MapThenFoldSet, Keeping!Max
<1> QED
  BY <1>1, <1>2, <1>3

(* What each of them makes of an empty batch ...                            *)
LEMMA FoldsOfNothing ==
  /\ \A base : SetAll(base, <<>>) = base
  /\ LastValues(<<>>) = <<>>
  /\ Kept(<<>>) = <<>>
BY FoldsAre, Setting!FoldEmpty, Mapping!FoldEmpty, Keeping!FoldEmpty

(* ... and of one pair more.                                                *)
LEMMA FoldsOfOneMore ==
  ASSUME NEW pairs \in Seq(Pairs), NEW p \in Pairs
  PROVE  /\ \A base : SetAll(base, Append(pairs, p)) = SetOne(SetAll(base, pairs), p)
         /\ LastValues(Append(pairs, p)) = Insert(LastValues(pairs), p)
         /\ Kept(Append(pairs, p)) = KeepOrReplace(Kept(pairs), p)
<1> HIDE DEF Pairs
<1> QED
  BY FoldsAre, Setting!FoldAppend, Mapping!FoldAppend, Keeping!FoldAppend

(* Batches in turn are their concatenation.                                 *)
LEMMA SetAllConcat ==
  ASSUME NEW p \in Seq(Pairs), NEW q \in Seq(Pairs), NEW base
  PROVE  SetAll(SetAll(base, p), q) = SetAll(base, p \o q)
<1> HIDE DEF Pairs
<1> QED
  BY FoldsAre, Setting!FoldConcat

(* The map has the keys of the batch, each with one of its values.          *)
IsMapOf(pairs, map) ==
  /\ map = [k \in DOMAIN map |-> map[k]]
  /\ DOMAIN map = {pairs[i][1] : i \in DOMAIN pairs}
  /\ \A k \in DOMAIN map : \E i \in DOMAIN pairs : pairs[i] = <<k, map[k]>>

(* The map of the last values is a map of the batch.                        *)
LEMMA LastValuesAre ==
  \A pairs \in Seq(Pairs) : IsMapOf(pairs, LastValues(pairs))
<1> DEFINE T == {pairs \in Seq(Pairs) : IsMapOf(pairs, LastValues(pairs))}
<1>1. <<>> \in T
  <2>1. DOMAIN <<>> = {} /\ <<>> = [k \in DOMAIN <<>> |-> <<>>[k]] /\ <<>> \in Seq(Pairs)
    OBVIOUS
  <2>2. IsMapOf(<<>>, <<>>)
    BY <2>1, Zenon DEF IsMapOf
  <2> QED
    BY <2>1, <2>2, FoldsOfNothing
<1>2. ASSUME NEW pairs \in Seq(Pairs), NEW p \in Pairs, pairs \in T
      PROVE  Append(pairs, p) \in T
  <2> DEFINE map == LastValues(pairs)
             longer == Append(pairs, p)
             new == Insert(map, p)
  <2>1. IsMapOf(pairs, map) /\ LastValues(longer) = new
    BY <1>2, FoldsOfOneMore
  <2>2. /\ longer \in Seq(Pairs)
        /\ DOMAIN longer = DOMAIN pairs \cup {Len(pairs) + 1}
        /\ longer[Len(pairs) + 1] = p
        /\ \A i \in DOMAIN pairs : longer[i] = pairs[i]
    OBVIOUS
  <2>3. /\ DOMAIN new = DOMAIN map \cup {p[1]} /\ new[p[1]] = p[2]
        /\ \A k \in DOMAIN map : k # p[1] => new[k] = map[k]
        /\ new = [k \in DOMAIN new |-> new[k]]
    <3> HIDE DEF map
    <3> QED
      BY DEF Insert
  <2>4. p = <<p[1], p[2]>>
    BY DEF Pairs
  <2> HIDE DEF map, longer, new
  <2>5. DOMAIN new = {longer[i][1] : i \in DOMAIN longer}
    BY <2>1, <2>2, <2>3 DEF IsMapOf
  <2>6. ASSUME NEW k \in DOMAIN new
        PROVE  \E i \in DOMAIN longer : longer[i] = <<k, new[k]>>
    <3>1. CASE k = p[1]
      <4>1. longer[Len(pairs) + 1] = <<k, new[k]>>
        BY <2>2, <2>3, <2>4, <3>1
      <4> QED
        BY <2>2, <4>1
    <3>2. CASE k # p[1]
      <4>1. k \in DOMAIN map /\ new[k] = map[k]
        BY <2>3, <3>2
      <4>2. PICK i \in DOMAIN pairs : pairs[i] = <<k, map[k]>>
        BY <2>1, <4>1 DEF IsMapOf
      <4> QED
        BY <2>2, <4>1, <4>2
    <3> QED
      BY <3>1, <3>2
  <2> QED
    BY <2>1, <2>2, <2>3, <2>5, <2>6 DEF IsMapOf, longer
<1>3. \A pairs \in Seq(Pairs) : pairs \in T
  <2> HIDE DEF T, Pairs
  <2> QED
    BY <1>1, <1>2, Mapping!SequenceInduction
<1> QED
  BY <1>3

Overwritten(base, map) ==
  [k \in Key |-> IF k \in DOMAIN map THEN map[k] ELSE base[k]]

(* Setting the pairs in turn writes each key's last value.                  *)
LEMMA SetAllIs ==
  ASSUME NEW base \in Views
  PROVE  \A pairs \in Seq(Pairs) :
           SetAll(base, pairs) = Overwritten(base, LastValues(pairs))
<1> DEFINE T == {pairs \in Seq(Pairs) :
                   SetAll(base, pairs) = Overwritten(base, LastValues(pairs))}
<1>1. <<>> \in T
  BY FoldsOfNothing DEF Overwritten, Views
<1>2. ASSUME NEW pairs \in Seq(Pairs), NEW p \in Pairs, pairs \in T
      PROVE  Append(pairs, p) \in T
  <2> DEFINE map == LastValues(pairs)
             new == Insert(map, p)
  <2>1. /\ SetAll(base, Append(pairs, p)) = SetOne(Overwritten(base, map), p)
        /\ LastValues(Append(pairs, p)) = new
    BY <1>2, FoldsOfOneMore
  <2>2. /\ DOMAIN new = DOMAIN map \cup {p[1]} /\ new[p[1]] = p[2]
        /\ \A k \in DOMAIN map : k # p[1] => new[k] = map[k]
    <3> HIDE DEF map
    <3> QED
      BY DEF Insert
  <2> HIDE DEF map, new
  <2>3. SetOne(Overwritten(base, map), p) = Overwritten(base, new)
    BY <2>2 DEF SetOne, Overwritten, Pairs
  <2> QED
    BY <2>1, <2>3
<1>3. \A pairs \in Seq(Pairs) : pairs \in T
  <2> HIDE DEF T, Pairs
  <2> QED
    BY <1>1, <1>2, Mapping!SequenceInduction
<1> QED
  BY <1>3

(* A batch turns a view into a view.                                        *)
LEMMA SetAllTyped ==
  ASSUME NEW base \in Views, NEW pairs \in Seq(Pairs)
  PROVE  SetAll(base, pairs) \in Views
<1> DEFINE map == LastValues(pairs)
<1>1. SetAll(base, pairs) = Overwritten(base, map)
  BY SetAllIs
<1>2. \A k \in DOMAIN map : map[k] \in Val
  <2>1. \A i \in DOMAIN pairs : pairs[i] \in Pairs
    OBVIOUS
  <2>2. IsMapOf(pairs, map)
    BY LastValuesAre
  <2> HIDE DEF map
  <2> SUFFICES ASSUME NEW k \in DOMAIN map
               PROVE  map[k] \in Val
    OBVIOUS
  <2>3. PICK i \in DOMAIN pairs : pairs[i] = <<k, map[k]>>
    BY <2>2 DEF IsMapOf
  <2>4. <<k, map[k]>> \in Key \X Val
    BY <2>1, <2>3 DEF Pairs
  <2> QED
    BY <2>4
<1> HIDE DEF map
<1> QED
  BY <1>1, <1>2 DEF Overwritten, Views

-----------------------------------------------------------------------------
(* dedup_pairs.                                                             *)

(* The rows of a map, and a batch that lists them, each key once.           *)
Rows(map) == {<<k, map[k]>> : k \in DOMAIN map}
Lists(batched, map) ==
  /\ batched \in Seq(Pairs)
  /\ {batched[i] : i \in DOMAIN batched} = Rows(map)
  /\ \A i, j \in DOMAIN batched : batched[i][1] = batched[j][1] => i = j

(* The linear scan appends a pair with a new key, else replaces the old one.*)
LEMMA KeepCases ==
  ASSUME NEW result \in Seq(Pairs), NEW p
  PROVE  \/ /\ \A i \in DOMAIN result : result[i][1] # p[1]
            /\ KeepOrReplace(result, p) = Append(result, p)
         \/ \E i \in DOMAIN result : /\ result[i][1] = p[1]
                                     /\ KeepOrReplace(result, p) = [result EXCEPT ![i] = p]
<1> DEFINE I == {i \in 1..Len(result) : result[i][1] = p[1]}
           m == IF I # {} THEN Min(I) ELSE 0
<1>1. KeepOrReplace(result, p) = IF m = 0 THEN Append(result, p)
                                          ELSE [result EXCEPT ![m] = p]
  BY DEF KeepOrReplace, SelectInSeq
<1>2. DOMAIN result = 1..Len(result)
  OBVIOUS
<1>3. CASE I = {}
  BY <1>1, <1>2, <1>3
<1>4. CASE I # {}
  <2>1. I \in SUBSET Nat
    OBVIOUS
  <2>2. \E i \in I : \A j \in I : i <= j
    BY <1>4, <2>1, Mapping!LeastIndex
  <2>3. m \in I
    BY <1>4, <2>2 DEF Min
  <2> HIDE DEF m
  <2>4. m \in DOMAIN result /\ result[m][1] = p[1] /\ m # 0
    BY <1>2, <2>3
  <2> QED
    BY <1>1, <2>4
<1> QED
  BY <1>3, <1>4

(* One more pair, in the batch and in the map.                              *)
LEMMA KeepLists ==
  ASSUME NEW map, NEW result, Lists(result, map), NEW p \in Pairs
  PROVE  /\ Lists(KeepOrReplace(result, p), Insert(map, p))
         /\ Len(KeepOrReplace(result, p)) \in 1..(Len(result) + 1)
<1> DEFINE new == Insert(map, p)
           kept == KeepOrReplace(result, p)
<1>1. /\ result \in Seq(Pairs)
      /\ {result[i] : i \in DOMAIN result} = Rows(map)
      /\ \A i, j \in DOMAIN result : result[i][1] = result[j][1] => i = j
      /\ DOMAIN result = 1..Len(result) /\ Len(result) \in Nat
  BY DEF Lists
<1>2. /\ DOMAIN new = DOMAIN map \cup {p[1]} /\ new[p[1]] = p[2]
      /\ \A k \in DOMAIN map : k # p[1] => new[k] = map[k]
  BY DEF Insert
<1>3. p = <<p[1], p[2]>>
  BY DEF Pairs
<1> HIDE DEF new
<1>4. Rows(new) = {row \in Rows(map) : row[1] # p[1]} \cup {p}
  <2>1. Rows(new) \subseteq {row \in Rows(map) : row[1] # p[1]} \cup {p}
    <3> SUFFICES ASSUME NEW k \in DOMAIN new
                 PROVE  <<k, new[k]>> \in {row \in Rows(map) : row[1] # p[1]} \cup {p}
      BY DEF Rows
    <3>1. CASE k = p[1]
      BY <1>2, <1>3, <3>1
    <3>2. CASE k # p[1]
      <4>1. k \in DOMAIN map /\ new[k] = map[k]
        BY <1>2, <3>2
      <4> QED
        BY <3>2, <4>1 DEF Rows
    <3> QED
      BY <3>1, <3>2
  <2>2. p \in Rows(new)
    BY <1>2, <1>3 DEF Rows
  <2>3. ASSUME NEW row \in Rows(map), row[1] # p[1]
        PROVE  row \in Rows(new)
    <3>1. PICK k \in DOMAIN map : row = <<k, map[k]>>
      BY DEF Rows
    <3>2. k # p[1]
      BY <2>3, <3>1
    <3> QED
      BY <1>2, <3>1, <3>2 DEF Rows
  <2> QED
    BY <2>1, <2>2, <2>3
<1>5. CASE /\ \A i \in DOMAIN result : result[i][1] # p[1]
           /\ kept = Append(result, p)
  <2>1. /\ kept \in Seq(Pairs) /\ Len(kept) = Len(result) + 1
        /\ DOMAIN kept = DOMAIN result \cup {Len(result) + 1}
        /\ kept[Len(result) + 1] = p
        /\ \A i \in DOMAIN result : kept[i] = result[i]
    BY <1>1, <1>5
  <2> HIDE DEF kept
  <2>2. \A row \in Rows(map) : row[1] # p[1]
    BY <1>1, <1>5
  <2>3. {kept[i] : i \in DOMAIN kept} = Rows(map) \cup {p}
    BY <1>1, <2>1
  <2>4. Rows(map) \cup {p} = Rows(new)
    BY <1>4, <2>2
  <2>5. \A i, j \in DOMAIN kept : kept[i][1] = kept[j][1] => i = j
    BY <1>1, <1>5, <2>1
  <2>6. Len(kept) \in 1..(Len(result) + 1)
    BY <1>1, <2>1
  <2> QED
    BY <2>1, <2>3, <2>4, <2>5, <2>6 DEF Lists, new, kept
<1>6. ASSUME NEW m \in DOMAIN result, result[m][1] = p[1],
             kept = [result EXCEPT ![m] = p]
      PROVE  /\ Lists(kept, new)
             /\ Len(kept) \in 1..(Len(result) + 1)
  <2>1. /\ kept \in Seq(Pairs) /\ Len(kept) = Len(result)
        /\ DOMAIN kept = DOMAIN result
        /\ kept[m] = p
        /\ \A i \in DOMAIN result : i # m => kept[i] = result[i]
    BY <1>1, <1>6
  <2> HIDE DEF kept
  <2>2. \A i \in DOMAIN kept : kept[i][1] = result[i][1]
    BY <1>6, <2>1
  <2>3. \A i, j \in DOMAIN kept : kept[i][1] = kept[j][1] => i = j
    BY <1>1, <2>1, <2>2
  <2>4. {kept[i] : i \in DOMAIN kept} = Rows(new)
    <3>1. ASSUME NEW i \in DOMAIN kept
          PROVE  kept[i] \in Rows(new)
      <4>1. CASE i = m
        BY <1>4, <2>1, <4>1
      <4>2. CASE i # m
        <5>1. kept[i] \in Rows(map) /\ kept[i][1] # p[1]
          BY <1>1, <1>6, <2>1, <4>2
        <5> QED
          BY <1>4, <5>1
      <4> QED
        BY <4>1, <4>2
    <3>2. ASSUME NEW row \in Rows(new)
          PROVE  \E i \in DOMAIN kept : kept[i] = row
      <4>1. CASE row = p
        BY <2>1, <4>1
      <4>2. CASE row \in Rows(map) /\ row[1] # p[1]
        <5>1. PICK i \in DOMAIN result : result[i] = row
          BY <1>1, <4>2
        <5>2. i # m
          BY <1>6, <4>2, <5>1
        <5> QED
          BY <2>1, <5>1, <5>2
      <4> QED
        BY <1>4, <4>1, <4>2
    <3> QED
      BY <3>1, <3>2
  <2>5. Len(kept) \in 1..(Len(result) + 1)
    BY <1>1, <2>1
  <2> QED
    BY <2>1, <2>3, <2>4, <2>5 DEF Lists
<1>7. \/ /\ \A i \in DOMAIN result : result[i][1] # p[1]
         /\ kept = Append(result, p)
      \/ \E i \in DOMAIN result : result[i][1] = p[1] /\ kept = [result EXCEPT ![i] = p]
  BY <1>1, KeepCases
<1> QED
  BY <1>5, <1>6, <1>7 DEF new

(* The linear scan.                                                         *)
LEMMA KeptLists ==
  \A pairs \in Seq(Pairs) : /\ Lists(Kept(pairs), LastValues(pairs))
                            /\ Len(Kept(pairs)) <= Len(pairs)
<1> DEFINE T == {pairs \in Seq(Pairs) : /\ Lists(Kept(pairs), LastValues(pairs))
                                        /\ Len(Kept(pairs)) <= Len(pairs)}
<1>1. <<>> \in T
  <2>1. DOMAIN <<>> = {} /\ <<>> \in Seq(Pairs) /\ Len(<<>>) = 0
    OBVIOUS
  <2>2. Lists(<<>>, <<>>)
    BY <2>1, Zenon DEF Lists, Rows
  <2> QED
    BY <2>1, <2>2, FoldsOfNothing
<1>2. ASSUME NEW pairs \in Seq(Pairs), NEW p \in Pairs, pairs \in T
      PROVE  Append(pairs, p) \in T
  <2> DEFINE map == LastValues(pairs)
             result == Kept(pairs)
  <2>1. Lists(result, map) /\ Len(result) <= Len(pairs)
    BY <1>2
  <2>2. /\ LastValues(Append(pairs, p)) = Insert(map, p)
        /\ Kept(Append(pairs, p)) = KeepOrReplace(result, p)
    BY FoldsOfOneMore
  <2> HIDE DEF map, result
  <2>3. /\ Lists(KeepOrReplace(result, p), Insert(map, p))
        /\ Len(KeepOrReplace(result, p)) \in 1..(Len(result) + 1)
    BY <2>1, KeepLists
  <2>4. result \in Seq(Pairs)
    BY <2>1 DEF Lists
  <2>5. /\ Append(pairs, p) \in Seq(Pairs)
        /\ Len(Append(pairs, p)) = Len(pairs) + 1
        /\ Len(pairs) \in Nat /\ Len(result) \in Nat
    BY <2>4
  <2>6. Len(KeepOrReplace(result, p)) <= Len(Append(pairs, p))
    BY <2>1, <2>3, <2>5
  <2> QED
    BY <2>2, <2>3, <2>5, <2>6
<1>3. \A pairs \in Seq(Pairs) : pairs \in T
  <2> HIDE DEF T, Pairs
  <2> QED
    BY <1>1, <1>2, Mapping!SequenceInduction
<1> QED
  BY <1>3

(* The sequences that list a finite set, each element once: there is one.   *)
LEMMA SeqsOfSet ==
  ASSUME NEW S, IsFiniteSet(S)
  PROVE  /\ SetToSeqs(S) # {}
         /\ \A f \in SetToSeqs(S) :
              /\ f \in Seq(S) /\ Len(f) = Cardinality(S) /\ DOMAIN f = 1..Len(f)
              /\ {f[i] : i \in DOMAIN f} = S
              /\ \A i, j \in DOMAIN f : f[i] = f[j] => i = j
<1> DEFINE n == Cardinality(S)
<1>1. n \in Nat /\ IsFiniteSet(1..n) /\ Cardinality(1..n) = n
  BY FS_CardinalityType, FS_Interval
<1>2. SetToSeqs(S) = {f \in [1..n -> S] : \A i, j \in 1..n : i # j => f[i] # f[j]}
  BY DEF SetToSeqs
<1>3. SetToSeqs(S) # {}
  <2>1. ExistsBijection(1..n, S)
    BY FS_CardinalityType
  <2>2. PICK f : f \in Bijection(1..n, S)
    BY <2>1 DEF ExistsBijection
  <2> HIDE DEF n
  <2>3. f \in SetToSeqs(S)
    BY <1>2, <2>2 DEF Bijection, Injection, IsInjective
  <2> QED
    BY <2>3
<1>4. ASSUME NEW f \in SetToSeqs(S)
      PROVE  /\ f \in Seq(S) /\ Len(f) = n /\ DOMAIN f = 1..Len(f)
             /\ {f[i] : i \in DOMAIN f} = S
             /\ \A i, j \in DOMAIN f : f[i] = f[j] => i = j
  <2>1. f \in [1..n -> S] /\ \A i, j \in 1..n : f[i] = f[j] => i = j
    BY <1>2
  <2>2. f \in Injection(1..n, S)
    BY <2>1 DEF Injection, IsInjective
  <2>3. f \in Surjection(1..n, S)
    BY <1>1, <2>2, FS_Injection
  <2> HIDE DEF n
  <2>4. f \in Seq(S) /\ Len(f) = n /\ DOMAIN f = 1..n
    BY <1>1, <2>1
  <2> QED
    BY <2>1, <2>3, <2>4 DEF Surjection
<1> QED
  BY <1>3, <1>4

(* The HashMap, read back in any order.                                     *)
LEMMA MapLists ==
  ASSUME NEW pairs \in Seq(Pairs), NEW batched \in SetToSeqs(Rows(LastValues(pairs)))
  PROVE  Lists(batched, LastValues(pairs)) /\ Len(batched) <= Len(pairs)
<1> DEFINE map == LastValues(pairs)
           all == {pairs[i] : i \in DOMAIN pairs}
           n == Cardinality(Rows(map))
<1>1. /\ DOMAIN pairs = 1..Len(pairs) /\ Len(pairs) \in Nat
      /\ all \subseteq Pairs
  OBVIOUS
<1>2. Rows(map) \subseteq all
  <2>1. IsMapOf(pairs, map)
    BY LastValuesAre
  <2> HIDE DEF map
  <2> QED
    BY <2>1 DEF IsMapOf, Rows
<1>3. IsFiniteSet(Rows(map)) /\ n \in Nat /\ n <= Len(pairs)
  <2>1. IsFiniteSet(1..Len(pairs)) /\ Cardinality(1..Len(pairs)) = Len(pairs)
    BY <1>1, FS_Interval
  <2>2. pairs \in Surjection(1..Len(pairs), all)
    BY <1>1 DEF Surjection
  <2>3. IsFiniteSet(all) /\ Cardinality(all) <= Len(pairs) /\ Cardinality(all) \in Nat
    BY <2>1, <2>2, FS_Surjection, FS_CardinalityType
  <2>4. IsFiniteSet(Rows(map)) /\ n <= Cardinality(all)
    BY <1>2, <2>3, FS_Subset
  <2> QED
    BY <1>1, <2>3, <2>4, FS_CardinalityType
<1> HIDE DEF all
<1>4. /\ batched \in Seq(Rows(map)) /\ Len(batched) = n
      /\ {batched[i] : i \in DOMAIN batched} = Rows(map)
      /\ \A i, j \in DOMAIN batched : batched[i] = batched[j] => i = j
  BY <1>3, SeqsOfSet
<1> HIDE DEF map, n
<1>5. batched \in Seq(Pairs)
  BY <1>1, <1>2, <1>4
<1>6. ASSUME NEW i \in DOMAIN batched, NEW j \in DOMAIN batched,
             batched[i][1] = batched[j][1]
      PROVE  i = j
  <2>1. batched[i] \in Rows(map) /\ batched[j] \in Rows(map)
    BY <1>4
  <2>2. batched[i] = batched[j]
    BY <1>6, <2>1 DEF Rows
  <2> QED
    BY <1>4, <2>2
<1> QED
  BY <1>3, <1>4, <1>5, <1>6 DEF Lists, map

(* dedup_pairs, whichever way it takes, lists the map of the last values.   *)
LEMMA DedupLists ==
  ASSUME NEW pairs \in Seq(Pairs), NEW batched \in dedup_pairs(pairs)
  PROVE  Lists(batched, LastValues(pairs)) /\ Len(batched) <= Len(pairs)
<1> DEFINE map == LastValues(pairs)
<1>1. CASE Len(pairs) <= 1
  <2>1. batched = pairs /\ DOMAIN pairs = 1..Len(pairs) /\ Len(pairs) \in {0, 1}
    <3>1. dedup_pairs(pairs) = {pairs}
      BY <1>1, Zenon DEF dedup_pairs
    <3>2. DOMAIN pairs = 1..Len(pairs) /\ Len(pairs) \in Nat
      OBVIOUS
    <3> QED
      BY <1>1, <3>1, <3>2
  <2>2. IsMapOf(pairs, map)
    BY LastValuesAre
  <2> HIDE DEF map
  <2>3. \A i, j \in DOMAIN pairs : i = j
    BY <2>1
  <2>4. \A i \in DOMAIN pairs : pairs[i] \in Rows(map)
    <3> SUFFICES ASSUME NEW i \in DOMAIN pairs
                 PROVE  pairs[i] \in Rows(map)
      OBVIOUS
    <3>1. pairs[i][1] \in DOMAIN map
      BY <2>2 DEF IsMapOf
    <3>2. PICK j \in DOMAIN pairs : pairs[j] = <<pairs[i][1], map[pairs[i][1]]>>
      BY <2>2, <3>1 DEF IsMapOf
    <3> QED
      BY <2>3, <3>1, <3>2 DEF Rows
  <2>5. {pairs[i] : i \in DOMAIN pairs} = Rows(map)
    BY <2>2, <2>4 DEF IsMapOf, Rows
  <2> QED
    BY <2>1, <2>3, <2>5 DEF Lists, map
<1>2. CASE ~(Len(pairs) <= 1) /\ Len(pairs) <= DedupLinear
  BY <1>2, KeptLists DEF dedup_pairs, Kept
<1>3. CASE ~(Len(pairs) <= 1) /\ ~(Len(pairs) <= DedupLinear)
  BY <1>3, MapLists DEF dedup_pairs, LastValues, Rows
<1> QED
  BY <1>1, <1>2, <1>3

(* A batch that lists a map has its effect.                                 *)
LEMMA ListsEffect ==
  ASSUME NEW pairs \in Seq(Pairs), NEW batched, Lists(batched, LastValues(pairs))
  PROVE  /\ LastValues(batched) = LastValues(pairs)
         /\ \A base \in Views : SetAll(base, batched) = SetAll(base, pairs)
<1> DEFINE map == LastValues(pairs)
           new == LastValues(batched)
<1>1. batched \in Seq(Pairs) /\ {batched[i] : i \in DOMAIN batched} = Rows(map)
  BY DEF Lists
<1>2. IsMapOf(pairs, map) /\ IsMapOf(batched, new)
  BY <1>1, LastValuesAre
<1>3. new = map
  <2> HIDE DEF map, new
  <2>1. DOMAIN new = DOMAIN map
    <3>1. DOMAIN new = {row[1] : row \in Rows(map)}
      BY <1>1, <1>2 DEF IsMapOf
    <3>2. {row[1] : row \in Rows(map)} = DOMAIN map
      <4>1. \A k \in DOMAIN map : <<k, map[k]>> \in Rows(map) /\ <<k, map[k]>>[1] = k
        BY DEF Rows
      <4>2. \A row \in Rows(map) : row[1] \in DOMAIN map
        BY DEF Rows
      <4> QED
        BY <4>1, <4>2
    <3> QED
      BY <3>1, <3>2
  <2>2. ASSUME NEW k \in DOMAIN new
        PROVE  new[k] = map[k]
    <3>1. PICK i \in DOMAIN batched : batched[i] = <<k, new[k]>>
      BY <1>2 DEF IsMapOf
    <3>2. <<k, new[k]>> \in Rows(map)
      BY <1>1, <3>1
    <3> QED
      BY <3>2 DEF Rows
  <2> QED
    BY <1>2, <2>1, <2>2 DEF IsMapOf
<1> QED
  BY <1>1, <1>3, SetAllIs

-----------------------------------------------------------------------------
(* getm.                                                                    *)

Found(base, keys) == {<<k, base[k]>> : k \in {k \in ToSet(keys) : base[k] # NoVal}}

(* The rows of one answer, in any order, put in the keys' places.           *)
LEMMA AssembleIs ==
  ASSUME NEW base \in Views, NEW keys \in Seq(Key),
         NEW rows \in Seq(Pairs),
         {rows[i] : i \in DOMAIN rows} = Found(base, keys)
  PROVE  Assemble(keys, rows) = [i \in DOMAIN keys |-> base[keys[i]]]
<1>1. /\ DOMAIN rows = 1..Len(rows) /\ Len(rows) \in Nat
      /\ \A i \in DOMAIN keys : keys[i] \in ToSet(keys)
  BY DEF ToSet
<1>2. \A i \in DOMAIN rows : rows[i][1] \in ToSet(keys) /\ rows[i][2] = base[rows[i][1]]
  <2> SUFFICES ASSUME NEW i \in DOMAIN rows
               PROVE  rows[i][1] \in ToSet(keys) /\ rows[i][2] = base[rows[i][1]]
    OBVIOUS
  <2>1. rows[i] \in Found(base, keys)
    OBVIOUS
  <2>2. PICK k \in ToSet(keys) : rows[i] = <<k, base[k]>>
    BY <2>1 DEF Found
  <2> QED
    BY <2>2
<1>3. ASSUME NEW k \in ToSet(keys), base[k] # NoVal
      PROVE  \E i \in DOMAIN rows : rows[i][1] = k
  <2>1. <<k, base[k]>> \in Found(base, keys)
    BY <1>3 DEF Found
  <2>2. PICK i \in DOMAIN rows : rows[i] = <<k, base[k]>>
    BY <2>1
  <2> QED
    BY <2>2
<1>4. ASSUME NEW k \in ToSet(keys)
      PROVE  FindRow(rows, k) = base[k]
  <2> DEFINE I == {i \in 1..Len(rows) : rows[i][1] = k}
             m == IF I # {} THEN Min(I) ELSE 0
  <2>1. FindRow(rows, k) = IF m = 0 THEN NoVal ELSE rows[m][2]
    BY DEF FindRow, SelectInSeq
  <2>2. CASE I = {}
    BY <1>1, <1>3, <2>1, <2>2
  <2>3. CASE I # {}
    <3>1. I \in SUBSET Nat
      BY <1>1
    <3>2. \E i \in I : \A j \in I : i <= j
      BY <2>3, <3>1, Mapping!LeastIndex
    <3>3. m \in I
      BY <2>3, <3>2 DEF Min
    <3> HIDE DEF m
    <3>4. m \in DOMAIN rows /\ rows[m][1] = k /\ m # 0
      BY <1>1, <3>3
    <3> QED
      BY <1>2, <2>1, <3>4
  <2> QED
    BY <2>2, <2>3
<1>5. CASE Len(rows) <= GetmRows /\ Len(rows) * Len(keys) <= GetmProduct
  BY <1>1, <1>4, <1>5 DEF Assemble
<1>6. CASE ~(Len(rows) <= GetmRows /\ Len(rows) * Len(keys) <= GetmProduct)
  <2> DEFINE map == LastValues(rows)
  <2>1. Assemble(keys, rows) = [i \in DOMAIN keys |->
                                  IF keys[i] \in DOMAIN map THEN map[keys[i]] ELSE NoVal]
    BY <1>6 DEF Assemble, LastValues
  <2>2. IsMapOf(rows, map)
    BY LastValuesAre
  <2> HIDE DEF map
  <2>3. ASSUME NEW k \in ToSet(keys)
        PROVE  (IF k \in DOMAIN map THEN map[k] ELSE NoVal) = base[k]
    <3>1. CASE k \in DOMAIN map
      <4>1. PICK i \in DOMAIN rows : rows[i] = <<k, map[k]>>
        BY <2>2, <3>1 DEF IsMapOf
      <4> QED
        BY <1>2, <3>1, <4>1
    <3>2. CASE k \notin DOMAIN map
      <4>1. ~\E i \in DOMAIN rows : rows[i][1] = k
        BY <2>2, <3>2 DEF IsMapOf
      <4> QED
        BY <1>3, <3>2, <4>1
    <3> QED
      BY <3>1, <3>2
  <2> QED
    BY <1>1, <2>1, <2>3
<1> QED
  BY <1>5, <1>6

(* One answer, whatever the order of the rows.                              *)
LEMMA GetmIs ==
  ASSUME NEW base \in Views, NEW keys \in Seq(Key)
  PROVE  getm(base, keys) = {[i \in DOMAIN keys |-> base[keys[i]]]}
<1>1. CASE keys = <<>>
  <2>1. DOMAIN <<>> = {} /\ <<>> = [i \in DOMAIN <<>> |-> base[<<>>[i]]]
    OBVIOUS
  <2>2. getm(base, keys) = {<<>>}
    BY <1>1, Zenon DEF getm
  <2> QED
    BY <1>1, <2>1, <2>2
<1>2. CASE keys # <<>>
  <2> DEFINE some == {k \in ToSet(keys) : base[k] # NoVal}
             answers == SetToSeqs(Found(base, keys))
  <2>1. getm(base, keys) = {Assemble(keys, rows) : rows \in answers}
    BY <1>2 DEF getm, RowsOf, Found
  <2>2. DOMAIN keys = 1..Len(keys) /\ Len(keys) \in Nat /\ ToSet(keys) \subseteq Key
    BY DEF ToSet
  <2>3. IsFiniteSet(some)
    <3>1. IsFiniteSet(1..Len(keys))
      BY <2>2, FS_Interval
    <3>2. keys \in Surjection(1..Len(keys), ToSet(keys))
      BY <2>2 DEF Surjection, ToSet
    <3>3. IsFiniteSet(ToSet(keys))
      BY <3>1, <3>2, FS_Surjection
    <3> QED
      BY <3>3, FS_Subset
  <2>4. IsFiniteSet(Found(base, keys))
    <3> DEFINE f == [k \in some |-> <<k, base[k]>>]
    <3>1. f \in Surjection(some, Found(base, keys))
      BY DEF Surjection, Found
    <3> HIDE DEF f, some
    <3> QED
      BY <2>3, <3>1, FS_Surjection
  <2>5. Found(base, keys) \subseteq Pairs
    <3>1. \A k \in some : k \in Key /\ base[k] \in Val
      BY <2>2 DEF Views
    <3> QED
      BY <3>1 DEF Found, Pairs
  <2>6. ASSUME NEW rows \in answers
        PROVE  Assemble(keys, rows) = [i \in DOMAIN keys |-> base[keys[i]]]
    <3>1. /\ rows \in Seq(Found(base, keys))
          /\ {rows[i] : i \in DOMAIN rows} = Found(base, keys)
      BY <2>4, SeqsOfSet
    <3>2. rows \in Seq(Pairs)
      <4> HIDE DEF Pairs
      <4> QED
        BY <2>5, <3>1
    <3> QED
      BY <3>1, <3>2, AssembleIs
  <2>7. answers # {}
    BY <2>4, SeqsOfSet
  <2> HIDE DEF answers
  <2> QED
    BY <2>1, <2>6, <2>7
<1> QED
  BY <1>1, <1>2

-----------------------------------------------------------------------------
(* Range scans: what ORDER BY returns, and what pages add up to.            *)

(* The first n numbers index the keys of S in order, each key once.         *)
Sorted(seq, n, S) ==
  /\ seq \in [1..n -> S]
  /\ Increasing(seq)
  /\ \A k \in S : \E i \in 1..n : seq[i] = k

(* Every finite set of keys can be sorted: its least key comes first.       *)
LEMMA SortExists ==
  ASSUME NEW S \in SUBSET Nat, IsFiniteSet(S)
  PROVE  \E seq : Sorted(seq, Cardinality(S), S)
<1> DEFINE N == {n \in Nat : \A T \in SUBSET Nat :
                   IsFiniteSet(T) /\ Cardinality(T) = n => \E seq : Sorted(seq, n, T)}
<1>1. 0 \in N
  <2> SUFFICES ASSUME NEW T \in SUBSET Nat, IsFiniteSet(T), Cardinality(T) = 0
               PROVE  \E seq : Sorted(seq, 0, T)
    OBVIOUS
  <2>1. T = {}
    BY FS_EmptySet
  <2>2. Sorted([i \in 1..0 |-> 0], 0, T)
    BY <2>1 DEF Sorted, Increasing
  <2> QED
    BY <2>2
<1>2. ASSUME NEW n \in Nat, n \in N
      PROVE  n + 1 \in N
  <2> SUFFICES ASSUME NEW T \in SUBSET Nat, IsFiniteSet(T), Cardinality(T) = n + 1
               PROVE  \E seq : Sorted(seq, n + 1, T)
    OBVIOUS
  <2>1. T # {}
    BY FS_EmptySet
  <2>2. PICK least \in T : \A k \in T : least <= k
    BY <2>1, Setting!LeastIndex
  <2> DEFINE U == T \ {least}
  <2>3. IsFiniteSet(U) /\ Cardinality(U) = n /\ U \in SUBSET Nat
    BY FS_RemoveElement
  <2>4. PICK rest : Sorted(rest, n, U)
    BY <1>2, <2>3
  <2> DEFINE seq == [i \in 1..(n+1) |-> IF i = 1 THEN least ELSE rest[i-1]]
  <2>5. \A i \in 1..n : rest[i] \in T /\ least < rest[i]
    <3> SUFFICES ASSUME NEW i \in 1..n
                 PROVE  rest[i] \in T /\ least < rest[i]
      OBVIOUS
    <3>1. rest[i] \in T /\ rest[i] # least
      BY <2>4 DEF Sorted
    <3>2. least \in Nat /\ rest[i] \in Nat /\ least <= rest[i]
      BY <2>2, <3>1
    <3> QED
      BY <3>1, <3>2
  <2>6. \A i, j \in 1..n : i < j => rest[i] < rest[j]
    BY <2>4 DEF Sorted, Increasing
  <2>7. seq \in [1..(n+1) -> T]
    BY <2>5
  <2>8. Increasing(seq)
    <3> SUFFICES ASSUME NEW i \in 1..(n+1), NEW j \in 1..(n+1), i < j
                 PROVE  seq[i] < seq[j]
      BY DEF Increasing
    <3>1. /\ j # 1 /\ j - 1 \in 1..n
          /\ i # 1 => i - 1 \in 1..n /\ i - 1 < j - 1
      OBVIOUS
    <3> QED
      BY <2>5, <2>6, <3>1
  <2>9. ASSUME NEW k \in T
        PROVE  \E i \in 1..(n+1) : seq[i] = k
    <3>1. CASE k = least
      BY <3>1
    <3>2. CASE k # least
      <4>1. PICK i \in 1..n : rest[i] = k
        BY <2>4, <3>2 DEF Sorted
      <4>2. i + 1 \in 1..(n+1) /\ i + 1 # 1 /\ (i + 1) - 1 = i
        OBVIOUS
      <4> QED
        BY <4>1, <4>2
    <3> QED
      BY <3>1, <3>2
  <2> QED
    BY <2>7, <2>8, <2>9 DEF Sorted
<1>3. \A n \in Nat : n \in N
  <2> HIDE DEF N
  <2> QED
    BY <1>1, <1>2, Setting!NumberInduction
<1> QED
  BY <1>3, FS_CardinalityType

(* ORDER BY sorts the keys of a range.                                      *)
LEMMA ByKeySorts ==
  ASSUME NEW S \in SUBSET Nat, IsFiniteSet(S)
  PROVE  Sorted(ByKey(S), Cardinality(S), S)
<1> DEFINE Good(seq) ==
             Increasing(seq) /\ \A k \in S : \E i \in DOMAIN seq : seq[i] = k
<1>1. ByKey(S) = CHOOSE seq \in [1..Cardinality(S) -> S] : Good(seq)
  BY DEF ByKey
<1>2. PICK seq : Sorted(seq, Cardinality(S), S)
  BY SortExists
<1>3. seq \in [1..Cardinality(S) -> S] /\ Good(seq)
  BY <1>2 DEF Sorted
<1>4. ByKey(S) \in [1..Cardinality(S) -> S] /\ Good(ByKey(S))
  <2> HIDE DEF Good
  <2> QED
    BY <1>1, <1>3
<1> QED
  BY <1>4 DEF Sorted

(* Two sorted sequences of the same keys that agree up to k agree on the    *)
(* next index, if the first has one: half of the argument.                  *)
LEMMA SortStep ==
  ASSUME NEW S \in SUBSET Nat, NEW n \in Nat, NEW m \in Nat, NEW s, NEW t,
         Sorted(s, n, S), Sorted(t, m, S), NEW k \in Nat, k + 1 <= n,
         \A i \in 1..k : i <= m /\ s[i] = t[i]
  PROVE  k + 1 <= m /\ t[k+1] <= s[k+1]
<1>1. k + 1 \in 1..n /\ s[k+1] \in S
  BY DEF Sorted
<1>2. PICK j \in 1..m : t[j] = s[k+1]
  BY <1>1 DEF Sorted
<1>3. j \notin 1..k
  <2> SUFFICES ASSUME j \in 1..k PROVE FALSE
    OBVIOUS
  <2>1. s[j] < s[k+1] /\ s[j] = t[j]
    BY <1>1 DEF Sorted, Increasing
  <2>2. s[j] \in Nat
    BY DEF Sorted
  <2> QED
    BY <1>2, <2>1, <2>2
<1>4. k + 1 <= j
  BY <1>3
<1>5. k + 1 \in 1..m /\ t[j] \in Nat /\ t[k+1] \in Nat
  <2>1. \A i \in 1..m : t[i] \in Nat
    BY DEF Sorted
  <2> QED
    BY <1>4, <2>1
<1>6. k + 1 < j => t[k+1] < t[j]
  BY <1>5 DEF Sorted, Increasing
<1> QED
  BY <1>2, <1>4, <1>5, <1>6

(* A set of keys is sorted in one way only.                                 *)
LEMMA SortUnique ==
  ASSUME NEW S \in SUBSET Nat, NEW n \in Nat, NEW m \in Nat, NEW s, NEW t,
         Sorted(s, n, S), Sorted(t, m, S)
  PROVE  n = m /\ s = t
<1> DEFINE N == {k \in Nat : \A i \in 1..k : (i <= n <=> i <= m) /\ (i <= n => s[i] = t[i])}
<1>1. 0 \in N
  OBVIOUS
<1>2. ASSUME NEW k \in Nat, k \in N
      PROVE  k + 1 \in N
  <2>1. CASE k + 1 <= n \/ k + 1 <= m
    <3>1. \A i \in 1..k : i <= n /\ i <= m /\ s[i] = t[i]
      BY <1>2, <2>1
    <3>2. k + 1 <= n => k + 1 <= m /\ t[k+1] <= s[k+1]
      BY <3>1, SortStep
    <3>0. \A i \in 1..k : i <= n /\ t[i] = s[i]
      BY <3>1
    <3>3. k + 1 <= m => k + 1 <= n /\ s[k+1] <= t[k+1]
      BY <3>0, SortStep
    <3>4. k + 1 \in 1..n /\ k + 1 \in 1..m
      BY <2>1, <3>2, <3>3
    <3>5. s[k+1] \in Nat /\ t[k+1] \in Nat
      BY <3>4 DEF Sorted
    <3>6. s[k+1] = t[k+1]
      BY <3>2, <3>3, <3>4, <3>5
    <3> QED
      BY <3>1, <3>4, <3>6
  <2>2. CASE ~(k + 1 <= n \/ k + 1 <= m)
    BY <1>2, <2>2
  <2> QED
    BY <2>1, <2>2
<1>3. \A k \in Nat : k \in N
  <2> HIDE DEF N
  <2> QED
    BY <1>1, <1>2, Setting!NumberInduction
<1>4. n \in N /\ m \in N
  BY <1>3
<1>5. n = m
  BY <1>4
<1>6. \A i \in 1..n : s[i] = t[i]
  BY <1>4
<1>7. s = [i \in 1..n |-> s[i]] /\ t = [i \in 1..n |-> t[i]]
  BY <1>5 DEF Sorted
<1> QED
  BY <1>5, <1>6, <1>7

(* What follows the m-th key of a range, sorted, is the rest of the range.  *)
LEMMA SortedRest ==
  ASSUME NEW S \in SUBSET Nat, IsFiniteSet(S), NEW m \in 1..Cardinality(S)
  PROVE  LET n == Cardinality(S)
             T == {k \in S : k > ByKey(S)[m]}
         IN  Cardinality(T) = n - m /\ ByKey(T) = [i \in 1..(n-m) |-> ByKey(S)[i+m]]
<1> DEFINE n == Cardinality(S)
           s == ByKey(S)
           T == {k \in S : k > s[m]}
           t == [i \in 1..(n-m) |-> s[i+m]]
<1>1. n \in Nat /\ m \in 1..n /\ Sorted(s, n, S)
  BY ByKeySorts, FS_CardinalityType
<1>2. T \in SUBSET Nat /\ IsFiniteSet(T)
  BY FS_Subset
<1>3. Cardinality(T) \in Nat /\ Sorted(ByKey(T), Cardinality(T), T)
  BY <1>2, ByKeySorts, FS_CardinalityType
<1> HIDE DEF n, s
<1>4. \A i, j \in 1..n : i < j => s[i] < s[j]
  BY <1>1 DEF Sorted, Increasing
<1>5. \A i \in 1..n : s[i] \in S /\ s[i] \in Nat
  BY <1>1 DEF Sorted
<1>6. Sorted(t, n - m, T)
  <2>1. \A i \in 1..(n-m) : i + m \in 1..n /\ m < i + m
    BY <1>1
  <2>2. t \in [1..(n-m) -> T]
    <3>1. \A i \in 1..(n-m) : s[i+m] \in S /\ s[i+m] > s[m]
      BY <1>1, <1>4, <1>5, <2>1
    <3> QED
      BY <3>1
  <2>3. Increasing(t)
    <3> SUFFICES ASSUME NEW i \in 1..(n-m), NEW j \in 1..(n-m), i < j
                 PROVE  s[i+m] < s[j+m]
      BY DEF Increasing
    <3> QED
      BY <1>1, <1>4, <2>1
  <2>4. ASSUME NEW k \in T
        PROVE  \E i \in 1..(n-m) : t[i] = k
    <3>1. PICK j \in 1..n : s[j] = k
      BY <1>1 DEF Sorted
    <3>2. j > m
      <4> SUFFICES ASSUME j <= m PROVE FALSE
        BY <1>1
      <4>1. j = m \/ s[j] < s[m]
        BY <1>1, <1>4
      <4> QED
        BY <1>1, <1>5, <3>1, <4>1
    <3>3. j - m \in 1..(n-m) /\ (j - m) + m = j
      BY <1>1, <3>2
    <3> QED
      BY <3>1, <3>3
  <2> QED
    BY <2>2, <2>3, <2>4 DEF Sorted
<1>7. n - m \in Nat
  BY <1>1
<1>8. Cardinality(T) = n - m /\ ByKey(T) = t
  <2> HIDE DEF T, t
  <2> QED
    BY <1>2, <1>3, <1>6, <1>7, SortUnique
<1> QED
  BY <1>8 DEF n, s

-----------------------------------------------------------------------------
(* Pages.                                                                   *)

(* The rows of a range, in order.                                           *)
RowsIn(tab, S) == [i \in 1..Cardinality(S) |-> <<ByKey(S)[i], tab[ByKey(S)[i]]>>]

AllRows(tab) == {<<k, tab[k]>> : k \in DOMAIN tab}

(* A range and its rows.                                                    *)
LEMMA RangeIs ==
  ASSUME NEW tab, DOMAIN tab \subseteq Nat, IsFiniteSet(DOMAIN tab),
         NEW from \in Nat, NEW end \in Nat
  PROVE  LET S == InRange(tab, from, end)
         IN  /\ S \in SUBSET Nat /\ IsFiniteSet(S) /\ Cardinality(S) \in Nat
             /\ Cardinality(S) <= Cardinality(DOMAIN tab)
             /\ from >= end => S = {} /\ Cardinality(S) = 0
             /\ Sorted(ByKey(S), Cardinality(S), S)
             /\ getr(tab, from, end) = RowsIn(tab, S)
             /\ getr(tab, from, end) \in Seq(AllRows(tab))
             /\ Len(getr(tab, from, end)) = Cardinality(S)
<1> DEFINE S == InRange(tab, from, end)
<1>1. S \subseteq DOMAIN tab /\ S \in SUBSET Nat
  BY DEF InRange
<1>2. IsFiniteSet(S) /\ Cardinality(S) <= Cardinality(DOMAIN tab)
  BY <1>1, FS_Subset
<1>3. Cardinality(S) \in Nat /\ Sorted(ByKey(S), Cardinality(S), S)
  BY <1>1, <1>2, FS_CardinalityType, ByKeySorts
<1>4. from >= end => S = {}
  BY <1>1 DEF InRange
<1>5. from >= end => Cardinality(S) = 0
  BY <1>4, FS_EmptySet
<1>6. DOMAIN ByKey(S) = 1..Cardinality(S)
  BY <1>3 DEF Sorted
<1>7. getr(tab, from, end) = RowsIn(tab, S)
  <2>1. CASE from >= end
    <3> HIDE DEF S
    <3>1. RowsIn(tab, S) = <<>>
      BY <1>5, <2>1 DEF RowsIn
    <3> QED
      BY <2>1, <3>1 DEF getr
  <2>2. CASE ~(from >= end)
    BY <1>6, <2>2 DEF getr, RowsIn
  <2> QED
    BY <2>1, <2>2
<1>8. /\ RowsIn(tab, S) \in Seq(AllRows(tab))
      /\ Len(RowsIn(tab, S)) = Cardinality(S)
  <2>1. \A i \in 1..Cardinality(S) : ByKey(S)[i] \in DOMAIN tab
    BY <1>1, <1>3 DEF Sorted
  <2> HIDE DEF S
  <2>2. RowsIn(tab, S) \in [1..Cardinality(S) -> AllRows(tab)]
    BY <2>1 DEF RowsIn, AllRows
  <2> QED
    BY <1>3, <2>2
<1> QED
  BY <1>1, <1>2, <1>3, <1>4, <1>5, <1>7, <1>8

(* A page is the first rows of its range; after it comes the rest.          *)
LEMMA PageIs ==
  ASSUME NEW tab, DOMAIN tab \subseteq Nat, IsFiniteSet(DOMAIN tab),
         NEW from \in Nat, NEW end \in Nat, NEW limit \in Nat \ {0}
  PROVE  LET S == InRange(tab, from, end)
             n == Cardinality(S)
             m == IF limit < n THEN limit ELSE n
         IN  /\ scan_asc(tab, from, end, limit, 0)
                  = [i \in 1..m |-> <<ByKey(S)[i], tab[ByKey(S)[i]]>>]
             /\ n > 0 => InRange(tab, NextStart(ByKey(S)[m]), end)
                           = {k \in S : k > ByKey(S)[m]}
<1> DEFINE S == InRange(tab, from, end)
           n == Cardinality(S)
           s == ByKey(S)
           m == IF limit < n THEN limit ELSE n
<1>1. /\ S \in SUBSET Nat /\ n \in Nat /\ Sorted(s, n, S)
      /\ from >= end => n = 0
  BY RangeIs
<1>2. keys_asc(tab, from, end, limit, 0) = [i \in 1..m |-> s[i]]
  <2>1. CASE from >= end
    BY <1>1, <2>1 DEF keys_asc
  <2>2. CASE ~(from >= end)
    <3>1. keys_asc(tab, from, end, limit, 0) = Limited(s, limit, 0)
      BY <2>2 DEF keys_asc
    <3> HIDE DEF S, n, s
    <3>2. s \in Seq(S) /\ Len(s) = n /\ s \in [1..n -> S]
      BY <1>1 DEF Sorted
    <3>3. Limited(s, limit, 0) = SubSeq(s, 1, m)
      BY <1>1, <3>2 DEF Limited
    <3>4. m \in 0..n
      BY <1>1
    <3>5. SubSeq(s, 1, m) = [i \in 1..m |-> s[i]]
      BY <1>1, <3>2, <3>4
    <3> QED
      BY <3>1, <3>3, <3>5
  <2> QED
    BY <2>1, <2>2
<1>3. scan_asc(tab, from, end, limit, 0) = [i \in 1..m |-> <<s[i], tab[s[i]]>>]
  <2> HIDE DEF s, m
  <2> QED
    BY <1>2 DEF scan_asc
<1>4. ASSUME n > 0
      PROVE  InRange(tab, NextStart(s[m]), end) = {k \in S : k > s[m]}
  <2>1. s[m] \in S
    BY <1>1, <1>4 DEF Sorted
  <2>2. s[m] \in Nat /\ from <= s[m]
    BY <1>1, <2>1 DEF InRange
  <2> HIDE DEF s, m
  <2>3. \A k \in Nat : s[m] + 1 <= k <=> k > s[m] /\ from <= k
    BY <2>2
  <2> QED
    BY <2>3 DEF InRange, NextStart
<1> QED
  BY <1>3, <1>4

(* The rows a scan has still to fetch.                                      *)
LEMMA PageThenRest ==
  ASSUME NEW tab, DOMAIN tab \subseteq Nat, IsFiniteSet(DOMAIN tab),
         NEW from \in Nat, NEW end \in Nat, NEW limit \in Nat \ {0}
  PROVE  LET page == scan_asc(tab, from, end, limit, 0)
             next == NextStart(page[Len(page)][1])
         IN  /\ page \in Seq(AllRows(tab))
             /\ page = <<>> => getr(tab, from, end) = <<>>
             /\ page # <<>> => /\ next \in Nat
                               /\ Len(page) \in Nat \ {0}
                               /\ page \o getr(tab, next, end) = getr(tab, from, end)
<1> DEFINE S == InRange(tab, from, end)
           n == Cardinality(S)
           s == ByKey(S)
           m == IF limit < n THEN limit ELSE n
           page == scan_asc(tab, from, end, limit, 0)
           T == {k \in S : k > s[m]}
<1>1. /\ S \in SUBSET Nat /\ n \in Nat /\ Sorted(s, n, S) /\ IsFiniteSet(S)
      /\ getr(tab, from, end) = [i \in 1..n |-> <<s[i], tab[s[i]]>>]
  <2>1. getr(tab, from, end) = RowsIn(tab, S)
    BY RangeIs
  <2>2. RowsIn(tab, S) = [i \in 1..n |-> <<s[i], tab[s[i]]>>]
    BY DEF RowsIn
  <2> QED
    BY <2>1, <2>2, RangeIs
<1>2. /\ page = [i \in 1..m |-> <<s[i], tab[s[i]]>>]
      /\ n > 0 => InRange(tab, NextStart(s[m]), end) = T
  BY PageIs
<1>4. m \in 0..n /\ (n > 0 => m \in 1..n)
  <2> HIDE DEF n
  <2> QED
    BY <1>1
<1> HIDE DEF m
<1>3. n > 0 => Cardinality(T) = n - m /\ ByKey(T) = [i \in 1..(n-m) |-> s[i+m]]
  BY <1>1, <1>4, SortedRest
<1>8. page \in Seq(AllRows(tab))
  <2>1. \A i \in 1..n : s[i] \in DOMAIN tab
    BY <1>1 DEF Sorted, InRange
  <2> HIDE DEF S, n, s, T, page
  <2>2. page \in [1..m -> AllRows(tab)]
    BY <1>1, <1>2, <1>4, <2>1 DEF AllRows
  <2> QED
    BY <1>4, <2>2
<1> HIDE DEF S, n, s, T, page
<1>5. CASE n = 0
  <2>1. m = 0
    BY <1>1, <1>4, <1>5
  <2>2. page = <<>> /\ getr(tab, from, end) = <<>>
    BY <1>1, <1>2, <1>5, <2>1
  <2> QED
    BY <1>8, <2>2 DEF page
<1>6. CASE n > 0
  <2> DEFINE rest == [i \in 1..(n-m) |-> <<s[i+m], tab[s[i+m]]>>]
             all  == [i \in 1..n |-> <<s[i], tab[s[i]]>>]
  <2>1. m \in Nat \ {0} /\ n \in Nat /\ n - m \in Nat /\ m + (n - m) = n /\ m \in 1..n
    BY <1>1, <1>4, <1>6
  <2>2. Len(page) = m /\ page # <<>> /\ page[m] = <<s[m], tab[s[m]]>> /\ DOMAIN page = 1..m
    <3>1. m \in Nat /\ DOMAIN page = 1..m /\ \A i \in 1..m : page[i] = <<s[i], tab[s[i]]>>
      BY <1>2, <2>1
    <3>2. Len(page) = m
      BY <1>2, <2>1
    <3>3. 1 \in DOMAIN page
      BY <2>1, <3>1
    <3> QED
      BY <2>1, <3>1, <3>2, <3>3
  <2>3. NextStart(page[Len(page)][1]) = NextStart(s[m])
    BY <2>2
  <2>4. NextStart(s[m]) \in Nat
    <3>1. s[m] \in S
      BY <1>1, <2>1 DEF Sorted
    <3>2. s[m] \in Nat
      BY <1>1, <3>1
    <3> QED
      BY <3>2 DEF NextStart
  <2>5. getr(tab, NextStart(s[m]), end) = rest
    <3>1. getr(tab, NextStart(s[m]), end) = RowsIn(tab, T)
      BY <1>2, <1>6, <2>4, RangeIs
    <3>2. \A i \in 1..(n-m) : ByKey(T)[i] = s[i+m]
      BY <1>3, <1>6
    <3> QED
      BY <1>3, <1>6, <3>1, <3>2 DEF RowsIn
  <2>6. page \o rest = all
    <3> DEFINE W == {<<s[i], tab[s[i]]>> : i \in 1..n}
    <3>1. page \in Seq(W) /\ rest \in Seq(W) /\ all \in Seq(W)
      <4>1. \A i \in 1..m : i \in 1..n
        BY <2>1
      <4>2. \A i \in 1..(n-m) : i + m \in 1..n
        BY <2>1
      <4>3. page \in [1..m -> W]
        BY <1>2, <4>1
      <4>4. rest \in [1..(n-m) -> W]
        BY <4>2
      <4>5. all \in [1..n -> W]
        OBVIOUS
      <4> HIDE DEF W, rest, all
      <4> QED
        BY <2>1, <4>3, <4>4, <4>5
    <3>2. Len(rest) = n - m /\ Len(all) = n
      BY <2>1
    <3>3. \A i \in 1..n : all[i] = IF i <= m THEN page[i] ELSE rest[i-m]
      <4> SUFFICES ASSUME NEW i \in 1..n
                   PROVE  all[i] = IF i <= m THEN page[i] ELSE rest[i-m]
        OBVIOUS
      <4>1. CASE i <= m
        BY <1>2, <2>1, <4>1
      <4>2. CASE ~(i <= m)
        <5>1. i - m \in 1..(n-m) /\ (i - m) + m = i
          BY <2>1, <4>2
        <5> QED
          BY <4>2, <5>1
      <4> QED
        BY <4>1, <4>2
    <3> HIDE DEF W, rest, all
    <3>4. /\ page \o rest \in Seq(W) /\ Len(page \o rest) = n
          /\ \A i \in 1..n : (page \o rest)[i] = IF i <= m THEN page[i] ELSE rest[i-m]
      BY <2>1, <2>2, <3>1, <3>2
    <3> DEFINE both == page \o rest
    <3>5. /\ both \in Seq(W) /\ all \in Seq(W) /\ Len(both) = n /\ Len(all) = n
          /\ \A i \in 1..n : both[i] = all[i]
      BY <3>1, <3>2, <3>3, <3>4
    <3> HIDE DEF both
    <3>6. both = all
      BY <3>5
    <3> QED
      BY <3>6 DEF both
  <2> HIDE DEF rest, all
  <2>7. getr(tab, from, end) = all
    BY <1>1 DEF all
  <2>8. /\ page # <<>> /\ NextStart(page[Len(page)][1]) \in Nat
        /\ Len(page) \in Nat \ {0}
        /\ page \o getr(tab, NextStart(page[Len(page)][1]), end) = getr(tab, from, end)
    BY <2>1, <2>2, <2>3, <2>4, <2>5, <2>6, <2>7
  <2> QED
    BY <1>8, <2>8 DEF page
<1>7. n = 0 \/ n > 0
  BY <1>1
<1> QED
  BY <1>5, <1>6, <1>7

(* The recursion over the pages has a solution: one more page extends it.   *)
Pages(tab, low, end, limit, last, f) ==
  f = [n \in 0..last |->
         IF n = 0 THEN [rows |-> <<>>, from |-> low, over |-> FALSE]
         ELSE NextPage(tab, end, limit, f[n-1])]

LEMMA PagesExist ==
  ASSUME NEW tab, NEW low, NEW end, NEW limit, NEW last \in Nat
  PROVE  \E f : Pages(tab, low, end, limit, last, f)
<1> DEFINE N == {n \in Nat : \E f : Pages(tab, low, end, limit, n, f)}
           first == [rows |-> <<>>, from |-> low, over |-> FALSE]
<1>1. 0 \in N
  <2> DEFINE f == [n \in 0..0 |-> first]
  <2>1. f = [n \in 0..0 |-> IF n = 0 THEN first ELSE NextPage(tab, end, limit, f[n-1])]
    OBVIOUS
  <2>2. Pages(tab, low, end, limit, 0, f)
    BY <2>1 DEF Pages
  <2> QED
    BY <2>2
<1>2. ASSUME NEW n \in Nat, n \in N
      PROVE  n + 1 \in N
  <2>1. PICK f : Pages(tab, low, end, limit, n, f)
    BY <1>2
  <2> DEFINE g == [i \in 0..(n+1) |->
                     IF i <= n THEN f[i] ELSE NextPage(tab, end, limit, f[n])]
  <2>2. \A i \in 0..(n+1) :
          g[i] = IF i = 0 THEN first ELSE NextPage(tab, end, limit, g[i-1])
    <3> SUFFICES ASSUME NEW i \in 0..(n+1)
                 PROVE  g[i] = IF i = 0 THEN first ELSE NextPage(tab, end, limit, g[i-1])
      OBVIOUS
    <3>0. \A j \in 0..n : f[j] = IF j = 0 THEN first ELSE NextPage(tab, end, limit, f[j-1])
      BY <2>1 DEF Pages
    <3> HIDE DEF first
    <3>1. CASE i <= n
      <4>1. i \in 0..n /\ g[i] = f[i] /\ (i # 0 => i - 1 \in 0..(n+1) /\ g[i-1] = f[i-1])
        BY <3>1
      <4> QED
        BY <3>0, <4>1
    <3>2. CASE ~(i <= n)
      <4>1. i = n + 1 /\ i # 0 /\ i - 1 = n /\ n \in 0..(n+1)
        BY <3>2
      <4>2. g[i] = NextPage(tab, end, limit, f[n]) /\ g[n] = f[n]
        BY <3>2, <4>1
      <4> QED
        BY <4>1, <4>2
    <3> QED
      BY <3>1, <3>2
  <2>3. g = [i \in 0..(n+1) |-> g[i]]
    OBVIOUS
  <2> HIDE DEF g
  <2>4. Pages(tab, low, end, limit, n + 1, g)
    BY <2>2, <2>3 DEF Pages
  <2> QED
    BY <2>4
<1>3. \A n \in Nat : n \in N
  <2> HIDE DEF N
  <2> QED
    BY <1>1, <1>2, Setting!NumberInduction
<1> QED
  BY <1>3

(* What has been fetched and what is left make up the range, and every page *)
(* but the last brings at least one row.                                    *)
Fetching(tab, low, end, n, p) ==
  /\ p.from \in Nat /\ p.over \in BOOLEAN
  /\ p = [rows |-> p.rows, from |-> p.from, over |-> p.over]
  /\ p.rows \in Seq(AllRows(tab))
  /\ p.rows \o getr(tab, p.from, end) = getr(tab, low, end)
  /\ p.over => getr(tab, p.from, end) = <<>>
  /\ ~p.over => Len(p.rows) >= n

LEMMA FetchesOn ==
  ASSUME NEW tab, DOMAIN tab \subseteq Nat, IsFiniteSet(DOMAIN tab),
         NEW low \in Nat, NEW end \in Nat, NEW limit \in Nat \ {0},
         NEW n \in Nat, NEW p, Fetching(tab, low, end, n, p)
  PROVE  Fetching(tab, low, end, n + 1, NextPage(tab, end, limit, p))
<1> DEFINE all  == getr(tab, low, end)
           from == p.from
           page == scan_asc(tab, from, end, limit, 0)
           next == NextStart(page[Len(page)][1])
           q == NextPage(tab, end, limit, p)
<1>0. from \in Nat /\ p.from = from
  BY DEF Fetching
<1>1. /\ page \in Seq(AllRows(tab))
      /\ page = <<>> => getr(tab, from, end) = <<>>
      /\ page # <<>> => /\ next \in Nat
                        /\ Len(page) \in Nat \ {0}
                        /\ page \o getr(tab, next, end) = getr(tab, from, end)
  <2> HIDE DEF from
  <2> QED
    BY <1>0, PageThenRest
<1>2. q = IF p.over \/ page = <<>> THEN [p EXCEPT !.over = TRUE]
          ELSE [rows |-> p.rows \o page, from |-> next, over |-> FALSE]
  BY DEF NextPage
<1> HIDE DEF page, next, q, from
<1>3. CASE p.over \/ page = <<>>
  <2>1. q = [rows |-> p.rows, from |-> p.from, over |-> TRUE]
    BY <1>0, <1>2, <1>3 DEF Fetching
  <2> QED
    BY <1>0, <1>1, <1>3, <2>1 DEF Fetching, q
<1>4. CASE ~(p.over \/ page = <<>>)
  <2>1. q = [rows |-> p.rows \o page, from |-> next, over |-> FALSE]
    BY <1>2, <1>4
  <2>2. next \in Nat /\ Len(page) \in Nat \ {0}
        /\ page \o getr(tab, next, end) = getr(tab, from, end)
    BY <1>1, <1>4
  <2>3. getr(tab, next, end) \in Seq(AllRows(tab))
    BY <2>2, RangeIs
  <2>4. p.rows \in Seq(AllRows(tab)) /\ Len(p.rows) >= n
        /\ p.rows \o getr(tab, from, end) = all
    BY <1>0, <1>4 DEF Fetching
  <2> HIDE DEF all
  <2>5. /\ p.rows \o page \in Seq(AllRows(tab))
        /\ Len(p.rows \o page) >= n + 1
    BY <1>1, <2>2, <2>4
  <2>6. (p.rows \o page) \o getr(tab, next, end) = all
    <3> DEFINE rest == getr(tab, next, end)
               got  == p.rows
    <3> HIDE DEF rest, got
    <3>0. got \in Seq(AllRows(tab)) /\ page \in Seq(AllRows(tab)) /\ rest \in Seq(AllRows(tab))
      BY <1>1, <2>3, <2>4 DEF rest, got
    <3>1. (got \o page) \o rest = got \o (page \o rest)
      BY <3>0, ConcatAssociative
    <3> QED
      BY <2>2, <2>4, <3>1 DEF rest, got
  <2>7. Fetching(tab, low, end, n + 1, q)
    BY <2>1, <2>2, <2>5, <2>6 DEF Fetching, all
  <2> QED
    BY <2>7 DEF q
<1> QED
  BY <1>3, <1>4

(* The pages make up the range, and the scan is over within one page for    *)
(* each row and one more.                                                   *)
LEMMA PagesAre ==
  ASSUME NEW tab, DOMAIN tab \subseteq Nat, IsFiniteSet(DOMAIN tab),
         NEW low \in Nat, NEW end \in Nat, NEW limit \in Nat \ {0}
  PROVE  LET paged == PagedScan(tab, low, end, limit)
         IN  /\ paged.over
             /\ paged.rows = getr(tab, low, end)
             /\ Len(paged.rows) = count(tab, low, end)
<1> DEFINE last == Cardinality(DOMAIN tab) + 1
           f == CHOOSE h : Pages(tab, low, end, limit, last, h)
           N == {n \in Nat : n <= last => Fetching(tab, low, end, n, f[n])}
           paged == PagedScan(tab, low, end, limit)
           all == getr(tab, low, end)
<1>1. last \in Nat
  BY FS_CardinalityType
<1>2. paged = f[last]
  BY DEF PagedScan, Pages
<1>3. Pages(tab, low, end, limit, last, f)
  <2> HIDE DEF last
  <2> QED
    BY <1>1, PagesExist
<1> HIDE DEF f, last
<1>4. f[0] = [rows |-> <<>>, from |-> low, over |-> FALSE]
      /\ \A n \in 1..last : f[n] = NextPage(tab, end, limit, f[n-1])
  <2>1. \A n \in 0..last : f[n] = IF n = 0 THEN [rows |-> <<>>, from |-> low, over |-> FALSE]
                                  ELSE NextPage(tab, end, limit, f[n-1])
    BY <1>3 DEF Pages
  <2>2. 0 \in 0..last /\ \A n \in 1..last : n \in 0..last /\ n # 0
    BY <1>1
  <2> QED
    BY <2>1, <2>2
<1>5. all \in Seq(AllRows(tab)) /\ Len(all) < last /\ Len(all) = count(tab, low, end)
  <2> DEFINE n == Cardinality(InRange(tab, low, end))
  <2>1. /\ all \in Seq(AllRows(tab)) /\ Len(all) = n /\ n \in Nat
        /\ n <= Cardinality(DOMAIN tab)
        /\ low >= end => n = 0
    BY RangeIs
  <2>2. Cardinality(DOMAIN tab) \in Nat
    BY FS_CardinalityType
  <2>3. count(tab, low, end) = n
    BY <2>1 DEF count
  <2> HIDE DEF n, all
  <2> QED
    BY <2>1, <2>2, <2>3 DEF last
<1>6. 0 \in N
  <2>1. <<>> \o all = all
    BY <1>5
  <2>2. Fetching(tab, low, end, 0, f[0])
    BY <1>4, <2>1 DEF Fetching
  <2> QED
    BY <2>2
<1>7. ASSUME NEW n \in Nat, n \in N
      PROVE  n + 1 \in N
  <2> SUFFICES ASSUME n + 1 <= last
               PROVE  Fetching(tab, low, end, n + 1, f[n+1])
    OBVIOUS
  <2>1. n + 1 \in 1..last /\ (n + 1) - 1 = n /\ n <= last
    BY <1>1
  <2>2. f[n+1] = NextPage(tab, end, limit, f[n]) /\ Fetching(tab, low, end, n, f[n])
    BY <1>4, <1>7, <2>1
  <2> QED
    BY <2>2, FetchesOn
<1>8. \A n \in Nat : n \in N
  <2> HIDE DEF N
  <2> QED
    BY <1>6, <1>7, Setting!NumberInduction
<1>9. Fetching(tab, low, end, last, paged)
  BY <1>1, <1>2, <1>8
<1>10. getr(tab, paged.from, end) \in Seq(AllRows(tab))
  BY <1>9, RangeIs DEF Fetching
<1> HIDE DEF paged, all, N
<1>11. paged.over
  <2>1. Len(paged.rows) <= Len(all)
    BY <1>9, <1>10 DEF Fetching, all
  <2> QED
    BY <1>1, <1>5, <1>9, <2>1 DEF Fetching
<1>12. paged.rows = all
  BY <1>9, <1>11 DEF Fetching, all
<1> QED
  BY <1>5, <1>11, <1>12 DEF paged, all

-----------------------------------------------------------------------------
(* The inductive invariants.                                                *)

Conts == {"idle", "plain", "put", "cas", "setm", "close",
          "savepoint", "release", "rollback", "rollbackRelease"}
Taken == {"release", "rollback", "rollbackRelease"}
Replies == {"none", "ok", "committed", "rolledBack", "setmOk", "err",
            "TxClosed", "TxReadOnly", "KeyAlreadyExists", "ConditionNotMet"}

ClientTyped ==
  /\ conn \in BOOLEAN
  /\ writeable \in BOOLEAN
  /\ savepoints \in Seq(Savepoints)
  /\ savepoint_counter \in Names
  /\ cont = "savepoint" => savepoints # <<>>

CallTyped ==
  /\ cont \in Conts
  /\ IF cont \in Taken THEN held \in Savepoints ELSE held = NoSavepoint
  /\ batch \in Seq(Pairs)
  /\ Len(batch) <= MaxPairs
  /\ start \in Nat
  /\ IF cont = "setm" THEN start < Len(batch) ELSE batch = <<>> /\ start = 0
  /\ goal \in Views
  /\ reply \in Replies

WireTyped ==
  /\ todo \in Stmts \cup {NoStmt}
  /\ orphan \in Stmts \cup {NoStmt}
  /\ answer \in Results \cup {"none"}

ServerTyped ==
  /\ table \in Views
  /\ view \in Views
  /\ stack \in Seq(Savepoints)
  /\ status \in {"open", "aborted", "committed", "rolledback"}

Typed == ClientTyped /\ CallTyped /\ WireTyped /\ ServerTyped

(* From here on no future is dropped.  The statement of each call ...       *)
InProgress ==
  /\ orphan = NoStmt
  /\ cont = "idle" => todo = NoStmt /\ answer = "none"
  /\ cont # "idle" => todo \in Stmts
  /\ cont = "plain" => todo.kind \in {"read", "set", "del", "delr"}
  /\ cont = "put" => todo.kind = "put"
  /\ cont = "cas" => todo.kind \in {"putc", "delc"}
  /\ cont = "setm" => todo = ChunkStmt(batch, start)
  /\ cont = "close" => todo.kind \in {"commit", "rollback"}
  /\ cont = "savepoint"
       => todo = [kind |-> "savepoint", name |-> Top(savepoints).name]
  /\ cont \in {"release", "rollbackRelease"}
       => todo = [kind |-> "release", name |-> held.name]
  /\ cont = "rollback" => todo = [kind |-> "rollbackTo", name |-> held.name]
  /\ ~conn => cont \in {"idle", "close"} /\ savepoints = <<>>
  /\ cont = "close" => ~conn

(* ... the two stacks while it is executed ...                              *)
Stacks ==
  Alive /\ conn =>
    /\ cont \in {"idle", "plain", "put", "cas", "setm"} => stack = savepoints
    /\ cont = "savepoint" =>
         /\ stack = IF answer = "ok" THEN savepoints ELSE Pop(savepoints)
         /\ answer = "none" => Top(savepoints).snap = view
    /\ cont \in Taken =>
         stack = IF answer = "ok" /\ cont # "rollback" THEN savepoints
                                                       ELSE Append(savepoints, held)

(* ... and what it does to the view.                                        *)
Rest(from) == SetAll(view, SubSeq(batch, from + 1, Len(batch)))
Effects ==
  /\ cont \in {"rollback", "rollbackRelease"} => goal = held.snap
  /\ cont = "rollback" /\ answer = "ok" => view = goal
  /\ cont = "rollbackRelease" => view = goal
  /\ cont = "setm" /\ answer = "none" => Rest(start) = goal
  /\ cont = "setm" /\ answer = "ok" => Rest(ChunkEnd(batch, start)) = goal
  /\ cont \in {"put", "cas"} =>
       /\ answer = "none" => goal = view
       /\ answer = "ok" => Met
       /\ answer = "zero" => ~Met /\ view = goal /\ status # "aborted"

IInv == Typed /\ InProgress /\ Stacks /\ Effects

-----------------------------------------------------------------------------
(* Types.                                                                   *)

(* What the fields of a statement are.                                      *)
LEMMA Fields ==
  ASSUME NEW s \in Stmts
  PROVE  /\ s.kind \in {"set", "put", "putc", "del", "delc"} => s.key \in Key
         /\ s.kind \in {"set", "put", "putc"} => s.val \in Val
         /\ s.kind \in {"putc", "delc"} => s.chk \in Val
         /\ s.kind \in {"savepoint", "release", "rollbackTo"} => s.name \in Names
         /\ s.kind = "setm" => s.pairs \in Seq(Pairs)
<1> DEFINE All == {t \in Stmts :
                     /\ t.kind \in {"set", "put", "putc", "del", "delc"} => t.key \in Key
                     /\ t.kind \in {"set", "put", "putc"} => t.val \in Val
                     /\ t.kind \in {"putc", "delc"} => t.chk \in Val
                     /\ t.kind \in {"savepoint", "release", "rollbackTo"}
                          => t.name \in Names
                     /\ t.kind = "setm" => t.pairs \in Seq(Pairs)}
<1>1. CASE s \in [kind : {"read", "commit", "rollback"}]
  BY <1>1
<1>2. CASE s \in [kind : {"savepoint", "release", "rollbackTo"}, name : Names]
  BY <1>2
<1>3. CASE s \in [kind : {"set", "put"}, key : Key, val : Val]
  BY <1>3
<1>4. CASE s \in [kind : {"putc"}, key : Key, val : Val, chk : Val]
  BY <1>4
<1>5. CASE s \in [kind : {"del"}, key : Key]
  BY <1>5
<1>6. CASE s \in [kind : {"delc"}, key : Key, chk : Val]
  BY <1>6
<1>7. CASE s \in [kind : {"delr"}, lo : Key, hi : Nat]
  BY <1>7
<1>8. CASE s \in [kind : {"setm"}, pairs : Seq(Key \X Val)]
  BY <1>8 DEF Pairs
<1> QED
  BY <1>1, <1>2, <1>3, <1>4, <1>5, <1>6, <1>7, <1>8 DEF Stmts

(* A statement turns a view into a view.                                    *)
LEMMA ChangedTyped ==
  ASSUME view \in Views, NEW s \in Stmts,
         s.kind \in {"set", "put", "putc", "del", "delc", "delr"}
  PROVE  Changed(s) \in Views
<1>1. CASE s.kind \in {"set", "put", "putc"}
  <2>1. s.key \in Key /\ s.val \in Val
    BY <1>1, Fields
  <2> QED
    BY <1>1, <2>1 DEF Changed, Views
<1>2. CASE s.kind \in {"del", "delc"}
  <2>1. s.key \in Key
    BY <1>2, Fields
  <2> QED
    BY <1>2, <2>1 DEF Changed, Views
<1>3. CASE s.kind = "delr"
  <2>1. Changed(s) = [k \in Key |-> IF s.lo <= k /\ k < s.hi THEN NoVal ELSE view[k]]
    BY <1>3 DEF Changed
  <2>2. \A k \in Key : view[k] \in Val \cup {NoVal}
    BY DEF Views
  <2> QED
    BY <2>1, <2>2 DEF Views
<1> QED
  BY <1>1, <1>2, <1>3

(* The innermost savepoint of a name, and the savepoints around it.         *)
LEMMA InnermostIs ==
  ASSUME stack \in Seq(Savepoints), NEW n, Known(n) # {}
  PROVE  /\ Innermost(n) \in 1..Len(stack)
         /\ stack[Innermost(n)].name = n
         /\ \A j \in 1..Len(stack) : stack[j].name = n => j <= Innermost(n)
<1>1. DOMAIN stack = 1..Len(stack) /\ Len(stack) \in Nat
  OBVIOUS
<1>2. Known(n) \in SUBSET (1..Len(stack))
  BY <1>1 DEF Known
<1>3. \E i \in Known(n) : \A j \in Known(n) : j <= i
  BY <1>1, <1>2, Mapping!LargestIndex
<1>4. Innermost(n) \in Known(n) /\ \A j \in Known(n) : j <= Innermost(n)
  BY <1>3 DEF Innermost
<1> QED
  BY <1>1, <1>2, <1>4 DEF Known

(* PostgreSQL stays within its types, whatever the statement and the answer.*)
LEMMA PerformTyped ==
  ASSUME ServerTyped, NEW s \in Stmts, NEW r, Perform(s, r)
  PROVE  ServerTyped'
<1>1. CASE PerformData(s, r)
  <2>1. UNCHANGED <<table, stack, status>>
    BY <1>1 DEF PerformData, server
  <2>2. view' \in Views
    <3>1. CASE s.kind = "setm" /\ view' = SetAll(view, s.pairs)
      BY <3>1, Fields, SetAllTyped DEF ServerTyped
    <3>2. CASE /\ s.kind \in {"set", "put", "putc", "del", "delc", "delr"}
               /\ view' = Changed(s)
      BY <3>2, ChangedTyped DEF ServerTyped
    <3>3. CASE view' = view
      BY <3>3 DEF ServerTyped
    <3> QED
      BY <1>1, <3>1, <3>2, <3>3 DEF PerformData, server, Conditional
  <2> QED
    BY <2>1, <2>2 DEF ServerTyped
<1>2. CASE PerformSavepoint(s, r)
  <2>0. s.kind \in {"savepoint", "release", "rollbackTo"} => s.name \in Names
    BY Fields
  <2>1. CASE /\ s.kind = "savepoint"
             /\ stack' = Append(stack, [name |-> s.name, snap |-> view])
             /\ UNCHANGED <<table, view, status>>
    <3>1. [name |-> s.name, snap |-> view] \in Savepoints
      BY <2>0, <2>1 DEF Savepoints, ServerTyped
    <3> HIDE DEF Savepoints
    <3> QED
      BY <2>1, <3>1 DEF ServerTyped
  <2>2. CASE /\ Known(s.name) # {}
             /\ stack' = SubSeq(stack, 1, Innermost(s.name) - 1)
             /\ UNCHANGED <<table, view, status>>
    <3>1. Innermost(s.name) \in 1..Len(stack)
      BY <2>2, InnermostIs DEF ServerTyped
    <3> QED
      BY <2>2, <3>1 DEF ServerTyped
  <2>3. CASE /\ Known(s.name) # {}
             /\ stack' = SubSeq(stack, 1, Innermost(s.name))
             /\ view' = stack[Innermost(s.name)].snap
             /\ status' = "open"
             /\ UNCHANGED table
    <3>1. Innermost(s.name) \in 1..Len(stack)
      BY <2>3, InnermostIs DEF ServerTyped
    <3>2. stack[Innermost(s.name)] \in Savepoints
      BY <3>1 DEF ServerTyped
    <3>3. view' \in Views
      BY <2>3, <3>2 DEF Savepoints
    <3>4. stack' \in Seq(Savepoints)
      BY <2>3, <3>1 DEF ServerTyped
    <3> QED
      BY <2>3, <3>3, <3>4 DEF ServerTyped
  <2> QED
    BY <1>2, <2>1, <2>2, <2>3 DEF PerformSavepoint
<1>3. CASE PerformFails(s, r) \/ PerformEnd(s, r) \/ UNCHANGED server
  BY <1>3 DEF PerformFails, PerformEnd, ServerTyped, server
<1> QED
  BY <1>1, <1>2, <1>3 DEF Perform

(* A chunk of a batch.                                                      *)
LEMMA ChunkTyped ==
  ASSUME NEW pairs \in Seq(Pairs), NEW from \in Nat, from < Len(pairs)
  PROVE  /\ ChunkEnd(pairs, from) \in from+1..Len(pairs)
         /\ ChunkStmt(pairs, from) \in Stmts
         /\ ChunkStmt(pairs, from).kind = "setm"
         /\ ChunkStmt(pairs, from).pairs
              = SubSeq(pairs, from + 1, ChunkEnd(pairs, from))
<1>1. ChunkEnd(pairs, from) \in from+1..Len(pairs)
  BY KvTransactionAssumption DEF ChunkEnd, Smaller
<1>2. SubSeq(pairs, from + 1, ChunkEnd(pairs, from)) \in Seq(Pairs)
  BY <1>1
<1> QED
  BY <1>1, <1>2 DEF ChunkStmt, Stmts, Pairs

(* The batches callers give to setm.                                        *)
LEMMA BatchesAre ==
  ASSUME NEW pairs \in BoundedSeq(Key \X Val, MaxPairs)
  PROVE  pairs \in Seq(Pairs) /\ Len(pairs) <= MaxPairs
<1>1. PICK n \in 0..MaxPairs : pairs \in [1..n -> Pairs]
  BY DEF BoundedSeq, SeqOf, Pairs
<1>2. n \in Nat /\ n <= MaxPairs
  BY KvTransactionAssumption
<1> HIDE DEF Pairs
<1>3. pairs \in Seq(Pairs) /\ Len(pairs) = n
  BY <1>1, <1>2
<1> QED
  BY <1>2, <1>3

(* setm sends at least one pair.                                            *)
LEMMA DedupTyped ==
  ASSUME NEW pairs \in BoundedSeq(Key \X Val, MaxPairs), pairs # <<>>,
         NEW batched \in dedup_pairs(pairs)
  PROVE  /\ batched \in Seq(Pairs)
         /\ Len(batched) \in 1..MaxPairs
<1> DEFINE map == LastValues(pairs)
<1>1. pairs \in Seq(Pairs) /\ Len(pairs) <= MaxPairs /\ MaxPairs \in Nat
  BY BatchesAre, KvTransactionAssumption
<1>2. Lists(batched, map) /\ Len(batched) <= Len(pairs)
  BY <1>1, DedupLists
<1>3. IsMapOf(pairs, map)
  BY <1>1, LastValuesAre
<1> HIDE DEF map
<1>4. 1 \in DOMAIN pairs
  BY <1>1
<1>5. pairs[1][1] \in DOMAIN map
  BY <1>3, <1>4 DEF IsMapOf
<1>6. Rows(map) # {}
  BY <1>5 DEF Rows
<1>7. batched \in Seq(Pairs) /\ DOMAIN batched # {}
  BY <1>2, <1>6 DEF Lists
<1> QED
  BY <1>1, <1>2, <1>7

(* The types hold at the start, and every action keeps them.                *)
LEMMA TypedInit ==
  Init => Typed
<1> SUFFICES ASSUME Init
             PROVE  Typed
  OBVIOUS
<1> USE DEF Init
<1>1. ClientTyped
  BY KvTransactionAssumption DEF ClientTyped, Names
<1>2. CallTyped
  <2>1. batch \in Seq(Pairs) /\ Len(batch) = 0
    BY DEF Pairs
  <2> QED
    BY <2>1, KvTransactionAssumption DEF CallTyped, Conts, Taken, Replies
<1>3. WireTyped /\ ServerTyped
  BY DEF WireTyped, ServerTyped
<1> QED
  BY <1>1, <1>2, <1>3 DEF Typed

(* A call that returns.                                                     *)
LEMMA ReturnTyped ==
  ASSUME Typed, NEW r \in Replies, Return(r), UNCHANGED goal
  PROVE  CallTyped'
<1>1. batch' \in Seq(Pairs) /\ Len(batch') = 0
  BY DEF Return, Pairs
<1> QED
  BY <1>1, KvTransactionAssumption
     DEF Return, Typed, CallTyped, Conts, Taken

(* A call that is refused.                                                  *)
LEMMA RefuseTyped ==
  ASSUME Typed, NEW r \in Replies, Refuse(r)
  PROVE  Typed'
<1>1. CallTyped'
  BY ReturnTyped DEF Refuse
<1>2. ClientTyped'
  BY DEF Refuse, Return, client, Typed, ClientTyped
<1>3. WireTyped'
  BY DEF Refuse, wire, Typed, WireTyped
<1>4. ServerTyped'
  BY DEF Refuse, server, Typed, ServerTyped
<1> QED
  BY <1>1, <1>2, <1>3, <1>4 DEF Typed

(* A call that sends one statement.                                         *)
LEMMA OneStatementTyped ==
  ASSUME Typed, NEW s \in Stmts, NEW where \in {"plain", "put", "cas"},
         OneStatement(s, where)
  PROVE  Typed'
<1>1. CASE Refuse("TxReadOnly") \/ Refuse("TxClosed")
  BY <1>1, RefuseTyped DEF Replies
<1>2. CASE /\ Idle /\ Send(s, where)
           /\ goal' = view
           /\ UNCHANGED <<client, held, batch, start, reply, server>>
  <2> USE <1>2 DEF Send, Idle
  <2>1. ClientTyped'
    BY DEF client, Typed, ClientTyped
  <2>2. CallTyped'
    BY DEF Typed, CallTyped, ServerTyped, Conts, Taken
  <2>3. WireTyped'
    BY DEF Typed, WireTyped
  <2>4. ServerTyped'
    BY DEF server, Typed, ServerTyped
  <2> QED
    BY <2>1, <2>2, <2>3, <2>4 DEF Typed
<1> QED
  BY <1>1, <1>2 DEF OneStatement

(* A setm that sends its first chunk.                                       *)
LEMMA SetmTyped ==
  ASSUME Typed, NEW pairs \in BoundedSeq(Key \X Val, MaxPairs), setm(pairs)
  PROVE  Typed'
<1>1. CASE Refuse("TxReadOnly") \/ Refuse("TxClosed") \/ Refuse("ok")
  BY <1>1, RefuseTyped DEF Replies
<1>2. CASE /\ Idle /\ pairs # <<>>
           /\ batch' \in dedup_pairs(pairs)
           /\ Send(ChunkStmt(batch', 0), "setm")
           /\ goal' = SetAll(view, pairs)
           /\ UNCHANGED <<client, held, start, reply, server>>
  <2> USE <1>2 DEF Send, Idle
  <2>1. batch' \in Seq(Pairs) /\ Len(batch') \in 1..MaxPairs /\ MaxPairs \in Nat
    BY DedupTyped, KvTransactionAssumption
  <2>2. goal' \in Views
    <3>1. pairs \in Seq(Pairs) /\ view \in Views
      BY BatchesAre DEF Typed, ServerTyped
    <3> QED
      BY <3>1, SetAllTyped
  <2>3. start = 0 /\ start' = 0 /\ held' = held /\ held = NoSavepoint /\ reply' \in Replies
    BY DEF Typed, CallTyped, Taken
  <2>4. CallTyped'
    BY <2>1, <2>2, <2>3 DEF CallTyped, Conts, Taken
  <2>5. ChunkStmt(batch', 0) \in Stmts
    BY <2>1, ChunkTyped
  <2>6. WireTyped'
    BY <2>5 DEF Typed, WireTyped
  <2>7. ClientTyped'
    BY DEF client, Typed, ClientTyped
  <2>8. ServerTyped'
    BY DEF server, Typed, ServerTyped
  <2> QED
    BY <2>4, <2>6, <2>7, <2>8 DEF Typed
<1> QED
  BY <1>1, <1>2 DEF setm

(* Every key-value call.                                                    *)
LEMMA CallKvTyped ==
  ASSUME Typed, CallKv
  PROVE  Typed'
<1>1. CASE Read
  <2>1. [kind |-> "read"] \in Stmts
    BY DEF Stmts
  <2> QED
    BY <1>1, <2>1, OneStatementTyped, RefuseTyped DEF Read, ReadNothing, Replies
<1>2. ASSUME NEW k \in Key, NEW v \in Val, set(k, v) \/ put(k, v)
      PROVE  Typed'
  <2>1. /\ [kind |-> "set", key |-> k, val |-> v] \in Stmts
        /\ [kind |-> "put", key |-> k, val |-> v] \in Stmts
    BY DEF Stmts
  <2> QED
    BY <1>2, <2>1, OneStatementTyped DEF set, put
<1>3. ASSUME NEW k \in Key, NEW v \in Val, NEW c \in Val \cup {NoVal}, putc(k, v, c)
      PROVE  Typed'
  <2>1. /\ [kind |-> "put", key |-> k, val |-> v] \in Stmts
        /\ c # NoVal => [kind |-> "putc", key |-> k, val |-> v, chk |-> c] \in Stmts
    BY DEF Stmts
  <2> QED
    BY <1>3, <2>1, OneStatementTyped DEF putc
<1>4. ASSUME NEW k \in Key, NEW c \in Val \cup {NoVal}, del(k) \/ delc(k, c)
      PROVE  Typed'
  <2>1. /\ [kind |-> "del", key |-> k] \in Stmts
        /\ c # NoVal => [kind |-> "delc", key |-> k, chk |-> c] \in Stmts
    BY DEF Stmts
  <2> QED
    BY <1>4, <2>1, OneStatementTyped DEF del, delc
<1>5. ASSUME NEW lo \in Key, NEW hi \in Nat, delr(lo, hi)
      PROVE  Typed'
  <2>1. [kind |-> "delr", lo |-> lo, hi |-> hi] \in Stmts
    BY DEF Stmts
  <2>2. \A w : Refuse(IF w THEN "ok" ELSE "TxReadOnly") => Typed'
    BY RefuseTyped DEF Replies
  <2> QED
    BY <1>5, <2>1, <2>2, OneStatementTyped DEF delr
<1>6. \A hi \in Key : hi \in Nat /\ hi + 1 \in Nat
  BY KvTransactionAssumption
<1> QED
  BY <1>1, <1>2, <1>3, <1>4, <1>5, <1>6, SetmTyped DEF CallKv

(* The server and the connection.                                           *)
LEMMA ServerStepsTyped ==
  ASSUME Typed, Execute \/ ExecuteOrphan \/ LoseConnection \/ LoseCommitAnswer
  PROVE  Typed'
<1>1. CASE Execute
  <2>1. PICK r \in Results : Perform(todo, r) /\ answer' = r
    BY <1>1 DEF Execute
  <2>2. todo \in Stmts
    BY <1>1 DEF Execute, Typed, WireTyped
  <2>3. ServerTyped'
    BY <2>1, <2>2, PerformTyped DEF Typed
  <2>4. ClientTyped' /\ CallTyped'
    BY <1>1 DEF Execute, client, call, Typed, ClientTyped, CallTyped
  <2>5. WireTyped'
    BY <1>1, <2>1 DEF Execute, Typed, WireTyped
  <2> QED
    BY <2>3, <2>4, <2>5 DEF Typed
<1>2. CASE ExecuteOrphan
  <2>1. PICK r \in Results : Perform(orphan, r)
    BY <1>2 DEF ExecuteOrphan
  <2>2. orphan \in Stmts
    BY <1>2 DEF ExecuteOrphan, Typed, WireTyped
  <2>3. ServerTyped'
    BY <2>1, <2>2, PerformTyped DEF Typed
  <2>4. CallTyped' /\ WireTyped'
    BY <1>2 DEF ExecuteOrphan, call, Typed, WireTyped, CallTyped
  <2>5. savepoints' \in Seq(Savepoints) /\ (cont = "savepoint" => savepoints' # <<>>)
    <3>1. CASE cont # "savepoint"
      BY <1>2, <3>1 DEF ExecuteOrphan, Typed, ClientTyped
    <3>2. CASE cont = "savepoint"
      <4> DEFINE l == Len(savepoints)
                 old == savepoints[l]
                 new == [old EXCEPT !.snap = view']
      <4>1. savepoints \in Seq(Savepoints) /\ l \in 1..l /\ DOMAIN savepoints = 1..l
        BY <3>2 DEF Typed, ClientTyped
      <4>2. old \in Savepoints
        BY <4>1
      <4>3. new \in Savepoints
        BY <2>3, <4>2 DEF ServerTyped, Savepoints
      <4>4. savepoints' = [savepoints EXCEPT ![l] = new]
        BY <1>2, <3>2 DEF ExecuteOrphan
      <4> HIDE DEF new, Savepoints
      <4>5. savepoints' \in Seq(Savepoints) /\ Len(savepoints') = l
        BY <4>1, <4>3, <4>4
      <4> QED
        BY <4>1, <4>5
    <3> QED
      BY <3>1, <3>2
  <2>6. ClientTyped'
    BY <1>2, <2>5 DEF ExecuteOrphan, call, Typed, ClientTyped
  <2> QED
    BY <2>3, <2>4, <2>6 DEF Typed
<1>3. CASE LoseConnection \/ LoseCommitAnswer
  <2> USE <1>3 DEF LoseConnection, LoseCommitAnswer
  <2>1. ClientTyped' /\ CallTyped'
    BY DEF client, call, Typed, ClientTyped, CallTyped
  <2>2. WireTyped' /\ ServerTyped'
    BY DEF server, Typed, WireTyped, ServerTyped, Results
  <2> QED
    BY <2>1, <2>2 DEF Typed
<1> QED
  BY <1>1, <1>2, <1>3

(* Statements about savepoints, and the two that end a transaction.         *)
LEMMA ConstantStmts ==
  /\ \A kind \in {"savepoint", "release", "rollbackTo"}, n \in Names :
       [kind |-> kind, name |-> n] \in Stmts
  /\ \A kind \in {"commit", "rollback"} : [kind |-> kind] \in Stmts
BY DEF Stmts

(* The stack of names: its top and what is below.                           *)
LEMMA PopTyped ==
  ASSUME NEW S, NEW s \in Seq(S), s # <<>>
  PROVE  /\ Top(s) \in S /\ Pop(s) \in Seq(S)
         /\ s = Append(Pop(s), Top(s)) /\ Len(Pop(s)) = Len(s) - 1
BY DEF Top, Pop

(* The calls that send a statement about a savepoint.                       *)
LEMMA CallSavepointTyped ==
  ASSUME Typed, CallSavepoint
  PROVE  Typed'
<1>0. NextCounter \in Names
  BY KvTransactionAssumption DEF NextCounter, Names, Typed, ClientTyped
<1>1. CASE new_save_point
  <2> USE <1>1 DEF new_save_point, push_savepoint_name, Send, Idle
  <2> DEFINE new == [name |-> NextCounter, snap |-> view]
  <2>1. new \in Savepoints
    BY <1>0 DEF Savepoints, Typed, ServerTyped
  <2>2. savepoints' = Append(savepoints, new)
    OBVIOUS
  <2> HIDE DEF new
  <2>3. savepoints' \in Seq(Savepoints) /\ savepoints' # <<>>
    BY <2>1, <2>2 DEF Typed, ClientTyped
  <2>4. ClientTyped'
    BY <1>0, <2>3 DEF Typed, ClientTyped
  <2>5. CallTyped'
    BY DEF Typed, CallTyped, Conts, Taken
  <2>6. WireTyped'
    <3>1. todo' \in Stmts
      BY <1>0, ConstantStmts
    <3> QED
      BY <3>1 DEF Typed, WireTyped
  <2>7. ServerTyped'
    BY DEF server, Typed, ServerTyped
  <2> QED
    BY <2>4, <2>5, <2>6, <2>7 DEF Typed
<1>2. ASSUME NEW kind \in {"release", "rollbackTo"}, NEW where \in Taken,
             TakeTop(kind, where),
             goal' = goal \/ goal' = Top(savepoints).snap
      PROVE  Typed'
  <2> USE <1>2 DEF TakeTop, Send, Idle
  <2>1. Top(savepoints) \in Savepoints /\ Pop(savepoints) \in Seq(Savepoints)
    BY PopTyped DEF Typed, ClientTyped
  <2>2. Top(savepoints).name \in Names /\ Top(savepoints).snap \in Views
    BY <2>1 DEF Savepoints
  <2>3. ClientTyped'
    BY <2>1 DEF Typed, ClientTyped, Taken
  <2>4. CallTyped'
    BY <2>1, <2>2 DEF Typed, CallTyped, Conts, Taken
  <2>5. WireTyped'
    <3>1. todo' \in Stmts
      BY <2>2, ConstantStmts
    <3> QED
      BY <3>1 DEF Typed, WireTyped
  <2>6. ServerTyped'
    BY DEF server, Typed, ServerTyped
  <2> QED
    BY <2>3, <2>4, <2>5, <2>6 DEF Typed
<1>3. CASE release_last_save_point \/ rollback_to_save_point
  BY <1>2, <1>3 DEF release_last_save_point, rollback_to_save_point, Taken
<1>4. CASE NoSavepointLeft
  BY <1>4, RefuseTyped DEF NoSavepointLeft, Replies
<1>5. CASE NewSavepointClosed
  <2> USE <1>5 DEF NewSavepointClosed
  <2>1. CallTyped'
    BY ReturnTyped DEF Replies
  <2>2. ClientTyped'
    BY <1>0 DEF Return, Typed, ClientTyped
  <2>3. WireTyped' /\ ServerTyped'
    BY DEF wire, server, Typed, WireTyped, ServerTyped
  <2> QED
    BY <2>1, <2>2, <2>3 DEF Typed
<1> QED
  BY <1>1, <1>3, <1>4, <1>5 DEF CallSavepoint

(* commit and cancel.                                                       *)
LEMMA CloseTyped ==
  ASSUME Typed, commit \/ cancel
  PROVE  Typed'
<1> SUFFICES ASSUME NEW kind \in {"commit", "rollback"}, Close(kind)
             PROVE  Typed'
  BY DEF commit, cancel
<1>1. CASE Refuse("TxClosed")
  BY <1>1, RefuseTyped DEF Replies
<1>2. CASE ~Refuse("TxClosed")
  <2> USE <1>2 DEF Close, Send, Idle
  <2>1. ClientTyped'
    <3>1. savepoints' = <<>> /\ <<>> \in Seq(Savepoints)
      <4> HIDE DEF Savepoints
      <4>1. savepoints' = <<>>
        OBVIOUS
      <4> QED
        BY <4>1
    <3> QED
      BY <3>1 DEF Typed, ClientTyped
  <2>2. CallTyped'
    BY DEF Typed, CallTyped, Conts, Taken
  <2>3. WireTyped'
    <3>1. todo' \in Stmts
      BY ConstantStmts
    <3> QED
      BY <3>1 DEF Typed, WireTyped
  <2>4. ServerTyped'
    BY DEF server, Typed, ServerTyped
  <2> QED
    BY <2>1, <2>2, <2>3, <2>4 DEF Typed
<1> QED
  BY <1>1, <1>2

(* The calls go on.                                                         *)
LEMMA NextChunkTyped ==
  ASSUME Typed, NextChunk
  PROVE  Typed'
<1> USE DEF NextChunk
<1>1. ClientTyped' /\ ServerTyped'
  BY DEF client, server, Typed, ClientTyped, ServerTyped
<1>2. start' \in Nat /\ start' < Len(batch) /\ batch \in Seq(Pairs)
  BY KvTransactionAssumption DEF MoreChunks, Typed, CallTyped
<1>3. CallTyped'
  BY <1>2 DEF Typed, CallTyped
<1>4. todo' \in Stmts
  BY <1>2, ChunkTyped
<1>5. WireTyped'
  BY <1>4 DEF Typed, WireTyped
<1> QED
  BY <1>1, <1>3, <1>5 DEF Typed

(* A call ends.                                                             *)
LEMMA AnsweredTyped ==
  ASSUME Typed, Answered \/ SavepointAnswered
  PROVE  Typed'
<1>1. PICK r \in Replies : Finish(r)
  BY DEF Answered, SavepointAnswered, Replies
<1>2. savepoints' \in Seq(Savepoints)
  <2>1. CASE UNCHANGED savepoints
    BY <2>1 DEF Typed, ClientTyped
  <2>2. CASE cont = "savepoint" /\ savepoints' = UndoPush
    BY <2>2, PopTyped DEF UndoPush, Typed, ClientTyped
  <2>3. CASE cont \in Taken /\ savepoints' = PushBack
    BY <2>3 DEF PushBack, Typed, ClientTyped, CallTyped
  <2> QED
    BY <2>1, <2>2, <2>3 DEF Answered, SavepointAnswered, Taken
<1>3. CallTyped'
  BY <1>1, ReturnTyped DEF Finish
<1>4. ClientTyped'
  BY <1>1, <1>2 DEF Finish, Return, Typed, ClientTyped
<1>5. WireTyped'
  BY <1>1 DEF Finish, Typed, WireTyped
<1>6. ServerTyped'
  BY <1>1 DEF Finish, server, Typed, ServerTyped
<1> QED
  BY <1>3, <1>4, <1>5, <1>6 DEF Typed

(* The second step of rollback_to_save_point.                               *)
LEMMA ReleaseRestoredTyped ==
  ASSUME Typed, ReleaseRestored
  PROVE  Typed'
<1> USE DEF ReleaseRestored
<1>1. held \in Savepoints
  BY DEF Typed, CallTyped, Taken
<1>2. todo' \in Stmts
  BY <1>1, ConstantStmts DEF Savepoints
<1>3. ClientTyped' /\ ServerTyped'
  BY DEF client, server, Typed, ClientTyped, ServerTyped
<1>4. CallTyped'
  BY <1>1 DEF Typed, CallTyped, Conts, Taken
<1>5. WireTyped'
  BY <1>2 DEF Typed, WireTyped
<1> QED
  BY <1>3, <1>4, <1>5 DEF Typed

(* A caller drops a future.                                                 *)
LEMMA DropFutureTyped ==
  ASSUME Typed, DropFuture
  PROVE  Typed'
<1> USE DEF DropFuture
<1>1. CallTyped'
  BY ReturnTyped DEF Replies
<1>2. ClientTyped'
  BY DEF Return, client, Typed, ClientTyped
<1>3. WireTyped' /\ ServerTyped'
  BY DEF server, Typed, WireTyped, ServerTyped
<1> QED
  BY <1>1, <1>2, <1>3 DEF Typed

(* The types are inductive.                                                 *)
LEMMA TypedStep ==
  Typed /\ [Next]_vars => Typed'
<1> SUFFICES ASSUME Typed, [Next]_vars
             PROVE  Typed'
  OBVIOUS
<1>1. CASE UNCHANGED vars
  <2> USE <1>1 DEF vars
  <2>1. ClientTyped' /\ CallTyped'
    BY DEF client, call, Typed, ClientTyped, CallTyped
  <2>2. WireTyped' /\ ServerTyped'
    BY DEF wire, server, Typed, WireTyped, ServerTyped
  <2> QED
    BY <2>1, <2>2 DEF Typed
<1>2. CASE Next
  BY <1>2, CallKvTyped, CallSavepointTyped, CloseTyped, ServerStepsTyped, NextChunkTyped,
     AnsweredTyped, ReleaseRestoredTyped, DropFutureTyped DEF Next
<1> QED
  BY <1>1, <1>2

(* They are the type invariant of the runs, and more.                       *)
LEMMA TypedIsTypeOK ==
  Typed => TypeOK
<1> SUFFICES ASSUME Typed
             PROVE  TypeOK
  OBVIOUS
<1>1. start \in 0..MaxPairs
  BY KvTransactionAssumption DEF Typed, CallTyped
<1>2. /\ held \in Savepoints \cup {NoSavepoint}
      /\ (held # NoSavepoint) = (cont \in {"release", "rollback", "rollbackRelease"})
  BY KvTransactionAssumption DEF Typed, CallTyped, Taken
<1> QED
  BY <1>1, <1>2 DEF Typed, ClientTyped, CallTyped, WireTyped, ServerTyped, TypeOK,
     Conts, Replies, Results, Pairs

(* The types, with calls that are dropped too: every statement of a setm is *)
(* a nonempty chunk of its batch, and a savepoint is off the stack of names *)
(* exactly while a release or a rollback is in progress.                    *)
THEOREM TypeInvariant ==
  Spec => []TypeOK
<1>1. Spec => []Typed
  BY TypedInit, TypedStep, PTL DEF Spec
<1> QED
  BY <1>1, TypedIsTypeOK, PTL

(* setm's deduplication, on both paths and for every order the HashMap is   *)
(* read back in: each key once, with the effect of the pairs in turn.       *)
THEOREM DedupInvariant ==
  Spec => []DedupKeepsLast
<1>1. Typed => DedupKeepsLast
  <2> SUFFICES ASSUME Typed,
                      NEW pairs \in BoundedSeq(Key \X Val, MaxPairs),
                      NEW d \in dedup_pairs(pairs)
               PROVE  /\ \A i, j \in DOMAIN d : d[i][1] = d[j][1] => i = j
                      /\ SetAll(table, d) = SetAll(table, pairs)
    BY DEF DedupKeepsLast, Batches
  <2>1. pairs \in Seq(Pairs) /\ table \in Views
    BY BatchesAre DEF Typed, ServerTyped
  <2>2. Lists(d, LastValues(pairs))
    BY <2>1, DedupLists
  <2>3. SetAll(table, d) = SetAll(table, pairs)
    BY <2>1, <2>2, ListsEffect
  <2> QED
    BY <2>2, <2>3 DEF Lists
<1>2. Spec => []Typed
  BY TypedInit, TypedStep, PTL DEF Spec
<1> QED
  BY <1>1, <1>2, PTL

(* getm: each key's value in its own place, on both search paths and for    *)
(* every order of the rows.                                                 *)
THEOREM GetmInvariant ==
  Spec => []GetmInPlace
<1>1. Typed => GetmInPlace
  <2> SUFFICES ASSUME Typed, NEW keys \in BoundedSeq(Key, MaxPairs)
               PROVE  getm(table, keys) = {[i \in DOMAIN keys |-> table[keys[i]]]}
    BY DEF GetmInPlace, KeyLists
  <2>1. PICK n \in 0..MaxPairs : keys \in [1..n -> Key]
    BY DEF BoundedSeq, SeqOf
  <2>2. n \in Nat
    BY KvTransactionAssumption
  <2>3. keys \in Seq(Key)
    BY <2>1, <2>2
  <2> QED
    BY <2>3, GetmIs DEF Typed, ServerTyped
<1>2. Spec => []Typed
  BY TypedInit, TypedStep, PTL DEF Spec
<1> QED
  BY <1>1, <1>2, PTL

(* Keyset pagination returns what one statement does, for every range and   *)
(* page size: no row twice, none left out, and the scan ends.               *)
THEOREM PagesInvariant ==
  ASSUME IsFiniteSet(Key)
  PROVE  Spec => []PagesAddUp
<1>1. Typed => PagesAddUp
  <2> SUFFICES ASSUME Typed, NEW from \in Ends, NEW end \in Ends,
                      NEW limit \in 1..Cardinality(Key)
               PROVE  LET paged == PagedScan(table, from, end, limit)
                      IN  /\ paged.over
                          /\ paged.rows = getr(table, from, end)
                          /\ Len(paged.rows) = count(table, from, end)
    BY DEF PagesAddUp
  <2>1. DOMAIN table = Key
    BY DEF Typed, ServerTyped, Views
  <2>2. from \in Nat /\ end \in Nat
    BY KvTransactionAssumption DEF Ends
  <2>3. limit \in Nat \ {0}
    BY FS_CardinalityType
  <2> QED
    BY <2>1, <2>2, <2>3, KvTransactionAssumption, PagesAre
<1>2. Spec => []Typed
  BY TypedInit, TypedStep, PTL DEF Spec
<1> QED
  BY <1>1, <1>2, PTL

-----------------------------------------------------------------------------
(* Calls that run to their end: the two stacks.                             *)

LEMMA ProgressInit ==
  ASSUME Init, Typed
  PROVE  InProgress /\ Stacks /\ Effects
<1> USE DEF Init
<1>1. InProgress
  BY DEF InProgress
<1>2. Stacks /\ Effects
  BY DEF Stacks, Effects, Taken
<1> QED
  BY <1>1, <1>2

(* A call that is refused changes nothing the invariants speak of.          *)
LEMMA RefuseProgress ==
  ASSUME IInv, Idle, NEW r, Refuse(r)
  PROVE  InProgress' /\ Stacks' /\ Effects'
<1> USE DEF Refuse, Return, Idle
<1>1. InProgress'
  BY DEF IInv, InProgress, client, wire
<1>2. Stacks'
  BY DEF IInv, Stacks, Taken, Alive, client, server
<1>3. Effects'
  BY DEF Effects, Taken
<1> QED
  BY <1>1, <1>2, <1>3

(* A call that sends one statement remembers the view it was made in.       *)
LEMMA OneStatementProgress ==
  ASSUME IInv, NEW s \in Stmts, NEW where \in {"plain", "put", "cas"},
         where = "plain" => s.kind \in {"read", "set", "del", "delr"},
         where = "put" => s.kind = "put",
         where = "cas" => s.kind \in {"putc", "delc"},
         OneStatement(s, where)
  PROVE  InProgress' /\ Stacks' /\ Effects'
<1>1. CASE Refuse("TxReadOnly") \/ Refuse("TxClosed")
  BY <1>1, RefuseProgress DEF OneStatement
<1>2. CASE /\ Idle /\ conn /\ Send(s, where)
           /\ goal' = view
           /\ UNCHANGED <<client, held, batch, start, reply, server>>
  <2> USE <1>2 DEF Send, Idle
  <2>1. InProgress'
    BY DEF IInv, InProgress, client, Typed, ClientTyped
  <2>2. Stacks'
    BY DEF IInv, Stacks, Taken, Alive, client, server
  <2>3. Effects'
    BY DEF IInv, InProgress, Effects, server
  <2> QED
    BY <2>1, <2>2, <2>3
<1> QED
  BY <1>1, <1>2 DEF OneStatement

(* What is still to be done of a batch.                                     *)
LEMMA RestAfterChunk ==
  ASSUME NEW pairs \in Seq(Pairs), NEW from \in Nat, from < Len(pairs), NEW base
  PROVE  SetAll(SetAll(base, ChunkStmt(pairs, from).pairs),
                SubSeq(pairs, ChunkEnd(pairs, from) + 1, Len(pairs)))
           = SetAll(base, SubSeq(pairs, from + 1, Len(pairs)))
<1> DEFINE e == ChunkEnd(pairs, from)
           p == SubSeq(pairs, from + 1, e)
           q == SubSeq(pairs, e + 1, Len(pairs))
<1>1. e \in from+1..Len(pairs) /\ ChunkStmt(pairs, from).pairs = p
  BY ChunkTyped
<1> HIDE DEF e, Pairs
<1>2. p \in Seq(Pairs) /\ q \in Seq(Pairs)
  BY <1>1
<1>3. p \o q = SubSeq(pairs, from + 1, Len(pairs))
  <2>1. /\ from + 1 \in 1 .. Len(pairs) + 1
        /\ e \in (from + 1) - 1 .. Len(pairs)
        /\ Len(pairs) \in e .. Len(pairs)
    BY <1>1
  <2> QED
    BY <2>1, ConcatAdjacentSubSeq
<1> HIDE DEF p, q
<1>4. SetAll(SetAll(base, p), q) = SetAll(base, p \o q)
  BY <1>2, SetAllConcat
<1> QED
  BY <1>1, <1>3, <1>4 DEF e, q

(* After a setm's first step all of its batch is still to be done.          *)
LEMMA SetmProgress ==
  ASSUME IInv, NEW pairs \in BoundedSeq(Key \X Val, MaxPairs), setm(pairs)
  PROVE  InProgress' /\ Stacks' /\ Effects'
<1>1. CASE Refuse("TxReadOnly") \/ Refuse("TxClosed") \/ Refuse("ok")
  BY <1>1, RefuseProgress DEF setm
<1>2. CASE /\ Idle /\ conn /\ pairs # <<>>
           /\ batch' \in dedup_pairs(pairs)
           /\ Send(ChunkStmt(batch', 0), "setm")
           /\ goal' = SetAll(view, pairs)
           /\ UNCHANGED <<client, held, start, reply, server>>
  <2> USE <1>2 DEF Send, Idle
  <2>1. batch' \in Seq(Pairs) /\ Len(batch') \in 1..MaxPairs /\ MaxPairs \in Nat
    BY DedupTyped, KvTransactionAssumption
  <2>2. start = 0 /\ start' = 0
    BY DEF IInv, Typed, CallTyped
  <2>3. ChunkStmt(batch', 0) \in Stmts
    BY <2>1, ChunkTyped
  <2>4. InProgress'
    BY <2>2, <2>3 DEF IInv, InProgress, client
  <2>5. Stacks'
    BY DEF IInv, Stacks, Taken, Alive, client, server
  <2>6. Rest(start)' = goal'
    <3>1. SubSeq(batch', 0 + 1, Len(batch')) = batch'
      BY <2>1
    <3>2. view' = view /\ view \in Views /\ pairs \in Seq(Pairs)
      BY BatchesAre DEF IInv, Typed, ServerTyped, server
    <3>3. Lists(batch', LastValues(pairs))
      BY <3>2, DedupLists
    <3>4. SetAll(view, batch') = SetAll(view, pairs)
      BY <3>2, <3>3, ListsEffect
    <3> QED
      BY <2>2, <3>1, <3>2, <3>4 DEF Rest
  <2>7. Effects'
    BY <2>6 DEF IInv, InProgress, Effects
  <2> QED
    BY <2>4, <2>5, <2>7
<1> QED
  BY <1>1, <1>2 DEF setm

(* Every key-value call.                                                    *)
LEMMA CallKvProgress ==
  ASSUME IInv, CallKv
  PROVE  InProgress' /\ Stacks' /\ Effects'
<1>1. CASE Read
  <2>1. [kind |-> "read"] \in Stmts
    BY DEF Stmts
  <2> QED
    BY <1>1, <2>1, OneStatementProgress, RefuseProgress DEF Read, ReadNothing
<1>2. ASSUME NEW k \in Key, NEW v \in Val, set(k, v) \/ put(k, v)
      PROVE  InProgress' /\ Stacks' /\ Effects'
  <2>1. /\ [kind |-> "set", key |-> k, val |-> v] \in Stmts
        /\ [kind |-> "put", key |-> k, val |-> v] \in Stmts
    BY DEF Stmts
  <2> QED
    BY <1>2, <2>1, OneStatementProgress DEF set, put
<1>3. ASSUME NEW k \in Key, NEW v \in Val, NEW c \in Val \cup {NoVal}, putc(k, v, c)
      PROVE  InProgress' /\ Stacks' /\ Effects'
  <2>1. /\ [kind |-> "put", key |-> k, val |-> v] \in Stmts
        /\ c # NoVal => [kind |-> "putc", key |-> k, val |-> v, chk |-> c] \in Stmts
    BY DEF Stmts
  <2> QED
    BY <1>3, <2>1, OneStatementProgress DEF putc
<1>4. ASSUME NEW k \in Key, NEW c \in Val \cup {NoVal}, del(k) \/ delc(k, c)
      PROVE  InProgress' /\ Stacks' /\ Effects'
  <2>1. /\ [kind |-> "del", key |-> k] \in Stmts
        /\ c # NoVal => [kind |-> "delc", key |-> k, chk |-> c] \in Stmts
    BY DEF Stmts
  <2> QED
    BY <1>4, <2>1, OneStatementProgress DEF del, delc
<1>5. ASSUME NEW lo \in Key, NEW hi \in Nat, delr(lo, hi)
      PROVE  InProgress' /\ Stacks' /\ Effects'
  <2>1. [kind |-> "delr", lo |-> lo, hi |-> hi] \in Stmts
    BY DEF Stmts
  <2>2. \A w : Idle /\ Refuse(IF w THEN "ok" ELSE "TxReadOnly")
          => InProgress' /\ Stacks' /\ Effects'
    BY RefuseProgress
  <2> QED
    BY <1>5, <2>1, <2>2, OneStatementProgress DEF delr
<1>6. \A hi \in Key : hi \in Nat /\ hi + 1 \in Nat
  BY KvTransactionAssumption
<1> QED
  BY <1>1, <1>2, <1>3, <1>4, <1>5, <1>6, SetmProgress DEF CallKv

(* A savepoint call changes the stack of names before its statement is sent.*)
LEMMA CallSavepointProgress ==
  ASSUME IInv, CallSavepoint
  PROVE  InProgress' /\ Stacks' /\ Effects'
<1>1. CASE new_save_point
  <2> USE <1>1 DEF new_save_point, push_savepoint_name, Send, Idle
  <2> DEFINE new == [name |-> NextCounter, snap |-> view]
  <2>1. /\ savepoints' = Append(savepoints, new)
        /\ todo' = [kind |-> "savepoint", name |-> new.name]
        /\ new.snap = view
    OBVIOUS
  <2>2. savepoints' \in Seq(Savepoints) /\ todo' \in Stmts
    <3>1. NextCounter \in Names
      BY KvTransactionAssumption DEF NextCounter, Names, IInv, Typed, ClientTyped
    <3>2. new \in Savepoints
      BY <3>1 DEF Savepoints, IInv, Typed, ServerTyped
    <3> QED
      BY <2>1, <3>1, <3>2, ConstantStmts DEF IInv, Typed, ClientTyped
  <2> HIDE DEF new
  <2>3. Top(savepoints') = new /\ Pop(savepoints') = savepoints
    BY <2>1, <2>2 DEF Top, Pop, IInv, Typed, ClientTyped
  <2>4. InProgress'
    BY <2>1, <2>2, <2>3 DEF IInv, InProgress
  <2>5. Stacks'
    BY <2>1, <2>3 DEF IInv, InProgress, Stacks, Taken, Alive, server
  <2>6. Effects'
    BY DEF Effects
  <2> QED
    BY <2>4, <2>5, <2>6
<1>2. ASSUME NEW kind, NEW where, TakeTop(kind, where),
             \/ kind = "release" /\ where = "release"
             \/ kind = "rollbackTo" /\ where = "rollback" /\ goal' = Top(savepoints).snap
      PROVE  InProgress' /\ Stacks' /\ Effects'
  <2> USE <1>2 DEF TakeTop, Send, Idle
  <2>1. /\ Top(savepoints) \in Savepoints /\ Pop(savepoints) \in Seq(Savepoints)
        /\ savepoints = Append(Pop(savepoints), Top(savepoints))
    BY PopTyped DEF IInv, Typed, ClientTyped
  <2>2. todo' = [kind |-> kind, name |-> held'.name] /\ todo' \in Stmts
    BY <2>1, ConstantStmts DEF Savepoints
  <2>3. savepoints = Append(savepoints', held')
    BY <2>1
  <2>4. conn
    BY DEF IInv, InProgress, Typed, ClientTyped
  <2>5. InProgress'
    BY <2>2, <2>4 DEF IInv, InProgress
  <2>6. Stacks'
    BY <2>3 DEF IInv, InProgress, Stacks, Taken, Alive, server
  <2>7. Effects'
    BY DEF IInv, InProgress, Effects
  <2> QED
    BY <2>5, <2>6, <2>7
<1>3. CASE release_last_save_point \/ rollback_to_save_point
  BY <1>2, <1>3 DEF release_last_save_point, rollback_to_save_point
<1>4. CASE NoSavepointLeft
  BY <1>4, RefuseProgress DEF NoSavepointLeft
<1>5. CASE NewSavepointClosed
  <2> USE <1>5 DEF NewSavepointClosed, Return, Idle
  <2>1. InProgress'
    BY DEF IInv, InProgress, wire
  <2>2. Stacks' /\ Effects'
    BY DEF Stacks, Effects, Alive, server
  <2> QED
    BY <2>1, <2>2
<1> QED
  BY <1>1, <1>3, <1>4, <1>5 DEF CallSavepoint

(* commit and cancel forget the stack of names.                             *)
LEMMA CloseProgress ==
  ASSUME IInv, commit \/ cancel
  PROVE  InProgress' /\ Stacks' /\ Effects'
<1> SUFFICES ASSUME NEW kind \in {"commit", "rollback"}, Close(kind)
             PROVE  InProgress' /\ Stacks' /\ Effects'
  BY DEF commit, cancel
<1>1. CASE Refuse("TxClosed")
  BY <1>1, RefuseProgress DEF Close
<1>2. CASE ~Refuse("TxClosed")
  <2> USE <1>2 DEF Close, Send, Idle
  <2>1. todo' \in Stmts
    BY ConstantStmts
  <2>2. InProgress'
    BY <2>1 DEF IInv, InProgress
  <2>3. Stacks' /\ Effects'
    BY DEF Stacks, Effects
  <2> QED
    BY <2>2, <2>3
<1> QED
  BY <1>1, <1>2

(* A savepoint call meets its own savepoint on top of the server's stack,   *)
(* whatever other savepoints bear its name.                                 *)
LEMMA HeldIsInnermost ==
  ASSUME IInv, Alive, cont \in Taken, answer = "none"
  PROVE  /\ stack = Append(savepoints, held) /\ Known(held.name) # {}
         /\ Innermost(held.name) = Len(stack) /\ Len(stack) = Len(savepoints) + 1
         /\ stack[Len(stack)] = held
         /\ SubSeq(stack, 1, Len(stack)) = stack
         /\ SubSeq(stack, 1, Len(stack) - 1) = savepoints
<1>1. conn
  BY DEF IInv, InProgress, Taken, Typed, ClientTyped
<1>2. stack = Append(savepoints, held)
  BY <1>1 DEF IInv, Stacks
<1>3. savepoints \in Seq(Savepoints) /\ held \in Savepoints /\ stack \in Seq(Savepoints)
  BY DEF IInv, Typed, ClientTyped, CallTyped, ServerTyped
<1> HIDE DEF Savepoints
<1>4. /\ Len(stack) = Len(savepoints) + 1 /\ stack[Len(stack)] = held
      /\ Len(stack) \in 1..Len(stack) /\ DOMAIN stack = 1..Len(stack)
      /\ SubSeq(stack, 1, Len(stack)) = stack
      /\ SubSeq(stack, 1, Len(stack) - 1) = savepoints
  BY <1>2, <1>3
<1>5. Len(stack) \in Known(held.name)
  BY <1>4 DEF Known
<1>6. Innermost(held.name) = Len(stack)
  BY <1>3, <1>4, <1>5, InnermostIs
<1> QED
  BY <1>2, <1>4, <1>5, <1>6

(* The statement of the call is executed: on the stacks and on the view.    *)
LEMMA ExecuteProgress ==
  ASSUME IInv, Execute
  PROVE  InProgress' /\ Stacks' /\ Effects'
<1>0. PICK r \in Results : Perform(todo, r) /\ answer' = r
  BY DEF Execute
<1>1. /\ todo \in Stmts /\ answer = "none" /\ cont # "idle"
      /\ UNCHANGED <<conn, writeable, savepoints, savepoint_counter>>
      /\ UNCHANGED <<cont, held, batch, start, goal, reply, todo, orphan>>
  BY DEF Execute, client, call, IInv, InProgress, Typed, WireTyped
<1>2. InProgress'
  BY <1>1 DEF IInv, InProgress
<1>3. CASE ~Alive /\ r = "err" /\ UNCHANGED server
  <2>1. Stacks'
    BY <1>3 DEF Stacks, Alive, server
  <2>2. Effects'
    BY <1>0, <1>1, <1>3 DEF IInv, Effects, server
  <2> QED
    BY <1>2, <2>1, <2>2
<1>4. CASE status = "open" /\ PerformData(todo, r)
  <2>1. /\ todo.kind \in {"read", "set", "del", "delr", "put", "putc", "delc", "setm"}
        /\ UNCHANGED <<table, stack, status>>
    BY <1>4 DEF PerformData, Conditional, server
  <2>2. cont \in {"plain", "put", "cas", "setm"}
    BY <1>1, <2>1 DEF IInv, InProgress, Typed, CallTyped, Conts
  <2>3. Stacks'
    BY <1>1, <2>1, <2>2 DEF IInv, Stacks, Taken, Alive
  <2>4. CASE cont = "plain"
    <3>1. Effects'
      BY <1>1, <2>4 DEF Effects
    <3> QED
      BY <1>2, <2>3, <3>1
  <2>5. CASE cont \in {"put", "cas"}
    <3>1. goal = view /\ (IF cont = "put" THEN todo.kind = "put"
                                          ELSE todo.kind \in {"putc", "delc"})
      BY <1>1, <2>5 DEF IInv, InProgress, Effects
    <3>2. Matches(todo) <=> Met
      BY <3>1 DEF Matches, Met
    <3>3. \/ Matches(todo) /\ r = "ok"
          \/ ~Matches(todo) /\ r = "zero" /\ view' = view
      BY <1>4, <2>5, <3>1 DEF PerformData, Conditional, server
    <3>4. Met' <=> Met
      BY <1>1 DEF Met
    <3>5. Effects'
      BY <1>0, <1>1, <1>4, <2>1, <2>5, <3>1, <3>2, <3>3, <3>4 DEF Effects
    <3> QED
      BY <1>2, <2>3, <3>5
  <2>6. CASE cont = "setm"
    <3>1. /\ todo = ChunkStmt(batch, start) /\ Rest(start) = goal
          /\ batch \in Seq(Pairs) /\ start \in Nat /\ start < Len(batch)
      BY <1>1, <2>6 DEF IInv, InProgress, Effects, Typed, CallTyped
    <3>2. todo.kind = "setm"
      BY <3>1, ChunkTyped
    <3>3. r = "ok" /\ view' = SetAll(view, todo.pairs)
      BY <1>4, <3>2 DEF PerformData, Conditional
    <3>4. SetAll(view', SubSeq(batch, ChunkEnd(batch, start) + 1, Len(batch))) = goal
      BY <3>1, <3>3, RestAfterChunk DEF Rest
    <3>5. Rest(ChunkEnd(batch, start))' = goal'
      BY <1>1, <3>4 DEF Rest, ChunkEnd
    <3>6. Effects'
      BY <1>0, <1>1, <2>6, <3>3, <3>5 DEF Effects
    <3> QED
      BY <1>2, <2>3, <3>6
  <2> QED
    BY <2>2, <2>4, <2>5, <2>6
<1>5. CASE Alive /\ PerformSavepoint(todo, r)
  <2>1. conn /\ cont \in {"savepoint", "release", "rollback", "rollbackRelease"} /\ r = "ok"
    <3>1. todo.kind \in {"savepoint", "release", "rollbackTo"} /\ r = "ok"
      BY <1>5 DEF PerformSavepoint
    <3>2. cont # "setm"
      BY <3>1, ChunkTyped DEF IInv, InProgress, Typed, CallTyped
    <3> QED
      BY <1>1, <3>1, <3>2 DEF IInv, InProgress, Typed, ClientTyped, CallTyped, Conts
  <2>2. CASE cont = "savepoint"
    <3> DEFINE top == Top(savepoints)
    <3>1. todo = [kind |-> "savepoint", name |-> top.name]
      BY <2>2 DEF IInv, InProgress
    <3>2. stack' = Append(stack, [name |-> top.name, snap |-> view])
      BY <1>5, <3>1 DEF PerformSavepoint
    <3>3. stack = Pop(savepoints) /\ top.snap = view
      BY <1>1, <1>5, <2>1, <2>2 DEF IInv, Stacks
    <3>4. top \in Savepoints /\ savepoints = Append(Pop(savepoints), top)
      BY <2>2, PopTyped DEF IInv, Typed, ClientTyped
    <3>5. top = [name |-> top.name, snap |-> top.snap]
      BY <3>4 DEF Savepoints
    <3>6. stack' = savepoints
      BY <3>2, <3>3, <3>4, <3>5
    <3>7. Stacks'
      BY <1>0, <1>1, <2>1, <2>2, <3>6 DEF Stacks, Taken
    <3>8. Effects'
      BY <1>1, <2>2 DEF Effects
    <3> QED
      BY <1>2, <3>7, <3>8
  <2>3. CASE cont \in {"release", "rollbackRelease"}
    <3>1. todo.kind = "release" /\ todo.name = held.name
      BY <2>3 DEF IInv, InProgress
    <3>2. stack' = savepoints /\ view' = view
      BY <1>1, <1>5, <2>3, <3>1, HeldIsInnermost DEF PerformSavepoint, Taken
    <3>3. Stacks'
      BY <1>0, <1>1, <2>1, <2>3, <3>2 DEF Stacks, Taken
    <3>4. Effects'
      BY <1>1, <2>3, <3>2 DEF IInv, Effects
    <3> QED
      BY <1>2, <3>3, <3>4
  <2>4. CASE cont = "rollback"
    <3>1. todo.kind = "rollbackTo" /\ todo.name = held.name
      BY <2>4 DEF IInv, InProgress
    <3>2. stack' = stack /\ stack = Append(savepoints, held) /\ view' = held.snap
      BY <1>1, <1>5, <2>4, <3>1, HeldIsInnermost DEF PerformSavepoint, Taken
    <3>3. Stacks'
      BY <1>0, <1>1, <2>1, <2>4, <3>2 DEF Stacks, Taken
    <3>4. Effects'
      BY <1>1, <2>4, <3>2 DEF IInv, Effects
    <3> QED
      BY <1>2, <3>3, <3>4
  <2> QED
    BY <2>1, <2>2, <2>3, <2>4
<1>6. CASE Alive /\ PerformFails(todo, r)
  <2>1. r = "err" /\ UNCHANGED <<table, view, stack>>
    BY <1>6 DEF PerformFails
  <2>2. Stacks'
    BY <1>0, <1>1, <1>6, <2>1 DEF IInv, Stacks
  <2>3. Effects'
    BY <1>0, <1>1, <2>1 DEF IInv, Effects
  <2> QED
    BY <1>2, <2>2, <2>3
<1>7. CASE Alive /\ PerformEnd(todo, r)
  <2>1. todo.kind \in {"commit", "rollback"}
    BY <1>7 DEF PerformEnd
  <2>2. cont # "setm"
    BY <2>1, ChunkTyped DEF IInv, InProgress, Typed, CallTyped
  <2>3. cont = "close" /\ ~conn
    BY <1>1, <2>1, <2>2 DEF IInv, InProgress, Typed, CallTyped, Conts
  <2>4. Stacks' /\ Effects'
    BY <1>1, <2>3 DEF Stacks, Effects
  <2> QED
    BY <1>2, <2>4
<1> QED
  BY <1>0, <1>3, <1>4, <1>5, <1>6, <1>7 DEF Perform

(* A broken connection or a lost answer.                                    *)
LEMMA LossProgress ==
  ASSUME IInv, LoseConnection \/ LoseCommitAnswer
  PROVE  InProgress' /\ Stacks' /\ Effects'
<1> USE DEF LoseConnection, LoseCommitAnswer
<1>1. InProgress'
  BY DEF IInv, InProgress, client, call
<1>2. Stacks'
  BY DEF Stacks, Alive, server
<1>3. /\ UNCHANGED <<cont, held, batch, start, goal, view>>
      /\ answer' = "err" \/ (answer' = "none" /\ answer = "none")
  BY DEF client, call, server, IInv, Typed, WireTyped
<1>4. Rest(start)' = Rest(start)
  BY <1>3 DEF Rest
<1>5. Effects'
  BY <1>3, <1>4 DEF IInv, Effects
<1> QED
  BY <1>1, <1>2, <1>5

(* setm goes on where the last chunk ended.                                 *)
LEMMA NextChunkProgress ==
  ASSUME IInv, NextChunk
  PROVE  InProgress' /\ Stacks' /\ Effects'
<1> USE DEF NextChunk
<1>1. /\ start' \in Nat /\ start' < Len(batch) /\ batch \in Seq(Pairs)
      /\ ChunkEnd(batch, start) = start'
  BY KvTransactionAssumption DEF MoreChunks, ChunkEnd, Smaller, IInv, Typed, CallTyped
<1>2. todo' \in Stmts
  BY <1>1, ChunkTyped
<1>3. InProgress'
  BY <1>2 DEF IInv, InProgress, client
<1>4. Stacks'
  BY DEF IInv, Stacks, Taken, Alive, client, server
<1>5. Rest(start)' = goal'
  BY <1>1 DEF IInv, Effects, Rest, server
<1>6. Effects'
  BY <1>5 DEF IInv, Effects
<1> QED
  BY <1>3, <1>4, <1>6

(* A call ends; a failed savepoint call mends the stack of names.           *)
LEMMA AnsweredProgress ==
  ASSUME IInv, Answered \/ SavepointAnswered
  PROVE  InProgress' /\ Stacks' /\ Effects'
<1>1. /\ cont' = "idle" /\ todo' = NoStmt /\ answer' = "none"
      /\ UNCHANGED <<conn, orphan, table, view, stack, status>>
      /\ cont # "idle"
  BY DEF Answered, SavepointAnswered, Finish, Return, server
<1>2. ~conn => savepoints' = <<>>
  BY DEF Answered, SavepointAnswered, IInv, InProgress
<1>3. InProgress'
  BY <1>1, <1>2 DEF IInv, InProgress
<1>4. ASSUME Alive, conn
      PROVE  stack = savepoints'
  <2>1. CASE Answered
    BY <1>4, <2>1 DEF Answered, IInv, InProgress, Stacks
  <2>2. CASE SavepointAnswered
    BY <1>4, <2>2 DEF SavepointAnswered, UndoPush, PushBack, Taken, IInv, Stacks
  <2> QED
    BY <2>1, <2>2
<1>5. Stacks' /\ Effects'
  BY <1>1, <1>4 DEF Stacks, Effects, Alive, Taken
<1> QED
  BY <1>3, <1>5

(* The restored savepoint is still on the server's stack.                   *)
LEMMA ReleaseRestoredProgress ==
  ASSUME IInv, ReleaseRestored
  PROVE  InProgress' /\ Stacks' /\ Effects'
<1> USE DEF ReleaseRestored
<1>1. todo' \in Stmts
  BY ConstantStmts DEF Savepoints, Taken, IInv, Typed, CallTyped
<1>2. InProgress'
  BY <1>1 DEF IInv, InProgress, client
<1>3. Stacks'
  BY DEF IInv, Stacks, Taken, Alive, client, server
<1>4. Effects'
  BY DEF IInv, Effects, server
<1> QED
  BY <1>2, <1>3, <1>4

(* The invariants are inductive while no future is dropped.                 *)
LEMMA IInvStep ==
  ASSUME ~DropFutures
  PROVE  IInv /\ [Next]_vars => IInv'
<1> SUFFICES ASSUME IInv, [Next]_vars
             PROVE  IInv'
  OBVIOUS
<1>1. Typed'
  BY TypedStep DEF IInv
<1>2. CASE UNCHANGED vars
  <2> USE <1>2 DEF vars
  <2>1. InProgress' /\ Stacks'
    BY DEF IInv, InProgress, Stacks, Alive, client, call, wire, server
  <2>2. Met' <=> Met
    BY DEF Met, call, wire
  <2>3. Effects'
    BY <2>2 DEF IInv, Effects, Rest, client, call, wire, server
  <2> QED
    BY <1>1, <2>1, <2>3 DEF IInv
<1>3. CASE Next
  <2>1. ~ExecuteOrphan /\ ~DropFuture
    BY DEF ExecuteOrphan, DropFuture, IInv, InProgress
  <2>2. InProgress' /\ Stacks' /\ Effects'
    BY <1>3, <2>1, CallKvProgress, CallSavepointProgress, CloseProgress, ExecuteProgress,
       LossProgress, NextChunkProgress, AnsweredProgress, ReleaseRestoredProgress DEF Next
  <2> QED
    BY <1>1, <2>2 DEF IInv
<1> QED
  BY <1>2, <1>3

(* So they always hold.                                                     *)
LEMMA Invariant ==
  ASSUME ~DropFutures
  PROVE  Spec => []IInv
<1>1. Init => IInv
  BY TypedInit, ProgressInit DEF IInv
<1> QED
  BY <1>1, IInvStep, PTL DEF Spec

(* Between calls the stack of names in PgTransaction is the server's stack  *)
(* of savepoints, however often the counter has wrapped around and whatever *)
(* statements failed.                                                       *)
THEOREM StacksInvariant ==
  ASSUME ~DropFutures
  PROVE  Spec => []StacksAgree
<1>1. IInv => StacksAgree
  BY DEF IInv, Stacks, StacksAgree, Idle
<1> QED
  BY <1>1, Invariant, PTL

(* The steps that end a call.                                               *)
LEMMA Endings ==
  ASSUME Next, cont # "idle", cont' = "idle"
  PROVE  Answered \/ SavepointAnswered \/ (DropFuture /\ reply' = "none")
<1>1. ~CallKv
  BY DEF CallKv, Read, ReadNothing, set, put, putc, del, delc, delr, setm, OneStatement, Idle
<1>2. ~CallSavepoint /\ ~commit /\ ~cancel
  BY DEF CallSavepoint, new_save_point, release_last_save_point, rollback_to_save_point,
         TakeTop, NoSavepointLeft, NewSavepointClosed, commit, cancel, Close, Idle
<1>3. ~Execute /\ ~ExecuteOrphan /\ ~LoseConnection /\ ~LoseCommitAnswer
  BY DEF Execute, ExecuteOrphan, LoseConnection, LoseCommitAnswer, call
<1>4. ~NextChunk /\ ~ReleaseRestored
  BY DEF NextChunk, ReleaseRestored
<1>5. DropFuture => reply' = "none"
  BY DEF DropFuture, Return
<1> QED
  BY <1>1, <1>2, <1>3, <1>4, <1>5 DEF Next

(* rollback_to_save_point: an Ok means that the view of the caller's        *)
(* innermost savepoint is restored.                                         *)
THEOREM RollbackIsExact ==
  ASSUME ~DropFutures
  PROVE  Spec => RollbackRestores
<1>1. IInv /\ [Next]_vars
        => [reply' = "rolledBack" /\ ~Idle /\ cont' = "idle" => view = goal]_vars
  <2> SUFFICES ASSUME IInv, Next, reply' = "rolledBack", cont # "idle", cont' = "idle"
               PROVE  view = goal
    BY DEF Idle
  <2>1. Answered \/ SavepointAnswered
    BY Endings
  <2>2. cont = "rollbackRelease"
    BY <2>1 DEF Answered, SavepointAnswered, Finish, Return
  <2> QED
    BY <2>2 DEF IInv, Effects
<1> QED
  BY <1>1, Invariant, PTL DEF Spec, RollbackRestores

(* setm: an Ok means that the view is what setting the pairs in turn makes  *)
(* it, for batches and chunks of any size.                                  *)
THEOREM SetmIsExact ==
  ASSUME ~DropFutures
  PROVE  Spec => SetmLastWins
<1>1. IInv /\ [Next]_vars
        => [reply' = "setmOk" /\ ~Idle /\ cont' = "idle" => view = goal]_vars
  <2> SUFFICES ASSUME IInv, Next, reply' = "setmOk", cont # "idle", cont' = "idle"
               PROVE  view = goal
    BY DEF Idle
  <2>1. Answered \/ SavepointAnswered
    BY Endings
  <2>2. cont = "setm" /\ answer = "ok" /\ ~MoreChunks
    BY <2>1 DEF Answered, SavepointAnswered, Finish, Return
  <2>3. Rest(ChunkEnd(batch, start)) = goal
    BY <2>2 DEF IInv, Effects
  <2>4. ChunkEnd(batch, start) = Len(batch) /\ Len(batch) \in Nat
    BY <2>2, KvTransactionAssumption
       DEF MoreChunks, ChunkEnd, Smaller, IInv, Typed, CallTyped
  <2>5. SubSeq(batch, Len(batch) + 1, Len(batch)) = <<>>
    BY <2>4, SubSeqEmpty
  <2>6. Rest(Len(batch)) = view
    BY <2>5, FoldsOfNothing DEF Rest
  <2> QED
    BY <2>3, <2>4, <2>6
<1> QED
  BY <1>1, Invariant, PTL DEF Spec, SetmLastWins

(* put, putc and delc: Ok exactly for a view that met the condition, and a  *)
(* refusal leaves view and transaction as they were.                        *)
THEOREM ConditionsAreExact ==
  ASSUME ~DropFutures
  PROVE  Spec => ConditionalExact
<1>1. IInv /\ [Next]_vars
        => [cont' = "idle" /\ cont \in {"put", "cas"} => Conclusive]_vars
  <2> SUFFICES ASSUME IInv, Next, cont' = "idle", cont \in {"put", "cas"}
               PROVE  Conclusive
    OBVIOUS
  <2>1. Answered \/ SavepointAnswered
    BY Endings DEF DropFuture
  <2>2. \/ answer = "err" /\ reply' = "err"
        \/ answer = "ok" /\ reply' = "ok"
        \/ answer = "zero" /\ reply' \in {"KeyAlreadyExists", "ConditionNotMet"}
    BY <2>1 DEF Answered, SavepointAnswered, Finish, Return
  <2> QED
    BY <2>2 DEF Conclusive, IInv, Effects
<1> QED
  BY <1>1, Invariant, PTL DEF Spec, ConditionalExact

-----------------------------------------------------------------------------
(* The refinement.  Only a statement and a broken connection change what    *)
(* the server holds, and a statement about a savepoint is about the         *)
(* innermost one.                                                           *)

FramesOf(saved) == [i \in DOMAIN saved |-> saved[i].snap]

(* The snapshots of the savepoints, as the abstract stack of frames.        *)
LEMMA FramesAre ==
  ASSUME NEW saved \in Seq(Savepoints)
  PROVE  FramesOf(saved) \in Seq(Views) /\ Len(FramesOf(saved)) = Len(saved)
<1>1. DOMAIN saved = 1..Len(saved) /\ Len(saved) \in Nat
  OBVIOUS
<1>2. \A i \in 1..Len(saved) : saved[i].snap \in Views
  <2>1. \A i \in 1..Len(saved) : saved[i] \in Savepoints
    OBVIOUS
  <2> QED
    BY <2>1 DEF Savepoints
<1>3. FramesOf(saved) \in [1..Len(saved) -> Views]
  BY <1>1, <1>2 DEF FramesOf
<1> QED
  BY <1>1, <1>3

(* A savepoint more is a frame more.                                        *)
LEMMA FramesAppend ==
  ASSUME NEW saved \in Seq(Savepoints), NEW new \in Savepoints
  PROVE  FramesOf(Append(saved, new)) = Append(FramesOf(saved), new.snap)
<1> DEFINE longer == Append(saved, new)
           f == FramesOf(longer)
           g == Append(FramesOf(saved), new.snap)
<1>1. /\ longer \in Seq(Savepoints) /\ Len(longer) = Len(saved) + 1
      /\ longer[Len(saved) + 1] = new /\ Len(saved) \in Nat
      /\ \A i \in 1..Len(saved) : longer[i] = saved[i]
      /\ DOMAIN longer = 1..Len(longer) /\ DOMAIN saved = 1..Len(saved)
  <2> HIDE DEF Savepoints
  <2> QED
    OBVIOUS
<1>2. /\ FramesOf(saved) \in Seq(Views) /\ Len(FramesOf(saved)) = Len(saved)
      /\ f \in Seq(Views) /\ Len(f) = Len(saved) + 1 /\ new.snap \in Views
  BY <1>1, FramesAre DEF Savepoints
<1>3. \A i \in 1..Len(saved) : FramesOf(saved)[i] = saved[i].snap
  BY <1>1 DEF FramesOf
<1>4. \A i \in 1..Len(longer) : f[i] = longer[i].snap
  BY <1>1 DEF FramesOf
<1> HIDE DEF Views, f, longer
<1>5. /\ g \in Seq(Views) /\ Len(g) = Len(saved) + 1
      /\ g[Len(saved) + 1] = new.snap
      /\ \A i \in 1..Len(saved) : g[i] = FramesOf(saved)[i]
  BY <1>1, <1>2
<1> HIDE DEF g
<1>6. \A i \in 1..Len(f) : f[i] = g[i]
  BY <1>1, <1>2, <1>3, <1>4, <1>5
<1>7. f = g
  BY <1>2, <1>5, <1>6, SeqEqual
<1> QED
  BY <1>7 DEF f, g, longer

(* Fewer savepoints are fewer frames.                                       *)
LEMMA FramesSubSeq ==
  ASSUME NEW saved \in Seq(Savepoints), NEW n \in 0..Len(saved)
  PROVE  FramesOf(SubSeq(saved, 1, n)) = SubSeq(FramesOf(saved), 1, n)
<1> DEFINE less == SubSeq(saved, 1, n)
           f == FramesOf(less)
           g == SubSeq(FramesOf(saved), 1, n)
<1>1. /\ less \in Seq(Savepoints) /\ Len(less) = n /\ n \in Nat
      /\ \A i \in 1..n : less[i] = saved[i]
      /\ DOMAIN less = 1..n /\ DOMAIN saved = 1..Len(saved)
  <2> HIDE DEF Savepoints
  <2> QED
    OBVIOUS
<1>2. /\ FramesOf(saved) \in Seq(Views) /\ Len(FramesOf(saved)) = Len(saved)
      /\ f \in Seq(Views) /\ Len(f) = n
  BY <1>1, FramesAre
<1>3. \A i \in 1..Len(saved) : FramesOf(saved)[i] = saved[i].snap
  BY <1>1 DEF FramesOf
<1>4. \A i \in 1..n : f[i] = less[i].snap
  BY <1>1 DEF FramesOf
<1> HIDE DEF Views, f, less
<1>5. /\ g \in Seq(Views) /\ Len(g) = n
      /\ \A i \in 1..n : g[i] = FramesOf(saved)[i]
  BY <1>1, <1>2
<1> HIDE DEF g
<1>6. \A i \in 1..Len(f) : f[i] = g[i]
  BY <1>1, <1>2, <1>3, <1>4, <1>5
<1>7. f = g
  BY <1>2, <1>5, <1>6, SeqEqual
<1> QED
  BY <1>7 DEF f, g, less

(* What a statement does on the server is an abstract step or none.         *)
LEMMA ExecuteImplements ==
  ASSUME IInv, Execute
  PROVE  Nested!Next \/ UNCHANGED Nested!vars
<1> USE DEF Nested!Next, Nested!Write, Nested!Fail, Nested!Save, Nested!Release,
            Nested!Restore, Nested!Commit, Nested!Rollback, Nested!vars, Nested!Alive
<1>0. PICK r \in Results : Perform(todo, r) /\ answer' = r
  BY DEF Execute
<1>1. todo \in Stmts /\ answer = "none" /\ stack \in Seq(Savepoints) /\ view \in Views
  BY DEF Execute, IInv, Typed, WireTyped, ServerTyped
<1>2. stack' \in Seq(Savepoints) /\ view' \in Views
  BY <1>0, <1>1, PerformTyped DEF IInv, Typed, ServerTyped
<1>3. frames = FramesOf(stack) /\ frames' = FramesOf(stack')
  BY DEF frames, FramesOf
<1> HIDE DEF frames
<1>4. CASE UNCHANGED server
  BY <1>3, <1>4 DEF server
<1>5. CASE status = "open" /\ PerformData(todo, r)
  BY <1>2, <1>3, <1>5 DEF PerformData, server
<1>6. CASE Alive /\ PerformFails(todo, r)
  BY <1>3, <1>6 DEF PerformFails, Alive
<1>7. CASE Alive /\ PerformEnd(todo, r)
  BY <1>3, <1>7 DEF PerformEnd, Alive
<1>8. CASE Alive /\ PerformSavepoint(todo, r)
  <2>1. CASE /\ todo.kind = "savepoint" /\ status = "open"
             /\ stack' = Append(stack, [name |-> todo.name, snap |-> view])
             /\ UNCHANGED <<table, view, status>>
    <3> DEFINE new == [name |-> todo.name, snap |-> view]
    <3>1. new \in Savepoints /\ new.snap = view
      BY <1>1, <2>1, Fields DEF Savepoints
    <3>2. stack' = Append(stack, new)
      BY <2>1
    <3> HIDE DEF new
    <3>3. frames' = Append(frames, view)
      BY <1>1, <1>3, <3>1, <3>2, FramesAppend
    <3> QED
      BY <2>1, <3>3
  <2>2. ASSUME todo.kind \in {"release", "rollbackTo"}
        PROVE  /\ Innermost(todo.name) = Len(stack)
               /\ Len(stack) \in Nat \ {0} /\ SubSeq(stack, 1, Len(stack)) = stack
               /\ stack[Len(stack)] \in Savepoints
    <3>1. cont # "setm"
      BY <2>2, ChunkTyped DEF IInv, InProgress, Typed, CallTyped
    <3>2. cont \in Taken /\ todo.name = held.name
      BY <1>1, <2>2, <3>1
         DEF IInv, InProgress, Typed, CallTyped, Conts, Taken, Execute
    <3>3. /\ held \in Savepoints
          /\ savepoints \in Seq(Savepoints)
      BY <3>2 DEF IInv, Typed, CallTyped, ClientTyped
    <3> QED
      BY <1>1, <1>8, <3>2, <3>3, HeldIsInnermost
  <2>3. Len(frames) = Len(stack)
    BY <1>1, <1>3, FramesAre
  <2>4. CASE /\ todo.kind = "release" /\ status = "open"
             /\ stack' = SubSeq(stack, 1, Innermost(todo.name) - 1)
             /\ UNCHANGED <<table, view, status>>
    <3>1. Len(stack) - 1 \in 0..Len(stack) /\ Innermost(todo.name) = Len(stack)
      BY <2>2, <2>4
    <3>2. frames' = SubSeq(frames, 1, Len(frames) - 1)
      BY <1>1, <1>3, <2>3, <2>4, <3>1, FramesSubSeq
    <3>3. frames # <<>>
      BY <2>2, <2>3, <2>4
    <3> QED
      BY <2>4, <3>2, <3>3
  <2>5. CASE /\ todo.kind = "rollbackTo"
             /\ stack' = SubSeq(stack, 1, Innermost(todo.name))
             /\ view' = stack[Innermost(todo.name)].snap
             /\ status' = "open"
             /\ UNCHANGED table
    <3>1. stack' = stack /\ view' = stack[Len(stack)].snap
      BY <2>2, <2>5
    <3>2. frames[Len(frames)] = stack[Len(stack)].snap /\ frames # <<>>
      <4>1. Len(stack) \in DOMAIN stack
        BY <1>1, <2>2, <2>5
      <4>2. frames[Len(stack)] = stack[Len(stack)].snap
        BY <1>3, <4>1 DEF FramesOf
      <4> QED
        BY <2>2, <2>3, <2>5, <4>2
    <3>3. UNCHANGED frames
      BY <1>3, <3>1
    <3> QED
      BY <1>8, <2>5, <3>1, <3>2, <3>3 DEF Alive
  <2> QED
    BY <1>8, <2>1, <2>4, <2>5 DEF PerformSavepoint
<1> QED
  BY <1>0, <1>4, <1>5, <1>6, <1>7, <1>8 DEF Perform

(* The transaction with generated names, two-step rollbacks and chunked     *)
(* batches implements one with a stack of anonymous snapshots.              *)
THEOREM TransactionIsNested ==
  ASSUME ~DropFutures
  PROVE  Spec => ImplementsNested
<1>1. Init => Nested!Init
  BY DEF Init, Nested!Init, frames
<1>2. IInv /\ [Next]_vars => [Nested!Next]_(Nested!vars)
  <2> SUFFICES ASSUME IInv, [Next]_vars
               PROVE  Nested!Next \/ UNCHANGED Nested!vars
    OBVIOUS
  <2>1. CASE Execute
    BY <2>1, ExecuteImplements
  <2>2. CASE LoseConnection
    BY <2>2 DEF LoseConnection, Alive, frames, Nested!Next, Nested!Rollback, Nested!Alive
  <2>3. CASE UNCHANGED server
    BY <2>3 DEF server, frames, Nested!vars
  <2>4. Execute \/ LoseConnection \/ UNCHANGED server
    <3>1. UNCHANGED vars => UNCHANGED server
      BY DEF vars
    <3>2. CallKv => UNCHANGED server
      BY DEF CallKv, Read, ReadNothing, set, put, putc, del, delc, delr, setm, OneStatement, Refuse
    <3>3. CallSavepoint \/ commit \/ cancel => UNCHANGED server
      BY DEF CallSavepoint, new_save_point, release_last_save_point,
             rollback_to_save_point, TakeTop, NoSavepointLeft, NewSavepointClosed,
             commit, cancel, Close, Refuse
    <3>4. LoseCommitAnswer \/ NextChunk \/ ReleaseRestored => UNCHANGED server
      BY DEF LoseCommitAnswer, NextChunk, ReleaseRestored
    <3>5. Answered \/ SavepointAnswered => UNCHANGED server
      BY DEF Answered, SavepointAnswered, Finish
    <3>6. ~ExecuteOrphan /\ ~DropFuture
      BY DEF ExecuteOrphan, DropFuture, IInv, InProgress
    <3> QED
      BY <3>1, <3>2, <3>3, <3>4, <3>5, <3>6 DEF Next
  <2> QED
    BY <2>1, <2>2, <2>3, <2>4
<1> QED
  BY <1>1, <1>2, Invariant, PTL DEF Spec, ImplementsNested, Nested!Spec

-----------------------------------------------------------------------------
(* Calls whose futures may be dropped.  The two stacks part then, but the   *)
(* savepoints that bear one name, the client's and the server's, remember   *)
(* one view as long as the counter does not wrap around.                    *)

Entries ==
  {savepoints[i] : i \in DOMAIN savepoints} \cup {c \in {held} : cont \in Taken}
OrphanSavepoint == orphan # NoStmt /\ orphan.kind = "savepoint"

Sent ==
  /\ answer # "none" => orphan = NoStmt
  /\ cont = "idle" => todo = NoStmt /\ answer = "none"
  /\ cont \in {"plain", "put", "cas", "setm", "close"} => todo.kind # "savepoint"
  /\ cont = "savepoint" => todo.kind = "savepoint" /\ todo.name = savepoint_counter
  /\ cont \in {"release", "rollbackRelease"} => todo.kind = "release"
  /\ cont = "rollback" => todo.kind = "rollbackTo" /\ todo.name = held.name
  /\ cont = "rollbackRelease" => orphan = NoStmt

(* The name of a savepoint that is not yet executed is nobody else's.       *)
Fresh ==
  /\ \A c \in Entries : c.name <= savepoint_counter
  /\ \A i \in DOMAIN stack : stack[i].name <= savepoint_counter
  /\ OrphanSavepoint => orphan.name <= savepoint_counter
  /\ cont = "savepoint" =>
       /\ Top(savepoints).name = savepoint_counter
       /\ \A i \in 1..Len(savepoints)-1 : savepoints[i].name # savepoint_counter
       /\ answer = "none" =>
            /\ Top(savepoints).snap = view
            /\ \A i \in DOMAIN stack : stack[i].name # savepoint_counter
            /\ OrphanSavepoint => orphan.name # savepoint_counter

Remembered ==
  /\ \A c \in Entries : \A i \in DOMAIN stack :
       c.name = stack[i].name => c.snap = stack[i].snap
  /\ OrphanSavepoint => \A c \in Entries : c.name = orphan.name => c.snap = view

Restoring ==
  /\ cont \in {"rollback", "rollbackRelease"} => goal = held.snap
  /\ cont = "rollback" /\ answer = "ok" => view = goal
  /\ cont = "rollbackRelease" => view = goal

DroppedInv == Typed /\ Sent /\ Fresh /\ Remembered /\ Restoring

(* The savepoints a client may still return to.                             *)
LEMMA EntriesAre ==
  ASSUME Typed
  PROVE  /\ Entries \subseteq Savepoints
         /\ \A c \in Entries : c.name \in Nat
         /\ \A i \in DOMAIN stack : stack[i] \in Savepoints /\ stack[i].name \in Nat
         /\ savepoint_counter \in Nat
         /\ cont \notin Taken => Entries = {savepoints[i] : i \in 1..Len(savepoints)}
         /\ cont \in Taken =>
              Entries = {savepoints[i] : i \in 1..Len(savepoints)} \cup {held}
<1>1. /\ savepoints \in Seq(Savepoints) /\ stack \in Seq(Savepoints)
      /\ cont \in Taken => held \in Savepoints
      /\ savepoint_counter \in Names
  BY DEF Typed, ClientTyped, CallTyped, ServerTyped
<1>2. Names \subseteq Nat /\ \A c \in Savepoints : c.name \in Names
  BY KvTransactionAssumption DEF Names, Savepoints
<1> HIDE DEF Savepoints, Names
<1>3. /\ DOMAIN savepoints = 1..Len(savepoints)
      /\ \A i \in DOMAIN savepoints : savepoints[i] \in Savepoints
      /\ \A i \in DOMAIN stack : stack[i] \in Savepoints
  BY <1>1
<1> QED
  BY <1>1, <1>2, <1>3 DEF Entries

(* Steps that neither add a savepoint nor touch the server.                 *)
LEMMA Quiet ==
  ASSUME Typed, Typed', Fresh, Remembered, Entries' \subseteq Entries,
         savepoint_counter <= savepoint_counter', UNCHANGED <<view, stack>>,
         orphan' = orphan, cont' # "savepoint"
  PROVE  Fresh' /\ Remembered'
<1>1. /\ \A c \in Entries : c.name \in Nat
      /\ \A i \in DOMAIN stack : stack[i].name \in Nat
      /\ savepoint_counter \in Nat
  BY EntriesAre
<1>2. savepoint_counter' \in Nat
  BY KvTransactionAssumption DEF Typed, ClientTyped, Names
<1>3. OrphanSavepoint' <=> OrphanSavepoint
  BY DEF OrphanSavepoint
<1>4. OrphanSavepoint => orphan.name \in Nat
  <2>1. OrphanSavepoint => orphan \in Stmts
    BY DEF OrphanSavepoint, Typed, WireTyped
  <2>2. Names \subseteq Nat
    BY KvTransactionAssumption DEF Names
  <2> QED
    BY <2>1, <2>2, Fields DEF OrphanSavepoint
<1> HIDE DEF Entries, OrphanSavepoint
<1>5. Fresh'
  BY <1>1, <1>2, <1>3, <1>4 DEF Fresh
<1>6. Remembered'
  BY <1>3 DEF Remembered
<1> QED
  BY <1>5, <1>6

(* Key-value calls send no savepoint and keep the stack of names.           *)
LEMMA KvShape ==
  ASSUME CallKv
  PROVE  /\ Idle
         /\ UNCHANGED <<client, server, orphan, answer>>
         /\ \/ UNCHANGED todo /\ cont' = "idle"
            \/ todo'.kind # "savepoint" /\ cont' \in {"plain", "put", "cas", "setm"}
<1> DEFINE Shape == /\ Idle
                    /\ UNCHANGED <<client, server, orphan, answer>>
                    /\ \/ UNCHANGED todo /\ cont' = "idle"
                       \/ /\ todo'.kind # "savepoint"
                          /\ cont' \in {"plain", "put", "cas", "setm"}
<1>0. ASSUME NEW r, Idle, Refuse(r)
      PROVE  Shape
  BY <1>0 DEF Refuse, Return, wire
<1>1. ASSUME NEW s, NEW where \in {"plain", "put", "cas"}, s.kind # "savepoint",
             OneStatement(s, where)
      PROVE  Shape
  BY <1>0, <1>1 DEF OneStatement, Send
<1>2. ASSUME NEW pairs, setm(pairs)
      PROVE  Shape
  <2>1. \A b, f : ChunkStmt(b, f).kind # "savepoint"
    BY DEF ChunkStmt
  <2> HIDE DEF Shape
  <2>2. CASE \E r : Idle /\ Refuse(r)
    BY <1>0, <2>2
  <2>3. CASE Idle /\ Send(ChunkStmt(batch', 0), "setm") /\ UNCHANGED <<client, server>>
    BY <2>1, <2>3 DEF Shape, Send
  <2> QED
    BY <1>2, <2>2, <2>3 DEF setm
<1> HIDE DEF Shape
<1>3. Read => Shape
  BY <1>0, <1>1 DEF Read, ReadNothing
<1>4. \A k, v : set(k, v) \/ put(k, v) => Shape
  BY <1>1 DEF set, put
<1>5. \A k, v, c : putc(k, v, c) => Shape
  BY <1>1 DEF putc
<1>6. \A k, c : del(k) \/ delc(k, c) => Shape
  BY <1>1 DEF del, delc
<1>7. \A lo, hi : delr(lo, hi) => Shape
  BY <1>0, <1>1 DEF delr
<1>8. Shape
  BY <1>2, <1>3, <1>4, <1>5, <1>6, <1>7 DEF CallKv
<1> QED
  BY <1>8 DEF Shape

LEMMA CallKvDropped ==
  ASSUME DroppedInv, Typed', CallKv
  PROVE  Sent' /\ Fresh' /\ Remembered' /\ Restoring'
<1>1. /\ cont = "idle" /\ todo = NoStmt /\ answer = "none"
      /\ UNCHANGED <<client, server, orphan, answer>>
      /\ \/ UNCHANGED todo /\ cont' = "idle"
         \/ todo'.kind # "savepoint" /\ cont' \in {"plain", "put", "cas", "setm"}
  BY KvShape DEF DroppedInv, Sent, Idle
<1>2. /\ savepoint_counter <= savepoint_counter' /\ UNCHANGED <<view, stack, savepoints>>
      /\ Entries' = Entries
  <2>1. savepoint_counter \in Nat
    BY EntriesAre DEF DroppedInv
  <2> QED
    BY <1>1, <2>1 DEF client, server, Entries, Taken
<1>3. Fresh' /\ Remembered'
  BY <1>1, <1>2, Quiet DEF DroppedInv
<1>4. Sent' /\ Restoring'
  BY <1>1 DEF Sent, Restoring
<1> QED
  BY <1>3, <1>4

LEMMA CallSavepointDropped ==
  ASSUME DroppedInv, Typed', ~CounterWraps, CallSavepoint
  PROVE  Sent' /\ Fresh' /\ Remembered' /\ Restoring'
<1>0. /\ Idle /\ cont = "idle" /\ todo = NoStmt /\ answer = "none"
      /\ savepoints \in Seq(Savepoints) /\ savepoint_counter \in Nat
  <2>1. Idle
    BY DEF CallSavepoint, new_save_point, release_last_save_point,
           rollback_to_save_point, TakeTop, NoSavepointLeft, NewSavepointClosed
  <2> QED
    BY <2>1, EntriesAre DEF Idle, DroppedInv, Sent, Typed, ClientTyped
<1>1. savepoint_counter < Wrap - 1 => NextCounter = savepoint_counter + 1
  BY <1>0, KvTransactionAssumption DEF NextCounter
<1>2. CASE new_save_point
  <2> DEFINE new == [name |-> NextCounter, snap |-> view]
  <2>1. /\ savepoint_counter' = savepoint_counter + 1 /\ new.name = savepoint_counter'
        /\ savepoints' = Append(savepoints, new) /\ new.snap = view
        /\ todo'.kind = "savepoint" /\ todo'.name = savepoint_counter'
        /\ cont' = "savepoint" /\ UNCHANGED <<answer, orphan, view, stack>>
    BY <1>1, <1>2 DEF new_save_point, push_savepoint_name, Send, server
  <2> HIDE DEF new
  <2>2. savepoints' \in Seq(Savepoints)
    BY DEF Typed, ClientTyped
  <2>3. /\ Len(savepoints') = Len(savepoints) + 1 /\ Top(savepoints') = new
        /\ \A i \in 1..Len(savepoints) : savepoints'[i] = savepoints[i]
        /\ \A i \in 1..Len(savepoints') : i \in 1..Len(savepoints) \/ savepoints'[i] = new
        /\ Len(savepoints') - 1 = Len(savepoints)
    <3> HIDE DEF Savepoints
    <3> QED
      BY <1>0, <2>1 DEF Top
  <2>4. /\ Entries = {savepoints[i] : i \in 1..Len(savepoints)}
        /\ \A c \in Entries : c.name \in Nat
        /\ \A i \in DOMAIN stack : stack[i].name \in Nat
        /\ Entries' = {savepoints'[i] : i \in 1..Len(savepoints')}
    <3>1. DOMAIN savepoints' = 1..Len(savepoints')
      BY <2>2
    <3> QED
      BY <1>0, <2>1, <3>1, EntriesAre DEF DroppedInv, Taken, Entries
  <2>5. \A c \in Entries' : c \in Entries \/ c = new
    BY <2>3, <2>4
  <2>6. OrphanSavepoint => orphan.name \in Nat
    <3>1. OrphanSavepoint => orphan \in Stmts
      BY DEF OrphanSavepoint, DroppedInv, Typed, WireTyped
    <3>2. Names \subseteq Nat
      BY KvTransactionAssumption DEF Names
    <3> QED
      BY <3>1, <3>2, Fields DEF OrphanSavepoint
  <2>7. OrphanSavepoint' <=> OrphanSavepoint
    BY <2>1 DEF OrphanSavepoint
  <2>8. \A i \in 1..Len(savepoints) : savepoints[i].name <= savepoint_counter
    BY <2>4 DEF DroppedInv, Fresh
  <2> HIDE DEF OrphanSavepoint, Entries
  <2>9. Fresh'
    <3>1. /\ \A c \in Entries' : c.name <= savepoint_counter'
          /\ \A i \in DOMAIN stack : stack[i].name < savepoint_counter'
          /\ OrphanSavepoint => orphan.name < savepoint_counter'
      BY <1>0, <2>1, <2>4, <2>5, <2>6 DEF DroppedInv, Fresh
    <3>2. \A i \in 1..Len(savepoints') - 1 : savepoints'[i].name # savepoint_counter'
      BY <1>0, <2>1, <2>3, <2>4, <2>8
    <3>3. /\ \A i \in DOMAIN stack' : stack'[i].name <= savepoint_counter'
          /\ \A i \in DOMAIN stack' : stack'[i].name # savepoint_counter'
          /\ OrphanSavepoint' => /\ orphan'.name <= savepoint_counter'
                                 /\ orphan'.name # savepoint_counter'
      BY <1>0, <2>1, <2>4, <2>6, <2>7, <3>1
    <3> QED
      BY <2>1, <2>3, <3>1, <3>2, <3>3 DEF Fresh
  <2>10. Remembered'
    <3>1. ASSUME NEW c \in Entries', NEW i \in DOMAIN stack, c.name = stack[i].name
          PROVE  c.snap = stack[i].snap
      BY <1>0, <2>1, <2>4, <2>5, <3>1 DEF DroppedInv, Fresh, Remembered
    <3>2. ASSUME OrphanSavepoint, NEW c \in Entries', c.name = orphan.name
          PROVE  c.snap = view
      BY <2>1, <2>5, <3>2 DEF DroppedInv, Remembered
    <3> QED
      BY <2>1, <2>7, <3>1, <3>2 DEF Remembered
  <2>11. Sent' /\ Restoring'
    BY <1>0, <2>1 DEF Sent, Restoring
  <2> QED
    BY <2>9, <2>10, <2>11
<1>3. ASSUME NEW kind, NEW where, TakeTop(kind, where),
             \/ kind = "release" /\ where = "release"
             \/ kind = "rollbackTo" /\ where = "rollback" /\ goal' = Top(savepoints).snap
      PROVE  Sent' /\ Fresh' /\ Remembered' /\ Restoring'
  <2>1. /\ savepoints # <<>> /\ held' = Top(savepoints) /\ savepoints' = Pop(savepoints)
        /\ todo' = [kind |-> kind, name |-> Top(savepoints).name] /\ cont' = where
        /\ UNCHANGED <<answer, orphan, savepoint_counter, view, stack>>
    BY <1>3 DEF TakeTop, Send, server
  <2>2. Entries' \subseteq Entries
    <3>1. /\ DOMAIN savepoints' \subseteq DOMAIN savepoints
          /\ \A i \in DOMAIN savepoints' : savepoints'[i] = savepoints[i]
          /\ \E i \in DOMAIN savepoints : held' = savepoints[i]
      <4> HIDE DEF Savepoints
      <4> QED
        BY <1>0, <2>1 DEF Pop, Top
    <3> QED
      BY <3>1 DEF Entries
  <2>3. Fresh' /\ Remembered'
    BY <1>0, <1>3, <2>1, <2>2, Quiet DEF DroppedInv
  <2>4. Sent' /\ Restoring'
    BY <1>0, <1>3, <2>1 DEF Sent, Restoring
  <2> QED
    BY <2>3, <2>4
<1>4. CASE release_last_save_point \/ rollback_to_save_point
  BY <1>3, <1>4 DEF release_last_save_point, rollback_to_save_point
<1>5. CASE NoSavepointLeft \/ NewSavepointClosed
  <2>1. /\ cont' = "idle" /\ savepoint_counter <= savepoint_counter'
        /\ UNCHANGED <<savepoints, todo, answer, orphan, view, stack>>
    <3>1. CASE NoSavepointLeft
      BY <1>0, <3>1 DEF NoSavepointLeft, Refuse, Return, client, wire, server
    <3>2. CASE NewSavepointClosed
      BY <1>0, <1>1, <3>2 DEF NewSavepointClosed, Return, wire, server
    <3> QED
      BY <1>5, <3>1, <3>2
  <2>2. Entries' = Entries
    BY <1>0, <2>1 DEF Entries, Taken
  <2>3. Fresh' /\ Remembered'
    BY <2>1, <2>2, Quiet DEF DroppedInv
  <2>4. Sent' /\ Restoring'
    BY <1>0, <2>1 DEF Sent, Restoring
  <2> QED
    BY <2>3, <2>4
<1> QED
  BY <1>2, <1>4, <1>5 DEF CallSavepoint

(* The other steps of a call, its caller dropping it aside.                 *)
LEMMA CallStepsDropped ==
  ASSUME DroppedInv, Typed',
         commit \/ cancel \/ NextChunk \/ Answered \/ SavepointAnswered \/ ReleaseRestored
  PROVE  Sent' /\ Fresh' /\ Remembered' /\ Restoring'
<1>0. /\ savepoint_counter \in Nat /\ savepoint_counter <= savepoint_counter
      /\ savepoints \in Seq(Savepoints)
  BY EntriesAre DEF DroppedInv, Typed, ClientTyped
<1> DEFINE Calm == /\ UNCHANGED <<savepoint_counter, view, stack, orphan>>
                   /\ cont' # "savepoint"
                   /\ Entries' \subseteq Entries
<1>1. Calm => Fresh' /\ Remembered'
  BY <1>0, Quiet DEF DroppedInv
<1>2. CASE commit \/ cancel
  <2>1. PICK kind \in {"commit", "rollback"} : Close(kind)
    BY <1>2 DEF commit, cancel
  <2>2. /\ cont = "idle" /\ todo = NoStmt /\ answer = "none" /\ answer' = answer
        /\ UNCHANGED <<savepoint_counter, view, stack, orphan>>
        /\ savepoints' \in {savepoints, <<>>}
        /\ \/ cont' = "idle" /\ UNCHANGED todo
           \/ cont' = "close" /\ todo'.kind = kind
    BY <2>1 DEF Close, Refuse, Return, Send, client, wire, server, Idle, DroppedInv, Sent
  <2>3. Entries' \subseteq Entries
    BY <2>2 DEF Entries, Taken
  <2>4. Sent' /\ Restoring'
    BY <2>2 DEF Sent, Restoring
  <2> QED
    BY <1>1, <2>2, <2>3, <2>4
<1>3. CASE NextChunk
  <2>1. /\ cont = "setm" /\ answer = "ok" /\ answer' = "none" /\ todo'.kind = "setm"
        /\ UNCHANGED <<savepoint_counter, savepoints, cont, held, view, stack, orphan>>
    BY <1>3 DEF NextChunk, ChunkStmt, client, server
  <2>2. Entries' = Entries
    BY <2>1 DEF Entries
  <2>3. Sent' /\ Restoring'
    BY <2>1 DEF Sent, Restoring
  <2> QED
    BY <1>1, <2>1, <2>2, <2>3
<1>4. CASE Answered \/ SavepointAnswered
  <2>1. /\ cont' = "idle" /\ todo' = NoStmt /\ answer' = "none"
        /\ UNCHANGED <<savepoint_counter, view, stack, orphan>>
    BY <1>4 DEF Answered, SavepointAnswered, Finish, Return, server
  <2>2. \/ savepoints' = savepoints
        \/ cont = "savepoint" /\ savepoints' = Pop(savepoints)
        \/ cont \in Taken /\ savepoints' = Append(savepoints, held)
    BY <1>4 DEF Answered, SavepointAnswered, UndoPush, PushBack, Taken
  <2>3. Entries' = {savepoints'[i] : i \in DOMAIN savepoints'}
    BY <2>1 DEF Entries, Taken
  <2>4. CASE savepoints' = savepoints
    BY <1>1, <2>1, <2>3, <2>4 DEF Entries, Sent, Restoring
  <2>5. CASE cont = "savepoint" /\ savepoints' = Pop(savepoints)
    <3>1. savepoints # <<>>
      BY <2>5 DEF DroppedInv, Typed, ClientTyped
    <3>2. /\ DOMAIN savepoints' \subseteq DOMAIN savepoints
          /\ \A i \in DOMAIN savepoints' : savepoints'[i] = savepoints[i]
      <4> HIDE DEF Savepoints
      <4> QED
        BY <1>0, <2>5, <3>1 DEF Pop
    <3>3. Entries' \subseteq Entries
      BY <2>3, <3>2 DEF Entries
    <3> QED
      BY <1>1, <2>1, <3>3 DEF Sent, Restoring
  <2>6. CASE cont \in Taken /\ savepoints' = Append(savepoints, held)
    <3>1. \A i \in DOMAIN savepoints' :
            \/ i \in DOMAIN savepoints /\ savepoints'[i] = savepoints[i]
            \/ savepoints'[i] = held
      <4> HIDE DEF Savepoints
      <4> QED
        BY <1>0, <2>6
    <3>2. Entries' \subseteq Entries
      BY <2>3, <2>6, <3>1 DEF Entries
    <3> QED
      BY <1>1, <2>1, <3>2 DEF Sent, Restoring
  <2> QED
    BY <2>2, <2>4, <2>5, <2>6
<1>5. CASE ReleaseRestored
  <2>1. /\ cont = "rollback" /\ answer = "ok" /\ cont' = "rollbackRelease"
        /\ todo'.kind = "release" /\ answer' = "none"
        /\ UNCHANGED <<savepoint_counter, savepoints, held, goal, view, stack, orphan>>
    BY <1>5 DEF ReleaseRestored, client, server
  <2>2. Entries' = Entries
    BY <2>1 DEF Entries, Taken
  <2>3. Sent' /\ Restoring'
    BY <2>1 DEF DroppedInv, Sent, Restoring
  <2> QED
    BY <1>1, <2>1, <2>2, <2>3
<1> QED
  BY <1>2, <1>3, <1>4, <1>5

(* What a statement leaves on the server's stack.                           *)
LEMMA PerformStack ==
  ASSUME ServerTyped, NEW s \in Stmts, NEW r, Perform(s, r)
  PROVE  \A i \in DOMAIN stack' :
           \/ \E j \in DOMAIN stack : stack'[i] = stack[j]
           \/ /\ s.kind = "savepoint" /\ view' = view
              /\ stack'[i].name = s.name /\ stack'[i].snap = view
<1>0. stack \in Seq(Savepoints)
  BY DEF ServerTyped
<1>1. CASE stack' = stack
  BY <1>1
<1>2. CASE /\ s.kind = "savepoint" /\ view' = view
           /\ stack' = Append(stack, [name |-> s.name, snap |-> view])
  <2> DEFINE new == [name |-> s.name, snap |-> view]
  <2>1. stack' = Append(stack, new) /\ new.name = s.name /\ new.snap = view
    BY <1>2
  <2> HIDE DEF new, Savepoints
  <2>2. \A i \in DOMAIN stack' : (i \in DOMAIN stack /\ stack'[i] = stack[i]) \/ stack'[i] = new
    BY <1>0, <2>1
  <2> QED
    BY <1>2, <2>1, <2>2
<1>3. ASSUME NEW n \in 0..Len(stack), stack' = SubSeq(stack, 1, n)
      PROVE  \A i \in DOMAIN stack' : i \in DOMAIN stack /\ stack'[i] = stack[i]
  <2> HIDE DEF Savepoints
  <2> QED
    BY <1>0, <1>3
<1>4. \/ stack' = stack
      \/ /\ s.kind = "savepoint" /\ view' = view
         /\ stack' = Append(stack, [name |-> s.name, snap |-> view])
      \/ \E n \in 0..Len(stack) : stack' = SubSeq(stack, 1, n)
  <2>1. CASE PerformSavepoint(s, r)
    <3>1. Known(s.name) # {} =>
            /\ Innermost(s.name) \in 0..Len(stack)
            /\ Innermost(s.name) - 1 \in 0..Len(stack)
      <4>1. Len(stack) \in Nat
        BY <1>0
      <4> QED
        BY <1>0, <4>1, InnermostIs
    <3> QED
      BY <2>1, <3>1 DEF PerformSavepoint
  <2>2. CASE PerformData(s, r) \/ PerformFails(s, r) \/ PerformEnd(s, r) \/ UNCHANGED server
    BY <2>2 DEF PerformData, PerformFails, PerformEnd, server
  <2> QED
    BY <2>1, <2>2 DEF Perform
<1> QED
  BY <1>1, <1>2, <1>3, <1>4

LEMMA ExecuteDropped ==
  ASSUME DroppedInv, Typed', Execute
  PROVE  Sent' /\ Fresh' /\ Remembered' /\ Restoring'
<1>0. PICK r \in Results : Perform(todo, r) /\ answer' = r
  BY DEF Execute
<1>1. /\ todo \in Stmts /\ orphan = NoStmt /\ orphan' = NoStmt /\ todo' = todo
      /\ answer = "none" /\ answer' # "none" /\ cont # "idle"
      /\ UNCHANGED <<savepoints, savepoint_counter, cont, held, goal>>
  BY <1>0 DEF Execute, client, call, DroppedInv, Typed, WireTyped, Sent, Results
<1>2. Entries' = Entries /\ ~OrphanSavepoint'
  BY <1>1 DEF Entries, OrphanSavepoint
<1>3. \A i \in DOMAIN stack' :
        \/ \E j \in DOMAIN stack : stack'[i] = stack[j]
        \/ /\ todo.kind = "savepoint" /\ view' = view
           /\ stack'[i].name = todo.name /\ stack'[i].snap = view
  BY <1>0, <1>1, PerformStack DEF DroppedInv, Typed
<1>4. todo.kind = "savepoint" => cont = "savepoint" /\ todo.name = savepoint_counter
  BY <1>1 DEF DroppedInv, Sent, Typed, CallTyped, Conts
<1>5. savepoint_counter \in Nat
  BY EntriesAre DEF DroppedInv
<1>6. Sent'
  BY <1>1 DEF DroppedInv, Sent
<1>7. Fresh'
  <2>1. \A i \in DOMAIN stack' : stack'[i].name <= savepoint_counter
    BY <1>3, <1>4, <1>5 DEF DroppedInv, Fresh
  <2> QED
    BY <1>1, <1>2, <2>1 DEF DroppedInv, Fresh
<1>8. Remembered'
  <2>1. ASSUME NEW c \in Entries, NEW i \in DOMAIN stack', c.name = stack'[i].name
        PROVE  c.snap = stack'[i].snap
    <3>1. CASE \E j \in DOMAIN stack : stack'[i] = stack[j]
      BY <2>1, <3>1 DEF DroppedInv, Remembered
    <3>2. CASE /\ todo.kind = "savepoint"
               /\ stack'[i].name = todo.name /\ stack'[i].snap = view
      <4>1. cont = "savepoint" /\ c.name = savepoint_counter
        BY <1>4, <2>1, <3>2
      <4>2. PICK l \in 1..Len(savepoints) : c = savepoints[l]
        BY <4>1, EntriesAre DEF DroppedInv, Taken
      <4>3. savepoints \in Seq(Savepoints)
        BY DEF DroppedInv, Typed, ClientTyped
      <4>4. l = Len(savepoints)
        BY <4>1, <4>2, <4>3 DEF DroppedInv, Fresh
      <4> QED
        BY <1>1, <3>2, <4>1, <4>2, <4>4 DEF DroppedInv, Fresh, Top
    <3> QED
      BY <1>3, <3>1, <3>2
  <2> QED
    BY <1>2, <2>1 DEF Remembered
<1>9. Restoring'
  <2>1. cont \in Taken => held \in Entries
    BY DEF Entries
  <2>2. CASE cont = "rollback" /\ r = "ok"
    <3>1. todo.kind = "rollbackTo" /\ todo.name = held.name
      BY <2>2 DEF DroppedInv, Sent
    <3>2. Known(held.name) # {} /\ view' = stack[Innermost(held.name)].snap
      BY <1>0, <2>2, <3>1
         DEF Perform, PerformData, Conditional, PerformSavepoint, PerformFails, PerformEnd
    <3>3. stack \in Seq(Savepoints)
      BY DEF DroppedInv, Typed, ServerTyped
    <3>4. /\ Innermost(held.name) \in DOMAIN stack
          /\ stack[Innermost(held.name)].name = held.name
      BY <3>2, <3>3, InnermostIs
    <3>5. held.snap = view'
      BY <2>1, <2>2, <3>2, <3>4 DEF Taken, DroppedInv, Remembered
    <3> QED
      BY <1>1, <2>2, <3>5 DEF DroppedInv, Restoring
  <2>3. CASE cont = "rollbackRelease"
    <3>1. todo.kind = "release"
      BY <2>3 DEF DroppedInv, Sent
    <3>2. view' = view
      BY <1>0, <3>1 DEF Perform, PerformData, Conditional, PerformSavepoint,
                        PerformFails, PerformEnd, server
    <3> QED
      BY <1>1, <2>3, <3>2 DEF DroppedInv, Restoring
  <2>4. CASE cont # "rollbackRelease" /\ ~(cont = "rollback" /\ r = "ok")
    BY <1>0, <1>1, <2>4 DEF DroppedInv, Restoring
  <2> QED
    BY <2>2, <2>3, <2>4
<1> QED
  BY <1>6, <1>7, <1>8, <1>9

(* An orphan is executed: a savepoint that waits behind it will see its     *)
(* effect, and an orphaned savepoint remembers what its caller saw.         *)
LEMMA ExecuteOrphanDropped ==
  ASSUME DroppedInv, Typed', ExecuteOrphan
  PROVE  Sent' /\ Fresh' /\ Remembered' /\ Restoring'
<1>0. PICK r \in Results : Perform(orphan, r)
  BY DEF ExecuteOrphan
<1>1. /\ orphan \in Stmts /\ orphan # NoStmt /\ orphan' = NoStmt
      /\ answer = "none" /\ cont # "rollbackRelease"
      /\ UNCHANGED <<savepoint_counter, cont, held, goal, todo, answer>>
  BY DEF ExecuteOrphan, call, DroppedInv, Typed, WireTyped, Sent
<1>2. \A i \in DOMAIN stack' :
        \/ \E j \in DOMAIN stack : stack'[i] = stack[j]
        \/ /\ OrphanSavepoint /\ view' = view
           /\ stack'[i].name = orphan.name /\ stack'[i].snap = view
  BY <1>0, <1>1, PerformStack DEF DroppedInv, Typed, OrphanSavepoint
<1>3. savepoint_counter \in Nat
  BY EntriesAre DEF DroppedInv
<1>4. ~OrphanSavepoint'
  BY <1>1 DEF OrphanSavepoint
<1>5. \A i \in DOMAIN stack' : stack'[i].name <= savepoint_counter
  BY <1>2, <1>3 DEF DroppedInv, Fresh
<1>6. Sent' /\ Restoring'
  BY <1>1 DEF DroppedInv, Sent, Restoring
<1>7. CASE cont # "savepoint"
  <2>1. Entries' = Entries
    BY <1>1, <1>7 DEF ExecuteOrphan, Entries
  <2>2. Fresh'
    BY <1>1, <1>4, <1>5, <1>7, <2>1 DEF DroppedInv, Fresh
  <2>3. ASSUME NEW c \in Entries, NEW i \in DOMAIN stack', c.name = stack'[i].name
        PROVE  c.snap = stack'[i].snap
    BY <1>2, <2>3 DEF DroppedInv, Remembered
  <2>4. Remembered'
    BY <1>4, <2>1, <2>3 DEF Remembered
  <2> QED
    BY <1>6, <2>2, <2>4
<1>8. CASE cont = "savepoint"
  <2> DEFINE l == Len(savepoints)
             top == [savepoints[l] EXCEPT !.snap = view']
  <2>1. /\ savepoints \in Seq(Savepoints) /\ l \in 1..l
        /\ savepoints' = [savepoints EXCEPT ![l] = top]
    BY <1>8 DEF ExecuteOrphan, DroppedInv, Typed, ClientTyped
  <2>2. top.name = savepoints[l].name /\ top.snap = view'
    <3>1. savepoints[l] \in Savepoints
      BY <2>1
    <3> QED
      BY <3>1 DEF Savepoints
  <2>3. top.name = savepoint_counter
    BY <1>8, <2>2 DEF DroppedInv, Fresh, Top
  <2> HIDE DEF top, Savepoints
  <2>4. /\ Len(savepoints') = l /\ DOMAIN savepoints' = 1..l /\ savepoints'[l] = top
        /\ \A i \in 1..l-1 : savepoints'[i] = savepoints[i] /\ i \in 1..l
        /\ \A i \in 1..l : i \in 1..l-1 \/ i = l
    BY <2>1
  <2>5. Entries = {savepoints[i] : i \in 1..l} /\ Entries' = {savepoints'[i] : i \in 1..l}
    BY <1>1, <1>8, <2>4, EntriesAre DEF DroppedInv, Taken, Entries
  <2>6. \A c \in Entries' : c = top \/ (c \in Entries /\ c.name # savepoint_counter)
    BY <1>8, <2>4, <2>5 DEF DroppedInv, Fresh
  <2>7. \A i \in DOMAIN stack' : stack'[i].name # savepoint_counter
    BY <1>1, <1>2, <1>8 DEF DroppedInv, Fresh
  <2> HIDE DEF Entries, OrphanSavepoint
  <2>8. Fresh'
    <3>1. \A c \in Entries' : c.name <= savepoint_counter
      BY <1>3, <2>3, <2>6 DEF DroppedInv, Fresh
    <3>2. Top(savepoints') = top
      BY <2>4 DEF Top
    <3>3. \A i \in 1..l-1 : savepoints'[i].name # savepoint_counter
      BY <1>8, <2>4 DEF DroppedInv, Fresh
    <3> QED
      BY <1>1, <1>4, <1>5, <2>2, <2>3, <2>4, <2>7, <3>1, <3>2, <3>3 DEF Fresh
  <2>9. ASSUME NEW c \in Entries', NEW i \in DOMAIN stack', c.name = stack'[i].name
        PROVE  c.snap = stack'[i].snap
    <3>1. c \in Entries
      BY <2>3, <2>6, <2>7, <2>9
    <3> QED
      BY <1>2, <2>9, <3>1 DEF DroppedInv, Remembered
  <2>10. Remembered'
    BY <1>4, <2>9 DEF Remembered
  <2> QED
    BY <1>6, <2>8, <2>10
<1> QED
  BY <1>7, <1>8

LEMMA LossDropped ==
  ASSUME DroppedInv, LoseConnection \/ LoseCommitAnswer
  PROVE  Sent' /\ Fresh' /\ Remembered' /\ Restoring'
<1>1. /\ UNCHANGED <<savepoints, savepoint_counter, cont, held, goal, todo, orphan,
                     view, stack>>
      /\ answer' = "none" => answer = "none"
      /\ answer # "none" => answer' # "none"
      /\ answer' = "none" \/ answer' = "err"
      /\ answer = "none" => answer' = "none"
  BY DEF LoseConnection, LoseCommitAnswer, client, call, server
<1>2. Entries' = Entries /\ (OrphanSavepoint' <=> OrphanSavepoint)
  BY <1>1 DEF Entries, OrphanSavepoint
<1> HIDE DEF Entries, OrphanSavepoint
<1>3. Sent' /\ Restoring'
  BY <1>1 DEF DroppedInv, Sent, Restoring
<1>4. Fresh' /\ Remembered'
  BY <1>1, <1>2 DEF DroppedInv, Fresh, Remembered
<1> QED
  BY <1>3, <1>4

(* A statement already sent becomes the orphan.                             *)
LEMMA DropFutureDropped ==
  ASSUME DroppedInv, Typed', DropFuture
  PROVE  Sent' /\ Fresh' /\ Remembered' /\ Restoring'
<1>1. /\ cont # "idle" /\ cont' = "idle" /\ todo' = NoStmt /\ answer' = "none"
      /\ UNCHANGED <<savepoints, savepoint_counter, view, stack>>
      /\ savepoint_counter \in Nat
  BY EntriesAre DEF DropFuture, Idle, Return, client, server, DroppedInv
<1>2. Entries' \subseteq Entries
  BY <1>1 DEF Entries, Taken
<1>3. Sent' /\ Restoring'
  BY <1>1 DEF Sent, Restoring
<1>4. CASE orphan' = orphan
  BY <1>1, <1>2, <1>3, <1>4, Quiet DEF DroppedInv
<1>5. CASE orphan' # orphan
  <2>1. orphan = NoStmt /\ answer = "none" /\ orphan' = todo
    BY <1>5 DEF DropFuture
  <2>2. OrphanSavepoint' =>
          /\ cont = "savepoint" /\ orphan'.name = savepoint_counter
    BY <1>1, <2>1 DEF OrphanSavepoint, DroppedInv, Sent, Typed, CallTyped, Conts
  <2>3. Fresh'
    BY <1>1, <1>2, <2>2 DEF DroppedInv, Fresh
  <2>4. ASSUME OrphanSavepoint', NEW c \in Entries, c.name = orphan'.name
        PROVE  c.snap = view
    <3>1. cont = "savepoint" /\ c.name = savepoint_counter
      BY <2>2, <2>4
    <3>2. PICK l \in 1..Len(savepoints) : c = savepoints[l]
      BY <3>1, EntriesAre DEF DroppedInv, Taken
    <3>3. savepoints \in Seq(Savepoints)
      BY DEF DroppedInv, Typed, ClientTyped
    <3>4. l = Len(savepoints)
      BY <3>1, <3>2, <3>3 DEF DroppedInv, Fresh
    <3> QED
      BY <2>1, <3>1, <3>2, <3>4 DEF DroppedInv, Fresh, Top
  <2>5. Remembered'
    BY <1>1, <1>2, <2>4 DEF DroppedInv, Remembered
  <2> QED
    BY <1>3, <2>3, <2>5
<1> QED
  BY <1>4, <1>5

LEMMA DroppedStep ==
  ASSUME ~CounterWraps
  PROVE  DroppedInv /\ [Next]_vars => DroppedInv'
<1> SUFFICES ASSUME DroppedInv, [Next]_vars
             PROVE  DroppedInv'
  OBVIOUS
<1>1. Typed'
  BY TypedStep DEF DroppedInv
<1>2. CASE UNCHANGED vars
  <2>1. Entries' = Entries /\ (OrphanSavepoint' <=> OrphanSavepoint)
    BY <1>2 DEF Entries, OrphanSavepoint, vars, client, call, wire
  <2> HIDE DEF Entries, OrphanSavepoint
  <2>2. Sent' /\ Fresh' /\ Remembered' /\ Restoring'
    BY <1>2, <2>1 DEF DroppedInv, Sent, Fresh, Remembered, Restoring,
                      vars, client, call, wire, server
  <2> QED
    BY <1>1, <2>2 DEF DroppedInv
<1>3. CASE Next
  <2>1. Sent' /\ Fresh' /\ Remembered' /\ Restoring'
    BY <1>1, <1>3, CallKvDropped, CallSavepointDropped, CallStepsDropped, ExecuteDropped,
       ExecuteOrphanDropped, LossDropped, DropFutureDropped DEF Next
  <2> QED
    BY <1>1, <2>1 DEF DroppedInv
<1> QED
  BY <1>2, <1>3

(* rollback_to_save_point with dropped futures: whatever calls the caller   *)
(* abandoned, and wherever, an Ok means that the view it saw when it made   *)
(* its innermost savepoint is restored, until the counter wraps around.     *)
THEOREM RollbackIsExactDropped ==
  ASSUME ~CounterWraps
  PROVE  Spec => RollbackRestores
<1>1. Init => DroppedInv
  <2> SUFFICES ASSUME Init
               PROVE  DroppedInv
    OBVIOUS
  <2>1. Entries = {} /\ DOMAIN stack = {} /\ ~OrphanSavepoint
    BY DEF Init, Entries, OrphanSavepoint, Taken
  <2> HIDE DEF Entries, OrphanSavepoint
  <2>2. Sent /\ Fresh /\ Remembered /\ Restoring
    BY <2>1 DEF Init, Sent, Fresh, Remembered, Restoring
  <2> QED
    BY <2>2, TypedInit DEF DroppedInv
<1>2. DroppedInv /\ [Next]_vars
        => [reply' = "rolledBack" /\ ~Idle /\ cont' = "idle" => view = goal]_vars
  <2> SUFFICES ASSUME DroppedInv, Next, reply' = "rolledBack", cont # "idle", cont' = "idle"
               PROVE  view = goal
    BY DEF Idle
  <2>1. Answered \/ SavepointAnswered
    BY Endings
  <2>2. cont = "rollbackRelease"
    BY <2>1 DEF Answered, SavepointAnswered, Finish, Return
  <2> QED
    BY <2>2 DEF DroppedInv, Restoring
<1> QED
  BY <1>1, <1>2, DroppedStep, PTL DEF Spec, RollbackRestores

=============================================================================
