------------------------------- MODULE Folding -------------------------------
(***************************************************************************)
(* Induction over the numbers and over sequences, and what FoldLeft of     *)
(* SequencesExt computes, as lemmas about sets.  A module that folds with  *)
(* an operator of its own takes them with INSTANCE Folding WITH Op <- ...  *)
(***************************************************************************)
EXTENDS Integers, Sequences, SequencesExt, WellFoundedInduction, TLAPS

CONSTANT Op(_, _)

Fold(base, seq) == FoldLeft(Op, base, seq)

-----------------------------------------------------------------------------
(* A set of numbers that holds 0 and is closed under successor holds every  *)
(* number: the least number outside it has a predecessor.                   *)
LEMMA NumberInduction ==
  ASSUME NEW T, 0 \in T, \A n \in Nat : n \in T => n + 1 \in T
  PROVE  \A n \in Nat : n \in T
<1> SUFFICES ASSUME Nat \ T # {}
             PROVE  FALSE
  OBVIOUS
<1> DEFINE R == OpToRel(<, Nat)
<1>1. IsWellFoundedOn(R, Nat)
  BY NatLessThanWellFounded
<1>2. \A x, y \in Nat : x < y => <<x, y>> \in R
  BY DEF OpToRel
<1> HIDE DEF R
<1>3. PICK x \in Nat \ T : \A y \in Nat \ T : ~ (<<y, x>> \in R)
  <2>1. Nat \ T \subseteq Nat
    OBVIOUS
  <2> QED
    BY <1>1, <2>1, WFMin
<1>4. x # 0 /\ x - 1 \in Nat /\ x - 1 < x
  BY <1>3
<1>5. x - 1 \in T
  BY <1>2, <1>3, <1>4
<1>6. (x - 1) + 1 \in T
  BY <1>4, <1>5
<1> QED
  BY <1>3, <1>4, <1>6

(* A set of indices that is not empty has a largest one.                    *)
LEMMA LargestIndex ==
  ASSUME NEW n \in Nat, NEW I \in SUBSET (1..n), I # {}
  PROVE  \E i \in I : \A j \in I : j <= i
<1> DEFINE N == {m \in Nat : \A J \in SUBSET (1..m) :
                               J # {} => \E i \in J : \A j \in J : j <= i}
<1>1. 0 \in N
  <2>1. \A J \in SUBSET (1..0) : J = {}
    OBVIOUS
  <2> QED
    BY <2>1
<1>2. ASSUME NEW m \in Nat, m \in N
      PROVE  m + 1 \in N
  <2>1. ASSUME NEW J \in SUBSET (1..(m+1)), J # {}
        PROVE  \E i \in J : \A j \in J : j <= i
    <3>1. CASE m + 1 \in J
      BY <3>1
    <3>2. CASE m + 1 \notin J
      <4>1. J \in SUBSET (1..m)
        BY <3>2
      <4> QED
        BY <1>2, <2>1, <4>1
    <3> QED
      BY <3>1, <3>2
  <2> QED
    BY <2>1
<1>3. \A m \in Nat : m \in N
  <2> HIDE DEF N
  <2> QED
    BY <1>1, <1>2, NumberInduction
<1> QED
  BY <1>3

(* ... and a least one.                                                     *)
LEMMA LeastIndex ==
  ASSUME NEW I \in SUBSET Nat, I # {}
  PROVE  \E i \in I : \A j \in I : i <= j
<1> DEFINE R == OpToRel(<, Nat)
<1>1. IsWellFoundedOn(R, Nat)
  BY NatLessThanWellFounded
<1>2. \A x, y \in Nat : x < y => <<x, y>> \in R
  BY DEF OpToRel
<1> HIDE DEF R
<1>3. PICK i \in I : \A j \in I : ~ (<<j, i>> \in R)
  <2>1. I \subseteq Nat
    OBVIOUS
  <2> QED
    BY <1>1, <2>1, WFMin
<1>4. \A j \in I : ~(j < i)
  <2>1. \A j \in I : j \in Nat
    OBVIOUS
  <2> QED
    BY <1>2, <1>3, <2>1
<1> QED
  BY <1>4

(* The same for sequences: they are reached from <<>> by Append.            *)
LEMMA SequenceInduction ==
  ASSUME NEW S, NEW T, <<>> \in T,
         \A s \in Seq(S), x \in S : s \in T => Append(s, x) \in T
  PROVE  \A s \in Seq(S) : s \in T
<1> DEFINE N == {n \in Nat : \A s \in Seq(S) : Len(s) = n => s \in T}
<1>1. 0 \in N
  <2>1. \A s \in Seq(S) : Len(s) = 0 => s = <<>>
    OBVIOUS
  <2> QED
    BY <2>1
<1>2. ASSUME NEW n \in Nat, n \in N
      PROVE  n + 1 \in N
  <2>1. ASSUME NEW s \in Seq(S), Len(s) = n + 1
        PROVE  s \in T
    <3> DEFINE front == SubSeq(s, 1, n)
    <3>1. /\ front \in Seq(S) /\ Len(front) = n
          /\ \A i \in 1..n : front[i] = s[i]
          /\ s[n+1] \in S
      BY <2>1
    <3>2. Append(front, s[n+1]) = s
      <4>1. /\ Append(front, s[n+1]) \in Seq(S)
            /\ Len(Append(front, s[n+1])) = n + 1
            /\ \A i \in 1..(n+1) : Append(front, s[n+1])[i] = s[i]
        BY <3>1
      <4> HIDE DEF front
      <4> QED
        BY <2>1, <4>1
    <3>3. front \in T
      BY <1>2, <3>1
    <3> HIDE DEF front
    <3> QED
      BY <3>1, <3>2, <3>3
  <2> QED
    BY <2>1
<1>3. \A n \in Nat : n \in N
  <2> HIDE DEF N
  <2> QED
    BY <1>1, <1>2, NumberInduction
<1> QED
  BY <1>3

-----------------------------------------------------------------------------
(* FoldLeft is defined by a recursion over the sets of indices that takes   *)
(* the largest index out first.                                             *)

Step(base, seq, g, s) ==
  IF s = {} THEN base ELSE Op(g[s \ {Max(s)}], seq[Max(s)])

Solves(base, seq, n, g) == g = [s \in SUBSET (1..n) |-> Step(base, seq, g, s)]

(* The last index is the largest: where MapThenFoldSet splits a sequence.   *)
LEMMA MaxOfExtended ==
  ASSUME NEW n \in Nat, NEW s \in SUBSET (1..(n+1)), n + 1 \in s
  PROVE  Max(s) = n + 1
<1>1. \A y \in s : n + 1 >= y
  OBVIOUS
<1>2. \A x \in s : (\A y \in s : x >= y) => x = n + 1
  OBVIOUS
<1> QED
  BY <1>1, <1>2 DEF Max

(* The recursion has a solution: one for n indices extends to n + 1.        *)
LEMMA RecursionSolved ==
  ASSUME NEW base, NEW seq, NEW n \in Nat
  PROVE  \E g : Solves(base, seq, n, g)
<1> DEFINE N == {m \in Nat : \E g : Solves(base, seq, m, g)}
<1>1. 0 \in N
  <2> DEFINE g == [s \in SUBSET (1..0) |-> base]
  <2>1. \A s \in SUBSET (1..0) : s = {}
    OBVIOUS
  <2>2. Solves(base, seq, 0, g)
    BY <2>1 DEF Solves, Step
  <2> QED
    BY <2>2
<1>2. ASSUME NEW m \in Nat, m \in N
      PROVE  m + 1 \in N
  <2>1. PICK g : Solves(base, seq, m, g)
    BY <1>2
  <2> DEFINE h == [s \in SUBSET (1..(m+1)) |->
                     IF m + 1 \in s THEN Op(g[s \ {m+1}], seq[m+1]) ELSE g[s]]
  <2>2. ASSUME NEW s \in SUBSET (1..(m+1))
        PROVE  h[s] = Step(base, seq, h, s)
    <3>1. CASE m + 1 \in s
      <4>1. Max(s) = m + 1
        BY <3>1, MaxOfExtended
      <4>2. s \ {m+1} \in SUBSET (1..(m+1)) /\ m + 1 \notin s \ {m+1}
        OBVIOUS
      <4>3. h[s \ {m+1}] = g[s \ {m+1}]
        BY <4>2
      <4> HIDE DEF Step
      <4>4. h[s] = Op(g[s \ {m+1}], seq[m+1])
        BY <3>1
      <4> HIDE DEF h
      <4> QED
        BY <3>1, <4>1, <4>3, <4>4 DEF Step
    <3>2. CASE m + 1 \notin s
      <4>1. s \in SUBSET (1..m)
        BY <3>2
      <4>2. g[s] = Step(base, seq, g, s)
        BY <2>1, <4>1 DEF Solves
      <4>3. h[s] = g[s]
        BY <3>2
      <4>4. h[s \ {Max(s)}] = g[s \ {Max(s)}]
        BY <3>2
      <4> HIDE DEF h
      <4> QED
        BY <4>2, <4>3, <4>4 DEF Step
    <3> QED
      BY <3>1, <3>2
  <2>3. Solves(base, seq, m+1, h)
    <3>1. h = [s \in SUBSET (1..(m+1)) |-> h[s]]
      OBVIOUS
    <3> HIDE DEF h
    <3> QED
      BY <2>2, <3>1 DEF Solves
  <2> HIDE DEF h
  <2> QED
    BY <2>3
<1>3. \A m \in Nat : m \in N
  <2> HIDE DEF N
  <2> QED
    BY <1>1, <1>2, NumberInduction
<1> QED
  BY <1>3

(* On the first indices a solution goes up one index at a time.             *)
StepsUp(base, seq, n, g) ==
  /\ g[1..0] = base
  /\ \A m \in 0..(n-1) : g[1..(m+1)] = Op(g[1..m], seq[m+1])

(* A solution of the recursion applies Op to one element after the other.   *)
LEMMA SolutionSteps ==
  ASSUME NEW base, NEW seq, NEW n \in Nat, NEW g, Solves(base, seq, n, g)
  PROVE  StepsUp(base, seq, n, g)
<1>1. g[1..0] = base
  <2>1. 1..0 = {} /\ 1..0 \in SUBSET (1..n)
    OBVIOUS
  <2>2. g[1..0] = Step(base, seq, g, 1..0)
    BY <2>1 DEF Solves
  <2> QED
    BY <2>1, <2>2 DEF Step
<1>2. ASSUME NEW m \in 0..(n-1)
      PROVE  g[1..(m+1)] = Op(g[1..m], seq[m+1])
  <2>1. /\ 1..(m+1) \in SUBSET (1..n)
        /\ m + 1 \in 1..(m+1) /\ m \in Nat
        /\ (1..(m+1)) \ {m+1} = 1..m
    OBVIOUS
  <2>2. Max(1..(m+1)) = m + 1
    BY <2>1, MaxOfExtended
  <2>3. g[1..(m+1)] = Step(base, seq, g, 1..(m+1))
    BY <2>1 DEF Solves
  <2> QED
    BY <2>1, <2>2, <2>3 DEF Step
<1> QED
  BY <1>1, <1>2 DEF StepsUp

(* FoldLeft is the solution of its recursion.                               *)
LEMMA FoldSolves ==
  ASSUME NEW base, NEW S, NEW seq \in Seq(S)
  PROVE  \E g : Solves(base, seq, Len(seq), g) /\ Fold(base, seq) = g[1..Len(seq)]
<1> DEFINE g == CHOOSE f : Solves(base, seq, Len(seq), f)
<1>1. DOMAIN seq = 1..Len(seq) /\ Len(seq) \in Nat
  OBVIOUS
<1>2. Solves(base, seq, Len(seq), g)
  BY <1>1, RecursionSolved
<1>3. Fold(base, seq) = g[1..Len(seq)]
  BY <1>1 DEF Fold, FoldLeft, MapThenFoldSet, Solves, Step
<1> QED
  BY <1>2, <1>3

-----------------------------------------------------------------------------
(* The lemmas to cite.                                                      *)

(* Folding the empty sequence changes nothing.                              *)
LEMMA FoldEmpty ==
  ASSUME NEW base
  PROVE  Fold(base, <<>>) = base
<1>1. <<>> \in Seq({}) /\ Len(<<>>) = 0
  OBVIOUS
<1>2. PICK g : Solves(base, <<>>, 0, g) /\ Fold(base, <<>>) = g[1..0]
  BY <1>1, FoldSolves
<1> QED
  BY <1>2, SolutionSteps DEF StepsUp

(* One more element is one more application of Op.                          *)
LEMMA FoldAppend ==
  ASSUME NEW base, NEW S, NEW seq \in Seq(S), NEW x \in S
  PROVE  Fold(base, Append(seq, x)) = Op(Fold(base, seq), x)
<1> DEFINE n == Len(seq)
           long == Append(seq, x)
<1>1. /\ n \in Nat /\ long \in Seq(S) /\ Len(long) = n + 1
      /\ long[n+1] = x
      /\ \A i \in 1..n : long[i] = seq[i]
  OBVIOUS
<1>2. PICK g : Solves(base, seq, n, g) /\ Fold(base, seq) = g[1..n]
  BY FoldSolves
<1>3. PICK h : Solves(base, long, n+1, h) /\ Fold(base, long) = h[1..(n+1)]
  BY <1>1, FoldSolves
<1> HIDE DEF n, long
<1>4. /\ g[1..0] = base
      /\ \A m \in 0..(n-1) : g[1..(m+1)] = Op(g[1..m], seq[m+1])
  <2>1. StepsUp(base, seq, n, g)
    BY <1>1, <1>2, SolutionSteps
  <2> QED
    BY <2>1 DEF StepsUp
<1>5. /\ h[1..0] = base
      /\ \A m \in 0..n : h[1..(m+1)] = Op(h[1..m], long[m+1])
  <2>1. (n + 1) - 1 = n /\ n + 1 \in Nat
    BY <1>1
  <2>2. StepsUp(base, long, n + 1, h)
    BY <1>3, <2>1, SolutionSteps
  <2> QED
    BY <2>1, <2>2 DEF StepsUp
<1>6. g[1..n] = h[1..n]
  <2> DEFINE N == {m \in Nat : m <= n => g[1..m] = h[1..m]}
  <2>1. 0 \in N
    BY <1>4, <1>5
  <2>2. ASSUME NEW m \in Nat, m \in N
        PROVE  m + 1 \in N
    <3>1. CASE m + 1 <= n
      <4>1. /\ m \in 0..(n-1) /\ m \in 0..n /\ m + 1 \in 1..n /\ m <= n
        BY <1>1, <3>1
      <4>2. g[1..m] = h[1..m] /\ long[m+1] = seq[m+1]
        BY <1>1, <2>2, <4>1
      <4> QED
        BY <1>4, <1>5, <4>1, <4>2
    <3>2. CASE ~(m + 1 <= n)
      BY <3>2
    <3> QED
      BY <3>1, <3>2
  <2>3. \A m \in Nat : m \in N
    <3> HIDE DEF N
    <3> QED
      BY <2>1, <2>2, NumberInduction
  <2> QED
    BY <1>1, <2>3
<1> QED
  BY <1>1, <1>2, <1>3, <1>5, <1>6 DEF long

(* A set that holds the base and is closed under Op holds every fold.       *)
LEMMA FoldInvariant ==
  ASSUME NEW S, NEW T, NEW base \in T,
         \A t \in T, x \in S : Op(t, x) \in T
  PROVE  \A seq \in Seq(S) : Fold(base, seq) \in T
<1> DEFINE good == {seq \in Seq(S) : Fold(base, seq) \in T}
<1>1. <<>> \in good
  BY FoldEmpty
<1>2. \A seq \in Seq(S), x \in S : seq \in good => Append(seq, x) \in good
  BY FoldAppend
<1>3. \A seq \in Seq(S) : seq \in good
  <2> HIDE DEF good
  <2> QED
    BY <1>1, <1>2, SequenceInduction
<1> QED
  BY <1>3

(* Folding a concatenation is folding its parts one after the other.        *)
LEMMA FoldConcat ==
  ASSUME NEW base, NEW S, NEW first \in Seq(S)
  PROVE  \A rest \in Seq(S) : Fold(base, first \o rest) = Fold(Fold(base, first), rest)
<1> DEFINE T == {r \in Seq(S) : Fold(base, first \o r) = Fold(Fold(base, first), r)}
<1>1. <<>> \in T
  <2>1. first \o <<>> = first
    OBVIOUS
  <2> QED
    BY <2>1, FoldEmpty
<1>2. ASSUME NEW r \in Seq(S), NEW x \in S, r \in T
      PROVE  Append(r, x) \in T
  <2>1. first \o Append(r, x) = Append(first \o r, x)
        /\ first \o r \in Seq(S) /\ Append(r, x) \in Seq(S)
    OBVIOUS
  <2>2. Fold(base, Append(first \o r, x)) = Op(Fold(base, first \o r), x)
    BY <2>1, FoldAppend
  <2>3. Fold(Fold(base, first), Append(r, x)) = Op(Fold(Fold(base, first), r), x)
    BY FoldAppend
  <2> QED
    BY <1>2, <2>1, <2>2, <2>3
<1>3. \A r \in Seq(S) : r \in T
  <2> HIDE DEF T
  <2> QED
    BY <1>1, <1>2, SequenceInduction
<1> QED
  BY <1>3

=============================================================================
