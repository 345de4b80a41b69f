----------------------- MODULE PartitionMembersProofs -----------------------
(***************************************************************************)
(* Theorems about PartitionMembers, for any input and any size of a batch. *)
(*                                                                         *)
(* What walks or lays out data is a recursive function or a fold over it;  *)
(* a fact about all of it goes by the least number at which it would fail  *)
(* (Induction), applied to the set of those at which it holds.  To reach   *)
(* the equation of a recursive function, its values up to n are written    *)
(* down, n by n, and shown to agree.                                       *)
(***************************************************************************)
EXTENDS PartitionMembers, SequenceTheorems, FiniteSetTheorems, WellFoundedInduction, TLAPS

-----------------------------------------------------------------------------
(* Least counterexamples, and sequences laid end to end.                   *)

\* A set of naturals that is not empty has a least element.
LEMMA LeastNatural ==
  ASSUME NEW S, S \subseteq Nat, S # {}
  PROVE  \E n \in S : \A m \in S : n <= m
<1>1. \E x \in S : \A y \in S : ~(<<y, x>> \in OpToRel(<, Nat))
  BY NatLessThanWellFounded, WFMin
<1>2. PICK x \in S : \A y \in S : ~(<<y, x>> \in OpToRel(<, Nat))
  BY <1>1
<1>3. ASSUME NEW y \in S PROVE x <= y
  <2>1. ~(y < x)
    BY <1>2 DEF OpToRel
  <2> QED BY <2>1
<1> QED
  BY <1>3

\* What holds of a number where it holds of all smaller ones holds of all.
LEMMA Induction ==
  ASSUME NEW S, \A n \in Nat : (\A m \in 0..(n - 1) : m \in S) => n \in S
  PROVE  Nat \subseteq S
<1> SUFFICES ASSUME Nat \ S # {} PROVE FALSE
  OBVIOUS
<1>1. PICK n \in Nat \ S : \A m \in Nat \ S : n <= m
  BY LeastNatural
<1>2. \A m \in 0..(n - 1) : m \in S
  BY <1>1
<1> QED
  BY <1>1, <1>2

-----------------------------------------------------------------------------
(* Sequences one after the other.                                          *)

\* The recursion of FlattenSeq goes through: it appends the last sequence to
\* what it makes of the others.
FlattensTo(ss, g, n) ==
    g = [i \in 1..n |-> IF i = 1 THEN ss[i] ELSE g[i - 1] \o ss[i]]

LEMMA FlattensStep ==
  ASSUME NEW ss, NEW g, NEW n \in Nat, FlattensTo(ss, g, n), NEW i \in 1..n
  PROVE  g[i] = IF i = 1 THEN ss[i] ELSE g[i - 1] \o ss[i]
<1> DEFINE e(j) == IF j = 1 THEN ss[j] ELSE g[j - 1] \o ss[j]
<1>1. g = [j \in 1..n |-> e(j)]
  BY DEF FlattensTo
<1>2. g[i] = e(i)
  <2> HIDE DEF e
  <2> QED BY <1>1
<1> QED
  BY <1>2

LEMMA FlattenUnfolds ==
  ASSUME NEW S, NEW ss \in Seq(Seq(S)), ss # <<>>
  PROVE  \E g : FlattensTo(ss, g, Len(ss)) /\ FlattenSeq(ss) = g[Len(ss)]
<1> DEFINE N == {n \in Nat : n \in 1..Len(ss) => \E g : FlattensTo(ss, g, n)}
<1>1. ASSUME NEW n \in Nat, \A m \in 0..(n - 1) : m \in N PROVE n \in N
  <2> SUFFICES ASSUME n \in 1..Len(ss) PROVE \E g : FlattensTo(ss, g, n)
    OBVIOUS
  <2>1. CASE n = 1
    <3> DEFINE g == [i \in 1..1 |-> ss[i]]
    <3>1. FlattensTo(ss, g, 1)
      BY DEF FlattensTo
    <3> QED BY <2>1, <3>1
  <2>2. CASE n # 1
    <3>1. n - 1 \in N
      <4> HIDE DEF N
      <4> QED BY <1>1, <2>2
    <3>2. PICK g : FlattensTo(ss, g, n - 1)
      BY <2>2, <3>1
    <3> DEFINE h == [i \in 1..n |-> IF i = n THEN g[n - 1] \o ss[n] ELSE g[i]]
    <3>3. ASSUME NEW i \in 1..n PROVE h[i] = IF i = 1 THEN ss[i] ELSE h[i - 1] \o ss[i]
      <4>1. CASE i = n
        <5>1. n \in 1..n /\ n - 1 \in 1..n /\ n - 1 # n
          BY <2>2
        <5>2. h[n] = g[n - 1] \o ss[n] /\ h[n - 1] = g[n - 1]
          <6> HIDE DEF N
          <6> QED BY <5>1
        <5> HIDE DEF h
        <5> QED BY <2>2, <4>1, <5>2
      <4>2. CASE i # n
        <5>1. i \in 1..(n - 1) /\ n - 1 \in Nat
          BY <4>2
        <5>2. g[i] = IF i = 1 THEN ss[i] ELSE g[i - 1] \o ss[i]
          BY <3>2, <5>1, FlattensStep
        <5>3. h[i] = g[i] /\ (i # 1 => h[i - 1] = g[i - 1])
          BY <4>2, <5>1
        <5> HIDE DEF h
        <5> QED BY <5>2, <5>3
      <4> QED BY <4>1, <4>2
    <3>4. FlattensTo(ss, h, n)
      <4> DEFINE e(i) == IF i = 1 THEN ss[i] ELSE h[i - 1] \o ss[i]
      <4>1. \A i \in 1..n : h[i] = e(i)
        BY <3>3
      <4>2. h = [i \in 1..n |-> h[i]]
        OBVIOUS
      <4>3. h = [i \in 1..n |-> e(i)]
        <5> HIDE DEF e, h
        <5> QED BY <4>1, <4>2
      <4> QED BY <4>3 DEF FlattensTo
    <3> QED BY <3>4
  <2> QED BY <2>1, <2>2
<1>2. Nat \subseteq N
  <2> HIDE DEF N
  <2> QED BY <1>1, Induction
<1>3. Len(ss) \in Nat /\ Len(ss) # 0
  BY EmptySeq
<1>4. \E g : FlattensTo(ss, g, Len(ss))
  BY <1>2, <1>3
<1> DEFINE f == CHOOSE g : FlattensTo(ss, g, Len(ss))
<1>5. FlattensTo(ss, f, Len(ss))
  BY <1>4
<1>6. FlattenSeq(ss) = f[Len(ss)]
  BY <1>3 DEF FlattenSeq, FlattensTo
<1> QED
  BY <1>5, <1>6

AlikeTo(s, t, n) == \A i \in 1..n : s[i] = t[i]

LEMMA FlattensAlike ==
  ASSUME NEW ss, NEW tt, NEW g, NEW h, NEW n \in Nat, NEW m \in Nat, n <= m,
         FlattensTo(ss, g, n), FlattensTo(tt, h, m), AlikeTo(ss, tt, n)
  PROVE  AlikeTo(g, h, n)
<1> DEFINE N == {i \in Nat : i \in 1..n => g[i] = h[i]}
<1>1. ASSUME NEW i \in Nat, \A j \in 0..(i - 1) : j \in N PROVE i \in N
  <2> SUFFICES ASSUME i \in 1..n PROVE g[i] = h[i]
    OBVIOUS
  <2>1. /\ g[i] = IF i = 1 THEN ss[i] ELSE g[i - 1] \o ss[i]
        /\ h[i] = IF i = 1 THEN tt[i] ELSE h[i - 1] \o tt[i]
        /\ ss[i] = tt[i]
    <3>1. i \in 1..m /\ ss[i] = tt[i]
      BY DEF AlikeTo
    <3> HIDE DEF N
    <3> QED BY <3>1, FlattensStep
  <2>2. i = 1 \/ i - 1 \in N
    <3> HIDE DEF N
    <3> QED BY <1>1
  <2> QED BY <2>1, <2>2
<1>2. Nat \subseteq N
  <2> HIDE DEF N
  <2> QED BY <1>1, Induction
<1> QED
  BY <1>2 DEF AlikeTo

LEMMA FlattensTyped ==
  ASSUME NEW S, NEW ss \in Seq(Seq(S)), NEW g, FlattensTo(ss, g, Len(ss))
  PROVE  \A i \in 1..Len(ss) : g[i] \in Seq(S)
<1> DEFINE N == {i \in Nat : i \in 1..Len(ss) => g[i] \in Seq(S)}
<1>1. ASSUME NEW i \in Nat, \A j \in 0..(i - 1) : j \in N PROVE i \in N
  <2> SUFFICES ASSUME i \in 1..Len(ss) PROVE g[i] \in Seq(S)
    OBVIOUS
  <2>1. ss[i] \in Seq(S) /\ Len(ss) \in Nat
    <3> HIDE DEF N
    <3> QED BY ElementOfSeq
  <2>2. g[i] = IF i = 1 THEN ss[i] ELSE g[i - 1] \o ss[i]
    <3> HIDE DEF N
    <3> QED BY <2>1, FlattensStep
  <2>3. i = 1 \/ i - 1 \in N
    <3> HIDE DEF N
    <3> QED BY <1>1
  <2> QED BY <2>1, <2>2, <2>3
<1>2. Nat \subseteq N
  <2> HIDE DEF N
  <2> QED BY <1>1, Induction
<1> QED
  BY <1>2

LEMMA FlattenEmpty == FlattenSeq(<<>>) = <<>>
BY DEF FlattenSeq

LEMMA FlattenIsSeq ==
  ASSUME NEW S, NEW ss \in Seq(Seq(S))
  PROVE  FlattenSeq(ss) \in Seq(S)
<1>1. CASE ss = <<>>
  BY <1>1, FlattenEmpty, EmptySeq
<1>2. CASE ss # <<>>
  <2>1. PICK g : FlattensTo(ss, g, Len(ss)) /\ FlattenSeq(ss) = g[Len(ss)]
    BY <1>2, FlattenUnfolds
  <2>2. Len(ss) \in Nat /\ Len(ss) # 0
    BY <1>2, EmptySeq
  <2>3. \A i \in 1..Len(ss) : g[i] \in Seq(S)
    BY <2>1, <2>2, FlattensTyped
  <2> QED BY <2>1, <2>2, <2>3
<1> QED
  BY <1>1, <1>2

LEMMA FlattenAppend ==
  ASSUME NEW S, NEW ss \in Seq(Seq(S)), NEW s \in Seq(S)
  PROVE  FlattenSeq(Append(ss, s)) = FlattenSeq(ss) \o s
<1> DEFINE tt == Append(ss, s)
<1>1. /\ tt \in Seq(Seq(S)) /\ tt # <<>> /\ Len(tt) = Len(ss) + 1 /\ Len(ss) \in Nat
      /\ \A i \in 1..Len(ss) : tt[i] = ss[i]
      /\ tt[Len(ss) + 1] = s
  BY AppendProperties
<1> HIDE DEF tt
<1>2. PICK h : FlattensTo(tt, h, Len(tt)) /\ FlattenSeq(tt) = h[Len(tt)]
  BY <1>1, FlattenUnfolds
<1>3. h[Len(tt)] = IF Len(tt) = 1 THEN s ELSE h[Len(ss)] \o s
  <2>1. Len(tt) \in Nat /\ Len(tt) \in 1..Len(tt)
    BY <1>1
  <2>2. h[Len(tt)] = IF Len(tt) = 1 THEN tt[Len(tt)] ELSE h[Len(tt) - 1] \o tt[Len(tt)]
    BY <1>2, <2>1, FlattensStep
  <2>3. Len(tt) - 1 = Len(ss)
    BY <1>1
  <2> QED BY <1>1, <2>2, <2>3
<1>4. CASE ss = <<>>
  <2>1. Len(tt) = 1 /\ FlattenSeq(ss) = <<>>
    BY <1>1, <1>4, FlattenEmpty
  <2>2. <<>> \o s = s
    BY ConcatEmptySeq
  <2> QED BY <1>2, <1>3, <2>1, <2>2 DEF tt
<1>5. CASE ss # <<>>
  <2>1. PICK g : FlattensTo(ss, g, Len(ss)) /\ FlattenSeq(ss) = g[Len(ss)]
    BY <1>5, FlattenUnfolds
  <2>2. Len(ss) # 0
    BY <1>5, EmptySeq
  <2>3. g[Len(ss)] = h[Len(ss)]
    <3>1. Len(ss) <= Len(tt) /\ Len(tt) \in Nat
      BY <1>1
    <3>2. Len(ss) <= Len(ss) /\ \A i \in 1..Len(ss) : ss[i] = tt[i]
      BY <1>1
    <3>3. \A i \in 1..Len(ss) : g[i] = h[i]
      <4> DEFINE n == Len(ss)
                 m == Len(tt)
      <4>1. FlattensTo(ss, g, n) /\ FlattensTo(tt, h, m) /\ n \in Nat /\ m \in Nat /\ n <= m
        BY <1>1, <1>2, <2>1, <3>1
      <4>2. AlikeTo(ss, tt, n)
        BY <3>2 DEF AlikeTo
      <4> HIDE DEF n, m
      <4>3. AlikeTo(g, h, n)
        BY <4>1, <4>2, FlattensAlike
      <4> QED BY <4>3 DEF n, AlikeTo
    <3> QED BY <1>1, <2>2, <3>3
  <2> QED BY <1>1, <1>2, <1>3, <2>1, <2>2, <2>3 DEF tt
<1> QED
  BY <1>4, <1>5

-----------------------------------------------------------------------------
(* The bytes of members one after the other.                               *)

Cell == (Nat \ {0}) \X (Nat \ {0})
Member == [tag : {"narrow", "wide", "none", "unknown"}, decodes : BOOLEAN, bytes : Seq(Nat)]

LEMMA PlacedIsSeq ==
  ASSUME NEW p \in Seq(Member), NEW i \in 1..Len(p)
  PROVE  /\ Placed(p, i) \in Seq(Cell)
         /\ Len(Placed(p, i)) = Len(p[i].bytes)
         /\ Len(p[i].bytes) \in Nat
         /\ \A k \in 1..Len(p[i].bytes) : Placed(p, i)[k] = <<i, k>>
<1>1. p[i] \in Member
  BY ElementOfSeq
<1>2. p[i].bytes \in Seq(Nat)
  BY <1>1 DEF Member
<1>3. DOMAIN p[i].bytes = 1..Len(p[i].bytes) /\ Len(p[i].bytes) \in Nat
  BY <1>2, LenProperties
<1>4. Placed(p, i) = [k \in 1..Len(p[i].bytes) |-> <<i, k>>]
  BY <1>3 DEF Placed
<1>5. \A k \in 1..Len(p[i].bytes) : <<i, k>> \in Cell
  BY <1>3 DEF Cell
<1>6. Placed(p, i) \in [1..Len(p[i].bytes) -> Cell]
  BY <1>4, <1>5
<1> QED
  BY <1>3, <1>4, <1>6

LEMMA StretchIsSeq ==
  ASSUME NEW p \in Seq(Member), NEW i \in 1..(Len(p) + 1), NEW j \in (i - 1)..Len(p)
  PROVE  /\ [n \in 1..(j - i + 1) |-> Placed(p, i + n - 1)] \in Seq(Seq(Cell))
         /\ StretchOf(p, i, j) \in Seq(Cell)
         /\ Len(StretchOf(p, i, j)) \in Nat
<1> DEFINE ss == [n \in 1..(j - i + 1) |-> Placed(p, i + n - 1)]
<1>1. j - i + 1 \in Nat /\ Len(p) \in Nat
  OBVIOUS
<1>2. \A n \in 1..(j - i + 1) : Placed(p, i + n - 1) \in Seq(Cell)
  <2> TAKE n \in 1..(j - i + 1)
  <2>1. i + n - 1 \in 1..Len(p)
    BY <1>1
  <2> QED BY <2>1, PlacedIsSeq
<1>3. ss \in [1..(j - i + 1) -> Seq(Cell)]
  BY <1>2
<1>4. ss \in Seq(Seq(Cell))
  <2> DEFINE m == j - i + 1
  <2>1. m \in Nat /\ ss \in [1..m -> Seq(Cell)]
    BY <1>1, <1>3
  <2> HIDE DEF ss, m
  <2> QED BY <2>1, SeqDef
<1>5. FlattenSeq(ss) \in Seq(Cell)
  <2> HIDE DEF ss
  <2> QED BY <1>4, FlattenIsSeq
<1>6. StretchOf(p, i, j) \in Seq(Cell)
  BY <1>5 DEF StretchOf
<1> QED
  BY <1>4, <1>6, LenProperties

LEMMA StretchOfNone ==
  ASSUME NEW p \in Seq(Member), NEW i \in 1..(Len(p) + 1)
  PROVE  StretchOf(p, i, i - 1) = <<>>
<1>1. i - 1 - i + 1 = 0
  OBVIOUS
<1>2. [n \in 1..(i - 1 - i + 1) |-> Placed(p, i + n - 1)] = <<>>
  BY <1>1
<1> QED
  BY <1>2, FlattenEmpty DEF StretchOf

LEMMA StretchStep ==
  ASSUME NEW p \in Seq(Member), NEW i \in 1..Len(p), NEW j \in i..Len(p)
  PROVE  StretchOf(p, i, j) = StretchOf(p, i, j - 1) \o Placed(p, j)
<1> DEFINE ss == [n \in 1..(j - i + 1) |-> Placed(p, i + n - 1)]
           tt == [n \in 1..(j - 1 - i + 1) |-> Placed(p, i + n - 1)]
<1>1. /\ i \in 1..(Len(p) + 1) /\ j \in (i - 1)..Len(p) /\ j - 1 \in (i - 1)..Len(p)
      /\ j \in 1..Len(p) /\ Len(p) \in Nat
  OBVIOUS
<1>2. ss \in Seq(Seq(Cell)) /\ tt \in Seq(Seq(Cell)) /\ Placed(p, j) \in Seq(Cell)
  <2> HIDE DEF ss, tt
  <2>1. ss \in Seq(Seq(Cell))
    BY <1>1, StretchIsSeq DEF ss
  <2>2. tt \in Seq(Seq(Cell))
    BY <1>1, StretchIsSeq DEF tt
  <2> QED BY <1>1, <2>1, <2>2, PlacedIsSeq
<1>3. Len(ss) = j - i + 1 /\ Len(tt) = j - i
  BY <1>1
<1>4. \A n \in 1..(j - i) : ss[n] = tt[n]
  BY <1>1
<1>5. ss[j - i + 1] = Placed(p, j)
  <2>1. j - i + 1 \in 1..(j - i + 1) /\ i + (j - i + 1) - 1 = j
    BY <1>1
  <2> QED BY <2>1
<1>6. ss = Append(tt, Placed(p, j))
  <2> DEFINE a == Placed(p, j)
             uu == Append(tt, a)
  <2> HIDE DEF ss, tt, a
  <2>1. /\ uu \in Seq(Seq(Cell)) /\ Len(uu) = Len(tt) + 1
        /\ \A n \in 1..Len(tt) : uu[n] = tt[n]
        /\ uu[Len(tt) + 1] = a
    BY <1>2, AppendProperties DEF a
  <2> HIDE DEF uu
  <2>2. Len(ss) = Len(uu)
    BY <1>1, <1>3, <2>1
  <2>3. \A n \in 1..Len(ss) : ss[n] = uu[n]
    BY <1>1, <1>3, <1>4, <1>5, <2>1, SMTT(30) DEF a
  <2>4. ss = uu
    BY <1>2, <2>1, <2>2, <2>3, SeqEqual
  <2> QED BY <2>4 DEF uu, a
<1>7. FlattenSeq(ss) = FlattenSeq(tt) \o Placed(p, j)
  <2> HIDE DEF ss, tt
  <2> QED BY <1>2, <1>6, FlattenAppend
<1> QED
  BY <1>7 DEF StretchOf

LEMMA CellsAssociate ==
  ASSUME NEW a \in Seq(Cell), NEW b \in Seq(Cell), NEW c \in Seq(Cell)
  PROVE  (a \o b) \o c = a \o (b \o c)
BY ConcatAssociative

\* A stretch is the one up to a member and the one after it.
LEMMA StretchSplit ==
  ASSUME NEW p \in Seq(Member), NEW i \in 1..(Len(p) + 1),
         NEW k \in (i - 1)..Len(p), NEW j \in k..Len(p)
  PROVE  StretchOf(p, i, j) = StretchOf(p, i, k) \o StretchOf(p, k + 1, j)
<1> DEFINE N == {n \in Nat : n \in k..Len(p) =>
                   StretchOf(p, i, n) = StretchOf(p, i, k) \o StretchOf(p, k + 1, n)}
<1>0. Len(p) \in Nat /\ k \in Nat /\ k + 1 \in 1..(Len(p) + 1) /\ i \in Nat
  OBVIOUS
<1>1. ASSUME NEW n \in Nat, \A m \in 0..(n - 1) : m \in N PROVE n \in N
  <2> SUFFICES ASSUME n \in k..Len(p)
               PROVE  StretchOf(p, i, n) = StretchOf(p, i, k) \o StretchOf(p, k + 1, n)
    OBVIOUS
  <2>1. CASE n = k
    <3>1. StretchOf(p, k + 1, k + 1 - 1) = <<>> /\ k + 1 - 1 = k
      BY <1>0, StretchOfNone
    <3>2. StretchOf(p, i, k) \in Seq(Cell)
      BY StretchIsSeq
    <3> QED BY <2>1, <3>1, <3>2, ConcatEmptySeq
  <2>2. CASE n # k
    <3>1. n - 1 \in N
      <4> HIDE DEF N
      <4> QED BY <1>0, <1>1, <2>2
    <3>2. StretchOf(p, i, n - 1) = StretchOf(p, i, k) \o StretchOf(p, k + 1, n - 1)
      BY <1>0, <2>2, <3>1
    <3> HIDE DEF N
    <3>3. i \in 1..Len(p) /\ n \in i..Len(p) /\ k + 1 \in 1..Len(p) /\ n \in (k + 1)..Len(p)
      BY <1>0, <2>2
    <3>4. /\ StretchOf(p, i, n) = StretchOf(p, i, n - 1) \o Placed(p, n)
          /\ StretchOf(p, k + 1, n) = StretchOf(p, k + 1, n - 1) \o Placed(p, n)
      BY <3>3, StretchStep
    <3>5. StretchOf(p, k + 1, n - 1) \in Seq(Cell) /\ StretchOf(p, i, k) \in Seq(Cell) /\ Placed(p, n) \in Seq(Cell)
      <4>1. k + 1 \in 1..(Len(p) + 1) /\ n - 1 \in ((k + 1) - 1)..Len(p) /\ n \in 1..Len(p)
        BY <1>0, <2>2
      <4>2. StretchOf(p, k + 1, n - 1) \in Seq(Cell)
        BY <4>1, StretchIsSeq
      <4>3. StretchOf(p, i, k) \in Seq(Cell)
        BY StretchIsSeq
      <4>4. Placed(p, n) \in Seq(Cell)
        BY <4>1, PlacedIsSeq
      <4> QED BY <4>2, <4>3, <4>4
    <3> DEFINE a == StretchOf(p, i, k)
               b == StretchOf(p, k + 1, n - 1)
               c == Placed(p, n)
    <3>6. a \in Seq(Cell) /\ b \in Seq(Cell) /\ c \in Seq(Cell)
      BY <3>5
    <3>7. StretchOf(p, i, n) = (a \o b) \o c /\ StretchOf(p, k + 1, n) = b \o c
      BY <3>2, <3>4
    <3> HIDE DEF a, b, c
    <3>8. (a \o b) \o c = a \o (b \o c)
      BY <3>6, CellsAssociate
    <3>9. StretchOf(p, i, n) = a \o StretchOf(p, k + 1, n)
      BY <3>7, <3>8
    <3> QED BY <3>9 DEF a
  <2> QED BY <2>1, <2>2
<1>2. Nat \subseteq N
  <2> HIDE DEF N
  <2> QED BY <1>1, Induction
<1> QED
  BY <1>0, <1>2

-----------------------------------------------------------------------------
(* The plain walk.                                                         *)

Start == [carry |-> 0, shown |-> <<>>]

\* The recursion of the plain walk goes through.
LEMMA PlainUnfolds ==
  ASSUME NEW p, NEW n, Len(p) \in Nat
  PROVE  /\ PlainUpTo(p, n)[0] = Start
         /\ \A m \in 1..Len(p) :
              PlainUpTo(p, n)[m] = PlainNext(p, n, m, PlainUpTo(p, n)[m - 1])
<1> DEFINE Walks(g, k) ==
             g = [m \in 0..k |-> IF m = 0 THEN Start ELSE PlainNext(p, n, m, g[m - 1])]
           N == {k \in Nat : \E g : Walks(g, k)}
<1>1. ASSUME NEW k \in Nat, \A m \in 0..(k - 1) : m \in N PROVE k \in N
  <2>1. CASE k = 0
    <3> DEFINE g == [m \in 0..0 |-> Start]
    <3>1. Walks(g, 0)
      OBVIOUS
    <3> QED BY <2>1, <3>1
  <2>2. CASE k # 0
    <3>1. k - 1 \in N
      <4> HIDE DEF N
      <4> QED BY <1>1, <2>2
    <3>2. PICK g : Walks(g, k - 1)
      <4> HIDE DEF Walks
      <4> QED BY <3>1
    <3> DEFINE h == [m \in 0..k |-> IF m = k THEN PlainNext(p, n, k, g[k - 1]) ELSE g[m]]
    <3>3. Walks(h, k)
      BY <2>2, <3>2
    <3> QED BY <3>3
  <2> QED BY <2>1, <2>2
<1>2. Nat \subseteq N
  <2> HIDE DEF N
  <2> QED BY <1>1, Induction
<1>3. \E g : Walks(g, Len(p))
  BY <1>2
<1>4. Walks(PlainUpTo(p, n), Len(p))
  BY <1>3 DEF PlainUpTo, Start
<1> QED
  BY <1>4

\* What is shown of a member where the members before it leave some bytes owing.
Entry(p, n, m) ==
    LET carried == PlainUpTo(p, n)[m - 1].carry
    IN  [part |-> n, member |-> m,
         records |-> Records(p[m].bytes, p[m].tag, carried),
         payload |-> Placed(p, m)
                       \o SpilledTail(p, m, TrailingDeficit(p[m].bytes, p[m].tag, carried))]

\* What may be shown of these partitions.
Shown(ps) == {Entry(ps[n], n, m) : n \in Nat, m \in Nat}

\* What is shown grows by nothing or by one entry.
LEMMA PlainGrows ==
  ASSUME NEW ps, NEW n \in Nat, Len(ps[n]) \in Nat, NEW m \in 1..Len(ps[n]),
         PlainUpTo(ps[n], n)[m - 1].shown \in Seq(Shown(ps))
  PROVE  \/ PlainUpTo(ps[n], n)[m].shown = PlainUpTo(ps[n], n)[m - 1].shown
         \/ PlainUpTo(ps[n], n)[m].shown
              = PlainUpTo(ps[n], n)[m - 1].shown \o <<Entry(ps[n], n, m)>>
<1> DEFINE p == ps[n]
           before == PlainUpTo(p, n)[m - 1]
           after  == PlainUpTo(p, n)[m]
           bytes  == p[m].bytes
<1>1. after = PlainNext(p, n, m, before)
  BY PlainUnfolds
<1>2. CASE ~Known(p[m]) \/ TruncatedHeader \in Range(Records(bytes, p[m].tag, before.carry))
  <2>1. after = [carry |-> 0, shown |-> before.shown]
    BY <1>1, <1>2 DEF PlainNext
  <2> QED BY <2>1
<1>3. CASE ~(~Known(p[m]) \/ TruncatedHeader \in Range(Records(bytes, p[m].tag, before.carry)))
  <2>1. after.shown = Append(before.shown, Entry(p, n, m))
    <3> DEFINE d == TrailingDeficit(bytes, p[m].tag, before.carry)
    <3>1. after = [carry |-> d, shown |-> Append(before.shown, Entry(p, n, m))]
      BY <1>1, <1>3, ZenonT(30) DEF PlainNext, Entry
    <3> HIDE DEF d, after, before
    <3> QED BY <3>1
  <2>2. Entry(p, n, m) \in Shown(ps)
    <3>1. m \in Nat /\ Entry(ps[n], n, m) \in Shown(ps)
      BY DEF Shown
    <3> QED BY <3>1
  <2> DEFINE s == before.shown
             e == Entry(p, n, m)
  <2>3. s \in Seq(Shown(ps)) /\ e \in Shown(ps)
    BY <2>2
  <2>4. Append(s, e) = s \o <<e>>
    <3> HIDE DEF s, e
    <3> QED BY <2>3, AppendIsConcat
  <2> QED BY <2>1, <2>4
<1> QED
  BY <1>2, <1>3

-----------------------------------------------------------------------------
(* Beginnings of sequences.                                                *)

Begins(S, s, t) == s \in Seq(S) /\ \E r \in Seq(S) : t = s \o r

LEMMA BeginsIsPrefix ==
  ASSUME NEW S, NEW s, NEW t, Begins(S, s, t)
  PROVE  t \in Seq(S) /\ IsPrefix(s, t)
<1>1. PICK r \in Seq(S) : t = s \o r
  BY DEF Begins
<1>2. s \in Seq(S)
  BY DEF Begins
<1>3. /\ t \in Seq(S) /\ Len(t) = Len(s) + Len(r)
      /\ \A i \in 1..(Len(s) + Len(r)) : t[i] = IF i <= Len(s) THEN s[i] ELSE r[i - Len(s)]
  BY <1>1, <1>2, ConcatProperties
<1>4. Len(s) \in Nat /\ Len(r) \in Nat
  BY <1>2, LenProperties
<1>5. SubSeq(s, 1, Len(s)) = s
  BY <1>2, SubSeqFull
<1>6. SubSeq(t, 1, Len(s)) = s
  <2>1. SubSeq(t, 1, Len(s)) = [i \in 1..Len(s) |-> t[i]]
    BY <1>3, <1>4
  <2>2. s = [i \in 1..Len(s) |-> s[i]]
    BY <1>2, LenProperties
  <2>3. \A i \in 1..Len(s) : t[i] = s[i]
    BY <1>3, <1>4
  <2> QED BY <2>1, <2>2, <2>3
<1> QED
  BY <1>3, <1>4, <1>5, <1>6 DEF IsPrefix

LEMMA BeginsItself ==
  ASSUME NEW S, NEW s \in Seq(S)
  PROVE  Begins(S, s, s)
<1>1. s \o <<>> = s /\ <<>> \in Seq(S)
  BY ConcatEmptySeq, EmptySeq
<1> QED
  BY <1>1 DEF Begins

LEMMA BeginsFurther ==
  ASSUME NEW S, NEW s, NEW t, Begins(S, s, t), NEW r \in Seq(S)
  PROVE  Begins(S, s, t \o r)
<1>1. PICK q \in Seq(S) : t = s \o q
  BY DEF Begins
<1>2. s \in Seq(S)
  BY DEF Begins
<1>3. (s \o q) \o r = s \o (q \o r) /\ q \o r \in Seq(S)
  BY <1>2, ConcatAssociative, ConcatProperties, SMTT(30)
<1> QED
  BY <1>1, <1>2, <1>3 DEF Begins

LEMMA BeginsAfter ==
  ASSUME NEW S, NEW s, NEW t, Begins(S, s, t), NEW a \in Seq(S)
  PROVE  Begins(S, a \o s, a \o t)
<1>1. PICK q \in Seq(S) : t = s \o q
  BY DEF Begins
<1>2. s \in Seq(S)
  BY DEF Begins
<1>3. (a \o s) \o q = a \o (s \o q) /\ a \o s \in Seq(S)
  BY <1>2, ConcatAssociative, ConcatProperties
<1> QED
  BY <1>1, <1>3 DEF Begins

\* What was shown of the first members begins what is shown of more of them.
LEMMA PlainBegins ==
  ASSUME NEW ps, NEW n \in Nat, NEW p, p = ps[n], Len(p) \in Nat, NEW k \in 0..Len(p)
  PROVE  /\ PlainUpTo(p, n)[k].shown \in Seq(Shown(ps))
         /\ Begins(Shown(ps), PlainUpTo(p, n)[k].shown, Plain(p, n))
<1> DEFINE f(m) == PlainUpTo(p, n)[m].shown
           T == {m \in Nat : m <= Len(p) => f(m) \in Seq(Shown(ps))}
           B == {m \in Nat : k <= m /\ m <= Len(p) => Begins(Shown(ps), f(k), f(m))}
<1>1. ASSUME NEW m \in 1..Len(p), f(m - 1) \in Seq(Shown(ps))
      PROVE  f(m) = f(m - 1) \/ \E e \in Shown(ps) : f(m) = f(m - 1) \o <<e>>
  <2>1. f(m) = f(m - 1) \/ f(m) = f(m - 1) \o <<Entry(p, n, m)>>
    <3>1. PlainUpTo(p, n)[m - 1].shown \in Seq(Shown(ps))
      BY <1>1
    <3>2. \/ PlainUpTo(ps[n], n)[m].shown = PlainUpTo(ps[n], n)[m - 1].shown
          \/ PlainUpTo(ps[n], n)[m].shown
               = PlainUpTo(ps[n], n)[m - 1].shown \o <<Entry(ps[n], n, m)>>
      BY <3>1, PlainGrows
    <3> QED BY <3>2
  <2>2. Entry(p, n, m) \in Shown(ps)
    <3>1. m \in Nat /\ Entry(ps[n], n, m) \in Shown(ps)
      BY DEF Shown
    <3> QED BY <3>1
  <2> QED BY <2>1, <2>2
<1> HIDE DEF f
<1>2. Nat \subseteq T
  <2>1. ASSUME NEW m \in Nat, \A j \in 0..(m - 1) : j \in T PROVE m \in T
    <3>1. CASE m = 0
      <4>1. f(0) = <<>>
        BY PlainUnfolds DEF f, Start
      <4> QED BY <3>1, <4>1, EmptySeq
    <3>2. CASE m # 0
      <4>1. m - 1 \in T
        <5> HIDE DEF T
        <5> QED BY <2>1, <3>2
      <4>2. ASSUME m <= Len(p) PROVE f(m) \in Seq(Shown(ps))
        <5>1. m \in 1..Len(p) /\ f(m - 1) \in Seq(Shown(ps))
          BY <3>2, <4>1, <4>2
        <5>2. CASE f(m) = f(m - 1)
          BY <5>1, <5>2
        <5>3. ASSUME NEW e \in Shown(ps), f(m) = f(m - 1) \o <<e>> PROVE f(m) \in Seq(Shown(ps))
          <6>1. <<e>> \in Seq(Shown(ps))
            OBVIOUS
          <6> QED BY <5>1, <5>3, <6>1, ConcatProperties
        <5> QED BY <1>1, <5>1, <5>2, <5>3
      <4> QED BY <4>2
    <3> QED BY <3>1, <3>2
  <2> HIDE DEF T
  <2> QED BY <2>1, Induction
<1>3. Nat \subseteq B
  <2>1. ASSUME NEW m \in Nat, \A j \in 0..(m - 1) : j \in B PROVE m \in B
    <3> SUFFICES ASSUME k <= m, m <= Len(p) PROVE Begins(Shown(ps), f(k), f(m))
      OBVIOUS
    <3>1. CASE m = k
      BY <1>2, <3>1, BeginsItself
    <3>2. CASE m # k
      <4>1. m - 1 \in B
        <5> HIDE DEF B
        <5> QED BY <2>1, <3>2
      <4>2. m \in 1..Len(p) /\ m - 1 \in Nat /\ k <= m - 1
        BY <3>2
      <4>3. Begins(Shown(ps), f(k), f(m - 1)) /\ f(m - 1) \in Seq(Shown(ps))
        BY <1>2, <4>1, <4>2
      <4>4. ASSUME NEW e \in Shown(ps), f(m) = f(m - 1) \o <<e>>
            PROVE  Begins(Shown(ps), f(k), f(m))
        <5>1. <<e>> \in Seq(Shown(ps))
          OBVIOUS
        <5> QED BY <4>3, <4>4, <5>1, BeginsFurther
      <4> QED BY <1>1, <4>2, <4>3, <4>4
    <3> QED BY <3>1, <3>2
  <2> HIDE DEF B
  <2> QED BY <2>1, Induction
<1>4. f(k) \in Seq(Shown(ps)) /\ Begins(Shown(ps), f(k), f(Len(p)))
  BY <1>2, <1>3
<1> QED
  BY <1>4 DEF f, Plain

-----------------------------------------------------------------------------
(* All partitions.                                                         *)

ReadUpTo(ps, k) == FlattenSeq([n \in 1..k |-> Plain(ps[n], n)])

\* What is input: sequences of partitions, which are sequences of members.
LEMMA InputsAre ==
  ASSUME NEW ps \in Inputs
  PROVE  /\ ps \in Seq(Seq(Member)) /\ Len(ps) \in Nat /\ DOMAIN ps = 1..Len(ps)
         /\ \A n \in 1..Len(ps) : ps[n] \in Seq(Member) /\ Len(ps[n]) \in Nat /\ DOMAIN ps[n] = 1..Len(ps[n])
<1>1. ps \in Seq(Seq(Member))
  BY InputsAssumption DEF Member
<1>2. \A n \in 1..Len(ps) : ps[n] \in Seq(Member)
  BY <1>1, ElementOfSeq
<1> QED
  BY <1>1, <1>2, LenProperties

LEMMA PlainIsSeq ==
  ASSUME NEW ps \in Inputs, NEW n \in 1..Len(ps)
  PROVE  Plain(ps[n], n) \in Seq(Shown(ps))
<1>1. Len(ps[n]) \in Nat /\ n \in Nat
  BY InputsAre
<1> DEFINE p == ps[n]
<1>2. p = ps[n] /\ Len(p) \in 0..Len(p) /\ Len(p) \in Nat
  BY <1>1
<1> HIDE DEF p
<1>3. PlainUpTo(p, n)[Len(p)].shown \in Seq(Shown(ps))
  BY <1>1, <1>2, PlainBegins
<1> QED
  BY <1>3 DEF p, Plain

LEMMA PlainsAreSeq ==
  ASSUME NEW ps \in Inputs, NEW k \in 0..Len(ps)
  PROVE  /\ [n \in 1..k |-> Plain(ps[n], n)] \in Seq(Seq(Shown(ps)))
         /\ Len([n \in 1..k |-> Plain(ps[n], n)]) = k
         /\ ReadUpTo(ps, k) \in Seq(Shown(ps))
<1> DEFINE ss == [n \in 1..k |-> Plain(ps[n], n)]
           S == Seq(Shown(ps))
<1>1. \A n \in 1..k : Plain(ps[n], n) \in S
  <2> TAKE n \in 1..k
  <2>1. n \in 1..Len(ps)
    BY InputsAre
  <2> QED BY <2>1, PlainIsSeq
<1>2. ss \in [1..k -> S]
  <2> HIDE DEF S
  <2> QED BY <1>1
<1>3. ss \in Seq(S) /\ Len(ss) = k
  <2>1. k \in Nat
    BY InputsAre
  <2>2. Len(ss) = k
    <3> HIDE DEF S
    <3> QED BY <2>1
  <2> HIDE DEF ss, S
  <2>3. ss \in Seq(S)
    BY <1>2, <2>1, SeqDef
  <2> QED BY <2>2, <2>3
<1>4. FlattenSeq(ss) \in S
  <2> HIDE DEF ss
  <2> QED BY <1>3, FlattenIsSeq
<1> QED
  BY <1>3, <1>4 DEF ReadUpTo

LEMMA ReadStep ==
  ASSUME NEW ps \in Inputs
  PROVE  /\ ReadUpTo(ps, 0) = <<>>
         /\ \A k \in 1..Len(ps) : ReadUpTo(ps, k) = ReadUpTo(ps, k - 1) \o Plain(ps[k], k)
<1>1. ReadUpTo(ps, 0) = <<>>
  <2>1. [n \in 1..0 |-> Plain(ps[n], n)] = <<>>
    OBVIOUS
  <2> QED BY <2>1, FlattenEmpty DEF ReadUpTo
<1>2. ASSUME NEW k \in 1..Len(ps) PROVE ReadUpTo(ps, k) = ReadUpTo(ps, k - 1) \o Plain(ps[k], k)
  <2> DEFINE ss == [n \in 1..k |-> Plain(ps[n], n)]
             tt == [n \in 1..(k - 1) |-> Plain(ps[n], n)]
             last == Plain(ps[k], k)
             S == Seq(Shown(ps))
             uu == Append(tt, last)
  <2>0. k \in 0..Len(ps) /\ k - 1 \in 0..Len(ps) /\ k \in Nat
    BY InputsAre
  <2>1. ss \in Seq(S) /\ Len(ss) = k
    <3> HIDE DEF ss
    <3> QED BY <2>0, PlainsAreSeq DEF ss
  <2>2. tt \in Seq(S) /\ Len(tt) = k - 1
    <3> HIDE DEF tt
    <3> QED BY <2>0, PlainsAreSeq DEF tt
  <2>3. last \in S
    BY PlainIsSeq
  <2>4. /\ uu \in Seq(S) /\ Len(uu) = k
        /\ \A n \in 1..(k - 1) : uu[n] = tt[n]
        /\ uu[k] = last
    <3> HIDE DEF tt, last, S
    <3>1. /\ uu \in Seq(S) /\ Len(uu) = Len(tt) + 1
          /\ \A n \in 1..Len(tt) : uu[n] = tt[n]
          /\ uu[Len(tt) + 1] = last
      BY <2>2, <2>3, AppendProperties
    <3>2. Len(tt) + 1 = k
      BY <2>0, <2>2
    <3> HIDE DEF uu
    <3> QED BY <2>2, <3>1, <3>2
  <2>5. \A n \in 1..k : ss[n] = uu[n]
    <3> TAKE n \in 1..k
    <3>1. CASE n = k
      <4>1. ss[k] = last
        BY <2>0
      <4> HIDE DEF uu
      <4> QED BY <2>4, <3>1, <4>1
    <3>2. CASE n # k
      <4>1. n \in 1..(k - 1)
        BY <2>0, <3>2
      <4>2. ss[n] = tt[n]
        BY <4>1
      <4> HIDE DEF uu, tt
      <4> QED BY <2>4, <4>1, <4>2
    <3> QED BY <3>1, <3>2
  <2>6. ss = uu
    <3> HIDE DEF ss, uu, S
    <3> QED BY <2>1, <2>4, <2>5, SeqEqual
  <2>7. FlattenSeq(uu) = FlattenSeq(tt) \o last
    <3> HIDE DEF tt, last
    <3> QED BY <2>2, <2>3, FlattenAppend
  <2> QED BY <2>6, <2>7 DEF ReadUpTo
<1> QED
  BY <1>1, <1>2

\* What was read of the first partitions begins what is read of all.
LEMMA ReadBegins ==
  ASSUME NEW ps \in Inputs, NEW k \in 0..Len(ps)
  PROVE  Begins(Shown(ps), ReadUpTo(ps, k), ReadUpTo(ps, Len(ps)))
<1> DEFINE B == {m \in Nat : k <= m /\ m <= Len(ps) => Begins(Shown(ps), ReadUpTo(ps, k), ReadUpTo(ps, m))}
<1>0. Len(ps) \in Nat /\ k \in Nat
  BY InputsAre
<1>1. ASSUME NEW m \in Nat, \A j \in 0..(m - 1) : j \in B PROVE m \in B
  <2> SUFFICES ASSUME k <= m, m <= Len(ps) PROVE Begins(Shown(ps), ReadUpTo(ps, k), ReadUpTo(ps, m))
    OBVIOUS
  <2>1. CASE m = k
    <3>1. ReadUpTo(ps, k) \in Seq(Shown(ps))
      BY PlainsAreSeq
    <3> QED BY <2>1, <3>1, BeginsItself
  <2>2. CASE m # k
    <3>1. m - 1 \in B
      <4> HIDE DEF B
      <4> QED BY <1>0, <1>1, <2>2
    <3>2. m \in 1..Len(ps) /\ m - 1 \in Nat /\ k <= m - 1 /\ m - 1 <= Len(ps)
      BY <1>0, <2>2
    <3>3. Begins(Shown(ps), ReadUpTo(ps, k), ReadUpTo(ps, m - 1))
      BY <3>1, <3>2
    <3> HIDE DEF B
    <3>4. ReadUpTo(ps, m) = ReadUpTo(ps, m - 1) \o Plain(ps[m], m)
      BY <3>2, ReadStep
    <3>5. Plain(ps[m], m) \in Seq(Shown(ps))
      BY <3>2, PlainIsSeq
    <3>6. Begins(Shown(ps), ReadUpTo(ps, k), ReadUpTo(ps, m - 1) \o Plain(ps[m], m))
      BY <3>3, <3>5, BeginsFurther
    <3> QED BY <3>4, <3>6
  <2> QED BY <2>1, <2>2
<1>2. Nat \subseteq B
  <2> HIDE DEF B
  <2> QED BY <1>1, Induction
<1> QED
  BY <1>0, <1>2

\* A walk that has come to some member of some partition has shown a
\* beginning of what there is.
LEMMA WalkBegins ==
  ASSUME NEW ps \in Inputs, NEW n \in 1..Len(ps), NEW k \in 0..Len(ps[n])
  PROVE  /\ Begins(Shown(ps), ReadUpTo(ps, n - 1) \o PlainUpTo(ps[n], n)[k].shown,
                   ReadUpTo(ps, Len(ps)))
<1> DEFINE p == ps[n]
           before == ReadUpTo(ps, n - 1)
           shown == PlainUpTo(p, n)[k].shown
           all == Plain(p, n)
           S == Shown(ps)
<1>1. n \in Nat /\ Len(ps[n]) \in Nat /\ Len(ps) \in Nat /\ n - 1 \in 0..Len(ps) /\ n \in 0..Len(ps)
  BY InputsAre
<1>2. Begins(S, shown, all)
  <2>1. p = ps[n] /\ Len(p) \in Nat /\ k \in 0..Len(p)
    BY <1>1
  <2> HIDE DEF p
  <2> QED BY <1>1, <2>1, PlainBegins
<1>3. before \in Seq(S)
  BY <1>1, PlainsAreSeq
<1>4. Begins(S, before \o shown, before \o all)
  <2> HIDE DEF before, shown, all, S
  <2> QED BY <1>2, <1>3, BeginsAfter
<1>5. before \o all = ReadUpTo(ps, n)
  BY ReadStep
<1>6. Begins(S, ReadUpTo(ps, n), ReadUpTo(ps, Len(ps)))
  BY <1>1, ReadBegins
<1>7. PICK r \in Seq(S) : ReadUpTo(ps, Len(ps)) = ReadUpTo(ps, n) \o r
  BY <1>6 DEF Begins
<1>8. Begins(S, before \o shown, ReadUpTo(ps, n) \o r)
  <2> HIDE DEF before, shown, all, S
  <2> QED BY <1>4, <1>5, BeginsFurther
<1> QED
  BY <1>7, <1>8

-----------------------------------------------------------------------------
(* Where a reading is.                                                     *)

Walking == phase \in {"batching", "resolving"}

Position ==
    /\ partitions \in Inputs
    /\ phase \in {"opening", "batching", "resolving", "done", "failed"}
    /\ part \in 1..(Len(partitions) + 1)
    /\ at \in Nat /\ upto \in Nat
    /\ Walking => part <= Len(partitions) /\ at <= Len(Members)
    /\ phase = "resolving" => at <= upto /\ upto <= Len(Members)
    /\ phase = "done" => part > Len(partitions)

LEMMA InitPosition == Init => Position
<1> SUFFICES ASSUME Init PROVE Position
  OBVIOUS
<1>1. partitions \in Inputs /\ part = 1 /\ at = 0 /\ upto = 0 /\ phase = "opening"
  BY DEF Init
<1>2. Len(partitions) \in Nat
  BY <1>1, InputsAre
<1> QED
  BY <1>1, <1>2 DEF Position, Walking

LEMMA NextPosition == Position /\ [Next]_vars => Position'
<1> SUFFICES ASSUME Position, [Next]_vars PROVE Position'
  OBVIOUS
<1>0. /\ partitions' = partitions /\ Len(partitions) \in Nat
      /\ part <= Len(partitions) => Len(Members) \in Nat
  <2>1. partitions' = partitions
    BY DEF Next, vars, OpenPartition, InventoryFails, Fail, PrepareMembers, ClosePartition,
           Skip, ResolveNothing, Resolve, ResolveFails, VisitBatch
  <2>2. part <= Len(partitions) => part \in 1..Len(partitions)
    BY InputsAre DEF Position
  <2> QED BY <2>1, <2>2, InputsAre DEF Position, Members
<1>1. CASE OpenPartition
  <2>1. CASE part > Len(partitions) /\ phase' = "done" /\ UNCHANGED <<part, at, upto>>
    BY <1>0, <2>1 DEF Position, Walking
  <2>2. CASE part <= Len(partitions) /\ phase' = "batching" /\ UNCHANGED part /\ at' = 0 /\ upto' = 0
    <3>1. Members' = Members
      BY <1>0, <2>2 DEF Members
    <3> QED BY <1>0, <2>2, <3>1 DEF Position, Walking
  <2> QED BY <1>1, <2>1, <2>2 DEF OpenPartition
<1>2. CASE InventoryFails \/ ResolveFails
  BY <1>0, <1>2 DEF InventoryFails, ResolveFails, Fail, Position, Walking
<1>3. CASE PrepareMembers
  <2>1. /\ upto' = Least(at + MEMBER_PREPARE_BATCH, Len(Members)) /\ phase' = "resolving"
        /\ UNCHANGED <<part, at>> /\ at < Len(Members) /\ Walking /\ Members' = Members
    BY <1>0, <1>3 DEF PrepareMembers, Members, Walking
  <2>2. at \in Nat /\ Len(Members) \in Nat /\ part <= Len(partitions)
    BY <1>0, <2>1 DEF Position
  <2>3. upto' \in Nat /\ at <= upto' /\ upto' <= Len(Members)
    BY <2>1, <2>2, PartitionsAssumption DEF Least
  <2> QED BY <1>0, <2>1, <2>2, <2>3 DEF Position, Walking
<1>4. CASE ClosePartition
  BY <1>0, <1>4 DEF ClosePartition, Position, Walking
<1>5. CASE Skip \/ ResolveNothing \/ Resolve
  <2>1. at' = at + 1 /\ at < upto /\ phase = "resolving" /\ UNCHANGED <<phase, part, upto>>
    BY <1>5 DEF Skip, ResolveNothing, Resolve, Resolving, Following
  <2>2. Members' = Members /\ part <= Len(partitions)
    BY <1>0, <2>1 DEF Position, Members, Walking
  <2> QED BY <1>0, <2>1, <2>2 DEF Position, Walking
<1>6. CASE VisitBatch
  <2>1. Members' = Members
    BY <1>0, <1>6 DEF VisitBatch, Members
  <2> QED BY <1>0, <1>6, <2>1 DEF VisitBatch, Position, Walking
<1>7. CASE UNCHANGED vars
  BY <1>7 DEF vars, Position, Walking, Members
<1> QED
  BY <1>1, <1>2, <1>3, <1>4, <1>5, <1>6, <1>7 DEF Next

-----------------------------------------------------------------------------
(* How often a member is inflated.                                         *)

\* What was not inflated for an earlier record and is still to come was not
\* inflated at all.
InflatedAhead ==
    /\ \A m \in DOMAIN inflated : inflated[m] \in {0, 1}
    /\ Walking => \A m \in DOMAIN inflated : m > at /\ m \notin ahead => inflated[m] = 0
    /\ Walking => DOMAIN inflated \subseteq Int

\* But for the preparing no member is inflated twice: one inflated for a
\* record of an earlier member is kept until its turn comes (lookahead).
THEOREM NoneInflatedTwice == Spec => []InflatedOnce
<1>1. Init => Position /\ InflatedAhead
  BY InitPosition DEF Init, InflatedAhead, Walking
<1>2. Position /\ InflatedAhead /\ [Next]_vars => Position' /\ InflatedAhead'
  <2> SUFFICES ASSUME Position, InflatedAhead, [Next]_vars PROVE InflatedAhead'
    BY NextPosition
  <2>0. at \in Nat
    BY DEF Position
  <2>1. CASE OpenPartition
    <3>1. CASE UNCHANGED inflated /\ phase' = "done"
      BY <3>1 DEF InflatedAhead, Walking
    <3>2. CASE inflated' = [m \in DOMAIN Members |-> 0] /\ part <= Len(partitions)
      <4>1. DOMAIN Members \subseteq Int
        <5>1. part \in 1..Len(partitions)
          BY <3>2, InputsAre DEF Position
        <5> QED BY <5>1, InputsAre DEF Position, Members
      <4> QED BY <3>2, <4>1 DEF InflatedAhead
    <3> QED BY <2>1, <3>1, <3>2 DEF OpenPartition
  <2>2. CASE InventoryFails \/ ResolveFails
    BY <2>2 DEF InventoryFails, ResolveFails, Fail, InflatedAhead, Walking
  <2>3. CASE PrepareMembers \/ VisitBatch
    BY <2>3 DEF PrepareMembers, VisitBatch, InflatedAhead, Walking
  <2>4. CASE ClosePartition
    BY <2>4 DEF ClosePartition, InflatedAhead, Walking
  <2>5. CASE Skip
    <3>1. /\ ahead' = ahead \ {at + 1} /\ at' = at + 1 /\ UNCHANGED <<inflated, phase>> /\ Walking
      BY <2>5 DEF Skip, Resolving, Following, NotAhead, Walking
    <3> QED BY <2>0, <3>1 DEF InflatedAhead, Walking
  <2>6. CASE ResolveNothing
    <3>1. /\ ahead' = ahead \ {at + 1} /\ at' = at + 1 /\ UNCHANGED phase /\ Walking
          /\ inflated' = [m \in DOMAIN inflated |-> inflated[m] + Once(m)]
      BY <2>6 DEF ResolveNothing, Resolving, Following, NotAhead, Walking
    <3>2. \A m \in DOMAIN inflated :
             Once(m) = 0 \/ (Once(m) = 1 /\ m = at + 1 /\ m \notin ahead)
      BY DEF Once, FromFile, Following
    <3>3. ASSUME NEW m \in DOMAIN inflated
          PROVE  /\ inflated'[m] \in {0, 1}
                 /\ m > at + 1 /\ m \notin ahead' => inflated'[m] = 0
      <4>1. inflated'[m] = inflated[m] + Once(m) /\ inflated[m] \in {0, 1} /\ m \in Int
        BY <3>1 DEF InflatedAhead
      <4>2. m > at /\ m \notin ahead => inflated[m] = 0
        BY <3>1 DEF InflatedAhead
      <4> QED BY <2>0, <3>1, <3>2, <4>1, <4>2
    <3> QED BY <3>1, <3>3 DEF InflatedAhead, Walking
  <2>7. CASE Resolve
    <3> DEFINE new == Lookahead(Walk.deficit)
    <3>1. /\ ahead' = (ahead \ {at + 1}) \union new /\ at' = at + 1 /\ UNCHANGED phase /\ Walking
          /\ inflated' = [m \in DOMAIN inflated |-> inflated[m] + Once(m)
                                                      + (IF m \in new THEN 1 ELSE 0)]
      BY <2>7 DEF Resolve, Resolving, Following, NotAhead, Walking
    <3>2. \A m \in DOMAIN inflated :
             Once(m) = 0 \/ (Once(m) = 1 /\ m = at + 1 /\ m \notin ahead)
      BY DEF Once, FromFile, Following
    <3>3. \A m \in new : m \notin ahead /\ m > at + 1
      <4>1. Len(Members) \in Nat
        <5>1. part \in 1..Len(partitions)
          BY <3>1, InputsAre DEF Position
        <5> QED BY <5>1, InputsAre DEF Position, Members
      <4> QED BY <2>0, <4>1 DEF Lookahead, LookedAt, Following
    <3> HIDE DEF new
    <3>4. ASSUME NEW m \in DOMAIN inflated
          PROVE  /\ inflated'[m] \in {0, 1}
                 /\ m > at + 1 /\ m \notin ahead' => inflated'[m] = 0
      <4>1. /\ inflated'[m] = inflated[m] + Once(m) + (IF m \in new THEN 1 ELSE 0)
            /\ inflated[m] \in {0, 1} /\ m \in Int
        BY <3>1 DEF InflatedAhead
      <4>2. m > at /\ m \notin ahead => inflated[m] = 0
        BY <3>1 DEF InflatedAhead
      <4> QED BY <2>0, <3>1, <3>2, <3>3, <4>1, <4>2
    <3> QED BY <3>1, <3>4 DEF InflatedAhead, Walking
  <2>8. CASE UNCHANGED vars
    BY <2>8 DEF vars, InflatedAhead, Walking
  <2> QED
    BY <2>1, <2>2, <2>3, <2>4, <2>5, <2>6, <2>7, <2>8 DEF Next
<1>3. InflatedAhead => InflatedOnce
  BY DEF InflatedAhead, InflatedOnce
<1> QED
  BY <1>1, <1>2, <1>3, PTL DEF Spec

-----------------------------------------------------------------------------
(* Reading in batches shows what a plain walk shows.                       *)

All == Shown(partitions)
Before == ReadUpTo(partitions, part - 1)
Here == PlainUpTo(Members, part)[at]

AsPlain ==
    /\ visited \in Seq(All) /\ batch \in Seq(All)
    /\ phase \in {"opening", "batching", "done"} => batch = <<>>
    /\ phase = "opening" => Resolved = Before
    /\ Walking => Resolved = Before \o Here.shown /\ carry = Here.carry
    /\ phase = "done" => Resolved = ReadUpTo(partitions, Len(partitions))
    /\ phase = "failed" => Begins(All, Resolved, ReadUpTo(partitions, Len(partitions)))

LEMMA InitAsPlain == Init => AsPlain
<1> SUFFICES ASSUME Init PROVE AsPlain
  OBVIOUS
<1>1. /\ partitions \in Inputs /\ phase = "opening" /\ part = 1
      /\ visited = <<>> /\ batch = <<>>
  BY DEF Init
<1>2. Before = <<>>
  BY <1>1, ReadStep DEF Before
<1>3. Resolved = <<>>
  BY <1>1, EmptySeq, ConcatEmptySeq DEF Resolved
<1> QED
  BY <1>1, <1>2, <1>3, EmptySeq DEF AsPlain, Walking

\* What was resolved at any time is a beginning of what there is to resolve.
LEMMA AsPlainBegins ==
  ASSUME Position, AsPlain
  PROVE  Begins(All, Resolved, ReadUpTo(partitions, Len(partitions)))
<1>0. partitions \in Inputs /\ Len(partitions) \in Nat /\ part \in Nat
  BY InputsAre DEF Position
<1>1. CASE phase = "opening"
  <2>1. part - 1 \in 0..Len(partitions) /\ Resolved = ReadUpTo(partitions, part - 1)
    BY <1>0, <1>1 DEF Position, AsPlain, Before
  <2> QED BY <1>0, <2>1, ReadBegins DEF All
<1>2. CASE Walking
  <2>1. part \in 1..Len(partitions)
    BY <1>0, <1>2 DEF Position
  <2>2. at \in 0..Len(partitions[part])
    BY <1>0, <1>2, <2>1, InputsAre DEF Position, Members
  <2> QED BY <1>0, <1>2, <2>1, <2>2, WalkBegins DEF AsPlain, Before, Here, Members, All
<1>3. CASE phase = "done"
  <2>1. ReadUpTo(partitions, Len(partitions)) \in Seq(All)
    BY <1>0, PlainsAreSeq DEF All
  <2> QED BY <1>3, <2>1, BeginsItself DEF AsPlain
<1>4. CASE phase = "failed"
  BY <1>4 DEF AsPlain
<1> QED
  BY <1>1, <1>2, <1>3, <1>4 DEF Position, Walking

\* A member that is skipped, or resolved, is what the plain walk makes of it.
LEMMA ResolvingIsPlain ==
  ASSUME Position, AsPlain, [Next]_vars, Skip \/ ResolveNothing \/ Resolve
  PROVE  AsPlain'
<1> DEFINE next == PlainUpTo(Members, part)[at + 1]
<1>1. /\ Walking /\ phase' = phase /\ Walking' /\ at' = at + 1 /\ at < upto /\ upto <= Len(Members)
      /\ UNCHANGED <<partitions, part, visited>>
      /\ part \in 1..Len(partitions) /\ at \in Nat /\ phase = "resolving"
  <2>1. /\ phase = "resolving" /\ at' = at + 1 /\ at < upto /\ UNCHANGED <<phase, partitions, part, visited>>
    BY DEF Skip, ResolveNothing, Resolve, Resolving, Following
  <2> QED BY <2>1, InputsAre DEF Position, Walking
<1>2. Members' = Members /\ All' = All /\ Before' = Before /\ Here' = next
  BY <1>1 DEF Members, All, Before, Here
<1>3. Len(Members) \in Nat /\ at + 1 \in 1..Len(Members) /\ part \in Nat /\ partitions \in Inputs
  <2>1. partitions \in Inputs
    BY DEF Position
  <2>2. Len(Members) \in Nat
    BY <1>1, <2>1, InputsAre DEF Members
  <2> QED BY <1>1, <2>1, <2>2 DEF Position
<1>4. next = PlainNext(Members, part, at + 1, Here)
  <2> DEFINE p == Members
  <2> HIDE DEF p
  <2>1. \A m \in 1..Len(p) : PlainUpTo(p, part)[m] = PlainNext(p, part, m, PlainUpTo(p, part)[m - 1])
    BY <1>3, PlainUnfolds DEF p
  <2>2. at + 1 - 1 = at
    BY <1>1
  <2> DEFINE m == at + 1
  <2>3. m \in 1..Len(p) /\ m - 1 = at
    <3>1. m \in 1..Len(p)
      BY <1>3 DEF p
    <3>2. m - 1 = at
      BY <1>1
    <3> QED BY <3>1, <3>2
  <2> HIDE DEF m
  <2>4. PlainUpTo(p, part)[m] = PlainNext(p, part, m, PlainUpTo(p, part)[m - 1])
    BY <2>1, <2>3
  <2>5. PlainUpTo(p, part)[m] = PlainNext(p, part, m, PlainUpTo(p, part)[at])
    BY <2>3, <2>4
  <2> QED BY <2>5 DEF p, m, Here
<1>5. carry = Here.carry /\ Resolved = Before \o Here.shown /\ visited \in Seq(All) /\ batch \in Seq(All)
  BY <1>1 DEF AsPlain
<1> DEFINE member == Members[at + 1]
           rs == Records(member.bytes, member.tag, carry)
           deficit == TrailingDeficit(member.bytes, member.tag, carry)
           entry == [part |-> part, member |-> at + 1, records |-> rs,
                     payload |-> Placed(Members, at + 1) \o SpilledTail(Members, at + 1, deficit)]
<1>6. CASE Skip \/ ResolveNothing
  <2>1. carry' = 0 /\ batch' = batch /\ (~Known(member) \/ TruncatedHeader \in Range(rs))
    BY <1>6 DEF Skip, ResolveNothing, WalkFails, Walk, WalkFrom, Following
  <2>2. next = [carry |-> 0, shown |-> Here.shown]
    BY <1>4, <1>5, <2>1 DEF PlainNext
  <2>3. next.carry = 0 /\ next.shown = Here.shown
    BY <2>2
  <2>4. Resolved' = Resolved
    BY <1>1, <2>1 DEF Resolved
  <2> HIDE DEF next
  <2> QED BY <1>1, <1>2, <1>5, <2>1, <2>3, <2>4 DEF AsPlain
<1>7. CASE Resolve
  <2>1. carry' = deficit /\ batch' = Append(batch, entry) /\ Known(member) /\ ~(TruncatedHeader \in Range(rs))
    BY <1>7 DEF Resolve, WalkFails, Walk, WalkFrom, Following
  <2>2. next = [carry |-> deficit, shown |-> Append(Here.shown, entry)]
    BY <1>4, <1>5, <2>1 DEF PlainNext
  <2>3. next.carry = deficit /\ next.shown = Append(Here.shown, entry)
    BY <2>2
  <2>4. entry \in All
    <3>1. entry = Entry(partitions[part], part, at + 1)
      <4> DEFINE p == partitions[part]
                 m == at + 1
      <4>1. m - 1 = at /\ Members = p
        BY <1>1 DEF Members
      <4>2. PlainUpTo(Members, part)[at].carry = carry
        BY <1>5 DEF Here
      <4> HIDE DEF m, p
      <4>3. PlainUpTo(p, part)[m - 1].carry = carry
        BY <4>1, <4>2
      <4>4. entry = [part |-> part, member |-> m,
                     records |-> Records(p[m].bytes, p[m].tag, carry),
                     payload |-> Placed(p, m) \o SpilledTail(p, m,
                                   TrailingDeficit(p[m].bytes, p[m].tag, carry))]
        BY <4>1 DEF m
      <4>5. entry = Entry(p, part, m)
        BY <4>3, <4>4 DEF Entry
      <4> QED BY <4>5 DEF m, p
    <3>2. part \in Nat /\ at + 1 \in Nat
      BY <1>1, <1>3
    <3> HIDE DEF entry
    <3> QED BY <3>1, <3>2 DEF All, Shown
  <2>5. Here.shown \in Seq(All) /\ Before \in Seq(All)
    <3>1. part - 1 \in 0..Len(partitions)
      BY <1>1, <1>3, InputsAre
    <3>2. Before \in Seq(All)
      BY <1>3, <3>1, PlainsAreSeq DEF Before, All
    <3> DEFINE p == Members
    <3>3. p = partitions[part] /\ Len(p) \in Nat /\ at \in 0..Len(p)
      BY <1>1, <1>3 DEF Members
    <3> HIDE DEF p
    <3>4. PlainUpTo(p, part)[at].shown \in Seq(Shown(partitions))
      BY <1>3, <3>3, PlainBegins
    <3> QED BY <3>2, <3>4 DEF p, Here, All
  <2> DEFINE s == Here.shown
  <2> HIDE DEF entry, next
  <2>6. batch' \in Seq(All) /\ batch' = batch \o <<entry>> /\ Append(s, entry) = s \o <<entry>>
        /\ <<entry>> \in Seq(All)
    <3> HIDE DEF s
    <3>1. s \in Seq(All)
      BY <2>5 DEF s
    <3>2. <<entry>> \in Seq(All)
      BY <2>4
    <3> QED BY <1>5, <2>1, <2>4, <3>1, <3>2, AppendProperties, AppendIsConcat
  <2>7. Resolved' = Resolved \o <<entry>>
    <3>1. (visited \o batch) \o <<entry>> = visited \o (batch \o <<entry>>)
      BY <1>5, <2>6, ConcatAssociative, SMTT(30)
    <3> QED BY <1>1, <2>6, <3>1 DEF Resolved
  <2>8. Before \o (s \o <<entry>>) = (Before \o s) \o <<entry>>
    <3> HIDE DEF s
    <3>1. s \in Seq(All)
      BY <2>5 DEF s
    <3> QED BY <2>5, <2>6, <3>1, ConcatAssociative
  <2>9. Resolved' = Before' \o Here'.shown
    BY <1>2, <1>5, <2>3, <2>6, <2>7, <2>8
  <2>10. carry' = Here'.carry
    BY <1>2, <2>1, <2>3
  <2> QED BY <1>1, <1>2, <1>5, <2>6, <2>9, <2>10 DEF AsPlain
<1> QED
  BY <1>6, <1>7

LEMMA NextAsPlain == Position /\ AsPlain /\ [Next]_vars => AsPlain'
<1> SUFFICES ASSUME Position, AsPlain, [Next]_vars PROVE AsPlain'
  OBVIOUS
<1>0. partitions' = partitions /\ All' = All /\ partitions \in Inputs /\ Len(partitions) \in Nat
  <2>1. partitions' = partitions
    BY DEF Next, vars, OpenPartition, InventoryFails, Fail, PrepareMembers, ClosePartition,
           Skip, ResolveNothing, Resolve, ResolveFails, VisitBatch
  <2> QED BY <2>1, InputsAre DEF Position, All
<1>1. visited \in Seq(All) /\ batch \in Seq(All) /\ part \in 1..(Len(partitions) + 1)
  BY DEF AsPlain, Position
<1>2. CASE OpenPartition
  <2>0. phase = "opening" /\ UNCHANGED <<part, batch, visited>> /\ batch = <<>> /\ Resolved = Before
        /\ Resolved' = Resolved
    BY <1>2 DEF OpenPartition, AsPlain, Resolved
  <2>1. CASE part > Len(partitions) /\ phase' = "done"
    <3>1. part - 1 = Len(partitions)
      BY <1>0, <1>1, <2>1
    <3> QED BY <1>0, <1>1, <2>0, <2>1, <3>1 DEF AsPlain, Before, Walking
  <2>2. CASE part <= Len(partitions) /\ phase' = "batching" /\ at' = 0 /\ carry' = 0
    <3>1. part \in 1..Len(partitions) /\ part - 1 \in 0..Len(partitions)
      BY <1>0, <1>1, <2>2
    <3>2. Here' = Start
      <4>1. Len(Members) \in Nat
        BY <1>0, <3>1, InputsAre DEF Members
      <4>2. PlainUpTo(Members, part)[0] = Start
        BY <4>1, PlainUnfolds
      <4> QED BY <1>0, <2>0, <2>2, <4>2 DEF Here, Members
    <3>3. Before \o <<>> = Before /\ Before' = Before
      <4>1. Before \in Seq(All)
        BY <1>0, <3>1, PlainsAreSeq DEF Before, All
      <4> QED BY <1>0, <2>0, <4>1, ConcatEmptySeq DEF Before
    <3> QED BY <1>0, <1>1, <2>0, <2>2, <3>2, <3>3 DEF AsPlain, Start, Walking
  <2> QED BY <1>2, <2>1, <2>2 DEF OpenPartition
<1>3. CASE InventoryFails \/ ResolveFails
  <2>1. phase' = "failed" /\ UNCHANGED <<visited, batch>> /\ Resolved' = Resolved
    BY <1>3 DEF InventoryFails, ResolveFails, Fail, Resolved
  <2>2. Begins(All, Resolved, ReadUpTo(partitions, Len(partitions)))
    BY AsPlainBegins
  <2> QED BY <1>0, <1>1, <2>1, <2>2 DEF AsPlain, Walking
<1>4. CASE PrepareMembers
  <2>1. /\ phase = "batching" /\ phase' = "resolving" /\ UNCHANGED <<part, at, batch, visited, carry>>
    BY <1>4 DEF PrepareMembers, CarryKept
  <2>2. Resolved' = Resolved /\ Before' = Before /\ Here' = Here
    BY <1>0, <2>1 DEF Resolved, Before, Here, Members
  <2> QED BY <1>0, <1>1, <2>1, <2>2 DEF AsPlain, Walking
<1>5. CASE ClosePartition
  <2>1. /\ phase = "batching" /\ phase' = "opening" /\ part' = part + 1 /\ at = Len(Members)
        /\ UNCHANGED <<batch, visited>> /\ batch = <<>>
    BY <1>5 DEF ClosePartition, AsPlain
  <2>2. part \in 1..Len(partitions)
    BY <1>0, <1>1, <2>1 DEF Position, Walking
  <2>3. Resolved = Before \o Plain(partitions[part], part)
    BY <2>1 DEF AsPlain, Walking, Here, Plain, Members
  <2>4. Before' = Before \o Plain(partitions[part], part)
    <3>1. ReadUpTo(partitions, part) = ReadUpTo(partitions, part - 1) \o Plain(partitions[part], part)
      BY <1>0, <2>2, ReadStep
    <3>2. part' - 1 = part
      BY <2>1, <2>2
    <3> QED BY <1>0, <3>1, <3>2 DEF Before
  <2>5. Resolved' = Resolved
    BY <2>1 DEF Resolved
  <2> QED BY <1>0, <1>1, <2>1, <2>3, <2>4, <2>5 DEF AsPlain, Walking
<1>6. CASE Skip \/ ResolveNothing \/ Resolve
  BY <1>6, ResolvingIsPlain
<1>7. CASE VisitBatch
  <2>1. /\ phase = "resolving" /\ phase' = "batching" /\ UNCHANGED <<part, at, carry>>
        /\ visited' = visited \o batch /\ batch' = <<>>
    BY <1>7 DEF VisitBatch
  <2>2. visited' \in Seq(All) /\ Resolved' = Resolved /\ batch' \in Seq(All)
    <3>1. visited \o batch \in Seq(All)
      BY <1>1, ConcatProperties
    <3>2. (visited \o batch) \o <<>> = visited \o batch
      BY <3>1, ConcatEmptySeq
    <3> QED BY <2>1, <3>1, <3>2, EmptySeq DEF Resolved
  <2>3. Before' = Before /\ Here' = Here
    BY <1>0, <2>1 DEF Before, Here, Members
  <2> QED BY <1>0, <2>1, <2>2, <2>3 DEF AsPlain, Walking
<1>8. CASE UNCHANGED vars
  BY <1>8 DEF vars, AsPlain, Walking, All, Resolved, Before, Here, Members
<1> QED
  BY <1>2, <1>3, <1>4, <1>5, <1>6, <1>7, <1>8 DEF Next

\* Whatever the size of a batch, and whatever was held in memory or inflated
\* ahead, the visitor is shown what a plain walk shows (for_each_member_batch).
THEOREM BatchesAreInvisible == Spec => []BatchingIsInvisible
<1>1. Init => Position /\ AsPlain
  BY InitPosition, InitAsPlain
<1>2. Position /\ AsPlain /\ [Next]_vars => Position' /\ AsPlain'
  BY NextPosition, NextAsPlain
<1>3. Position /\ AsPlain => BatchingIsInvisible
  <2> SUFFICES ASSUME Position, AsPlain PROVE BatchingIsInvisible
    OBVIOUS
  <2>1. PlainReading = ReadUpTo(partitions, Len(partitions))
    <3>1. DOMAIN partitions = 1..Len(partitions)
      BY InputsAre DEF Position
    <3> QED BY <3>1 DEF PlainReading, ReadUpTo
  <2>2. IsPrefix(Resolved, PlainReading)
    BY <2>1, AsPlainBegins, BeginsIsPrefix
  <2>3. phase = "done" => visited = PlainReading
    <3>1. visited \o <<>> = visited
      BY ConcatEmptySeq DEF AsPlain
    <3> QED BY <2>1, <3>1 DEF AsPlain, Resolved
  <2> QED BY <2>2, <2>3 DEF BatchingIsInvisible
<1> QED
  BY <1>1, <1>2, <1>3, PTL DEF Spec

-----------------------------------------------------------------------------
(* The records of a member.                                                *)

Layouts == {"narrow", "wide"}
Record == [offset : Int, body : Int]

\* What the walk reads at an offset, the rest coming from after.
ReadsAt(bytes, layout, after, o) ==
    LET header == HeaderBytes(layout)
    IN  IF o = Len(bytes) THEN <<>>
        ELSE IF o + header > Len(bytes) THEN <<TruncatedHeader>>
        ELSE LET body == bytes[o + header]
                 end  == o + header + body
             IN  <<[offset |-> o, body |-> body]>>
                   \o IF end > Len(bytes) THEN <<>> ELSE after[end]

\* The recursion of RecordsFrom goes through.
ReadsFrom(bytes, layout, g, a) == g = [o \in a..Len(bytes) |-> ReadsAt(bytes, layout, g, o)]

LEMMA ReadsAlike ==
  ASSUME NEW bytes \in Seq(Nat), NEW layout \in Layouts, NEW g, NEW h, NEW o \in 0..Len(bytes),
         \A x \in (o + 1)..Len(bytes) : g[x] = h[x]
  PROVE  ReadsAt(bytes, layout, g, o) = ReadsAt(bytes, layout, h, o)
<1> DEFINE header == HeaderBytes(layout)
<1>1. header \in Nat /\ header > 0 /\ Len(bytes) \in Nat
  BY HeaderAssumption DEF HeaderBytes, Layouts
<1>2. CASE o + header > Len(bytes)
  BY <1>2 DEF ReadsAt
<1>3. CASE ~(o + header > Len(bytes))
  <2>1. o + header \in 1..Len(bytes)
    BY <1>1, <1>3
  <2>2. bytes[o + header] \in Nat
    BY <2>1, ElementOfSeq
  <2> DEFINE end == o + header + bytes[o + header]
  <2>3. end \in Nat /\ end > o
    <3> DEFINE b == bytes[o + header]
    <3>1. b \in Nat
      BY <2>2
    <3> HIDE DEF b
    <3>2. o + header + b \in Nat /\ o + header + b > o
      BY <1>1, <3>1
    <3> QED BY <3>2 DEF b
  <2> HIDE DEF end
  <2>4. ~(end > Len(bytes)) => g[end] = h[end]
    BY <1>1, <2>3
  <2> QED BY <2>4 DEF ReadsAt, end
<1> QED
  BY <1>2, <1>3

LEMMA RecordsUnfold ==
  ASSUME NEW bytes \in Seq(Nat), NEW layout \in Layouts
  PROVE  \E g : /\ \A o \in 0..Len(bytes) : g[o] = ReadsAt(bytes, layout, g, o)
                /\ \A o \in 0..Len(bytes) : RecordsFrom(bytes, layout, o) = g[o]
<1> DEFINE L == Len(bytes)
           e(g, o) == ReadsAt(bytes, layout, g, o)
           N == {k \in Nat : k <= L => \E g : ReadsFrom(bytes, layout, g, L - k)}
<1>0. L \in Nat
  OBVIOUS
<1>1. ASSUME NEW k \in Nat, \A m \in 0..(k - 1) : m \in N PROVE k \in N
  <2> SUFFICES ASSUME k <= L PROVE \E g : ReadsFrom(bytes, layout, g, L - k)
    OBVIOUS
  <2> DEFINE a == L - k
  <2>1. CASE k = 0
    <3> DEFINE h == [o \in L..L |-> <<>>]
    <3>1. ReadsFrom(bytes, layout, h, L)
      <4>1. \A o \in L..L : e(h, o) = <<>>
        BY <1>0 DEF ReadsAt
      <4>2. h = [o \in L..L |-> e(h, o)]
        <5> DEFINE f(o) == e(h, o)
        <5>1. \A o \in L..L : f(o) = <<>>
          BY <4>1
        <5> HIDE DEF f
        <5>2. [o \in L..L |-> <<>>] = [o \in L..L |-> f(o)]
          BY <5>1
        <5> QED BY <5>2 DEF f
      <4> QED BY <4>2 DEF ReadsFrom
    <3>2. a = L
      BY <1>0, <2>1
    <3> QED BY <3>1, <3>2
  <2>2. CASE k # 0
    <3>1. k - 1 \in N
      <4> HIDE DEF N
      <4> QED BY <1>1, <2>2
    <3>2. PICK g : ReadsFrom(bytes, layout, g, a + 1)
      <4>1. L - (k - 1) = a + 1 /\ k - 1 <= L
        BY <1>0, <2>2
      <4> QED BY <3>1, <4>1
    <3>3. \A o \in (a + 1)..L : g[o] = e(g, o)
      <4>1. g = [o \in (a + 1)..L |-> e(g, o)]
        BY <3>2 DEF ReadsFrom
      <4> DEFINE f(o) == e(g, o)
      <4>2. g = [o \in (a + 1)..L |-> f(o)]
        BY <4>1
      <4> HIDE DEF f
      <4>3. \A o \in (a + 1)..L : g[o] = f(o)
        BY <4>2
      <4> QED BY <4>3 DEF f
    <3> DEFINE first == e(g, a)
               h == [o \in a..L |-> IF o = a THEN first ELSE g[o]]
    <3>4. a \in 0..L /\ a \in a..L
      BY <1>0
    <3>5. \A x \in (a + 1)..L : h[x] = g[x]
      <4> HIDE DEF first
      <4> QED BY <3>4
    <3>6. h[a] = first
      <4> HIDE DEF first
      <4> QED BY <3>4
    <3>7. ASSUME NEW o \in a..L PROVE h[o] = e(h, o)
      <4> HIDE DEF h
      <4>1. o \in 0..L /\ \A x \in (o + 1)..L : g[x] = h[x]
        BY <3>4, <3>5
      <4>2. e(g, o) = e(h, o)
        BY <4>1, ReadsAlike
      <4>3. CASE o = a
        BY <3>6, <4>2, <4>3
      <4>4. CASE o # a
        <5>1. o \in (a + 1)..L
          BY <3>4, <4>4
        <5> QED BY <3>3, <3>5, <4>2, <5>1
      <4> QED BY <4>3, <4>4
    <3>8. ReadsFrom(bytes, layout, h, a)
      <4> DEFINE f(o) == e(h, o)
      <4>1. \A o \in a..L : h[o] = f(o)
        BY <3>7
      <4>2. h = [o \in a..L |-> h[o]]
        OBVIOUS
      <4> HIDE DEF f, h
      <4>3. h = [o \in a..L |-> f(o)]
        BY <4>1, <4>2
      <4> QED BY <4>3 DEF f, ReadsFrom
    <3> QED BY <3>8
  <2> QED BY <2>1, <2>2
<1>2. Nat \subseteq N
  <2> HIDE DEF N
  <2> QED BY <1>1, Induction
<1>3. \E g : ReadsFrom(bytes, layout, g, 0)
  <2>1. L \in N /\ L - L = 0
    BY <1>0, <1>2
  <2> QED BY <1>0, <2>1
<1> DEFINE c == CHOOSE g : ReadsFrom(bytes, layout, g, 0)
<1>4. ReadsFrom(bytes, layout, c, 0)
  BY <1>3
<1>5. \A o \in 0..L : RecordsFrom(bytes, layout, o) = c[o]
  BY DEF RecordsFrom, ReadsFrom, ReadsAt
<1>6. \A o \in 0..L : c[o] = e(c, o)
  <2> HIDE DEF c
  <2> DEFINE f(o) == e(c, o)
  <2>1. c = [o \in 0..L |-> f(o)]
    BY <1>4 DEF ReadsFrom
  <2> HIDE DEF f
  <2>2. \A o \in 0..L : c[o] = f(o)
    BY <2>1
  <2> QED BY <2>2 DEF f
<1> QED
  BY <1>5, <1>6

LEMMA RecordsAt ==
  ASSUME NEW bytes \in Seq(Nat), NEW layout \in Layouts, NEW o \in 0..Len(bytes)
  PROVE  LET header == HeaderBytes(layout)
             body   == bytes[o + header]
             end    == o + header + body
         IN  /\ o = Len(bytes) => RecordsFrom(bytes, layout, o) = <<>>
             /\ o # Len(bytes) /\ o + header > Len(bytes) =>
                  RecordsFrom(bytes, layout, o) = <<TruncatedHeader>>
             /\ o + header <= Len(bytes) =>
                  /\ body \in Nat
                  /\ end \in Nat /\ end > o
                  /\ end > Len(bytes) =>
                       RecordsFrom(bytes, layout, o) = <<[offset |-> o, body |-> body]>> \o <<>>
                  /\ end <= Len(bytes) =>
                       RecordsFrom(bytes, layout, o) =
                         <<[offset |-> o, body |-> body]>> \o RecordsFrom(bytes, layout, end)
<1> DEFINE header == HeaderBytes(layout)
           L == Len(bytes)
           body == bytes[o + header]
           end == o + header + body
<1>1. PICK g : /\ \A x \in 0..L : g[x] = ReadsAt(bytes, layout, g, x)
               /\ \A x \in 0..L : RecordsFrom(bytes, layout, x) = g[x]
  BY RecordsUnfold
<1>2. header \in Nat /\ header > 0 /\ L \in Nat /\ o \in 0..L
  BY HeaderAssumption DEF HeaderBytes, Layouts
<1>3. RecordsFrom(bytes, layout, o) = ReadsAt(bytes, layout, g, o)
  BY <1>1
<1>4. CASE o = L
  <2>1. ~(o + header <= L)
    BY <1>2, <1>4
  <2> QED BY <1>3, <1>4, <2>1 DEF ReadsAt
<1>5. CASE o # L /\ o + header > L
  <2>1. ~(o + header <= L)
    BY <1>2, <1>5
  <2> QED BY <1>3, <1>5, <2>1 DEF ReadsAt
<1>6. CASE o + header <= L
  <2>1. o + header \in 1..L /\ o # L /\ ~(o + header > L)
    BY <1>2, <1>6
  <2>2. body \in Nat
    BY <2>1, ElementOfSeq
  <2>3. end \in Nat /\ end > o
    <3> HIDE DEF body
    <3> QED BY <1>2, <2>2
  <2>4. RecordsFrom(bytes, layout, o) =
          <<[offset |-> o, body |-> body]>> \o IF end > L THEN <<>> ELSE g[end]
    BY <1>3, <2>1 DEF ReadsAt
  <2> HIDE DEF body
  <2>5. end <= L => ~(end > L) /\ g[end] = RecordsFrom(bytes, layout, end)
    BY <1>1, <1>2, <2>3
  <2> QED BY <2>1, <2>2, <2>3, <2>4, <2>5 DEF body
<1> QED
  BY <1>2, <1>4, <1>5, <1>6

\* Records one after the other from an offset on, the last of which reaches the end.
Tiles(bytes, layout, from, R) ==
    /\ R = <<>> <=> from = Len(bytes)
    /\ \A k \in 1..Len(R) : /\ R[k].offset \in from..Len(bytes) /\ R[k].body \in Nat
                            /\ R[k].offset + HeaderBytes(layout) <= Len(bytes)
    /\ \A k, l \in 1..Len(R) : k < l => End(R[k], layout) <= R[l].offset
    /\ R # <<>> => R[1].offset = from /\ End(R[Len(R)], layout) >= Len(bytes)

LEMMA TilesNone ==
  ASSUME NEW bytes \in Seq(Nat), NEW layout
  PROVE  Tiles(bytes, layout, Len(bytes), <<>>)
<1>1. Len(<<>>) = 0
  BY EmptySeq
<1> QED
  BY <1>1 DEF Tiles

LEMMA TilesOne ==
  ASSUME NEW bytes \in Seq(Nat), NEW layout \in Layouts, NEW o \in 0..Len(bytes), NEW body \in Nat,
         o + HeaderBytes(layout) <= Len(bytes), o + HeaderBytes(layout) + body >= Len(bytes)
  PROVE  Tiles(bytes, layout, o, <<[offset |-> o, body |-> body]>>)
<1> DEFINE e == [offset |-> o, body |-> body]
           R == <<e>>
<1>1. Len(R) = 1 /\ R[1] = e /\ R # <<>>
  OBVIOUS
<1>2. e.offset = o /\ e.body = body
  OBVIOUS
<1>3. o # Len(bytes) /\ HeaderBytes(layout) \in Nat /\ Len(bytes) \in Nat
  BY HeaderAssumption DEF HeaderBytes, Layouts
<1>4. End(e, layout) >= Len(bytes)
  BY <1>2 DEF End
<1> HIDE DEF e, R
<1>5. \A k \in 1..Len(R) : k = 1
  BY <1>1
<1>6. Tiles(bytes, layout, o, R)
  BY <1>1, <1>2, <1>3, <1>4, <1>5 DEF Tiles
<1> QED
  BY <1>6 DEF R, e

LEMMA TilesMore ==
  ASSUME NEW bytes \in Seq(Nat), NEW layout \in Layouts, NEW o \in 0..Len(bytes), NEW body \in Nat,
         NEW R \in Seq(Record), NEW next \in 0..Len(bytes), next = o + HeaderBytes(layout) + body,
         Tiles(bytes, layout, next, R)
  PROVE  \/ next = Len(bytes)
         \/ Tiles(bytes, layout, o, <<[offset |-> o, body |-> body]>> \o R)
<1> DEFINE e == [offset |-> o, body |-> body]
           L == Len(bytes)
           h == HeaderBytes(layout)
           Q == <<e>> \o R
<1>0. h \in Nat /\ h > 0 /\ L \in Nat /\ Len(R) \in Nat /\ o \in Nat /\ next \in Nat
  BY HeaderAssumption DEF HeaderBytes, Layouts
<1>1. e \in Record /\ <<e>> \in Seq(Record) /\ Len(<<e>>) = 1 /\ <<e>>[1] = e
  BY DEF Record
<1>2. e.offset = o /\ e.body = body /\ End(e, layout) = next
  BY DEF End
<1> SUFFICES ASSUME next # L PROVE Tiles(bytes, layout, o, Q)
  OBVIOUS
<1> HIDE DEF e
<1>3. /\ Len(Q) = Len(R) + 1 /\ Q[1] = e
      /\ \A k \in 2..Len(Q) : Q[k] = R[k - 1] /\ k - 1 \in 1..Len(R)
  <2>1. /\ Len(Q) = 1 + Len(R)
        /\ \A k \in 1..(1 + Len(R)) : Q[k] = IF k <= 1 THEN <<e>>[k] ELSE R[k - 1]
    <3> DEFINE s == <<e>>
    <3>1. s \in Seq(Record) /\ Len(s) = 1
      BY <1>1
    <3> HIDE DEF s
    <3>2. /\ Len(s \o R) = 1 + Len(R)
          /\ \A k \in 1..(1 + Len(R)) : (s \o R)[k] = IF k <= 1 THEN s[k] ELSE R[k - 1]
      <4>1. /\ Len(s \o R) = Len(s) + Len(R)
            /\ \A k \in 1..(Len(s) + Len(R)) : (s \o R)[k] = IF k <= Len(s) THEN s[k] ELSE R[k - Len(s)]
        BY <3>1, ConcatProperties
      <4> QED BY <3>1, <4>1
    <3> QED BY <3>2 DEF s
  <2> HIDE DEF Q
  <2>2. Q[1] = e
    BY <1>0, <1>1, <2>1
  <2>3. \A k \in 2..Len(Q) : Q[k] = R[k - 1] /\ k - 1 \in 1..Len(R)
    BY <1>0, <2>1
  <2> QED BY <1>0, <2>1, <2>2, <2>3
<1> HIDE DEF Q
<1>4. R # <<>> /\ Len(R) > 0 /\ Len(R) \in 1..Len(R)
  BY <1>0, EmptySeq DEF Tiles
<1>5. Q # <<>> /\ o # L
  <2>1. Q # <<>>
    BY <1>0, <1>3, <1>4, EmptySeq
  <2> QED BY <1>0, <2>1
<1>6. ASSUME NEW k \in 1..Len(Q)
      PROVE  /\ Q[k].offset \in o..L /\ Q[k].body \in Nat /\ Q[k].offset + h <= L
             /\ k > 1 => Q[k].offset >= next
  <2>1. CASE k = 1
    BY <1>0, <1>2, <1>3, <2>1, SMTT(30)
  <2>2. CASE k # 1
    <3>1. k \in 2..Len(Q)
      BY <1>0, <1>3, <2>2
    <3>2. Q[k] = R[k - 1] /\ k - 1 \in 1..Len(R)
      BY <1>3, <3>1
    <3>3. R[k - 1].offset \in next..L /\ R[k - 1].body \in Nat /\ R[k - 1].offset + h <= L
      BY <3>2 DEF Tiles
    <3> QED BY <1>0, <3>2, <3>3, SMTT(30)
  <2> QED BY <2>1, <2>2
<1>7. ASSUME NEW k \in 1..Len(Q), NEW l \in 1..Len(Q), k < l
      PROVE  End(Q[k], layout) <= Q[l].offset
  <2>1. l \in 2..Len(Q)
    BY <1>0, <1>3, <1>7
  <2>2. CASE k = 1
    <3>1. Q[l].offset >= next
      <4>1. l > 1
        BY <2>1
      <4> QED BY <1>6, <4>1
    <3>2. End(Q[k], layout) = next
      BY <1>2, <1>3, <2>2
    <3> QED BY <3>1, <3>2
  <2>3. CASE k # 1
    <3>1. k \in 2..Len(Q)
      BY <1>0, <1>3, <2>3
    <3>2. Q[k] = R[k - 1] /\ Q[l] = R[l - 1] /\ k - 1 \in 1..Len(R) /\ l - 1 \in 1..Len(R) /\ k - 1 < l - 1
      BY <1>0, <1>3, <1>7, <2>1, <3>1, SMTT(30)
    <3> DEFINE x == k - 1
               y == l - 1
    <3>3. Q[k] = R[x] /\ Q[l] = R[y] /\ x \in 1..Len(R) /\ y \in 1..Len(R) /\ x < y
      BY <3>2
    <3> HIDE DEF x, y
    <3>4. End(R[x], layout) <= R[y].offset
      BY <3>3 DEF Tiles
    <3> QED BY <3>3, <3>4
  <2> QED BY <2>2, <2>3
<1>8. Q[1].offset = o /\ End(Q[Len(Q)], layout) >= L
  <2>1. Len(Q) \in 2..Len(Q) /\ Len(Q) - 1 = Len(R)
    BY <1>0, <1>3, <1>4
  <2>2. Q[Len(Q)] = R[Len(R)]
    BY <1>3, <2>1
  <2>3. End(R[Len(R)], layout) >= L
    BY <1>4 DEF Tiles
  <2> QED BY <1>2, <1>3, <2>2, <2>3
<1>9. Tiles(bytes, layout, o, Q)
  BY <1>5, <1>6, <1>7, <1>8 DEF Tiles
<1> QED
  BY <1>9

\* Unless a header is cut off, the records of a member tile it from where
\* they start, and the last one may reach further.
LEMMA RecordsTile ==
  ASSUME NEW bytes \in Seq(Nat), NEW layout \in Layouts, NEW from \in 0..Len(bytes)
  PROVE  LET R == RecordsFrom(bytes, layout, from)
         IN  /\ R \in Seq(Record)
             /\ TruncatedHeader \in Range(R) \/ Tiles(bytes, layout, from, R)
<1> DEFINE L == Len(bytes)
           F(o) == RecordsFrom(bytes, layout, o)
           Good(o) == F(o) \in Seq(Record) /\ (TruncatedHeader \in Range(F(o)) \/ Tiles(bytes, layout, o, F(o)))
           N == {k \in Nat : k <= L => Good(L - k)}
           h == HeaderBytes(layout)
<1>0. L \in Nat /\ h \in Nat /\ h > 0
  BY HeaderAssumption DEF HeaderBytes, Layouts
<1>1. ASSUME NEW k \in Nat, \A m \in 0..(k - 1) : m \in N PROVE k \in N
  <2> SUFFICES ASSUME k <= L PROVE Good(L - k)
    OBVIOUS
  <2> DEFINE o == L - k
  <2>0. o \in 0..L
    BY <1>0
  <2> HIDE DEF o
  <2> DEFINE body == bytes[o + h]
             end == o + h + body
             e == [offset |-> o, body |-> body]
  <2>1. /\ o = L => F(o) = <<>>
        /\ o # L /\ o + h > L => F(o) = <<TruncatedHeader>>
        /\ o + h <= L => /\ body \in Nat /\ end \in Nat /\ end > o
                         /\ end > L => F(o) = <<e>> \o <<>>
                         /\ end <= L => F(o) = <<e>> \o F(end)
    BY <2>0, RecordsAt
  <2> HIDE DEF F, body
  <2>2. CASE o = L
    <3>1. F(o) = <<>> /\ <<>> \in Seq(Record)
      BY <2>1, <2>2, EmptySeq
    <3> QED BY <2>2, <3>1, TilesNone DEF o
  <2>3. CASE o # L /\ o + h > L
    <3>1. F(o) = <<TruncatedHeader>>
      BY <2>1, <2>3
    <3>2. TruncatedHeader \in Record
      BY DEF TruncatedHeader, Record
    <3> DEFINE t == TruncatedHeader
    <3>3. F(o) = <<t>> /\ t \in Record
      BY <3>1, <3>2
    <3> HIDE DEF t
    <3>4. F(o) \in Seq(Record) /\ 1 \in DOMAIN F(o) /\ F(o)[1] = t
      BY <3>3
    <3>5. t \in Range(F(o))
      BY <3>4 DEF Range
    <3> QED BY <3>4, <3>5 DEF t, o
  <2>4. CASE o + h <= L /\ end >= L
    <3>1. body \in Nat /\ e \in Record /\ end \in Nat /\ end > o
      BY <1>0, <2>0, <2>1, <2>4 DEF Record
    <3>2. <<e>> \o <<>> = <<e>> /\ <<e>> \in Seq(Record)
      <4> HIDE DEF e
      <4>1. <<e>> \in Seq(Record)
        BY <3>1
      <4> QED BY <4>1, ConcatEmptySeq
    <3>3. F(o) = <<e>>
      <4>1. CASE end > L
        BY <2>1, <2>4, <3>2, <4>1
      <4>2. CASE end = L
        <5>1. F(L) = <<>>
          <6>1. L \in 0..L
            BY <1>0
          <6> QED BY <6>1, RecordsAt DEF F
        <5>2. F(o) = <<e>> \o F(end)
          BY <1>0, <2>1, <2>4, <4>2
        <5> QED BY <3>2, <4>2, <5>1, <5>2
      <4> QED BY <1>0, <2>4, <3>1, <4>1, <4>2
    <3>4. Tiles(bytes, layout, o, <<e>>)
      BY <2>0, <2>4, <3>1, TilesOne
    <3>5. Good(o)
      <4> HIDE DEF e
      <4> QED BY <3>2, <3>3, <3>4
    <3> QED BY <3>5 DEF o
  <2>5. CASE o + h <= L /\ end < L
    <3>1. body \in Nat /\ e \in Record /\ end \in Nat /\ end > o /\ end \in 0..L
      BY <1>0, <2>0, <2>1, <2>5 DEF Record
    <3>2. F(o) = <<e>> \o F(end)
      BY <1>0, <2>1, <2>5, <3>1
    <3> HIDE DEF N
    <3>3. Good(end)
      <4> HIDE DEF end
      <4>1. L - end \in Nat /\ L - end < k /\ L - end <= L /\ L - (L - end) = end
        BY <1>0, <2>0, <3>1 DEF o
      <4> DEFINE i == L - end
      <4>2. i \in 0..(k - 1) /\ i <= L /\ L - i = end
        BY <4>1
      <4> HIDE DEF i
      <4>3. i \in N
        BY <1>1, <4>2
      <4>4. Good(L - i)
        BY <4>2, <4>3 DEF N
      <4>5. L - i = end
        BY <4>2
      <4> QED BY <4>4, <4>5
    <3>4. <<e>> \in Seq(Record) /\ Len(<<e>>) = 1 /\ Len(F(end)) \in Nat
      <4> HIDE DEF e, end
      <4>1. F(end) \in Seq(Record)
        BY <3>3
      <4> QED BY <3>1, <4>1, LenProperties
    <3>5. F(o) \in Seq(Record)
      <4> DEFINE s == <<e>>
                 t == F(end)
      <4>1. s \in Seq(Record) /\ t \in Seq(Record)
        BY <3>3, <3>4
      <4> HIDE DEF s, t
      <4>2. s \o t \in Seq(Record)
        BY <4>1, ConcatProperties
      <4> QED BY <3>2, <4>2 DEF s, t
    <3>6. CASE TruncatedHeader \in Range(F(end))
      <4> HIDE DEF e, end
      <4>1. PICK x \in 1..Len(F(end)) : F(end)[x] = TruncatedHeader
        <5>1. DOMAIN F(end) = 1..Len(F(end))
          BY <3>3, LenProperties
        <5> QED BY <3>6, <5>1 DEF Range
      <4>2. x + 1 \in DOMAIN F(o) /\ F(o)[x + 1] = TruncatedHeader
        <5> DEFINE s == <<e>>
                   t == F(end)
        <5>1. s \in Seq(Record) /\ t \in Seq(Record) /\ Len(s) = 1
          BY <3>3, <3>4
        <5>2. t[x] = TruncatedHeader /\ x \in 1..Len(t) /\ Len(t) \in Nat
          BY <3>4, <4>1
        <5> HIDE DEF s, t
        <5>3. /\ Len(s \o t) = 1 + Len(t) /\ s \o t \in Seq(Record)
              /\ \A i \in 1..(1 + Len(t)) : (s \o t)[i] = IF i <= 1 THEN s[i] ELSE t[i - 1]
          <6>1. /\ Len(s \o t) = Len(s) + Len(t) /\ s \o t \in Seq(Record)
                /\ \A i \in 1..(Len(s) + Len(t)) : (s \o t)[i] = IF i <= Len(s) THEN s[i] ELSE t[i - Len(s)]
            BY <5>1, ConcatProperties
          <6> QED BY <5>1, <6>1
        <5>4. x + 1 \in 1..(1 + Len(t)) /\ ~(x + 1 <= 1) /\ x + 1 - 1 = x
          BY <5>2
        <5>5. (s \o t)[x + 1] = t[x]
          BY <5>3, <5>4
        <5>6. DOMAIN (s \o t) = 1..(1 + Len(t))
          BY <5>3, LenProperties
        <5> QED BY <3>2, <5>2, <5>4, <5>5, <5>6 DEF s, t
      <4>3. TruncatedHeader \in Range(F(o))
        BY <4>2 DEF Range
      <4> QED BY <3>5, <4>3 DEF o
    <3>7. CASE Tiles(bytes, layout, end, F(end))
      <4> DEFINE R == F(end)
      <4>1. R \in Seq(Record) /\ Tiles(bytes, layout, end, R)
        BY <3>3, <3>7
      <4> HIDE DEF R
      <4>2. end = L \/ Tiles(bytes, layout, o, <<e>> \o R)
        BY <2>0, <3>1, <4>1, TilesMore
      <4>3. Tiles(bytes, layout, o, F(o))
        BY <1>0, <2>5, <3>1, <3>2, <4>2 DEF R
      <4> QED BY <3>5, <4>3 DEF o
    <3> QED BY <3>3, <3>6, <3>7
  <2>6. o = L \/ (o # L /\ o + h > L) \/ (o + h <= L /\ end >= L) \/ (o + h <= L /\ end < L)
    <3>1. o + h <= L => end \in Nat
      BY <2>1
    <3> QED BY <1>0, <2>0, <3>1
  <2> QED BY <2>2, <2>3, <2>4, <2>5, <2>6 DEF o
<1>2. Nat \subseteq N
  <2> HIDE DEF N
  <2> QED BY <1>1, Induction
<1>3. Good(from)
  <2>1. L - from \in Nat /\ L - from <= L /\ L - (L - from) = from
    BY <1>0
  <2> DEFINE i == L - from
  <2>2. i \in Nat /\ i <= L /\ L - i = from
    BY <2>1
  <2> HIDE DEF i
  <2> HIDE DEF F
  <2>3. Good(L - i)
    BY <1>2, <2>2
  <2> QED BY <2>2, <2>3
<1> QED
  BY <1>3

-----------------------------------------------------------------------------
(* The members a record goes on in.                                        *)

LEMMA StretchLengths ==
  ASSUME NEW p \in Seq(Member), NEW i \in 1..(Len(p) + 1),
         NEW k \in (i - 1)..Len(p), NEW j \in k..Len(p)
  PROVE  /\ Len(StretchOf(p, i, j)) = Len(StretchOf(p, i, k)) + Len(StretchOf(p, k + 1, j))
         /\ Len(StretchOf(p, i, k)) \in Nat /\ Len(StretchOf(p, k + 1, j)) \in Nat
         /\ Len(StretchOf(p, i, k)) <= Len(StretchOf(p, i, j))
<1> DEFINE a == StretchOf(p, i, k)
           b == StretchOf(p, k + 1, j)
<1>1. Len(p) \in Nat /\ k + 1 \in 1..(Len(p) + 1) /\ j \in (k + 1 - 1)..Len(p)
  OBVIOUS
<1>2. a \in Seq(Cell) /\ b \in Seq(Cell)
  BY <1>1, StretchIsSeq
<1>3. StretchOf(p, i, j) = a \o b
  BY StretchSplit
<1> HIDE DEF a, b
<1>4. Len(a \o b) = Len(a) + Len(b) /\ Len(a) \in Nat /\ Len(b) \in Nat
  BY <1>2, ConcatProperties, LenProperties
<1> QED
  BY <1>3, <1>4 DEF a, b

\* The members looked at follow the record's without a gap, up to one that
\* covers what is owing or the last that has a descriptor.
LEMMA LookedAtIsARun ==
  ASSUME NEW p \in Seq(Member), NEW i \in 1..Len(p), NEW owing \in Nat
  PROVE  \E k \in i..Len(p) :
           /\ LookedAt(p, i, owing) = (i + 1)..k
           /\ i + Cardinality(LookedAt(p, i, owing)) = k
           /\ \A x \in (i + 1)..k : HasDescriptor(p[x])
           /\ k < Len(p) /\ HasDescriptor(p[k + 1]) => Len(StretchOf(p, i + 1, k)) >= owing
<1> DEFINE A == LookedAt(p, i, owing)
           B == {x \in Nat : x \in (i + 1)..(Len(p) + 1) /\ x \notin A}
<1>0. Len(p) \in Nat /\ i + 1 \in 1..(Len(p) + 1)
  OBVIOUS
<1>1. A \subseteq (i + 1)..Len(p)
  BY DEF LookedAt
<1>2. Len(p) + 1 \in B
  <2> HIDE DEF A
  <2> QED BY <1>0, <1>1
<1>3. PICK n \in B : \A m \in B : n <= m
  <2> HIDE DEF A
  <2>1. B \subseteq Nat /\ B # {}
    BY <1>2
  <2> HIDE DEF B
  <2> QED BY <2>1, LeastNatural
<1> DEFINE k == n - 1
<1>4. n \in (i + 1)..(Len(p) + 1) /\ n \notin A /\ k \in i..Len(p) /\ n = k + 1
  <2> HIDE DEF A
  <2> QED BY <1>0, <1>3
<1>5. (i + 1)..k \subseteq A
  <2> HIDE DEF A
  <2> SUFFICES ASSUME NEW x \in (i + 1)..k, x \notin A PROVE FALSE
    OBVIOUS
  <2>1. x \in B
    BY <1>0, <1>4
  <2>2. n <= x
    BY <1>3, <2>1
  <2> QED BY <1>0, <1>4, <2>2
<1>6. ASSUME NEW m \in A, m > n PROVE FALSE
  <2>1. /\ m \in (i + 1)..Len(p)
        /\ \A x \in (i + 1)..m : HasDescriptor(p[x])
        /\ Len(StretchOf(p, i + 1, m - 1)) < owing
    BY DEF LookedAt
  <2>2. n \in (i + 1)..Len(p) /\ \A x \in (i + 1)..n : x \in (i + 1)..m
    BY <1>0, <1>4, <1>6, <2>1
  <2> DEFINE y == n - 1
             z == m - 1
  <2>3. i + 1 \in 1..(Len(p) + 1) /\ y \in ((i + 1) - 1)..Len(p) /\ z \in y..Len(p)
    BY <1>0, <1>4, <1>6, <2>1, <2>2
  <2>4. Len(StretchOf(p, i + 1, y)) <= Len(StretchOf(p, i + 1, z)) /\ Len(StretchOf(p, i + 1, y)) \in Nat
        /\ Len(StretchOf(p, i + 1, z)) \in Nat
    <3> HIDE DEF y, z
    <3>1. Len(StretchOf(p, i + 1, y)) <= Len(StretchOf(p, i + 1, z)) /\ Len(StretchOf(p, i + 1, y)) \in Nat
      BY <2>3, StretchLengths
    <3>2. z \in ((i + 1) - 1)..Len(p)
      BY <1>0, <2>3
    <3> QED BY <2>3, <3>1, <3>2, StretchIsSeq
  <2>5. Len(StretchOf(p, i + 1, n - 1)) < owing
    BY <2>1, <2>4
  <2>6. \A x \in (i + 1)..n : HasDescriptor(p[x])
    BY <2>1, <2>2
  <2>7. n \in A
    BY <2>2, <2>5, <2>6 DEF LookedAt
  <2> QED BY <1>4, <2>7
<1>7. A = (i + 1)..k
  <2> HIDE DEF A
  <2>1. ASSUME NEW m \in A PROVE m \in (i + 1)..k
    <3>1. m \in (i + 1)..Len(p) /\ m # n /\ ~(m > n)
      BY <1>1, <1>4, <1>6
    <3> QED BY <1>0, <1>4, <3>1
  <2> QED BY <1>5, <2>1
<1>8. i + Cardinality(A) = k
  <2> DEFINE a == i + 1
  <2>1. a \in Int /\ k \in Int /\ A = a..k
    BY <1>0, <1>4, <1>7
  <2> HIDE DEF a, k, A
  <2>2. Cardinality(a..k) = IF a > k THEN 0 ELSE k - a + 1
    BY <2>1, FS_Interval
  <2>3. k \in i..Len(p) /\ a = i + 1
    BY <1>4 DEF a
  <2>4. CASE a > k
    BY <1>0, <2>1, <2>2, <2>3, <2>4
  <2>5. CASE ~(a > k)
    BY <1>0, <2>1, <2>2, <2>3, <2>5
  <2> QED BY <2>4, <2>5
<1>9. \A x \in (i + 1)..k : HasDescriptor(p[x])
  <2>1. ASSUME NEW x \in A PROVE HasDescriptor(p[x])
    <3>1. x \in (i + 1)..x
      BY <1>0, <1>1
    <3> QED BY <3>1 DEF LookedAt
  <2> HIDE DEF A, k
  <2> QED BY <1>7, <2>1
<1>10. ASSUME k < Len(p), HasDescriptor(p[k + 1])
       PROVE  Len(StretchOf(p, i + 1, k)) >= owing
  <2>1. k + 1 \in (i + 1)..Len(p)
    BY <1>0, <1>4, <1>10
  <2>2. \A x \in (i + 1)..(k + 1) : HasDescriptor(p[x])
    <3>1. \A x \in (i + 1)..(k + 1) : x \in (i + 1)..k \/ x = k + 1
      BY <1>0, <1>4
    <3> HIDE DEF k
    <3> QED BY <1>9, <1>10, <3>1
  <2>3. ~(Len(StretchOf(p, i + 1, k)) < owing)
    <3>1. k + 1 \notin A
      <4> HIDE DEF A
      <4> QED BY <1>4
    <3> DEFINE z == k + 1
    <3>2. z - 1 = k
      BY <1>4
    <3> HIDE DEF k
    <3>3. z \in (i + 1)..Len(p) /\ z \notin LookedAt(p, i, owing)
      BY <2>1, <3>1
    <3>4. \A x \in (i + 1)..z : HasDescriptor(p[x])
      BY <2>2
    <3> HIDE DEF z
    <3>5. ~(Len(StretchOf(p, i + 1, z - 1)) < owing)
      BY <3>3, <3>4 DEF LookedAt
    <3> QED BY <3>2, <3>5
  <2>5. Len(StretchOf(p, i + 1, k)) \in Nat
    <3>1. k \in ((i + 1) - 1)..Len(p)
      BY <1>0, <1>4
    <3> HIDE DEF k
    <3> QED BY <1>0, <3>1, StretchIsSeq
  <2> HIDE DEF k
  <2> QED BY <2>3, <2>5
<1> HIDE DEF A, k
<1> QED
  BY <1>4, <1>7, <1>8, <1>9, <1>10 DEF A

-----------------------------------------------------------------------------
(* What is read of a member.                                               *)

\* What is shown of a member into which some bytes are carried.
Made(p, n, m, c) ==
    [part |-> n, member |-> m, records |-> Records(p[m].bytes, p[m].tag, c),
     payload |-> Placed(p, m)
                   \o SpilledTail(p, m, TrailingDeficit(p[m].bytes, p[m].tag, c))]

\* Where it is shown: its layout is known and no header cut off.
Read(p, m, c) ==
    /\ p \in Seq(Member) /\ m \in 1..Len(p) /\ c \in Nat
    /\ Known(p[m])
    /\ TruncatedHeader \notin Range(Records(p[m].bytes, p[m].tag, c))

LEMMA RecordsRead ==
  ASSUME NEW p, NEW m, NEW c, Read(p, m, c)
  PROVE  LET L  == Len(p[m].bytes)
             rs == Records(p[m].bytes, p[m].tag, c)
             d  == TrailingDeficit(p[m].bytes, p[m].tag, c)
         IN  /\ L \in Nat /\ d \in Nat /\ rs \in Seq(Record) /\ HeaderBytes(p[m].tag) \in Nat \ {0}
             /\ c >= L => rs = <<>> /\ d = c - L
             /\ c < L => /\ rs # <<>> /\ Len(rs) \in 1..Len(rs)
                         /\ Tiles(p[m].bytes, p[m].tag, c, rs)
                         /\ d = End(rs[Len(rs)], p[m].tag) - L
<1> DEFINE bytes == p[m].bytes
           tag == p[m].tag
           L == Len(bytes)
           rs == Records(bytes, tag, c)
           d == TrailingDeficit(bytes, tag, c)
<1>1. p \in Seq(Member) /\ m \in 1..Len(p) /\ c \in Nat
  BY DEF Read
<1>2. p[m] \in Member
  BY <1>1, ElementOfSeq
<1>3. bytes \in Seq(Nat) /\ tag \in Layouts
  BY <1>2 DEF Read, Known, Layouts, Member
<1>4. L \in Nat /\ HeaderBytes(tag) \in Nat \ {0}
  BY <1>3, HeaderAssumption, LenProperties DEF HeaderBytes, Layouts
<1>5. CASE c >= L
  <2>1. rs = <<>> /\ d = c - L /\ ~(c < L)
    BY <1>1, <1>4, <1>5 DEF Records, TrailingDeficit, StillOwed
  <2>2. d \in Nat /\ <<>> \in Seq(Record)
    <3> HIDE DEF d
    <3> QED BY <1>1, <1>4, <1>5, <2>1, EmptySeq
  <2> QED BY <1>4, <1>5, <2>1, <2>2
<1>6. CASE c < L
  <2>1. ~(c >= L)
    BY <1>1, <1>4, <1>6
  <2>2. rs = RecordsFrom(bytes, tag, c)
    BY <2>1 DEF Records
  <2>3. d = End(rs[Len(rs)], tag) - L
    BY <2>1 DEF TrailingDeficit, Last
  <2>4. c \in 0..L
    BY <1>1, <1>4, <1>6
  <2>5. rs \in Seq(Record) /\ (TruncatedHeader \in Range(rs) \/ Tiles(bytes, tag, c, rs))
    <3> HIDE DEF bytes, tag, rs
    <3> QED BY <1>3, <2>2, <2>4, RecordsTile
  <2>6. TruncatedHeader \notin Range(rs)
    BY DEF Read
  <2> HIDE DEF rs, d, bytes, tag
  <2>7. Tiles(bytes, tag, c, rs) /\ rs # <<>>
    <3>1. Tiles(bytes, tag, c, rs)
      BY <2>5, <2>6
    <3>2. rs = <<>> <=> c = L
      BY <3>1 DEF Tiles
    <3>3. c # L
      BY <1>1, <1>4, <1>6
    <3> QED BY <3>1, <3>2, <3>3
  <2>8. Len(rs) \in Nat /\ Len(rs) # 0
    BY <2>5, <2>7, EmptySeq
  <2>9. Len(rs) \in 1..Len(rs) /\ End(rs[Len(rs)], tag) >= L
    BY <2>7, <2>8 DEF Tiles
  <2>10. End(rs[Len(rs)], tag) \in Nat
    <3>1. rs[Len(rs)].offset \in c..L /\ rs[Len(rs)].body \in Nat
      BY <2>7, <2>9 DEF Tiles
    <3> DEFINE r == rs[Len(rs)]
    <3>2. r.offset \in c..L /\ r.body \in Nat
      BY <3>1
    <3> HIDE DEF r
    <3>3. r.offset + HeaderBytes(tag) + r.body \in Nat
      BY <1>1, <1>4, <3>2, SMTT(30)
    <3> QED BY <3>3 DEF End, r
  <2>11. d \in Nat
    BY <1>4, <2>3, <2>9, <2>10
  <2>12. ~(c >= L)
    BY <2>1
  <2> QED BY <1>4, <2>3, <2>5, <2>7, <2>9, <2>11, <2>12 DEF rs, d, bytes, tag
<1> QED
  BY <1>1, <1>4, <1>5, <1>6

\* No record but the last ends after its member, which ends what is owing
\* after it.
LEMMA RecordEnds ==
  ASSUME NEW p, NEW m, NEW c, Read(p, m, c),
         NEW k \in 1..Len(Records(p[m].bytes, p[m].tag, c))
  PROVE  LET L  == Len(p[m].bytes)
             r  == Records(p[m].bytes, p[m].tag, c)[k]
             h  == HeaderBytes(p[m].tag)
             d  == TrailingDeficit(p[m].bytes, p[m].tag, c)
         IN  /\ c < L
             /\ r.offset \in c..L /\ r.offset + h <= L /\ r.body \in Nat
             /\ End(r, p[m].tag) = r.offset + h + r.body /\ End(r, p[m].tag) \in Nat
             /\ End(r, p[m].tag) <= L + d
             /\ End(r, p[m].tag) <= L \/ End(r, p[m].tag) = L + d
<1> DEFINE tag == p[m].tag
           L == Len(p[m].bytes)
           rs == Records(p[m].bytes, tag, c)
           r == rs[k]
           h == HeaderBytes(tag)
           d == TrailingDeficit(p[m].bytes, tag, c)
<1>1. /\ L \in Nat /\ d \in Nat /\ rs \in Seq(Record) /\ h \in Nat \ {0} /\ c \in Nat
      /\ c >= L => rs = <<>>
      /\ c < L => /\ Len(rs) \in 1..Len(rs)
                  /\ Tiles(p[m].bytes, tag, c, rs)
                  /\ d = End(rs[Len(rs)], tag) - L
  BY RecordsRead DEF Read
<1>2. Len(rs) \in Nat /\ k \in 1..Len(rs)
  <2> HIDE DEF rs
  <2>1. Len(rs) \in Nat
    BY <1>1, LenProperties
  <2> QED BY <2>1 DEF rs
<1>3. c < L
  <2>1. c >= L => Len(rs) = 0
    BY <1>1, EmptySeq
  <2> HIDE DEF rs
  <2> QED BY <1>1, <1>2, <2>1
<1> HIDE DEF rs
<1>4. /\ \A x \in 1..Len(rs) : /\ rs[x].offset \in c..L /\ rs[x].body \in Nat
                               /\ rs[x].offset + h <= L
      /\ \A x, y \in 1..Len(rs) : x < y => End(rs[x], tag) <= rs[y].offset
  BY <1>1, <1>3 DEF Tiles
<1>5. r.offset \in c..L /\ r.body \in Nat /\ r.offset + h <= L
  BY <1>2, <1>4
<1>6. End(r, tag) = r.offset + h + r.body
  BY DEF End
<1>7. End(r, tag) <= L \/ End(r, tag) = L + d
  <2>1. CASE k = Len(rs)
    <3>1. d = End(r, tag) - L
      BY <1>1, <1>3, <2>1
    <3>2. End(r, tag) \in Int
      <4> HIDE DEF r
      <4> QED BY <1>1, <1>5, <1>6
    <3> HIDE DEF r, d
    <3> QED BY <1>1, <3>1, <3>2
  <2>2. CASE k # Len(rs)
    <3>1. k < Len(rs)
      BY <1>2, <2>2
    <3>2. End(rs[k], tag) <= rs[Len(rs)].offset
      BY <1>1, <1>2, <1>3, <1>4, <3>1
    <3>3. rs[Len(rs)].offset \in c..L
      BY <1>1, <1>3, <1>4
    <3>4. End(r, tag) \in Int
      <4> HIDE DEF r
      <4> QED BY <1>1, <1>5, <1>6
    <3> DEFINE e == End(r, tag)
               o == rs[Len(rs)].offset
    <3>5. e <= o /\ o \in c..L /\ e \in Int
      BY <3>2, <3>3, <3>4
    <3> HIDE DEF e, o
    <3>6. e <= L
      BY <1>1, <3>5
    <3> QED BY <3>6 DEF e
  <2> QED BY <2>1, <2>2
<1>8. End(r, tag) \in Nat /\ End(r, tag) <= L + d
  <2> HIDE DEF r, d, tag, h, L
  <2>1. End(r, tag) \in Nat
    BY <1>1, <1>5, <1>6, SMTT(30)
  <2> QED BY <1>1, <1>7, <2>1
<1> QED
  BY <1>3, <1>5, <1>6, <1>7, <1>8 DEF rs

EndsWithin(p, m, c, r) ==
    /\ c < Len(p[m].bytes)
    /\ r.offset \in c..Len(p[m].bytes) /\ r.body \in Nat
    /\ r.offset + HeaderBytes(p[m].tag) <= Len(p[m].bytes)
    /\ End(r, p[m].tag) = r.offset + HeaderBytes(p[m].tag) + r.body
    /\ End(r, p[m].tag) \in Nat
    /\ End(r, p[m].tag) <= Len(p[m].bytes) + TrailingDeficit(p[m].bytes, p[m].tag, c)

LEMMA RecordsEndWithin ==
  ASSUME NEW p, NEW m, NEW c, Read(p, m, c), NEW rs, rs = Records(p[m].bytes, p[m].tag, c)
  PROVE  \A k \in 1..Len(rs) : EndsWithin(p, m, c, rs[k])
BY RecordEnds DEF EndsWithin

\* The payload is a beginning of what is stored from the member on, over
\* members with descriptors: all that the records need, or the member alone
\* where the members with descriptors that follow do not hold that much.
Runs(p, m, d, payload, k) ==
    /\ \A x \in (m + 1)..k : HasDescriptor(p[x])
    /\ payload \in Seq(Cell)
    /\ Len(payload) >= Len(p[m].bytes)
    /\ Len(payload) <= Len(StretchOf(p, m, k))
    /\ \A x \in 1..Len(payload) : payload[x] = StretchOf(p, m, k)[x]
    /\ \/ Len(payload) = Len(p[m].bytes) + d
       \/ /\ Len(payload) = Len(p[m].bytes)
          /\ Len(StretchOf(p, m, k)) < Len(p[m].bytes) + d
          /\ k < Len(p) => ~HasDescriptor(p[k + 1])

LEMMA PayloadRuns ==
  ASSUME NEW p \in Seq(Member), NEW m \in 1..Len(p), NEW d \in Nat
  PROVE  \E k \in m..Len(p) : Runs(p, m, d, Placed(p, m) \o SpilledTail(p, m, d), k)
<1>1. PICK k \in m..Len(p) :
           /\ LookedAt(p, m, d) = (m + 1)..k
           /\ m + Cardinality(LookedAt(p, m, d)) = k
           /\ \A x \in (m + 1)..k : HasDescriptor(p[x])
           /\ k < Len(p) /\ HasDescriptor(p[k + 1]) => Len(StretchOf(p, m + 1, k)) >= d
  BY LookedAtIsARun
<1> DEFINE a == Placed(p, m)
           found == StretchOf(p, m + 1, k)
           tail == SpilledTail(p, m, d)
           L == Len(p[m].bytes)
           all == StretchOf(p, m, k)
<1>2. Len(p) \in Nat /\ m + 1 \in 1..(Len(p) + 1) /\ k \in ((m + 1) - 1)..Len(p) /\ m \in Nat /\ k \in Nat
      /\ m \in 1..(Len(p) + 1) /\ m \in (m - 1)..Len(p)
  OBVIOUS
<1>3. a \in Seq(Cell) /\ found \in Seq(Cell) /\ Len(a) = L /\ L \in Nat /\ Len(found) \in Nat
  BY <1>2, PlacedIsSeq, StretchIsSeq
<1>4. StretchOf(p, m, m) = a
  <2>1. m \in m..Len(p)
    BY <1>2
  <2>2. StretchOf(p, m, m) = StretchOf(p, m, m - 1) \o a
    BY <2>1, StretchStep
  <2>3. StretchOf(p, m, m - 1) = <<>>
    BY <1>2, StretchOfNone
  <2> QED BY <1>3, <2>2, <2>3, ConcatEmptySeq
<1>5. all = a \o found
  BY <1>2, <1>4, StretchSplit
<1>6. tail = IF d <= Len(found) THEN SubSeq(found, 1, d) ELSE <<>>
  BY <1>1 DEF SpilledTail
<1> DEFINE payload == a \o tail
<1> HIDE DEF a, found, tail, all, L
<1>7. /\ Len(all) = L + Len(found)
      /\ \A x \in 1..(L + Len(found)) : all[x] = IF x <= L THEN a[x] ELSE found[x - L]
  BY <1>3, <1>5, ConcatProperties
<1>8. CASE d <= Len(found)
  <2>1. tail \in Seq(Cell) /\ Len(tail) = d /\ \A x \in 1..d : tail[x] = found[x]
    <3>0. \A x \in 1..d : found[x] \in Cell
      BY <1>3, <1>8, ElementOfSeq
    <3> DEFINE t == SubSeq(found, 1, d)
    <3>1. /\ t \in Seq(Cell) /\ Len(t) = IF 1 <= d THEN d - 1 + 1 ELSE 0
          /\ \A x \in 1..(d - 1 + 1) : t[x] = found[1 + x - 1]
      BY <3>0, SubSeqProperties
    <3>2. t = tail
      BY <1>6, <1>8
    <3> HIDE DEF t
    <3> QED BY <3>1, <3>2
  <2>2. /\ payload \in Seq(Cell) /\ Len(payload) = L + d
        /\ \A x \in 1..(L + d) : payload[x] = IF x <= L THEN a[x] ELSE tail[x - L]
    BY <1>3, <2>1, ConcatProperties
  <2> HIDE DEF payload
  <2>3. ASSUME NEW x \in 1..Len(payload) PROVE payload[x] = all[x]
    <3>1. x \in 1..(L + d) /\ x \in 1..(L + Len(found))
      BY <1>3, <1>8, <2>2
    <3>2. CASE x <= L
      BY <1>7, <2>2, <3>1, <3>2
    <3>3. CASE ~(x <= L)
      <4>1. x - L \in 1..d
        BY <1>3, <3>1, <3>3
      <4>2. payload[x] = tail[x - L] /\ all[x] = found[x - L]
        BY <1>7, <2>2, <3>1, <3>3
      <4> QED BY <2>1, <4>1, <4>2
    <3> QED BY <3>2, <3>3
  <2>4. Runs(p, m, d, payload, k)
    BY <1>1, <1>3, <1>7, <1>8, <2>2, <2>3 DEF Runs, all, L
  <2> QED BY <2>4 DEF payload, a, tail
<1>9. CASE ~(d <= Len(found))
  <2>1. payload = a
    <3>1. tail = <<>>
      BY <1>6, <1>9
    <3> QED BY <1>3, <3>1, ConcatEmptySeq
  <2> HIDE DEF payload
  <2>2. payload \in Seq(Cell) /\ Len(payload) = L
    BY <1>3, <2>1
  <2>3. \A x \in 1..Len(payload) : payload[x] = all[x]
    BY <1>3, <1>7, <2>1, <2>2
  <2>4. Len(all) < L + d /\ Len(all) >= L
    BY <1>3, <1>7, <1>9
  <2>5. k < Len(p) => ~HasDescriptor(p[k + 1])
    <3>1. ~(Len(found) >= d)
      BY <1>3, <1>9
    <3> QED BY <1>1, <3>1 DEF found
  <2>6. Runs(p, m, d, payload, k)
    BY <1>1, <1>3, <2>2, <2>3, <2>4, <2>5, SMTT(30) DEF Runs, all, L
  <2> QED BY <2>6 DEF payload, a, tail
<1> QED
  BY <1>8, <1>9

\* Where two sequences are the same up to the end of a body, so is the body.
LEMMA SameBody ==
  ASSUME NEW S, NEW s \in Seq(S), NEW t \in Seq(S), NEW o \in Nat, NEW b \in Nat,
         o + b <= Len(s), o + b <= Len(t), \A x \in 1..(o + b) : s[x] = t[x]
  PROVE  /\ SubSeq(s, o + 1, o + b) = SubSeq(SubSeq(t, o + 1, Len(t)), 1, b)
         /\ Len(SubSeq(t, o + 1, Len(t))) = Len(t) - o
<1> DEFINE u == SubSeq(t, o + 1, Len(t))
           v == SubSeq(s, o + 1, o + b)
           w == SubSeq(u, 1, b)
<1>0. Len(s) \in Nat /\ Len(t) \in Nat
  OBVIOUS
<1>1. /\ u \in Seq(S) /\ Len(u) = Len(t) - o
      /\ \A i \in 1..(Len(t) - o) : u[i] = t[o + i]
  <2>0. \A i \in (o + 1)..Len(t) : t[i] \in S
    <3>1. \A i \in (o + 1)..Len(t) : i \in 1..Len(t)
      BY <1>0
    <3> QED BY <3>1, ElementOfSeq
  <2>1. /\ u \in Seq(S) /\ Len(u) = IF o + 1 <= Len(t) THEN Len(t) - (o + 1) + 1 ELSE 0
        /\ \A i \in 1..(Len(t) - (o + 1) + 1) : u[i] = t[o + 1 + i - 1]
    BY <1>0, <2>0, SubSeqProperties
  <2> HIDE DEF u
  <2>2. Len(t) - (o + 1) + 1 = Len(t) - o /\ \A i \in 1..(Len(t) - o) : o + 1 + i - 1 = o + i
    BY <1>0
  <2>3. Len(u) = Len(t) - o
    BY <1>0, <2>1
  <2>4. \A i \in 1..(Len(t) - o) : u[i] = t[o + 1 + i - 1]
    BY <2>1, <2>2
  <2>5. \A i \in 1..(Len(t) - o) : u[i] = t[o + i]
    BY <2>2, <2>4
  <2> QED BY <2>1, <2>3, <2>5
<1>2. /\ v \in Seq(S) /\ Len(v) = b
      /\ \A i \in 1..b : v[i] = s[o + i]
  <2>0. \A i \in (o + 1)..(o + b) : s[i] \in S
    <3>1. \A i \in (o + 1)..(o + b) : i \in 1..Len(s)
      BY <1>0
    <3> QED BY <3>1, ElementOfSeq
  <2>1. /\ v \in Seq(S) /\ Len(v) = IF o + 1 <= o + b THEN o + b - (o + 1) + 1 ELSE 0
        /\ \A i \in 1..(o + b - (o + 1) + 1) : v[i] = s[o + 1 + i - 1]
    BY <1>0, <2>0, SubSeqProperties
  <2> HIDE DEF v
  <2>2. o + b - (o + 1) + 1 = b /\ \A i \in 1..b : o + 1 + i - 1 = o + i
    BY <1>0
  <2> QED BY <1>0, <2>1, <2>2
<1> HIDE DEF u, v
<1>3. /\ w \in Seq(S) /\ Len(w) = b
      /\ \A i \in 1..b : w[i] = u[i]
  <2>0. \A i \in 1..b : u[i] \in S
    <3>1. \A i \in 1..b : i \in 1..Len(u)
      BY <1>0, <1>1
    <3> QED BY <1>1, <3>1, ElementOfSeq
  <2>1. /\ w \in Seq(S) /\ Len(w) = IF 1 <= b THEN b - 1 + 1 ELSE 0
        /\ \A i \in 1..(b - 1 + 1) : w[i] = u[1 + i - 1]
    BY <1>0, <2>0, SubSeqProperties
  <2> HIDE DEF w
  <2>2. b - 1 + 1 = b /\ \A i \in 1..b : 1 + i - 1 = i
    BY <1>0
  <2> QED BY <1>0, <2>1, <2>2
<1> HIDE DEF w
<1>4. \A i \in 1..b : v[i] = w[i]
  <2> TAKE i \in 1..b
  <2>1. o + i \in 1..(o + b) /\ i \in 1..(Len(t) - o)
    BY <1>0
  <2>2. v[i] = s[o + i] /\ w[i] = u[i] /\ u[i] = t[o + i]
    BY <1>1, <1>2, <1>3, <2>1
  <2>3. s[o + i] = t[o + i]
    BY <2>1
  <2> QED BY <2>2, <2>3
<1>5. v = w
  BY <1>2, <1>3, <1>4, SeqEqual
<1> QED
  BY <1>1, <1>5 DEF u, v, w

-----------------------------------------------------------------------------
(* Bodies are whole or absent.                                             *)

IsRead(ps, v) ==
    \E n \in 1..Len(ps), m \in Nat, c \in Nat :
        Read(ps[n], m, c) /\ v = Made(ps[n], n, m, c)

LEMMA BodyIsWhole ==
  ASSUME NEW v, IsRead(partitions, v), NEW r \in Range(v.records)
  PROVE  BodyIn(v, r) = IF r.body <= Len(StoredAfter(v, r))
                        THEN SubSeq(StoredAfter(v, r), 1, r.body)
                        ELSE <<>>
<1>1. PICK n \in 1..Len(partitions), m \in Nat, c \in Nat :
        Read(partitions[n], m, c) /\ v = Made(partitions[n], n, m, c)
  BY DEF IsRead
<1> DEFINE p == partitions[n]
           tag == p[m].tag
           L == Len(p[m].bytes)
           h == HeaderBytes(tag)
           d == TrailingDeficit(p[m].bytes, tag, c)
           rs == Records(p[m].bytes, tag, c)
           payload == Placed(p, m) \o SpilledTail(p, m, d)
           end == End(r, tag)
           o == r.offset + h
<1>2. v.part = n /\ v.member = m /\ v.records = rs /\ v.payload = payload
  BY <1>1 DEF Made
<1>3. Read(p, m, c) /\ p \in Seq(Member) /\ m \in 1..Len(p) /\ Len(p) \in Nat /\ tag # "none"
  BY <1>1 DEF Read, Known
<1>4. LayoutOf(v) = tag
  BY <1>2 DEF LayoutOf
<1>5. L \in Nat /\ d \in Nat /\ rs \in Seq(Record) /\ h \in Nat \ {0}
  BY <1>3, RecordsRead
<1>6. PICK j \in 1..Len(rs) : r = rs[j]
  <2> HIDE DEF rs
  <2>1. DOMAIN rs = 1..Len(rs)
    BY <1>5, LenProperties
  <2> QED BY <1>2, <2>1 DEF Range
<1>7. /\ r.offset \in c..L /\ r.offset + h <= L /\ r.body \in Nat
      /\ end = o + r.body /\ end \in Nat /\ end <= L + d
      /\ end <= L \/ end = L + d
  <2> HIDE DEF p
  <2> QED BY <1>3, <1>6, RecordEnds
<1>8. PICK k \in m..Len(p) : Runs(p, m, d, payload, k)
  <2> HIDE DEF p, d
  <2> QED BY <1>3, <1>5, PayloadRuns
<1> DEFINE gaps == {x \in m..Len(p) : p[x].tag = "none"}
           last == IF gaps = {} THEN Len(p) ELSE Min(gaps) - 1
           all == StretchOf(p, m, last)
           begin == StretchOf(p, m, k)
<1>9. StoredAfter(v, r) = SubSeq(all, o + 1, Len(all))
  BY <1>2, <1>4 DEF StoredAfter
<1>10. last \in k..Len(p) /\ (k < Len(p) /\ ~HasDescriptor(p[k + 1]) => last = k)
  <2> HIDE DEF p
  <2>0. k \in m..Len(p) /\ \A x \in (m + 1)..k : HasDescriptor(p[x])
    BY <1>8 DEF Runs
  <2>1. CASE gaps = {}
    <3>1. last = Len(p)
      BY <2>1
    <3>2. k < Len(p) => HasDescriptor(p[k + 1])
      <4>1. k < Len(p) => k + 1 \in m..Len(p) /\ p[k + 1].tag # "none"
        BY <1>3, <2>0, <2>1
      <4> QED BY <4>1 DEF HasDescriptor
    <3> HIDE DEF last
    <3> QED BY <1>3, <2>0, <3>1, <3>2
  <2>2. CASE gaps # {}
    <3>1. gaps \subseteq Nat
      BY <1>3
    <3>2. \E x \in gaps : \A y \in gaps : x <= y
      <4> HIDE DEF gaps
      <4> QED BY <2>2, <3>1, LeastNatural
    <3>3. Min(gaps) \in gaps /\ \A y \in gaps : Min(gaps) <= y
      <4> HIDE DEF gaps
      <4> QED BY <3>2 DEF Min
    <3>4. last = Min(gaps) - 1
      BY <2>2
    <3> DEFINE g == Min(gaps)
    <3>5. g \in m..Len(p) /\ p[g].tag = "none" /\ \A y \in gaps : g <= y
      BY <3>3
    <3>6. last = g - 1
      BY <3>4
    <3> HIDE DEF g, last
    <3>7. g # m
      BY <1>3, <3>5
    <3>8. ~(g \in (m + 1)..k)
      BY <2>0, <3>5 DEF HasDescriptor
    <3>9. g > k
      BY <1>3, <2>0, <3>5, <3>7, <3>8
    <3>10. k < Len(p) /\ ~HasDescriptor(p[k + 1]) => g <= k + 1
      <4>1. k < Len(p) /\ ~HasDescriptor(p[k + 1]) => k + 1 \in gaps
        BY <1>3, <2>0 DEF HasDescriptor
      <4> QED BY <3>5, <4>1
    <3> QED BY <1>3, <2>0, <3>5, <3>6, <3>9, <3>10
  <2> QED BY <2>1, <2>2
<1>11. /\ begin \in Seq(Cell) /\ all \in Seq(Cell) /\ Len(begin) <= Len(all)
       /\ Len(begin) \in Nat /\ Len(all) \in Nat
       /\ \A x \in 1..Len(begin) : begin[x] = all[x]
  <2> HIDE DEF p, last
  <2>1. m \in 1..(Len(p) + 1) /\ k \in (m - 1)..Len(p) /\ last \in k..Len(p) /\ last \in (m - 1)..Len(p)
        /\ k + 1 \in 1..(Len(p) + 1) /\ last \in ((k + 1) - 1)..Len(p)
    BY <1>3, <1>10
  <2> DEFINE b == StretchOf(p, m, k)
             t == StretchOf(p, k + 1, last)
             w == StretchOf(p, m, last)
  <2>2. w = b \o t
    BY <1>3, <2>1, StretchSplit
  <2>3. b \in Seq(Cell) /\ t \in Seq(Cell) /\ w \in Seq(Cell)
    BY <1>3, <2>1, StretchIsSeq
  <2> HIDE DEF b, t, w
  <2>4. /\ Len(b) \in Nat /\ Len(t) \in Nat /\ Len(w) = Len(b) + Len(t)
        /\ \A x \in 1..(Len(b) + Len(t)) : w[x] = IF x <= Len(b) THEN b[x] ELSE t[x - Len(b)]
    BY <2>2, <2>3, ConcatProperties, LenProperties
  <2>5. \A x \in 1..Len(b) : b[x] = w[x]
    BY <2>4
  <2> QED BY <2>3, <2>4, <2>5 DEF b, w
<1>12. /\ payload \in Seq(Cell) /\ Len(payload) >= L /\ Len(payload) <= Len(begin) /\ Len(payload) \in Nat
       /\ \A x \in 1..Len(payload) : payload[x] = begin[x]
       /\ \/ Len(payload) = L + d
          \/ /\ Len(payload) = L /\ Len(begin) < L + d
             /\ k < Len(p) => ~HasDescriptor(p[k + 1])
  <2> HIDE DEF p, d, payload
  <2>1. payload \in Seq(Cell)
    BY <1>8 DEF Runs
  <2>2. Len(payload) \in Nat
    BY <2>1, LenProperties
  <2> QED BY <1>8, <2>2 DEF Runs
<1>13. BodyIn(v, r) = IF end <= Len(payload) THEN SubSeq(payload, o + 1, end) ELSE <<>>
  BY <1>2, <1>4 DEF BodyIn
<1> HIDE DEF p, tag, L, h, d, rs, payload, last, gaps, all, begin
<1>14. o \in Nat /\ o <= L /\ o + r.body = end
  <2>1. c \in Nat /\ h \in Nat /\ L \in Nat
    BY <1>3, <1>5 DEF Read
  <2> DEFINE a == r.offset
  <2>2. a \in c..L /\ o = a + h /\ o <= L /\ o + r.body = end
    BY <1>7
  <2> HIDE DEF a, o, end
  <2> QED BY <2>1, <2>2
<1> DEFINE body == r.body
<1>15. body \in Nat /\ end = o + body
  BY <1>7
<1> HIDE DEF o, body, end
<1>16. o + 0 <= Len(all) /\ Len(SubSeq(all, o + 1, Len(all))) = Len(all) - o
  <2>1. o + 0 <= Len(all) /\ 0 \in Nat
    BY <1>5, <1>11, <1>12, <1>14
  <2>2. \A x \in 1..(o + 0) : all[x] = all[x]
    OBVIOUS
  <2> QED BY <1>11, <1>14, <2>1, <2>2, SameBody
<1>17. CASE end <= Len(payload)
  <2>1. o + body <= Len(payload) /\ o + body <= Len(all)
    BY <1>11, <1>12, <1>14, <1>15, <1>17
  <2>2. \A x \in 1..(o + body) : payload[x] = all[x]
    <3>1. \A x \in 1..(o + body) : x \in 1..Len(payload) /\ x \in 1..Len(begin)
      BY <1>11, <1>12, <1>14, <1>15, <2>1
    <3> QED BY <1>11, <1>12, <3>1
  <2>3. SubSeq(payload, o + 1, o + body) = SubSeq(SubSeq(all, o + 1, Len(all)), 1, body)
    BY <1>11, <1>12, <1>14, <1>15, <2>1, <2>2, SameBody, SMTT(30)
  <2>4. body <= Len(StoredAfter(v, r))
    BY <1>9, <1>11, <1>14, <1>15, <1>16, <2>1
  <2> QED BY <1>9, <1>13, <1>15, <1>17, <2>3, <2>4 DEF body
<1>18. CASE ~(end <= Len(payload))
  <2>1. Len(payload) = L /\ end = L + d /\ Len(begin) < L + d /\ (k < Len(p) => ~HasDescriptor(p[k + 1]))
    BY <1>5, <1>7, <1>12, <1>14, <1>18 DEF end
  <2>2. last = k
    BY <1>3, <1>10, <2>1
  <2>3. all = begin
    BY <2>2 DEF all, begin
  <2>4. ~(body <= Len(StoredAfter(v, r)))
    BY <1>5, <1>9, <1>11, <1>14, <1>15, <1>16, <2>1, <2>3, SMTT(30)
  <2> QED BY <1>13, <1>18, <2>4 DEF body
<1> QED
  BY <1>17, <1>18

\* What may be shown of these partitions.
Entries(ps) == {v \in {Made(ps[n], n, m, c) : n \in Nat, m \in Nat, c \in Nat} : IsRead(ps, v)}

EntriesAreRead ==
    /\ carry \in Nat
    /\ visited \in Seq(Entries(partitions))
    /\ batch \in Seq(Entries(partitions))

LEMMA ResolvedIsRead ==
  ASSUME EntriesAreRead
  PROVE  /\ Resolved \in Seq(Entries(partitions))
         /\ \A v \in Range(Resolved) : IsRead(partitions, v)
<1> DEFINE S == Entries(partitions)
           s == Resolved
<1>1. s \in Seq(S)
  <2> HIDE DEF S
  <2>1. visited \in Seq(S) /\ batch \in Seq(S)
    BY DEF EntriesAreRead, S
  <2> QED BY <2>1, ConcatProperties DEF Resolved
<1>2. \A v \in Range(s) : v \in S
  <2> HIDE DEF s, S
  <2>1. DOMAIN s = 1..Len(s)
    BY <1>1, LenProperties
  <2> QED BY <1>1, <2>1, ElementOfSeq DEF Range
<1>3. \A v \in S : IsRead(partitions, v)
  BY DEF Entries
<1> QED
  BY <1>1, <1>2, <1>3

\* What one step resolves.
LEMMA ResolveReads ==
  ASSUME Position, EntriesAreRead, Resolve
  PROVE  LET p == Members
             m == at + 1
             v == Made(p, part, m, carry)
         IN  /\ Read(p, m, carry) /\ p = partitions[part]
             /\ part \in 1..Len(partitions) /\ at \in Nat /\ m \in Nat
             /\ v \in Entries(partitions)
             /\ carry' = TrailingDeficit(p[m].bytes, p[m].tag, carry) /\ carry' \in Nat
             /\ batch' = Append(batch, v) /\ at' = m
             /\ UNCHANGED <<partitions, part, phase, visited>> /\ Walking
<1> DEFINE p == Members
           m == at + 1
           v == Made(p, part, m, carry)
<1>1. /\ phase = "resolving" /\ at < upto /\ Known(p[m]) /\ at' = m
      /\ TruncatedHeader \notin Range(Records(p[m].bytes, p[m].tag, carry))
      /\ carry' = TrailingDeficit(p[m].bytes, p[m].tag, carry)
      /\ batch' = Append(batch, v)
      /\ UNCHANGED <<partitions, part, phase, visited>>
  BY DEF Resolve, Resolving, Following, WalkFails, Walk, WalkFrom, Made
<1>2. /\ part \in 1..Len(partitions) /\ at \in Nat /\ Walking /\ partitions \in Inputs
      /\ upto \in Nat /\ upto <= Len(p)
  BY <1>1, InputsAre DEF Position, Walking
<1>3. p \in Seq(Member) /\ Len(p) \in Nat /\ p = partitions[part]
  BY <1>2, InputsAre DEF Members
<1>4. Read(p, m, carry) /\ m \in Nat /\ part \in Nat
  <2>1. m \in 1..Len(p) /\ part \in Nat
    BY <1>1, <1>2, <1>3, InputsAre
  <2>2. carry \in Nat
    BY DEF EntriesAreRead
  <2> HIDE DEF p, m
  <2> QED BY <1>1, <1>3, <2>1, <2>2 DEF Read
<1>5. carry' \in Nat
  <2> HIDE DEF p, m
  <2> QED BY <1>1, <1>4, RecordsRead
<1>6. v \in Entries(partitions)
  <2> HIDE DEF m
  <2>1. v = Made(partitions[part], part, m, carry) /\ carry \in Nat
    BY <1>3 DEF EntriesAreRead
  <2>2. Read(partitions[part], m, carry)
    BY <1>3, <1>4
  <2> HIDE DEF v
  <2>3. IsRead(partitions, v)
    BY <1>2, <1>4, <2>1, <2>2 DEF IsRead
  <2> QED BY <1>4, <2>1, <2>3 DEF Entries
<1> QED
  BY <1>1, <1>2, <1>3, <1>4, <1>5, <1>6

LEMMA InitEntriesAreRead == Init => EntriesAreRead
<1>1. \A S : <<>> \in Seq(S)
  BY EmptySeq
<1> QED
  BY <1>1 DEF Init, EntriesAreRead

LEMMA NextEntriesAreRead == Position /\ EntriesAreRead /\ [Next]_vars => EntriesAreRead'
<1> SUFFICES ASSUME Position, EntriesAreRead, [Next]_vars PROVE EntriesAreRead'
  OBVIOUS
<1> DEFINE S == Entries(partitions)
<1>0. carry \in Nat /\ visited \in Seq(S) /\ batch \in Seq(S)
  BY DEF EntriesAreRead
<1>1. CASE UNCHANGED <<partitions, visited, batch>> /\ carry' \in {0, carry}
  BY <1>0, <1>1 DEF EntriesAreRead
<1>2. CASE OpenPartition \/ InventoryFails \/ ResolveFails \/ PrepareMembers \/ ClosePartition
           \/ Skip \/ ResolveNothing \/ UNCHANGED vars
  <2>1. UNCHANGED <<partitions, visited, batch>> /\ carry' \in {0, carry}
    BY <1>2 DEF OpenPartition, InventoryFails, ResolveFails, Fail, PrepareMembers, CarryKept,
                ClosePartition, Skip, ResolveNothing, vars
  <2> QED BY <1>1, <2>1
<1>3. CASE Resolve
  <2>1. PICK v \in S : batch' = Append(batch, v) /\ carry' \in Nat /\ UNCHANGED <<partitions, visited>>
    BY <1>3, ResolveReads
  <2>2. batch' \in Seq(S)
    <3> HIDE DEF S
    <3> QED BY <1>0, <2>1, AppendProperties
  <2> QED BY <1>0, <2>1, <2>2 DEF EntriesAreRead
<1>4. CASE VisitBatch
  <2>1. visited' = visited \o batch /\ batch' = <<>> /\ UNCHANGED <<partitions, carry>>
    BY <1>4 DEF VisitBatch
  <2>2. visited' \in Seq(S) /\ batch' \in Seq(S)
    <3> HIDE DEF S
    <3> QED BY <1>0, <2>1, ConcatProperties, EmptySeq
  <2> QED BY <1>0, <2>1, <2>2 DEF EntriesAreRead
<1> QED
  BY <1>2, <1>3, <1>4 DEF Next

\* A body is whole or absent (MemberRecord::body_in over the payload that
\* complete_spilled_record assembles): what follows the record's header in the
\* partition, over as many members as it takes.
THEOREM BodiesWholeOrAbsent == Spec => []BodiesAreWholeOrAbsent
<1>1. Init => Position /\ EntriesAreRead
  BY InitPosition, InitEntriesAreRead
<1>2. Position /\ EntriesAreRead /\ [Next]_vars => Position' /\ EntriesAreRead'
  BY NextPosition, NextEntriesAreRead
<1>3. EntriesAreRead => BodiesAreWholeOrAbsent
  BY ResolvedIsRead, BodyIsWhole DEF BodiesAreWholeOrAbsent
<1> QED
  BY <1>1, <1>2, <1>3, PTL DEF Spec

-----------------------------------------------------------------------------
(* Where a byte is in its partition.                                       *)

\* How many bytes come before a member.
Base(p, m) == Len(StretchOf(p, 1, m - 1))

LEMMA BaseSteps ==
  ASSUME NEW p \in Seq(Member), NEW m \in 1..Len(p)
  PROVE  /\ Base(p, m) \in Nat /\ Base(p, m + 1) \in Nat /\ Len(p[m].bytes) \in Nat
         /\ Base(p, m + 1) = Base(p, m) + Len(p[m].bytes)
<1>1. Len(p) \in Nat /\ 1 \in 1..Len(p) /\ m - 1 \in 0..Len(p) /\ m + 1 - 1 = m
      /\ 1 \in 1..(Len(p) + 1) /\ m - 1 \in (1 - 1)..Len(p)
  OBVIOUS
<1> DEFINE a == StretchOf(p, 1, m - 1)
           b == Placed(p, m)
<1>2. StretchOf(p, 1, m) = a \o b
  BY <1>1, StretchStep
<1>3. a \in Seq(Cell) /\ b \in Seq(Cell) /\ Len(b) = Len(p[m].bytes)
  BY <1>1, StretchIsSeq, PlacedIsSeq
<1> HIDE DEF a, b
<1>4. Len(a \o b) = Len(a) + Len(b) /\ Len(a) \in Nat /\ Len(b) \in Nat
  BY <1>3, ConcatProperties, LenProperties
<1>5. Base(p, m) = Len(a)
  BY DEF Base, a
<1>6. Base(p, m + 1) = Len(a \o b)
  <2> DEFINE n == m + 1
  <2>1. n - 1 = m
    BY <1>1
  <2> HIDE DEF n
  <2>2. Base(p, n) = Len(a \o b)
    BY <1>2, <2>1 DEF Base
  <2> QED BY <2>2 DEF n
<1> QED
  BY <1>3, <1>4, <1>5, <1>6

LEMMA BaseAfter ==
  ASSUME NEW p \in Seq(Member), NEW m \in 1..(Len(p) + 1), NEW n \in m..(Len(p) + 1)
  PROVE  /\ Base(p, m) \in Nat /\ Base(p, n) \in Nat /\ Base(p, m) <= Base(p, n)
         /\ Base(p, n) = Base(p, m) + Len(StretchOf(p, m, n - 1))
<1>1. Len(p) \in Nat /\ 1 \in 1..(Len(p) + 1)
  OBVIOUS
<1> DEFINE k == m - 1
           j == n - 1
<1>2. k \in (1 - 1)..Len(p) /\ j \in k..Len(p) /\ k + 1 = m
  BY <1>1
<1>3. Base(p, m) = Len(StretchOf(p, 1, k)) /\ Base(p, n) = Len(StretchOf(p, 1, j))
  BY DEF Base
<1> HIDE DEF k, j
<1>4. /\ Len(StretchOf(p, 1, j)) = Len(StretchOf(p, 1, k)) + Len(StretchOf(p, k + 1, j))
      /\ Len(StretchOf(p, 1, k)) \in Nat /\ Len(StretchOf(p, k + 1, j)) \in Nat
  BY <1>1, <1>2, StretchLengths
<1> QED
  BY <1>2, <1>3, <1>4 DEF j

Place(p, b) == Base(p, b[1]) + b[2]

LEMMA PlaceInStretch ==
  ASSUME NEW p \in Seq(Member), NEW i \in 1..Len(p), NEW j \in (i - 1)..Len(p)
  PROVE  \A x \in 1..Len(StretchOf(p, i, j)) : Place(p, StretchOf(p, i, j)[x]) = Base(p, i) + x
<1> DEFINE Good(n) == \A x \in 1..Len(StretchOf(p, i, n)) : Place(p, StretchOf(p, i, n)[x]) = Base(p, i) + x
           N == {n \in Nat : n \in (i - 1)..Len(p) => Good(n)}
<1>0. Len(p) \in Nat /\ i \in Nat
  OBVIOUS
<1>1. ASSUME NEW n \in Nat, \A m \in 0..(n - 1) : m \in N PROVE n \in N
  <2> SUFFICES ASSUME n \in (i - 1)..Len(p) PROVE Good(n)
    OBVIOUS
  <2>1. CASE n = i - 1
    <3>1. Len(StretchOf(p, i, i - 1)) = 0
      <4>1. StretchOf(p, i, i - 1) = <<>>
        BY StretchOfNone
      <4> QED BY <4>1, EmptySeq
    <3> QED BY <2>1, <3>1
  <2>2. CASE n # i - 1
    <3>1. n \in i..Len(p) /\ n - 1 \in (i - 1)..Len(p) /\ n \in 1..Len(p) /\ i \in 1..(Len(p) + 1)
          /\ n \in i..(Len(p) + 1)
      BY <1>0, <2>2
    <3>2. Good(n - 1)
      <4>1. n - 1 \in N
        <5> HIDE DEF N
        <5> QED BY <1>0, <1>1, <2>2
      <4> HIDE DEF Good
      <4> QED BY <3>1, <4>1
    <3> HIDE DEF N
    <3> DEFINE a == StretchOf(p, i, n - 1)
               b == Placed(p, n)
               w == StretchOf(p, i, n)
    <3>3. w = a \o b
      BY <3>1, StretchStep
    <3>4. a \in Seq(Cell) /\ b \in Seq(Cell) /\ Len(b) \in Nat /\ \A x \in 1..Len(b) : b[x] = <<n, x>>
      <4>1. a \in Seq(Cell)
        BY <3>1, StretchIsSeq
      <4>2. b \in Seq(Cell) /\ Len(b) \in Nat /\ \A x \in 1..Len(b) : b[x] = <<n, x>>
        BY <3>1, PlacedIsSeq
      <4> QED BY <4>1, <4>2
    <3>5. \A x \in 1..Len(a) : Place(p, a[x]) = Base(p, i) + x
      BY <3>2
    <3>6. Base(p, n) = Base(p, i) + Len(a) /\ Base(p, i) \in Nat
      BY <3>1, BaseAfter
    <3> HIDE DEF a, b, w, Good
    <3>7. /\ Len(w) = Len(a) + Len(b) /\ Len(a) \in Nat
          /\ \A x \in 1..(Len(a) + Len(b)) : w[x] = IF x <= Len(a) THEN a[x] ELSE b[x - Len(a)]
      BY <3>3, <3>4, ConcatProperties, LenProperties
    <3>8. ASSUME NEW x \in 1..Len(w) PROVE Place(p, w[x]) = Base(p, i) + x
      <4>1. CASE x <= Len(a)
        <5>1. w[x] = a[x] /\ x \in 1..Len(a)
          BY <3>4, <3>7, <4>1
        <5> QED BY <3>5, <5>1
      <4>2. CASE ~(x <= Len(a))
        <5>1. w[x] = b[x - Len(a)] /\ x - Len(a) \in 1..Len(b)
          BY <3>4, <3>7, <4>2
        <5>2. w[x] = <<n, x - Len(a)>>
          BY <3>4, <5>1
        <5>3. Place(p, w[x]) = Base(p, n) + (x - Len(a))
          BY <5>2 DEF Place
        <5> QED BY <3>4, <3>6, <3>7, <5>3
      <4> QED BY <4>1, <4>2
    <3> QED BY <3>8 DEF w, Good
  <2> QED BY <2>1, <2>2
<1>2. Nat \subseteq N
  <2> HIDE DEF N
  <2> QED BY <1>1, Induction
<1>3. j \in Nat
  BY <1>0
<1> QED
  BY <1>2, <1>3

-----------------------------------------------------------------------------
(* Where a record is in its partition.                                     *)

From(ps, v, r) == Base(ps[v.part], v.member) + r.offset
To(ps, v, r) ==
    LET tag == ps[v.part][v.member].tag
    IN  Base(ps[v.part], v.member)
          + (IF End(r, tag) <= Len(v.payload) THEN End(r, tag) ELSE r.offset + HeaderBytes(tag))

\* Of an entry read of member m of partition p with c bytes carried into it.
Bounds(p, m, c, v) ==
    LET d == TrailingDeficit(p[m].bytes, p[m].tag, c)
    IN  /\ \A r \in Range(v.records) :
             /\ c < Len(p[m].bytes)
             /\ From(partitions, v, r) \in Nat /\ To(partitions, v, r) \in Nat
             /\ Base(p, m) + c <= From(partitions, v, r)
             /\ To(partitions, v, r) <= Base(p, m + 1) + d
             /\ \A x \in (m + 1)..Len(p) : p[x].tag = "none" => To(partitions, v, r) <= Base(p, x)
             /\ \A s \in Spanned(v, r) :
                  s[1] = v.part /\ Base(p, s[2]) + s[3] \in (From(partitions, v, r) + 1)..To(partitions, v, r)
        /\ \A k, l \in DOMAIN v.records : k < l => To(partitions, v, v.records[k]) <= From(partitions, v, v.records[l])

LEMMA EntryBounds ==
  ASSUME NEW n, NEW m, NEW c, NEW p, p = partitions[n], Read(p, m, c),
         NEW v, v = Made(p, n, m, c)
  PROVE  Bounds(p, m, c, v) /\ DOMAIN v.records = 1..Len(v.records) /\ Len(v.records) \in Nat
<1> DEFINE tag == p[m].tag
           L == Len(p[m].bytes)
           h == HeaderBytes(tag)
           d == TrailingDeficit(p[m].bytes, tag, c)
           rs == Records(p[m].bytes, tag, c)
           payload == Placed(p, m) \o SpilledTail(p, m, d)
           base == Base(p, m)
<1>1. v.part = n /\ v.member = m /\ v.records = rs /\ v.payload = payload
  BY DEF Made
<1>2. p \in Seq(Member) /\ m \in 1..Len(p) /\ Len(p) \in Nat /\ tag # "none" /\ c \in Nat
  BY DEF Read, Known
<1>3. LayoutOf(v) = tag /\ partitions[v.part] = p
  BY <1>1 DEF LayoutOf
<1>4. L \in Nat /\ d \in Nat /\ rs \in Seq(Record) /\ h \in Nat \ {0}
  BY RecordsRead
<1>5. DOMAIN rs = 1..Len(rs) /\ Len(rs) \in Nat
  <2> HIDE DEF rs
  <2> QED BY <1>4, LenProperties
<1>6. base \in Nat /\ Base(p, m + 1) \in Nat /\ Base(p, m + 1) = base + L
  BY <1>2, BaseSteps
<1>7. PICK k \in m..Len(p) : Runs(p, m, d, payload, k)
  <2> HIDE DEF d
  <2> QED BY <1>2, <1>4, PayloadRuns
<1>8. \A r \in Range(rs) : \E j \in 1..Len(rs) : r = rs[j]
  <2> HIDE DEF rs
  <2> QED BY <1>5 DEF Range
<1>9. ASSUME NEW r \in Range(rs)
      PROVE  /\ c < L
             /\ r.offset \in c..L /\ r.offset + h <= L /\ r.body \in Nat
             /\ End(r, tag) = r.offset + h + r.body /\ End(r, tag) \in Nat
             /\ End(r, tag) <= L + d
  <2>1. PICK j \in 1..Len(rs) : r = rs[j]
    BY <1>8, <1>9
  <2>2. \A i \in 1..Len(rs) : EndsWithin(p, m, c, rs[i])
    BY RecordsEndWithin
  <2>3. EndsWithin(p, m, c, r)
    <3> HIDE DEF rs
    <3> QED BY <2>1, <2>2
  <2> QED BY <2>3 DEF EndsWithin
<1>10. \A r : /\ From(partitions, v, r) = base + r.offset
              /\ To(partitions, v, r) = base + (IF End(r, tag) <= Len(payload) THEN End(r, tag) ELSE r.offset + h)
  BY <1>1, <1>3 DEF From, To
<1>11. /\ payload \in Seq(Cell) /\ Len(payload) \in Nat /\ Len(payload) <= Len(StretchOf(p, m, k))
       /\ \A x \in 1..Len(payload) : payload[x] = StretchOf(p, m, k)[x]
       /\ \A x \in (m + 1)..k : HasDescriptor(p[x])
  <2> HIDE DEF payload, d
  <2> QED BY <1>7, LenProperties DEF Runs
<1>12. /\ \A x \in 1..Len(StretchOf(p, m, k)) : Place(p, StretchOf(p, m, k)[x]) = base + x
       /\ Base(p, k + 1) = base + Len(StretchOf(p, m, k)) /\ Base(p, k + 1) \in Nat
       /\ Len(StretchOf(p, m, k)) \in Nat
  <2>1. k \in (m - 1)..Len(p) /\ m \in 1..(Len(p) + 1) /\ k + 1 \in m..(Len(p) + 1) /\ k + 1 - 1 = k
    BY <1>2
  <2> DEFINE j == k + 1
  <2>2. j \in m..(Len(p) + 1) /\ j - 1 = k
    BY <2>1
  <2> HIDE DEF j
  <2>3. Base(p, j) = base + Len(StretchOf(p, m, k)) /\ Base(p, j) \in Nat
    BY <1>2, <2>1, <2>2, BaseAfter
  <2>4. \A x \in 1..Len(StretchOf(p, m, k)) : Place(p, StretchOf(p, m, k)[x]) = base + x
    BY <1>2, <2>1, PlaceInStretch
  <2>5. Len(StretchOf(p, m, k)) \in Nat
    BY <1>2, <2>1, StretchIsSeq
  <2> QED BY <2>3, <2>4, <2>5 DEF j
<1> HIDE DEF rs, payload, d, h, L, base
<1>13. ASSUME NEW r \in Range(rs)
       PROVE  /\ From(partitions, v, r) \in Nat /\ To(partitions, v, r) \in Nat
              /\ base + c <= From(partitions, v, r)
              /\ From(partitions, v, r) + h <= To(partitions, v, r)
              /\ To(partitions, v, r) <= base + End(r, tag)
              /\ To(partitions, v, r) <= Base(p, m + 1) + d
  <2> DEFINE o == r.offset
             e == End(r, tag)
             b == r.body
  <2>1. o \in c..L /\ o + h <= L /\ b \in Nat /\ e = o + h + b /\ e \in Nat /\ e <= L + d
    BY <1>9, <1>13
  <2>2. From(partitions, v, r) = base + o /\ To(partitions, v, r) = base + (IF e <= Len(payload) THEN e ELSE o + h)
    BY <1>10
  <2> HIDE DEF o, e, b
  <2>3. From(partitions, v, r) \in Nat /\ base + c <= From(partitions, v, r)
    BY <1>2, <1>4, <1>6, <2>1, <2>2
  <2>4. CASE e <= Len(payload)
    <3>1. To(partitions, v, r) = base + e
      BY <2>2, <2>4
    <3> QED BY <1>2, <1>4, <1>6, <2>1, <2>2, <2>3, <3>1, SMTT(30) DEF e
  <2>5. CASE ~(e <= Len(payload))
    <3>1. To(partitions, v, r) = base + (o + h)
      BY <2>2, <2>5
    <3> QED BY <1>2, <1>4, <1>6, <2>1, <2>2, <2>3, <3>1, SMTT(30) DEF e
  <2> QED BY <2>4, <2>5
<1>14. ASSUME NEW r \in Range(rs), NEW x \in (m + 1)..Len(p), p[x].tag = "none"
       PROVE  To(partitions, v, r) <= Base(p, x)
  <2>1. x \in m..(Len(p) + 1) /\ m + 1 \in 1..(Len(p) + 1) /\ x \in (m + 1)..(Len(p) + 1)
    BY <1>2
  <2>2. Base(p, m + 1) <= Base(p, x) /\ Base(p, x) \in Nat
    <3> DEFINE y == m + 1
    <3>1. y \in 1..(Len(p) + 1) /\ x \in y..(Len(p) + 1)
      BY <2>1
    <3> HIDE DEF y
    <3>2. Base(p, y) <= Base(p, x) /\ Base(p, x) \in Nat
      BY <1>2, <3>1, BaseAfter
    <3> QED BY <3>2 DEF y
  <2>3. Base(p, k + 1) <= Base(p, x)
    <3>1. ~(x \in (m + 1)..k)
      BY <1>11, <1>14 DEF HasDescriptor
    <3>2. k + 1 <= x
      BY <1>2, <3>1
    <3> DEFINE y == k + 1
    <3>3. y \in 1..(Len(p) + 1) /\ x \in y..(Len(p) + 1)
      BY <1>2, <2>1, <3>2
    <3> HIDE DEF y
    <3>4. Base(p, y) <= Base(p, x)
      BY <1>2, <3>3, BaseAfter
    <3> QED BY <3>4 DEF y
  <2> DEFINE o == r.offset
             e == End(r, tag)
  <2>4. o \in c..L /\ o + h <= L /\ e \in Nat
    BY <1>9, <1>14
  <2>5. To(partitions, v, r) = base + (IF e <= Len(payload) THEN e ELSE o + h)
    BY <1>10
  <2> HIDE DEF o, e
  <2>6. CASE e <= Len(payload)
    <3>1. To(partitions, v, r) = base + e
      BY <2>5, <2>6
    <3> QED BY <1>6, <1>11, <1>12, <2>2, <2>3, <2>4, <2>6, <3>1
  <2>7. CASE ~(e <= Len(payload))
    <3>1. To(partitions, v, r) = base + (o + h)
      BY <2>5, <2>7
    <3> QED BY <1>2, <1>4, <1>6, <2>2, <2>4, <3>1
  <2> QED BY <2>6, <2>7
<1>15. ASSUME NEW r \in Range(rs), NEW s \in Spanned(v, r)
       PROVE  s[1] = v.part /\ Base(p, s[2]) + s[3] \in (From(partitions, v, r) + 1)..To(partitions, v, r)
  <2> DEFINE o == r.offset
             e == End(r, tag)
             f == From(partitions, v, r)
             t == To(partitions, v, r)
  <2>1. o \in c..L /\ o + h <= L /\ e \in Nat /\ r.body \in Nat /\ e = o + h + r.body
    BY <1>9, <1>15
  <2>2. f = base + o /\ t = base + (IF e <= Len(payload) THEN e ELSE o + h)
    BY <1>10
  <2>3. f \in Nat /\ t \in Nat /\ f + h <= t
    BY <1>13, <1>15
  <2>4. CASE s \in {<<v.part, v.member, o + i>> : i \in 1..h}
    <3>1. PICK i \in 1..h : s = <<n, m, o + i>>
      BY <1>1, <2>4
    <3>2. s[1] = n /\ Base(p, s[2]) + s[3] = base + (o + i)
      BY <3>1 DEF base
    <3> HIDE DEF f, t, o
    <3>3. base + (o + i) \in (f + 1)..t
      BY <1>2, <1>4, <1>6, <2>1, <2>2, <2>3, SMTT(30)
    <3> QED BY <1>1, <3>2, <3>3 DEF f, t
  <2>5. CASE s \in {<<v.part, b[1], b[2]>> : b \in Range(BodyIn(v, r))}
    <3>1. PICK b \in Range(BodyIn(v, r)) : s = <<n, b[1], b[2]>>
      BY <1>1, <2>5
    <3>2. BodyIn(v, r) = IF e <= Len(payload) THEN SubSeq(payload, o + h + 1, e) ELSE <<>>
      BY <1>1, <1>3 DEF BodyIn, h
    <3> HIDE DEF f, t, o, e
    <3>3. e <= Len(payload) /\ BodyIn(v, r) = SubSeq(payload, o + h + 1, e)
      <4>1. BodyIn(v, r) # <<>>
        BY <3>1 DEF Range
      <4> QED BY <3>2, <4>1
    <3>4. PICK x \in (o + h + 1)..e : b = payload[x]
      <4> DEFINE u == SubSeq(payload, o + h + 1, e)
                 i == o + h + 1
      <4>0. i \in Int /\ e \in Int /\ i >= 1 /\ i = o + h + 1
        BY <1>2, <1>4, <2>1
      <4> HIDE DEF i
      <4>1. \A y \in i..e : payload[y] \in Cell
        <5>1. \A y \in i..e : y \in 1..Len(payload)
          BY <1>11, <3>3, <4>0
        <5> QED BY <1>11, <5>1, ElementOfSeq
      <4>2. /\ u \in Seq(Cell) /\ Len(u) = IF i <= e THEN e - i + 1 ELSE 0
            /\ \A y \in 1..(e - i + 1) : u[y] = payload[i + y - 1]
        BY <4>0, <4>1, SubSeqProperties DEF i
      <4> HIDE DEF u
      <4>3. PICK y \in 1..Len(u) : b = u[y]
        <5>1. DOMAIN u = 1..Len(u)
          BY <4>2, LenProperties
        <5>2. b \in Range(u)
          BY <3>1, <3>3 DEF u
        <5> QED BY <5>1, <5>2 DEF Range
      <4>4. y \in 1..(e - i + 1)
        BY <4>0, <4>2
      <4>5. b = payload[i + y - 1] /\ i + y - 1 \in i..e
        BY <4>0, <4>2, <4>3, <4>4, SMTT(30)
      <4> QED BY <4>0, <4>5
    <3>5. x \in 1..Len(payload) /\ x \in 1..Len(StretchOf(p, m, k))
      <4>1. o + h + 1 \in Nat /\ o + h + 1 >= 1
        BY <1>2, <1>4, <2>1
      <4>2. x \in Nat /\ x >= 1 /\ x <= e
        BY <2>1, <3>4, <4>1
      <4>3. x <= Len(payload)
        BY <1>11, <2>1, <3>3, <4>2
      <4> QED BY <1>11, <1>12, <4>2, <4>3
    <3>6. b = StretchOf(p, m, k)[x]
      BY <1>11, <3>4, <3>5
    <3>7. Base(p, b[1]) + b[2] = base + x
      BY <1>12, <3>5, <3>6 DEF Place
    <3>8. s[1] = n /\ Base(p, s[2]) + s[3] = base + x
      BY <3>1, <3>7
    <3>9. t = base + e
      BY <2>2, <3>3
    <3>10. base + x \in (f + 1)..t
      <4>1. base \in Nat /\ h \in Nat /\ o \in Nat
        BY <1>2, <1>4, <1>6, <2>1
      <4>2. x \in (o + h + 1)..e /\ e \in Nat
        BY <2>1, <3>4
      <4>3. f = base + o /\ t = base + e
        BY <2>2, <3>9
      <4> HIDE DEF base, h
      <4> QED BY <4>1, <4>2, <4>3
    <3> QED BY <1>1, <3>8, <3>10 DEF f, t
  <2> QED BY <1>1, <1>3, <2>4, <2>5 DEF Spanned, h
<1>16. ASSUME NEW i \in 1..Len(rs), NEW j \in 1..Len(rs), i < j
       PROVE  To(partitions, v, rs[i]) <= From(partitions, v, rs[j])
  <2>1. rs[i] \in Range(rs) /\ rs[j] \in Range(rs)
    BY <1>5 DEF Range
  <2>2. c < L
    BY <1>9, <2>1
  <2>3. Tiles(p[m].bytes, tag, c, rs)
    BY <2>2, RecordsRead DEF L, rs
  <2>4. End(rs[i], tag) <= rs[j].offset
    BY <1>16, <2>3 DEF Tiles
  <2>5. To(partitions, v, rs[i]) \in Nat /\ To(partitions, v, rs[i]) <= base + End(rs[i], tag) /\ From(partitions, v, rs[j]) = base + rs[j].offset
    BY <1>10, <1>13, <2>1
  <2>6. End(rs[i], tag) \in Nat /\ rs[j].offset \in c..L
    BY <1>9, <2>1
  <2> DEFINE a == End(rs[i], tag)
             b == rs[j].offset
  <2>7. a \in Nat /\ b \in c..L /\ a <= b
    BY <2>4, <2>6
  <2>8. To(partitions, v, rs[i]) <= base + a /\ From(partitions, v, rs[j]) = base + b
    BY <2>5
  <2> HIDE DEF a, b
  <2> QED BY <1>2, <1>4, <1>6, <2>5, <2>7, <2>8
<1>17. v.records = rs
  BY <1>1 DEF rs
<1>18. Bounds(p, m, c, v)
  <2>1. \A r \in Range(rs) : c < L
    BY <1>9
  <2> QED
    BY <1>5, <1>13, <1>14, <1>15, <1>16, <1>17, <2>1 DEF Bounds, base, L, d
<1> QED
  BY <1>5, <1>17, <1>18

-----------------------------------------------------------------------------
(* No byte is read twice.                                                  *)

\* No record of one entry reaches into one of the other.
Apart(ps, v, w) ==
    \A r \in Range(v.records), s \in Range(w.records) : To(ps, v, r) <= From(ps, w, s)

\* No record of an entry reaches further than this.
Within(ps, v, limit) == \A r \in Range(v.records) : To(ps, v, r) <= limit

\* What is resolved of a partition comes from its members in turn, and
\* reaches no further than what the next member owes.
InTurn ==
    /\ part \in Nat
    /\ \A i \in 1..Len(Resolved) :
         /\ Resolved[i].part <= part
         /\ phase = "opening" => Resolved[i].part < part
         /\ Walking /\ Resolved[i].part = part => Resolved[i].member <= at
    /\ NoneUnknown =>
         /\ \A i, j \in 1..Len(Resolved) :
              i < j /\ Resolved[i].part = Resolved[j].part =>
                Apart(partitions, Resolved[i], Resolved[j])
         /\ Walking => \A i \in 1..Len(Resolved) :
              Resolved[i].part = part => Within(partitions, Resolved[i], Base(Members, at + 1) + carry)

\* What is known of an entry.
LEMMA ReadBounds ==
  ASSUME NEW v, IsRead(partitions, v)
  PROVE  \E m \in Nat, c \in Nat :
           /\ v.part \in 1..Len(partitions) /\ v.member = m
           /\ Read(partitions[v.part], m, c) /\ v = Made(partitions[v.part], v.part, m, c)
           /\ Bounds(partitions[v.part], m, c, v)
           /\ DOMAIN v.records = 1..Len(v.records) /\ Len(v.records) \in Nat
<1>1. PICK n \in 1..Len(partitions), m \in Nat, c \in Nat :
        Read(partitions[n], m, c) /\ v = Made(partitions[n], n, m, c)
  BY DEF IsRead
<1>2. v.part = n /\ v.member = m
  BY <1>1 DEF Made
<1> DEFINE p == partitions[n]
<1>3. Bounds(p, m, c, v) /\ DOMAIN v.records = 1..Len(v.records) /\ Len(v.records) \in Nat
  <2>1. p = partitions[n] /\ Read(p, m, c) /\ v = Made(p, n, m, c)
    BY <1>1
  <2> HIDE DEF p
  <2> QED BY <2>1, EntryBounds
<1> QED
  BY <1>1, <1>2, <1>3

\* The bytes of an entry's records come before a member whose layout no
\* entry needs: a record does not go on across it.
LEMMA NothingAcross ==
  ASSUME NEW v, IsRead(partitions, v), NEW x \in Nat,
         v.member < x, x <= Len(partitions[v.part]), partitions[v.part][x].tag = "none"
  PROVE  Within(partitions, v, Base(partitions[v.part], x))
<1>1. PICK m \in Nat, c \in Nat :
           v.member = m /\ Read(partitions[v.part], m, c) /\ Bounds(partitions[v.part], m, c, v)
  BY ReadBounds
<1>2. Len(partitions[v.part]) \in Nat
  BY <1>1, LenProperties DEF Read
<1>3. x \in (m + 1)..Len(partitions[v.part])
  BY <1>1, <1>2
<1> QED
  BY <1>1, <1>3 DEF Bounds, Within

\* A step that resolves nothing more.
LEMMA IdleKeepsTurns ==
  ASSUME InTurn, UNCHANGED <<partitions, Resolved>>,
         \A i \in 1..Len(Resolved) : Resolved[i].part \in Nat,
         \/ phase' \in {"done", "failed"} /\ part' = part
         \/ phase = "batching" /\ phase' = "opening" /\ part' = part + 1
         \/ phase = "opening" /\ phase' = "batching" /\ part' = part
         \/ Walking /\ Walking' /\ UNCHANGED <<part, at, carry>>
         \/ UNCHANGED vars
  PROVE  InTurn'
<1> DEFINE R == Resolved
<1>0. /\ R' = R /\ partitions' = partitions /\ NoneUnknown' = NoneUnknown
      /\ \A i \in 1..Len(R) : R[i].part \in Nat
  BY DEF NoneUnknown
<1>1. /\ part \in Nat
      /\ \A i \in 1..Len(R) :
           /\ R[i].part <= part
           /\ phase = "opening" => R[i].part < part
           /\ Walking /\ R[i].part = part => R[i].member <= at
      /\ NoneUnknown =>
           /\ \A i, j \in 1..Len(R) : i < j /\ R[i].part = R[j].part => Apart(partitions, R[i], R[j])
           /\ Walking => \A i \in 1..Len(R) :
                R[i].part = part => Within(partitions, R[i], Base(partitions[part], at + 1) + carry)
  BY DEF InTurn, Members
<1>2. CASE phase' \in {"done", "failed"} /\ part' = part
  <2>1. ~Walking' /\ phase' # "opening"
    BY <1>2 DEF Walking
  <2> HIDE DEF R
  <2>2. (\A i \in 1..Len(R) : R[i].part <= part) /\ part' = part
    BY <1>1, <1>2
  <2> QED BY <1>0, <1>1, <2>1, <2>2 DEF InTurn, R
<1>3. CASE phase = "batching" /\ phase' = "opening" /\ part' = part + 1
  <2>1. ~Walking' /\ part' \in Nat
    BY <1>1, <1>3 DEF Walking
  <2>2. \A i \in 1..Len(R) : R[i].part < part + 1 /\ R[i].part <= part + 1
    <3> HIDE DEF R
    <3> QED BY <1>0, <1>1
  <2> HIDE DEF R
  <2> QED BY <1>0, <1>1, <1>3, <2>1, <2>2 DEF InTurn, R
<1>4. CASE phase = "opening" /\ phase' = "batching" /\ part' = part
  <2>1. \A i \in 1..Len(R) : R[i].part # part
    <3> HIDE DEF R
    <3> QED BY <1>0, <1>1, <1>4
  <2> HIDE DEF R
  <2> QED BY <1>0, <1>1, <1>4, <2>1 DEF InTurn, R
<1>5. CASE Walking /\ Walking' /\ UNCHANGED <<part, at, carry>>
  <2>1. phase' # "opening"
    BY <1>5 DEF Walking
  <2> HIDE DEF R
  <2> QED BY <1>0, <1>1, <1>5, <2>1 DEF InTurn, R, Members
<1>6. CASE UNCHANGED vars
  <2>1. Walking' = Walking
    BY <1>6 DEF Walking, vars
  <2> HIDE DEF R
  <2> QED BY <1>0, <1>1, <1>6, <2>1 DEF InTurn, R, Members, vars
<1> QED
  BY <1>2, <1>3, <1>4, <1>5, <1>6

LEMMA WithinMore ==
  ASSUME NEW v, IsRead(partitions, v), NEW a \in Nat, NEW b \in Nat, a <= b, Within(partitions, v, a)
  PROVE  Within(partitions, v, b)
<1>1. PICK m \in Nat, c \in Nat : Bounds(partitions[v.part], m, c, v)
  BY ReadBounds
<1>2. \A r \in Range(v.records) : To(partitions, v, r) \in Nat /\ To(partitions, v, r) <= a
  BY <1>1 DEF Bounds, Within
<1> QED
  BY <1>2 DEF Within

\* Where the next member is.
LEMMA NextMember ==
  ASSUME Position, Resolving
  PROVE  LET p == Members
             m == at + 1
         IN  /\ p \in Seq(Member) /\ p = partitions[part] /\ m \in 1..Len(p) /\ Len(p) \in Nat
             /\ part \in 1..Len(partitions) /\ at \in Nat /\ Walking /\ phase = "resolving"
             /\ Base(p, m) \in Nat /\ Base(p, m + 1) \in Nat /\ Len(p[m].bytes) \in Nat
             /\ Base(p, m + 1) = Base(p, m) + Len(p[m].bytes)
<1> DEFINE p == Members
           m == at + 1
<1>1. /\ part \in 1..Len(partitions) /\ at \in Nat /\ Walking /\ phase = "resolving" /\ partitions \in Inputs
      /\ upto \in Nat /\ upto <= Len(p) /\ at < upto
  BY InputsAre DEF Position, Resolving, Walking
<1>2. p \in Seq(Member) /\ Len(p) \in Nat /\ p = partitions[part]
  BY <1>1, InputsAre DEF Members
<1>3. m \in 1..Len(p)
  BY <1>1, <1>2
<1> HIDE DEF p, m
<1>4. /\ Base(p, m) \in Nat /\ Base(p, m + 1) \in Nat /\ Len(p[m].bytes) \in Nat
      /\ Base(p, m + 1) = Base(p, m) + Len(p[m].bytes)
  BY <1>2, <1>3, BaseSteps
<1> QED
  BY <1>1, <1>2, <1>3, <1>4 DEF p, m

LEMMA PassingKeepsTurns ==
  ASSUME Position, EntriesAreRead, InTurn, Skip \/ ResolveNothing
  PROVE  InTurn'
<1> DEFINE R == Resolved
           p == Members
           m == at + 1
           L == Len(p[m].bytes)
<1>1. /\ Resolving /\ UNCHANGED <<partitions, part, phase, visited, batch>> /\ at' = m /\ carry' = 0
      /\ ~Known(p[m]) \/ TruncatedHeader \in Range(Records(p[m].bytes, p[m].tag, carry))
  BY DEF Skip, ResolveNothing, Following, WalkFails, Walk, WalkFrom
<1>2. /\ p \in Seq(Member) /\ p = partitions[part] /\ m \in 1..Len(p) /\ Len(p) \in Nat
      /\ part \in 1..Len(partitions) /\ at \in Nat /\ Walking /\ phase = "resolving"
      /\ Base(p, m) \in Nat /\ Base(p, m + 1) \in Nat /\ L \in Nat
      /\ Base(p, m + 1) = Base(p, m) + L
  BY <1>1, NextMember
<1>3. R' = R /\ Walking' /\ Members' = p /\ (NoneUnknown)' = NoneUnknown
  BY <1>1, <1>2 DEF Resolved, Walking, Members, NoneUnknown
<1>4. /\ part \in Nat /\ carry \in Nat
      /\ \A i \in 1..Len(R) :
           /\ R[i].part <= part
           /\ R[i].part = part => R[i].member <= at
      /\ NoneUnknown =>
           /\ \A i, j \in 1..Len(R) : i < j /\ R[i].part = R[j].part => Apart(partitions, R[i], R[j])
           /\ \A i \in 1..Len(R) : R[i].part = part => Within(partitions, R[i], Base(p, m) + carry)
  BY <1>2 DEF InTurn, EntriesAreRead
<1>5. \A i \in 1..Len(R) : IsRead(partitions, R[i])
  <2>1. DOMAIN R = 1..Len(R)
    <3>1. R \in Seq(Entries(partitions))
      BY ResolvedIsRead
    <3> HIDE DEF R
    <3> QED BY <3>1, LenProperties
  <2>2. \A v \in Range(R) : IsRead(partitions, v)
    BY ResolvedIsRead
  <2> HIDE DEF R
  <2> QED BY <2>1, <2>2 DEF Range
<1>6. \A i \in 1..Len(R) : R[i].member \in Nat
  <2> HIDE DEF R
  <2> QED BY <1>5, ReadBounds
<1>7. ASSUME NoneUnknown, NEW i \in 1..Len(R), R[i].part = part
      PROVE  Within(partitions, R[i], Base(p, m + 1) + 0)
  <2> HIDE DEF R, L
  <2>1. CASE ~Known(p[m])
    <3>1. p[m] \in Member /\ p[m].tag # "unknown"
      <4>1. p[m] \in Member
        BY <1>2, ElementOfSeq
      <4>2. p \in Range(partitions) /\ p[m] \in Range(p)
        <5>1. part \in DOMAIN partitions /\ m \in DOMAIN p
          <6>1. partitions \in Inputs
            BY DEF Position
          <6> QED BY <1>2, <6>1, InputsAre
        <5> QED BY <1>2, <5>1 DEF Range
      <4> HIDE DEF p, m
      <4> QED BY <1>7, <4>1, <4>2 DEF NoneUnknown
    <3>2. p[m].tag = "none"
      <4> HIDE DEF p, m
      <4> QED BY <2>1, <3>1 DEF Known, Member
    <3>3. R[i].member < m /\ m \in Nat /\ m <= Len(partitions[R[i].part])
      BY <1>2, <1>4, <1>6, <1>7, SMTT(30)
    <3>4. Within(partitions, R[i], Base(partitions[R[i].part], m))
      <4> HIDE DEF m
      <4> QED BY <1>2, <1>5, <1>7, <3>2, <3>3, NothingAcross
    <3>5. Base(p, m) <= Base(p, m + 1) + 0
      BY <1>2
    <3>6. Within(partitions, R[i], Base(p, m))
      BY <1>2, <1>7, <3>4
    <3> DEFINE a == Base(p, m)
               b == Base(p, m + 1) + 0
    <3>7. a \in Nat /\ b \in Nat /\ a <= b /\ Within(partitions, R[i], a)
      BY <1>2, <3>5, <3>6
    <3> HIDE DEF a, b
    <3>8. Within(partitions, R[i], b)
      BY <1>5, <3>7, WithinMore
    <3> QED BY <3>8 DEF b
  <2>2. CASE TruncatedHeader \in Range(Records(p[m].bytes, p[m].tag, carry))
    <3>1. carry < L
      <4>1. carry >= L => Records(p[m].bytes, p[m].tag, carry) = <<>>
        BY DEF Records, L
      <4>2. Range(<<>>) = {}
        BY DEF Range
      <4> QED BY <1>2, <1>4, <2>2, <4>1, <4>2
    <3> DEFINE a == Base(p, m) + carry
               b == Base(p, m + 1) + 0
    <3>2. a \in Nat /\ b \in Nat /\ a <= b /\ Within(partitions, R[i], a)
      BY <1>2, <1>4, <1>7, <3>1, SMTT(30)
    <3> HIDE DEF a, b
    <3>3. Within(partitions, R[i], b)
      BY <1>5, <3>2, WithinMore
    <3> QED BY <3>3 DEF b
  <2> QED BY <1>1, <2>1, <2>2
<1>8. \A i \in 1..Len(R) : R[i].part = part => R[i].member <= m
  <2> HIDE DEF R
  <2> QED BY <1>2, <1>4, <1>6, SMTT(30)
<1> HIDE DEF R
<1>9. /\ \A i \in 1..Len(R) :
           /\ R'[i].part <= part'
           /\ phase' = "opening" => R'[i].part < part'
           /\ Walking' /\ R'[i].part = part' => R'[i].member <= at'
  BY <1>1, <1>2, <1>3, <1>4, <1>8
<1>10. NoneUnknown' => \A i \in 1..Len(R) : R'[i].part = part' =>
          Within(partitions', R'[i], Base(Members', at' + 1) + carry')
  BY <1>1, <1>3, <1>7
<1>11. NoneUnknown' => \A i, j \in 1..Len(R) : i < j /\ R'[i].part = R'[j].part =>
          Apart(partitions', R'[i], R'[j])
  BY <1>1, <1>3, <1>4
<1> QED
  BY <1>1, <1>3, <1>4, <1>9, <1>10, <1>11 DEF InTurn, R

LEMMA ResolveKeepsTurns ==
  ASSUME Position, EntriesAreRead, InTurn, Resolve
  PROVE  InTurn'
<1> DEFINE R == Resolved
           p == Members
           m == at + 1
           L == Len(p[m].bytes)
           d == TrailingDeficit(p[m].bytes, p[m].tag, carry)
           v == Made(p, part, m, carry)
<1>1. /\ Read(p, m, carry) /\ v \in Entries(partitions)
      /\ carry' = d /\ d \in Nat /\ batch' = Append(batch, v) /\ at' = m
      /\ UNCHANGED <<partitions, part, phase, visited>>
  BY ResolveReads
<1>2. /\ p \in Seq(Member) /\ p = partitions[part] /\ m \in 1..Len(p) /\ Len(p) \in Nat
      /\ part \in 1..Len(partitions) /\ at \in Nat /\ Walking /\ phase = "resolving"
      /\ Base(p, m) \in Nat /\ Base(p, m + 1) \in Nat /\ L \in Nat
      /\ Base(p, m + 1) = Base(p, m) + L
  <2>1. Resolving
    BY DEF Resolve
  <2> QED BY <2>1, NextMember
<1>3. Walking' /\ Members' = p /\ (NoneUnknown)' = NoneUnknown
  BY <1>1, <1>2 DEF Walking, Members, NoneUnknown
<1>4. /\ part \in Nat /\ carry \in Nat
      /\ \A i \in 1..Len(R) :
           /\ R[i].part <= part
           /\ R[i].part = part => R[i].member <= at
      /\ NoneUnknown =>
           /\ \A i, j \in 1..Len(R) : i < j /\ R[i].part = R[j].part => Apart(partitions, R[i], R[j])
           /\ \A i \in 1..Len(R) : R[i].part = part => Within(partitions, R[i], Base(p, m) + carry)
  BY <1>2 DEF InTurn, EntriesAreRead
<1>5. /\ R \in Seq(Entries(partitions)) /\ Len(R) \in Nat
      /\ \A i \in 1..Len(R) : IsRead(partitions, R[i]) /\ R[i].member \in Nat
  <2>1. R \in Seq(Entries(partitions)) /\ \A w \in Range(R) : IsRead(partitions, w)
    BY ResolvedIsRead
  <2> HIDE DEF R
  <2>2. DOMAIN R = 1..Len(R) /\ Len(R) \in Nat
    BY <2>1, LenProperties
  <2>3. \A i \in 1..Len(R) : IsRead(partitions, R[i])
    BY <2>1, <2>2 DEF Range
  <2> QED BY <2>1, <2>2, <2>3, ReadBounds
<1>6. /\ Len(R') = Len(R) + 1 /\ R'[Len(R) + 1] = v
      /\ \A i \in 1..Len(R) : R'[i] = R[i]
  <2> DEFINE S == Entries(partitions)
  <2> HIDE DEF S, v
  <2>1. visited \in Seq(S) /\ batch \in Seq(S) /\ v \in S
    BY <1>1 DEF EntriesAreRead, S
  <2>2. R' = visited \o Append(batch, v)
    BY <1>1 DEF Resolved
  <2>3. <<v>> \in Seq(S) /\ Append(batch, v) = batch \o <<v>>
    BY <2>1, AppendIsConcat
  <2>4. visited \o (batch \o <<v>>) = (visited \o batch) \o <<v>>
    <3> DEFINE t == <<v>>
    <3>1. t \in Seq(S)
      BY <2>3
    <3> HIDE DEF t
    <3>2. visited \o (batch \o t) = (visited \o batch) \o t
      BY <2>1, <3>1, ConcatAssociative
    <3> QED BY <3>2 DEF t
  <2>5. R \in Seq(S) /\ R = visited \o batch
    BY <1>5 DEF S, Resolved
  <2> HIDE DEF R
  <2>6. R \o <<v>> = Append(R, v)
    BY <2>1, <2>5, AppendIsConcat
  <2>7. R' = Append(R, v)
    BY <2>2, <2>3, <2>4, <2>5, <2>6
  <2> QED BY <2>1, <2>5, <2>7, AppendProperties
<1>7. v.part = part /\ v.member = m
  BY DEF Made
<1>8. Bounds(p, m, carry, v)
  BY <1>1, <1>2, EntryBounds
<1>9. carry <= L + d
  <2>1. carry >= L => d = carry - L
    BY <1>1, RecordsRead
  <2> HIDE DEF d, L
  <2> QED BY <1>1, <1>2, <1>4, <2>1
<1> DEFINE a == Base(p, m) + carry
           b == Base(p, m + 1) + d
<1>10. a \in Nat /\ b \in Nat /\ a <= b
  <2> DEFINE x == Base(p, m)
             y == Base(p, m + 1)
  <2>1. x \in Nat /\ y = x + L /\ L \in Nat /\ d \in Nat /\ carry \in Nat /\ carry <= L + d
    BY <1>1, <1>2, <1>4, <1>9
  <2> HIDE DEF x, y, d, L
  <2>2. x + carry \in Nat /\ y + d \in Nat /\ x + carry <= y + d
    BY <2>1
  <2> QED BY <2>2 DEF x, y
<1>11. Within(partitions, v, b) /\ \A s \in Range(v.records) : From(partitions, v, s) \in Nat /\ a <= From(partitions, v, s)
  <2> HIDE DEF v
  <2> QED BY <1>8 DEF Bounds, Within
<1> HIDE DEF a, b, d, v
<1>12. ASSUME NoneUnknown, NEW i \in 1..Len(R), R[i].part = part
       PROVE  Within(partitions, R[i], b) /\ Apart(partitions, R[i], v)
  <2> HIDE DEF R
  <2>1. Within(partitions, R[i], a)
    BY <1>4, <1>12 DEF a
  <2>2. Within(partitions, R[i], b)
    BY <1>5, <1>10, <2>1, WithinMore
  <2>3. \A r \in Range(R[i].records) : To(partitions, R[i], r) \in Nat /\ To(partitions, R[i], r) <= a
    <3>1. PICK x \in Nat, c \in Nat : Bounds(partitions[R[i].part], x, c, R[i])
      BY <1>5, ReadBounds
    <3>2. \A r \in Range(R[i].records) : To(partitions, R[i], r) \in Nat
      BY <3>1 DEF Bounds
    <3> QED BY <2>1, <3>2 DEF Within
  <2>4. Apart(partitions, R[i], v)
    BY <1>10, <1>11, <2>3 DEF Apart
  <2> QED BY <2>2, <2>4
<1> HIDE DEF R
<1>13. \A i \in 1..Len(R') : i \in 1..Len(R) \/ i = Len(R) + 1
  BY <1>5, <1>6
<1>14. ASSUME NEW i \in 1..Len(R')
       PROVE  /\ R'[i].part <= part'
              /\ phase' = "opening" => R'[i].part < part'
              /\ Walking' /\ R'[i].part = part' => R'[i].member <= at'
  <2>1. CASE i \in 1..Len(R)
    <3>1. R'[i] = R[i] /\ R[i].part <= part /\ (R[i].part = part => R[i].member <= at /\ R[i].member \in Nat)
      BY <1>4, <1>5, <1>6, <2>1
    <3> QED BY <1>1, <1>2, <3>1
  <2>2. CASE i = Len(R) + 1
    BY <1>1, <1>2, <1>4, <1>6, <1>7, <2>2
  <2> QED BY <1>13, <1>14, <2>1, <2>2
<1>15. ASSUME NoneUnknown, NEW i \in 1..Len(R'), R'[i].part = part'
       PROVE  Within(partitions', R'[i], Base(Members', at' + 1) + carry')
  <2>1. Base(Members', at' + 1) + carry' = b
    BY <1>1, <1>3 DEF b
  <2>2. Within(partitions, R'[i], b)
    BY <1>1, <1>6, <1>11, <1>12, <1>13, <1>15
  <2> QED BY <1>1, <2>1, <2>2
<1>16. ASSUME NoneUnknown, NEW i \in 1..Len(R'), NEW j \in 1..Len(R'), i < j, R'[i].part = R'[j].part
       PROVE  Apart(partitions', R'[i], R'[j])
  <2>1. i \in 1..Len(R)
    BY <1>5, <1>6, <1>16
  <2>2. CASE j \in 1..Len(R)
    BY <1>1, <1>4, <1>6, <1>16, <2>1, <2>2
  <2>3. CASE j = Len(R) + 1
    BY <1>1, <1>6, <1>7, <1>12, <1>16, <2>1, <2>3
  <2> QED BY <1>13, <2>2, <2>3
<1> QED
  BY <1>1, <1>3, <1>4, <1>14, <1>15, <1>16 DEF InTurn, R

LEMMA NextKeepsTurns ==
  ASSUME Position, EntriesAreRead, InTurn, [Next]_vars
  PROVE  InTurn'
<1> DEFINE S == Entries(partitions)
<1>0. /\ \A i \in 1..Len(Resolved) : Resolved[i].part \in Nat
      /\ visited \in Seq(S) /\ batch \in Seq(S)
  <2>1. Resolved \in Seq(S) /\ \A w \in Range(Resolved) : IsRead(partitions, w)
    BY ResolvedIsRead
  <2>2. DOMAIN Resolved = 1..Len(Resolved)
    <3> HIDE DEF S
    <3> QED BY <2>1, LenProperties
  <2>3. \A i \in 1..Len(Resolved) : IsRead(partitions, Resolved[i])
    BY <2>1, <2>2 DEF Range
  <2>4. \A i \in 1..Len(Resolved) : Resolved[i].part \in 1..Len(partitions)
    BY <2>3, ReadBounds
  <2>5. Len(partitions) \in Nat
    BY InputsAre DEF Position
  <2> QED BY <2>4, <2>5 DEF EntriesAreRead
<1>1. ASSUME UNCHANGED <<partitions, Resolved>>,
             \/ phase' \in {"done", "failed"} /\ part' = part
             \/ phase = "batching" /\ phase' = "opening" /\ part' = part + 1
             \/ phase = "opening" /\ phase' = "batching" /\ part' = part
             \/ Walking /\ Walking' /\ UNCHANGED <<part, at, carry>>
             \/ UNCHANGED vars
      PROVE  InTurn'
  BY <1>0, <1>1, IdleKeepsTurns
<1>2. CASE OpenPartition \/ InventoryFails \/ ResolveFails \/ PrepareMembers \/ ClosePartition \/ UNCHANGED vars
  <2>1. UNCHANGED <<partitions, visited, batch>>
    BY <1>2 DEF OpenPartition, InventoryFails, ResolveFails, Fail, PrepareMembers, ClosePartition, vars
  <2>2. UNCHANGED Resolved
    BY <2>1 DEF Resolved
  <2>3. \/ phase' \in {"done", "failed"} /\ part' = part
        \/ phase = "batching" /\ phase' = "opening" /\ part' = part + 1
        \/ phase = "opening" /\ phase' = "batching" /\ part' = part
        \/ Walking /\ Walking' /\ UNCHANGED <<part, at, carry>>
        \/ UNCHANGED vars
    BY <1>2 DEF OpenPartition, InventoryFails, ResolveFails, Fail, PrepareMembers, ClosePartition,
                CarryKept, Walking
  <2> QED BY <1>1, <2>1, <2>2, <2>3
<1>3. CASE VisitBatch
  <2>1. /\ phase = "resolving" /\ phase' = "batching" /\ UNCHANGED <<partitions, part, at, carry>>
        /\ visited' = visited \o batch /\ batch' = <<>>
    BY <1>3 DEF VisitBatch
  <2>2. UNCHANGED Resolved
    <3> HIDE DEF S
    <3>1. visited \o batch \in Seq(S)
      BY <1>0, ConcatProperties
    <3> DEFINE s == visited \o batch
    <3>2. s \in Seq(S)
      BY <3>1
    <3> HIDE DEF s
    <3>3. s \o <<>> = s
      BY <3>2, ConcatEmptySeq
    <3> QED BY <2>1, <3>3 DEF s, Resolved
  <2>3. Walking /\ Walking'
    BY <2>1 DEF Walking
  <2> QED BY <1>1, <2>1, <2>2, <2>3
<1>4. CASE Skip \/ ResolveNothing
  BY <1>4, PassingKeepsTurns
<1>5. CASE Resolve
  BY <1>5, ResolveKeepsTurns
<1> QED
  BY <1>2, <1>3, <1>4, <1>5 DEF Next

LEMMA TurnsKeepBytesApart ==
  ASSUME Position, EntriesAreRead, InTurn
  PROVE  NoByteTwice
<1> DEFINE R == Resolved
<1> SUFFICES ASSUME NoneUnknown, NEW i \in DOMAIN R, NEW j \in DOMAIN R,
                    NEW r \in DOMAIN R[i].records, NEW s \in DOMAIN R[j].records,
                    <<i, r>> # <<j, s>>
             PROVE  Spanned(R[i], R[i].records[r]) \intersect Spanned(R[j], R[j].records[s]) = {}
  BY DEF NoByteTwice
<1>1. /\ DOMAIN R = 1..Len(R) /\ Len(R) \in Nat
      /\ \A k \in 1..Len(R) : IsRead(partitions, R[k])
  <2>1. R \in Seq(Entries(partitions)) /\ \A w \in Range(R) : IsRead(partitions, w)
    BY ResolvedIsRead
  <2> HIDE DEF R
  <2>2. DOMAIN R = 1..Len(R) /\ Len(R) \in Nat
    BY <2>1, LenProperties
  <2> QED BY <2>1, <2>2 DEF Range
<1>2. \A k, l \in 1..Len(R) : k < l /\ R[k].part = R[l].part => Apart(partitions, R[k], R[l])
  BY DEF InTurn
<1> HIDE DEF R
<1> DEFINE v == R[i]
           w == R[j]
           x == v.records[r]
           y == w.records[s]
<1>3. PICK m \in Nat, c \in Nat :
           /\ Bounds(partitions[v.part], m, c, v)
           /\ DOMAIN v.records = 1..Len(v.records) /\ Len(v.records) \in Nat
  BY <1>1, ReadBounds
<1>4. PICK n \in Nat, e \in Nat :
           /\ Bounds(partitions[w.part], n, e, w)
           /\ DOMAIN w.records = 1..Len(w.records) /\ Len(w.records) \in Nat
  BY <1>1, ReadBounds
<1>5. x \in Range(v.records) /\ y \in Range(w.records)
  BY DEF Range
<1>6. /\ From(partitions, v, x) \in Nat /\ To(partitions, v, x) \in Nat
      /\ \A b \in Spanned(v, x) :
           b[1] = v.part /\ Base(partitions[v.part], b[2]) + b[3] \in (From(partitions, v, x) + 1)..To(partitions, v, x)
  BY <1>3, <1>5 DEF Bounds
<1>7. /\ From(partitions, w, y) \in Nat /\ To(partitions, w, y) \in Nat
      /\ \A b \in Spanned(w, y) :
           b[1] = w.part /\ Base(partitions[w.part], b[2]) + b[3] \in (From(partitions, w, y) + 1)..To(partitions, w, y)
  BY <1>4, <1>5 DEF Bounds
<1>8. ASSUME v.part = w.part
      PROVE  To(partitions, v, x) <= From(partitions, w, y) \/ To(partitions, w, y) <= From(partitions, v, x)
  <2>1. CASE i = j
    <3>1. r # s /\ r \in 1..Len(v.records) /\ s \in 1..Len(v.records) /\ w = v
      BY <1>3, <2>1
    <3>2. \A k, l \in 1..Len(v.records) :
             k < l => To(partitions, v, v.records[k]) <= From(partitions, v, v.records[l])
      BY <1>3 DEF Bounds
    <3>3. r < s \/ s < r
      BY <1>3, <3>1
    <3> QED BY <3>1, <3>2, <3>3
  <2>2. CASE i # j
    <3>1. i < j \/ j < i
      BY <1>1, <2>2
    <3>2. Apart(partitions, v, w) \/ Apart(partitions, w, v)
      BY <1>1, <1>2, <1>8, <3>1
    <3> QED BY <1>5, <3>2 DEF Apart
  <2> QED BY <2>1, <2>2
<1> HIDE DEF v, w, x, y
<1>9. ASSUME NEW b \in Spanned(v, x), b \in Spanned(w, y) PROVE FALSE
  <2>1. v.part = w.part
    BY <1>6, <1>7, <1>9
  <2> DEFINE k == Base(partitions[v.part], b[2]) + b[3]
  <2>2. k \in (From(partitions, v, x) + 1)..To(partitions, v, x)
    BY <1>6, <1>9
  <2>3. k \in (From(partitions, w, y) + 1)..To(partitions, w, y)
    BY <1>7, <1>9, <2>1
  <2> HIDE DEF k
  <2> QED BY <1>6, <1>7, <1>8, <2>1, <2>2, <2>3
<1> QED
  BY <1>9 DEF v, w, x, y

\* No byte of a partition is read as part of two records: each member is
\* walked from where the records before it end (for_each_member_batch's carry).
THEOREM BytesAreReadOnce == Spec => []NoByteTwice
<1>1. Init => Position /\ EntriesAreRead /\ InTurn
  <2> SUFFICES ASSUME Init PROVE InTurn
    BY InitPosition, InitEntriesAreRead
  <2>1. part = 1 /\ Resolved = <<>> /\ ~Walking
    <3>1. visited = <<>> /\ batch = <<>> /\ part = 1 /\ phase = "opening"
      BY DEF Init
    <3>2. <<>> \o <<>> = <<>>
      BY EmptySeq, ConcatEmptySeq
    <3> QED BY <3>1, <3>2 DEF Resolved, Walking
  <2>2. \A i \in 1..Len(Resolved) : FALSE
    BY <2>1, EmptySeq
  <2> QED BY <2>1, <2>2 DEF InTurn
<1>2. Position /\ EntriesAreRead /\ InTurn /\ [Next]_vars => Position' /\ EntriesAreRead' /\ InTurn'
  BY NextPosition, NextEntriesAreRead, NextKeepsTurns
<1>3. Position /\ EntriesAreRead /\ InTurn => NoByteTwice
  BY TurnsKeepBytesApart
<1> QED
  BY <1>1, <1>2, <1>3, PTL DEF Spec

-----------------------------------------------------------------------------
(* The bytes of a partition as one sequence.                               *)

Flat(f, k) == FlattenSeq([i \in 1..k |-> f[i]])

LEMMA FlatSteps ==
  ASSUME NEW S, NEW f, NEW k \in Nat, \A i \in 1..k : f[i] \in Seq(S)
  PROVE  /\ Flat(f, k) \in Seq(S)
         /\ k = 0 => Flat(f, k) = <<>>
         /\ k # 0 => Flat(f, k) = Flat(f, k - 1) \o f[k]
<1> DEFINE s(j) == [i \in 1..j |-> f[i]]
<1>1. ASSUME NEW j \in 0..k PROVE s(j) \in Seq(Seq(S)) /\ Len(s(j)) = j /\ \A i \in 1..j : s(j)[i] = f[i]
  <2> DEFINE T == Seq(S)
             t == s(j)
  <2>1. j \in Nat /\ \A i \in 1..j : i \in 1..k
    OBVIOUS
  <2>2. \A i \in 1..j : f[i] \in T
    BY <2>1
  <2>3. Len(t) = j /\ \A i \in 1..j : t[i] = f[i]
    BY <2>1
  <2> HIDE DEF T
  <2>4. t \in [1..j -> T]
    BY <2>2
  <2> HIDE DEF t
  <2>5. t \in Seq(T)
    BY <2>1, <2>4, SeqDef
  <2> QED BY <2>3, <2>5 DEF t, T
<1>2. Flat(f, k) \in Seq(S)
  <2>1. s(k) \in Seq(Seq(S))
    BY <1>1
  <2> DEFINE t == s(k)
  <2>2. t \in Seq(Seq(S))
    BY <2>1
  <2> HIDE DEF t
  <2>3. FlattenSeq(t) \in Seq(S)
    BY <2>2, FlattenIsSeq
  <2> QED BY <2>3 DEF Flat, t
<1>3. CASE k = 0
  <2>1. s(0) = <<>>
    OBVIOUS
  <2>2. Flat(f, 0) = <<>>
    BY <2>1, FlattenEmpty DEF Flat
  <2> QED BY <1>2, <1>3, <2>2
<1>4. CASE k # 0
  <2> DEFINE t == s(k)
             u == s(k - 1)
             e == f[k]
             w == Append(u, e)
             T == Seq(S)
  <2>0. k - 1 \in 0..k /\ k \in 0..k /\ k \in 1..k
    BY <1>4
  <2>1. t \in Seq(T) /\ Len(t) = k /\ \A i \in 1..k : t[i] = f[i]
    BY <1>1, <2>0
  <2>2. u \in Seq(T) /\ Len(u) = k - 1 /\ \A i \in 1..(k - 1) : u[i] = f[i]
    BY <1>1, <2>0
  <2>3. e \in T
    BY <2>0
  <2> HIDE DEF s, t, u, e, T
  <2>4. /\ w \in Seq(T) /\ Len(w) = Len(u) + 1 /\ w[Len(u) + 1] = e
        /\ \A i \in 1..Len(u) : w[i] = u[i]
    BY <2>2, <2>3, AppendProperties
  <2> HIDE DEF w
  <2>5. Len(u) + 1 = k
    BY <2>0, <2>2
  <2>6. \A i \in 1..k : t[i] = w[i]
    <3> TAKE i \in 1..k
    <3>1. CASE i = k
      BY <2>0, <2>1, <2>4, <2>5, <3>1 DEF e
    <3>2. CASE i # k
      <4>1. i \in 1..(k - 1)
        BY <3>2
      <4> QED BY <2>1, <2>2, <2>4, <4>1
    <3> QED BY <3>1, <3>2
  <2>7. t = w
    BY <2>1, <2>4, <2>5, <2>6, SeqEqual
  <2>8. FlattenSeq(w) = FlattenSeq(u) \o e
    BY <2>2, <2>3, FlattenAppend DEF w, T
  <2>9. Flat(f, k) = FlattenSeq(t) /\ Flat(f, k - 1) = FlattenSeq(u)
    BY DEF Flat, t, u, s
  <2> QED BY <1>2, <1>4, <2>7, <2>8, <2>9 DEF e
<1> QED
  BY <1>3, <1>4

\* The bytes of each member.
BytesOf(p) == [i \in DOMAIN p |-> p[i].bytes]

LEMMA WholeIs ==
  ASSUME NEW p \in Seq(Member)
  PROVE  /\ WholeOf(p) \in Seq(Nat) /\ Len(WholeOf(p)) \in Nat /\ Len(p) \in Nat
         /\ Len(WholeOf(p)) = Base(p, Len(p) + 1)
         /\ Base(p, 1) = 0
         /\ \A m \in 1..Len(p) : \A k \in 1..Len(p[m].bytes) :
              WholeOf(p)[Base(p, m) + k] = p[m].bytes[k]
<1> DEFINE f == BytesOf(p)
           W(j) == Flat(f, j)
           Good(j) == /\ W(j) \in Seq(Nat) /\ Len(W(j)) = Base(p, j + 1)
                      /\ \A m \in 1..j : \A k \in 1..Len(p[m].bytes) :
                           W(j)[Base(p, m) + k] = p[m].bytes[k]
           N == {j \in Nat : j <= Len(p) => Good(j)}
<1>0. Len(p) \in Nat /\ DOMAIN p = 1..Len(p)
  BY LenProperties
<1>1. \A i \in 1..Len(p) : f[i] = p[i].bytes /\ f[i] \in Seq(Nat)
  <2> TAKE i \in 1..Len(p)
  <2>1. p[i] \in Member
    BY ElementOfSeq
  <2>2. p[i].bytes \in Seq(Nat)
    BY <2>1 DEF Member
  <2>3. f[i] = p[i].bytes
    BY <1>0 DEF BytesOf
  <2> QED BY <2>2, <2>3
<1>2. Base(p, 1) = 0
  <2>1. 1 \in 1..(Len(p) + 1)
    BY <1>0
  <2>2. StretchOf(p, 1, 1 - 1) = <<>>
    BY <2>1, StretchOfNone
  <2> QED BY <2>2, EmptySeq DEF Base
<1>3. WholeOf(p) = W(Len(p))
  <2>1. f = [i \in 1..Len(p) |-> f[i]]
    BY <1>0 DEF BytesOf
  <2> HIDE DEF f
  <2> QED BY <2>1 DEF WholeOf, BytesOf, f, Flat
<1> HIDE DEF f
<1>4. ASSUME NEW j \in Nat, \A i \in 0..(j - 1) : i \in N PROVE j \in N
  <2> SUFFICES ASSUME j <= Len(p) PROVE Good(j)
    OBVIOUS
  <2>0. \A i \in 1..j : i \in 1..Len(p) /\ f[i] \in Seq(Nat)
    BY <1>0, <1>1
  <2>1. CASE j = 0
    <3>1. Flat(f, 0) = <<>> /\ Flat(f, 0) \in Seq(Nat)
      <4>1. 0 \in Nat /\ \A i \in 1..0 : f[i] \in Seq(Nat)
        OBVIOUS
      <4> QED BY <4>1, FlatSteps
    <3>2. Len(Flat(f, 0)) = 0
      BY <3>1, EmptySeq
    <3>3. W(j) = <<>> /\ W(j) \in Seq(Nat) /\ Len(W(j)) = 0
      BY <2>1, <3>1, <3>2
    <3>4. j + 1 = 1
      BY <2>1
    <3> HIDE DEF W
    <3> QED BY <1>2, <2>1, <3>3, <3>4
  <2>2. CASE j # 0
    <3>1. Good(j - 1)
      <4>1. j - 1 \in N /\ j - 1 <= Len(p)
        <5> HIDE DEF N
        <5> QED BY <1>0, <1>4, <2>2
      <4> HIDE DEF Good
      <4> QED BY <4>1
    <3> DEFINE a == W(j - 1)
               b == p[j].bytes
    <3>2. W(j) = a \o b
      <4>1. Flat(f, j) = Flat(f, j - 1) \o f[j]
        BY <2>0, <2>2, FlatSteps
      <4>2. f[j] = b
        BY <1>0, <1>1, <2>2
      <4> QED BY <4>1, <4>2
    <3>3. a \in Seq(Nat) /\ b \in Seq(Nat) /\ Len(a) = Base(p, j)
      <4>1. j - 1 + 1 = j /\ j \in 1..Len(p)
        BY <1>0, <2>2
      <4>2. b \in Seq(Nat)
        BY <1>1, <4>1
      <4> HIDE DEF W
      <4> QED BY <3>1, <4>1, <4>2
    <3>4. Base(p, j + 1) = Base(p, j) + Len(b) /\ Base(p, j) \in Nat /\ Len(b) \in Nat
      <4>1. j \in 1..Len(p)
        BY <1>0, <2>2
      <4> QED BY <4>1, BaseSteps
    <3>5. \A m \in 1..(j - 1) : \A k \in 1..Len(p[m].bytes) : a[Base(p, m) + k] = p[m].bytes[k]
      BY <3>1
    <3> HIDE DEF W, a, b, N
    <3>6. /\ W(j) \in Seq(Nat) /\ Len(W(j)) = Len(a) + Len(b)
          /\ \A x \in 1..(Len(a) + Len(b)) : W(j)[x] = IF x <= Len(a) THEN a[x] ELSE b[x - Len(a)]
      BY <3>2, <3>3, ConcatProperties
    <3>7. ASSUME NEW m \in 1..j, NEW k \in 1..Len(p[m].bytes)
          PROVE  W(j)[Base(p, m) + k] = p[m].bytes[k]
      <4>1. CASE m = j
        <5>1. Base(p, m) + k \in 1..(Len(a) + Len(b)) /\ ~(Base(p, m) + k <= Len(a))
              /\ Base(p, m) + k - Len(a) = k
          <6>1. k \in 1..Len(b) /\ Base(p, m) = Len(a)
            BY <3>3, <3>7, <4>1 DEF b
          <6> QED BY <3>3, <3>4, <6>1, SMTT(30)
        <5>2. W(j)[Base(p, m) + k] = b[k]
          <6> DEFINE x == Base(p, m) + k
          <6>1. x \in 1..(Len(a) + Len(b)) /\ ~(x <= Len(a)) /\ x - Len(a) = k
            <7>1. k \in 1..Len(b) /\ Base(p, m) = Len(a)
              BY <3>3, <3>7, <4>1 DEF b
            <7> QED BY <3>3, <3>4, <7>1
          <6> HIDE DEF x
          <6>2. W(j)[x] = b[x - Len(a)]
            BY <3>6, <6>1
          <6> QED BY <6>1, <6>2 DEF x
        <5> QED BY <4>1, <5>2 DEF b
      <4>2. CASE m # j
        <5>1. m \in 1..(j - 1) /\ m \in 1..Len(p) /\ m + 1 \in 1..(Len(p) + 1) /\ j \in (m + 1)..(Len(p) + 1)
          BY <1>0, <3>7, <4>2
        <5>2. Base(p, m) \in Nat /\ Base(p, m + 1) = Base(p, m) + Len(p[m].bytes) /\ Len(p[m].bytes) \in Nat
          BY <5>1, BaseSteps
        <5>3. Base(p, m + 1) <= Base(p, j)
          <6> DEFINE n == m + 1
          <6>1. n \in 1..(Len(p) + 1) /\ j \in n..(Len(p) + 1)
            BY <5>1
          <6> HIDE DEF n
          <6>2. Base(p, n) <= Base(p, j)
            BY <6>1, BaseAfter
          <6> QED BY <6>2 DEF n
        <5>4. Base(p, m) + k \in 1..(Len(a) + Len(b)) /\ Base(p, m) + k <= Len(a)
          <6> DEFINE n == Len(p[m].bytes)
          <6>1. k \in 1..n /\ n \in Nat /\ Base(p, m) \in Nat /\ Base(p, m) + n <= Len(a) /\ Len(a) \in Nat
            BY <3>3, <3>4, <5>2, <5>3
          <6> HIDE DEF n
          <6> QED BY <3>4, <6>1, SMTT(30)
        <5>5. W(j)[Base(p, m) + k] = a[Base(p, m) + k]
          BY <3>6, <5>4
        <5> QED BY <3>5, <3>7, <5>1, <5>5
      <4> QED BY <4>1, <4>2
    <3>8. Len(W(j)) = Base(p, j + 1)
      BY <3>3, <3>4, <3>6
    <3> QED BY <3>6, <3>7, <3>8
  <2> QED BY <2>1, <2>2
<1>5. Nat \subseteq N
  <2> HIDE DEF N
  <2> QED BY <1>4, Induction
<1>6. Good(Len(p))
  <2> HIDE DEF Good
  <2> QED BY <1>0, <1>5
<1>7. Len(W(Len(p))) \in Nat
  <2> DEFINE w == W(Len(p))
  <2>1. w \in Seq(Nat)
    BY <1>6
  <2> HIDE DEF w
  <2>2. Len(w) \in Nat
    BY <2>1, LenProperties
  <2> QED BY <2>2 DEF w
<1> HIDE DEF W
<1> QED
  BY <1>0, <1>2, <1>3, <1>6, <1>7

-----------------------------------------------------------------------------
(* Walking on across the bounds of members.                                *)

BodiesIn(rs) == [k \in DOMAIN rs |-> rs[k].body]

LEMMA BodiesInAre ==
  ASSUME NEW rs \in Seq(Record), \A k \in 1..Len(rs) : rs[k].body \in Nat
  PROVE  /\ BodiesIn(rs) \in Seq(Nat) /\ Len(BodiesIn(rs)) = Len(rs) /\ DOMAIN rs = 1..Len(rs)
         /\ \A k \in 1..Len(rs) : BodiesIn(rs)[k] = rs[k].body
<1>1. DOMAIN rs = 1..Len(rs) /\ Len(rs) \in Nat
  BY LenProperties
<1> DEFINE n == Len(rs)
           s == [k \in 1..n |-> rs[k].body]
<1>2. BodiesIn(rs) = s
  BY <1>1 DEF BodiesIn
<1>3. s \in [1..n -> Nat]
  OBVIOUS
<1>4. n \in Nat /\ s \in Seq(Nat) /\ Len(s) = n
  <2>1. n \in Nat
    BY <1>1
  <2>2. Len(s) = n
    <3> HIDE DEF n
    <3> QED BY <2>1
  <2> HIDE DEF s, n
  <2> QED BY <1>3, <2>1, <2>2, SeqDef
<1>5. \A k \in 1..n : s[k] = rs[k].body
  OBVIOUS
<1> QED
  BY <1>1, <1>2, <1>4, <1>5

\* The bodies of what follows an offset, and where the last of them ends.
BodiesFrom(lay, bytes, o) == BodiesIn(RecordsFrom(bytes, lay, o))
EndsFrom(lay, bytes, o) ==
    IF o = Len(bytes) THEN o ELSE End(Last(RecordsFrom(bytes, lay, o)), lay)

\* Of what follows an offset no header is cut, by the end or by a bound.
Intact(lay, bytes, bounds, o) ==
    LET R == RecordsFrom(bytes, lay, o)
    IN  /\ TruncatedHeader \notin Range(R)
        /\ \A r \in Range(R) : bounds \intersect Inside(r, lay) = {}

\* A record before others.
LEMMA OneMore ==
  ASSUME NEW s \in Seq(Record), NEW e \in Record, e.body \in Nat,
         \A k \in 1..Len(s) : s[k].body \in Nat
  PROVE  LET q == <<e>> \o s
         IN  /\ q \in Seq(Record) /\ Len(q) = Len(s) + 1 /\ Len(s) \in Nat
             /\ q[1] = e /\ \A k \in 1..Len(s) : q[k + 1] = s[k]
             /\ \A k \in 1..Len(q) : q[k].body \in Nat
             /\ BodiesIn(q) = <<e.body>> \o BodiesIn(s)
             /\ Range(q) = {e} \union Range(s)
<1> DEFINE f == <<e>>
           q == f \o s
<1>1. f \in Seq(Record) /\ Len(f) = 1 /\ f[1] = e
  OBVIOUS
<1> HIDE DEF f
<1>2. /\ q \in Seq(Record) /\ Len(q) = Len(f) + Len(s) /\ Len(s) \in Nat
      /\ \A k \in 1..(Len(f) + Len(s)) : q[k] = IF k <= Len(f) THEN f[k] ELSE s[k - Len(f)]
  BY <1>1, ConcatProperties, LenProperties
<1> HIDE DEF q
<1>3. q[1] = e
  BY <1>1, <1>2
<1>4. \A k \in 1..Len(s) : q[k + 1] = s[k]
  <2> TAKE k \in 1..Len(s)
  <2> DEFINE j == k + 1
  <2>1. j \in 1..(Len(f) + Len(s)) /\ ~(j <= Len(f)) /\ j - Len(f) = k
    BY <1>1, <1>2
  <2> HIDE DEF j
  <2>2. q[j] = s[j - Len(f)]
    BY <1>2, <2>1
  <2> QED BY <2>1, <2>2 DEF j
<1>5. \A k \in 1..Len(q) : k = 1 \/ (k - 1 \in 1..Len(s) /\ q[k] = s[k - 1])
  <2> TAKE k \in 1..Len(q)
  <2> SUFFICES ASSUME k # 1 PROVE k - 1 \in 1..Len(s) /\ q[k] = s[k - 1]
    OBVIOUS
  <2>1. k \in 1..(Len(f) + Len(s)) /\ ~(k <= Len(f)) /\ Len(f) = 1 /\ k - 1 \in 1..Len(s)
    BY <1>1, <1>2
  <2> QED BY <1>2, <2>1
<1>6. \A k \in 1..Len(q) : q[k].body \in Nat
  BY <1>3, <1>5
<1> DEFINE g == <<e.body>>
           t == BodiesIn(s)
           w == BodiesIn(q)
<1>7. g \in Seq(Nat) /\ Len(g) = 1 /\ g[1] = e.body
  OBVIOUS
<1>8. t \in Seq(Nat) /\ Len(t) = Len(s) /\ \A k \in 1..Len(s) : t[k] = s[k].body
  BY BodiesInAre
<1>9. w \in Seq(Nat) /\ Len(w) = Len(q) /\ \A k \in 1..Len(q) : w[k] = q[k].body
  BY <1>2, <1>6, BodiesInAre
<1> HIDE DEF g, t, w
<1>10. /\ g \o t \in Seq(Nat) /\ Len(g \o t) = Len(g) + Len(t)
       /\ \A k \in 1..(Len(g) + Len(t)) : (g \o t)[k] = IF k <= Len(g) THEN g[k] ELSE t[k - Len(g)]
  <2>1. g \in Seq(Nat) /\ t \in Seq(Nat)
    BY <1>7, <1>8
  <2> QED BY <2>1, ConcatProperties
<1> DEFINE u == g \o t
<1> HIDE DEF u
<1>11. ASSUME NEW k \in 1..Len(w) PROVE w[k] = u[k]
  <2>0. k \in 1..Len(q) /\ k \in 1..(Len(g) + Len(t)) /\ w[k] = q[k].body
    BY <1>1, <1>2, <1>7, <1>8, <1>9
  <2>1. CASE k = 1
    <3>1. u[k] = g[1] /\ w[k] = e.body
      BY <1>3, <1>7, <1>10, <2>0, <2>1 DEF u
    <3> QED BY <1>7, <3>1
  <2>2. CASE k # 1
    <3>1. k - 1 \in 1..Len(s) /\ q[k] = s[k - 1]
      BY <1>5, <2>0, <2>2
    <3>2. ~(k <= Len(g)) /\ k - Len(g) = k - 1
      BY <1>7, <2>2
    <3>3. u[k] = t[k - 1]
      BY <1>10, <2>0, <3>2 DEF u
    <3> QED BY <1>8, <2>0, <3>1, <3>3
  <2> QED BY <2>1, <2>2
<1>12. Len(w) = Len(u)
  BY <1>1, <1>2, <1>7, <1>8, <1>9, <1>10 DEF u
<1>13. w = u
  BY <1>9, <1>10, <1>11, <1>12, SeqEqual DEF u
<1>14. BodiesIn(q) = <<e.body>> \o BodiesIn(s)
  BY <1>13 DEF w, u, g, t
<1>15. Len(q) = Len(s) + 1
  BY <1>1, <1>2
<1>16. Range(q) = {e} \union Range(s)
  <2>1. DOMAIN q = 1..Len(q) /\ DOMAIN s = 1..Len(s)
    BY <1>2, LenProperties
  <2>2. Range(q) \subseteq {e} \union Range(s)
    BY <1>3, <1>5, <2>1 DEF Range
  <2>3. e \in Range(q)
    <3>1. 1 \in 1..Len(q)
      BY <1>2, <1>15
    <3> QED BY <1>3, <2>1, <3>1 DEF Range
  <2>4. Range(s) \subseteq Range(q)
    <3> SUFFICES ASSUME NEW k \in 1..Len(s) PROVE s[k] \in Range(q)
      BY <2>1 DEF Range
    <3> DEFINE j == k + 1
    <3>1. j \in 1..Len(q)
      BY <1>2, <1>15
    <3>2. q[j] = s[k]
      BY <1>4
    <3> HIDE DEF j
    <3> QED BY <2>1, <3>1, <3>2 DEF Range
  <2> QED BY <2>2, <2>3, <2>4
<1> QED
  BY <1>2, <1>3, <1>4, <1>6, <1>14, <1>15, <1>16 DEF f, q

\* What the records from an offset on are, by those one record further.
Unfolds(lay, bytes, o) ==
    LET h   == HeaderBytes(lay)
        b   == bytes[o + h]
        end == o + h + b
        e   == [offset |-> o, body |-> b]
        R   == RecordsFrom(bytes, lay, o)
    IN  /\ Len(bytes) \in Nat /\ h \in Nat /\ h > 0
        /\ R \in Seq(Record) /\ (\A k \in 1..Len(R) : R[k].body \in Nat)
        /\ BodiesFrom(lay, bytes, o) \in Seq(Nat)
        /\ o = Len(bytes) => /\ R = <<>> /\ EndsFrom(lay, bytes, o) = o
                             /\ BodiesFrom(lay, bytes, o) = <<>>
        /\ o # Len(bytes) => R # <<>>
        /\ o # Len(bytes) /\ o + h > Len(bytes) => R = <<TruncatedHeader>>
        /\ o + h <= Len(bytes) =>
             /\ b \in Nat /\ end \in Nat /\ end > o
             /\ end > Len(bytes) =>
                  /\ EndsFrom(lay, bytes, o) = end /\ BodiesFrom(lay, bytes, o) = <<b>>
                  /\ Range(R) = {e}
             /\ end <= Len(bytes) =>
                  /\ EndsFrom(lay, bytes, o) = EndsFrom(lay, bytes, end)
                  /\ BodiesFrom(lay, bytes, o) = <<b>> \o BodiesFrom(lay, bytes, end)
                  /\ Range(R) = {e} \union Range(RecordsFrom(bytes, lay, end))

LEMMA WalkUnfolds ==
  ASSUME NEW lay \in Layouts, NEW bytes \in Seq(Nat), NEW o \in 0..Len(bytes)
  PROVE  Unfolds(lay, bytes, o)
<1> DEFINE L == Len(bytes)
           h == HeaderBytes(lay)
           F(x) == RecordsFrom(bytes, lay, x)
           Good(x) == /\ F(x) \in Seq(Record)
                      /\ \A k \in 1..Len(F(x)) : F(x)[k].body \in Nat
           N == {k \in Nat : k <= L => Good(L - k)}
<1>0. L \in Nat /\ h \in Nat /\ h > 0
  BY HeaderAssumption DEF Layouts, HeaderBytes
<1> HIDE DEF h
<1>1. ASSUME NEW x \in 0..L
      PROVE  LET b   == bytes[x + h]
                 end == x + h + b
                 e   == [offset |-> x, body |-> b]
             IN  /\ x = L => F(x) = <<>>
                 /\ x # L /\ x + h > L => F(x) = <<TruncatedHeader>>
                 /\ x + h <= L => /\ b \in Nat /\ end \in Nat /\ end > x /\ e \in Record
                                  /\ end > L => F(x) = <<e>>
                                  /\ end <= L => F(x) = <<e>> \o F(end)
  <2> DEFINE b == bytes[x + h]
             end == x + h + b
             e == [offset |-> x, body |-> b]
  <2>1. /\ x = L => F(x) = <<>>
        /\ x # L /\ x + h > L => F(x) = <<TruncatedHeader>>
        /\ x + h <= L => /\ b \in Nat /\ end \in Nat /\ end > x
                         /\ end > L => F(x) = <<e>> \o <<>>
                         /\ end <= L => F(x) = <<e>> \o F(end)
    BY <1>0, RecordsAt DEF h
  <2>2. x + h <= L => e \in Record /\ <<e>> \o <<>> = <<e>>
    <3> SUFFICES ASSUME x + h <= L PROVE e \in Record /\ <<e>> \o <<>> = <<e>>
      OBVIOUS
    <3>1. e \in Record
      BY <1>0, <2>1 DEF Record
    <3> HIDE DEF e
    <3>2. <<e>> \in Seq(Record)
      BY <3>1
    <3> QED BY <3>1, <3>2, ConcatEmptySeq
  <2> HIDE DEF e, F
  <2> QED BY <2>1, <2>2 DEF e
<1> HIDE DEF F
<1>2. ASSUME NEW e \in Record, e.body \in Nat, NEW s, s = <<e>>
      PROVE  /\ s \in Seq(Record) /\ (\A k \in 1..Len(s) : s[k].body \in Nat) /\ s # <<>>
             /\ Last(s) = e /\ BodiesIn(s) = <<e.body>> /\ Range(s) = {e}
  <2>1. s \in Seq(Record) /\ Len(s) = 1 /\ s[1] = e /\ DOMAIN s = 1..1
    BY <1>2
  <2>2. BodiesIn(s) = <<e.body>>
    <3>1. BodiesIn(s) = [k \in 1..1 |-> s[k].body]
      BY <2>1 DEF BodiesIn
    <3>2. [k \in 1..1 |-> s[k].body] = <<e.body>>
      BY <2>1
    <3> QED BY <3>1, <3>2
  <2>3. Range(s) = {e}
    BY <2>1 DEF Range
  <2> QED BY <1>2, <2>1, <2>2, <2>3 DEF Last
<1>3. ASSUME NEW k \in Nat, \A m \in 0..(k - 1) : m \in N PROVE k \in N
  <2> SUFFICES ASSUME k <= L PROVE Good(L - k)
    OBVIOUS
  <2> DEFINE x == L - k
             b == bytes[x + h]
             end == x + h + b
             e == [offset |-> x, body |-> b]
  <2>0. x \in 0..L
    BY <1>0
  <2> HIDE DEF x
  <2>1. /\ x = L => F(x) = <<>>
        /\ x # L /\ x + h > L => F(x) = <<TruncatedHeader>>
        /\ x + h <= L => /\ b \in Nat /\ end \in Nat /\ end > x /\ e \in Record
                         /\ end > L => F(x) = <<e>>
                         /\ end <= L => F(x) = <<e>> \o F(end)
    BY <1>1, <2>0
  <2>2. e.body = b
    OBVIOUS
  <2> HIDE DEF e, b
  <2>3. CASE x = L
    <3>1. F(x) \in Seq(Record) /\ Len(F(x)) = 0
      BY <2>1, <2>3, EmptySeq
    <3> QED BY <3>1 DEF x
  <2>4. CASE x # L /\ x + h > L
    <3>1. TruncatedHeader \in Record /\ TruncatedHeader.body \in Nat
      BY DEF TruncatedHeader, Record
    <3>2. F(x) = <<TruncatedHeader>>
      BY <2>1, <2>4
    <3> QED BY <1>2, <3>1, <3>2 DEF x
  <2>5. CASE x + h <= L /\ end > L
    <3>1. F(x) = <<e>> /\ e \in Record /\ e.body \in Nat
      BY <2>1, <2>2, <2>5
    <3> QED BY <1>2, <3>1 DEF x
  <2>6. CASE x + h <= L /\ end <= L
    <3>1. F(x) = <<e>> \o F(end) /\ e \in Record /\ e.body \in Nat
      BY <2>1, <2>2, <2>6
    <3>2. Good(end)
      <4>0. end \in 0..L /\ end > x
        BY <1>0, <2>0, <2>1, <2>6
      <4> HIDE DEF end
      <4> DEFINE i == L - end
      <4>1. i \in 0..(k - 1) /\ i <= L /\ L - i = end
        BY <1>0, <2>0, <4>0 DEF x
      <4> HIDE DEF i
      <4>2. i \in N
        <5> HIDE DEF N
        <5> QED BY <1>3, <4>1
      <4>3. Good(L - i)
        BY <4>1, <4>2
      <4> QED BY <4>1, <4>3
    <3>3. Good(x)
      <4> HIDE DEF N, end
      <4> DEFINE s == F(end)
      <4>1. s \in Seq(Record) /\ \A l \in 1..Len(s) : s[l].body \in Nat
        BY <3>2
      <4> HIDE DEF s
      <4> DEFINE q == <<e>> \o s
      <4>2. q \in Seq(Record) /\ \A l \in 1..Len(q) : q[l].body \in Nat
        BY <3>1, <4>1, OneMore
      <4>3. F(x) = q
        BY <3>1 DEF s
      <4> HIDE DEF q
      <4> QED BY <4>2, <4>3
    <3> QED BY <3>3 DEF x
  <2>7. x = L \/ (x # L /\ x + h > L) \/ (x + h <= L /\ (end > L \/ end <= L))
    BY <1>0, <2>0, <2>1
  <2> HIDE DEF N, end
  <2> QED BY <2>3, <2>4, <2>5, <2>6, <2>7 DEF x
<1>4. Nat \subseteq N
  <2> HIDE DEF N
  <2> QED BY <1>3, Induction
<1>5. ASSUME NEW x \in 0..L PROVE Good(x)
  <2> DEFINE i == L - x
  <2>1. i \in Nat /\ i <= L /\ L - i = x
    BY <1>0
  <2> HIDE DEF i
  <2>2. Good(L - i)
    BY <1>4, <2>1
  <2> QED BY <2>1, <2>2
<1> HIDE DEF N
<1>13. ASSUME NEW x \in 0..L, x # L PROVE F(x) # <<>>
  <2> DEFINE b == bytes[x + h]
             end == x + h + b
             e == [offset |-> x, body |-> b]
  <2>0. /\ x # L /\ x + h > L => F(x) = <<TruncatedHeader>>
        /\ x + h <= L => /\ b \in Nat /\ end \in Nat /\ end > x /\ e \in Record
                         /\ end > L => F(x) = <<e>>
                         /\ end <= L => F(x) = <<e>> \o F(end)
    BY <1>1
  <2>00. e.body = b
    OBVIOUS
  <2> HIDE DEF e, b
  <2>1. CASE x + h > L
    <3>1. F(x) = <<TruncatedHeader>>
      BY <1>13, <2>0, <2>1
    <3> QED BY <3>1
  <2>2. CASE x + h <= L /\ end > L
    <3>1. F(x) = <<e>>
      BY <2>0, <2>2
    <3> QED BY <3>1
  <2>3. CASE x + h <= L /\ end <= L
    <3> DEFINE s == F(end)
               q == <<e>> \o s
    <3>1. F(x) = q /\ e \in Record /\ e.body \in Nat /\ end \in 0..L
      BY <1>0, <2>0, <2>00, <2>3
    <3>2. s \in Seq(Record) /\ \A k \in 1..Len(s) : s[k].body \in Nat
      <4> HIDE DEF end
      <4> QED BY <1>5, <3>1
    <3> HIDE DEF s
    <3>3. Len(q) = Len(s) + 1 /\ Len(s) \in Nat
      BY <3>1, <3>2, OneMore
    <3> HIDE DEF q
    <3>4. Len(q) # 0
      BY <3>3
    <3> QED BY <3>1, <3>4, EmptySeq
  <2>4. x + h > L \/ (x + h <= L /\ (end > L \/ end <= L))
    BY <1>0, <2>0
  <2> HIDE DEF end
  <2> QED BY <2>1, <2>2, <2>3, <2>4
<1> DEFINE b == bytes[o + h]
           end == o + h + b
           e == [offset |-> o, body |-> b]
<1>6. /\ o = L => F(o) = <<>>
      /\ o # L /\ o + h > L => F(o) = <<TruncatedHeader>>
      /\ o + h <= L => /\ b \in Nat /\ end \in Nat /\ end > o /\ e \in Record
                       /\ end > L => F(o) = <<e>>
                       /\ end <= L => F(o) = <<e>> \o F(end)
  BY <1>1
<1>7. e.body = b /\ End(e, lay) = end
  BY DEF End, h
<1> HIDE DEF e, b
<1>8. Good(o)
  BY <1>5
<1>10. BodiesFrom(lay, bytes, o) \in Seq(Nat)
  BY <1>8, BodiesInAre DEF BodiesFrom, F
<1>11. ASSUME o = L
       PROVE  F(o) = <<>> /\ EndsFrom(lay, bytes, o) = o /\ BodiesFrom(lay, bytes, o) = <<>>
  <2>1. F(o) = <<>>
    BY <1>6, <1>11
  <2>2. BodiesIn(<<>>) = <<>>
    BY DEF BodiesIn
  <2> QED BY <1>11, <2>1, <2>2 DEF EndsFrom, BodiesFrom, F
<1>12. ASSUME o + h <= L, end > L
       PROVE  /\ EndsFrom(lay, bytes, o) = end /\ BodiesFrom(lay, bytes, o) = <<b>> /\ Range(F(o)) = {e}
  <2>0. e \in Record /\ e.body \in Nat /\ F(o) = <<e>> /\ o # L
    BY <1>0, <1>6, <1>7, <1>12
  <2>1. Last(F(o)) = e /\ BodiesIn(F(o)) = <<e.body>> /\ Range(F(o)) = {e}
    BY <1>2, <2>0
  <2> QED BY <1>7, <2>0, <2>1 DEF EndsFrom, BodiesFrom, F
<1>14. ASSUME o + h <= L, end <= L
       PROVE  /\ EndsFrom(lay, bytes, o) = EndsFrom(lay, bytes, end)
              /\ BodiesFrom(lay, bytes, o) = <<b>> \o BodiesFrom(lay, bytes, end)
              /\ Range(F(o)) = {e} \union Range(F(end))
  <2> DEFINE s == F(end)
             q == F(o)
             u == <<e>> \o s
  <2>1. q = u /\ e \in Record /\ e.body \in Nat /\ end \in 0..L /\ o # L
    BY <1>0, <1>6, <1>7, <1>14
  <2>2. s \in Seq(Record) /\ \A k \in 1..Len(s) : s[k].body \in Nat
    <3> HIDE DEF end
    <3> QED BY <1>5, <2>1
  <2> HIDE DEF q, s
  <2>3. /\ Len(u) = Len(s) + 1 /\ Len(s) \in Nat /\ u[1] = e
        /\ \A k \in 1..Len(s) : u[k + 1] = s[k]
        /\ BodiesIn(u) = <<e.body>> \o BodiesIn(s)
        /\ Range(u) = {e} \union Range(s)
    BY <2>1, <2>2, OneMore
  <2> HIDE DEF u
  <2>4. CASE end = L
    <3>1. s = <<>>
      <4>1. L \in 0..L
        BY <1>0
      <4>2. F(L) = <<>>
        BY <1>1, <4>1
      <4> QED BY <2>4, <4>2 DEF s
    <3>2. Len(q) = 1
      BY <2>1, <2>3, <3>1, EmptySeq
    <3>3. Last(q) = e
      BY <2>1, <2>3, <3>2 DEF Last
    <3> QED BY <1>7, <2>1, <2>3, <2>4, <3>3 DEF EndsFrom, BodiesFrom, F, q, s
  <2>5. CASE end # L
    <3>1. s # <<>>
      <4> HIDE DEF end
      <4> QED BY <1>13, <2>1, <2>5 DEF s
    <3>2. Len(s) \in 1..Len(s) /\ Len(q) = Len(s) + 1
      <4>1. Len(s) # 0
        BY <2>2, <3>1, EmptySeq
      <4> QED BY <2>1, <2>3, <4>1
    <3>3. Last(q) = Last(s)
      <4>1. u[Len(s) + 1] = s[Len(s)]
        BY <2>3, <3>2
      <4> QED BY <2>1, <3>2, <4>1 DEF Last
    <3>4. EndsFrom(lay, bytes, o) = End(Last(q), lay)
      BY <2>1 DEF EndsFrom, F, q
    <3>5. EndsFrom(lay, bytes, end) = End(Last(s), lay)
      <4> HIDE DEF end
      <4> QED BY <2>5 DEF EndsFrom, F, s
    <3>6. EndsFrom(lay, bytes, o) = EndsFrom(lay, bytes, end)
      BY <3>3, <3>4, <3>5
    <3>7. BodiesFrom(lay, bytes, o) = <<b>> \o BodiesFrom(lay, bytes, end)
      <4>1. BodiesIn(q) = <<b>> \o BodiesIn(s)
        BY <1>7, <2>1, <2>3
      <4> QED BY <4>1 DEF BodiesFrom, F, q, s
    <3>8. Range(F(o)) = {e} \union Range(F(end))
      BY <2>1, <2>3 DEF q, s
    <3> QED BY <3>6, <3>7, <3>8
  <2> QED BY <2>4, <2>5
<1> QED
  BY <1>0, <1>6, <1>8, <1>10, <1>11, <1>12, <1>13, <1>14 DEF F, b, e, h, Unfolds

\* A header that is whole lies before a bound or after it, and what follows
\* its record is as whole.
LEMMA IntactGoesOn ==
  ASSUME NEW lay \in Layouts, NEW bytes \in Seq(Nat), NEW o \in 0..Len(bytes), o # Len(bytes),
         NEW bounds, Intact(lay, bytes, bounds, o)
  PROVE  LET h   == HeaderBytes(lay)
             end == o + h + bytes[o + h]
         IN  /\ o + h <= Len(bytes)
             /\ \A z \in bounds : z \in Nat => z <= o \/ z >= o + h
             /\ end <= Len(bytes) => Intact(lay, bytes, bounds, end)
<1> DEFINE h == HeaderBytes(lay)
           b == bytes[o + h]
           end == o + h + b
           e == [offset |-> o, body |-> b]
           R == RecordsFrom(bytes, lay, o)
<1>1. /\ Len(bytes) \in Nat /\ h \in Nat /\ h > 0
      /\ o + h > Len(bytes) => R = <<TruncatedHeader>>
      /\ o + h <= Len(bytes) =>
           /\ b \in Nat /\ end \in Nat /\ end > o
           /\ end > Len(bytes) => Range(R) = {e}
           /\ end <= Len(bytes) => Range(R) = {e} \union Range(RecordsFrom(bytes, lay, end))
  <2>1. Unfolds(lay, bytes, o)
    BY WalkUnfolds
  <2> QED BY <2>1 DEF Unfolds
<1>2. TruncatedHeader \notin Range(R) /\ \A r \in Range(R) : bounds \intersect Inside(r, lay) = {}
  BY DEF Intact
<1>3. o + h <= Len(bytes)
  <2>1. SUFFICES ASSUME R = <<TruncatedHeader>> PROVE FALSE
    <3> HIDE DEF h, R
    <3> QED BY <1>1
  <2>2. DOMAIN R = 1..1 /\ R[1] = TruncatedHeader
    BY <2>1
  <2> QED BY <1>2, <2>2 DEF Range
<1>4. e \in Range(R)
  <2> HIDE DEF e, R, b, h
  <2> QED BY <1>1, <1>3
<1>5. ASSUME NEW z \in bounds, z \in Nat PROVE z <= o \/ z >= o + h
  <2>1. z \notin Inside(e, lay)
    BY <1>2, <1>4
  <2>2. Inside(e, lay) = (o + 1)..(o + h - 1)
    BY DEF Inside
  <2> HIDE DEF h, e
  <2> QED BY <1>1, <1>5, <2>1, <2>2
<1>6. ASSUME end <= Len(bytes) PROVE Intact(lay, bytes, bounds, end)
  <2>1. Range(RecordsFrom(bytes, lay, end)) \subseteq Range(R)
    <3> HIDE DEF e, R, end
    <3> QED BY <1>1, <1>3, <1>6
  <2> HIDE DEF R, end
  <2> QED BY <1>2, <2>1 DEF Intact
<1> QED
  BY <1>3, <1>5, <1>6

LEMMA NumbersAssociate ==
  ASSUME NEW a \in Seq(Nat), NEW b \in Seq(Nat), NEW c \in Seq(Nat)
  PROVE  (a \o b) \o c = a \o (b \o c)
BY ConcatAssociative, SMTT(30)

\* Walking a part of the whole and going on from where that walk ends reads the
\* same as walking the whole.
Splits(lay, whole, bytes, base, bounds, o) ==
    /\ EndsFrom(lay, bytes, o) \in Nat /\ EndsFrom(lay, bytes, o) >= Len(bytes)
    /\ base + EndsFrom(lay, bytes, o) <= Len(whole)
    /\ EndsFrom(lay, whole, base + EndsFrom(lay, bytes, o)) = Len(whole)
    /\ Intact(lay, whole, bounds, base + EndsFrom(lay, bytes, o))
    /\ TruncatedHeader \notin Range(RecordsFrom(bytes, lay, o))
    /\ BodiesFrom(lay, whole, base + o)
         = BodiesFrom(lay, bytes, o) \o BodiesFrom(lay, whole, base + EndsFrom(lay, bytes, o))

\* That is so where the records from an offset on end with the whole, none of
\* its headers cut, and the part ends at a bound.
LEMMA WalkSplits ==
  ASSUME NEW lay \in Layouts, NEW whole \in Seq(Nat), NEW bytes \in Seq(Nat), NEW base \in Nat,
         NEW bounds, base + Len(bytes) \in bounds,
         base + Len(bytes) <= Len(whole),
         \A k \in 1..Len(bytes) : whole[base + k] = bytes[k],
         NEW o \in 0..Len(bytes), EndsFrom(lay, whole, base + o) = Len(whole),
         Intact(lay, whole, bounds, base + o)
  PROVE  Splits(lay, whole, bytes, base, bounds, o)
<1> DEFINE L == Len(bytes)
           G == Len(whole)
           h == HeaderBytes(lay)
           E(x) == EndsFrom(lay, bytes, x)
           R(x) == RecordsFrom(bytes, lay, x)
           Whole(x) == Intact(lay, whole, bounds, x)
           Good(x) == EndsFrom(lay, whole, base + x) = G /\ Whole(base + x) =>
                        /\ E(x) \in Nat /\ E(x) >= L
                        /\ base + E(x) <= G
                        /\ EndsFrom(lay, whole, base + E(x)) = G
                        /\ Whole(base + E(x))
                        /\ TruncatedHeader \notin Range(R(x))
                        /\ BodiesFrom(lay, whole, base + x)
                             = BodiesFrom(lay, bytes, x) \o BodiesFrom(lay, whole, base + E(x))
           N == {k \in Nat : k <= L => Good(L - k)}
<1>0. L \in Nat /\ G \in Nat /\ base + L <= G /\ base + L \in bounds
  OBVIOUS
<1>00. h \in Nat /\ h > 0
  BY HeaderAssumption DEF HeaderBytes, Layouts
<1> HIDE DEF E, h, Whole, R
<1>1. ASSUME NEW k \in Nat, \A m \in 0..(k - 1) : m \in N PROVE k \in N
  <2> SUFFICES ASSUME k <= L PROVE Good(L - k)
    OBVIOUS
  <2> DEFINE x == L - k
             y == base + x
             b == bytes[x + h]
             e == [offset |-> x, body |-> b]
             end == x + h + b
             next == y + h + whole[y + h]
  <2>0. x \in 0..L /\ y \in 0..G
    BY <1>0
  <2> HIDE DEF x
  <2> SUFFICES ASSUME EndsFrom(lay, whole, y) = G, Whole(y)
               PROVE  /\ E(x) \in Nat /\ E(x) >= L
                      /\ base + E(x) <= G
                      /\ EndsFrom(lay, whole, base + E(x)) = G
                      /\ Whole(base + E(x))
                      /\ TruncatedHeader \notin Range(R(x))
                      /\ BodiesFrom(lay, whole, y) = BodiesFrom(lay, bytes, x) \o BodiesFrom(lay, whole, base + E(x))
    BY DEF x
  <2> HIDE DEF y
  <2>1. /\ BodiesFrom(lay, whole, y) \in Seq(Nat)
        /\ y + h <= G => /\ whole[y + h] \in Nat /\ next \in Nat /\ next > y
                         /\ next > G => EndsFrom(lay, whole, y) = next
                         /\ next <= G => /\ EndsFrom(lay, whole, y) = EndsFrom(lay, whole, next)
                                         /\ BodiesFrom(lay, whole, y) = <<whole[y + h]>> \o BodiesFrom(lay, whole, next)
    <3>1. Unfolds(lay, whole, y)
      BY <2>0, WalkUnfolds
    <3> QED BY <3>1 DEF h, Unfolds
  <2>2. /\ BodiesFrom(lay, bytes, x) \in Seq(Nat)
        /\ x = L => R(x) = <<>> /\ E(x) = x /\ BodiesFrom(lay, bytes, x) = <<>>
        /\ x + h <= L => /\ b \in Nat /\ end \in Nat /\ end > x
                         /\ end > L => E(x) = end /\ BodiesFrom(lay, bytes, x) = <<b>> /\ Range(R(x)) = {e}
                         /\ end <= L => /\ E(x) = E(end)
                                        /\ BodiesFrom(lay, bytes, x) = <<b>> \o BodiesFrom(lay, bytes, end)
                                        /\ Range(R(x)) = {e} \union Range(R(end))
    <3>1. Unfolds(lay, bytes, x)
      BY <2>0, WalkUnfolds
    <3> QED BY <3>1 DEF E, R, h, Unfolds
  <2>3. CASE x = L
    <3>1. R(x) = <<>> /\ E(x) = x /\ BodiesFrom(lay, bytes, x) = <<>> /\ y = base + x
      BY <2>2, <2>3 DEF y
    <3>2. <<>> \o BodiesFrom(lay, whole, y) = BodiesFrom(lay, whole, y)
      BY <2>1, ConcatEmptySeq
    <3>3. E(x) \in Nat /\ E(x) >= L /\ base + E(x) = y /\ y <= G
      BY <1>0, <2>0, <2>3, <3>1
    <3>4. TruncatedHeader \notin Range(R(x))
      BY <3>1 DEF Range
    <3> QED BY <3>1, <3>2, <3>3, <3>4
  <2>4. CASE x # L
    <3>1. /\ y # G /\ y + h <= G /\ y + h = base + (x + h) /\ x + h \in 1..L
          /\ next <= G => Whole(next)
      <4>1. y # G /\ base + L > y /\ base + L \in Nat
        BY <1>0, <2>0, <2>4 DEF y
      <4>2. /\ y + h <= G
            /\ \A z \in bounds : z \in Nat => z <= y \/ z >= y + h
            /\ next <= G => Whole(next)
        BY <2>0, <4>1, IntactGoesOn DEF Whole, h
      <4>3. base + L >= y + h
        <5>1. base + L \in bounds /\ base + L \in Nat
          BY <1>0, <4>1
        <5>2. base + L <= y \/ base + L >= y + h
          BY <4>2, <5>1
        <5>3. base + L > y /\ base + L \in Int /\ y \in Int /\ h \in Int
          BY <1>00, <2>0, <4>1, <5>1
        <5> HIDE DEF L
        <5> QED BY <5>2, <5>3
      <4> HIDE DEF next
      <4> QED BY <1>0, <1>00, <2>0, <4>1, <4>2, <4>3 DEF y
    <3>2. whole[y + h] = b
      <4> DEFINE j == x + h
      <4>1. j \in 1..L /\ y + h = base + j
        BY <3>1
      <4> HIDE DEF j
      <4>2. whole[base + j] = bytes[j]
        BY <4>1
      <4> QED BY <4>1, <4>2 DEF j
    <3> DEFINE c == whole[y + h]
    <3>3. c = b /\ b \in Nat /\ next = base + end /\ next \in Nat /\ end \in Nat /\ end > x /\ x + h <= L
      <4>1. b \in Nat /\ end \in Nat /\ end > x /\ c = b /\ x + h <= L
        BY <1>0, <1>00, <2>0, <2>2, <3>1, <3>2
      <4>2. next = y + h + c
        OBVIOUS
      <4> HIDE DEF b, c, next
      <4>3. x \in Nat /\ y = base + x
        BY <1>0, <2>0 DEF y
      <4>4. next = base + (x + h + b) /\ next \in Nat
        <5> HIDE DEF y
        <5> QED BY <1>00, <4>1, <4>2, <4>3
      <4> QED BY <4>1, <4>4
    <3>4. next <= G
      <4>1. next > G => EndsFrom(lay, whole, y) = next
        BY <2>1, <3>1
      <4> HIDE DEF next
      <4> QED BY <1>0, <3>3, <4>1
    <3>5. EndsFrom(lay, whole, next) = G /\ Whole(next)
          /\ BodiesFrom(lay, whole, y) = <<b>> \o BodiesFrom(lay, whole, next)
      BY <2>1, <3>1, <3>2, <3>4
    <3>50. e # TruncatedHeader
      <4>1. e.offset = x /\ TruncatedHeader.offset = -1
        BY DEF TruncatedHeader
      <4>2. x # -1
        BY <1>0, <2>0
      <4> QED BY <4>1, <4>2
    <3> HIDE DEF e
    <3>6. CASE end > L
      <4>1. E(x) = end /\ BodiesFrom(lay, bytes, x) = <<b>> /\ Range(R(x)) = {e}
        BY <2>2, <3>3, <3>6
      <4>11. TruncatedHeader \notin Range(R(x))
        BY <3>50, <4>1
      <4> HIDE DEF end, next
      <4>2. end >= L
        BY <1>0, <3>3, <3>6
      <4> QED BY <3>3, <3>4, <3>5, <4>1, <4>11, <4>2
    <3>7. CASE ~(end > L)
      <4>0. end <= L /\ end \in 0..L
        <5> HIDE DEF end
        <5> QED BY <1>0, <3>3, <3>7
      <4>1. E(x) = E(end) /\ BodiesFrom(lay, bytes, x) = <<b>> \o BodiesFrom(lay, bytes, end)
            /\ Range(R(x)) = {e} \union Range(R(end))
        BY <2>2, <3>3, <4>0
      <4>2. Good(end)
        <5> HIDE DEF end
        <5>0. end \in 0..L /\ end > x
          BY <3>3, <4>0
        <5> DEFINE i == L - end
        <5>1. i \in 0..(k - 1) /\ i <= L /\ L - i = end
          BY <1>0, <5>0, SMTT(30) DEF x
        <5> HIDE DEF i
        <5>2. i \in N
          <6> HIDE DEF N
          <6> QED BY <1>1, <5>1
        <5>3. Good(L - i)
          BY <5>1, <5>2
        <5> QED BY <5>1, <5>3
      <4> HIDE DEF N
      <4>3. /\ E(end) \in Nat /\ E(end) >= L /\ base + E(end) <= G
            /\ EndsFrom(lay, whole, base + E(end)) = G
            /\ Whole(base + E(end))
            /\ TruncatedHeader \notin Range(R(end))
            /\ BodiesFrom(lay, whole, next)
                 = BodiesFrom(lay, bytes, end) \o BodiesFrom(lay, whole, base + E(end))
        <5>1. base + end = next
          BY <3>3
        <5> HIDE DEF end, next
        <5>2. EndsFrom(lay, whole, base + end) = G /\ Whole(base + end)
          BY <3>5, <5>1
        <5> QED BY <4>2, <5>1, <5>2
      <4>4. /\ BodiesFrom(lay, bytes, end) \in Seq(Nat)
            /\ BodiesFrom(lay, whole, base + E(end)) \in Seq(Nat)
        <5> HIDE DEF end
        <5>1. base + E(end) \in 0..G
          BY <1>0, <4>3
        <5>2. BodiesFrom(lay, bytes, end) \in Seq(Nat)
          BY <4>0, WalkUnfolds DEF Unfolds
        <5> DEFINE z == base + E(end)
        <5>3. z \in 0..G
          BY <5>1
        <5> HIDE DEF z
        <5>4. BodiesFrom(lay, whole, z) \in Seq(Nat)
          BY <5>3, WalkUnfolds DEF Unfolds
        <5> QED BY <5>2, <5>4 DEF z
      <4> DEFINE f == <<b>>
                 s == BodiesFrom(lay, bytes, end)
                 t == BodiesFrom(lay, whole, base + E(end))
      <4>5. f \in Seq(Nat) /\ s \in Seq(Nat) /\ t \in Seq(Nat)
        BY <3>3, <4>4
      <4>6. BodiesFrom(lay, whole, y) = f \o (s \o t) /\ BodiesFrom(lay, bytes, x) = f \o s
        BY <3>5, <4>1, <4>3
      <4>7. BodiesFrom(lay, whole, y) = BodiesFrom(lay, bytes, x) \o t
        <5> HIDE DEF f, s, t
        <5>1. (f \o s) \o t = f \o (s \o t)
          <6>1. f \in Seq(Nat) /\ s \in Seq(Nat) /\ t \in Seq(Nat)
            BY <4>5
          <6> HIDE DEF b, end, N
          <6> QED BY <6>1, NumbersAssociate, ZenonT(30)
        <5> QED BY <4>6, <5>1
      <4>8. TruncatedHeader \notin Range(R(x))
        <5> HIDE DEF end
        <5> QED BY <3>50, <4>1, <4>3
      <4> HIDE DEF end
      <4> QED BY <4>1, <4>3, <4>7, <4>8
    <3> QED BY <3>6, <3>7
  <2> QED BY <2>3, <2>4
<1>2. Nat \subseteq N
  <2> HIDE DEF N
  <2> QED BY <1>1, Induction
<1>3. Good(o)
  <2> DEFINE i == L - o
  <2>1. i \in Nat /\ i <= L /\ L - i = o
    BY <1>0
  <2> HIDE DEF i
  <2>2. Good(L - i)
    BY <1>2, <2>1
  <2> QED BY <2>1, <2>2
<1> QED
  BY <1>3 DEF E, R, Whole, Splits

BodyOf(ps, v, r) ==
    LET tag == ps[v.part][v.member].tag
    IN  IF End(r, tag) <= Len(v.payload)
        THEN SubSeq(v.payload, r.offset + HeaderBytes(tag) + 1, End(r, tag))
        ELSE <<>>

\* How much of a body a visitor reads, record by record, of a member and of
\* all that were resolved.
Lengths(ps, v) == [k \in DOMAIN v.records |-> Len(BodyOf(ps, v, v.records[k]))]
AllLengths(ps, s) == FlattenSeq([i \in DOMAIN s |-> Lengths(ps, s[i])])

\* What the records of the partitions, each taken as one, hold.
PartitionBodies(p) == BodiesIn(RecordsIn(p))
BodiesUpTo(ps, k) == Flat([n \in DOMAIN ps |-> PartitionBodies(ps[n])], k)

OneLayout(p) ==
    /\ LayoutIn(p) \in Layouts
    /\ \A m \in 1..Len(p) : p[m].tag = LayoutIn(p) /\ p[m].decodes

LEMMA TiledIs ==
  ASSUME NEW p \in Seq(Member), TilesAsOne(p)
  PROVE  /\ OneLayout(p)
         /\ WholeOf(p) \in Seq(Nat) /\ Len(WholeOf(p)) \in Nat
         /\ EndsFrom(LayoutIn(p), WholeOf(p), 0) = Len(WholeOf(p))
         /\ Intact(LayoutIn(p), WholeOf(p), MemberEnds(p), 0)
         /\ PartitionBodies(p) = BodiesFrom(LayoutIn(p), WholeOf(p), 0)
         /\ PartitionBodies(p) \in Seq(Nat)
<1> DEFINE W == WholeOf(p)
           lay == LayoutIn(p)
<1>1. W \in Seq(Nat) /\ Len(W) \in Nat /\ Len(p) \in Nat
  BY WholeIs
<1>2. OneLayout(p) /\ lay \in Layouts
  <2>1. \A m \in Range(p) : m.tag = LayoutIn(p) /\ m.decodes
    BY DEF TilesAsOne
  <2>2. \A m \in 1..Len(p) : p[m] \in Range(p)
    BY DEF Range
  <2> QED BY <2>1, <2>2 DEF OneLayout, TilesAsOne, Layouts
<1>3. /\ p = <<>> \/ TrailingDeficit(W, lay, 0) = 0
      /\ TruncatedHeader \notin Range(RecordsIn(p))
      /\ \A r \in Range(RecordsIn(p)) : MemberEnds(p) \intersect Inside(r, lay) = {}
      /\ RecordsIn(p) = Records(W, lay, 0)
  BY DEF TilesAsOne, RecordsIn
<1> HIDE DEF W, lay
<1>30. ASSUME Records(W, lay, 0) = RecordsFrom(W, lay, 0)
       PROVE  Intact(lay, W, MemberEnds(p), 0) /\ PartitionBodies(p) = BodiesFrom(lay, W, 0)
  BY <1>3, <1>30 DEF Intact, PartitionBodies, BodiesFrom
<1>4. CASE Len(W) = 0
  <2>1. 0 \in 0..Len(W) /\ 0 = Len(W)
    BY <1>4
  <2>2. RecordsFrom(W, lay, 0) = <<>> /\ EndsFrom(lay, W, 0) = 0 /\ BodiesFrom(lay, W, 0) \in Seq(Nat)
    BY <1>1, <1>2, <2>1, WalkUnfolds DEF Unfolds
  <2>3. Records(W, lay, 0) = <<>>
    BY <2>1 DEF Records
  <2> QED BY <1>1, <1>2, <1>4, <1>30, <2>2, <2>3 DEF W, lay
<1>5. CASE Len(W) # 0
  <2>1. 0 \in 0..Len(W) /\ ~(0 >= Len(W))
    BY <1>1, <1>5
  <2>2. BodiesFrom(lay, W, 0) \in Seq(Nat) /\ RecordsFrom(W, lay, 0) \in Seq(Record)
        /\ RecordsFrom(W, lay, 0) # <<>>
    BY <1>1, <1>2, <1>5, <2>1, WalkUnfolds DEF Unfolds
  <2>3. Records(W, lay, 0) = RecordsFrom(W, lay, 0)
    BY <2>1 DEF Records
  <2>4. p # <<>>
    <3>1. p = <<>> => W = <<>>
      <4>1. ASSUME p = <<>> PROVE [i \in DOMAIN p |-> p[i].bytes] = <<>>
        BY <4>1
      <4> QED BY <4>1, FlattenEmpty DEF W, WholeOf
    <3> QED BY <1>1, <1>5, <3>1, EmptySeq
  <2>5. End(Last(RecordsFrom(W, lay, 0)), lay) - Len(W) = 0
    BY <1>3, <2>1, <2>3, <2>4 DEF TrailingDeficit
  <2>6. End(Last(RecordsFrom(W, lay, 0)), lay) \in Int
    <3> DEFINE R == RecordsFrom(W, lay, 0)
    <3>1. R[Len(R)].offset \in Int /\ R[Len(R)].body \in Int
      <4> HIDE DEF R
      <4>1. R \in Seq(Record) /\ R # <<>>
        BY <2>2 DEF R
      <4>2. R[Len(R)] \in Record
        BY <4>1
      <4> QED BY <4>2 DEF Record
    <3> QED BY <3>1, HeaderAssumption DEF End, HeaderBytes, Last
  <2>7. EndsFrom(lay, W, 0) = Len(W)
    <3>1. EndsFrom(lay, W, 0) = End(Last(RecordsFrom(W, lay, 0)), lay)
      BY <1>5 DEF EndsFrom
    <3> QED BY <1>1, <2>5, <2>6, <3>1
  <2> QED BY <1>1, <1>2, <1>30, <2>2, <2>3, <2>7 DEF W, lay
<1> QED
  BY <1>4, <1>5

LEMMA LengthsAre ==
  ASSUME NEW ps, NEW v, IsRead(ps, v)
  PROVE  Lengths(ps, v) \in Seq(Nat)
<1>1. PICK n \in 1..Len(ps), m \in Nat, c \in Nat : Read(ps[n], m, c) /\ v = Made(ps[n], n, m, c)
  BY DEF IsRead
<1> DEFINE p == ps[n]
           rs == Records(p[m].bytes, p[m].tag, c)
           d == TrailingDeficit(p[m].bytes, p[m].tag, c)
           payload == Placed(p, m) \o SpilledTail(p, m, d)
<1>2. v.records = rs /\ v.payload = payload /\ v.part = n /\ v.member = m
  BY <1>1 DEF Made
<1> HIDE DEF p
<1>3. Read(p, m, c)
  BY <1>1 DEF p
<1>4. rs \in Seq(Record) /\ d \in Nat
  BY <1>3, RecordsRead
<1>5. payload \in Seq(Cell)
  <2> HIDE DEF payload, d
  <2>1. p \in Seq(Member) /\ m \in 1..Len(p)
    BY <1>3 DEF Read
  <2> USE DEF payload
  <2>2. \E k \in m..Len(p) : Runs(p, m, d, payload, k)
    BY <1>4, <2>1, PayloadRuns
  <2> QED BY <2>2 DEF Runs
<1> HIDE DEF rs, payload
<1>6. \A k \in 1..Len(rs) : Len(BodyOf(ps, v, rs[k])) \in Nat
  <2> SUFFICES ASSUME NEW k \in 1..Len(rs) PROVE Len(BodyOf(ps, v, rs[k])) \in Nat
    OBVIOUS
  <2> DEFINE r == rs[k]
             tag == ps[v.part][v.member].tag
             h == HeaderBytes(tag)
  <2>1. r.offset \in Int /\ r.body \in Int /\ h \in Int
    <3>1. r \in Record
      BY <1>4
    <3> QED BY <3>1, HeaderAssumption DEF Record, HeaderBytes
  <2>2. End(r, tag) = r.offset + h + r.body
    BY DEF End
  <2>3. BodyOf(ps, v, r) = IF End(r, tag) <= Len(payload)
                           THEN SubSeq(payload, r.offset + h + 1, End(r, tag)) ELSE <<>>
    BY <1>2 DEF BodyOf
  <2> DEFINE e == End(r, tag)
             a == r.offset + h + 1
  <2>4. a \in Int /\ e \in Int
    BY <2>1, <2>2
  <2> HIDE DEF r, tag, h, e, a
  <2>5. BodyOf(ps, v, r) = IF e <= Len(payload) THEN SubSeq(payload, a, e) ELSE <<>>
    BY <2>3 DEF e, a
  <2>6. Len(<<>>) = 0
    BY EmptySeq
  <2>7. Len(SubSeq(payload, a, e)) = IF a <= e THEN e - a + 1 ELSE 0
    BY <1>5, <2>4
  <2>8. Len(SubSeq(payload, a, e)) \in Nat
    BY <2>4, <2>7
  <2>9. Len(BodyOf(ps, v, r)) \in Nat
    <3> DEFINE q == SubSeq(payload, a, e)
               b == BodyOf(ps, v, r)
    <3>1. Len(q) \in Nat /\ (b = q \/ b = <<>>)
      BY <2>5, <2>8
    <3> HIDE DEF q, b
    <3>2. Len(<<>>) \in Nat
      BY <2>6
    <3>3. Len(b) \in Nat
      BY <3>1, <3>2, Zenon
    <3> QED BY <3>3 DEF b
  <2> QED BY <2>9 DEF r
<1>7. DOMAIN rs = 1..Len(rs) /\ Len(rs) \in Nat
  BY <1>4
<1> QED
  BY <1>2, <1>6, <1>7 DEF Lengths

LEMMA AllLengthsAre ==
  ASSUME NEW ps, NEW s \in Seq(Entries(ps))
  PROVE  /\ AllLengths(ps, s) \in Seq(Nat)
         /\ AllLengths(ps, <<>>) = <<>>
         /\ \A v \in Entries(ps) : AllLengths(ps, Append(s, v)) = AllLengths(ps, s) \o Lengths(ps, v)
<1> DEFINE f == [i \in DOMAIN s |-> Lengths(ps, s[i])]
<1>1. DOMAIN s = 1..Len(s) /\ Len(s) \in Nat
  OBVIOUS
<1>2. \A v \in Entries(ps) : Lengths(ps, v) \in Seq(Nat)
  BY LengthsAre DEF Entries
<1>3. f \in Seq(Seq(Nat)) /\ Len(f) = Len(s)
  <2>1. \A i \in 1..Len(s) : s[i] \in Entries(ps)
    OBVIOUS
  <2>2. \A i \in 1..Len(s) : f[i] \in Seq(Nat)
    BY <1>1, <1>2, <2>1
  <2> QED BY <1>1, <2>2
<1>4. AllLengths(ps, s) = FlattenSeq(f)
  BY DEF AllLengths
<1>5. AllLengths(ps, s) \in Seq(Nat)
  <2> HIDE DEF f
  <2> QED BY <1>3, <1>4, FlattenIsSeq
<1>6. AllLengths(ps, <<>>) = <<>>
  <2>1. [i \in DOMAIN <<>> |-> Lengths(ps, <<>>[i])] = <<>>
    OBVIOUS
  <2> QED BY <2>1, FlattenEmpty DEF AllLengths
<1>7. ASSUME NEW v \in Entries(ps)
      PROVE  AllLengths(ps, Append(s, v)) = AllLengths(ps, s) \o Lengths(ps, v)
  <2> DEFINE t == Append(s, v)
             g == [i \in DOMAIN t |-> Lengths(ps, t[i])]
             l == Lengths(ps, v)
  <2>1. l \in Seq(Nat)
    BY <1>2
  <2>2. DOMAIN t = 1..(Len(s) + 1) /\ (\A i \in 1..Len(s) : t[i] = s[i]) /\ t[Len(s) + 1] = v
    BY <1>1
  <2>3. g = Append(f, l)
    <3>1. DOMAIN g = 1..(Len(s) + 1)
      BY <2>2
    <3>2. Append(f, l) \in Seq(Seq(Nat)) /\ Len(Append(f, l)) = Len(s) + 1
          /\ (\A i \in 1..Len(s) : Append(f, l)[i] = f[i]) /\ Append(f, l)[Len(s) + 1] = l
      <4> HIDE DEF f, l
      <4>1. Append(f, l) \in Seq(Seq(Nat)) /\ Len(Append(f, l)) = Len(f) + 1
            /\ (\A i \in 1..Len(f) : Append(f, l)[i] = f[i]) /\ Append(f, l)[Len(f) + 1] = l
        BY <1>3, <2>1, AppendProperties
      <4> QED BY <1>3, <4>1
    <3>3. \A i \in 1..(Len(s) + 1) : g[i] = Append(f, l)[i]
      <4> SUFFICES ASSUME NEW i \in 1..(Len(s) + 1) PROVE g[i] = Append(f, l)[i]
        OBVIOUS
      <4>1. g[i] = Lengths(ps, t[i])
        BY <2>2
      <4>2. CASE i \in 1..Len(s)
        <5>1. f[i] = Lengths(ps, s[i])
          BY <1>1, <4>2
        <5>2. t[i] = s[i] /\ Append(f, l)[i] = f[i]
          BY <2>2, <3>2, <4>2
        <5> HIDE DEF f, g, t, l
        <5> QED BY <4>1, <5>1, <5>2
      <4>3. CASE i = Len(s) + 1
        <5>1. t[i] = v /\ Append(f, l)[i] = l
          BY <2>2, <3>2, <4>3
        <5> HIDE DEF f, g, t
        <5> QED BY <4>1, <5>1
      <4> QED BY <1>1, <4>2, <4>3
    <3> DEFINE a == Append(f, l)
    <3>4. a = [i \in 1..(Len(s) + 1) |-> a[i]]
      <4> HIDE DEF a
      <4>1. a \in Seq(Seq(Nat)) /\ Len(a) = Len(s) + 1
        BY <3>2 DEF a
      <4> QED BY <4>1
    <3>5. g = [i \in 1..(Len(s) + 1) |-> g[i]]
      BY <3>1
    <3> HIDE DEF g, f, l, a
    <3>6. \A i \in 1..(Len(s) + 1) : g[i] = a[i]
      BY <3>3 DEF a
    <3> QED BY <3>4, <3>5, <3>6 DEF a
  <2>4. FlattenSeq(Append(f, l)) = FlattenSeq(f) \o l
    <3> HIDE DEF f, l
    <3> QED BY <1>3, <2>1, FlattenAppend
  <2>5. AllLengths(ps, t) = FlattenSeq(g)
    BY DEF AllLengths
  <2> HIDE DEF g, f, l, t
  <2>6. AllLengths(ps, t) = AllLengths(ps, s) \o l
    BY <1>4, <2>3, <2>4, <2>5
  <2> QED BY <2>6 DEF t, l
<1> QED
  BY <1>5, <1>6, <1>7

-----------------------------------------------------------------------------
(* What one member adds, and that nothing is lost.                         *)

\* The walk over a partition as a whole comes to an offset, reads on to the end
\* and finds no header cut.
Arrives(p, o) ==
    /\ EndsFrom(LayoutIn(p), WholeOf(p), o) = Len(WholeOf(p))
    /\ Intact(LayoutIn(p), WholeOf(p), MemberEnds(p), o)
BodiesLeft(p, o) == BodiesFrom(LayoutIn(p), WholeOf(p), o)

\* The walk over a member reads what the walk over the whole does.
LEMMA MemberSplits ==
  ASSUME NEW p \in Seq(Member), OneLayout(p), NEW m \in 1..Len(p), NEW c \in Nat,
         c <= Len(p[m].bytes), Arrives(p, Base(p, m) + c)
  PROVE  LET E == EndsFrom(LayoutIn(p), p[m].bytes, c)
         IN  /\ E \in Nat /\ E >= Len(p[m].bytes) /\ Base(p, m) + E <= Len(WholeOf(p))
             /\ Arrives(p, Base(p, m) + E)
             /\ TruncatedHeader \notin Range(RecordsFrom(p[m].bytes, LayoutIn(p), c))
             /\ BodiesLeft(p, Base(p, m) + c)
                  = BodiesFrom(LayoutIn(p), p[m].bytes, c) \o BodiesLeft(p, Base(p, m) + E)
<1> DEFINE W == WholeOf(p)
           bytes == p[m].bytes
           L == Len(bytes)
           here == Base(p, m)
           lay == LayoutIn(p)
           B == MemberEnds(p)
<1>1. p[m] \in Member /\ bytes \in Seq(Nat) /\ lay \in Layouts
  <2>1. p[m] \in Member
    OBVIOUS
  <2> QED BY <2>1 DEF Member, OneLayout
<1>2. /\ here \in Nat /\ L \in Nat /\ Base(p, m + 1) = here + L
  BY BaseSteps
<1>3. /\ W \in Seq(Nat) /\ Len(W) \in Nat /\ Len(p) \in Nat /\ Len(W) = Base(p, Len(p) + 1)
      /\ \A k \in 1..L : W[here + k] = bytes[k]
  BY WholeIs
<1>4. here + L <= Len(W)
  <2> DEFINE i == m + 1
             j == Len(p) + 1
  <2>1. i \in 1..(Len(p) + 1) /\ j \in i..(Len(p) + 1)
    BY <1>3
  <2> HIDE DEF i, j, W
  <2>2. Base(p, i) <= Base(p, j)
    BY <2>1, BaseAfter
  <2> QED BY <1>2, <1>3, <2>2 DEF i, j
<1>5. here + L \in B
  <2>1. Base(p, m + 1) = Len(StretchOf(p, 1, m))
    <3> DEFINE i == m + 1
    <3>1. i - 1 = m
      OBVIOUS
    <3> HIDE DEF i
    <3>2. Base(p, i) = Len(StretchOf(p, 1, m))
      BY <3>1 DEF Base
    <3> QED BY <3>2 DEF i
  <2>2. m \in DOMAIN p
    OBVIOUS
  <2> HIDE DEF here, L
  <2> QED BY <1>2, <2>1, <2>2 DEF MemberEnds
<1>6. c \in 0..L /\ EndsFrom(lay, W, here + c) = Len(W) /\ Intact(lay, W, B, here + c)
  BY <1>2 DEF Arrives
<1> HIDE DEF W, bytes, L, here, lay, B
<1>7. /\ c \in 0..Len(bytes) /\ here + Len(bytes) \in B /\ here + Len(bytes) <= Len(W)
      /\ \A k \in 1..Len(bytes) : W[here + k] = bytes[k]
  BY <1>3, <1>4, <1>5, <1>6 DEF L
<1>8. /\ EndsFrom(lay, bytes, c) \in Nat /\ EndsFrom(lay, bytes, c) >= Len(bytes)
      /\ here + EndsFrom(lay, bytes, c) <= Len(W)
      /\ EndsFrom(lay, W, here + EndsFrom(lay, bytes, c)) = Len(W)
      /\ Intact(lay, W, B, here + EndsFrom(lay, bytes, c))
      /\ TruncatedHeader \notin Range(RecordsFrom(bytes, lay, c))
      /\ BodiesFrom(lay, W, here + c)
           = BodiesFrom(lay, bytes, c) \o BodiesFrom(lay, W, here + EndsFrom(lay, bytes, c))
  <2>1. /\ lay \in Layouts /\ W \in Seq(Nat) /\ bytes \in Seq(Nat) /\ here \in Nat
        /\ here + Len(bytes) \in B /\ here + Len(bytes) <= Len(W)
        /\ \A k \in 1..Len(bytes) : W[here + k] = bytes[k]
        /\ c \in 0..Len(bytes) /\ EndsFrom(lay, W, here + c) = Len(W)
        /\ Intact(lay, W, B, here + c)
    BY <1>1, <1>2, <1>3, <1>6, <1>7
  <2>2. Splits(lay, W, bytes, here, B, c)
    BY <2>1, WalkSplits
  <2> QED BY <2>2 DEF Splits
<1> QED
  BY <1>8 DEF W, bytes, L, here, lay, B, Arrives, BodiesLeft

\* Where the walk over a whole goes on after one of its members.
WalkTo(p, m, c) == Base(p, m + 1) + TrailingDeficit(p[m].bytes, p[m].tag, c)

Gives(ps, v, p, m, c) ==
    /\ WalkTo(p, m, c) \in Nat /\ WalkTo(p, m, c) <= Len(WholeOf(p))
    /\ Arrives(p, WalkTo(p, m, c))
    /\ BodiesLeft(p, Base(p, m) + c)
         = Lengths(ps, v) \o BodiesLeft(p, WalkTo(p, m, c))

\* What a member gives is what the walk over the whole finds from where the
\* member's own walk starts to where it ends.
LEMMA MemberGives ==
  ASSUME NEW ps, NEW n \in 1..Len(ps), NEW p, p = ps[n], NEW m, NEW c, Read(p, m, c), OneLayout(p),
         NEW v, v = Made(p, n, m, c),
         Arrives(p, Base(p, m) + c),
         Base(p, m) + c <= Len(WholeOf(p))
  PROVE  Gives(ps, v, p, m, c)
<1> DEFINE W == WholeOf(p)
           lay == LayoutIn(p)
           bytes == p[m].bytes
           L == Len(bytes)
           d == TrailingDeficit(bytes, p[m].tag, c)
           rs == Records(bytes, p[m].tag, c)
           payload == Placed(p, m) \o SpilledTail(p, m, d)
           here == Base(p, m)
           next == Base(p, m + 1) + d
<1>1. /\ p \in Seq(Member) /\ m \in 1..Len(p) /\ c \in Nat /\ p[m].tag = lay /\ bytes \in Seq(Nat)
      /\ lay \in Layouts
  <2>1. p \in Seq(Member) /\ m \in 1..Len(p) /\ c \in Nat
    BY DEF Read
  <2>2. p[m] \in Member
    BY <2>1
  <2> QED BY <2>1, <2>2 DEF OneLayout, Member
<1> HIDE DEF lay
<1>2. /\ here \in Nat /\ Base(p, m + 1) \in Nat /\ L \in Nat /\ Base(p, m + 1) = here + L
  BY <1>1, BaseSteps
<1>3. /\ W \in Seq(Nat) /\ Len(W) \in Nat /\ Len(p) \in Nat /\ Len(W) = Base(p, Len(p) + 1)
  BY <1>1, WholeIs
<1>4. /\ d \in Nat /\ rs \in Seq(Record)
      /\ c >= L => rs = <<>> /\ d = c - L
      /\ c < L => /\ rs # <<>> /\ d = End(rs[Len(rs)], p[m].tag) - L
  BY RecordsRead
<1>5. v.records = rs /\ v.payload = payload /\ v.part = n /\ v.member = m
  BY DEF Made
<1>6. Base(p, m + 1) <= Len(W)
  <2> DEFINE i == m + 1
             j == Len(p) + 1
  <2>1. i \in 1..(Len(p) + 1) /\ j \in i..(Len(p) + 1)
    BY <1>1, <1>3
  <2> HIDE DEF i, j, W
  <2>2. Base(p, i) <= Base(p, j)
    BY <1>1, <2>1, BaseAfter
  <2> QED BY <1>3, <2>2 DEF i, j
<1>7. CASE c >= L
  <2>1. rs = <<>> /\ next = here + c
    <3>1. rs = <<>> /\ d = c - L
      BY <1>4, <1>7
    <3>2. next = here + L + d
      <4>1. next = Base(p, m + 1) + d
        OBVIOUS
      <4> HIDE DEF next, here, L, d
      <4> QED BY <1>2, <1>4, <4>1
    <3> HIDE DEF next, here, L, d, rs
    <3> QED BY <1>1, <1>2, <1>4, <3>1, <3>2
  <2>2. Lengths(ps, v) = <<>>
    <3>1. v.records = <<>>
      BY <1>5, <2>1
    <3>2. DOMAIN <<>> = {}
      OBVIOUS
    <3>3. [k \in {} |-> Len(BodyOf(ps, v, v.records[k]))] = <<>>
      OBVIOUS
    <3> QED BY <3>1, <3>2, <3>3 DEF Lengths
  <2>3. BodiesLeft(p, next) \in Seq(Nat)
    <3>1. next \in 0..Len(W)
      BY <1>1, <1>2, <1>3, <2>1, SMTT(30)
    <3> HIDE DEF W, next
    <3>2. BodiesFrom(lay, W, next) \in Seq(Nat)
      BY <1>1, <1>3, <3>1, WalkUnfolds DEF Unfolds
    <3> QED BY <3>2 DEF BodiesLeft, lay, W
  <2> HIDE DEF next
  <2>4. <<>> \o BodiesLeft(p, next) = BodiesLeft(p, next)
    BY <2>3, ConcatEmptySeq
  <2>5. next \in Nat
    BY <1>1, <1>2, <2>1
  <2>6. /\ next \in Nat /\ next <= Len(W) /\ Arrives(p, next)
        /\ BodiesLeft(p, here + c) = Lengths(ps, v) \o BodiesLeft(p, next)
    BY <2>1, <2>2, <2>4, <2>5
  <2> QED BY <2>6 DEF next, Gives, WalkTo
<1>8. CASE ~(c >= L)
  <2>1. c \in 0..L /\ c < L /\ here + L <= Len(W)
    <3>1. Base(p, m + 1) = here + L
      BY <1>2
    <3> HIDE DEF here, L, W
    <3> QED BY <1>1, <1>2, <1>6, <1>8, <3>1
  <2>2. rs = RecordsFrom(bytes, lay, c) /\ L # c
    BY <1>1, <1>8, <2>1 DEF Records
  <2> DEFINE E == EndsFrom(lay, bytes, c)
  <2>3. /\ E \in Nat /\ E >= L /\ here + E <= Len(W) /\ Arrives(p, here + E)
        /\ BodiesLeft(p, here + c) = BodiesFrom(lay, bytes, c) \o BodiesLeft(p, here + E)
    <3>1. c <= Len(p[m].bytes)
      BY <2>1
    <3> QED BY <1>1, <3>1, MemberSplits DEF lay
  <2>4. E = L + d
    <3>1. E = End(rs[Len(rs)], lay)
      <4>1. E = End(Last(RecordsFrom(bytes, lay, c)), lay)
        BY <2>2 DEF EndsFrom
      <4> QED BY <2>2, <4>1 DEF Last
    <3>2. d = End(rs[Len(rs)], lay) - L
      BY <1>1, <1>4, <2>1
    <3> DEFINE e == End(rs[Len(rs)], lay)
    <3>3. E = e /\ d = e - L
      BY <3>1, <3>2
    <3> HIDE DEF e, E, d, L
    <3> QED BY <1>2, <2>3, <3>3
  <2>5. next = here + E
    <3> HIDE DEF E, d, L, here
    <3> QED BY <1>2, <1>4, <2>4
  <2>6. Len(payload) = L + d
    <3>1. \E k \in m..Len(p) : Runs(p, m, d, payload, k)
      <4> HIDE DEF d
      <4> QED BY <1>1, <1>4, PayloadRuns
    <3>2. PICK k \in m..Len(p) : Runs(p, m, d, payload, k)
      BY <3>1
    <3>3. SUFFICES ASSUME Len(StretchOf(p, m, k)) < L + d, k < Len(p) => ~HasDescriptor(p[k + 1])
                   PROVE  FALSE
      BY <3>2 DEF Runs
    <3>4. k = Len(p)
      <4>1. k \in Nat /\ k <= Len(p) /\ k + 1 \in Nat /\ k + 1 >= 1
        BY <1>1, <1>3, <3>2
      <4>2. k < Len(p) => p[k + 1].tag \in Layouts
        <5> SUFFICES ASSUME k < Len(p) PROVE p[k + 1].tag \in Layouts
          OBVIOUS
        <5> DEFINE i == k + 1
        <5>1. i \in 1..Len(p)
          BY <1>3, <4>1
        <5> HIDE DEF i
        <5>2. p[i].tag = lay
          BY <5>1 DEF OneLayout, lay
        <5> QED BY <1>1, <5>2 DEF i
      <4>3. ~(k < Len(p))
        BY <3>3, <4>2 DEF HasDescriptor, Layouts
      <4> QED BY <1>3, <4>1, <4>3
    <3>5. Len(W) = here + Len(StretchOf(p, m, Len(p)))
      <4> DEFINE j == Len(p) + 1
      <4>1. j \in m..(Len(p) + 1) /\ m \in 1..(Len(p) + 1) /\ j - 1 = Len(p)
        BY <1>1, <1>3
      <4> HIDE DEF j, W
      <4>2. Base(p, j) = here + Len(StretchOf(p, m, j - 1))
        BY <1>1, <4>1, BaseAfter
      <4> QED BY <1>3, <4>1, <4>2 DEF j
    <3> DEFINE g == Len(StretchOf(p, m, Len(p)))
    <3>6. g < L + d /\ Len(W) = here + g /\ g \in Nat
      <4>1. g \in Nat
        BY <1>1, StretchIsSeq
      <4> QED BY <3>3, <3>4, <3>5, <4>1
    <3> HIDE DEF g, W, E, L, d, here
    <3> QED BY <1>2, <1>3, <1>4, <2>3, <2>4, <3>6, SMTT(30)
  <2>7. payload \in Seq(Cell)
    <3>1. \E k \in m..Len(p) : Runs(p, m, d, payload, k)
      <4> HIDE DEF d
      <4> QED BY <1>1, <1>4, PayloadRuns
    <3> HIDE DEF payload, d
    <3> QED BY <3>1 DEF Runs
  <2>8. Lengths(ps, v) = BodiesFrom(lay, bytes, c)
    <3>1. DOMAIN rs = 1..Len(rs) /\ Len(rs) \in Nat
      BY <1>4
    <3>2. ASSUME NEW k \in 1..Len(rs) PROVE Len(BodyOf(ps, v, rs[k])) = rs[k].body
      <4> DEFINE r == rs[k]
                 h == HeaderBytes(p[m].tag)
                 e == End(r, p[m].tag)
      <4>1. /\ r.offset \in c..L /\ r.body \in Nat
            /\ e = r.offset + h + r.body /\ e \in Nat /\ e <= L + d
        <5>1. EndsWithin(p, m, c, r)
          <6>1. \A l \in 1..Len(rs) : EndsWithin(p, m, c, rs[l])
            BY RecordsEndWithin
          <6> HIDE DEF rs
          <6> QED BY <3>2, <6>1
        <5> QED BY <5>1 DEF EndsWithin
      <4>2. h \in Nat /\ h > 0
        BY <1>1, HeaderAssumption DEF HeaderBytes
      <4>3. BodyOf(ps, v, r) = IF e <= Len(payload) THEN SubSeq(payload, r.offset + h + 1, e) ELSE <<>>
        BY <1>5 DEF BodyOf
      <4> DEFINE a == r.offset + h + 1
                 o == r.offset
                 b == r.body
      <4>4. a = o + h + 1 /\ e = o + h + b /\ o \in Nat /\ b \in Nat /\ e <= Len(payload)
        <5>1. o \in Nat
          BY <1>1, <1>2, <4>1
        <5> HIDE DEF o, b, e, h, L, d, payload
        <5> QED BY <2>6, <4>1, <4>2, <5>1 DEF o, b
      <4> HIDE DEF r, e, a, h, payload
      <4>5. BodyOf(ps, v, r) = SubSeq(payload, a, e)
        BY <4>3, <4>4 DEF a
      <4> HIDE DEF o, b
      <4>6. Len(SubSeq(payload, a, e)) = IF a <= e THEN e - a + 1 ELSE 0
        BY <2>7, <4>2, <4>4
      <4>7. (IF a <= e THEN e - a + 1 ELSE 0) = b
        BY <4>2, <4>4
      <4> QED BY <4>5, <4>6, <4>7 DEF b, r
    <3>3. Lengths(ps, v) = [k \in 1..Len(rs) |-> Len(BodyOf(ps, v, rs[k]))]
      BY <1>5, <3>1 DEF Lengths
    <3>4. BodiesFrom(lay, bytes, c) = [k \in 1..Len(rs) |-> rs[k].body]
      BY <2>2, <3>1 DEF BodiesFrom, BodiesIn
    <3> HIDE DEF rs
    <3> QED BY <3>2, <3>3, <3>4
  <2>9. next \in Nat /\ next <= Len(W) /\ Arrives(p, next)
        /\ BodiesLeft(p, here + c) = Lengths(ps, v) \o BodiesLeft(p, next)
    <3> HIDE DEF next, W, here, E, bytes
    <3> QED BY <1>2, <2>3, <2>5, <2>8
  <2> QED BY <2>9 DEF Gives, WalkTo
<1> QED
  BY <1>7, <1>8

AllTiled == \A n \in 1..Len(partitions) : TilesAsOne(partitions[n])
Reached == Base(Members, at + 1) + carry
Left == BodiesLeft(Members, Reached)

Lossless == AllTiled =>
    /\ phase = "opening" =>
         AllLengths(partitions, Resolved) = BodiesUpTo(partitions, part - 1)
    /\ Walking =>
         /\ Reached <= Len(WholeOf(Members))
         /\ Arrives(Members, Reached)
         /\ AllLengths(partitions, Resolved) \o Left = BodiesUpTo(partitions, part)
    /\ phase = "done" =>
         AllLengths(partitions, Resolved) = BodiesUpTo(partitions, Len(partitions))

LEMMA BodiesStep ==
  ASSUME NEW ps \in Inputs, \A n \in 1..Len(ps) : TilesAsOne(ps[n])
  PROVE  /\ BodiesUpTo(ps, 0) = <<>>
         /\ \A k \in 0..Len(ps) : BodiesUpTo(ps, k) \in Seq(Nat)
         /\ \A k \in 1..Len(ps) : BodiesUpTo(ps, k) = BodiesUpTo(ps, k - 1) \o PartitionBodies(ps[k])
<1> DEFINE f == [n \in DOMAIN ps |-> PartitionBodies(ps[n])]
<1>1. DOMAIN ps = 1..Len(ps) /\ Len(ps) \in Nat /\ \A n \in 1..Len(ps) : ps[n] \in Seq(Member)
  BY InputsAre
<1>2. \A n \in 1..Len(ps) : f[n] = PartitionBodies(ps[n]) /\ f[n] \in Seq(Nat)
  BY <1>1, TiledIs
<1> HIDE DEF f
<1>3. ASSUME NEW k \in 0..Len(ps)
      PROVE  /\ Flat(f, k) \in Seq(Nat)
             /\ k = 0 => Flat(f, k) = <<>>
             /\ k # 0 => Flat(f, k) = Flat(f, k - 1) \o f[k]
  <2>1. k \in Nat /\ \A i \in 1..k : f[i] \in Seq(Nat)
    BY <1>1, <1>2
  <2> QED BY <2>1, FlatSteps
<1>4. \A k : BodiesUpTo(ps, k) = Flat(f, k)
  BY DEF BodiesUpTo, f
<1>5. 0 \in 0..Len(ps) /\ \A k \in 1..Len(ps) : k \in 0..Len(ps) /\ k # 0
  BY <1>1
<1>6. BodiesUpTo(ps, 0) = <<>>
  BY <1>3, <1>4, <1>5
<1>7. \A k \in 0..Len(ps) : BodiesUpTo(ps, k) \in Seq(Nat)
  BY <1>3, <1>4
<1>8. ASSUME NEW k \in 1..Len(ps)
      PROVE  BodiesUpTo(ps, k) = BodiesUpTo(ps, k - 1) \o PartitionBodies(ps[k])
  BY <1>2, <1>3, <1>4, <1>5
<1> QED
  BY <1>6, <1>7, <1>8

\* The members of a partition that is being walked, all of one layout.
LEMMA WalkingTiled ==
  ASSUME Position, AllTiled, part \in 1..Len(partitions)
  PROVE  /\ Members \in Seq(Member) /\ Members = partitions[part] /\ TilesAsOne(Members) /\ OneLayout(Members)
         /\ Len(Members) \in Nat
<1>1. Members \in Seq(Member) /\ Members = partitions[part] /\ TilesAsOne(Members)
  BY InputsAre DEF Position, AllTiled, Members
<1>2. Len(Members) \in Nat
  BY <1>1, LenProperties
<1> QED
  BY <1>1, <1>2, TiledIs

\* A member whose records tile what there is is neither skipped nor dropped.
LEMMA NothingSkipped ==
  ASSUME Position, EntriesAreRead, Lossless, AllTiled, Skip \/ ResolveNothing
  PROVE  FALSE
<1> DEFINE p == Members
           m == at + 1
           bytes == p[m].bytes
           lay == LayoutIn(p)
<1>1. Resolving
  BY DEF Skip, ResolveNothing
<1>2. p \in Seq(Member) /\ m \in 1..Len(p) /\ part \in 1..Len(partitions) /\ Walking
  BY <1>1, NextMember DEF Resolving, Walking
<1>3. OneLayout(p)
  BY <1>2, WalkingTiled
<1>4. p[m].tag = lay /\ bytes \in Seq(Nat) /\ carry \in Nat /\ lay \in Layouts
  <2> HIDE DEF p, m
  <2>1. p[m] \in Member
    BY <1>2
  <2> QED BY <1>2, <1>3, <2>1 DEF OneLayout, Member, EntriesAreRead
<1>5. TruncatedHeader \in Range(Records(bytes, lay, carry))
  BY <1>4 DEF Skip, ResolveNothing, Known, WalkFails, Walk, WalkFrom, Following, Layouts
<1>6. Arrives(p, Base(p, m) + carry)
  BY <1>2 DEF Lossless, Reached
<1> HIDE DEF p, m, bytes, lay
<1>7. CASE carry >= Len(bytes)
  <2>1. Records(bytes, lay, carry) = <<>>
    BY <1>7 DEF Records
  <2>2. Range(<<>>) = {}
    BY DEF Range
  <2> QED BY <1>5, <2>1, <2>2
<1>8. CASE ~(carry >= Len(bytes))
  <2>1. carry <= Len(bytes) /\ Len(bytes) \in Nat
    BY <1>4, <1>8, LenProperties
  <2>2. TruncatedHeader \notin Range(RecordsFrom(bytes, lay, carry))
    BY <1>2, <1>3, <1>4, <1>6, <2>1, MemberSplits DEF bytes, lay
  <2>3. Records(bytes, lay, carry) = RecordsFrom(bytes, lay, carry)
    BY <1>8 DEF Records
  <2> QED BY <1>5, <2>2, <2>3
<1> QED
  BY <1>7, <1>8

LEMMA ResolveLosesNothing ==
  ASSUME Position, EntriesAreRead, Lossless, AllTiled, Resolve
  PROVE  Lossless'
<1> DEFINE R == Resolved
           p == Members
           W == WholeOf(p)
           m == at + 1
           d == TrailingDeficit(p[m].bytes, p[m].tag, carry)
           v == Made(p, part, m, carry)
<1>1. /\ Read(p, m, carry) /\ v \in Entries(partitions) /\ p = partitions[part]
      /\ carry' = d /\ d \in Nat /\ batch' = Append(batch, v) /\ at' = m
      /\ part \in 1..Len(partitions) /\ at \in Nat /\ m \in Nat /\ Walking
      /\ UNCHANGED <<partitions, part, phase, visited>>
  BY ResolveReads
<1>2. OneLayout(p)
  BY <1>1, WalkingTiled
<1>3. /\ Base(p, m) + carry <= Len(W)
      /\ Arrives(p, Base(p, m) + carry)
      /\ AllLengths(partitions, R) \o BodiesLeft(p, Base(p, m) + carry) = BodiesUpTo(partitions, part)
  BY <1>1 DEF Lossless, Reached, Left
<1> DEFINE next == Base(p, m + 1) + d
<1>4. /\ next \in Nat /\ next <= Len(W) /\ Arrives(p, next)
      /\ BodiesLeft(p, Base(p, m) + carry) = Lengths(partitions, v) \o BodiesLeft(p, next)
  <2> DEFINE ps == partitions
             c == carry
  <2>1. /\ part \in 1..Len(ps) /\ p = ps[part] /\ Read(p, m, c) /\ OneLayout(p) /\ v = Made(p, part, m, c)
        /\ Arrives(p, Base(p, m) + c) /\ Base(p, m) + c <= Len(WholeOf(p))
    BY <1>1, <1>2, <1>3
  <2>2. Gives(ps, v, p, m, c)
    <3> HIDE DEF p, m, v, ps, c
    <3> QED BY <2>1, MemberGives
  <2> QED BY <2>2 DEF Gives, WalkTo
<1>5. W \in Seq(Nat) /\ Len(W) \in Nat
  <2>1. p \in Seq(Member)
    BY <1>1, WalkingTiled
  <2> HIDE DEF p
  <2> QED BY <2>1, WholeIs
<1>6. /\ R \in Seq(Entries(partitions)) /\ R' = Append(R, v)
  <2>1. R \in Seq(Entries(partitions))
    BY ResolvedIsRead
  <2>2. visited \in Seq(Entries(partitions)) /\ batch \in Seq(Entries(partitions))
    BY DEF EntriesAreRead
  <2> HIDE DEF v
  <2>3. <<v>> \in Seq(Entries(partitions)) /\ Append(batch, v) = batch \o <<v>>
        /\ Append(R, v) = R \o <<v>>
    BY <1>1, <2>1, <2>2, AppendIsConcat
  <2>4. (visited \o batch) \o <<v>> = visited \o (batch \o <<v>>)
    BY <2>2, <2>3, ConcatAssociative
  <2> QED BY <1>1, <2>1, <2>3, <2>4 DEF Resolved
<1>7. /\ AllLengths(partitions, Append(R, v)) = AllLengths(partitions, R) \o Lengths(partitions, v)
      /\ AllLengths(partitions, R) \in Seq(Nat)
  <2> HIDE DEF R, v
  <2> QED BY <1>1, <1>6, AllLengthsAre
<1>8. Lengths(partitions, v) \in Seq(Nat)
  <2>1. IsRead(partitions, v)
    BY <1>1 DEF Entries
  <2> HIDE DEF v
  <2> QED BY <2>1, LengthsAre
<1>9. BodiesLeft(p, next) \in Seq(Nat)
  <2> DEFINE lay == LayoutIn(p)
  <2>0. lay \in Layouts
    BY <1>2 DEF OneLayout
  <2> HIDE DEF W, next, lay, p
  <2>1. next \in 0..Len(W)
    BY <1>4, <1>5
  <2>2. BodiesFrom(lay, W, next) \in Seq(Nat)
    BY <1>5, <2>0, <2>1, WalkUnfolds DEF Unfolds
  <2> QED BY <2>2 DEF BodiesLeft, lay, W
<1> DEFINE a == AllLengths(partitions, R)
           b == Lengths(partitions, v)
           c == BodiesLeft(p, next)
<1>10. a \in Seq(Nat) /\ b \in Seq(Nat) /\ c \in Seq(Nat)
  BY <1>7, <1>8, <1>9
<1>11. (a \o b) \o c = a \o (b \o c)
  <2> HIDE DEF a, b, c
  <2> QED BY <1>10, NumbersAssociate
<1>12. AllLengths(partitions, R') \o c = BodiesUpTo(partitions, part)
  <2>1. AllLengths(partitions, R') = a \o b
    BY <1>6, <1>7
  <2>2. a \o (b \o c) = BodiesUpTo(partitions, part)
    BY <1>3, <1>4
  <2> QED BY <1>11, <2>1, <2>2
<1>13. Members' = p /\ Walking' /\ ~(phase' = "opening") /\ ~(phase' = "done") /\ Reached' = next
       /\ Left' = c /\ Resolved' = R'
  <2>1. Members' = p
    BY <1>1 DEF Members
  <2>2. Reached' = Base(Members', at' + 1) + carry'
    BY DEF Reached
  <2>3. Reached' = next
    BY <1>1, <2>1, <2>2
  <2>4. Left' = BodiesLeft(Members', Reached')
    BY DEF Left
  <2>5. Walking' /\ ~(phase' = "opening") /\ ~(phase' = "done")
    BY <1>1 DEF Walking
  <2> QED BY <2>1, <2>3, <2>4, <2>5
<1> QED
  BY <1>1, <1>4, <1>12, <1>13 DEF Lossless

LEMMA OpeningLosesNothing ==
  ASSUME Position, EntriesAreRead, Lossless, OpenPartition
  PROVE  Lossless'
<1> SUFFICES ASSUME AllTiled PROVE Lossless'
  BY DEF OpenPartition, Lossless, AllTiled
<1>1. /\ phase = "opening" /\ UNCHANGED <<partitions, part, batch, visited>>
      /\ partitions \in Inputs /\ Len(partitions) \in Nat /\ part \in 1..(Len(partitions) + 1)
      /\ \A n \in 1..Len(partitions) : TilesAsOne(partitions[n])
  BY InputsAre DEF OpenPartition, Position, AllTiled
<1>2. AllLengths(partitions, Resolved) = BodiesUpTo(partitions, part - 1) /\ Resolved' = Resolved
  BY <1>1 DEF Lossless, Resolved
<1>3. CASE part > Len(partitions) /\ phase' = "done"
  <2>1. part - 1 = Len(partitions)
    BY <1>1, <1>3
  <2> QED BY <1>1, <1>2, <1>3, <2>1 DEF Lossless, Walking
<1>4. CASE part <= Len(partitions) /\ phase' = "batching" /\ at' = 0 /\ carry' = 0
  <2> DEFINE p == Members
             W == WholeOf(p)
  <2>1. part \in 1..Len(partitions)
    BY <1>1, <1>4
  <2>2. p \in Seq(Member) /\ p = partitions[part] /\ TilesAsOne(p)
    BY <2>1, WalkingTiled
  <2>3. W \in Seq(Nat) /\ Len(W) \in Nat /\ Arrives(p, 0) /\ PartitionBodies(p) = BodiesLeft(p, 0)
    <3> HIDE DEF p
    <3> QED BY <2>2, TiledIs DEF Arrives, BodiesLeft
  <2>4. Base(p, 1) = 0
    <3> HIDE DEF p
    <3> QED BY <2>2, WholeIs
  <2>5. Members' = p /\ Reached' = 0
    <3>1. Members' = p
      BY <1>1 DEF Members
    <3>2. Reached' = Base(Members', at' + 1) + carry'
      BY DEF Reached
    <3>3. at' + 1 = 1
      BY <1>4
    <3> QED BY <1>4, <2>4, <3>1, <3>2, <3>3
  <2>6. Left' = PartitionBodies(p)
    <3>1. Left' = BodiesLeft(Members', Reached')
      BY DEF Left
    <3> QED BY <2>3, <2>5, <3>1
  <2>7. BodiesUpTo(partitions, part) = BodiesUpTo(partitions, part - 1) \o PartitionBodies(p)
    BY <1>1, <2>1, <2>2, BodiesStep
  <2>8. 0 <= Len(W) /\ ~(phase' = "opening") /\ ~(phase' = "done")
    BY <1>4, <2>3
  <2> QED BY <1>1, <1>2, <2>3, <2>5, <2>6, <2>7, <2>8 DEF Lossless
<1> QED
  BY <1>3, <1>4 DEF OpenPartition

LEMMA ClosingLosesNothing ==
  ASSUME Position, EntriesAreRead, Lossless, ClosePartition
  PROVE  Lossless'
<1> SUFFICES ASSUME AllTiled PROVE Lossless'
  BY DEF ClosePartition, Lossless, AllTiled
<1> DEFINE p == Members
           W == WholeOf(p)
<1>1. /\ phase = "batching" /\ phase' = "opening" /\ part' = part + 1 /\ at = Len(p)
      /\ UNCHANGED <<partitions, batch, visited>> /\ Walking
      /\ partitions \in Inputs /\ Len(partitions) \in Nat /\ part \in 1..Len(partitions)
  BY InputsAre DEF ClosePartition, Position, Walking
<1>2. p \in Seq(Member) /\ Len(p) \in Nat /\ OneLayout(p)
  BY <1>1, WalkingTiled
<1>3. W \in Seq(Nat) /\ Len(W) \in Nat /\ Len(W) = Base(p, at + 1)
  <2> HIDE DEF p
  <2> QED BY <1>1, <1>2, WholeIs
<1>4. Reached <= Len(W) /\ AllLengths(partitions, Resolved) \o Left = BodiesUpTo(partitions, part)
  BY <1>1 DEF Lossless
<1>5. Reached = Len(W)
  <2>1. carry \in Nat
    BY DEF EntriesAreRead
  <2>2. Reached = Len(W) + carry
    BY <1>3 DEF Reached
  <2> HIDE DEF W
  <2> QED BY <1>3, <1>4, <2>1, <2>2
<1>6. Left = <<>>
  <2> DEFINE lay == LayoutIn(p)
  <2>0. lay \in Layouts
    BY <1>2 DEF OneLayout
  <2>1. Left = BodiesFrom(lay, W, Len(W))
    BY <1>5 DEF Left, BodiesLeft
  <2> HIDE DEF W, lay
  <2>2. Len(W) \in 0..Len(W)
    BY <1>3
  <2>3. BodiesFrom(lay, W, Len(W)) = <<>>
    BY <1>3, <2>0, <2>2, WalkUnfolds DEF Unfolds
  <2> QED BY <2>1, <2>3
<1>7. AllLengths(partitions, Resolved) = BodiesUpTo(partitions, part)
  <2>1. AllLengths(partitions, Resolved) \in Seq(Nat)
    <3>1. Resolved \in Seq(Entries(partitions))
      BY ResolvedIsRead
    <3> QED BY <3>1, AllLengthsAre
  <2>2. AllLengths(partitions, Resolved) \o <<>> = AllLengths(partitions, Resolved)
    <3> DEFINE a == AllLengths(partitions, Resolved)
    <3>1. a \in Seq(Nat)
      BY <2>1
    <3> HIDE DEF a
    <3>2. a \o <<>> = a
      BY <3>1, ConcatEmptySeq
    <3> QED BY <3>2 DEF a
  <2> QED BY <1>4, <1>6, <2>2
<1>8. part' - 1 = part /\ Resolved' = Resolved
  BY <1>1 DEF Resolved
<1> QED
  BY <1>1, <1>7, <1>8 DEF Lossless, Walking

LEMMA NextLosesNothing ==
  Position /\ EntriesAreRead /\ Lossless /\ [Next]_vars => Lossless'
<1> SUFFICES ASSUME Position, EntriesAreRead, Lossless, [Next]_vars PROVE Lossless'
  OBVIOUS
<1>1. partitions' = partitions
  BY DEF Next, vars, OpenPartition, InventoryFails, Fail, PrepareMembers, ClosePartition,
         Skip, ResolveNothing, Resolve, ResolveFails, VisitBatch
<1> SUFFICES ASSUME AllTiled PROVE Lossless'
  BY <1>1 DEF Lossless, AllTiled
<1>2. CASE OpenPartition
  BY <1>2, OpeningLosesNothing
<1>3. CASE InventoryFails \/ ResolveFails
  BY <1>3 DEF InventoryFails, ResolveFails, Fail, Lossless, Walking
<1>4. CASE PrepareMembers \/ VisitBatch
  <2>1. Walking /\ Walking' /\ UNCHANGED <<part, at, carry>>
        /\ ~(phase' = "opening") /\ ~(phase' = "done")
    BY <1>4 DEF PrepareMembers, CarryKept, VisitBatch, Walking
  <2>2. Resolved' = Resolved
    <3>1. CASE PrepareMembers
      BY <3>1 DEF PrepareMembers, Resolved
    <3>2. CASE VisitBatch
      <4> DEFINE S == Entries(partitions)
      <4>1. visited \in Seq(S) /\ batch \in Seq(S)
        BY DEF EntriesAreRead
      <4> HIDE DEF S
      <4>2. visited \o batch \in Seq(S)
        BY <4>1, ConcatProperties
      <4>3. (visited \o batch) \o <<>> = visited \o batch
        BY <4>2, ConcatEmptySeq
      <4> QED BY <3>2, <4>3 DEF VisitBatch, Resolved
    <3> QED BY <1>4, <3>1, <3>2
  <2>3. Members' = Members /\ Reached' = Reached /\ Left' = Left
    BY <1>1, <2>1 DEF Members, Reached, Left
  <2> QED BY <1>1, <2>1, <2>2, <2>3 DEF Lossless
<1>5. CASE ClosePartition
  BY <1>5, ClosingLosesNothing
<1>6. CASE Skip \/ ResolveNothing
  BY <1>6, NothingSkipped
<1>7. CASE Resolve
  BY <1>7, ResolveLosesNothing
<1>8. CASE UNCHANGED vars
  BY <1>8 DEF vars, Lossless, AllTiled, Walking, Resolved, Reached, Left, Members
<1> QED
  BY <1>2, <1>3, <1>4, <1>5, <1>6, <1>7, <1>8 DEF Next

\* Where the records tile every partition, each is read, in order, and whole,
\* wherever the bounds of batches fall, and those of members but within a header
\* (MemberWalk::parse with the carry for_each_member_batch hands on).
THEOREM EveryRecordIsRead == Spec => []LosesNothing
<1> DEFINE IInv == Position /\ EntriesAreRead /\ Lossless /\ AsPlain
<1>1. Init => IInv
  <2> SUFFICES ASSUME Init PROVE Lossless
    BY InitPosition, InitEntriesAreRead, InitAsPlain
  <2>1. part = 1 /\ phase = "opening" /\ Resolved = <<>> /\ partitions \in Inputs
    <3>1. visited = <<>> /\ batch = <<>> /\ part = 1 /\ phase = "opening" /\ partitions \in Inputs
      BY DEF Init
    <3>2. <<>> \o <<>> = <<>>
      BY EmptySeq, ConcatEmptySeq
    <3> QED BY <3>1, <3>2 DEF Resolved
  <2>2. AllTiled => BodiesUpTo(partitions, part - 1) = <<>>
    BY <2>1, BodiesStep DEF AllTiled
  <2>3. AllLengths(partitions, Resolved) = <<>>
    <3>1. <<>> \in Seq(Entries(partitions))
      BY EmptySeq
    <3>2. AllLengths(partitions, <<>>) = <<>>
      BY <3>1, AllLengthsAre
    <3> QED BY <2>1, <3>2
  <2> QED BY <2>1, <2>2, <2>3 DEF Lossless, Walking
<1>2. IInv /\ [Next]_vars => IInv'
  BY NextPosition, NextEntriesAreRead, NextLosesNothing, NextAsPlain
<1>3. IInv => LosesNothing
  <2> SUFFICES ASSUME IInv, phase = "done", \A p \in Range(partitions) : TilesAsOne(p)
               PROVE  FlattenSeq([i \in DOMAIN visited |->
                          [k \in DOMAIN visited[i].records |->
                              Len(BodyIn(visited[i], visited[i].records[k]))]])
                      = FlattenSeq([n \in DOMAIN partitions |-> PartitionBodies(partitions[n])])
    BY DEF LosesNothing, PartitionBodies, BodiesIn
  <2>1. DOMAIN partitions = 1..Len(partitions) /\ AllTiled
    BY InputsAre DEF Position, AllTiled, Range
  <2>2. Resolved = visited
    <3>1. visited \o <<>> = visited
      BY ConcatEmptySeq DEF EntriesAreRead
    <3> QED BY <3>1 DEF AsPlain, Resolved
  <2>3. AllLengths(partitions, visited) = BodiesUpTo(partitions, Len(partitions))
    BY <2>1, <2>2 DEF Lossless
  <2>4. AllLengths(partitions, visited)
          = FlattenSeq([i \in DOMAIN visited |->
              [k \in DOMAIN visited[i].records |->
                 Len(BodyIn(visited[i], visited[i].records[k]))]])
    BY DEF AllLengths, Lengths, BodyOf, BodyIn, LayoutOf
  <2>5. BodiesUpTo(partitions, Len(partitions))
          = FlattenSeq([n \in DOMAIN partitions |-> PartitionBodies(partitions[n])])
    <3> DEFINE f == [n \in DOMAIN partitions |-> PartitionBodies(partitions[n])]
    <3>1. f = [n \in 1..Len(partitions) |-> f[n]]
      BY <2>1
    <3>2. BodiesUpTo(partitions, Len(partitions)) = FlattenSeq([n \in 1..Len(partitions) |-> f[n]])
      BY DEF BodiesUpTo, Flat
    <3> HIDE DEF f
    <3>3. BodiesUpTo(partitions, Len(partitions)) = FlattenSeq(f)
      BY <3>1, <3>2
    <3> QED BY <3>3 DEF f
  <2> QED BY <2>3, <2>4, <2>5
<1> QED
  BY <1>1, <1>2, <1>3, PTL DEF Spec
=============================================================================
