--------------------------- MODULE RequestsProofs ---------------------------
(***************************************************************************)
(* What is served of a scene's file is what was asked for; an upload is    *)
(* taken exactly where it fits; and jobs are listed and forgotten in the   *)
(* order in which they came.                                               *)
(*                                                                         *)
(* What recursive functions compute is proved from the least number for    *)
(* which it would not hold (LeastNatural, Induction); that the recursion   *)
(* has a solution at all, from the solutions on initial segments.          *)
(***************************************************************************)
EXTENDS Requests, FiniteSetTheorems, WellFoundedInduction, TLAPS

-----------------------------------------------------------------------------
(* Reading.                                                                *)

\* A range that can be satisfied and is not backward lies within the file.
LEMMA ResolvedLiesWithin ==
  ASSUME NEW h \in Headers, NEW total \in 0..MaxU64,
         ~Backward(h), ~Unsatisfiable(h, total)
  PROVE  LET r == resolve_range(h, total)
         IN  /\ r.start \in Nat /\ r.end \in Nat
             /\ r.start <= r.end
             /\ r.end <= total - 1
<1> USE WidthAssumption, TextsAssumption
<1>1. total \in Nat /\ total > 0
  BY DEF Unsatisfiable
<1>2. CASE ~parse_range(h)
  BY <1>1, <1>2 DEF resolve_range
<1>3. CASE parse_range(h) /\ h.start = Missing
  <2>1. h.end \in 0..MaxU64
    BY <1>3 DEF parse_range, Readable, Headers, Texts
  <2>2. Suffix(h, total) \in 1..total
    BY <1>1, <1>3, <2>1 DEF Suffix, Lesser, Unsatisfiable
  <2> QED
    BY <1>1, <1>3, <2>2 DEF resolve_range
<1>4. CASE parse_range(h) /\ h.start # Missing
  <2>1. h.start \in 0..(total - 1)
    BY <1>1, <1>4 DEF parse_range, Readable, Headers, Texts, Unsatisfiable
  <2>2. h.end = Missing \/ (h.end \in 0..MaxU64 /\ h.start <= h.end)
    <3>1. h.end = Missing \/ h.end \in 0..MaxU64
      BY <1>4 DEF parse_range, Readable
    <3>2. h.end # Missing => ~(h.end < h.start)
      BY <1>4 DEF Backward
    <3>3. CASE h.end # Missing
      <4>1. h.end \in Int /\ h.start \in Int
        BY <1>1, <2>1, <3>1, <3>3
      <4> QED
        BY <3>1, <3>2, <3>3, <4>1
    <3> QED
      BY <3>3
  <2>3. EndOf(h, total) \in h.start..(total - 1)
    BY <1>1, <2>1, <2>2 DEF EndOf, Lesser
  <2> QED
    BY <1>1, <1>4, <2>1, <2>3 DEF resolve_range
<1> QED
  BY <1>2, <1>3, <1>4

\* Such a range is of the length it says, without wrapping around.
LEMMA LengthIsExact ==
  ASSUME NEW total \in 0..MaxU64, NEW start \in Nat, NEW end \in Nat,
         start <= end, end <= total - 1
  PROVE  Length([start |-> start, end |-> end]) = end - start + 1
<1>1. end - start + 1 \in 0..MaxU64
  BY WidthAssumption
<1>2. (end - start + 1) % (MaxU64 + 1) = end - start + 1
  BY <1>1, WidthAssumption
<1> QED
  BY <1>2 DEF Length

\* Of the positions asked for the first and the last are those resolved to.
LEMMA AskedIsResolved ==
  ASSUME NEW h \in Headers, NEW total \in 0..MaxU64,
         ~Backward(h), ~Unsatisfiable(h, total)
  PROVE  LET r == resolve_range(h, total) IN Asked(h, total) = r.start..r.end
<1> USE WidthAssumption, TextsAssumption
<1>1. total \in Nat /\ total > 0
  BY DEF Unsatisfiable
<1>2. CASE ~parse_range(h)
  BY <1>1, <1>2 DEF resolve_range, Asked
<1>3. CASE parse_range(h) /\ h.start = Missing
  <2>1. h.end \in 0..MaxU64
    BY <1>3 DEF parse_range, Readable, Headers, Texts
  <2> QED
    BY <1>1, <1>3, <2>1 DEF resolve_range, Asked, Suffix, Lesser
<1>4. CASE parse_range(h) /\ h.start # Missing
  <2>1. h.start \in 0..(total - 1)
    BY <1>1, <1>4 DEF parse_range, Readable, Headers, Texts, Unsatisfiable
  <2>2. h.end = Missing \/ h.end \in 0..MaxU64
    BY <1>4 DEF parse_range, Readable, Headers, Texts
  <2> QED
    BY <1>1, <1>4, <2>1, <2>2 DEF resolve_range, Asked, EndOf, Lesser
<1> QED
  BY <1>2, <1>3, <1>4

\* What is refused is what the file has nothing of.
LEMMA RefusedIsEmpty ==
  ASSUME NEW h \in Headers, NEW total \in 0..MaxU64, Unsatisfiable(h, total)
  PROVE  Asked(h, total) = {}
<1> USE WidthAssumption, TextsAssumption
<1>1. CASE total = 0
  BY <1>1 DEF Asked
<1>2. CASE parse_range(h) /\ h.start = Missing /\ Suffix(h, total) = 0
  <2>1. h.end \in 0..MaxU64
    BY <1>2 DEF parse_range, Readable, Headers, Texts
  <2> QED
    BY <1>2, <2>1 DEF Asked, Suffix, Lesser
<1>3. CASE parse_range(h) /\ h.start # Missing /\ h.start > total - 1
  <2>1. h.start \in 0..MaxU64
    BY <1>3 DEF parse_range, Readable, Headers, Texts
  <2> QED
    BY <1>3, <2>1 DEF Asked
<1> QED
  BY <1>1, <1>2, <1>3 DEF Unsatisfiable

\* For every header and every file of no more than half the numbers there
\* are (no file is longer), a reader is sent exactly the bytes it asked for
\* that the file has, or told that there are none (scenes.rs, parse_range to
\* Scenes::read).
THEOREM ServedExactly ==
  ASSUME NEW h \in Headers, NEW total \in 0..(MaxU64 \div 2)
  PROVE  ExactlyAsked(h, total)
<1> DEFINE r == resolve_range(h, total)
<1>1. total \in 0..MaxU64
  BY WidthAssumption
<1>2. CASE Unsatisfiable(h, total)
  BY <1>1, <1>2, RefusedIsEmpty DEF ExactlyAsked, Answer, Reply
<1>3. CASE ~Unsatisfiable(h, total) /\ ~Backward(h)
  <2>1. /\ r.start \in Nat /\ r.end \in Nat
        /\ r.start <= r.end
        /\ r.end <= total - 1
    BY <1>1, <1>3, ResolvedLiesWithin
  <2>2. r = [start |-> r.start, end |-> r.end]
    BY DEF resolve_range
  <2>3. Length(r) = r.end - r.start + 1
    <3> HIDE DEF r
    <3> QED BY <1>1, <2>1, <2>2, LengthIsExact
  <2>4. Length(r) \in 1..(MaxU64 \div 2) /\ r.start + Length(r) <= total
    <3> HIDE DEF r
    <3> QED BY <2>1, <2>3, WidthAssumption
  <2>5. Answer(h, total) =
          Reply(IF parse_range(h) THEN "206" ELSE "200", r.start, Length(r))
    <3>1. ~(Length(r) > MaxU64 \div 2) /\ ~(r.start + Length(r) > total)
      <4> HIDE DEF r
      <4> QED BY <2>1, <2>4, WidthAssumption
    <3> QED BY <1>3, <3>1 DEF Answer
  <2>6. Asked(h, total) = r.start..r.end
    BY <1>1, <1>3, AskedIsResolved
  <2>7. r.start + Length(r) - 1 = r.end
    <3> HIDE DEF r
    <3> QED BY <2>1, <2>3
  <2> DEFINE a == Answer(h, total)
  <2>8. /\ a.status = (IF parse_range(h) THEN "206" ELSE "200")
        /\ a.from = r.start
        /\ a.length = Length(r)
    BY <2>5 DEF Reply
  <2>9. a.length > 0 /\ a.from..(a.from + a.length - 1) = Asked(h, total)
    <3> HIDE DEF r, a
    <3> QED BY <2>4, <2>6, <2>7, <2>8
  <2> QED
    BY <2>8, <2>9 DEF ExactlyAsked
<1>4. CASE Backward(h)
  BY <1>4 DEF ExactlyAsked
<1> QED
  BY <1>2, <1>3, <1>4

\* What the last reader asked for is a header, of a file that can exist.
ReadIsPossible == read.header \in Headers /\ read.total \in 0..(MaxU64 \div 2)

THEOREM ReadersGetWhatTheyAskFor == Spec => []ServedAsAsked
<1>1. Init => ReadIsPossible
  BY WidthAssumption DEF Init, ReadIsPossible, Headers, Texts
<1>2. ReadIsPossible /\ [Next]_vars => ReadIsPossible'
  <2> SUFFICES ASSUME ReadIsPossible, [Next]_vars PROVE ReadIsPossible'
    OBVIOUS
  <2>1. CASE \E r \in Reads : ServeScene(r)
    BY <2>1, HeaderSetAssumption, TotalsAssumption DEF ServeScene, ReadIsPossible
  <2>2. CASE UNCHANGED read
    BY <2>2 DEF ReadIsPossible
  <2>3. (\E r \in Reads : ServeScene(r)) \/ UNCHANGED read
    BY DEF Next, vars, Charge, ReceiveExport, TakeCount, ReadClock, Remember, NotSettled, Tick
  <2> QED
    BY <2>1, <2>2, <2>3
<1>3. ReadIsPossible => ServedAsAsked
  BY ServedExactly DEF ReadIsPossible, ServedAsAsked
<1> QED
  BY <1>1, <1>2, <1>3, PTL DEF Spec

-----------------------------------------------------------------------------
(* Natural numbers.                                                        *)

\* A set of naturals that is not empty has a least element.
LEMMA LeastNatural ==
  ASSUME NEW S, S \subseteq Nat, S # {}
  PROVE  \E n \in S : \A m \in S : n <= m
<1>1. \E x \in S : \A y \in S : ~(<<y, x>> \in OpToRel(<, Nat))
  BY NatLessThanWellFounded, WFMin
<1>2. PICK x \in S : \A y \in S : ~(<<y, x>> \in OpToRel(<, Nat))
  BY <1>1
<1>3. ASSUME NEW y \in S PROVE x <= y
  <2>1. ~(y < x)
    BY <1>2 DEF OpToRel
  <2> QED BY <2>1
<1> QED
  BY <1>3

\* What holds of a number where it holds of all smaller ones holds of all.
LEMMA Induction ==
  ASSUME NEW S, \A n \in Nat : (\A m \in 0..(n - 1) : m \in S) => n \in S
  PROVE  Nat \subseteq S
<1> SUFFICES ASSUME Nat \ S # {} PROVE FALSE
  OBVIOUS
<1>1. PICK n \in Nat \ S : \A m \in Nat \ S : n <= m
  BY LeastNatural
<1>2. \A m \in 0..(n - 1) : m \in S
  BY <1>1
<1> QED
  BY <1>1, <1>2

-----------------------------------------------------------------------------
(* What an upload is charged for.                                           *)

Source == [bytes : 0..MaxU64, format : {"ifc", "rvt"}]

LEMMA ChargedType == ASSUME NEW s \in Source PROVE Charged(s) \in 0..MaxU64
BY WidthAssumption DEF Charged, Source

\* The recursion of BytesUpTo goes through, and what it gives is a number.
LEMMA BytesAreSums ==
  ASSUME NEW sources \in Seq(Source)
  PROVE  /\ BytesUpTo(sources) =
              [i \in 0..Len(sources) |->
                 IF i = 0 THEN 0 ELSE BytesUpTo(sources)[i - 1] + Charged(sources[i])]
         /\ \A i \in 0..Len(sources) : BytesUpTo(sources)[i] \in Nat
<1> DEFINE Sums(g, n) ==
             g = [i \in 0..n |-> IF i = 0 THEN 0 ELSE g[i - 1] + Charged(sources[i])]
           S == {n \in Nat : n <= Len(sources) => \E g : Sums(g, n)}
<1>1. ASSUME NEW n \in Nat, \A m \in 0..(n - 1) : m \in S PROVE n \in S
  <2> SUFFICES ASSUME n <= Len(sources) PROVE \E g : Sums(g, n)
    OBVIOUS
  <2>1. CASE n = 0
    <3> DEFINE g == [i \in 0..0 |-> 0]
    <3>1. Sums(g, 0)
      OBVIOUS
    <3> QED BY <2>1, <3>1
  <2>2. CASE n # 0
    <3>0. n - 1 \in S
      <4> HIDE DEF S
      <4> QED BY <1>1, <2>2
    <3>1. PICK g : Sums(g, n - 1)
      <4> HIDE DEF Sums
      <4> QED BY <3>0, <2>2
    <3> DEFINE h == [i \in 0..n |-> IF i = n THEN g[n - 1] + Charged(sources[n]) ELSE g[i]]
    <3>2. Sums(h, n)
      BY <2>2, <3>1
    <3> QED BY <3>2
  <2> QED BY <2>1, <2>2
<1>2. \E g : Sums(g, Len(sources))
  <2>1. Nat \subseteq S
    <3> HIDE DEF S
    <3> QED BY <1>1, Induction
  <2> QED BY <2>1
<1>3. Sums(BytesUpTo(sources), Len(sources))
  BY <1>2 DEF BytesUpTo
<1> DEFINE f == BytesUpTo(sources)
           S2 == {n \in Nat : n <= Len(sources) => f[n] \in Nat}
<1>4. \A n \in 0..Len(sources) :
        f[n] = IF n = 0 THEN 0 ELSE f[n - 1] + Charged(sources[n])
  BY <1>3
<1>5. \A n \in 1..Len(sources) : Charged(sources[n]) \in Nat
  BY ChargedType, WidthAssumption
<1>6. ASSUME NEW n \in Nat, \A m \in 0..(n - 1) : m \in S2 PROVE n \in S2
  <2> HIDE DEF f
  <2>1. n # 0 => n - 1 \in S2
    <3> HIDE DEF S2
    <3> QED BY <1>6
  <2> QED BY <1>4, <1>5, <2>1
<1>7. Nat \subseteq S2
  <2> HIDE DEF S2
  <2> QED BY <1>6, Induction
<1> QED
  BY <1>3, <1>7

\* The sum of the code is the sum, or the largest number where that is more.
LEMMA PlannedIsSum ==
  ASSUME NEW sources \in Seq(Source)
  PROVE  \A i \in 0..Len(sources) :
           PlannedUpTo(sources)[i] = Lesser(BytesUpTo(sources)[i], MaxU64)
<1> DEFINE Sums(g, n) ==
             g = [i \in 0..n |-> IF i = 0 THEN 0
                                 ELSE SaturatingAdd(g[i - 1], Charged(sources[i]))]
           S == {n \in Nat : n <= Len(sources) => \E g : Sums(g, n)}
           f == PlannedUpTo(sources)
           b == BytesUpTo(sources)
           T == {n \in Nat : n <= Len(sources) => f[n] = Lesser(b[n], MaxU64)}
<1>1. ASSUME NEW n \in Nat, \A m \in 0..(n - 1) : m \in S PROVE n \in S
  <2> SUFFICES ASSUME n <= Len(sources) PROVE \E g : Sums(g, n)
    OBVIOUS
  <2>1. CASE n = 0
    <3> DEFINE g == [i \in 0..0 |-> 0]
    <3>1. Sums(g, 0)
      OBVIOUS
    <3> QED BY <2>1, <3>1
  <2>2. CASE n # 0
    <3>0. n - 1 \in S
      <4> HIDE DEF S
      <4> QED BY <1>1, <2>2
    <3>1. PICK g : Sums(g, n - 1)
      <4> HIDE DEF Sums
      <4> QED BY <3>0, <2>2
    <3> DEFINE h == [i \in 0..n |-> IF i = n THEN SaturatingAdd(g[n - 1], Charged(sources[n]))
                                             ELSE g[i]]
    <3>2. Sums(h, n)
      BY <2>2, <3>1
    <3> QED BY <3>2
  <2> QED BY <2>1, <2>2
<1>2. \E g : Sums(g, Len(sources))
  <2>1. Nat \subseteq S
    <3> HIDE DEF S
    <3> QED BY <1>1, Induction
  <2> QED BY <2>1
<1>3. Sums(f, Len(sources))
  BY <1>2 DEF PlannedUpTo
<1>4. \A n \in 0..Len(sources) :
        f[n] = IF n = 0 THEN 0 ELSE SaturatingAdd(f[n - 1], Charged(sources[n]))
  BY <1>3
<1>5. \A n \in 0..Len(sources) :
        b[n] = IF n = 0 THEN 0 ELSE b[n - 1] + Charged(sources[n])
  <2>1. b = [i \in 0..Len(sources) |->
               IF i = 0 THEN 0 ELSE b[i - 1] + Charged(sources[i])]
    BY BytesAreSums
  <2> HIDE DEF b
  <2> QED BY <2>1
<1>6. /\ \A n \in 1..Len(sources) : Charged(sources[n]) \in Nat
      /\ \A n \in 0..Len(sources) : b[n] \in Nat
  BY BytesAreSums, ChargedType, WidthAssumption
<1>7. ASSUME NEW n \in Nat, \A m \in 0..(n - 1) : m \in T PROVE n \in T
  <2> HIDE DEF f, b
  <2>1. n # 0 => n - 1 \in T
    <3> HIDE DEF T
    <3> QED BY <1>7
  <2> SUFFICES ASSUME n <= Len(sources) PROVE f[n] = Lesser(b[n], MaxU64)
    OBVIOUS
  <2>2. CASE n = 0
    <3>1. f[n] = 0 /\ b[n] = 0
      BY <1>4, <1>5, <2>2
    <3> QED BY <3>1, WidthAssumption DEF Lesser
  <2>3. CASE n # 0
    <3>1. /\ f[n] = SaturatingAdd(f[n - 1], Charged(sources[n]))
          /\ b[n] = b[n - 1] + Charged(sources[n])
          /\ f[n - 1] = Lesser(b[n - 1], MaxU64)
      BY <1>4, <1>5, <2>1, <2>3
    <3>2. b[n - 1] \in Nat /\ Charged(sources[n]) \in Nat
      BY <1>6, <2>3
    <3> QED BY <3>1, <3>2, WidthAssumption DEF SaturatingAdd, Lesser
  <2> QED BY <2>2, <2>3
<1>8. Nat \subseteq T
  <2> HIDE DEF T
  <2> QED BY <1>7, Induction
<1> QED
  BY <1>8

LEMMA ProductIsMonotone ==
  ASSUME NEW a \in Nat, NEW b \in Nat, a <= b, NEW r \in Nat
  PROVE  r * a <= r * b /\ a * r = r * a /\ r * a \in Nat
OBVIOUS

\* There is room by the numbers of the code exactly where there is by the
\* true ones.
LEMMA RoomIsExact ==
  ASSUME NEW sources \in Seq(Source), NEW free \in 0..MaxU64 \union {Unknown}
  PROVE  RoomToConvert(Planned(sources), free) <=>
           /\ TrueNeed(sources) <= MaxU64
           /\ free = Unknown \/ TrueNeed(sources) <= free
<1> DEFINE bytes == BytesUpTo(sources)[Len(sources)]
           planned == Planned(sources)
<1>1. bytes \in Nat /\ planned = Lesser(bytes, MaxU64)
  BY BytesAreSums, PlannedIsSum DEF Planned
<1>2. TrueNeed(sources) = Ratio * bytes
  BY DEF TrueNeed
<1>3. Ratio \in Nat /\ Ratio >= 2 /\ MaxU64 \in Nat /\ MaxU64 > 1
  BY NumbersAssumption, WidthAssumption
<1> HIDE DEF bytes, planned
<1>4. CASE bytes <= MaxU64
  <2>1. planned = bytes /\ bytes * Ratio = Ratio * bytes
    BY <1>1, <1>3, <1>4 DEF Lesser
  <2> QED
    BY <1>2, <2>1 DEF RoomToConvert, planned
<1>5. CASE ~(bytes <= MaxU64)
  <2>1. planned = MaxU64 /\ MaxU64 <= bytes
    BY <1>1, <1>3, <1>5 DEF Lesser
  <2>2. MaxU64 * Ratio > MaxU64
    <3>1. 2 * MaxU64 <= Ratio * MaxU64
      <4>1. MaxU64 * 2 <= MaxU64 * Ratio
        BY <1>3, ProductIsMonotone
      <4> QED BY <4>1, <1>3
    <3> QED BY <1>3, <3>1
  <2>3. Ratio * bytes > MaxU64
    <3>1. Ratio * MaxU64 <= Ratio * bytes /\ Ratio * bytes \in Nat /\ MaxU64 * Ratio = Ratio * MaxU64
      BY <1>1, <1>3, <2>1, ProductIsMonotone
    <3>2. MaxU64 * Ratio \in Nat
      BY <1>3
    <3> QED BY <1>3, <2>2, <3>1, <3>2
  <2>4. ~(MaxU64 * Ratio <= MaxU64) /\ ~(Ratio * bytes <= MaxU64)
    <3>1. MaxU64 * Ratio \in Nat /\ Ratio * bytes \in Nat
      BY <1>1, <1>3
    <3> QED BY <1>3, <2>2, <2>3, <3>1
  <2> QED
    BY <1>2, <2>1, <2>4 DEF RoomToConvert, planned
<1> QED
  BY <1>4, <1>5

\* Sums that saturate and products that are checked come to the decision that
\* numbers of any size would come to (room_to_convert_all), where an upload
\* takes at least twice its size to convert.
THEOREM ChargedTruly == Spec => []TakenWhereItFits
<1>1. Init => TakenWhereItFits
  <2> SUFFICES ASSUME Init PROVE TakenWhereItFits
    OBVIOUS
  <2>1. charged = [sources |-> <<>>, free |-> Unknown, room |-> TRUE]
    BY DEF Init
  <2>2. <<>> \in Seq(Source) /\ Len(<<>>) = 0
    OBVIOUS
  <2>3. BytesUpTo(<<>>)[0] = 0
    <3>1. BytesUpTo(<<>>) =
              [i \in 0..0 |->
                 IF i = 0 THEN 0 ELSE BytesUpTo(<<>>)[i - 1] + Charged(<<>>[i])]
      BY <2>2, BytesAreSums
    <3> QED BY <3>1
  <2>4. TrueNeed(<<>>) = 0
    BY <2>2, <2>3, NumbersAssumption DEF TrueNeed
  <2> QED
    BY <2>1, <2>4, WidthAssumption DEF TakenWhereItFits
<1>2. TakenWhereItFits /\ [Next]_vars => TakenWhereItFits'
  <2> SUFFICES ASSUME TakenWhereItFits, [Next]_vars PROVE TakenWhereItFits'
    OBVIOUS
  <2>1. CASE \E u \in Uploads : Charge(u)
    <3>1. PICK u \in Uploads : Charge(u)
      BY <2>1
    <3>2. PICK sources \in SourceSets, free \in FreeSet :
            charged' = [sources |-> sources, free |-> free,
                        room |-> RoomToConvert(Planned(sources), free)]
      BY <3>1 DEF Charge
    <3>3. sources \in Seq(Source) /\ free \in 0..MaxU64 \union {Unknown}
      BY SourceSetsAssumption, FreeSetAssumption DEF Source
    <3>4. RoomToConvert(Planned(sources), free) <=>
             /\ TrueNeed(sources) <= MaxU64
             /\ free = Unknown \/ TrueNeed(sources) <= free
      BY <3>3, RoomIsExact
    <3>5. /\ charged'.sources = sources /\ charged'.free = free
          /\ charged'.room = RoomToConvert(Planned(sources), free)
      BY <3>2
    <3> QED
      BY <3>4, <3>5 DEF TakenWhereItFits, TrueNeed
  <2>2. CASE UNCHANGED charged
    BY <2>2 DEF TakenWhereItFits
  <2>3. (\E u \in Uploads : Charge(u)) \/ UNCHANGED charged
    BY DEF Next, vars, ServeScene, ReceiveExport, TakeCount, ReadClock, Remember, NotSettled, Tick
  <2> QED
    BY <2>1, <2>2, <2>3
<1> QED
  BY <1>1, <1>2, PTL DEF Spec

-----------------------------------------------------------------------------
(* The order of strings.                                                    *)

Words == Seq(Int)

LEMMA SortsAt ==
  ASSUME NEW s \in Words, NEW t \in Words
  PROVE  Sorts(s, t) <=>
           \E i \in 1..Len(t) :
             /\ i <= Len(s) + 1
             /\ \A k \in 1..(i - 1) : s[k] = t[k]
             /\ i = Len(s) + 1 \/ s[i] < t[i]
<1>1. ASSUME NEW i \in 1..Len(t), i <= Len(s) + 1
      PROVE  SubSeq(s, 1, i - 1) = SubSeq(t, 1, i - 1) <=> \A k \in 1..(i - 1) : s[k] = t[k]
  <2>1. /\ SubSeq(s, 1, i - 1) = [k \in 1..(i - 1) |-> s[k]]
        /\ SubSeq(t, 1, i - 1) = [k \in 1..(i - 1) |-> t[k]]
    BY <1>1 DEF Words
  <2> QED BY <2>1
<1> QED
  BY <1>1 DEF Sorts

\* What comes after it does not change the order of two words as long.
LEMMA SortsWithMore ==
  ASSUME NEW s \in Words, NEW t \in Words, NEW a \in Words, NEW b \in Words,
         Len(s) = Len(t), Sorts(s, t)
  PROVE  Sorts(s \o a, t \o b)
<1>1. PICK i \in 1..Len(t) : /\ i <= Len(s) + 1
                             /\ \A k \in 1..(i - 1) : s[k] = t[k]
                             /\ i = Len(s) + 1 \/ s[i] < t[i]
  BY SortsAt
<1>2. s \o a \in Words /\ t \o b \in Words
  BY DEF Words
<1>3. \A k \in 1..Len(s) : (s \o a)[k] = s[k] /\ (t \o b)[k] = t[k]
  BY DEF Words
<1>4. Len(s \o a) >= Len(s) /\ Len(t \o b) >= Len(t) /\ Len(s) \in Nat /\ Len(s \o a) \in Nat /\ Len(t \o b) \in Nat
  BY DEF Words
<1>5. /\ i \in 1..Len(t \o b) /\ i <= Len(s \o a) + 1
      /\ \A k \in 1..(i - 1) : (s \o a)[k] = (t \o b)[k]
      /\ (s \o a)[i] < (t \o b)[i]
  BY <1>1, <1>3, <1>4
<1> QED
  BY <1>2, <1>5, SortsAt

LEMMA SortsByLast ==
  ASSUME NEW s \in Words, NEW x \in Int, NEW y \in Int, x < y
  PROVE  Sorts(Append(s, x), Append(s, y))
<1>1. Append(s, x) \in Words /\ Append(s, y) \in Words
  BY DEF Words
<1>2. /\ Len(Append(s, x)) = Len(s) + 1 /\ Len(Append(s, y)) = Len(s) + 1
      /\ Append(s, x)[Len(s) + 1] = x /\ Append(s, y)[Len(s) + 1] = y
      /\ \A k \in 1..Len(s) : Append(s, x)[k] = Append(s, y)[k]
      /\ Len(s) \in Nat
  BY DEF Words
<1> DEFINE i == Len(s) + 1
           a == Append(s, x)
           b == Append(s, y)
<1>3. i \in 1..Len(b) /\ i <= Len(a) + 1 /\ (\A k \in 1..(i - 1) : a[k] = b[k]) /\ a[i] < b[i]
  <2> HIDE DEF a, b
  <2>1. Len(a) = Len(s) + 1 /\ Len(b) = Len(s) + 1 /\ a[i] = x /\ b[i] = y
    BY <1>2 DEF a, b
  <2>2. \A k \in 1..Len(s) : a[k] = b[k]
    BY <1>2 DEF a, b
  <2> QED BY <1>2, <2>1, <2>2
<1> HIDE DEF a, b, i
<1>4. a \in Words /\ b \in Words
  BY <1>1 DEF a, b
<1>5. Sorts(a, b)
  BY <1>3, <1>4, SortsAt
<1> QED
  BY <1>5 DEF a, b

LEMMA SortsIsStrict ==
  ASSUME NEW s \in Words, NEW t \in Words, Sorts(s, t)
  PROVE  ~Sorts(t, s)
<1> SUFFICES ASSUME Sorts(t, s) PROVE FALSE
  OBVIOUS
<1>1. PICK i \in 1..Len(t) : /\ i <= Len(s) + 1
                             /\ \A k \in 1..(i - 1) : s[k] = t[k]
                             /\ i = Len(s) + 1 \/ s[i] < t[i]
  BY SortsAt
<1>2. PICK j \in 1..Len(s) : /\ j <= Len(t) + 1
                             /\ \A k \in 1..(j - 1) : t[k] = s[k]
                             /\ j = Len(t) + 1 \/ t[j] < s[j]
  BY SortsAt
<1>3. Len(s) \in Nat /\ Len(t) \in Nat /\ (\A k \in 1..Len(s) : s[k] \in Int) /\ (\A k \in 1..Len(t) : t[k] \in Int)
  BY DEF Words
<1>4. CASE i < j
  BY <1>1, <1>2, <1>3, <1>4
<1>5. CASE j < i
  BY <1>1, <1>2, <1>3, <1>5
<1>6. CASE i = j
  BY <1>1, <1>2, <1>3, <1>6
<1> QED
  BY <1>3, <1>4, <1>5, <1>6

LEMMA SortsIsTransitive ==
  ASSUME NEW s \in Words, NEW t \in Words, NEW w \in Words, Sorts(s, t), Sorts(t, w)
  PROVE  Sorts(s, w)
<1>1. PICK i \in 1..Len(t) : /\ i <= Len(s) + 1
                             /\ \A k \in 1..(i - 1) : s[k] = t[k]
                             /\ i = Len(s) + 1 \/ s[i] < t[i]
  BY SortsAt
<1>2. PICK j \in 1..Len(w) : /\ j <= Len(t) + 1
                             /\ \A k \in 1..(j - 1) : t[k] = w[k]
                             /\ j = Len(t) + 1 \/ t[j] < w[j]
  BY SortsAt
<1>3. /\ Len(s) \in Nat /\ Len(t) \in Nat /\ Len(w) \in Nat
      /\ \A k \in 1..Len(s) : s[k] \in Int
      /\ \A k \in 1..Len(t) : t[k] \in Int
      /\ \A k \in 1..Len(w) : w[k] \in Int
  BY DEF Words
<1>4. CASE i < j
  <2>1. i \in 1..Len(w) /\ \A k \in 1..(i - 1) : s[k] = w[k]
    BY <1>1, <1>2, <1>3, <1>4
  <2>2. i = Len(s) + 1 \/ s[i] < w[i]
    BY <1>1, <1>2, <1>3, <1>4
  <2> QED BY <1>1, <2>1, <2>2, SortsAt
<1>5. CASE j < i
  <2>1. j \in 1..Len(w) /\ j <= Len(s) + 1 /\ \A k \in 1..(j - 1) : s[k] = w[k]
    BY <1>1, <1>2, <1>3, <1>5
  <2>2. s[j] < w[j]
    BY <1>1, <1>2, <1>3, <1>5
  <2> QED BY <2>1, <2>2, SortsAt
<1>6. CASE i = j
  <2>1. \A k \in 1..(i - 1) : s[k] = w[k]
    BY <1>1, <1>2, <1>3, <1>6
  <2>2. i = Len(s) + 1 \/ s[i] < w[i]
    BY <1>1, <1>2, <1>3, <1>6
  <2> QED BY <1>1, <1>2, <1>6, <2>1, <2>2, SortsAt
<1> QED
  BY <1>3, <1>4, <1>5, <1>6

LEMMA SortsIsTotal ==
  ASSUME NEW s \in Words, NEW t \in Words, s # t
  PROVE  Sorts(s, t) \/ Sorts(t, s)
<1> DEFINE D == {i \in Nat : /\ i > 0
                             /\ \/ i > Len(s) /\ i <= Len(t)
                                \/ i > Len(t) /\ i <= Len(s)
                                \/ i <= Len(s) /\ i <= Len(t) /\ s[i] # t[i]}
<1>1. /\ Len(s) \in Nat /\ Len(t) \in Nat
      /\ \A k \in 1..Len(s) : s[k] \in Int
      /\ \A k \in 1..Len(t) : t[k] \in Int
  BY DEF Words
<1>2. D # {}
  <2>1. CASE Len(s) # Len(t)
    <3>1. Len(s) + 1 \in D \/ Len(t) + 1 \in D
      BY <1>1, <2>1
    <3> QED BY <3>1
  <2>2. CASE Len(s) = Len(t)
    <3>1. \E k \in 1..Len(s) : s[k] # t[k]
      BY <2>2 DEF Words
    <3> QED BY <1>1, <2>2, <3>1
  <2> QED BY <2>1, <2>2
<1>3. PICK i \in D : \A m \in D : i <= m
  <2> HIDE DEF D
  <2>1. D \subseteq Nat
    BY DEF D
  <2> QED BY <1>2, <2>1, LeastNatural
<1>4. \A k \in 1..(i - 1) : k <= Len(s) /\ k <= Len(t) /\ s[k] = t[k]
  <2> TAKE k \in 1..(i - 1)
  <2>1. k \notin D
    <3> HIDE DEF D
    <3> QED BY <1>3 DEF D
  <2>2. i <= Len(s) \/ i <= Len(t)
    OBVIOUS
  <2> QED BY <1>1, <2>1, <2>2
<1>5. CASE i > Len(s) /\ i <= Len(t)
  <2>1. i = Len(s) + 1
    BY <1>1, <1>4, <1>5
  <2> QED BY <1>1, <1>4, <1>5, <2>1, SortsAt
<1>6. CASE i > Len(t) /\ i <= Len(s)
  <2>1. i = Len(t) + 1
    BY <1>1, <1>4, <1>6
  <2> QED BY <1>1, <1>4, <1>6, <2>1, SortsAt
<1>7. CASE i <= Len(s) /\ i <= Len(t) /\ s[i] # t[i]
  <2>1. i \in 1..Len(s) /\ i \in 1..Len(t) /\ (s[i] < t[i] \/ t[i] < s[i])
    BY <1>1, <1>7
  <2> QED BY <1>1, <1>4, <1>7, <2>1, SortsAt
<1> QED
  BY <1>5, <1>6, <1>7

-----------------------------------------------------------------------------
(* Numbers and their digits.                                                *)

\* A number is put together again from its quotient and its remainder.
LEMMA Division ==
  ASSUME NEW b \in Nat, b > 1, NEW n \in Nat
  PROVE  /\ n \div b \in Nat
         /\ n % b \in 0..(b - 1)
         /\ n = b * (n \div b) + (n % b)
<1>1. n \div b \in Nat
  OBVIOUS
<1>2. n % b \in 0..(b - 1)
  OBVIOUS
<1>3. n = b * (n \div b) + (n % b)
  OBVIOUS
<1> QED
  BY <1>1, <1>2, <1>3

LEMMA ProductIsStrict ==
  ASSUME NEW b \in Nat, b > 1, NEW p \in Nat, NEW q \in Nat
  PROVE  /\ b * p \in Nat
         /\ p < q => b * p + b <= b * q
         /\ p > 0 => p < b * p
<1>1. b * p \in Nat /\ b * q \in Nat /\ b * (q - p) = b * q - b * p
  OBVIOUS
<1>2. p < q => b * (q - p) >= b
  <2>1. SUFFICES ASSUME p < q PROVE b * (q - p) >= b
    OBVIOUS
  <2>2. q - p \in Nat /\ q - p >= 1
    BY <2>1
  <2>3. \A d \in Nat : d >= 1 => b * d >= b
    OBVIOUS
  <2> QED BY <2>2, <2>3
<1>3. p > 0 => p < b * p
  OBVIOUS
<1> QED
  BY <1>1, <1>2, <1>3

\* Quotients are smaller, and keep the order of the numbers.
LEMMA QuotientIsSmaller ==
  ASSUME NEW b \in Nat, b > 1, NEW n \in Nat, n >= b
  PROVE  n \div b \in 1..(n - 1)
<1> DEFINE q == n \div b
           r == n % b
<1>1. q \in Nat /\ r \in 0..(b - 1) /\ n = b * q + r
  BY Division
<1> HIDE DEF q, r
<1>2. q # 0
  <2>1. b * 0 = 0
    OBVIOUS
  <2> QED BY <1>1, <2>1
<1>3. q < b * q /\ b * q \in Nat
  BY <1>1, <1>2, ProductIsStrict
<1>4. q \in 1..(n - 1)
  BY <1>1, <1>2, <1>3
<1> QED
  BY <1>4 DEF q

LEMMA QuotientKeepsOrder ==
  ASSUME NEW b \in Nat, b > 1, NEW m \in Nat, NEW n \in Nat, m < n
  PROVE  \/ m \div b < n \div b
         \/ m \div b = n \div b /\ m % b < n % b
<1> DEFINE p == m \div b
           q == n \div b
           r == m % b
           t == n % b
<1>1. /\ p \in Nat /\ r \in 0..(b - 1) /\ m = b * p + r
      /\ q \in Nat /\ t \in 0..(b - 1) /\ n = b * q + t
  BY Division
<1> HIDE DEF p, q, r, t
<1>2. CASE q < p
  <2>1. b * q + b <= b * p /\ b * p \in Nat /\ b * q \in Nat
    BY <1>1, <1>2, ProductIsStrict
  <2> QED BY <1>1, <2>1
<1>3. CASE p = q
  <2>1. b * q \in Nat
    BY <1>1, ProductIsStrict
  <2> QED BY <1>1, <1>3, <2>1 DEF p, q, r, t
<1>4. CASE p < q
  BY <1>4 DEF p, q
<1> QED
  BY <1>1, <1>2, <1>3, <1>4

-----------------------------------------------------------------------------
(* The recursion of the digits goes through.                                *)

\* What g is where it follows the recursion as far as n.
DigitsUpTo(base, g, n) ==
    g = [m \in 0..n |-> IF m < base THEN <<m>> ELSE Append(g[m \div base], m % base)]

LEMMA DigitsExist ==
  ASSUME NEW b \in Nat, b > 1
  PROVE  \A n \in Nat : \E g : DigitsUpTo(b, g, n)
<1> DEFINE S == {n \in Nat : \E g : DigitsUpTo(b, g, n)}
<1>1. ASSUME NEW n \in Nat, \A m \in 0..(n - 1) : m \in S PROVE n \in S
  <2>1. CASE n = 0
    <3> DEFINE h == [m \in 0..0 |-> <<m>>]
    <3>1. DigitsUpTo(b, h, 0)
      BY DEF DigitsUpTo
    <3> QED BY <2>1, <3>1
  <2>2. CASE n # 0
    <3>1. n - 1 \in S
      <4> HIDE DEF S
      <4> QED BY <1>1, <2>2
    <3>2. PICK g : DigitsUpTo(b, g, n - 1)
      BY <3>1
    <3> DEFINE h == [m \in 0..n |-> IF m = n THEN IF n < b THEN <<n>> ELSE Append(g[n \div b], n % b)
                                    ELSE g[m]]
    <3>3. g = [m \in 0..(n - 1) |-> IF m < b THEN <<m>> ELSE Append(g[m \div b], m % b)]
      BY <3>2 DEF DigitsUpTo
    <3>4. ASSUME NEW m \in 0..n PROVE h[m] = IF m < b THEN <<m>> ELSE Append(h[m \div b], m % b)
      <4>1. CASE m < b
        <5>1. m # n => g[m] = <<m>>
          BY <3>3, <4>1, <2>2
        <5> QED BY <4>1, <5>1
      <4>2. CASE ~(m < b)
        <5>1. m \div b \in 1..(m - 1)
          <6>1. m \in Nat /\ m >= b
            <7> HIDE DEF h, S
            <7> QED BY <4>2
          <6> HIDE DEF h, S
          <6> QED BY <6>1, QuotientIsSmaller
        <5>2. h[m \div b] = g[m \div b]
          BY <5>1
        <5>3. m # n => g[m] = Append(g[m \div b], m % b)
          <6> HAVE m # n
          <6>1. m \in 0..(n - 1)
            BY <2>2
          <6> DEFINE e(k) == IF k < b THEN <<k>> ELSE Append(g[k \div b], k % b)
          <6>2. g[m] = e(m)
            <7>1. g = [k \in 0..(n - 1) |-> e(k)]
              BY <3>3
            <7> HIDE DEF e
            <7> QED BY <6>1, <7>1
          <6> QED BY <4>2, <6>2
        <5> QED BY <4>2, <5>2, <5>3
      <4> QED BY <4>1, <4>2
    <3>5. DigitsUpTo(b, h, n)
      <4> DEFINE e(m) == IF m < b THEN <<m>> ELSE Append(h[m \div b], m % b)
      <4>1. \A m \in 0..n : h[m] = e(m)
        BY <3>4
      <4>2. h = [m \in 0..n |-> h[m]]
        OBVIOUS
      <4>3. h = [m \in 0..n |-> e(m)]
        <5> HIDE DEF e, h
        <5> QED BY <4>1, <4>2
      <4> QED BY <4>3 DEF DigitsUpTo
    <3> QED BY <3>5
  <2> QED BY <2>1, <2>2
<1>2. Nat \subseteq S
  <2> HIDE DEF S
  <2> QED BY <1>1, Induction
<1> QED
  BY <1>2

LEMMA DigitsUnfold ==
  ASSUME NEW b \in Nat, b > 1, NEW g, NEW n \in Nat, DigitsUpTo(b, g, n), NEW m \in 0..n
  PROVE  g[m] = IF m < b THEN <<m>> ELSE Append(g[m \div b], m % b)
<1> DEFINE e(k) == IF k < b THEN <<k>> ELSE Append(g[k \div b], k % b)
<1>1. g = [k \in 0..n |-> e(k)]
  BY DEF DigitsUpTo
<1>2. g[m] = e(m)
  <2> HIDE DEF e
  <2> QED BY <1>1
<1> QED
  BY <1>2

LEMMA DigitsAgree ==
  ASSUME NEW b \in Nat, b > 1, NEW g, NEW h, NEW n \in Nat, NEW p \in Nat,
         DigitsUpTo(b, g, n), DigitsUpTo(b, h, p)
  PROVE  \A m \in Nat : m <= n /\ m <= p => g[m] = h[m]
<1> DEFINE S == {m \in Nat : m <= n /\ m <= p => g[m] = h[m]}
<1>1. ASSUME NEW m \in Nat, \A k \in 0..(m - 1) : k \in S PROVE m \in S
  <2> SUFFICES ASSUME m <= n, m <= p PROVE g[m] = h[m]
    OBVIOUS
  <2>1. /\ g[m] = IF m < b THEN <<m>> ELSE Append(g[m \div b], m % b)
        /\ h[m] = IF m < b THEN <<m>> ELSE Append(h[m \div b], m % b)
    BY DigitsUnfold
  <2>2. m < b \/ g[m \div b] = h[m \div b]
    <3> SUFFICES ASSUME ~(m < b) PROVE g[m \div b] = h[m \div b]
      OBVIOUS
    <3>1. m \div b \in 1..(m - 1)
      <4>1. m >= b
        OBVIOUS
      <4> QED BY <4>1, QuotientIsSmaller
    <3>2. m \div b \in S
      <4> HIDE DEF S
      <4> QED BY <1>1, <3>1
    <3> QED BY <3>1, <3>2
  <2> QED BY <2>1, <2>2
<1>2. Nat \subseteq S
  <2> HIDE DEF S
  <2> QED BY <1>1, Induction
<1> QED
  BY <1>2

LEMMA DigitsRecur ==
  ASSUME NEW b \in Nat, b > 1, NEW n \in Nat
  PROVE  Digits(n, b) = IF n < b THEN <<n>> ELSE Append(Digits(n \div b, b), n % b)
<1> DEFINE G(k) == CHOOSE g : DigitsUpTo(b, g, k)
           f == [k \in Nat |-> G(k)[k]]
           Recurs(d) == d = [k \in Nat |-> IF k < b THEN <<k>> ELSE Append(d[k \div b], k % b)]
<1>1. \A k \in Nat : DigitsUpTo(b, G(k), k)
  BY DigitsExist
<1>2. ASSUME NEW k \in Nat PROVE f[k] = IF k < b THEN <<k>> ELSE Append(f[k \div b], k % b)
  <2>1. G(k)[k] = IF k < b THEN <<k>> ELSE Append(G(k)[k \div b], k % b)
    <3> HIDE DEF G
    <3> QED BY <1>1, DigitsUnfold
  <2>2. k < b \/ G(k)[k \div b] = f[k \div b]
    <3> SUFFICES ASSUME ~(k < b) PROVE G(k)[k \div b] = f[k \div b]
      OBVIOUS
    <3> HIDE DEF G
    <3>1. k \div b \in 1..(k - 1)
      <4>1. k >= b
        OBVIOUS
      <4> QED BY <4>1, QuotientIsSmaller
    <3> DEFINE q == k \div b
    <3>2. q \in Nat /\ q <= k
      BY <3>1
    <3> HIDE DEF q
    <3>3. G(k)[q] = G(q)[q]
      BY <1>1, <3>2, DigitsAgree
    <3> QED BY <3>2, <3>3 DEF q
  <2> HIDE DEF G
  <2> QED BY <2>1, <2>2
<1>3. Recurs(f)
  <2> DEFINE e(k) == IF k < b THEN <<k>> ELSE Append(f[k \div b], k % b)
  <2>1. \A k \in Nat : f[k] = e(k)
    BY <1>2
  <2>2. f = [k \in Nat |-> f[k]]
    OBVIOUS
  <2>3. f = [k \in Nat |-> e(k)]
    <3> HIDE DEF e, f
    <3> QED BY <2>1, <2>2
  <2> QED BY <2>3
<1>4. Recurs(DigitsIn(b))
  <2>1. DigitsIn(b) = CHOOSE d : Recurs(d)
    BY DEF DigitsIn
  <2> HIDE DEF Recurs, f
  <2> QED BY <1>3, <2>1
<1> DEFINE D == DigitsIn(b)
           e(k) == IF k < b THEN <<k>> ELSE Append(D[k \div b], k % b)
<1>5. D = [k \in Nat |-> e(k)]
  BY <1>4
<1>6. D[n] = e(n)
  <2> HIDE DEF D, e
  <2> QED BY <1>5
<1> QED
  BY <1>6 DEF Digits

LEMMA OneLetter ==
  ASSUME NEW x \in Int
  PROVE  /\ <<x>> \in Words /\ <<>> \in Words
         /\ Len(<<x>>) = 1 /\ <<x>> = Append(<<>>, x)
BY DEF Words

LEMMA OneMoreLetter ==
  ASSUME NEW s \in Words, NEW x \in Int
  PROVE  /\ Append(s, x) \in Words /\ Append(s, x) = s \o <<x>>
         /\ Len(s) \in Nat /\ Len(Append(s, x)) = Len(s) + 1
<1>1. s \o <<x>> \in Words /\ Append(s, x) \in Words
  BY DEF Words
<1>2. Append(s, x) = s \o <<x>>
  BY DEF Words
<1> QED
  BY <1>1, <1>2 DEF Words

LEMMA DigitsAreWords ==
  ASSUME NEW b \in Nat, b > 1, NEW n \in Nat
  PROVE  Digits(n, b) \in Words /\ Len(Digits(n, b)) > 0
<1> DEFINE S == {k \in Nat : Digits(k, b) \in Words /\ Len(Digits(k, b)) > 0}
<1>1. ASSUME NEW k \in Nat, \A m \in 0..(k - 1) : m \in S PROVE k \in S
  <2>1. CASE k < b
    <3>1. Digits(k, b) = <<k>>
      BY <2>1, DigitsRecur
    <3>2. k \in Int
      OBVIOUS
    <3>3. Digits(k, b) \in Words /\ Len(Digits(k, b)) = 1
      <4> HIDE DEF S
      <4> QED BY <3>1, <3>2, OneLetter
    <3> QED BY <3>3
  <2>2. CASE ~(k < b)
    <3>1. Digits(k, b) = Append(Digits(k \div b, b), k % b)
      BY <2>2, DigitsRecur
    <3>2. k \div b \in 1..(k - 1)
      <4>1. k >= b
        BY <2>2
      <4> QED BY <4>1, QuotientIsSmaller
    <3>3. k \div b \in S
      <4> HIDE DEF S
      <4> QED BY <1>1, <3>2
    <3>4. k % b \in Int
      OBVIOUS
    <3> DEFINE d == Digits(k \div b, b)
               r == k % b
    <3>5. d \in Words
      BY <3>3
    <3> HIDE DEF d, r
    <3>6. Append(d, r) \in Words /\ Len(Append(d, r)) > 0
      <4>1. r \in Int
        BY <3>4 DEF r
      <4>2. Append(d, r) \in Words /\ Len(d) \in Nat /\ Len(Append(d, r)) = Len(d) + 1
        <5> HIDE DEF S
        <5> QED BY <3>5, <4>1, OneMoreLetter
      <4> QED BY <4>2
    <3> QED BY <3>1, <3>6 DEF d, r
  <2> QED BY <2>1, <2>2
<1>2. Nat \subseteq S
  <2> HIDE DEF S
  <2> QED BY <1>1, Induction
<1> QED
  BY <1>2

\* A larger number has no fewer digits, and sorts after one that has as many.
LEMMA DigitsKeepOrder ==
  ASSUME NEW b \in Nat, b > 1, NEW j \in Nat, NEW k \in Nat, j < k
  PROVE  /\ Len(Digits(j, b)) <= Len(Digits(k, b))
         /\ Len(Digits(j, b)) = Len(Digits(k, b)) => Sorts(Digits(j, b), Digits(k, b))
<1> DEFINE D(n) == Digits(n, b)
           InOrder(m, n) == /\ Len(D(m)) <= Len(D(n))
                            /\ Len(D(m)) = Len(D(n)) => Sorts(D(m), D(n))
           S == {n \in Nat : \A m \in 0..(n - 1) : InOrder(m, n)}
<1>1. ASSUME NEW n \in Nat, \A m \in 0..(n - 1) : m \in S PROVE n \in S
  <2> SUFFICES ASSUME NEW m \in 0..(n - 1) PROVE InOrder(m, n)
    OBVIOUS
  <2>1. m \in Nat /\ m < n
    OBVIOUS
  <2>2. CASE n < b
    <3>1. D(m) = <<m>> /\ D(n) = <<n>>
      BY <2>1, <2>2, DigitsRecur
    <3> HIDE DEF S, D, InOrder
    <3>2. m \in Int /\ n \in Int
      BY <2>1
    <3>3. /\ <<m>> = Append(<<>>, m) /\ <<n>> = Append(<<>>, n) /\ <<>> \in Words
          /\ Len(<<m>>) = 1 /\ Len(<<n>>) = 1
      BY <3>2, OneLetter
    <3>4. Sorts(<<m>>, <<n>>)
      <4>1. Sorts(Append(<<>>, m), Append(<<>>, n))
        BY <2>1, <3>2, <3>3, SortsByLast
      <4> QED BY <3>3, <4>1
    <3> QED BY <3>1, <3>3, <3>4 DEF InOrder
  <2>3. CASE ~(n < b)
    <3> DEFINE q == n \div b
               t == n % b
    <3>1. q \in 1..(n - 1)
      <4>1. n >= b
        BY <2>3
      <4> QED BY <4>1, QuotientIsSmaller
    <3>2. D(n) = Append(D(q), t)
      BY <2>3, DigitsRecur
    <3>3. D(q) \in Words /\ Len(D(q)) > 0 /\ Len(D(q)) \in Nat
      <4>1. q \in Nat
        BY <3>1
      <4> HIDE DEF S, q
      <4>2. D(q) \in Words /\ Len(D(q)) > 0
        BY <4>1, DigitsAreWords
      <4> QED BY <4>2, OneMoreLetter
    <3>4. t \in Int
      OBVIOUS
    <3>5. Len(D(n)) = Len(D(q)) + 1
      <4> HIDE DEF D, t
      <4> QED BY <3>2, <3>3, <3>4 DEF Words
    <3>6. CASE m < b
      <4>1. D(m) = <<m>>
        BY <2>1, <3>6, DigitsRecur
      <4>2. Len(D(m)) = 1
        BY <4>1
      <4> HIDE DEF D
      <4> QED BY <3>3, <3>5, <4>2
    <3>7. CASE ~(m < b)
      <4> DEFINE p == m \div b
                 r == m % b
      <4>1. p \in 1..(m - 1)
        <5>1. m >= b
          BY <2>1, <3>7
        <5> QED BY <2>1, <5>1, QuotientIsSmaller
      <4>2. D(m) = Append(D(p), r)
        BY <2>1, <3>7, DigitsRecur
      <4>3. D(p) \in Words /\ Len(D(p)) \in Nat
        <5>1. p \in Nat
          BY <4>1
        <5> HIDE DEF S, p
        <5>2. D(p) \in Words
          BY <5>1, DigitsAreWords
        <5> QED BY <5>2, OneMoreLetter
      <4>4. r \in Int
        OBVIOUS
      <4>5. Len(D(m)) = Len(D(p)) + 1
        <5> HIDE DEF D, r
        <5> QED BY <4>2, <4>3, <4>4 DEF Words
      <4>6. p < q \/ (p = q /\ r < t)
        <5>1. m \in Nat /\ n \in Nat /\ m < n
          BY <2>1
        <5> HIDE DEF S
        <5> QED BY <5>1, QuotientKeepsOrder
      <4> HIDE DEF p, q, r, t
      <4>7. CASE p < q
        <5>1. q \in S
          <6> HIDE DEF S
          <6> QED BY <1>1, <3>1
        <5>2. InOrder(p, q)
          <6>1. p \in 0..(q - 1)
            BY <3>1, <4>1, <4>7
          <6> HIDE DEF InOrder
          <6> QED BY <5>1, <6>1
        <5>3. ASSUME Len(D(p)) = Len(D(q)) PROVE Sorts(D(m), D(n))
          <6>1. Sorts(D(p), D(q))
            BY <5>2, <5>3
          <6>2. Append(D(p), r) = D(p) \o <<r>> /\ Append(D(q), t) = D(q) \o <<t>>
            <7> HIDE DEF D, S
            <7> QED BY <3>3, <3>4, <4>3, <4>4, OneMoreLetter DEF r, t
          <6>3. <<r>> \in Words /\ <<t>> \in Words
            <7> HIDE DEF D, S
            <7> QED BY <3>4, <4>4, OneLetter DEF r, t
          <6>4. Sorts(D(p) \o <<r>>, D(q) \o <<t>>)
            <7> HIDE DEF D
            <7> QED BY <3>3, <4>3, <5>3, <6>1, <6>3, SortsWithMore
          <6> HIDE DEF D
          <6> QED BY <3>2, <4>2, <6>2, <6>4
        <5>4. Len(D(p)) <= Len(D(q))
          BY <5>2
        <5> HIDE DEF D
        <5> QED BY <3>3, <3>5, <4>3, <4>5, <5>3, <5>4
      <4>8. CASE p = q /\ r < t
        <5>1. Sorts(D(m), D(n))
          <6> HIDE DEF D
          <6> QED BY <3>2, <3>3, <3>4, <4>2, <4>4, <4>8, SortsByLast
        <5> HIDE DEF D
        <5> QED BY <3>3, <3>5, <4>5, <4>8, <5>1
      <4> QED BY <4>6, <4>7, <4>8
    <3> QED BY <3>6, <3>7
  <2> QED BY <2>2, <2>3
<1>2. Nat \subseteq S
  <2> HIDE DEF S
  <2> QED BY <1>1, Induction
<1>3. k \in S /\ j \in 0..(k - 1)
  <2> HIDE DEF S
  <2> QED BY <1>2
<1>4. InOrder(j, k)
  <2> HIDE DEF InOrder
  <2> QED BY <1>3
<1> QED
  BY <1>4

\* Different numbers have different digits.
LEMMA DigitsDiffer ==
  ASSUME NEW b \in Nat, b > 1, NEW j \in Nat, NEW k \in Nat, Digits(j, b) = Digits(k, b)
  PROVE  j = k
<1>1. ASSUME NEW m \in Nat, NEW n \in Nat, m < n, Digits(m, b) = Digits(n, b) PROVE FALSE
  <2>1. Sorts(Digits(m, b), Digits(n, b))
    BY <1>1, DigitsKeepOrder
  <2>2. Digits(m, b) \in Words
    BY DigitsAreWords
  <2> DEFINE d == Digits(m, b)
  <2>3. Sorts(d, d) /\ d \in Words
    BY <1>1, <2>1, <2>2
  <2> HIDE DEF d
  <2> QED BY <2>3, SortsIsStrict
<1>2. j < k \/ k < j \/ j = k
  OBVIOUS
<1> QED
  BY <1>1, <1>2

-----------------------------------------------------------------------------
(* Identifiers.                                                             *)

\* Identifiers made of a time and a count, of the times there are.
Id(ms, count) == Digits(ms, Hex) \o <<Hyphen>> \o Digits(count, Dec)

LEMMA TimesAreAsWide ==
  ASSUME NEW m \in FirstMs..LastMs
  PROVE  Len(Digits(m, Hex)) = Len(Digits(FirstMs, Hex))
<1>1. Hex \in Nat /\ Hex > 1 /\ FirstMs \in Nat /\ LastMs \in Nat /\ m \in Nat
  BY NumbersAssumption, ClockAssumption
<1> DEFINE W(n) == Len(Digits(n, Hex))
<1>2. W(FirstMs) = W(LastMs)
  BY OneWidthAssumption
<1>3. W(FirstMs) \in Nat /\ W(LastMs) \in Nat /\ W(m) \in Nat
  BY <1>1, DigitsAreWords DEF Words
<1>4. FirstMs < m => W(FirstMs) <= W(m)
  BY <1>1, DigitsKeepOrder
<1>5. m < LastMs => W(m) <= W(LastMs)
  BY <1>1, DigitsKeepOrder
<1>6. W(m) = W(FirstMs)
  <2> HIDE DEF W
  <2> QED BY <1>1, <1>2, <1>3, <1>4, <1>5
<1> QED
  BY <1>6

LEMMA IdParts ==
  ASSUME NEW m \in FirstMs..LastMs, NEW c \in Nat
  PROVE  /\ Digits(m, Hex) \in Words /\ Digits(c, Dec) \in Words
         /\ <<Hyphen>> \in Words
         /\ Digits(m, Hex) \o <<Hyphen>> \in Words
         /\ Len(Digits(m, Hex) \o <<Hyphen>>) = Len(Digits(FirstMs, Hex)) + 1
         /\ Id(m, c) \in Words
<1>1. /\ Hex \in Nat /\ Hex > 1 /\ Dec \in Nat /\ Dec > 1 /\ m \in Nat
  BY NumbersAssumption, ClockAssumption
<1>2. Digits(m, Hex) \in Words /\ Digits(c, Dec) \in Words
  BY <1>1, DigitsAreWords
<1>3. <<Hyphen>> \in Words
  BY OneLetter DEF Hyphen
<1> DEFINE d == Digits(m, Hex)
           e == Digits(c, Dec)
<1>4. Len(d) = Len(Digits(FirstMs, Hex))
  BY TimesAreAsWide
<1>5. d \in Words /\ e \in Words
  BY <1>2
<1>6. d \o <<Hyphen>> \in Words /\ Len(d \o <<Hyphen>>) = Len(d) + 1
  <2> HIDE DEF d, e
  <2>1. Append(d, Hyphen) = d \o <<Hyphen>> /\ Append(d, Hyphen) \in Words /\ Len(Append(d, Hyphen)) = Len(d) + 1
    BY <1>5, OneMoreLetter DEF Hyphen
  <2> QED BY <2>1
<1> DEFINE p == d \o <<Hyphen>>
<1>7. p \o e \in Words
  <2> HIDE DEF p, e
  <2>1. p \in Words
    BY <1>6 DEF p
  <2> QED BY <1>5, <2>1 DEF Words
<1>8. Len(d \o <<Hyphen>>) = Len(Digits(FirstMs, Hex)) + 1
  <2> HIDE DEF d
  <2> QED BY <1>4, <1>6
<1> QED
  BY <1>2, <1>3, <1>6, <1>7, <1>8 DEF Id

\* Of two times the identifiers of the earlier one sort first.
LEMMA IdsAreChronological ==
  ASSUME NEW m \in FirstMs..LastMs, NEW n \in FirstMs..LastMs, m < n,
         NEW c \in Nat, NEW e \in Nat
  PROVE  Sorts(Id(m, c), Id(n, e))
<1> DEFINE dm == Digits(m, Hex)
           dn == Digits(n, Hex)
           h == <<Hyphen>>
           dc == Digits(c, Dec)
           de == Digits(e, Dec)
<1>1. /\ dm \in Words /\ dn \in Words /\ h \in Words /\ dc \in Words /\ de \in Words
      /\ dm \o h \in Words /\ dn \o h \in Words
      /\ Len(dm \o h) = Len(dn \o h)
  BY IdParts
<1>2. Len(dm) = Len(dn)
  BY TimesAreAsWide
<1>3. Sorts(dm, dn)
  <2>1. m \in Nat /\ n \in Nat /\ Hex \in Nat /\ Hex > 1
    BY NumbersAssumption, ClockAssumption
  <2>2. Len(Digits(m, Hex)) = Len(Digits(n, Hex)) => Sorts(Digits(m, Hex), Digits(n, Hex))
    BY <2>1, DigitsKeepOrder
  <2> QED BY <1>2, <2>2
<1>4. Sorts((dm \o h) \o dc, (dn \o h) \o de)
  <2> HIDE DEF dm, dn, h, dc, de
  <2>1. Sorts(dm \o h, dn \o h)
    BY <1>1, <1>2, <1>3, SortsWithMore
  <2> QED BY <1>1, <2>1, SortsWithMore
<1> QED
  BY <1>4 DEF Id

LEMMA WordsTogether ==
  ASSUME NEW s \in Words, NEW a \in Words
  PROVE  /\ Len(s \o a) = Len(s) + Len(a)
         /\ Len(s) \in Nat /\ Len(a) \in Nat
         /\ \A k \in 1..Len(a) : (s \o a)[Len(s) + k] = a[k]
BY DEF Words

\* What follows parts of one length is the same in words that are the same.
LEMMA SameTails ==
  ASSUME NEW s \in Words, NEW t \in Words, NEW a \in Words, NEW b \in Words,
         Len(s) = Len(t), s \o a = t \o b
  PROVE  a = b
<1> DEFINE w == s \o a
<1>1. /\ Len(w) = Len(s) + Len(a) /\ Len(s) \in Nat /\ Len(a) \in Nat
      /\ \A k \in 1..Len(a) : w[Len(s) + k] = a[k]
  BY WordsTogether
<1>2. /\ Len(t \o b) = Len(t) + Len(b) /\ Len(t) \in Nat /\ Len(b) \in Nat
      /\ \A k \in 1..Len(b) : (t \o b)[Len(t) + k] = b[k]
  BY WordsTogether
<1>3. w = t \o b
  OBVIOUS
<1> HIDE DEF w
<1>4. Len(a) = Len(b) /\ \A k \in 1..Len(a) : a[k] = b[k]
  <2>1. /\ Len(w) = Len(t) + Len(b)
        /\ \A k \in 1..Len(b) : w[Len(t) + k] = b[k]
    BY <1>2, <1>3
  <2> QED BY <1>1, <1>2, <2>1
<1>5. a = [k \in 1..Len(a) |-> a[k]] /\ b = [k \in 1..Len(b) |-> b[k]]
  BY DEF Words
<1> QED
  BY <1>4, <1>5

\* Different counts make different identifiers.
LEMMA IdsDiffer ==
  ASSUME NEW m \in FirstMs..LastMs, NEW n \in FirstMs..LastMs,
         NEW c \in Nat, NEW e \in Nat, Id(m, c) = Id(n, e)
  PROVE  c = e
<1> DEFINE pm == Digits(m, Hex) \o <<Hyphen>>
           pn == Digits(n, Hex) \o <<Hyphen>>
           dc == Digits(c, Dec)
           de == Digits(e, Dec)
<1>1. /\ pm \in Words /\ pn \in Words /\ dc \in Words /\ de \in Words
      /\ Len(pm) = Len(pn)
  BY IdParts
<1>2. pm \o dc = pn \o de
  BY DEF Id
<1>3. dc = de
  <2> HIDE DEF pm, pn, dc, de
  <2> QED BY <1>1, <1>2, SameTails
<1> QED
  BY <1>3, NumbersAssumption, DigitsDiffer

Places == {"idle", "refused", "received", "counted", "named", "ended", "announced"}

\* Uploads that have taken a count, and those that have read the clock too.
HasCount(u) == upload[u].at \in {"counted", "named", "ended", "announced"}
HasTime(u) == upload[u].at \in {"named", "ended", "announced"}

UploadsAreWhole ==
    /\ upload \in [Uploads -> [at : Places, count : Nat, ms : Nat]]
    /\ next \in Nat
    /\ clock \in FirstMs..LastMs
    /\ after \in [Uploads -> SUBSET Uploads]
    /\ jobs \subseteq Announced
    /\ IsFiniteSet(jobs)

\* No two uploads have taken one count.
CountsAreTaken ==
    \A u \in Uploads : HasCount(u) =>
      /\ upload[u].count < next
      /\ \A o \in Uploads : HasCount(o) /\ o # u => upload[o].count # upload[u].count

TimesArePast == \A u \in Uploads : HasTime(u) => upload[u].ms \in FirstMs..clock

\* What was announced when an upload came had read the clock before it did.
AfterIsPast ==
    \A u \in Uploads : \A o \in after[u] :
      /\ upload[o].at = "announced"
      /\ HasTime(u) => upload[o].ms <= upload[u].ms

EarlierGoFirst ==
    \A u, o \in Announced :
      o \in after[u] /\ upload[o].ms # upload[u].ms /\ o \in jobs => u \in jobs

ListingInv ==
    UploadsAreWhole /\ CountsAreTaken /\ TimesArePast /\ AfterIsPast /\ EarlierGoFirst

LEMMA InitListing == Init => ListingInv
<1> SUFFICES ASSUME Init PROVE ListingInv
  OBVIOUS
<1>1. UploadsAreWhole
  BY ClockAssumption, FS_EmptySet DEF Init, UploadsAreWhole, Places, Announced
<1>2. \A u \in Uploads : ~HasCount(u) /\ ~HasTime(u) /\ after[u] = {}
  BY DEF Init, HasCount, HasTime
<1> QED
  BY <1>1, <1>2 DEF ListingInv, CountsAreTaken, TimesArePast, AfterIsPast, EarlierGoFirst, Announced

\* Identifiers of uploads that have been named sort by time, and differ.
LEMMA JobIdIsId == ASSUME NEW u PROVE JobId(u) = Id(upload[u].ms, upload[u].count)
BY DEF JobId, Id

LEMMA NamedNumbers ==
  ASSUME UploadsAreWhole, TimesArePast, NEW u \in Uploads, HasTime(u)
  PROVE  upload[u].ms \in FirstMs..LastMs /\ upload[u].count \in Nat /\ JobId(u) \in Words
<1>1. upload[u].ms \in FirstMs..clock /\ clock \in FirstMs..LastMs /\ upload[u].count \in Nat
  BY DEF UploadsAreWhole, TimesArePast
<1>2. upload[u].ms \in FirstMs..LastMs
  BY <1>1, ClockAssumption
<1>3. Id(upload[u].ms, upload[u].count) \in Words
  BY <1>1, <1>2, IdParts
<1> QED
  BY <1>1, <1>2, <1>3, JobIdIsId

LEMMA JobIdsDiffer ==
  ASSUME UploadsAreWhole, TimesArePast, CountsAreTaken,
         NEW u \in Uploads, HasTime(u), NEW o \in Uploads, HasTime(o), u # o
  PROVE  JobId(u) # JobId(o)
<1>1. upload[u].count # upload[o].count
  BY DEF CountsAreTaken, HasCount, HasTime
<1>2. /\ upload[u].ms \in FirstMs..LastMs /\ upload[u].count \in Nat
      /\ upload[o].ms \in FirstMs..LastMs /\ upload[o].count \in Nat
  BY NamedNumbers
<1>3. Id(upload[u].ms, upload[u].count) # Id(upload[o].ms, upload[o].count)
  BY <1>1, <1>2, IdsDiffer
<1> QED
  BY <1>3, JobIdIsId

LEMMA EarlierSortsFirst ==
  ASSUME UploadsAreWhole, TimesArePast,
         NEW u \in Uploads, HasTime(u), NEW o \in Uploads, HasTime(o),
         upload[o].ms < upload[u].ms
  PROVE  Sorts(JobId(o), JobId(u))
<1>1. /\ upload[u].ms \in FirstMs..LastMs /\ upload[u].count \in Nat
      /\ upload[o].ms \in FirstMs..LastMs /\ upload[o].count \in Nat
  BY NamedNumbers
<1>2. Sorts(Id(upload[o].ms, upload[o].count), Id(upload[u].ms, upload[u].count))
  BY <1>1, IdsAreChronological
<1> QED
  BY <1>2, JobIdIsId

-----------------------------------------------------------------------------
(* The oldest job that is kept.                                             *)

HasOldest(kept) == \E u \in kept : \A o \in kept \ {u} : Sorts(JobId(u), JobId(o))

\* Of finitely many jobs with identifiers that differ one sorts first: the
\* smallest set without one would have one more than a set with one.
LEMMA OldestExists ==
  ASSUME NEW all, IsFiniteSet(all), all # {},
         \A u \in all : JobId(u) \in Words,
         \A u, o \in all : u # o => JobId(u) # JobId(o)
  PROVE  HasOldest(all)
<1> DEFINE Bad == {n \in Nat : \E kept \in SUBSET all :
                                 kept # {} /\ Cardinality(kept) = n /\ ~HasOldest(kept)}
<1>1. SUFFICES ASSUME ~HasOldest(all) PROVE FALSE
  OBVIOUS
<1>2. Bad # {}
  <2>1. Cardinality(all) \in Nat
    BY FS_CardinalityType
  <2> QED BY <1>1, <2>1
<1>3. PICK n \in Bad : \A m \in Bad : n <= m
  <2>1. Bad \subseteq Nat
    OBVIOUS
  <2> HIDE DEF Bad
  <2> QED BY <1>2, <2>1, LeastNatural
<1>4. PICK kept \in SUBSET all : kept # {} /\ Cardinality(kept) = n /\ ~HasOldest(kept)
  BY <1>3
<1>5. PICK x \in kept : TRUE
  BY <1>4
<1> DEFINE rest == kept \ {x}
<1>6. IsFiniteSet(kept)
  BY FS_Subset
<1>7. IsFiniteSet(rest) /\ Cardinality(rest) = n - 1 /\ n \in Nat
  BY <1>4, <1>6, FS_RemoveElement
<1>8. CASE rest = {}
  BY <1>4, <1>8 DEF HasOldest
<1>9. CASE rest # {}
  <2>1. Cardinality(rest) \in Nat /\ Cardinality(rest) \notin Bad
    <3>1. Cardinality(rest) \in Nat
      BY <1>7, FS_CardinalityType
    <3> HIDE DEF Bad, rest
    <3> QED BY <1>3, <1>7, <3>1
  <2>2. HasOldest(rest)
    <3>1. rest \in SUBSET all
      OBVIOUS
    <3> HIDE DEF rest, HasOldest
    <3> QED BY <1>9, <2>1, <3>1
  <2>3. PICK y \in rest : \A o \in rest \ {y} : Sorts(JobId(y), JobId(o))
    BY <2>2 DEF HasOldest
  <2>4. x \in all /\ y \in all /\ x # y
    OBVIOUS
  <2>5. CASE Sorts(JobId(y), JobId(x))
    <3>1. \A o \in kept \ {y} : Sorts(JobId(y), JobId(o))
      BY <2>3, <2>5
    <3> QED BY <1>4, <3>1 DEF HasOldest
  <2>6. CASE Sorts(JobId(x), JobId(y))
    <3>1. ASSUME NEW o \in kept \ {x} PROVE Sorts(JobId(x), JobId(o))
      <4>1. CASE o = y
        BY <2>6, <4>1
      <4>2. CASE o # y
        <5>1. Sorts(JobId(y), JobId(o))
          BY <2>3, <4>2
        <5>2. JobId(x) \in Words /\ JobId(y) \in Words /\ JobId(o) \in Words
          BY <2>4
        <5> QED BY <2>6, <5>1, <5>2, SortsIsTransitive
      <4> QED BY <4>1, <4>2
    <3> QED BY <1>4, <3>1 DEF HasOldest
  <2> QED BY <2>4, <2>5, <2>6, SortsIsTotal
<1> QED
  BY <1>8, <1>9

-----------------------------------------------------------------------------
(* What each action keeps.                                                  *)

\* A request that goes to another place keeps its numbers.
LEMMA GoesKeeps ==
  ASSUME UploadsAreWhole, NEW u \in Uploads, NEW place \in Places, Goes(u, place)
  PROVE  /\ upload' \in [Uploads -> [at : Places, count : Nat, ms : Nat]]
         /\ upload'[u].at = place
         /\ upload'[u].count = upload[u].count /\ upload'[u].ms = upload[u].ms
         /\ \A o \in Uploads \ {u} : upload'[o] = upload[o]
BY DEF Goes, UploadsAreWhole

\* An upload that comes finds announced what it finds announced.
LEMMA ComingKeeps ==
  ASSUME ListingInv, NEW u \in Uploads, upload[u].at = "idle",
         NEW place \in {"received", "refused"}, Goes(u, place),
         after' = [after EXCEPT ![u] = Announced], UNCHANGED <<next, clock, jobs>>
  PROVE  ListingInv'
<1> USE DEF ListingInv
<1>1. /\ upload' \in [Uploads -> [at : Places, count : Nat, ms : Nat]]
      /\ upload'[u].at = place
      /\ \A o \in Uploads \ {u} : upload'[o] = upload[o]
  <2>1. place \in Places
    BY DEF Places
  <2> QED BY <2>1, GoesKeeps
<1>2. Announced' = Announced
  BY <1>1 DEF Announced
<1>3. \A o \in Uploads : /\ HasCount(o)' => HasCount(o) /\ o # u
                         /\ HasTime(o)' => HasTime(o) /\ o # u
  BY <1>1 DEF HasCount, HasTime
<1>4. UploadsAreWhole'
  BY <1>1, <1>2 DEF UploadsAreWhole, Announced
<1>5. CountsAreTaken'
  BY <1>1, <1>3 DEF CountsAreTaken
<1>6. TimesArePast'
  BY <1>1, <1>3 DEF TimesArePast
<1>7. AfterIsPast'
  <2> SUFFICES ASSUME NEW v \in Uploads, NEW o \in after'[v]
               PROVE  /\ upload'[o].at = "announced"
                      /\ HasTime(v)' => upload'[o].ms <= upload'[v].ms
    BY DEF AfterIsPast
  <2>1. o \in Uploads /\ o # u /\ upload[o].at = "announced"
    BY DEF AfterIsPast, Announced, UploadsAreWhole
  <2>2. HasTime(v)' => o \in after[v] /\ v # u /\ HasTime(v)
    BY <1>3 DEF UploadsAreWhole
  <2> QED BY <1>1, <2>1, <2>2 DEF AfterIsPast
<1>8. EarlierGoFirst'
  <2>1. \A v \in Announced : v \in Uploads /\ v # u /\ upload'[v] = upload[v] /\ after'[v] = after[v]
    BY <1>1 DEF Announced, UploadsAreWhole
  <2> QED BY <1>2, <2>1 DEF EarlierGoFirst
<1> QED
  BY <1>4, <1>5, <1>6, <1>7, <1>8

LEMMA TakeCountKeeps ==
  ASSUME ListingInv, NEW u \in Uploads, TakeCount(u)
  PROVE  ListingInv'
<1> USE DEF ListingInv
<1>1. /\ upload[u].at = "received" /\ next' = next + 1 /\ next \in Nat
      /\ upload' = [upload EXCEPT ![u].at = "counted", ![u].count = next]
      /\ UNCHANGED <<clock, jobs, after>>
      /\ upload \in [Uploads -> [at : Places, count : Nat, ms : Nat]]
  BY DEF TakeCount, UploadsAreWhole
<1>2. /\ upload' \in [Uploads -> [at : Places, count : Nat, ms : Nat]]
      /\ upload'[u].at = "counted" /\ upload'[u].count = next
      /\ \A o \in Uploads \ {u} : upload'[o] = upload[o]
  BY <1>1 DEF Places
<1>3. Announced' = Announced
  BY <1>1, <1>2 DEF Announced
<1>4. \A o \in Uploads : /\ HasCount(o)' /\ o # u => HasCount(o)
                         /\ HasTime(o)' => HasTime(o) /\ o # u
  BY <1>2 DEF HasCount, HasTime
<1>5. UploadsAreWhole'
  BY <1>1, <1>2, <1>3 DEF UploadsAreWhole, Announced
<1>6. CountsAreTaken'
  <2>1. \A o \in Uploads : o # u /\ HasCount(o)' =>
          upload'[o].count = upload[o].count /\ upload[o].count \in Nat /\ upload[o].count < next
    BY <1>1, <1>2, <1>4 DEF CountsAreTaken
  <2>2. \A o \in Uploads : HasCount(o)' => upload'[o].count < next'
    BY <1>1, <1>2, <2>1
  <2>3. ASSUME NEW o \in Uploads, NEW v \in Uploads, o # v, HasCount(o)', HasCount(v)'
        PROVE  upload'[o].count # upload'[v].count
    <3>1. CASE o = u
      BY <1>1, <1>2, <2>1, <2>3, <3>1
    <3>2. CASE v = u
      BY <1>1, <1>2, <2>1, <2>3, <3>2
    <3>3. CASE o # u /\ v # u
      BY <1>2, <1>4, <2>3, <3>3 DEF CountsAreTaken
    <3> QED BY <3>1, <3>2, <3>3
  <2> QED BY <2>2, <2>3 DEF CountsAreTaken
<1>7. TimesArePast'
  BY <1>1, <1>2, <1>4 DEF TimesArePast
<1>8. AfterIsPast'
  <2> SUFFICES ASSUME NEW v \in Uploads, NEW o \in after[v]
               PROVE  /\ upload'[o].at = "announced"
                      /\ HasTime(v)' => upload'[o].ms <= upload'[v].ms
    BY <1>1 DEF AfterIsPast
  <2>1. o \in Uploads /\ o # u /\ upload[o].at = "announced"
    BY <1>1 DEF AfterIsPast, UploadsAreWhole
  <2> QED BY <1>2, <1>4, <2>1 DEF AfterIsPast
<1>9. EarlierGoFirst'
  <2>1. \A v \in Announced : v \in Uploads /\ v # u /\ upload'[v] = upload[v]
    BY <1>1, <1>2 DEF Announced
  <2> QED BY <1>1, <1>3, <2>1 DEF EarlierGoFirst
<1> QED
  BY <1>5, <1>6, <1>7, <1>8, <1>9

LEMMA ReadClockKeeps ==
  ASSUME ListingInv, NEW u \in Uploads, ReadClock(u)
  PROVE  ListingInv'
<1> USE DEF ListingInv
<1>1. /\ upload[u].at = "counted" /\ clock \in FirstMs..LastMs /\ clock \in Nat
      /\ upload' = [upload EXCEPT ![u].at = "named", ![u].ms = clock]
      /\ UNCHANGED <<next, clock, jobs, after>>
      /\ upload \in [Uploads -> [at : Places, count : Nat, ms : Nat]]
  BY ClockAssumption DEF ReadClock, UploadsAreWhole
<1>2. /\ upload' \in [Uploads -> [at : Places, count : Nat, ms : Nat]]
      /\ upload'[u].at = "named" /\ upload'[u].ms = clock
      /\ upload'[u].count = upload[u].count
      /\ \A o \in Uploads \ {u} : upload'[o] = upload[o]
  BY <1>1 DEF Places
<1>3. Announced' = Announced
  BY <1>1, <1>2 DEF Announced
<1>4. \A o \in Uploads : /\ HasCount(o)' => HasCount(o)
                         /\ HasTime(o)' /\ o # u => HasTime(o)
  BY <1>1, <1>2 DEF HasCount, HasTime
<1>5. UploadsAreWhole'
  BY <1>1, <1>2, <1>3 DEF UploadsAreWhole, Announced
<1>6. CountsAreTaken'
  <2>1. \A o \in Uploads : upload'[o].count = upload[o].count
    BY <1>2
  <2> QED BY <1>1, <1>4, <2>1 DEF CountsAreTaken
<1>7. TimesArePast'
  <2> SUFFICES ASSUME NEW v \in Uploads, HasTime(v)' PROVE upload'[v].ms \in FirstMs..clock
    BY <1>1 DEF TimesArePast
  <2>1. CASE v = u
    BY <1>1, <1>2, <2>1, ClockAssumption
  <2>2. CASE v # u
    BY <1>2, <1>4, <2>2 DEF TimesArePast
  <2> QED BY <2>1, <2>2
<1>8. AfterIsPast'
  <2> SUFFICES ASSUME NEW v \in Uploads, NEW o \in after[v]
               PROVE  /\ upload'[o].at = "announced"
                      /\ HasTime(v)' => upload'[o].ms <= upload'[v].ms
    BY <1>1 DEF AfterIsPast
  <2>1. o \in Uploads /\ o # u /\ upload[o].at = "announced" /\ upload'[o] = upload[o]
    BY <1>1, <1>2 DEF AfterIsPast, UploadsAreWhole
  <2>2. upload[o].ms <= clock
    BY <2>1, ClockAssumption DEF TimesArePast, HasTime
  <2>3. CASE v = u
    BY <1>2, <2>1, <2>2, <2>3
  <2>4. CASE v # u
    BY <1>2, <1>4, <2>1, <2>4 DEF AfterIsPast
  <2> QED BY <2>3, <2>4
<1>9. EarlierGoFirst'
  <2>1. \A v \in Announced : v \in Uploads /\ v # u /\ upload'[v] = upload[v]
    BY <1>1, <1>2 DEF Announced
  <2> QED BY <1>1, <1>3, <2>1 DEF EarlierGoFirst
<1> QED
  BY <1>5, <1>6, <1>7, <1>8, <1>9

LEMMA NotSettledKeeps ==
  ASSUME ListingInv, NEW u \in Uploads, NotSettled(u)
  PROVE  ListingInv'
<1> USE DEF ListingInv
<1>1. /\ upload[u].at = "named" /\ Goes(u, "ended")
      /\ UNCHANGED <<next, clock, jobs, after>>
  BY DEF NotSettled
<1>2. /\ upload' \in [Uploads -> [at : Places, count : Nat, ms : Nat]]
      /\ upload'[u].at = "ended"
      /\ \A o \in Uploads : upload'[o].count = upload[o].count /\ upload'[o].ms = upload[o].ms
      /\ \A o \in Uploads \ {u} : upload'[o] = upload[o]
  <2>1. "ended" \in Places
    BY DEF Places
  <2> QED BY <1>1, <2>1, GoesKeeps
<1>3. Announced' = Announced
  BY <1>1, <1>2 DEF Announced
<1>4. \A o \in Uploads : (HasCount(o)' => HasCount(o)) /\ (HasTime(o)' => HasTime(o))
  BY <1>1, <1>2 DEF HasCount, HasTime
<1>5. UploadsAreWhole'
  BY <1>1, <1>2, <1>3 DEF UploadsAreWhole, Announced
<1>6. CountsAreTaken'
  BY <1>1, <1>2, <1>4 DEF CountsAreTaken
<1>7. TimesArePast'
  BY <1>1, <1>2, <1>4 DEF TimesArePast
<1>8. AfterIsPast'
  <2> SUFFICES ASSUME NEW v \in Uploads, NEW o \in after[v]
               PROVE  /\ upload'[o].at = "announced"
                      /\ HasTime(v)' => upload'[o].ms <= upload'[v].ms
    BY <1>1 DEF AfterIsPast
  <2>1. o \in Uploads /\ o # u /\ upload[o].at = "announced"
    BY <1>1 DEF AfterIsPast, UploadsAreWhole
  <2> QED BY <1>2, <1>4, <2>1 DEF AfterIsPast
<1>9. EarlierGoFirst'
  <2>1. \A v \in Announced : v \in Uploads
    BY DEF Announced
  <2> QED BY <1>1, <1>2, <1>3, <2>1 DEF EarlierGoFirst
<1> QED
  BY <1>5, <1>6, <1>7, <1>8, <1>9

LEMMA TickKeeps ==
  ASSUME ListingInv, Tick
  PROVE  ListingInv'
<1> USE DEF ListingInv
<1>1. /\ clock' = clock + 1 /\ clock' \in FirstMs..LastMs /\ clock \in Nat
      /\ UNCHANGED <<next, jobs, after, upload>>
  BY ClockAssumption DEF Tick, UploadsAreWhole
<1>2. UploadsAreWhole'
  BY <1>1 DEF UploadsAreWhole, Announced
<1>3. TimesArePast'
  BY <1>1, ClockAssumption DEF TimesArePast, HasTime
<1> QED
  BY <1>1, <1>2, <1>3 DEF CountsAreTaken, AfterIsPast, EarlierGoFirst, HasCount, HasTime, Announced

\* What is forgotten sorts before all that is kept, and came no later.
LEMMA RememberKeeps ==
  ASSUME ListingInv, NEW w \in Uploads, Remember(w)
  PROVE  ListingInv'
<1> USE DEF ListingInv
<1>1. /\ upload[w].at = "named" /\ Goes(w, "announced")
      /\ jobs' = {o \in Kept(jobs) : JobId(o) # JobId(w)} \union {w}
      /\ UNCHANGED <<next, clock, after>>
  BY DEF Remember
<1>2. /\ upload' \in [Uploads -> [at : Places, count : Nat, ms : Nat]]
      /\ upload'[w].at = "announced"
      /\ \A o \in Uploads : upload'[o].count = upload[o].count /\ upload'[o].ms = upload[o].ms
      /\ \A o \in Uploads \ {w} : upload'[o] = upload[o]
  <2>1. "announced" \in Places
    BY DEF Places
  <2> QED BY <1>1, <2>1, GoesKeeps
<1>3. Announced' = Announced \union {w} /\ w \notin Announced
  BY <1>1, <1>2 DEF Announced
<1>4. \A o \in Uploads : (HasCount(o)' <=> HasCount(o)) /\ (HasTime(o)' <=> HasTime(o))
  BY <1>1, <1>2 DEF HasCount, HasTime
<1>5. \A o \in jobs : o \in Uploads /\ HasTime(o) /\ o # w
  BY <1>1 DEF UploadsAreWhole, Announced, HasTime
<1>6. Kept(jobs) \subseteq jobs
  BY DEF Kept
<1>7. jobs' = Kept(jobs) \union {w}
  <2>1. HasTime(w)
    BY <1>1 DEF HasTime
  <2>2. \A o \in jobs : JobId(o) # JobId(w)
    BY <1>5, <2>1, JobIdsDiffer
  <2> QED BY <1>1, <1>6, <2>2
<1>8. UploadsAreWhole'
  <2>1. IsFiniteSet(jobs')
    <3>1. IsFiniteSet(Kept(jobs))
      BY <1>6, FS_Subset DEF UploadsAreWhole
    <3> QED BY <1>7, <3>1, FS_AddElement
  <2>2. jobs' \subseteq Announced'
    BY <1>3, <1>6, <1>7 DEF UploadsAreWhole
  <2> QED BY <1>1, <1>2, <2>1, <2>2 DEF UploadsAreWhole
<1>9. CountsAreTaken'
  BY <1>1, <1>2, <1>4 DEF CountsAreTaken
<1>10. TimesArePast'
  BY <1>1, <1>2, <1>4 DEF TimesArePast
<1>11. AfterIsPast'
  <2> SUFFICES ASSUME NEW v \in Uploads, NEW o \in after[v]
               PROVE  /\ upload'[o].at = "announced"
                      /\ HasTime(v)' => upload'[o].ms <= upload'[v].ms
    BY <1>1 DEF AfterIsPast
  <2>1. o \in Uploads /\ o # w /\ upload[o].at = "announced"
    BY <1>1 DEF AfterIsPast, UploadsAreWhole
  <2> QED BY <1>2, <1>4, <2>1 DEF AfterIsPast
<1>12. EarlierGoFirst'
  <2> SUFFICES ASSUME NEW u \in Announced', NEW o \in after[u],
                      upload'[o].ms # upload'[u].ms, o \in jobs'
               PROVE  u \in jobs'
    BY <1>1 DEF EarlierGoFirst
  <2>1. CASE u = w
    BY <1>7, <2>1
  <2>2. CASE u # w
    <3>1. u \in Announced /\ u \in Uploads /\ HasTime(u)
      BY <1>3, <2>2 DEF Announced, HasTime
    <3>2. upload[o].at = "announced" /\ o \in Uploads /\ HasTime(o) /\ upload[o].ms <= upload[u].ms
      BY <3>1 DEF AfterIsPast, UploadsAreWhole, HasTime
    <3>3. o # w /\ o \in Announced /\ o \in Kept(jobs) /\ o \in jobs
      BY <1>1, <1>6, <1>7, <3>2 DEF Announced
    <3>4. upload[o].ms # upload[u].ms
      BY <1>2, <3>1, <3>2
    <3>5. u \in jobs
      BY <3>1, <3>3, <3>4 DEF EarlierGoFirst
    <3>6. SUFFICES ASSUME u \notin Kept(jobs) PROVE FALSE
      BY <1>7
    <3>7. u = Oldest(jobs) /\ o # u
      BY <3>3, <3>4, <3>5, <3>6 DEF Kept
    <3>8. HasOldest(jobs)
      <4>1. \A v \in jobs : JobId(v) \in Words
        BY <1>5, NamedNumbers
      <4>2. \A v, x \in jobs : v # x => JobId(v) # JobId(x)
        BY <1>5, JobIdsDiffer
      <4> QED BY <3>5, <4>1, <4>2, OldestExists DEF UploadsAreWhole
    <3>9. Sorts(JobId(u), JobId(o))
      BY <3>3, <3>7, <3>8 DEF Oldest, HasOldest
    <3>10. Sorts(JobId(o), JobId(u))
      <4>1. upload[o].ms < upload[u].ms
        BY <3>1, <3>2, <3>4 DEF UploadsAreWhole
      <4> QED BY <3>1, <3>2, <4>1, EarlierSortsFirst
    <3>11. JobId(u) \in Words /\ JobId(o) \in Words
      BY <3>1, <3>2, NamedNumbers
    <3> QED BY <3>9, <3>10, <3>11, SortsIsStrict
  <2> QED BY <2>1, <2>2
<1> QED
  BY <1>8, <1>9, <1>10, <1>11, <1>12

\* Jobs are listed, and forgotten, in the order they came in: identifiers that
\* begin with the time sort by it where all times have one number of digits,
\* and those of one time differ in the count, so that of the jobs remembered
\* one always sorts first (job_id, remember, listing).
THEOREM ListedInOrder == Spec => []ListingIsChronological
<1>1. Init => ListingInv
  BY InitListing
<1>2. ListingInv /\ [Next]_vars => ListingInv'
  <2> SUFFICES ASSUME ListingInv, [Next]_vars PROVE ListingInv'
    OBVIOUS
  <2>1. ASSUME NEW u \in Uploads, Charge(u) PROVE ListingInv'
    <3>1. PICK place \in {"received", "refused"} : Goes(u, place)
      BY <2>1 DEF Charge
    <3> QED BY <2>1, <3>1, ComingKeeps DEF Charge
  <2>2. ASSUME NEW u \in Uploads, ReceiveExport(u) PROVE ListingInv'
    BY <2>2, ComingKeeps DEF ReceiveExport
  <2>3. ASSUME NEW u \in Uploads, TakeCount(u) PROVE ListingInv'
    BY <2>3, TakeCountKeeps
  <2>4. ASSUME NEW u \in Uploads, ReadClock(u) PROVE ListingInv'
    BY <2>4, ReadClockKeeps
  <2>5. ASSUME NEW u \in Uploads, Remember(u) PROVE ListingInv'
    BY <2>5, RememberKeeps
  <2>6. ASSUME NEW u \in Uploads, NotSettled(u) PROVE ListingInv'
    BY <2>6, NotSettledKeeps
  <2>7. CASE Tick
    BY <2>7, TickKeeps
  <2>8. CASE UNCHANGED <<next, clock, upload, jobs, after>>
    BY <2>8 DEF ListingInv, UploadsAreWhole, CountsAreTaken, TimesArePast, AfterIsPast,
                EarlierGoFirst, HasCount, HasTime, Announced
  <2>9. CASE \E r \in Reads : ServeScene(r)
    BY <2>8, <2>9 DEF ServeScene
  <2>10. CASE UNCHANGED vars
    BY <2>8, <2>10 DEF vars
  <2> QED
    BY <2>1, <2>2, <2>3, <2>4, <2>5, <2>6, <2>7, <2>9, <2>10 DEF Next
<1>3. ListingInv => ListingIsChronological
  <2> SUFFICES ASSUME ListingInv, NEW u \in Announced, NEW o \in Announced,
                      o \in after[u], upload[o].ms # upload[u].ms
               PROVE  Sorts(JobId(o), JobId(u)) /\ (o \in jobs => u \in jobs)
    BY DEF ListingIsChronological
  <2>1. /\ u \in Uploads /\ o \in Uploads /\ HasTime(u) /\ HasTime(o)
        /\ upload[o].ms < upload[u].ms
    <3>1. u \in Uploads /\ o \in Uploads /\ HasTime(u) /\ HasTime(o)
      BY DEF HasTime, Announced
    <3>2. upload[o].ms \in Nat /\ upload[u].ms \in Nat
      BY <3>1 DEF ListingInv, UploadsAreWhole
    <3>3. upload[o].ms <= upload[u].ms
      BY <3>1 DEF ListingInv, AfterIsPast
    <3> QED BY <3>1, <3>2, <3>3
  <2>2. Sorts(JobId(o), JobId(u))
    BY <2>1, EarlierSortsFirst DEF ListingInv
  <2> QED
    BY <2>2 DEF ListingInv, EarlierGoFirst
<1> QED
  BY <1>1, <1>2, <1>3, PTL DEF Spec
=============================================================================
