------------------------- MODULE StepReadingProofs -------------------------
(***************************************************************************)
(* The table of instances, for any identifiers in any order, stated any    *)
(* number of times: of two instances of one identifier the later is found, *)
(* the vector is never much larger than what it holds, and each identifier *)
(* is counted once, but for one that is held in map and vector.            *)
(*                                                                         *)
(* And the reading that fills it, for any section: a section of nothing    *)
(* but instances comes to the same table in runs, however long, as read in *)
(* one go.  A run is cut where a statement ends, so what its reader does   *)
(* with a statement it does within the run, and what it does within the    *)
(* run does not depend on what follows (the lemmas about the beginning of  *)
(* a text).  The functions by which statements end, lists end and          *)
(* statements follow one another are recursive, each to a later position;  *)
(* that they satisfy their equations is shown for each of them in turn, as *)
(* a lemma cannot be about an operator it is given.                        *)
(***************************************************************************)
EXTENDS StepReading, FiniteSetTheorems, TLAPS

-----------------------------------------------------------------------------
(* The table of instances.                                                 *)

\* What is in the vector has a slot now: the count it was given one by has
\* not fallen since.  So an instance that goes in the map is not hidden by an
\* earlier one in the vector.
VectorHasSlots ==
    \A id \in Ids : InVector(id) # Nothing => HasSlot(id)

\* The count is of what is held, in the vector and in the map.
CountsBoth == count = Cardinality(HeldIn(dense)) + Cardinality(HeldIn(sparse))

\* The map holds no identifier that always has a slot.
MapIsFar == \A id \in DOMAIN sparse : id >= ALWAYS_DENSE_IDS

IInv ==
    /\ TableTypeOK
    /\ VectorHasSlots
    /\ LaterOneWins
    /\ VectorStaysSmall
    /\ CountsBoth
    /\ IsFiniteSet(DOMAIN sparse)
    /\ MapIsFar
    /\ HeldIn(dense) \subseteq Ids

-----------------------------------------------------------------------------
(* Putting an instance in the map or in the vector.                        *)

LEMMA PutFacts ==
  ASSUME NEW f, NEW id, NEW e
  PROVE  /\ DOMAIN Put(f, id, e) = DOMAIN f \union {id}
         /\ Put(f, id, e)[id] = e
         /\ \A x \in DOMAIN f : x # id => Put(f, id, e)[x] = f[x]
BY DEF Put

\* A vector that has the slot: it holds what it held, and nothing besides.
LEMMA GrownFacts ==
  ASSUME TableTypeOK, NEW id \in Ids
  PROVE  LET longer == IF length <= id THEN id + 1 ELSE length
         IN  /\ longer \in Nat /\ id \in 0..(longer - 1)
             /\ Grown(id) \in [0..(longer - 1) -> Held]
             /\ \A x \in 0..(longer - 1) : Grown(id)[x] = InVector(x)
<1> DEFINE longer == IF length <= id THEN id + 1 ELSE length
<1>1. id \in Nat /\ length \in Nat
  BY IdsAssumption DEF TableTypeOK
<1>2. longer \in Nat /\ id \in 0..(longer - 1)
  BY <1>1
<1>3. \A x \in 0..(longer - 1) : x \in Nat /\ (x < length => x \in 0..(length - 1))
  BY <1>1, <1>2
<1>4. \A x \in 0..(longer - 1) : InVector(x) \in Held
  BY <1>3 DEF InVector, TableTypeOK, Held
<1>5. Grown(id) = [x \in 0..(longer - 1) |-> InVector(x)]
  BY DEF Grown, InVector
<1> HIDE DEF longer
<1>6. /\ Grown(id) \in [0..(longer - 1) -> Held]
      /\ \A x \in 0..(longer - 1) : Grown(id)[x] = InVector(x)
  BY <1>4, <1>5
<1> QED
  BY <1>2, <1>6 DEF longer

\* The count never falls, and grows where the place was empty.
LEMMA CountFacts ==
  ASSUME TableTypeOK, NEW before
  PROVE  /\ Counted(before) \in Nat
         /\ count <= Counted(before)
         /\ before = Nothing => Counted(before) = count + 1
BY DEF Counted, TableTypeOK

LEMMA SlotsStay ==
  ASSUME TableTypeOK, count' \in Nat, count <= count', NEW id \in Ids, HasSlot(id)
  PROVE  HasSlot(id)'
<1>1. id \div 2 \in Nat /\ count \in Nat
  BY IdsAssumption DEF TableTypeOK
<1> QED
  BY <1>1 DEF HasSlot

LEMMA HeldAreFinite ==
  ASSUME TableTypeOK, IsFiniteSet(DOMAIN sparse)
  PROVE  IsFiniteSet(HeldIn(dense)) /\ IsFiniteSet(HeldIn(sparse))
<1>1. IsFiniteSet(0..(length - 1))
  <2>1. 0 \in Int /\ length - 1 \in Int
    BY DEF TableTypeOK
  <2> HIDE DEF TableTypeOK
  <2> QED
    BY <2>1, FS_Interval
<1>2. HeldIn(dense) \subseteq 0..(length - 1) /\ HeldIn(sparse) \subseteq DOMAIN sparse
  BY DEF HeldIn, TableTypeOK
<1> QED
  BY <1>1, <1>2, FS_Subset

\* An instance put where there was none makes one more, and in place of
\* another none.
LEMMA PutCounts ==
  ASSUME NEW held, IsFiniteSet(held), NEW id, NEW before,
         before = Nothing <=> id \notin held, count \in Nat
  PROVE  Counted(before) - count =
           Cardinality(held \union {id}) - Cardinality(held)
<1>1. Cardinality(held) \in Nat
  BY FS_CardinalityType
<1>2. CASE id \in held
  <2>1. held \union {id} = held
    BY <1>2
  <2> QED
    BY <1>1, <1>2, <2>1 DEF Counted
<1>3. CASE id \notin held
  <2>1. Cardinality(held \union {id}) = Cardinality(held) + 1
    BY <1>3, FS_AddElement
  <2> QED
    BY <1>1, <1>3, <2>1 DEF Counted
<1> QED
  BY <1>2, <1>3

\* What is stated last under an identifier, once it is put.
LEMMA LatestFacts ==
  ASSUME NEW id, NEW e, latest' = Put(latest, id, e)
  PROVE  /\ id \in DOMAIN latest' /\ latest'[id] = e
         /\ \A x : x # id => /\ x \in DOMAIN latest' <=> x \in DOMAIN latest
                             /\ x \in DOMAIN latest => latest'[x] = latest[x]
BY DEF Put

-----------------------------------------------------------------------------
LEMMA TableInitIsFine == TableInit => IInv
<1> SUFFICES ASSUME TableInit PROVE IInv
  OBVIOUS
<1>1. /\ dense = Empty /\ sparse = Empty /\ latest = Empty /\ length = 0 /\ count = 0
      /\ DOMAIN Empty = {}
  BY DEF TableInit, Empty
<1>2. \A id \in Ids : InVector(id) = Nothing /\ InMap(id) = Nothing
  BY <1>1, IdsAssumption DEF InVector, InMap
<1>3. TableTypeOK
  BY <1>1 DEF TableTypeOK, Empty
<1>4. VectorHasSlots /\ LaterOneWins /\ VectorStaysSmall
  BY <1>1, <1>2, AlwaysDenseAssumption DEF VectorHasSlots, LaterOneWins, VectorStaysSmall, get
<1>5. HeldIn(dense) = {} /\ HeldIn(sparse) = {} /\ IsFiniteSet(DOMAIN sparse)
  BY <1>1, FS_EmptySet DEF HeldIn
<1>6. CountsBoth
  BY <1>1, <1>5, FS_EmptySet DEF CountsBoth
<1>7. MapIsFar
  BY <1>1 DEF MapIsFar
<1> QED
  BY <1>3, <1>4, <1>5, <1>6, <1>7 DEF IInv

\* Where there is no slot for it, the instance goes in the map.
LEMMA InsertInMapKeeps ==
  ASSUME IInv, NEW id \in Ids, NEW e \in Instances, Insert(id, e), ~HasSlot(id)
  PROVE  IInv'
<1>1. /\ sparse' = Put(sparse, id, e) /\ count' = Counted(InMap(id))
      /\ latest' = Put(latest, id, e) /\ dense' = dense /\ length' = length
  BY DEF Insert
<1>2. count' \in Nat /\ count <= count' /\ TableTypeOK
  BY <1>1, CountFacts DEF IInv
<1>3. TableTypeOK'
  BY <1>1, <1>2, PutFacts DEF TableTypeOK, Put
<1>4. \A x : InVector(x)' = InVector(x)
  BY <1>1 DEF InVector
<1>5. VectorHasSlots'
  BY <1>2, <1>4, SlotsStay DEF IInv, VectorHasSlots
<1>6. /\ InMap(id)' = e
      /\ \A x \in Ids : x # id => InMap(x)' = InMap(x)
  <2>1. /\ DOMAIN sparse' = DOMAIN sparse \union {id}
        /\ sparse'[id] = e
        /\ \A x \in DOMAIN sparse : x # id => sparse'[x] = sparse[x]
    BY <1>1 DEF Put
  <2>2. InMap(id)' = e
    BY <2>1 DEF InMap
  <2>3. ASSUME NEW x \in Ids, x # id PROVE InMap(x)' = InMap(x)
    <3>1. x \in DOMAIN sparse' <=> x \in DOMAIN sparse
      BY <2>1, <2>3
    <3>2. CASE x \in DOMAIN sparse
      BY <2>1, <2>3, <3>1, <3>2 DEF InMap
    <3>3. CASE x \notin DOMAIN sparse
      BY <3>1, <3>3 DEF InMap
    <3> QED
      BY <3>2, <3>3
  <2> QED
    BY <2>2, <2>3
<1>7. InVector(id) = Nothing
  BY DEF IInv, VectorHasSlots
<1>8. LaterOneWins'
  <2> SUFFICES ASSUME NEW x \in Ids
               PROVE  get(x)' = IF x \in DOMAIN latest' THEN latest'[x] ELSE Nothing
    BY DEF LaterOneWins
  <2>1. get(x) = IF x \in DOMAIN latest THEN latest[x] ELSE Nothing
    BY DEF IInv, LaterOneWins
  <2>2. CASE x = id
    <3>1. get(x)' = e
      BY <1>4, <1>6, <1>7, <2>2 DEF get
    <3> QED
      BY <1>1, <2>2, <3>1, LatestFacts
  <2>3. CASE x # id
    <3>1. get(x)' = get(x)
      BY <1>4, <1>6, <2>3 DEF get
    <3>2. /\ x \in DOMAIN latest' <=> x \in DOMAIN latest
          /\ x \in DOMAIN latest => latest'[x] = latest[x]
      BY <1>1, <2>3 DEF Put
    <3> QED
      BY <2>1, <3>1, <3>2
  <2> QED
    BY <2>2, <2>3
<1>9. VectorStaysSmall'
  BY <1>1, <1>2, AlwaysDenseAssumption DEF IInv, VectorStaysSmall, TableTypeOK
<1>10. IsFiniteSet(DOMAIN sparse')
  <2>1. DOMAIN sparse' = DOMAIN sparse \union {id}
    BY <1>1, PutFacts
  <2> QED
    BY <2>1, FS_AddElement DEF IInv
<1>11. CountsBoth'
  <2>1. HeldIn(sparse) = DOMAIN sparse /\ HeldIn(sparse') = DOMAIN sparse'
    BY <1>2, <1>3, NothingAssumption DEF TableTypeOK, HeldIn
  <2>2. HeldIn(sparse') = HeldIn(sparse) \union {id}
    BY <1>1, <2>1 DEF Put
  <2>3. InMap(id) = Nothing <=> id \notin HeldIn(sparse)
    BY DEF InMap, HeldIn
  <2>4. IsFiniteSet(HeldIn(sparse)) /\ IsFiniteSet(HeldIn(dense)) /\ count \in Nat
    BY <1>2, HeldAreFinite DEF IInv, TableTypeOK
  <2>5. count' - count = Cardinality(HeldIn(sparse')) - Cardinality(HeldIn(sparse))
    BY <1>1, <2>2, <2>3, <2>4, PutCounts
  <2>6. IsFiniteSet(HeldIn(sparse'))
    BY <2>2, <2>4, FS_AddElement
  <2>7. /\ Cardinality(HeldIn(sparse)) \in Nat /\ Cardinality(HeldIn(sparse')) \in Nat
        /\ Cardinality(HeldIn(dense)) \in Nat
    BY <2>4, <2>6, FS_CardinalityType
  <2>8. HeldIn(dense)' = HeldIn(dense) /\ HeldIn(sparse)' = HeldIn(sparse')
    BY <1>1 DEF HeldIn
  <2> QED
    BY <1>2, <2>4, <2>5, <2>7, <2>8 DEF IInv, CountsBoth
<1>12. MapIsFar'
  <2>1. id >= ALWAYS_DENSE_IDS
    BY IdsAssumption, AlwaysDenseAssumption DEF HasSlot
  <2>2. DOMAIN sparse' = DOMAIN sparse \union {id}
    BY <1>1, PutFacts
  <2> QED
    BY <2>1, <2>2 DEF IInv, MapIsFar
<1>13. HeldIn(dense)' \subseteq Ids
  BY <1>1 DEF IInv, HeldIn
<1> QED
  BY <1>3, <1>5, <1>8, <1>9, <1>10, <1>11, <1>12, <1>13 DEF IInv

\* Where there is one, in the vector, which grows up to it.
LEMMA InsertInVectorKeeps ==
  ASSUME IInv, NEW id \in Ids, NEW e \in Instances, Insert(id, e), HasSlot(id)
  PROVE  IInv'
<1> DEFINE longer == IF length <= id THEN id + 1 ELSE length
<1>1. /\ dense' = [Grown(id) EXCEPT ![id] = e] /\ length' = longer
      /\ count' = Counted(InVector(id)) /\ latest' = Put(latest, id, e)
      /\ sparse' = sparse
  BY DEF Insert
<1>2. count' \in Nat /\ count <= count' /\ TableTypeOK
  BY <1>1, CountFacts DEF IInv
<1>3. /\ longer \in Nat /\ id \in 0..(longer - 1)
      /\ Grown(id) \in [0..(longer - 1) -> Held]
      /\ \A x \in 0..(longer - 1) : Grown(id)[x] = InVector(x)
  BY <1>2, GrownFacts
<1>4. id \in Nat /\ length \in Nat /\ count \in Nat /\ e # Nothing /\ e \in Held
  BY <1>2, IdsAssumption, NothingAssumption DEF TableTypeOK, Held
<1>5. length <= longer
  BY <1>4
<1> HIDE DEF longer
<1>6. /\ dense' \in [0..(longer - 1) -> Held]
      /\ dense'[id] = e
      /\ \A x \in 0..(longer - 1) : x # id => dense'[x] = InVector(x)
  BY <1>1, <1>3, <1>4
<1>7. TableTypeOK'
  BY <1>1, <1>2, <1>3, <1>6, PutFacts DEF TableTypeOK, Put, Held
<1>8. InVector(id)' = e
  BY <1>1, <1>3, <1>6 DEF InVector
<1>9. ASSUME NEW x \in Ids, x # id PROVE InVector(x)' = InVector(x)
  <2>1. x \in Nat
    BY IdsAssumption
  <2>2. CASE x < longer
    BY <1>1, <1>3, <1>6, <1>9, <2>1, <2>2 DEF InVector
  <2>3. CASE ~(x < longer)
    BY <1>1, <1>3, <1>4, <1>5, <2>1, <2>3 DEF InVector
  <2> QED
    BY <2>2, <2>3
<1>10. \A x : InMap(x)' = InMap(x)
  BY <1>1 DEF InMap
<1>11. VectorHasSlots'
  BY <1>2, <1>9, SlotsStay DEF IInv, VectorHasSlots
<1>12. LaterOneWins'
  <2> SUFFICES ASSUME NEW x \in Ids
               PROVE  get(x)' = IF x \in DOMAIN latest' THEN latest'[x] ELSE Nothing
    BY DEF LaterOneWins
  <2>1. get(x) = IF x \in DOMAIN latest THEN latest[x] ELSE Nothing
    BY DEF IInv, LaterOneWins
  <2>2. CASE x = id
    <3>1. get(x)' = e
      BY <1>4, <1>8, <2>2 DEF get
    <3> QED
      BY <1>1, <2>2, <3>1, LatestFacts
  <2>3. CASE x # id
    <3>1. get(x)' = get(x)
      BY <1>9, <1>10, <2>3 DEF get
    <3>2. /\ x \in DOMAIN latest' <=> x \in DOMAIN latest
          /\ x \in DOMAIN latest => latest'[x] = latest[x]
      BY <1>1, <2>3 DEF Put
    <3> QED
      BY <2>1, <3>1, <3>2
  <2> QED
    BY <2>2, <2>3
<1>13. VectorStaysSmall'
  <2>1. CASE length <= id
    <3>1. InVector(id) = Nothing
      BY <1>4, <2>1 DEF InVector
    <3>2. count' = count + 1 /\ length' = id + 1
      BY <1>1, <1>2, <2>1, <3>1, CountFacts DEF longer
    <3>3. id < ALWAYS_DENSE_IDS \/ id \div 2 <= count
      BY DEF HasSlot
    <3>4. id \div 2 <= count => id + 1 <= 2 * (count + 1)
      BY <1>4
    <3> QED
      BY <1>4, <3>2, <3>3, <3>4, AlwaysDenseAssumption DEF VectorStaysSmall
  <2>2. CASE ~(length <= id)
    BY <1>1, <1>2, <1>4, <2>2, AlwaysDenseAssumption DEF IInv, VectorStaysSmall, longer
  <2> QED
    BY <2>1, <2>2
<1>14. /\ HeldIn(dense') = HeldIn(dense) \union {id}
       /\ \A x \in 0..(longer - 1) : InVector(x) # Nothing <=> x \in HeldIn(dense)
  <2>1. HeldIn(dense) = {x \in 0..(length - 1) : InVector(x) # Nothing}
    BY <1>2, <1>4 DEF TableTypeOK, HeldIn, InVector
  <2>2. \A x \in 0..(longer - 1) : InVector(x) # Nothing <=> x \in HeldIn(dense)
    BY <1>3, <1>4, <2>1 DEF InVector
  <2>3. \A x \in HeldIn(dense) : x \in 0..(longer - 1)
    BY <1>3, <1>4, <1>5, <2>1
  <2>4. HeldIn(dense') = HeldIn(dense) \union {id}
    BY <1>3, <1>4, <1>6, <2>2, <2>3 DEF HeldIn
  <2> QED
    BY <2>2, <2>4
<1>15. CountsBoth'
  <2>4. HeldIn(dense') = HeldIn(dense) \union {id}
    BY <1>14
  <2>5. InVector(id) = Nothing <=> id \notin HeldIn(dense)
    BY <1>3, <1>14
  <2>6. IsFiniteSet(HeldIn(sparse)) /\ IsFiniteSet(HeldIn(dense))
    BY <1>2, HeldAreFinite DEF IInv
  <2>7. count' - count = Cardinality(HeldIn(dense')) - Cardinality(HeldIn(dense))
    <3>1. Counted(InVector(id)) - count
            = Cardinality(HeldIn(dense) \union {id}) - Cardinality(HeldIn(dense))
      BY <1>4, <2>5, <2>6, PutCounts
    <3> QED
      BY <1>1, <2>4, <3>1
  <2>8. IsFiniteSet(HeldIn(dense'))
    BY <2>4, <2>6, FS_AddElement
  <2>9. /\ Cardinality(HeldIn(sparse)) \in Nat /\ Cardinality(HeldIn(dense')) \in Nat
        /\ Cardinality(HeldIn(dense)) \in Nat
    BY <2>6, <2>8, FS_CardinalityType
  <2>10. HeldIn(dense)' = HeldIn(dense') /\ HeldIn(sparse)' = HeldIn(sparse)
    BY <1>1 DEF HeldIn
  <2>11. count = Cardinality(HeldIn(dense)) + Cardinality(HeldIn(sparse))
    BY DEF IInv, CountsBoth
  <2>12. count' = Cardinality(HeldIn(dense')) + Cardinality(HeldIn(sparse))
    <3> DEFINE a == Cardinality(HeldIn(dense'))
               b == Cardinality(HeldIn(dense))
               c == Cardinality(HeldIn(sparse))
               n == count'
    <3>1. n \in Nat /\ count \in Nat /\ a \in Nat /\ b \in Nat /\ c \in Nat
      BY <1>2, <1>4, <2>9
    <3>2. n - count = a - b
      BY <2>7
    <3>3. count = b + c
      BY <2>11
    <3>4. n = a + c
      <4> HIDE DEF a, b, c, n
      <4> QED
        BY <3>1, <3>2, <3>3
    <3> QED
      BY <3>4
  <2> QED
    BY <2>10, <2>12 DEF CountsBoth
<1>16. IsFiniteSet(DOMAIN sparse') /\ MapIsFar'
  BY <1>1 DEF IInv, MapIsFar
<1>17. HeldIn(dense)' \subseteq Ids
  <2>1. HeldIn(dense)' = HeldIn(dense')
    BY DEF HeldIn
  <2> QED
    BY <1>14, <2>1 DEF IInv
<1> QED
  BY <1>7, <1>11, <1>12, <1>13, <1>15, <1>16, <1>17 DEF IInv

LEMMA TableNextKeeps == IInv /\ [TableNext]_tableVars => IInv'
<1> SUFFICES ASSUME IInv, [TableNext]_tableVars PROVE IInv'
  OBVIOUS
<1>1. CASE TableNext
  BY <1>1, InsertInMapKeeps, InsertInVectorKeeps DEF TableNext
<1>2. CASE UNCHANGED tableVars
  BY <1>2 DEF tableVars, IInv, TableTypeOK, VectorHasSlots, LaterOneWins, VectorStaysSmall,
     InVector, InMap, get, HasSlot, CountsBoth, HeldIn, MapIsFar
<1> QED
  BY <1>1, <1>2

LEMMA TableIsFine == TableSpec => []IInv
BY TableInitIsFine, TableNextKeeps, PTL DEF TableSpec

\* Every variable of the table keeps to its values.
THEOREM TableTypeCorrect == TableSpec => []TableTypeOK
<1>1. IInv => TableTypeOK
  BY DEF IInv
<1> QED
  BY <1>1, TableIsFine, PTL

\* Of two instances of one identifier the later is found, wherever either
\* went (Entities::insert, Entities::get).
THEOREM LaterInstanceIsFound == TableSpec => []LaterOneWins
<1>1. IInv => LaterOneWins
  BY DEF IInv
<1> QED
  BY <1>1, TableIsFine, PTL

\* No gap in the identifiers makes the vector more than twice as large as the
\* table (Entities::slot).
THEOREM VectorIsSmall == TableSpec => []VectorStaysSmall
<1>1. IInv => VectorStaysSmall
  BY DEF IInv
<1> QED
  BY <1>1, TableIsFine, PTL

\* What is stated is held, in the vector or in the map, and nothing else is.
LEMMA StatedIsHeld ==
  ASSUME IInv
  PROVE  DOMAIN latest = HeldIn(dense) \union HeldIn(sparse)
<1>1. /\ DOMAIN latest \subseteq Ids /\ HeldIn(dense) \subseteq Ids /\ HeldIn(sparse) \subseteq Ids
      /\ latest \in [DOMAIN latest -> Instances]
  BY DEF IInv, TableTypeOK, HeldIn
<1>2. ASSUME NEW id \in Ids PROVE id \in HeldIn(dense) <=> InVector(id) # Nothing
  <2>1. id \in Nat /\ length \in Nat /\ DOMAIN dense = 0..(length - 1)
    BY IdsAssumption DEF IInv, TableTypeOK
  <2>2. id \in DOMAIN dense <=> id < length
    BY <2>1
  <2> QED
    BY <2>2 DEF HeldIn, InVector
<1>3. ASSUME NEW id \in Ids PROVE id \in HeldIn(sparse) <=> InMap(id) # Nothing
  BY DEF HeldIn, InMap
<1>4. ASSUME NEW id \in Ids PROVE id \in DOMAIN latest <=> get(id) # Nothing
  BY <1>1, NothingAssumption DEF IInv, LaterOneWins
<1>5. ASSUME NEW id \in Ids
      PROVE  id \in DOMAIN latest <=> id \in HeldIn(dense) \/ id \in HeldIn(sparse)
  BY <1>2, <1>3, <1>4 DEF get
<1> QED
  BY <1>1, <1>5

LEMMA CountedOnceOrInBoth == IInv => CountsEachOnce
<1> SUFFICES ASSUME IInv PROVE CountsEachOnce
  OBVIOUS
<1> DEFINE D == HeldIn(dense)
           S == HeldIn(sparse)
<1>1. IsFiniteSet(D) /\ IsFiniteSet(S)
  BY HeldAreFinite DEF IInv
<1>2. Cardinality(D \union S) = Cardinality(D) + Cardinality(S) - Cardinality(D \intersect S)
  BY <1>1, FS_Union
<1>3. IsFiniteSet(D \intersect S)
  BY <1>1, FS_Intersection
<1>4. Cardinality(D) \in Nat /\ Cardinality(S) \in Nat /\ Cardinality(D \intersect S) \in Nat
  BY <1>1, <1>3, FS_CardinalityType
<1>5. DOMAIN latest = D \union S /\ InBoth = D \intersect S
  BY StatedIsHeld DEF InBoth
<1>6. count = Cardinality(D) + Cardinality(S)
  BY DEF IInv, CountsBoth
<1>7. \A id \in InBoth : id >= ALWAYS_DENSE_IDS
  BY DEF InBoth, HeldIn, IInv, MapIsFar
<1>8. count = Cardinality(DOMAIN latest) + Cardinality(InBoth)
  <2> HIDE DEF D, S
  <2> QED
    BY <1>2, <1>4, <1>5, <1>6
<1> QED
  BY <1>7, <1>8 DEF CountsEachOnce

\* Each identifier is counted once, however often it is stated, but for one
\* that was in the map first and has a slot since, which is counted twice
\* (Entities::insert, Entities::len).
THEOREM EachIsCountedOnce == TableSpec => []CountsEachOnce
BY TableIsFine, CountedOnceOrInBoth, PTL

-----------------------------------------------------------------------------
(* Induction over positions.                                               *)

\* A set of naturals that is not empty has a least element.
LEMMA LeastNatural ==
  ASSUME NEW S, S \subseteq Nat, S # {}
  PROVE  \E n \in S : \A m \in S : n <= m
<1>1. \E x \in S : \A y \in S : ~(<<y, x>> \in OpToRel(<, Nat))
  BY NatLessThanWellFounded, WFMin
<1>2. PICK x \in S : \A y \in S : ~(<<y, x>> \in OpToRel(<, Nat))
  BY <1>1
<1>3. ASSUME NEW y \in S PROVE x <= y
  <2>1. ~(y < x)
    BY <1>2 DEF OpToRel
  <2> QED BY <2>1
<1> QED
  BY <1>3

\* What holds of a number where it holds of all smaller ones holds of all.
LEMMA Induction ==
  ASSUME NEW S, \A n \in Nat : (\A m \in 0..(n - 1) : m \in S) => n \in S
  PROVE  Nat \subseteq S
<1> SUFFICES ASSUME Nat \ S # {} PROVE FALSE
  OBVIOUS
<1>1. PICK n \in Nat \ S : \A m \in Nat \ S : n <= m
  BY LeastNatural
<1>2. \A m \in 0..(n - 1) : m \in S
  BY <1>1
<1> QED
  BY <1>1, <1>2

-----------------------------------------------------------------------------
(* Positions in a text.                                                    *)

Text == Seq(STRING)

LEMMA MinIs ==
  ASSUME NEW S \in SUBSET Nat, S # {}
  PROVE  Min(S) \in S /\ \A y \in S : Min(S) <= y
<1>1. PICK x \in S : \A y \in S : x <= y
  BY LeastNatural
<1> QED
  BY <1>1 DEF Min

\* A text and its end.
LEMMA EndIs ==
  ASSUME NEW t \in Text
  PROVE  Len(t) \in Nat /\ End(t) \in Nat /\ End(t) = Len(t) + 1
BY DEF Text, End

\* The first position found is found, and nothing before it is.
LEMMA FirstOfIs ==
  ASSUME NEW t \in Text, NEW i \in Nat, NEW S,
         \A k \in S : k \in i..Len(t)
  PROVE  /\ FirstOf(S, t) \in Nat
         /\ i <= End(t) => FirstOf(S, t) \in i..End(t)
         /\ FirstOf(S, t) <= Len(t) => FirstOf(S, t) \in S
         /\ \A j \in S : FirstOf(S, t) <= j
<1>1. Len(t) \in Nat /\ End(t) = Len(t) + 1
  BY EndIs
<1>2. CASE S = {}
  BY <1>1, <1>2 DEF FirstOf
<1>3. CASE S # {}
  <2>1. S \in SUBSET Nat
    BY <1>1
  <2> DEFINE m == Min(S)
  <2>2. m \in S /\ \A y \in S : m <= y
    BY <1>3, <2>1, MinIs
  <2>3. FirstOf(S, t) = m
    BY <1>3 DEF FirstOf
  <2> HIDE DEF m
  <2>4. m \in i..Len(t)
    BY <2>2
  <2>5. m \in Nat /\ m \in i..End(t)
    BY <1>1, <2>4
  <2> QED BY <2>2, <2>3, <2>5
<1> QED
  BY <1>2, <1>3

\* Where whitespace ends, and what is before that is whitespace.
LEMMA SkipIs ==
  ASSUME NEW t \in Text, NEW i \in Nat, i > 0
  PROVE  LET k == skip_whitespace(t, i)
         IN  /\ k \in Nat
             /\ i <= End(t) => k \in i..End(t)
             /\ k <= Len(t) => k >= i /\ t[k] # "blank"
             /\ \A j \in i..Len(t) : j < k => t[j] = "blank"
<1> DEFINE S == {k \in i..Len(t) : t[k] # "blank"}
           k == FirstOf(S, t)
<1>0. Len(t) \in Nat
  BY EndIs
<1>1. \A j \in S : j \in i..Len(t) /\ t[j] # "blank"
  OBVIOUS
<1>2. /\ k \in Nat
      /\ i <= End(t) => k \in i..End(t)
      /\ k <= Len(t) => k \in S
      /\ \A j \in S : k <= j
  <2> HIDE DEF S
  <2> QED BY <1>1, FirstOfIs
<1>3. skip_whitespace(t, i) = k
  BY DEF skip_whitespace
<1> HIDE DEF k
<1>4. k <= Len(t) => k >= i /\ t[k] # "blank"
  BY <1>0, <1>1, <1>2
<1>5. ASSUME NEW j \in i..Len(t), j < k PROVE t[j] = "blank"
  <2>1. j \notin S
    <3> HIDE DEF S
    <3> QED BY <1>0, <1>2, <1>5
  <2> QED BY <2>1
<1> QED
  BY <1>2, <1>3, <1>4, <1>5

\* It is where that and nothing else is.
LEMMA SkipStopsAt ==
  ASSUME NEW t \in Text, NEW i \in Nat, i > 0, NEW k \in i..End(t),
         k <= Len(t) => t[k] # "blank",
         \A j \in i..(k - 1) : t[j] = "blank"
  PROVE  skip_whitespace(t, i) = k
<1> DEFINE s == skip_whitespace(t, i)
<1>1. Len(t) \in Nat /\ End(t) = Len(t) + 1
  BY EndIs
<1>2. /\ s \in i..End(t)
      /\ s <= Len(t) => t[s] # "blank"
      /\ \A j \in i..Len(t) : j < s => t[j] = "blank"
  <2>1. i <= End(t)
    BY <1>1
  <2> QED BY <2>1, SkipIs
<1> HIDE DEF s
<1>3. ~(s < k)
  <2> SUFFICES ASSUME s < k PROVE FALSE
    OBVIOUS
  <2>1. s \in i..(k - 1) /\ s <= Len(t)
    BY <1>1, <1>2
  <2> QED BY <1>2, <2>1
<1>4. ~(k < s)
  <2> SUFFICES ASSUME k < s PROVE FALSE
    OBVIOUS
  <2>1. k \in i..Len(t)
    BY <1>1, <1>2
  <2> QED BY <1>1, <1>2, <2>1
<1> QED
  BY <1>1, <1>2, <1>3, <1>4 DEF s

LEMMA ReadTextIs ==
  ASSUME NEW t \in Text, NEW i \in 1..Len(t)
  PROVE  read_text(t, i) \in (i + 1)..End(t)
<1> DEFINE S == {k \in (i + 1)..Len(t) : t[k] = "quote"}
           f == FirstOf(S, t)
<1>1. Len(t) \in Nat /\ End(t) = Len(t) + 1
  BY EndIs
<1>2. i + 1 \in Nat /\ (\A j \in S : j \in (i + 1)..Len(t)) /\ i + 1 <= End(t)
  BY <1>1
<1>3. f \in (i + 1)..End(t)
  <2> HIDE DEF S
  <2> QED BY <1>2, FirstOfIs
<1> HIDE DEF f
<1> QED
  BY <1>1, <1>3 DEF read_text, f, Smaller

-----------------------------------------------------------------------------
(* The beginning of a text, as the reader of a run has it.                 *)

\* p is t up to before e.
Begins(p, t, e) ==
    /\ p \in Text /\ t \in Text /\ e \in 1..End(t)
    /\ Len(p) = e - 1
    /\ \A j \in 1..(e - 1) : p[j] = t[j]

LEMMA RunTextBegins ==
  ASSUME NEW t \in Text, NEW e \in 1..End(t)
  PROVE  Begins(SubSeq(t, 1, e - 1), t, e)
<1>1. Len(t) \in Nat /\ End(t) = Len(t) + 1
  BY EndIs
<1>2. SubSeq(t, 1, e - 1) \in Text /\ Len(SubSeq(t, 1, e - 1)) = e - 1
  BY <1>1 DEF Text
<1>3. \A j \in 1..(e - 1) : SubSeq(t, 1, e - 1)[j] = t[j]
  BY <1>1 DEF Text
<1> QED
  BY <1>2, <1>3 DEF Begins

LEMMA BeginsEnds ==
  ASSUME NEW p, NEW t, NEW e, Begins(p, t, e)
  PROVE  /\ p \in Text /\ t \in Text
         /\ Len(t) \in Nat /\ End(t) = Len(t) + 1
         /\ e \in 1..End(t) /\ Len(p) = e - 1 /\ End(p) = e
         /\ \A j \in 1..(e - 1) : Symbol(p, j) = Symbol(t, j)
         /\ \A j \in Nat : j >= e => Symbol(p, j) = "end"
<1>1. p \in Text /\ t \in Text /\ e \in 1..End(t) /\ Len(p) = e - 1
      /\ \A j \in 1..(e - 1) : p[j] = t[j]
  BY DEF Begins
<1>2. Len(t) \in Nat /\ End(t) = Len(t) + 1
  BY <1>1, EndIs
<1>3. End(p) = e
  BY <1>1, <1>2, EndIs
<1>4. \A j \in 1..(e - 1) : Symbol(p, j) = Symbol(t, j)
  BY <1>1, <1>2 DEF Symbol
<1>5. \A j \in Nat : j >= e => Symbol(p, j) = "end"
  BY <1>1, <1>2 DEF Symbol
<1> QED
  BY <1>1, <1>2, <1>3, <1>4, <1>5

\* Whitespace ends where it does, or with the beginning.
LEMMA SkipInBeginning ==
  ASSUME NEW p, NEW t, NEW e, Begins(p, t, e), NEW i \in 1..e
  PROVE  skip_whitespace(p, i) = Smaller(e, skip_whitespace(t, i))
<1> DEFINE k == skip_whitespace(t, i)
           m == Smaller(e, k)
<1>1. /\ p \in Text /\ t \in Text
      /\ Len(t) \in Nat /\ End(t) = Len(t) + 1
      /\ e \in 1..End(t) /\ Len(p) = e - 1 /\ End(p) = e
  BY BeginsEnds
<1>2. \A j \in 1..(e - 1) : p[j] = t[j]
  BY DEF Begins
<1>3. i \in Nat /\ i > 0 /\ i <= End(t)
  BY <1>1
<1>4. /\ k \in i..End(t)
      /\ k <= Len(t) => t[k] # "blank"
      /\ \A j \in i..Len(t) : j < k => t[j] = "blank"
  BY <1>1, <1>3, SkipIs
<1> HIDE DEF k
<1>5. m \in i..End(p) /\ m <= k /\ m <= e
  BY <1>1, <1>4 DEF Smaller
<1>6. m <= Len(p) => p[m] # "blank"
  BY <1>1, <1>2, <1>3, <1>4 DEF Smaller
<1> HIDE DEF m
<1>7. ASSUME NEW j \in i..(m - 1) PROVE p[j] = "blank"
  <2>1. j \in i..Len(t) /\ j < k /\ j \in 1..(e - 1)
    BY <1>1, <1>3, <1>4, <1>5
  <2> QED BY <1>2, <1>4, <2>1
<1>8. skip_whitespace(p, i) = m
  BY <1>1, <1>3, <1>5, <1>6, <1>7, SkipStopsAt
<1> QED
  BY <1>8 DEF m, k

\* A string that ends within the beginning ends there.
LEMMA ReadTextInBeginning ==
  ASSUME NEW p, NEW t, NEW e, Begins(p, t, e), NEW i \in 1..(e - 1),
         read_text(t, i) <= e
  PROVE  read_text(p, i) = read_text(t, i)
<1> DEFINE S == {k \in (i + 1)..Len(t) : t[k] = "quote"}
           P == {k \in (i + 1)..Len(p) : p[k] = "quote"}
           f == FirstOf(S, t)
           g == FirstOf(P, p)
<1>1. /\ p \in Text /\ t \in Text
      /\ Len(t) \in Nat /\ End(t) = Len(t) + 1
      /\ e \in 1..End(t) /\ Len(p) = e - 1 /\ End(p) = e
  BY BeginsEnds
<1>2. \A j \in 1..(e - 1) : p[j] = t[j]
  BY DEF Begins
<1>3. /\ i + 1 \in Nat /\ (\A j \in S : j \in (i + 1)..Len(t)) /\ i + 1 <= End(t)
      /\ (\A j \in P : j \in (i + 1)..Len(p)) /\ i + 1 <= End(p)
  BY <1>1
<1>4. \A k \in 1..(e - 1) : k \in S <=> k \in P
  BY <1>1, <1>2
<1>0. \A k \in P : k \in 1..(e - 1)
  BY <1>1
<1>5. /\ f \in (i + 1)..End(t) /\ (f <= Len(t) => f \in S) /\ \A j \in S : f <= j
      /\ g \in (i + 1)..End(p) /\ (g <= Len(p) => g \in P) /\ \A j \in P : g <= j
  <2> HIDE DEF S, P
  <2> QED BY <1>1, <1>3, FirstOfIs
<1>6. read_text(t, i) = Smaller(End(t), f + 1) /\ read_text(p, i) = Smaller(End(p), g + 1)
  BY DEF read_text
<1> HIDE DEF f, g, S, P
<1>7. CASE f < e
  <2>1. f \in P
    BY <1>1, <1>4, <1>5, <1>7
  <2>2. g <= f /\ g \in P
    BY <1>1, <1>5, <1>7, <2>1
  <2>3. g \in S
    BY <1>0, <1>4, <2>2
  <2>4. f = g
    BY <1>1, <1>5, <2>2, <2>3
  <2> QED BY <1>1, <1>5, <1>6, <1>7, <2>4 DEF Smaller
<1>8. CASE ~(f < e)
  <2>1. e = End(t)
    BY <1>1, <1>5, <1>6, <1>8 DEF Smaller
  <2>2. g = e
    <3>1. ~(g < e)
      <4> SUFFICES ASSUME g < e PROVE FALSE
        OBVIOUS
      <4>1. g \in P
        BY <1>1, <1>5
      <4>2. g \in S
        BY <1>0, <1>4, <4>1
      <4> QED BY <1>1, <1>5, <1>8, <4>2
    <3> QED BY <1>1, <1>5, <3>1
  <2> QED BY <1>1, <1>5, <1>6, <1>8, <2>1, <2>2 DEF Smaller
<1> QED
  BY <1>1, <1>5, <1>7, <1>8

-----------------------------------------------------------------------------
(* Where statements end.                                                   *)

\* The recursion of StatementEnds goes through.
EndsAt(t, past, k) ==
    CASE Symbol(t, k) = "end"       -> [found |-> FALSE, at |-> k]
      [] Symbol(t, k) = "semicolon" -> [found |-> TRUE, at |-> k + 1]
      [] Symbol(t, k) = "quote"     -> past[read_text(t, k)]
      [] OTHER                      -> past[k + 1]
EndsFrom(t, g, a) == g = [k \in a..End(t) |-> EndsAt(t, g, k)]

LEMMA EndsAtAlike ==
  ASSUME NEW t \in Text, NEW g, NEW h, NEW k \in 1..End(t),
         \A x \in (k + 1)..End(t) : g[x] = h[x]
  PROVE  EndsAt(t, g, k) = EndsAt(t, h, k)
<1>1. Len(t) \in Nat /\ End(t) = Len(t) + 1
  BY EndIs
<1>2. Symbol(t, k) # "end" => k \in 1..Len(t)
  BY <1>1 DEF Symbol
<1>3. Symbol(t, k) = "quote" => read_text(t, k) \in (k + 1)..End(t)
  BY <1>2, ReadTextIs
<1>4. Symbol(t, k) # "end" => k + 1 \in (k + 1)..End(t)
  BY <1>1, <1>2
<1>5. /\ Symbol(t, k) = "quote" => g[read_text(t, k)] = h[read_text(t, k)]
      /\ Symbol(t, k) # "end" => g[k + 1] = h[k + 1]
  BY <1>3, <1>4
<1> QED
  BY <1>5 DEF EndsAt

LEMMA StatementEndsUnfolds ==
  ASSUME NEW t \in Text
  PROVE  \A k \in 1..End(t) : StatementEnds(t)[k] = EndsAt(t, StatementEnds(t), k)
<1> DEFINE e(g, k) == EndsAt(t, g, k)
           N == {n \in Nat : n < End(t) => \E g : EndsFrom(t, g, End(t) - n)}
           E == End(t)
<1>0. E \in Nat /\ E > 0
  BY EndIs
<1> HIDE DEF E
<1>1. ASSUME NEW n \in Nat, \A m \in 0..(n - 1) : m \in N PROVE n \in N
  <2> SUFFICES ASSUME n < E PROVE \E g : EndsFrom(t, g, E - n)
    BY DEF E
  <2> DEFINE a == E - n
  <2>1. a \in 1..E
    BY <1>0
  <2>2. PICK g : EndsFrom(t, g, a + 1)
    <3>1. CASE n = 0
      <4> DEFINE h == [k \in (a + 1)..E |-> 0]
                 f(k) == e(h, k)
      <4>1. ASSUME NEW k \in (a + 1)..E PROVE FALSE
        BY <1>0, <3>1
      <4>2. h = [k \in (a + 1)..E |-> f(k)]
        <5> HIDE DEF f
        <5> QED BY <4>1
      <4>3. EndsFrom(t, h, a + 1)
        <5> HIDE DEF h, a
        <5> QED BY <4>2 DEF EndsFrom, E, f
      <4> QED BY <4>3
    <3>2. CASE n # 0
      <4>1. n - 1 \in N
        <5>1. n - 1 \in 0..(n - 1)
          BY <3>2
        <5> HIDE DEF N
        <5> QED BY <1>1, <5>1
      <4>2. E - (n - 1) = a + 1 /\ n - 1 < E
        BY <1>0, <3>2
      <4> QED BY <4>1, <4>2 DEF E
    <3> QED BY <3>1, <3>2
  <2>3. \A k \in (a + 1)..E : g[k] = e(g, k)
    <3> DEFINE f(k) == e(g, k)
    <3>1. g = [k \in (a + 1)..E |-> f(k)]
      BY <2>2 DEF EndsFrom, E
    <3> HIDE DEF f
    <3>2. \A k \in (a + 1)..E : g[k] = f(k)
      BY <3>1
    <3> QED BY <3>2 DEF f
  <2> DEFINE first == e(g, a)
             h == [k \in a..E |-> IF k = a THEN first ELSE g[k]]
  <2>4. /\ a \in a..E
        /\ \A k \in a..E : k = a \/ k \in (a + 1)..E
        /\ \A k \in (a + 1)..E : k # a /\ k \in a..E
    BY <1>0, <2>1
  <2>5. h[a] = first /\ \A k \in (a + 1)..E : h[k] = g[k]
    <3> HIDE DEF first, a
    <3> QED BY <2>4
  <2>6. ASSUME NEW k \in a..E PROVE h[k] = e(h, k)
    <3>1. k \in 1..End(t) /\ \A x \in (k + 1)..E : x \in (a + 1)..E
      BY <1>0, <2>1 DEF E
    <3>2. \A x \in (k + 1)..End(t) : g[x] = h[x]
      <4> HIDE DEF h
      <4> QED BY <2>5, <3>1 DEF E
    <3>3. e(g, k) = e(h, k)
      <4> HIDE DEF h
      <4> QED BY <3>1, <3>2, EndsAtAlike
    <3>4. CASE k = a
      <4> HIDE DEF h
      <4> QED BY <2>5, <3>3, <3>4
    <3>5. CASE k \in (a + 1)..E
      <4> HIDE DEF h, a
      <4> QED BY <2>3, <2>5, <3>3, <3>5
    <3> QED BY <2>4, <3>4, <3>5
  <2>7. EndsFrom(t, h, a)
    <3> DEFINE f(k) == e(h, k)
    <3>1. \A k \in a..E : h[k] = f(k)
      BY <2>6
    <3>2. h = [k \in a..E |-> h[k]]
      OBVIOUS
    <3> HIDE DEF f, h, a
    <3>3. h = [k \in a..E |-> f(k)]
      BY <3>1, <3>2
    <3> QED BY <3>3 DEF EndsFrom, E, f
  <2> QED BY <2>7
<1>2. E - 1 \in N
  <2>1. E - 1 \in Nat
    BY <1>0
  <2>2. Nat \subseteq N
    <3> HIDE DEF N
    <3> QED BY <1>1, Induction
  <2> QED BY <2>1, <2>2
<1>3. \E g : EndsFrom(t, g, 1)
  <2>1. E - (E - 1) = 1 /\ E - 1 < E
    BY <1>0
  <2> QED BY <1>2, <2>1 DEF E
<1> DEFINE c == CHOOSE g : EndsFrom(t, g, 1)
<1>4. EndsFrom(t, c, 1)
  BY <1>3
<1>5. StatementEnds(t) = c
  BY DEF StatementEnds, EndsFrom, EndsAt
<1>6. \A k \in 1..End(t) : c[k] = e(c, k)
  <2> HIDE DEF c
  <2> DEFINE f(k) == e(c, k)
  <2>1. c = [k \in 1..End(t) |-> f(k)]
    BY <1>4 DEF EndsFrom
  <2> HIDE DEF f
  <2>2. \A k \in 1..End(t) : c[k] = f(k)
    BY <2>1
  <2> QED BY <2>2 DEF f
<1> QED
  BY <1>5, <1>6

\* What holds of a position where it holds of all later ones holds of all.
LEMMA Downward ==
  ASSUME NEW E \in Nat, NEW S, \A k \in 1..E : (\A j \in (k + 1)..E : j \in S) => k \in S
  PROVE  1..E \subseteq S
<1> DEFINE N == {n \in Nat : n < E => E - n \in S}
<1>1. ASSUME NEW n \in Nat, \A m \in 0..(n - 1) : m \in N PROVE n \in N
  <2> SUFFICES ASSUME n < E PROVE E - n \in S
    OBVIOUS
  <2>1. ASSUME NEW j \in ((E - n) + 1)..E PROVE j \in S
    <3>1. E - j \in 0..(n - 1) /\ E - j < E /\ E - (E - j) = j
      BY <2>1
    <3>2. E - j \in N
      <4> HIDE DEF N
      <4> QED BY <1>1, <3>1
    <3> QED BY <3>1, <3>2
  <2>2. E - n \in 1..E
    OBVIOUS
  <2> QED BY <2>1, <2>2
<1>2. Nat \subseteq N
  <2> HIDE DEF N
  <2> QED BY <1>1, Induction
<1>3. ASSUME NEW k \in 1..E PROVE k \in S
  <2>1. E - k \in N /\ E - k < E /\ E - (E - k) = k
    BY <1>2
  <2> QED BY <2>1
<1> QED
  BY <1>3

-----------------------------------------------------------------------------
(* Where lists end.                                                        *)

\* The recursion of ListEnds goes through.
RestAt(t, rest, i) ==
    LET k == skip_whitespace(t, i)
        member == ValueAt(t, k, rest)
    IN  CASE Symbol(t, k) = "end"   -> k
          [] Symbol(t, k) = "close" -> k + 1
          [] Symbol(t, k) = "comma" -> rest[k + 1]
          [] OTHER -> IF member.ok THEN rest[member.at] ELSE member.at

\* From some position on rest says where lists end, and that is not before it.
Ends(t, rest, a) == \A k \in a..End(t) : rest[k] \in k..End(t)
ListsFrom(t, g, a) == g = [k \in a..End(t) |-> RestAt(t, g, k)] /\ Ends(t, g, a)

\* What is no mark of its own is neither.
LEMMA SymbolsDiffer ==
  /\ Identifiers \intersect Names = {}
  /\ "end" \notin Identifiers /\ "open" \notin Identifiers /\ "hash" \notin Identifiers
  /\ "quote" \notin Identifiers /\ "equals" \notin Identifiers
BY NumeralAssumption DEF Marks

LEMMA SymbolWithin ==
  ASSUME NEW t \in Text, NEW k \in Nat, k > 0, Symbol(t, k) # "end"
  PROVE  k \in 1..Len(t) /\ k + 1 \in 1..End(t)
BY EndIs DEF Symbol

\* Where a value ends, and whether it is one.
LEMMA ValueAtIs ==
  ASSUME NEW t \in Text, NEW k \in 1..End(t), NEW rest, Ends(t, rest, k + 1)
  PROVE  LET v == ValueAt(t, k, rest)
         IN  /\ v.ok \in BOOLEAN /\ v.list \in BOOLEAN /\ v.at \in k..End(t)
             /\ Symbol(t, k) # "end" => v.at \in (k + 1)..End(t)
<1> DEFINE v == ValueAt(t, k, rest)
           next == skip_whitespace(t, k + 1)
<1>1. Len(t) \in Nat /\ End(t) = Len(t) + 1
  BY EndIs
<1>2. CASE Symbol(t, k) = "end"
  <2>1. v = [ok |-> FALSE, list |-> FALSE, at |-> k]
    BY <1>2, SymbolsDiffer DEF ValueAt, Names
  <2> HIDE DEF v
  <2>2. v.ok \in BOOLEAN /\ v.list \in BOOLEAN
    BY <2>1, Zenon
  <2>3. v.at = k
    BY <2>1
  <2>4. v.at \in k..End(t)
    BY <1>1, <2>3
  <2> QED BY <1>2, <2>2, <2>4 DEF v
<1>3. CASE Symbol(t, k) # "end"
  <2>1. k \in 1..Len(t) /\ k + 1 \in 1..End(t)
    BY <1>1, <1>3, SymbolWithin
  <2>2. rest[k + 1] \in (k + 1)..End(t)
    BY <1>1, <2>1 DEF Ends
  <2>3. read_text(t, k) \in (k + 1)..End(t)
    BY <2>1, ReadTextIs
  <2>4. Symbol(t, k + 1) \in Identifiers => k + 2 \in (k + 1)..End(t)
    <3> SUFFICES ASSUME Symbol(t, k + 1) \in Identifiers PROVE k + 2 \in (k + 1)..End(t)
      OBVIOUS
    <3>1. Symbol(t, k + 1) # "end"
      BY SymbolsDiffer
    <3>2. k + 1 \in 1..Len(t)
      BY <2>1, <3>1, SymbolWithin
    <3> QED BY <1>1, <3>2
  <2>5. next \in (k + 1)..End(t)
    BY <1>1, <2>1, SkipIs
  <2>6. Symbol(t, next) = "open" => rest[next + 1] \in (k + 1)..End(t)
    <3> SUFFICES ASSUME Symbol(t, next) = "open" PROVE rest[next + 1] \in (k + 1)..End(t)
      OBVIOUS
    <3> HIDE DEF next
    <3>1. next + 1 \in 1..End(t)
      BY <1>1, <2>1, <2>5, SymbolWithin
    <3>2. rest[next + 1] \in (next + 1)..End(t)
      BY <1>1, <2>1, <2>5, <3>1 DEF Ends
    <3> QED BY <1>1, <2>1, <2>5, <3>2
  <2>7. v.ok \in BOOLEAN /\ v.list \in BOOLEAN
    BY <1>3 DEF ValueAt
  <2>8. \/ v.at = rest[k + 1]
        \/ v.at = read_text(t, k)
        \/ v.at = k + 1
        \/ v.at = k + 2 /\ Symbol(t, k + 1) \in Identifiers
        \/ v.at = rest[next + 1] /\ Symbol(t, next) = "open"
        \/ v.at = next
    BY <1>3 DEF ValueAt
  <2>9. k + 1 \in (k + 1)..End(t)
    BY <1>1, <2>1
  <2>10. v.at \in (k + 1)..End(t)
    <3> HIDE DEF v, next
    <3> QED BY <2>2, <2>3, <2>4, <2>5, <2>6, <2>8, <2>9
  <2>11. v.at \in k..End(t)
    <3> HIDE DEF v
    <3> QED BY <1>1, <2>10
  <2> HIDE DEF v
  <2> QED BY <2>7, <2>10, <2>11, Zenon DEF v
<1> QED
  BY <1>2, <1>3

LEMMA ValueAtAlike ==
  ASSUME NEW t \in Text, NEW k \in 1..End(t), NEW g, NEW h,
         \A x \in (k + 1)..End(t) : g[x] = h[x]
  PROVE  ValueAt(t, k, g) = ValueAt(t, k, h)
<1> DEFINE next == skip_whitespace(t, k + 1)
<1>1. Len(t) \in Nat /\ End(t) = Len(t) + 1
  BY EndIs
<1>2. Symbol(t, k) # "end" => g[k + 1] = h[k + 1]
  <2> SUFFICES ASSUME Symbol(t, k) # "end" PROVE g[k + 1] = h[k + 1]
    OBVIOUS
  <2>1. k + 1 \in 1..End(t)
    BY <1>1, SymbolWithin
  <2> QED BY <1>1, <2>1
<1>3. Symbol(t, k) # "end" /\ Symbol(t, next) = "open" => g[next + 1] = h[next + 1]
  <2> SUFFICES ASSUME Symbol(t, k) # "end", Symbol(t, next) = "open"
               PROVE  g[next + 1] = h[next + 1]
    OBVIOUS
  <2>1. k + 1 \in 1..End(t)
    BY <1>1, SymbolWithin
  <2>2. next \in (k + 1)..End(t)
    BY <1>1, <2>1, SkipIs
  <2> HIDE DEF next
  <2>3. next + 1 \in 1..End(t)
    BY <1>1, <2>1, <2>2, SymbolWithin
  <2> QED BY <1>1, <2>1, <2>2, <2>3
<1> QED
  BY <1>2, <1>3 DEF ValueAt

LEMMA RestAtIs ==
  ASSUME NEW t \in Text, NEW i \in 1..End(t), NEW rest,
         \A x \in (i + 1)..End(t) : rest[x] \in x..End(t)
  PROVE  /\ RestAt(t, rest, i) \in i..End(t)
         /\ Symbol(t, skip_whitespace(t, i)) # "end" =>
              RestAt(t, rest, i) > skip_whitespace(t, i)
<1> DEFINE k == skip_whitespace(t, i)
           v == ValueAt(t, k, rest)
           r == RestAt(t, rest, i)
<1>1. Len(t) \in Nat /\ End(t) = Len(t) + 1
  BY EndIs
<1>2. k \in i..End(t)
  BY <1>1, SkipIs
<1> HIDE DEF k
<1>3. k \in 1..End(t) /\ Ends(t, rest, k + 1)
  BY <1>1, <1>2 DEF Ends
<1>4. Symbol(t, k) # "end" => k + 1 \in (i + 1)..End(t)
  BY <1>1, <1>2, <1>3, SymbolWithin
<1>5. Symbol(t, k) # "end" => v.at \in (k + 1)..End(t)
  BY <1>3, ValueAtIs
<1>6. Symbol(t, k) = "end" => r = k
  BY DEF RestAt, k
<1>7. Symbol(t, k) # "end" =>
        r = k + 1 \/ r = rest[k + 1] \/ r = rest[v.at] \/ r = v.at
  BY DEF RestAt, k
<1> HIDE DEF v, r
<1>8. Symbol(t, k) # "end" => r \in (k + 1)..End(t)
  <2> SUFFICES ASSUME Symbol(t, k) # "end" PROVE r \in (k + 1)..End(t)
    OBVIOUS
  <2>1. rest[k + 1] \in (k + 1)..End(t)
    BY <1>4
  <2>2. v.at \in (i + 1)..End(t) /\ v.at \in (k + 1)..End(t)
    BY <1>1, <1>2, <1>3, <1>5
  <2>3. rest[v.at] \in (k + 1)..End(t)
    <3>1. rest[v.at] \in (v.at)..End(t)
      BY <2>2
    <3> QED BY <1>1, <1>3, <2>2, <3>1
  <2> QED BY <1>1, <1>3, <1>4, <1>7, <2>1, <2>2, <2>3
<1>9. r \in i..End(t) /\ (Symbol(t, k) # "end" => r > k)
  BY <1>1, <1>2, <1>3, <1>6, <1>8
<1> QED
  BY <1>9 DEF r, k

LEMMA RestAtAlike ==
  ASSUME NEW t \in Text, NEW g, NEW h, NEW k \in 1..End(t),
         \A x \in (k + 1)..End(t) : g[x] = h[x],
         \A x \in (k + 1)..End(t) : g[x] \in x..End(t)
  PROVE  RestAt(t, g, k) = RestAt(t, h, k)
<1> DEFINE m == skip_whitespace(t, k)
           v == ValueAt(t, m, g)
<1>1. Len(t) \in Nat /\ End(t) = Len(t) + 1
  BY EndIs
<1>2. m \in k..End(t)
  BY <1>1, SkipIs
<1> HIDE DEF m
<1>3. m \in 1..End(t) /\ Ends(t, g, m + 1) /\ \A x \in (m + 1)..End(t) : g[x] = h[x]
  BY <1>1, <1>2 DEF Ends
<1>4. v = ValueAt(t, m, h)
  BY <1>3, ValueAtAlike
<1>5. Symbol(t, m) # "end" => g[m + 1] = h[m + 1] /\ g[v.at] = h[v.at]
  <2> SUFFICES ASSUME Symbol(t, m) # "end"
               PROVE  g[m + 1] = h[m + 1] /\ g[v.at] = h[v.at]
    OBVIOUS
  <2>1. m + 1 \in (m + 1)..End(t)
    BY <1>1, <1>3, SymbolWithin
  <2>2. v.at \in (m + 1)..End(t)
    BY <1>3, ValueAtIs
  <2> HIDE DEF v
  <2> QED BY <1>3, <2>1, <2>2
<1> HIDE DEF v
<1>6. Symbol(t, m) = "end" => RestAt(t, g, k) = m /\ RestAt(t, h, k) = m
  BY DEF RestAt, m
<1>7. Symbol(t, m) # "end" => RestAt(t, g, k) = RestAt(t, h, k)
  BY <1>4, <1>5 DEF RestAt, m, v
<1> QED
  BY <1>6, <1>7

LEMMA ListEndsUnfolds ==
  ASSUME NEW t \in Text
  PROVE  \A k \in 1..End(t) : ListEnds(t)[k] = RestAt(t, ListEnds(t), k)
<1> DEFINE e(g, k) == RestAt(t, g, k)
           N == {n \in Nat : n < End(t) => \E g : ListsFrom(t, g, End(t) - n)}
           E == End(t)
<1>0. E \in Nat /\ E > 0
  BY EndIs
<1> HIDE DEF E
<1>1. ASSUME NEW n \in Nat, \A m \in 0..(n - 1) : m \in N PROVE n \in N
  <2> SUFFICES ASSUME n < E PROVE \E g : ListsFrom(t, g, E - n)
    BY DEF E
  <2> DEFINE a == E - n
  <2>1. a \in 1..E
    BY <1>0
  <2>2. PICK g : ListsFrom(t, g, a + 1)
    <3>1. CASE n = 0
      <4> DEFINE h == [k \in (a + 1)..E |-> 0]
                 f(k) == e(h, k)
      <4>1. ASSUME NEW k \in (a + 1)..E PROVE FALSE
        BY <1>0, <3>1
      <4>2. h = [k \in (a + 1)..E |-> f(k)]
        <5> HIDE DEF f
        <5> QED BY <4>1
      <4>3. ListsFrom(t, h, a + 1)
        <5>1. \A k \in (a + 1)..E : h[k] \in k..E
          BY <4>1
        <5> HIDE DEF h, a
        <5> QED BY <4>2, <5>1 DEF ListsFrom, Ends, E, f
      <4> QED BY <4>3
    <3>2. CASE n # 0
      <4>1. n - 1 \in N
        <5>1. n - 1 \in 0..(n - 1)
          BY <3>2
        <5> HIDE DEF N
        <5> QED BY <1>1, <5>1
      <4>2. E - (n - 1) = a + 1 /\ n - 1 < E
        BY <1>0, <3>2
      <4> QED BY <4>1, <4>2 DEF E
    <3> QED BY <3>1, <3>2
  <2>3. \A k \in (a + 1)..E : g[k] = e(g, k)
    <3> DEFINE f(k) == e(g, k)
    <3>1. g = [k \in (a + 1)..E |-> f(k)]
      BY <2>2 DEF ListsFrom, E
    <3> HIDE DEF f
    <3>2. \A k \in (a + 1)..E : g[k] = f(k)
      BY <3>1
    <3> QED BY <3>2 DEF f
  <2>8. \A k \in (a + 1)..E : g[k] \in k..E
    BY <2>2 DEF ListsFrom, Ends, E
  <2> DEFINE first == e(g, a)
             h == [k \in a..E |-> IF k = a THEN first ELSE g[k]]
  <2>4. /\ a \in a..E
        /\ \A k \in a..E : k = a \/ k \in (a + 1)..E
        /\ \A k \in (a + 1)..E : k # a /\ k \in a..E
    BY <1>0, <2>1
  <2>5. h[a] = first /\ \A k \in (a + 1)..E : h[k] = g[k]
    <3> HIDE DEF first, a
    <3> QED BY <2>4
  <2>6. ASSUME NEW k \in a..E PROVE h[k] = e(h, k)
    <3>1. k \in 1..End(t) /\ \A x \in (k + 1)..E : x \in (a + 1)..E
      BY <1>0, <2>1 DEF E
    <3>2. \A x \in (k + 1)..End(t) : g[x] = h[x]
      <4> HIDE DEF h
      <4> QED BY <2>5, <3>1 DEF E
    <3>3. e(g, k) = e(h, k)
      <4>1. \A x \in (k + 1)..End(t) : g[x] \in x..End(t)
        BY <2>8, <3>1 DEF E
      <4> HIDE DEF h
      <4> QED BY <3>1, <3>2, <4>1, RestAtAlike
    <3>4. CASE k = a
      <4> HIDE DEF h
      <4> QED BY <2>5, <3>3, <3>4
    <3>5. CASE k \in (a + 1)..E
      <4> HIDE DEF h, a
      <4> QED BY <2>3, <2>5, <3>3, <3>5
    <3> QED BY <2>4, <3>4, <3>5
  <2>7. ListsFrom(t, h, a)
    <3> DEFINE f(k) == e(h, k)
    <3>1. \A k \in a..E : h[k] = f(k)
      BY <2>6
    <3>2. h = [k \in a..E |-> h[k]]
      OBVIOUS
    <3> HIDE DEF f, h, a
    <3>3. h = [k \in a..E |-> f(k)]
      BY <3>1, <3>2
    <3>4. first \in a..E
      <4>1. \A x \in (a + 1)..End(t) : g[x] \in x..End(t)
        BY <2>8 DEF E
      <4> HIDE DEF a
      <4>2. RestAt(t, g, a) \in a..End(t)
        BY <2>1, <4>1, RestAtIs DEF E
      <4> QED BY <4>2 DEF a, E
    <3>5. \A k \in a..E : h[k] \in k..E
      BY <2>4, <2>5, <2>8, <3>4
    <3> QED BY <3>3, <3>5 DEF ListsFrom, Ends, E, f
  <2> QED BY <2>7
<1>2. E - 1 \in N
  <2>1. E - 1 \in Nat
    BY <1>0
  <2>2. Nat \subseteq N
    <3> HIDE DEF N
    <3> QED BY <1>1, Induction
  <2> QED BY <2>1, <2>2
<1>3. \E g : ListsFrom(t, g, 1)
  <2>1. E - (E - 1) = 1 /\ E - 1 < E
    BY <1>0
  <2> QED BY <1>2, <2>1 DEF E
<1> DEFINE c == CHOOSE g : g = [k \in 1..End(t) |-> RestAt(t, g, k)]
<1>4. c = [k \in 1..End(t) |-> RestAt(t, c, k)]
  <2>1. \E g : g = [k \in 1..End(t) |-> RestAt(t, g, k)]
    BY <1>3 DEF ListsFrom
  <2> QED BY <2>1
<1>5. ListEnds(t) = c
  BY DEF ListEnds, RestAt
<1>6. \A k \in 1..End(t) : c[k] = e(c, k)
  <2> HIDE DEF c
  <2> DEFINE f(k) == e(c, k)
  <2>1. c = [k \in 1..End(t) |-> f(k)]
    BY <1>4
  <2> HIDE DEF f
  <2>2. \A k \in 1..End(t) : c[k] = f(k)
    BY <2>1
  <2> QED BY <2>2 DEF f
<1> QED
  BY <1>5, <1>6

\* A list goes on from a position to a later one, or to where it is.
LEMMA ListEndsAre ==
  ASSUME NEW t \in Text
  PROVE  \A k \in 1..End(t) : ListEnds(t)[k] \in k..End(t)
<1> DEFINE S == {k \in 1..End(t) : ListEnds(t)[k] \in k..End(t)}
<1>1. End(t) \in Nat
  BY EndIs
<1>2. ASSUME NEW k \in 1..End(t), \A j \in (k + 1)..End(t) : j \in S PROVE k \in S
  <2>1. \A j \in (k + 1)..End(t) : ListEnds(t)[j] \in j..End(t)
    BY <1>2
  <2>2. RestAt(t, ListEnds(t), k) \in k..End(t)
    BY <2>1, RestAtIs
  <2>3. ListEnds(t)[k] = RestAt(t, ListEnds(t), k)
    BY ListEndsUnfolds
  <2> QED BY <2>2, <2>3
<1>3. 1..End(t) \subseteq S
  <2> HIDE DEF S
  <2> QED BY <1>1, <1>2, Downward
<1> QED
  BY <1>3

-----------------------------------------------------------------------------
(* Statements and values in the beginning of a text.                       *)

LEMMA StatementEndIs ==
  ASSUME NEW t \in Text, NEW i \in 1..End(t)
  PROVE  /\ skip_statement(t, i).at \in i..End(t)
         /\ Symbol(t, i) # "end" => skip_statement(t, i).at \in (i + 1)..End(t)
<1> DEFINE f == StatementEnds(t)
           S == {k \in 1..End(t) : f[k].at \in k..End(t)}
<1>1. Len(t) \in Nat /\ End(t) = Len(t) + 1
  BY EndIs
<1>2. \A k \in 1..End(t) : f[k] = EndsAt(t, f, k)
  BY StatementEndsUnfolds
<1> HIDE DEF f
<1>3. ASSUME NEW k \in 1..End(t), Symbol(t, k) # "end",
             \A j \in (k + 1)..End(t) : f[j].at \in j..End(t)
      PROVE  f[k].at \in (k + 1)..End(t)
  <2>1. k \in 1..Len(t) /\ k + 1 \in 1..End(t)
    BY <1>1, <1>3, SymbolWithin
  <2>2. read_text(t, k) \in (k + 1)..End(t)
    BY <2>1, ReadTextIs
  <2>3. f[read_text(t, k)].at \in (k + 1)..End(t)
    BY <1>1, <1>3, <2>2
  <2>4. f[k + 1].at \in (k + 1)..End(t)
    BY <1>1, <1>3, <2>1
  <2>5. \/ f[k] = [found |-> TRUE, at |-> k + 1]
        \/ f[k] = f[read_text(t, k)]
        \/ f[k] = f[k + 1]
    <3>1. f[k] = EndsAt(t, f, k)
      BY <1>2
    <3> QED BY <1>3, <3>1 DEF EndsAt
  <2> QED BY <1>1, <2>1, <2>3, <2>4, <2>5
<1>4. ASSUME NEW k \in 1..End(t), \A j \in (k + 1)..End(t) : j \in S PROVE k \in S
  <2>1. CASE Symbol(t, k) = "end"
    <3>1. f[k] = EndsAt(t, f, k)
      BY <1>2
    <3>2. f[k] = [found |-> FALSE, at |-> k]
      BY <2>1, <3>1 DEF EndsAt
    <3> QED BY <1>1, <3>2
  <2>2. CASE Symbol(t, k) # "end"
    <3>1. f[k].at \in (k + 1)..End(t)
      BY <1>3, <1>4, <2>2
    <3> QED BY <1>1, <3>1
  <2> QED BY <2>1, <2>2
<1>5. 1..End(t) \subseteq S
  <2>1. End(t) \in Nat
    BY <1>1
  <2>2. \A k \in 1..End(t) : (\A j \in (k + 1)..End(t) : j \in S) => k \in S
    BY <1>4
  <2> HIDE DEF S
  <2> QED BY <2>1, <2>2, Downward
<1>6. \A k \in 1..End(t) : f[k].at \in k..End(t)
  BY <1>5
<1>7. Symbol(t, i) # "end" => f[i].at \in (i + 1)..End(t)
  BY <1>1, <1>3, <1>6
<1> QED
  BY <1>6, <1>7 DEF skip_statement, f

\* A statement that ends within the beginning of a text ends there.
LEMMA StatementInBeginning ==
  ASSUME NEW p, NEW t, NEW e, Begins(p, t, e), NEW i \in 1..e,
         skip_statement(t, i).at <= e
  PROVE  skip_statement(p, i) = skip_statement(t, i)
<1> DEFINE f == StatementEnds(t)
           g == StatementEnds(p)
           S == {k \in 1..e : f[k].at <= e => g[k] = f[k]}
<1>1. /\ p \in Text /\ t \in Text
      /\ Len(t) \in Nat /\ End(t) = Len(t) + 1
      /\ e \in 1..End(t) /\ Len(p) = e - 1 /\ End(p) = e
      /\ \A j \in 1..(e - 1) : Symbol(p, j) = Symbol(t, j)
      /\ \A j \in Nat : j >= e => Symbol(p, j) = "end"
  BY BeginsEnds
<1>2. \A k \in 1..e : f[k] = EndsAt(t, f, k) /\ g[k] = EndsAt(p, g, k)
  BY <1>1, StatementEndsUnfolds
<1>3. \A k \in 1..e : /\ f[k].at \in k..End(t)
                      /\ Symbol(t, k) # "end" => f[k].at \in (k + 1)..End(t)
  BY <1>1, StatementEndIs DEF skip_statement
<1> HIDE DEF f, g
<1>4. ASSUME NEW k \in 1..e, \A j \in (k + 1)..e : j \in S, f[k].at <= e PROVE g[k] = f[k]
  <2>1. CASE Symbol(t, k) = "end"
    <3>1. Symbol(p, k) = "end"
      BY <1>1, <2>1
    <3> QED BY <1>2, <2>1, <3>1 DEF EndsAt
  <2>2. CASE Symbol(t, k) # "end"
    <3>1. k \in 1..(e - 1)
      BY <1>1, <1>3, <1>4, <2>2
    <3>2. Symbol(p, k) = Symbol(t, k) /\ k + 1 \in (k + 1)..e /\ k \in 1..Len(t)
      BY <1>1, <3>1
    <3>3. CASE Symbol(t, k) = "semicolon"
      BY <1>2, <3>2, <3>3 DEF EndsAt
    <3>4. CASE Symbol(t, k) = "quote"
      <4> DEFINE q == read_text(t, k)
      <4>1. q \in (k + 1)..End(t)
        <5>1. t \in Text /\ k \in 1..Len(t)
          BY <1>1, <3>2
        <5> QED BY <5>1, ReadTextIs
      <4>2. f[k] = f[q]
        BY <1>2, <3>4 DEF EndsAt
      <4>3. f[q].at >= q /\ q <= e
        <5> HIDE DEF q
        <5>1. q \in 1..End(t)
          BY <1>1, <4>1
        <5>2. f[q].at \in q..End(t)
          BY <1>1, <5>1, StatementEndIs DEF skip_statement, f
        <5> QED BY <1>1, <1>4, <4>1, <4>2, <5>2
      <4>4. read_text(p, k) = q
        BY <3>1, <4>3, ReadTextInBeginning
      <4>5. g[k] = g[q]
        BY <1>2, <3>2, <3>4, <4>4 DEF EndsAt
      <4> HIDE DEF q, S
      <4>6. q \in S
        BY <1>1, <1>4, <4>1, <4>3
      <4> QED BY <1>4, <4>2, <4>5, <4>6 DEF S
    <3>5. CASE Symbol(t, k) \notin {"semicolon", "quote"}
      <4>1. f[k] = f[k + 1] /\ g[k] = g[k + 1]
        BY <1>2, <2>2, <3>2, <3>5 DEF EndsAt
      <4>2. k + 1 \in S
        BY <1>4, <3>2
      <4> QED BY <1>4, <4>1, <4>2
    <3> QED BY <3>3, <3>4, <3>5
  <2> QED BY <2>1, <2>2
<1>5. 1..e \subseteq S
  <2>1. \A k \in 1..e : (\A j \in (k + 1)..e : j \in S) => k \in S
    BY <1>4
  <2>2. e \in Nat
    BY <1>1
  <2> HIDE DEF S
  <2> QED BY <2>1, <2>2, Downward
<1>6. f[i].at <= e => g[i] = f[i]
  BY <1>5
<1> QED
  BY <1>6 DEF skip_statement, f, g

\* What a value in the beginning of a text is, where lists end alike.
LEMMA ValueAtInBeginning ==
  ASSUME NEW p, NEW t, NEW e, Begins(p, t, e), NEW k \in 1..e, NEW r, NEW s,
         Ends(t, r, k + 1),
         \A x \in (k + 1)..e : r[x] <= e => s[x] = r[x],
         ValueAt(t, k, r).at <= e
  PROVE  ValueAt(p, k, s) = ValueAt(t, k, r)
<1>1. /\ p \in Text /\ t \in Text
      /\ Len(t) \in Nat /\ End(t) = Len(t) + 1
      /\ e \in 1..End(t) /\ Len(p) = e - 1 /\ End(p) = e
      /\ \A j \in 1..(e - 1) : Symbol(p, j) = Symbol(t, j)
      /\ \A j \in Nat : j >= e => Symbol(p, j) = "end"
  BY BeginsEnds
<1> DEFINE v == ValueAt(t, k, r)
           w == ValueAt(p, k, s)
<1>2. CASE Symbol(t, k) = "end"
  <2>1. Symbol(p, k) = "end"
    BY <1>1, <1>2
  <2>2. v = [ok |-> FALSE, list |-> FALSE, at |-> k]
    BY <1>2, SymbolsDiffer DEF ValueAt, Names
  <2>3. w = [ok |-> FALSE, list |-> FALSE, at |-> k]
    BY <2>1, SymbolsDiffer DEF ValueAt, Names
  <2> QED BY <2>2, <2>3
<1>3. CASE Symbol(t, k) # "end"
  <2>1. k \in 1..(e - 1) /\ k \in 1..Len(t)
    <3>1. v.at \in (k + 1)..End(t)
      BY <1>1, <1>3, ValueAtIs
    <3> QED BY <1>1, <3>1
  <2>2. Symbol(p, k) = Symbol(t, k) /\ k + 1 \in (k + 1)..e /\ k + 1 \in 1..End(t)
    BY <1>1, <2>1
  <2>3. CASE Symbol(t, k) = "open"
    <3>1. v = [ok |-> TRUE, list |-> TRUE, at |-> r[k + 1]]
      BY <2>3, SymbolsDiffer DEF ValueAt, Names
    <3>2. w = [ok |-> TRUE, list |-> TRUE, at |-> s[k + 1]]
      BY <2>2, <2>3, SymbolsDiffer DEF ValueAt, Names
    <3>3. r[k + 1] <= e
      BY <3>1
    <3> QED BY <2>2, <3>1, <3>2, <3>3
  <2>4. CASE Symbol(t, k) = "quote"
    <3>1. v = [ok |-> TRUE, list |-> FALSE, at |-> read_text(t, k)]
      BY <2>4, SymbolsDiffer DEF ValueAt, Names
    <3>2. w = [ok |-> TRUE, list |-> FALSE, at |-> read_text(p, k)]
      BY <2>2, <2>4, SymbolsDiffer DEF ValueAt, Names
    <3>3. read_text(t, k) <= e
      BY <3>1
    <3>4. read_text(p, k) = read_text(t, k)
      BY <2>1, <3>3, ReadTextInBeginning
    <3> QED BY <3>1, <3>2, <3>4
  <2>5. CASE Symbol(t, k) \in Identifiers \union {"dollar"}
    <3>1. v = [ok |-> TRUE, list |-> FALSE, at |-> k + 1]
      BY <2>5, SymbolsDiffer DEF ValueAt, Names
    <3>2. w = [ok |-> TRUE, list |-> FALSE, at |-> k + 1]
      BY <2>2, <2>5, SymbolsDiffer DEF ValueAt, Names
    <3> QED BY <3>1, <3>2
  <2>6. CASE Symbol(t, k) = "hash"
    <3>1. CASE Symbol(t, k + 1) \in Identifiers
      <4>1. v = [ok |-> TRUE, list |-> FALSE, at |-> k + 2]
        BY <2>6, <3>1, SymbolsDiffer DEF ValueAt, Names
      <4>2. k + 1 \in 1..(e - 1)
        BY <1>1, <2>1, <4>1
      <4>3. Symbol(p, k + 1) = Symbol(t, k + 1)
        BY <1>1, <4>2
      <4>4. w = [ok |-> TRUE, list |-> FALSE, at |-> k + 2]
        BY <2>2, <2>6, <3>1, <4>3, SymbolsDiffer DEF ValueAt, Names
      <4> QED BY <4>1, <4>4
    <3>2. CASE Symbol(t, k + 1) \notin Identifiers
      <4>1. v = [ok |-> FALSE, list |-> FALSE, at |-> k + 1]
        BY <2>6, <3>2, SymbolsDiffer DEF ValueAt, Names
      <4>2. Symbol(p, k + 1) = Symbol(t, k + 1) \/ Symbol(p, k + 1) = "end"
        BY <1>1, <2>1
      <4>3. Symbol(p, k + 1) \notin Identifiers
        BY <3>2, <4>2, SymbolsDiffer
      <4>4. w = [ok |-> FALSE, list |-> FALSE, at |-> k + 1]
        BY <2>2, <2>6, <4>3, SymbolsDiffer DEF ValueAt, Names
      <4> QED BY <4>1, <4>4
    <3> QED BY <3>1, <3>2
  <2>7. CASE Symbol(t, k) \in Names
    <3> DEFINE n == skip_whitespace(t, k + 1)
               m == skip_whitespace(p, k + 1)
    <3>1. n \in (k + 1)..End(t)
      <4>1. t \in Text /\ k + 1 \in Nat /\ k + 1 > 0 /\ k + 1 <= End(t)
        BY <1>1, <2>2
      <4> QED BY <4>1, SkipIs
    <3>2. m = Smaller(e, n)
      <4>1. k + 1 \in 1..e
        BY <1>1, <2>1
      <4> QED BY <4>1, SkipInBeginning
    <3>3. v = [ok |-> TRUE, list |-> FALSE,
               at |-> IF Symbol(t, n) = "open" THEN r[n + 1] ELSE n]
      BY <2>7, SymbolsDiffer DEF ValueAt, Names
    <3>4. w = [ok |-> TRUE, list |-> FALSE,
               at |-> IF Symbol(p, m) = "open" THEN s[m + 1] ELSE m]
      BY <2>2, <2>7, SymbolsDiffer DEF ValueAt, Names
    <3> HIDE DEF n, m
    <3>5. CASE Symbol(t, n) = "open"
      <4>1. v.at = r[n + 1]
        BY <3>3, <3>5
      <4>2. n \in 1..Len(t) /\ n + 1 \in 1..End(t)
        BY <1>1, <2>1, <3>1, <3>5, SymbolWithin
      <4>3. r[n + 1] \in (n + 1)..End(t)
        BY <1>1, <2>1, <3>1, <4>2 DEF Ends
      <4>4. n + 1 \in (k + 1)..e /\ n \in 1..(e - 1) /\ r[n + 1] <= e
        BY <1>1, <2>1, <3>1, <4>1, <4>3
      <4>5. m = n /\ Symbol(p, n) = Symbol(t, n)
        BY <1>1, <3>2, <4>4 DEF Smaller
      <4>6. s[n + 1] = r[n + 1]
        BY <4>4
      <4> QED BY <3>3, <3>4, <3>5, <4>5, <4>6
    <3>6. CASE Symbol(t, n) # "open"
      <4>1. v.at = n
        BY <3>3, <3>6
      <4>2. m = n /\ n \in 1..e
        BY <1>1, <2>1, <3>1, <3>2, <4>1 DEF Smaller
      <4>3. Symbol(p, n) # "open"
        <5>1. Symbol(p, n) = Symbol(t, n) \/ Symbol(p, n) = "end"
          BY <1>1, <4>2
        <5> QED BY <3>6, <5>1
      <4> QED BY <3>3, <3>4, <3>6, <4>2, <4>3
    <3> QED BY <3>5, <3>6
  <2>8. CASE /\ Symbol(t, k) \notin {"open", "quote", "dollar", "hash"}
             /\ Symbol(t, k) \notin Identifiers /\ Symbol(t, k) \notin Names
    <3>1. v = [ok |-> FALSE, list |-> FALSE, at |-> k + 1]
      BY <1>3, <2>8 DEF ValueAt
    <3>2. w = [ok |-> FALSE, list |-> FALSE, at |-> k + 1]
      BY <1>3, <2>2, <2>8 DEF ValueAt
    <3> QED BY <3>1, <3>2
  <2> QED BY <2>3, <2>4, <2>5, <2>6, <2>7, <2>8
<1> QED
  BY <1>2, <1>3

\* A list that ends within the beginning of a text ends there.
LEMMA ListEndsInBeginning ==
  ASSUME NEW p, NEW t, NEW e, Begins(p, t, e)
  PROVE  \A x \in 1..e : ListEnds(t)[x] <= e => ListEnds(p)[x] = ListEnds(t)[x]
<1> DEFINE r == ListEnds(t)
           s == ListEnds(p)
           S == {x \in 1..e : r[x] <= e => s[x] = r[x]}
<1>1. /\ p \in Text /\ t \in Text
      /\ Len(t) \in Nat /\ End(t) = Len(t) + 1
      /\ e \in 1..End(t) /\ Len(p) = e - 1 /\ End(p) = e
      /\ \A j \in 1..(e - 1) : Symbol(p, j) = Symbol(t, j)
      /\ \A j \in Nat : j >= e => Symbol(p, j) = "end"
  BY BeginsEnds
<1>2. \A x \in 1..e : r[x] = RestAt(t, r, x) /\ s[x] = RestAt(p, s, x)
  BY <1>1, ListEndsUnfolds
<1>3. \A x \in 1..End(t) : r[x] \in x..End(t)
  BY <1>1, ListEndsAre
<1> HIDE DEF r, s
<1>4. ASSUME NEW x \in 1..e, \A j \in (x + 1)..e : j \in S, r[x] <= e PROVE s[x] = r[x]
  <2> DEFINE k == skip_whitespace(t, x)
             m == skip_whitespace(p, x)
             v == ValueAt(t, k, r)
             w == ValueAt(p, m, s)
  <2>1. k \in x..End(t)
    BY <1>1, SkipIs
  <2>2. m = Smaller(e, k)
    BY SkipInBeginning
  <2>3. r[x] = RestAt(t, r, x) /\ s[x] = RestAt(p, s, x)
    BY <1>2
  <2>4. Symbol(t, k) # "end" => RestAt(t, r, x) > k
    <3>1. x \in 1..End(t) /\ \A j \in (x + 1)..End(t) : r[j] \in j..End(t)
      BY <1>1, <1>3
    <3> QED BY <1>1, <3>1, RestAtIs
  <2> HIDE DEF k, m
  <2>5. CASE Symbol(t, k) = "end"
    <3>1. r[x] = k
      BY <2>3, <2>5 DEF RestAt, k
    <3>2. m = k /\ k \in 1..e
      BY <1>1, <1>4, <2>1, <2>2, <3>1 DEF Smaller
    <3>3. Symbol(p, k) = "end"
      BY <1>1, <2>5, <3>2
    <3>4. s[x] = k
      BY <2>3, <3>2, <3>3 DEF RestAt, m
    <3> QED BY <3>1, <3>4
  <2>6. CASE Symbol(t, k) # "end"
    <3>1. k < e
      <4>1. r[x] > k /\ r[x] <= e
        BY <1>4, <2>3, <2>4, <2>6
      <4>2. r[x] \in x..End(t)
        BY <1>1, <1>3
      <4> QED BY <1>1, <2>1, <4>1, <4>2
    <3>2. m = k /\ k \in 1..(e - 1) /\ Symbol(p, k) = Symbol(t, k)
      BY <1>1, <2>1, <2>2, <3>1 DEF Smaller
    <3>3. k + 1 \in (x + 1)..e /\ k \in 1..e
      BY <1>1, <2>1, <3>2
    <3>4. CASE Symbol(t, k) = "close"
      <4>1. r[x] = k + 1
        BY <2>3, <3>4 DEF RestAt, k
      <4>2. s[x] = k + 1
        BY <2>3, <3>2, <3>4 DEF RestAt, m
      <4> QED BY <4>1, <4>2
    <3>5. CASE Symbol(t, k) = "comma"
      <4>1. r[x] = r[k + 1]
        BY <2>3, <3>5 DEF RestAt, k
      <4>2. s[x] = s[k + 1]
        BY <2>3, <3>2, <3>5 DEF RestAt, m
      <4>3. k + 1 \in S
        BY <1>4, <3>3
      <4> QED BY <1>4, <4>1, <4>2, <4>3
    <3>6. CASE Symbol(t, k) \notin {"close", "comma"}
      <4>1. r[x] = IF v.ok THEN r[v.at] ELSE v.at
        BY <2>3, <2>6, <3>6 DEF RestAt, k
      <4>2. s[x] = IF w.ok THEN s[w.at] ELSE w.at
        BY <2>3, <2>6, <3>2, <3>6 DEF RestAt, m
      <4>3. k \in 1..End(t) /\ Ends(t, r, k + 1)
        BY <1>1, <1>3, <3>2 DEF Ends
      <4>4. v.at \in (k + 1)..End(t)
        BY <1>1, <2>6, <4>3, ValueAtIs
      <4>5. v.at <= e
        <5> HIDE DEF v
        <5>1. v.at \in 1..End(t)
          BY <1>1, <3>2, <4>4
        <5>2. r[v.at] \in (v.at)..End(t)
          BY <1>3, <5>1
        <5> QED BY <1>1, <1>4, <4>1, <4>4, <5>1, <5>2
      <4>6. \A y \in (k + 1)..e : r[y] <= e => s[y] = r[y]
        BY <1>1, <1>4, <2>1
      <4>7. w = v
        <5>1. ValueAt(p, k, s) = ValueAt(t, k, r)
          BY <3>3, <4>3, <4>5, <4>6, ValueAtInBeginning
        <5> QED BY <3>2, <5>1
      <4> HIDE DEF v, w
      <4>8. v.at \in (k + 1)..e
        BY <1>1, <3>2, <4>4, <4>5
      <4>9. v.ok => r[v.at] <= e
        BY <1>4, <4>1
      <4> QED BY <4>1, <4>2, <4>6, <4>7, <4>8, <4>9
    <3> QED BY <3>4, <3>5, <3>6
  <2> QED BY <2>5, <2>6
<1>5. 1..e \subseteq S
  <2>1. \A k \in 1..e : (\A j \in (k + 1)..e : j \in S) => k \in S
    BY <1>4
  <2>2. e \in Nat
    BY <1>1
  <2> HIDE DEF S
  <2> QED BY <2>1, <2>2, Downward
<1> QED
  BY <1>5 DEF r, s

-----------------------------------------------------------------------------
(* Instances in the beginning of a text.                                   *)

LEMMA ReadValueIs ==
  ASSUME NEW t \in Text, NEW i \in 1..End(t)
  PROVE  LET v == read_value(t, i)
         IN  v.list \in BOOLEAN /\ v.at \in i..End(t) /\ v.at >= skip_whitespace(t, i)
<1> DEFINE k == skip_whitespace(t, i)
           r == ListEnds(t)
           v == ValueAt(t, k, r)
<1>1. Len(t) \in Nat /\ End(t) = Len(t) + 1
  BY EndIs
<1>2. k \in i..End(t)
  BY <1>1, SkipIs
<1>3. \A x \in 1..End(t) : r[x] \in x..End(t)
  BY ListEndsAre
<1> HIDE DEF k, r
<1>4. k \in 1..End(t) /\ Ends(t, r, k + 1)
  BY <1>1, <1>2, <1>3 DEF Ends
<1>5. v.list \in BOOLEAN /\ v.at \in k..End(t)
  BY <1>4, ValueAtIs
<1>6. read_value(t, i) = v
  BY DEF read_value, k, r
<1> HIDE DEF v
<1>7. v.at \in i..End(t) /\ v.at >= k
  BY <1>1, <1>2, <1>5
<1> QED
  BY <1>5, <1>6, <1>7 DEF k

LEMMA ReadValueInBeginning ==
  ASSUME NEW p, NEW t, NEW e, Begins(p, t, e), NEW i \in 1..e, read_value(t, i).at <= e
  PROVE  read_value(p, i) = read_value(t, i)
<1> DEFINE k == skip_whitespace(t, i)
           m == skip_whitespace(p, i)
           r == ListEnds(t)
           s == ListEnds(p)
<1>1. /\ p \in Text /\ t \in Text
      /\ Len(t) \in Nat /\ End(t) = Len(t) + 1
      /\ e \in 1..End(t) /\ Len(p) = e - 1 /\ End(p) = e
  BY BeginsEnds
<1>2. m = Smaller(e, k)
  BY SkipInBeginning
<1>3. k \in i..End(t)
  BY <1>1, SkipIs
<1>4. k <= e
  <2>1. i \in 1..End(t)
    BY <1>1
  <2>2. /\ read_value(t, i).at \in i..End(t)
        /\ read_value(t, i).at >= k
    BY <1>1, <2>1, ReadValueIs
  <2> QED BY <1>1, <1>3, <2>2
<1>5. \A x \in 1..e : r[x] <= e => s[x] = r[x]
  BY ListEndsInBeginning
<1>6. \A x \in 1..End(t) : r[x] \in x..End(t)
  BY <1>1, ListEndsAre
<1>7. read_value(t, i) = ValueAt(t, k, r) /\ read_value(p, i) = ValueAt(p, m, s)
  BY DEF read_value
<1> HIDE DEF k, m, r, s
<1>8. m = k /\ k \in 1..e
  BY <1>1, <1>2, <1>3, <1>4 DEF Smaller
<1>9. Ends(t, r, k + 1) /\ \A x \in (k + 1)..e : r[x] <= e => s[x] = r[x]
  BY <1>1, <1>5, <1>6, <1>8 DEF Ends
<1>10. ValueAt(p, k, s) = ValueAt(t, k, r)
  BY <1>7, <1>8, <1>9, ValueAtInBeginning
<1> QED
  BY <1>7, <1>8, <1>10

LEMMA SemicolonIs ==
  ASSUME NEW t \in Text, NEW i \in 1..End(t)
  PROVE  take_semicolon(t, i) \in i..End(t)
<1> DEFINE k == skip_whitespace(t, i)
<1>1. Len(t) \in Nat /\ End(t) = Len(t) + 1
  BY EndIs
<1>2. k \in i..End(t)
  BY <1>1, SkipIs
<1>3. take_semicolon(t, i) = IF Symbol(t, k) = "semicolon" THEN k + 1 ELSE k
  BY DEF take_semicolon
<1> HIDE DEF k
<1>4. Symbol(t, k) = "semicolon" => k + 1 \in 1..End(t)
  BY <1>1, <1>2, SymbolWithin
<1> QED
  BY <1>1, <1>2, <1>3, <1>4

LEMMA SemicolonInBeginning ==
  ASSUME NEW p, NEW t, NEW e, Begins(p, t, e), NEW i \in 1..e, take_semicolon(t, i) <= e
  PROVE  take_semicolon(p, i) = take_semicolon(t, i)
<1> DEFINE k == skip_whitespace(t, i)
           m == skip_whitespace(p, i)
<1>1. /\ p \in Text /\ t \in Text
      /\ Len(t) \in Nat /\ End(t) = Len(t) + 1
      /\ e \in 1..End(t) /\ Len(p) = e - 1 /\ End(p) = e
      /\ \A j \in 1..(e - 1) : Symbol(p, j) = Symbol(t, j)
      /\ \A j \in Nat : j >= e => Symbol(p, j) = "end"
  BY BeginsEnds
<1>2. m = Smaller(e, k)
  BY SkipInBeginning
<1>3. k \in i..End(t)
  BY <1>1, SkipIs
<1>4. take_semicolon(t, i) = IF Symbol(t, k) = "semicolon" THEN k + 1 ELSE k
  BY DEF take_semicolon
<1>5. take_semicolon(p, i) = IF Symbol(p, m) = "semicolon" THEN m + 1 ELSE m
  BY DEF take_semicolon
<1> HIDE DEF k, m
<1>6. m = k /\ k \in 1..e
  BY <1>1, <1>2, <1>3, <1>4 DEF Smaller
<1>7. CASE Symbol(t, k) = "semicolon"
  <2>1. k \in 1..(e - 1)
    BY <1>1, <1>4, <1>6, <1>7
  <2>2. Symbol(p, k) = Symbol(t, k)
    BY <1>1, <2>1
  <2> QED BY <1>4, <1>5, <1>6, <1>7, <2>2
<1>8. CASE Symbol(t, k) # "semicolon"
  <2>1. Symbol(p, k) = Symbol(t, k) \/ Symbol(p, k) = "end"
    BY <1>1, <1>6
  <2> QED BY <1>4, <1>5, <1>6, <1>8, <2>1
<1> QED
  BY <1>7, <1>8

-----------------------------------------------------------------------------
(* The parts of read_instance.                                             *)

Equals(t, i) == skip_whitespace(t, i + 2)
NameIn(t, i) == skip_whitespace(t, Equals(t, i) + 1)
Attributes(t, i) == read_value(t, NameIn(t, i) + 1)

\* Where it stops short, and where it does not.
NoId(t, i) == Symbol(t, i + 1) \notin Identifiers
NoEqual(t, i) == ~NoId(t, i) /\ Symbol(t, Equals(t, i)) # "equals"
NoName(t, i) ==
    /\ ~NoId(t, i) /\ Symbol(t, Equals(t, i)) = "equals"
    /\ Symbol(t, NameIn(t, i)) \notin Names
IsNamed(t, i) ==
    /\ ~NoId(t, i) /\ Symbol(t, Equals(t, i)) = "equals"
    /\ Symbol(t, NameIn(t, i)) \in Names

LEMMA InstanceParts ==
  ASSUME NEW t, NEW i
  PROVE  /\ NoId(t, i) => read_instance(t, i) = [ok |-> FALSE, at |-> i + 1]
         /\ NoEqual(t, i) =>
              read_instance(t, i) = [ok |-> FALSE, at |-> skip_statement(t, Equals(t, i)).at]
         /\ NoName(t, i) => read_instance(t, i) = [ok |-> FALSE, at |-> NameIn(t, i)]
         /\ IsNamed(t, i) /\ Attributes(t, i).list =>
              read_instance(t, i) =
                [ok |-> TRUE, at |-> take_semicolon(t, Attributes(t, i).at),
                 id |-> Numeral[t[i + 1]], entity |-> i]
         /\ IsNamed(t, i) /\ ~Attributes(t, i).list =>
              read_instance(t, i) =
                [ok |-> FALSE, at |-> skip_statement(t, Attributes(t, i).at).at]
         /\ NoId(t, i) \/ NoEqual(t, i) \/ NoName(t, i) \/ IsNamed(t, i)
<1>1. NoId(t, i) => read_instance(t, i) = [ok |-> FALSE, at |-> i + 1]
  BY DEF NoId, read_instance
<1>2. NoEqual(t, i) =>
        read_instance(t, i) = [ok |-> FALSE, at |-> skip_statement(t, Equals(t, i)).at]
  BY DEF NoId, NoEqual, Equals, read_instance
<1>3. NoName(t, i) => read_instance(t, i) = [ok |-> FALSE, at |-> NameIn(t, i)]
  BY DEF NoId, NoName, Equals, NameIn, read_instance
<1>4. IsNamed(t, i) /\ Attributes(t, i).list =>
        read_instance(t, i) =
          [ok |-> TRUE, at |-> take_semicolon(t, Attributes(t, i).at),
           id |-> Numeral[t[i + 1]], entity |-> i]
  BY DEF NoId, IsNamed, Equals, NameIn, Attributes, read_instance
<1>5. IsNamed(t, i) /\ ~Attributes(t, i).list =>
        read_instance(t, i) = [ok |-> FALSE, at |-> skip_statement(t, Attributes(t, i).at).at]
  BY DEF NoId, IsNamed, Equals, NameIn, Attributes, read_instance
<1>6. NoId(t, i) \/ NoEqual(t, i) \/ NoName(t, i) \/ IsNamed(t, i)
  BY DEF NoId, NoEqual, NoName, IsNamed
<1> QED
  BY <1>1, <1>2, <1>3, <1>4, <1>5, <1>6

\* Where they are in the text.
LEMMA PartsAreWithin ==
  ASSUME NEW t \in Text, NEW i \in 1..Len(t)
  PROVE  /\ ~NoId(t, i) => /\ i + 1 \in 1..Len(t) /\ i + 2 \in 1..End(t)
                           /\ Equals(t, i) \in (i + 2)..End(t)
                           /\ t[i + 1] \in Identifiers
         /\ NoName(t, i) \/ IsNamed(t, i) =>
              /\ Equals(t, i) \in 1..Len(t)
              /\ NameIn(t, i) \in (Equals(t, i) + 1)..End(t)
         /\ IsNamed(t, i) =>
              /\ NameIn(t, i) + 1 \in 1..End(t)
              /\ Attributes(t, i).list \in BOOLEAN
              /\ Attributes(t, i).at \in (NameIn(t, i) + 1)..End(t)
<1>1. Len(t) \in Nat /\ End(t) = Len(t) + 1
  BY EndIs
<1>2. ASSUME ~NoId(t, i)
      PROVE  /\ i + 1 \in 1..Len(t) /\ i + 2 \in 1..End(t)
             /\ Equals(t, i) \in (i + 2)..End(t)
             /\ t[i + 1] \in Identifiers
  <2>1. Symbol(t, i + 1) \in Identifiers /\ Symbol(t, i + 1) # "end"
    BY <1>2, SymbolsDiffer DEF NoId
  <2>2. i + 1 \in 1..Len(t)
    BY <1>1, <2>1, SymbolWithin
  <2>3. i + 2 \in 1..End(t)
    BY <1>1, <2>2
  <2>4. Equals(t, i) \in (i + 2)..End(t)
    <3>1. i + 2 \in Nat /\ i + 2 > 0 /\ i + 2 <= End(t)
      BY <1>1, <2>3
    <3> QED BY <3>1, SkipIs DEF Equals
  <2>5. t[i + 1] \in Identifiers
    BY <1>1, <2>1, <2>2 DEF Symbol
  <2> QED BY <2>2, <2>3, <2>4, <2>5
<1>3. ASSUME NoName(t, i) \/ IsNamed(t, i)
      PROVE  /\ Equals(t, i) \in 1..Len(t)
             /\ NameIn(t, i) \in (Equals(t, i) + 1)..End(t)
  <2>1. ~NoId(t, i) /\ Symbol(t, Equals(t, i)) = "equals"
    BY <1>3 DEF NoName, IsNamed
  <2>2. Equals(t, i) \in (i + 2)..End(t)
    BY <1>2, <2>1
  <2>3. Equals(t, i) \in 1..Len(t) /\ Equals(t, i) + 1 \in 1..End(t)
    BY <1>1, <2>1, <2>2, SymbolWithin
  <2>4. NameIn(t, i) \in (Equals(t, i) + 1)..End(t)
    <3> DEFINE j == Equals(t, i) + 1
    <3>1. j \in Nat /\ j > 0 /\ j <= End(t)
      BY <1>1, <2>3
    <3> HIDE DEF j
    <3>2. skip_whitespace(t, j) \in j..End(t)
      BY <3>1, SkipIs
    <3> QED BY <3>2 DEF NameIn, j
  <2> QED BY <2>3, <2>4
<1>4. ASSUME IsNamed(t, i)
      PROVE  /\ NameIn(t, i) + 1 \in 1..End(t)
             /\ Attributes(t, i).list \in BOOLEAN
             /\ Attributes(t, i).at \in (NameIn(t, i) + 1)..End(t)
  <2>1. Symbol(t, NameIn(t, i)) # "end"
    BY <1>4 DEF IsNamed, Names
  <2>2. NameIn(t, i) \in Nat /\ NameIn(t, i) > 0
    <3>1. Equals(t, i) \in 1..Len(t) /\ NameIn(t, i) \in (Equals(t, i) + 1)..End(t)
      BY <1>3, <1>4
    <3> QED BY <1>1, <3>1
  <2>3. NameIn(t, i) + 1 \in 1..End(t)
    BY <1>1, <2>1, <2>2, SymbolWithin
  <2> QED BY <2>3, ReadValueIs DEF Attributes
<1> QED
  BY <1>2, <1>3, <1>4

\* What is read of an instance: it gets on, and what is read is for the table.
LEMMA InstanceIs ==
  ASSUME NEW t \in Text, NEW i \in 1..Len(t)
  PROVE  LET x == read_instance(t, i)
         IN  /\ x.ok \in BOOLEAN
             /\ x.at \in (i + 1)..End(t)
             /\ x.ok => x.id = Numeral[t[i + 1]] /\ x.id \in Ids /\ x.entity = i
<1> DEFINE x == read_instance(t, i)
<1>1. Len(t) \in Nat /\ End(t) = Len(t) + 1
  BY EndIs
<1>2. CASE NoId(t, i)
  <2>1. x = [ok |-> FALSE, at |-> i + 1]
    BY <1>2, InstanceParts
  <2> HIDE DEF x
  <2>0. ~x.ok /\ x.ok \in BOOLEAN
    BY <2>1, Zenon
  <2>2. x.at = i + 1
    BY <2>1
  <2>3. x.at \in (i + 1)..End(t)
    BY <1>1, <2>2
  <2> QED BY <2>0, <2>3, Zenon DEF x
<1>3. CASE NoEqual(t, i)
  <2>1. x = [ok |-> FALSE, at |-> skip_statement(t, Equals(t, i)).at]
    BY <1>3, InstanceParts
  <2> HIDE DEF x
  <2>0. ~x.ok /\ x.ok \in BOOLEAN
    BY <2>1, Zenon
  <2>2. x.at = skip_statement(t, Equals(t, i)).at
    BY <2>1
  <2>3. Equals(t, i) \in (i + 2)..End(t)
    BY <1>3, PartsAreWithin DEF NoEqual
  <2>4. Equals(t, i) \in 1..End(t)
    BY <1>1, <2>3
  <2>5. x.at \in Equals(t, i)..End(t)
    BY <2>2, <2>4, StatementEndIs
  <2>6. x.at \in (i + 1)..End(t)
    BY <1>1, <2>3, <2>5
  <2> QED BY <2>0, <2>6, Zenon DEF x
<1>4. CASE NoName(t, i)
  <2>1. x = [ok |-> FALSE, at |-> NameIn(t, i)]
    BY <1>4, InstanceParts
  <2> HIDE DEF x
  <2>0. ~x.ok /\ x.ok \in BOOLEAN
    BY <2>1, Zenon
  <2>2. x.at = NameIn(t, i)
    BY <2>1
  <2>3. /\ Equals(t, i) \in (i + 2)..End(t)
        /\ NameIn(t, i) \in (Equals(t, i) + 1)..End(t)
    BY <1>4, PartsAreWithin DEF NoName
  <2>4. x.at \in (i + 1)..End(t)
    BY <1>1, <2>2, <2>3
  <2> QED BY <2>0, <2>4, Zenon DEF x
<1>5. CASE IsNamed(t, i)
  <2> DEFINE a == Attributes(t, i).at
  <2>1. /\ Equals(t, i) \in (i + 2)..End(t)
        /\ NameIn(t, i) \in (Equals(t, i) + 1)..End(t)
        /\ a \in (NameIn(t, i) + 1)..End(t)
        /\ t[i + 1] \in Identifiers
    BY <1>5, PartsAreWithin DEF IsNamed
  <2>2. a \in 1..End(t) /\ a > i
    <3> HIDE DEF a
    <3> QED BY <1>1, <2>1
  <2>3. CASE Attributes(t, i).list
    <3>1. x = [ok |-> TRUE, at |-> take_semicolon(t, a),
               id |-> Numeral[t[i + 1]], entity |-> i]
      BY <1>5, <2>3, InstanceParts
    <3> HIDE DEF x
    <3>0. x.ok /\ x.ok \in BOOLEAN
      BY <3>1, Zenon
    <3>2. /\ x.at = take_semicolon(t, a)
          /\ x.id = Numeral[t[i + 1]] /\ x.entity = i
      BY <3>1
    <3>3. x.at \in a..End(t)
      <4> HIDE DEF a
      <4> QED BY <2>2, <3>2, SemicolonIs
    <3>4. x.at \in (i + 1)..End(t)
      <4> HIDE DEF a
      <4> QED BY <1>1, <2>2, <3>3
    <3>5. Numeral[t[i + 1]] \in Ids
      BY <2>1, NumeralAssumption
    <3> QED BY <3>0, <3>2, <3>4, <3>5, Zenon DEF x
  <2>4. CASE ~Attributes(t, i).list
    <3>1. x = [ok |-> FALSE, at |-> skip_statement(t, a).at]
      BY <1>5, <2>4, InstanceParts
    <3> HIDE DEF x
    <3>0. ~x.ok /\ x.ok \in BOOLEAN
      BY <3>1, Zenon
    <3>2. x.at = skip_statement(t, a).at
      BY <3>1
    <3>3. x.at \in a..End(t)
      <4> HIDE DEF a
      <4> QED BY <2>2, <3>2, StatementEndIs
    <3>4. x.at \in (i + 1)..End(t)
      <4> HIDE DEF a
      <4> QED BY <1>1, <2>2, <3>3
    <3> QED BY <3>0, <3>4, Zenon DEF x
  <2> QED BY <2>3, <2>4
<1> QED
  BY <1>2, <1>3, <1>4, <1>5, InstanceParts

\* An instance that is read to within the beginning of a text is read alike
\* there: the reader of a run has no need of what follows the run.
LEMMA InstanceInBeginning ==
  ASSUME NEW p, NEW t, NEW e, Begins(p, t, e), NEW i \in 1..(e - 1),
         read_instance(t, i).at <= e
  PROVE  read_instance(p, i) = read_instance(t, i)
<1>1. /\ p \in Text /\ t \in Text
      /\ Len(t) \in Nat /\ End(t) = Len(t) + 1
      /\ e \in 1..End(t) /\ Len(p) = e - 1 /\ End(p) = e
      /\ \A j \in 1..(e - 1) : Symbol(p, j) = Symbol(t, j)
      /\ \A j \in Nat : j >= e => Symbol(p, j) = "end"
  BY BeginsEnds
<1>2. i \in 1..Len(t) /\ i \in 1..Len(p)
  BY <1>1
<1>3. CASE NoId(t, i)
  <2>1. Symbol(p, i + 1) = Symbol(t, i + 1) \/ Symbol(p, i + 1) = "end"
    BY <1>1, <1>2
  <2>2. NoId(p, i)
    BY <1>3, <2>1, SymbolsDiffer DEF NoId
  <2>3. read_instance(t, i) = [ok |-> FALSE, at |-> i + 1]
    BY <1>3, InstanceParts
  <2>4. read_instance(p, i) = [ok |-> FALSE, at |-> i + 1]
    BY <2>2, InstanceParts
  <2> QED BY <2>3, <2>4
<1>4. ASSUME ~NoId(t, i), i + 2 <= e
      PROVE  /\ ~NoId(p, i) /\ i + 1 \in 1..(e - 1)
             /\ Equals(p, i) = Smaller(e, Equals(t, i))
  <2>1. i + 1 \in 1..(e - 1) /\ i + 2 \in 1..e
    BY <1>1, <1>2, <1>4
  <2>2. Symbol(p, i + 1) = Symbol(t, i + 1)
    BY <1>1, <2>1
  <2>3. Equals(p, i) = Smaller(e, Equals(t, i))
    BY <2>1, SkipInBeginning DEF Equals
  <2> QED BY <1>4, <2>1, <2>2, <2>3 DEF NoId
<1>5. CASE NoEqual(t, i)
  <2> DEFINE q == Equals(t, i)
  <2>1. ~NoId(t, i) /\ Symbol(t, q) # "equals"
    BY <1>5 DEF NoEqual
  <2>2. q \in (i + 2)..End(t)
    BY <1>1, <1>2, <2>1, PartsAreWithin
  <2>3. read_instance(t, i) = [ok |-> FALSE, at |-> skip_statement(t, q).at]
    BY <1>5, InstanceParts
  <2> HIDE DEF q
  <2>4. skip_statement(t, q).at <= e
    BY <2>3
  <2>5. skip_statement(t, q).at \in q..End(t)
    BY <1>1, <1>2, <2>2, StatementEndIs
  <2>6. q \in 1..e /\ i + 2 <= e
    BY <1>1, <1>2, <2>2, <2>4, <2>5
  <2>7. ~NoId(p, i) /\ Equals(p, i) = q
    BY <1>1, <1>4, <2>1, <2>6 DEF q, Smaller
  <2>8. Symbol(p, q) = Symbol(t, q) \/ Symbol(p, q) = "end"
    BY <1>1, <2>6
  <2>9. NoEqual(p, i)
    BY <2>1, <2>7, <2>8 DEF NoEqual
  <2>10. read_instance(p, i) = [ok |-> FALSE, at |-> skip_statement(p, q).at]
    BY <2>7, <2>9, InstanceParts
  <2>11. skip_statement(p, q) = skip_statement(t, q)
    BY <2>4, <2>6, StatementInBeginning
  <2> QED BY <2>3, <2>10, <2>11
<1>6. ASSUME NoName(t, i) \/ IsNamed(t, i), NameIn(t, i) <= e
      PROVE  /\ ~NoId(p, i) /\ Equals(p, i) = Equals(t, i) /\ i + 1 \in 1..(e - 1)
             /\ Symbol(p, Equals(t, i)) = "equals"
             /\ NameIn(p, i) = NameIn(t, i) /\ NameIn(t, i) \in 1..e
  <2> DEFINE q == Equals(t, i)
             n == NameIn(t, i)
  <2>1. ~NoId(t, i) /\ Symbol(t, q) = "equals"
    BY <1>6 DEF NoName, IsNamed
  <2>2. q \in (i + 2)..End(t) /\ q \in 1..Len(t) /\ n \in (q + 1)..End(t)
    BY <1>1, <1>2, <1>6, <2>1, PartsAreWithin
  <2>3. n <= e
    BY <1>6
  <2> HIDE DEF q, n
  <2>4. q \in 1..(e - 1) /\ i + 2 <= e /\ q + 1 \in 1..e /\ n \in 1..e
    BY <1>1, <1>2, <2>2, <2>3
  <2>5. ~NoId(p, i) /\ i + 1 \in 1..(e - 1) /\ Equals(p, i) = q
    BY <1>1, <1>4, <2>1, <2>4 DEF q, Smaller
  <2>6. Symbol(p, q) = "equals"
    BY <1>1, <2>1, <2>4
  <2>7. NameIn(p, i) = n
    <3>1. skip_whitespace(p, q + 1) = Smaller(e, skip_whitespace(t, q + 1))
      BY <2>4, SkipInBeginning
    <3>2. NameIn(p, i) = Smaller(e, n)
      BY <2>5, <3>1 DEF NameIn, n, q
    <3> QED BY <1>1, <2>3, <2>4, <3>2 DEF Smaller
  <2> QED BY <2>4, <2>5, <2>6, <2>7 DEF q, n
<1>7. CASE NoName(t, i)
  <2>1. read_instance(t, i) = [ok |-> FALSE, at |-> NameIn(t, i)]
    BY <1>7, InstanceParts
  <2>2. NameIn(t, i) <= e
    BY <2>1
  <2>3. /\ ~NoId(p, i) /\ Equals(p, i) = Equals(t, i)
        /\ Symbol(p, Equals(t, i)) = "equals"
        /\ NameIn(p, i) = NameIn(t, i) /\ NameIn(t, i) \in 1..e
    BY <1>6, <1>7, <2>2
  <2>4. Symbol(p, NameIn(t, i)) = Symbol(t, NameIn(t, i)) \/ Symbol(p, NameIn(t, i)) = "end"
    BY <1>1, <2>3
  <2>5. Symbol(p, NameIn(t, i)) \notin Names
    BY <1>7, <2>4 DEF NoName, Names
  <2>6. NoName(p, i)
    BY <2>3, <2>5 DEF NoName
  <2>7. read_instance(p, i) = [ok |-> FALSE, at |-> NameIn(p, i)]
    BY <2>6, InstanceParts
  <2> QED BY <2>1, <2>3, <2>7
<1>8. CASE IsNamed(t, i)
  <2> DEFINE v == Attributes(t, i)
             n == NameIn(t, i)
  <2>1. /\ v.list \in BOOLEAN /\ v.at \in (n + 1)..End(t)
        /\ n \in (Equals(t, i) + 1)..End(t) /\ Equals(t, i) \in 1..Len(t)
    BY <1>1, <1>2, <1>8, PartsAreWithin
  <2>2. v.at \in 1..End(t) /\ n \in 1..End(t)
    <3> DEFINE a == v.at
               q == Equals(t, i)
    <3>1. a \in (n + 1)..End(t) /\ n \in (q + 1)..End(t) /\ q \in 1..Len(t)
      BY <2>1
    <3> HIDE DEF a, q, n
    <3>2. a \in 1..End(t) /\ n \in 1..End(t)
      BY <1>1, <3>1
    <3> QED BY <3>2 DEF a
  <2>3. v.list =>
          /\ read_instance(t, i) =
               [ok |-> TRUE, at |-> take_semicolon(t, v.at), id |-> Numeral[t[i + 1]],
                entity |-> i]
          /\ take_semicolon(t, v.at) <= e /\ take_semicolon(t, v.at) \in (v.at)..End(t)
    <3> SUFFICES ASSUME v.list
                 PROVE  /\ read_instance(t, i) =
                             [ok |-> TRUE, at |-> take_semicolon(t, v.at),
                              id |-> Numeral[t[i + 1]], entity |-> i]
                        /\ take_semicolon(t, v.at) <= e
                        /\ take_semicolon(t, v.at) \in (v.at)..End(t)
      OBVIOUS
    <3>1. read_instance(t, i) =
            [ok |-> TRUE, at |-> take_semicolon(t, v.at), id |-> Numeral[t[i + 1]], entity |-> i]
      BY <1>8, InstanceParts
    <3>2. take_semicolon(t, v.at) <= e
      BY <3>1
    <3>3. take_semicolon(t, v.at) \in (v.at)..End(t)
      BY <1>1, <2>2, SemicolonIs
    <3> QED BY <3>1, <3>2, <3>3
  <2>4. ~v.list =>
          /\ read_instance(t, i) = [ok |-> FALSE, at |-> skip_statement(t, v.at).at]
          /\ skip_statement(t, v.at).at <= e /\ skip_statement(t, v.at).at \in (v.at)..End(t)
    <3> SUFFICES ASSUME ~v.list
                 PROVE  /\ read_instance(t, i) = [ok |-> FALSE, at |-> skip_statement(t, v.at).at]
                        /\ skip_statement(t, v.at).at <= e
                        /\ skip_statement(t, v.at).at \in (v.at)..End(t)
      OBVIOUS
    <3>1. read_instance(t, i) = [ok |-> FALSE, at |-> skip_statement(t, v.at).at]
      BY <1>8, InstanceParts
    <3>2. skip_statement(t, v.at).at <= e
      BY <3>1
    <3>3. skip_statement(t, v.at).at \in (v.at)..End(t)
      BY <1>1, <2>2, StatementEndIs
    <3> QED BY <3>1, <3>2, <3>3
  <2>5. v.at <= e
    <3> DEFINE a == v.at
               b == take_semicolon(t, v.at)
               c == skip_statement(t, v.at).at
    <3>1. \/ b <= e /\ b \in a..End(t)
          \/ c <= e /\ c \in a..End(t)
      BY <2>3, <2>4
    <3>2. a \in 1..End(t)
      BY <2>2
    <3> HIDE DEF a, b, c
    <3>3. a <= e
      BY <1>1, <3>1, <3>2
    <3> QED BY <3>3 DEF a
  <2>6. n + 1 \in 1..e /\ v.at \in 1..e
    <3> DEFINE a == v.at
    <3>1. a \in 1..End(t) /\ a \in (n + 1)..End(t) /\ a <= e /\ n \in 1..End(t)
      BY <2>1, <2>2, <2>5
    <3> HIDE DEF a, n
    <3>2. n + 1 \in 1..e /\ a \in 1..e
      BY <1>1, <3>1
    <3> QED BY <3>2 DEF a
  <2>7. n <= e
    <3> HIDE DEF n
    <3> QED BY <1>1, <2>2, <2>6
  <2>8. /\ ~NoId(p, i) /\ Equals(p, i) = Equals(t, i) /\ i + 1 \in 1..(e - 1)
        /\ Symbol(p, Equals(t, i)) = "equals"
        /\ NameIn(p, i) = n
    BY <1>6, <1>8, <2>7
  <2>9. Symbol(p, n) = Symbol(t, n)
    <3> HIDE DEF n
    <3>1. n \in 1..(e - 1)
      BY <1>1, <2>2, <2>6
    <3> QED BY <1>1, <3>1
  <2>10. IsNamed(p, i)
    BY <1>8, <2>8, <2>9 DEF IsNamed
  <2>11. Attributes(p, i) = v
    <3>1. read_value(t, n + 1).at <= e
      BY <2>5 DEF Attributes
    <3> HIDE DEF n
    <3>2. read_value(p, n + 1) = read_value(t, n + 1)
      BY <2>6, <3>1, ReadValueInBeginning
    <3> QED BY <2>8, <3>2 DEF Attributes, n
  <2>12. p[i + 1] = t[i + 1]
    BY <2>8 DEF Begins
  <2> HIDE DEF v
  <2>13. CASE v.list
    <3>1. read_instance(p, i) =
            [ok |-> TRUE, at |-> take_semicolon(p, v.at), id |-> Numeral[p[i + 1]], entity |-> i]
      BY <2>10, <2>11, <2>13, InstanceParts
    <3>2. take_semicolon(p, v.at) = take_semicolon(t, v.at)
      BY <2>3, <2>6, <2>13, SemicolonInBeginning
    <3> QED BY <2>3, <2>12, <2>13, <3>1, <3>2
  <2>14. CASE ~v.list
    <3>1. read_instance(p, i) = [ok |-> FALSE, at |-> skip_statement(p, v.at).at]
      BY <2>10, <2>11, <2>14, InstanceParts
    <3>2. skip_statement(p, v.at) = skip_statement(t, v.at)
      BY <2>4, <2>6, <2>14, StatementInBeginning
    <3> QED BY <2>4, <2>14, <3>1, <3>2
  <2> QED BY <2>13, <2>14
<1> QED
  BY <1>3, <1>5, <1>7, <1>8, InstanceParts

-----------------------------------------------------------------------------
(* The statements of a section.                                            *)

\* The recursion of StatementsFrom goes through.
FromAt(t, from, i) ==
    LET k == skip_whitespace(t, i)
    IN  IF Symbol(t, k) \in {"end", "ENDSEC"} THEN {}
        ELSE {k} \union from[skip_statement(t, k).at]
StatementsIn(t, g, a) == g = [k \in a..End(t) |-> FromAt(t, g, k)]

\* Where the reader gets to from i by whitespace and a statement.
LEMMA NextStatementIs ==
  ASSUME NEW t \in Text, NEW i \in 1..End(t),
         Symbol(t, skip_whitespace(t, i)) # "end"
  PROVE  LET k == skip_whitespace(t, i)
         IN  /\ k \in i..Len(t) /\ k \in 1..Len(t) /\ t[k] # "blank"
             /\ skip_statement(t, k).at \in (k + 1)..End(t)
             /\ skip_statement(t, k).at \in (i + 1)..End(t)
<1> DEFINE k == skip_whitespace(t, i)
<1>1. Len(t) \in Nat /\ End(t) = Len(t) + 1
  BY EndIs
<1>2. k \in i..End(t) /\ (k <= Len(t) => t[k] # "blank")
  BY <1>1, SkipIs
<1>3. Symbol(t, k) # "end"
  OBVIOUS
<1> HIDE DEF k
<1>4. k \in i..Len(t) /\ k \in 1..Len(t) /\ k \in 1..End(t)
  BY <1>1, <1>2, <1>3, SymbolWithin
<1>5. skip_statement(t, k).at \in (k + 1)..End(t)
  BY <1>3, <1>4, StatementEndIs
<1>6. skip_statement(t, k).at \in (i + 1)..End(t)
  BY <1>1, <1>4, <1>5
<1>7. t[k] # "blank"
  BY <1>2, <1>4
<1> QED
  BY <1>4, <1>5, <1>6, <1>7 DEF k

LEMMA FromAtAlike ==
  ASSUME NEW t \in Text, NEW g, NEW h, NEW k \in 1..End(t),
         \A x \in (k + 1)..End(t) : g[x] = h[x]
  PROVE  FromAt(t, g, k) = FromAt(t, h, k)
<1> DEFINE m == skip_whitespace(t, k)
           n == skip_statement(t, m).at
<1>1. Symbol(t, m) # "end" => g[n] = h[n]
  BY NextStatementIs
<1> QED
  BY <1>1 DEF FromAt

LEMMA StatementsFromUnfolds ==
  ASSUME NEW t \in Text
  PROVE  \A k \in 1..End(t) : StatementsFrom(t)[k] = FromAt(t, StatementsFrom(t), k)
<1> DEFINE e(g, k) == FromAt(t, g, k)
           N == {n \in Nat : n < End(t) => \E g : StatementsIn(t, g, End(t) - n)}
           E == End(t)
<1>0. E \in Nat /\ E > 0
  BY EndIs
<1> HIDE DEF E
<1>1. ASSUME NEW n \in Nat, \A m \in 0..(n - 1) : m \in N PROVE n \in N
  <2> SUFFICES ASSUME n < E PROVE \E g : StatementsIn(t, g, E - n)
    BY DEF E
  <2> DEFINE a == E - n
  <2>1. a \in 1..E
    BY <1>0
  <2>2. PICK g : StatementsIn(t, g, a + 1)
    <3>1. CASE n = 0
      <4> DEFINE h == [k \in (a + 1)..E |-> 0]
                 f(k) == e(h, k)
      <4>1. ASSUME NEW k \in (a + 1)..E PROVE FALSE
        BY <1>0, <3>1
      <4>2. h = [k \in (a + 1)..E |-> f(k)]
        <5> HIDE DEF f
        <5> QED BY <4>1
      <4>3. StatementsIn(t, h, a + 1)
        <5> HIDE DEF h, a
        <5> QED BY <4>2 DEF StatementsIn, E, f
      <4> QED BY <4>3
    <3>2. CASE n # 0
      <4>1. n - 1 \in N
        <5>1. n - 1 \in 0..(n - 1)
          BY <3>2
        <5> HIDE DEF N
        <5> QED BY <1>1, <5>1
      <4>2. E - (n - 1) = a + 1 /\ n - 1 < E
        BY <1>0, <3>2
      <4> QED BY <4>1, <4>2 DEF E
    <3> QED BY <3>1, <3>2
  <2>3. \A k \in (a + 1)..E : g[k] = e(g, k)
    <3> DEFINE f(k) == e(g, k)
    <3>1. g = [k \in (a + 1)..E |-> f(k)]
      BY <2>2 DEF StatementsIn, E
    <3> HIDE DEF f
    <3>2. \A k \in (a + 1)..E : g[k] = f(k)
      BY <3>1
    <3> QED BY <3>2 DEF f
  <2> DEFINE first == e(g, a)
             h == [k \in a..E |-> IF k = a THEN first ELSE g[k]]
  <2>4. /\ a \in a..E
        /\ \A k \in a..E : k = a \/ k \in (a + 1)..E
        /\ \A k \in (a + 1)..E : k # a /\ k \in a..E
    BY <1>0, <2>1
  <2>5. h[a] = first /\ \A k \in (a + 1)..E : h[k] = g[k]
    <3> HIDE DEF first, a
    <3> QED BY <2>4
  <2>6. ASSUME NEW k \in a..E PROVE h[k] = e(h, k)
    <3>1. k \in 1..End(t) /\ \A x \in (k + 1)..E : x \in (a + 1)..E
      BY <1>0, <2>1 DEF E
    <3>2. \A x \in (k + 1)..End(t) : g[x] = h[x]
      <4> HIDE DEF h
      <4> QED BY <2>5, <3>1 DEF E
    <3>3. e(g, k) = e(h, k)
      <4> HIDE DEF h
      <4> QED BY <3>1, <3>2, FromAtAlike
    <3>4. CASE k = a
      <4> HIDE DEF h
      <4> QED BY <2>5, <3>3, <3>4
    <3>5. CASE k \in (a + 1)..E
      <4> HIDE DEF h, a
      <4> QED BY <2>3, <2>5, <3>3, <3>5
    <3> QED BY <2>4, <3>4, <3>5
  <2>7. StatementsIn(t, h, a)
    <3> DEFINE f(k) == e(h, k)
    <3>1. \A k \in a..E : h[k] = f(k)
      BY <2>6
    <3>2. h = [k \in a..E |-> h[k]]
      OBVIOUS
    <3> HIDE DEF f, h, a
    <3>3. h = [k \in a..E |-> f(k)]
      BY <3>1, <3>2
    <3> QED BY <3>3 DEF StatementsIn, E, f
  <2> QED BY <2>7
<1>2. E - 1 \in N
  <2>1. E - 1 \in Nat
    BY <1>0
  <2>2. Nat \subseteq N
    <3> HIDE DEF N
    <3> QED BY <1>1, Induction
  <2> QED BY <2>1, <2>2
<1>3. \E g : StatementsIn(t, g, 1)
  <2>1. E - (E - 1) = 1 /\ E - 1 < E
    BY <1>0
  <2> QED BY <1>2, <2>1 DEF E
<1> DEFINE c == CHOOSE g : StatementsIn(t, g, 1)
<1>4. StatementsIn(t, c, 1)
  BY <1>3
<1>5. StatementsFrom(t) = c
  BY DEF StatementsFrom, StatementsIn, FromAt
<1>6. \A k \in 1..End(t) : c[k] = e(c, k)
  <2> HIDE DEF c
  <2> DEFINE f(k) == e(c, k)
  <2>1. c = [k \in 1..End(t) |-> f(k)]
    BY <1>4 DEF StatementsIn
  <2> HIDE DEF f
  <2>2. \A k \in 1..End(t) : c[k] = f(k)
    BY <2>1
  <2> QED BY <2>2 DEF f
<1> QED
  BY <1>5, <1>6

\* A statement is where no whitespace is, and neither the end nor ENDSEC.
LEMMA StatementsAreAfter ==
  ASSUME NEW t \in Text
  PROVE  \A a \in 1..End(t) : \A i \in StatementsFrom(t)[a] :
           i \in a..Len(t) /\ i >= skip_whitespace(t, a)
<1> DEFINE f == StatementsFrom(t)
           S == {a \in 1..End(t) : \A i \in f[a] : i \in a..Len(t)}
<1>1. Len(t) \in Nat /\ End(t) = Len(t) + 1
  BY EndIs
<1>2. ASSUME NEW a \in 1..End(t), NEW i \in f[a], \A j \in (a + 1)..End(t) : j \in S
      PROVE  i \in a..Len(t) /\ i >= skip_whitespace(t, a)
  <2> DEFINE k == skip_whitespace(t, a)
             n == skip_statement(t, k).at
  <2>1. f[a] = FromAt(t, f, a)
    BY StatementsFromUnfolds
  <2>2. Symbol(t, k) # "end" /\ i \in {k} \union f[n]
    <3> HIDE DEF f
    <3> QED BY <1>2, <2>1 DEF FromAt
  <2>3. k \in a..Len(t) /\ n \in (k + 1)..End(t) /\ n \in (a + 1)..End(t)
    BY <2>2, NextStatementIs
  <2>4. i = k \/ i \in f[n]
    BY <2>2
  <2>5. n \in S
    BY <1>2, <2>3
  <2> HIDE DEF f, k, n
  <2>6. i \in f[n] => i \in n..Len(t)
    BY <2>5
  <2>7. i \in a..Len(t) /\ i >= k
    BY <1>1, <2>3, <2>4, <2>6
  <2> QED BY <2>7 DEF k
<1>3. 1..End(t) \subseteq S
  <2>1. ASSUME NEW a \in 1..End(t), \A j \in (a + 1)..End(t) : j \in S PROVE a \in S
    BY <1>2, <2>1
  <2>2. End(t) \in Nat
    BY <1>1
  <2> HIDE DEF S
  <2> QED BY <2>1, <2>2, Downward
<1>4. ASSUME NEW a \in 1..End(t) PROVE \A j \in (a + 1)..End(t) : j \in S
  <2>1. \A j \in (a + 1)..End(t) : j \in 1..End(t)
    BY <1>1
  <2> HIDE DEF S
  <2> QED BY <1>3, <2>1
<1> QED
  BY <1>2, <1>4

-----------------------------------------------------------------------------
(* Where the reader may be between two statements.                         *)

\* What comes is what is left of the statements, and what is behind has ended.
Boundary(t, a) ==
    /\ a \in 1..End(t)
    /\ \A i : i \in StatementsFrom(t)[a] <=> i \in Statements(t) /\ i >= a
    /\ \A i \in Statements(t) : i < a => skip_statement(t, i).at <= a

\* A statement ends there, or nothing but whitespace is after one that does.
Closes(t, a) == a = 1 \/ \E s \in Statements(t) : a = skip_statement(t, s).at
Closed(t, e) ==
    /\ Boundary(t, e)
    /\ \E a \in 1..e : Closes(t, a) /\ \A j \in a..(e - 1) : t[j] = "blank"

Before(t, a) == {i \in Statements(t) : i < a}

LEMMA StatementsAre ==
  ASSUME NEW t \in Text
  PROVE  \A i \in Statements(t) : i \in 1..Len(t)
<1>1. 1 \in 1..End(t)
  BY EndIs
<1> QED
  BY <1>1, StatementsAreAfter DEF Statements

\* The beginning is one, and nothing is before it.
LEMMA BeginningIsBoundary ==
  ASSUME NEW t \in Text
  PROVE  Boundary(t, 1) /\ Closes(t, 1) /\ Before(t, 1) = {}
<1>1. 1 \in 1..End(t) /\ Len(t) \in Nat
  BY EndIs
<1>2. \A i \in Statements(t) : i \in Nat /\ i >= 1
  BY <1>1, StatementsAre
<1>3. \A i : i \in StatementsFrom(t)[1] <=> i \in Statements(t)
  BY DEF Statements
<1> QED
  BY <1>1, <1>2, <1>3 DEF Boundary, Closes, Before

\* The next statement is one of the section, and where it ends is the next
\* boundary.
LEMMA StatementGoesOn ==
  ASSUME NEW t \in Text, NEW a, Boundary(t, a),
         Symbol(t, skip_whitespace(t, a)) \notin {"end", "ENDSEC"}
  PROVE  LET k == skip_whitespace(t, a)
             n == skip_statement(t, k).at
         IN  /\ k \in Statements(t) /\ k \in a..Len(t) /\ n \in (k + 1)..End(t)
             /\ Boundary(t, n) /\ Closes(t, n)
             /\ Before(t, n) = Before(t, a) \union {k}
             /\ \A i \in Before(t, a) : i < k
<1> DEFINE k == skip_whitespace(t, a)
           n == skip_statement(t, k).at
           f == StatementsFrom(t)
           S == Statements(t)
<1>1. Len(t) \in Nat /\ End(t) = Len(t) + 1
  BY EndIs
<1>2. a \in 1..End(t) /\ (\A i : i \in f[a] <=> i \in S /\ i >= a)
      /\ \A i \in S : i < a => skip_statement(t, i).at <= a
  BY DEF Boundary
<1>3. Symbol(t, k) # "end"
  OBVIOUS
<1>4. k \in a..Len(t) /\ n \in (k + 1)..End(t) /\ n \in (a + 1)..End(t)
  BY <1>2, <1>3, NextStatementIs
<1>5. f[a] = FromAt(t, f, a)
  BY <1>2, StatementsFromUnfolds
<1>6. \A i : i \in f[a] <=> i = k \/ i \in f[n]
  <2> HIDE DEF f
  <2> QED BY <1>5 DEF FromAt
<1>7. n \in 1..End(t)
  <2> HIDE DEF n, k
  <2> QED BY <1>1, <1>2, <1>4
<1>8. \A i \in f[n] : i \in n..Len(t)
  BY <1>7, StatementsAreAfter
<1>9. \A i \in S : i \in 1..Len(t)
  BY StatementsAre
<1>10. k \in S
  BY <1>2, <1>6
<1>11. \A i \in S : i < n => i < a \/ i = k
  <2> HIDE DEF f, S, k, n
  <2> QED BY <1>1, <1>2, <1>4, <1>6, <1>7, <1>8, <1>9
<1>12. \A i : i \in f[n] <=> i \in S /\ i >= n
  <2> HIDE DEF f, S, k, n
  <2>1. ASSUME NEW i, i \in f[n] PROVE i \in S /\ i >= n
    BY <1>1, <1>2, <1>6, <1>7, <1>8, <2>1
  <2>2. ASSUME NEW i \in S, i >= n PROVE i \in f[n]
    <3>1. i \in 1..Len(t)
      BY <1>9
    <3>2. i >= a /\ i # k
      BY <1>1, <1>2, <1>4, <2>2, <3>1
    <3> QED BY <1>2, <1>6, <3>2
  <2> QED BY <2>1, <2>2
<1>13. \A i \in S : i < n => skip_statement(t, i).at <= n
  <2> SUFFICES ASSUME NEW i \in S, i < n PROVE skip_statement(t, i).at <= n
    OBVIOUS
  <2>1. CASE i = k
    <3>1. n <= n
      <4> HIDE DEF n
      <4> QED BY <1>1, <1>7
    <3> QED BY <2>1, <3>1
  <2>2. CASE i < a
    <3> DEFINE s == skip_statement(t, i).at
    <3>1. i \in 1..End(t)
      BY <1>1, <1>9
    <3>2. s \in i..End(t) /\ s <= a
      BY <1>2, <2>2, <3>1, StatementEndIs
    <3> HIDE DEF s, n, k
    <3>3. s <= n
      BY <1>1, <1>2, <1>4, <3>1, <3>2
    <3> QED BY <3>3 DEF s
  <2> QED BY <1>11, <2>1, <2>2
<1>14. Boundary(t, n)
  BY <1>7, <1>12, <1>13 DEF Boundary
<1>15. Closes(t, n)
  BY <1>10 DEF Closes
<1>16. Before(t, n) = Before(t, a) \union {k}
  <2> HIDE DEF k, n
  <2>1. \A i \in S : i < n <=> i < a \/ i = k
    <3> HIDE DEF S
    <3> QED BY <1>1, <1>2, <1>4, <1>9, <1>11
  <2> QED BY <1>10, <2>1 DEF Before
<1>17. \A i \in Before(t, a) : i < k
  <2> HIDE DEF k, n
  <2>1. \A i \in S : i < a => i < k
    <3> HIDE DEF S
    <3> QED BY <1>1, <1>2, <1>4, <1>9
  <2> QED BY <2>1 DEF Before
<1> QED
  BY <1>4, <1>10, <1>14, <1>15, <1>16, <1>17

\* At the end all statements are behind, whitespace or not.
LEMMA EndIsReached ==
  ASSUME NEW t \in Text, NEW a, Boundary(t, a),
         Symbol(t, skip_whitespace(t, a)) \in {"end", "ENDSEC"}
  PROVE  /\ Before(t, a) = Statements(t)
         /\ skip_whitespace(t, a) \in a..End(t)
         /\ Closes(t, a) => Closed(t, skip_whitespace(t, a))
<1> DEFINE k == skip_whitespace(t, a)
           f == StatementsFrom(t)
           S == Statements(t)
<1>1. Len(t) \in Nat /\ End(t) = Len(t) + 1
  BY EndIs
<1>2. a \in 1..End(t) /\ (\A i : i \in f[a] <=> i \in S /\ i >= a)
      /\ \A i \in S : i < a => skip_statement(t, i).at <= a
  BY DEF Boundary
<1>3. /\ k \in a..End(t) /\ (k <= Len(t) => t[k] # "blank")
      /\ \A j \in a..Len(t) : j < k => t[j] = "blank"
  BY <1>1, <1>2, SkipIs
<1>4. f[a] = {}
  <2>1. f[a] = FromAt(t, f, a)
    BY <1>2, StatementsFromUnfolds
  <2> HIDE DEF f
  <2> QED BY <2>1 DEF FromAt
<1>5. \A i \in S : i \in 1..Len(t)
  BY StatementsAre
<1>6. \A i \in S : i < a
  <2> HIDE DEF f, S
  <2> QED BY <1>1, <1>2, <1>4, <1>5
<1>7. Before(t, a) = S
  BY <1>6 DEF Before
<1>8. k \in 1..End(t)
  <2> HIDE DEF k
  <2> QED BY <1>1, <1>2, <1>3
<1>9. f[k] = {}
  <2>1. skip_whitespace(t, k) = k
    <3> HIDE DEF k
    <3>1. k \in k..End(t) /\ k \in Nat /\ k > 0 /\ \A j \in k..(k - 1) : t[j] = "blank"
      BY <1>1, <1>8
    <3> QED BY <1>3, <3>1, SkipStopsAt
  <2>2. f[k] = FromAt(t, f, k)
    BY <1>8, StatementsFromUnfolds
  <2>3. Symbol(t, k) \in {"end", "ENDSEC"}
    OBVIOUS
  <2> HIDE DEF f, k
  <2> QED BY <2>1, <2>2, <2>3 DEF FromAt
<1>10. \A i \in S : ~(i >= k)
  <2> HIDE DEF k, S
  <2> QED BY <1>1, <1>2, <1>3, <1>5, <1>6
<1>11. ASSUME NEW i \in S PROVE skip_statement(t, i).at <= k
  <2> DEFINE s == skip_statement(t, i).at
  <2>1. i \in 1..End(t)
    BY <1>1, <1>5
  <2>2. s \in i..End(t) /\ s <= a
    BY <1>2, <1>6, <2>1, StatementEndIs
  <2> HIDE DEF s, k
  <2>3. s <= k
    BY <1>1, <1>2, <1>3, <2>1, <2>2
  <2> QED BY <2>3 DEF s
<1>12. Boundary(t, k)
  <2> HIDE DEF k
  <2> QED BY <1>8, <1>9, <1>10, <1>11 DEF Boundary
<1>13. a \in 1..k /\ \A j \in a..(k - 1) : j \in a..Len(t) /\ j < k
  <2> HIDE DEF k
  <2> QED BY <1>1, <1>2, <1>3
<1>14. Closes(t, a) => Closed(t, k)
  <2> HIDE DEF k
  <2> QED BY <1>3, <1>12, <1>13 DEF Closed
<1> QED
  BY <1>3, <1>7, <1>14

\* A run holds nothing but statements: what comes before its end is one, and
\* ends by there.
LEMMA StatementInRun ==
  ASSUME NEW t \in Text, NEW a, NEW e, Boundary(t, a), Closed(t, e),
         skip_whitespace(t, a) < e
  PROVE  /\ Symbol(t, skip_whitespace(t, a)) \notin {"end", "ENDSEC"}
         /\ skip_statement(t, skip_whitespace(t, a)).at <= e
<1> DEFINE k == skip_whitespace(t, a)
           S == Statements(t)
<1>1. Len(t) \in Nat /\ End(t) = Len(t) + 1
  BY EndIs
<1>2. /\ a \in 1..End(t)
      /\ \A i \in S : i < a => skip_statement(t, i).at <= a
  BY DEF Boundary
<1>3. /\ e \in 1..End(t)
      /\ \A i \in S : i < e => skip_statement(t, i).at <= e
  BY DEF Boundary, Closed
<1>4. PICK c \in 1..e : Closes(t, c) /\ \A j \in c..(e - 1) : t[j] = "blank"
  BY DEF Closed
<1>5. k \in a..End(t) /\ (k <= Len(t) => t[k] # "blank") /\ k < e
  BY <1>1, <1>2, SkipIs
<1>6. Symbol(t, k) \notin {"end", "ENDSEC"}
  <2> SUFFICES ASSUME Symbol(t, k) \in {"end", "ENDSEC"} PROVE FALSE
    OBVIOUS
  <2>1. Before(t, a) = S
    BY EndIsReached
  <2>2. c <= a
    <3>1. CASE c = 1
      BY <1>1, <1>2, <3>1
    <3>2. ASSUME NEW s \in S, c = skip_statement(t, s).at PROVE c <= a
      BY <1>2, <2>1, <3>2 DEF Before
    <3> QED BY <1>4, <3>1, <3>2 DEF Closes
  <2> HIDE DEF k
  <2>3. k \in c..(e - 1) /\ k <= Len(t)
    BY <1>1, <1>2, <1>3, <1>4, <1>5, <2>2
  <2> QED BY <1>4, <1>5, <2>3
<1>7. k \in S
  BY <1>6, StatementGoesOn
<1> QED
  BY <1>3, <1>5, <1>6, <1>7

\* Where only whitespace is left of a run all of its statements are behind.
LEMMA RunIsRead ==
  ASSUME NEW t \in Text, NEW a, NEW e \in 1..End(t), Boundary(t, a), a <= e,
         ~(skip_whitespace(t, a) < e)
  PROVE  Before(t, e) = Before(t, a)
<1> DEFINE k == skip_whitespace(t, a)
<1>1. Len(t) \in Nat /\ End(t) = Len(t) + 1
  BY EndIs
<1>2. a \in 1..End(t) /\ (\A i : i \in StatementsFrom(t)[a] <=> i \in Statements(t) /\ i >= a)
  BY DEF Boundary
<1>3. \A i \in StatementsFrom(t)[a] : i >= k
  BY <1>2, StatementsAreAfter
<1>4. \A i \in Statements(t) : i \in 1..Len(t)
  BY StatementsAre
<1>5. k \in a..End(t) /\ ~(k < e)
  BY <1>1, <1>2, SkipIs
<1> HIDE DEF k
<1>6. \A i \in Statements(t) : i < e <=> i < a
  BY <1>1, <1>2, <1>3, <1>4, <1>5
<1> QED
  BY <1>6 DEF Before

-----------------------------------------------------------------------------
(* What has been read, and one more.                                       *)

\* A table and a count are those of all statements before a.
ReadTo(t, a, table, missed) ==
    /\ table = LastOfEach(t, ReadableIn(t, Before(t, a)))
    /\ missed = Cardinality(UnreadableIn(t, Before(t, a)))

LEMMA MaxIs ==
  ASSUME NEW S, NEW m \in S, \A x \in S : x \in Nat, \A x \in S : x <= m
  PROVE  Max(S) = m
<1> DEFINE c == Max(S)
<1>1. \A x \in S : m >= x
  OBVIOUS
<1>2. c \in S /\ \A x \in S : c >= x
  BY <1>1 DEF Max
<1> HIDE DEF c
<1>3. c = m
  BY <1>2
<1> QED
  BY <1>3 DEF c

\* A later place is put in the table.
LEMMA LastOfOneMore ==
  ASSUME NEW t, NEW places, NEW k \in Nat, \A i \in places : i \in Nat /\ i < k
  PROVE  LastOfEach(t, places \union {k}) =
           Put(LastOfEach(t, places), Numeral[t[k + 1]], k)
<1> DEFINE id(i) == Numeral[t[i + 1]]
           more == places \union {k}
           L(S, n) == Max({i \in S : id(i) = n})
           f == [n \in {id(i) : i \in places} |-> L(places, n)]
           g == [n \in {id(i) : i \in more} |-> L(more, n)]
           h == Put(f, id(k), k)
<1>1. LastOfEach(t, places) = f /\ LastOfEach(t, more) = g
  BY DEF LastOfEach
<1>2. L(more, id(k)) = k
  <2> DEFINE S == {i \in more : id(i) = id(k)}
  <2>1. k \in S /\ (\A x \in S : x \in Nat) /\ \A x \in S : x <= k
    OBVIOUS
  <2> HIDE DEF S
  <2>2. Max(S) = k
    BY <2>1, MaxIs
  <2> QED BY <2>2 DEF S
<1>3. ASSUME NEW n, n # id(k) PROVE L(more, n) = L(places, n)
  <2>1. {i \in more : id(i) = n} = {i \in places : id(i) = n}
    BY <1>3
  <2> QED BY <2>1
<1>4. {id(i) : i \in more} = {id(i) : i \in places} \union {id(k)}
  OBVIOUS
<1> HIDE DEF id, more, L
<1>5. h = [n \in {id(i) : i \in places} \union {id(k)} |-> IF n = id(k) THEN k ELSE f[n]]
  BY DEF Put
<1>6. ASSUME NEW n \in {id(i) : i \in places} \union {id(k)}
      PROVE  L(more, n) = IF n = id(k) THEN k ELSE f[n]
  <2>1. CASE n = id(k)
    BY <1>2, <2>1
  <2>2. CASE n # id(k)
    <3>1. n \in {id(i) : i \in places}
      BY <1>6, <2>2
    <3>2. f[n] = L(places, n)
      BY <3>1
    <3> HIDE DEF f
    <3> QED BY <1>3, <2>2, <3>2
  <2> QED BY <2>1, <2>2
<1>7. g = h
  <2> HIDE DEF f, h
  <2> QED BY <1>4, <1>5, <1>6
<1> QED
  BY <1>1, <1>7 DEF id, more

\* One more instance is read, or one more is not.
LEMMA ReadOneMore ==
  ASSUME NEW t \in Text, NEW a, NEW b, NEW k, NEW table, NEW missed,
         ReadTo(t, a, table, missed),
         Before(t, b) = Before(t, a) \union {k}, \A i \in Before(t, a) : i < k,
         k \in 1..Len(t), t[k] = "hash"
  PROVE  /\ read_instance(t, k).ok => ReadTo(t, b, Put(table, Numeral[t[k + 1]], k), missed)
         /\ ~read_instance(t, k).ok => ReadTo(t, b, table, missed + 1)
<1> DEFINE S == Before(t, a)
           ok(i) == read_instance(t, i).ok
           R == ReadableIn(t, S)
           U == UnreadableIn(t, S)
<1>1. Len(t) \in Nat
  BY EndIs
<1>2. \A i \in S : i \in 1..Len(t) /\ i < k
  BY StatementsAre DEF Before
<1>3. Before(t, b) = S \union {k}
  OBVIOUS
<1>4. table = LastOfEach(t, R) /\ missed = Cardinality(U)
  BY DEF ReadTo
<1>5. R = {i \in S : t[i] = "hash" /\ ok(i)} /\ U = {i \in S : t[i] = "hash" /\ ~ok(i)}
  BY DEF ReadableIn, UnreadableIn
<1>6. /\ ReadableIn(t, S \union {k}) = {i \in S \union {k} : t[i] = "hash" /\ ok(i)}
      /\ UnreadableIn(t, S \union {k}) = {i \in S \union {k} : t[i] = "hash" /\ ~ok(i)}
  BY DEF ReadableIn, UnreadableIn
<1> HIDE DEF S, ok, R, U
<1>7. CASE ok(k)
  <2>1. ReadableIn(t, S \union {k}) = R \union {k} /\ UnreadableIn(t, S \union {k}) = U
    BY <1>5, <1>6, <1>7
  <2>2. (\A i \in R : i \in Nat /\ i < k) /\ k \in Nat
    BY <1>1, <1>2, <1>5
  <2>3. LastOfEach(t, R \union {k}) = Put(LastOfEach(t, R), Numeral[t[k + 1]], k)
    BY <2>2, LastOfOneMore
  <2> QED BY <1>3, <1>4, <1>7, <2>1, <2>3 DEF ReadTo, ok
<1>8. CASE ~ok(k)
  <2>1. ReadableIn(t, S \union {k}) = R /\ UnreadableIn(t, S \union {k}) = U \union {k}
    BY <1>5, <1>6, <1>8
  <2>2. IsFiniteSet(U)
    <3>1. IsFiniteSet(1..Len(t))
      <4>1. 1 \in Int /\ Len(t) \in Int
        BY <1>1
      <4> QED BY <4>1, FS_Interval
    <3>2. U \subseteq 1..Len(t)
      BY <1>2, <1>5
    <3> QED BY <3>1, <3>2, FS_Subset
  <2>3. k \notin U
    BY <1>1, <1>2, <1>5
  <2>4. Cardinality(U \union {k}) = Cardinality(U) + 1
    BY <2>2, <2>3, FS_AddElement
  <2> QED BY <1>3, <1>4, <1>8, <2>1, <2>4 DEF ReadTo, ok
<1> QED
  BY <1>7, <1>8 DEF ok

LEMMA NothingRead ==
  ASSUME NEW t \in Text
  PROVE  ReadTo(t, 1, Empty, 0)
<1>1. Before(t, 1) = {}
  BY BeginningIsBoundary
<1>2. ReadableIn(t, {}) = {} /\ UnreadableIn(t, {}) = {}
  BY DEF ReadableIn, UnreadableIn
<1>3. LastOfEach(t, {}) = Empty
  <2> DEFINE id(i) == Numeral[t[i + 1]]
             f == [n \in {id(i) : i \in {}} |-> Max({i \in {} : id(i) = n})]
             e == [n \in {} |-> Nothing]
  <2>1. LastOfEach(t, {}) = f /\ Empty = e
    BY DEF LastOfEach, Empty
  <2>2. {id(i) : i \in {}} = {}
    OBVIOUS
  <2>3. f = e
    BY <2>2
  <2> QED BY <2>1, <2>3
<1>4. Cardinality({}) = 0
  BY FS_EmptySet
<1> QED
  BY <1>1, <1>2, <1>3, <1>4 DEF ReadTo

-----------------------------------------------------------------------------
(* The reader keeps to the text.                                           *)

\* Whatever the section holds the reader and the runs are in it, a run has its
\* beginning before its end, and the reader of a run does not leave it.
InPlace ==
    /\ text \in Texts
    /\ cutter \in [start : 1..End(text), at : 1..End(text)]
    /\ cutter.start <= cutter.at
    /\ at \in 1..End(text)
    /\ runs \in Seq([first : 1..End(text), end : 1..End(text)])
    /\ \A i \in 1..Len(runs) : runs[i].first <= runs[i].end
    /\ phase = "run" => runs # <<>> /\ at <= runs[1].end

LEMMA TextIs ==
  ASSUME text \in Texts
  PROVE  /\ text \in Text /\ Len(text) \in Nat /\ End(text) = Len(text) + 1
         /\ \A i \in 1..Len(text) : i \in Instances
<1>1. text \in Text /\ DOMAIN text \subseteq Instances
  BY TextsAssumption DEF Text
<1>2. Len(text) \in Nat /\ End(text) = Len(text) + 1
  BY <1>1, EndIs
<1>3. DOMAIN text = 1..Len(text)
  BY <1>1 DEF Text
<1> QED
  BY <1>1, <1>2, <1>3

LEMMA TextBeginsItself ==
  ASSUME NEW t \in Text
  PROVE  Begins(t, t, End(t))
<1>1. Len(t) \in Nat /\ End(t) = Len(t) + 1
  BY EndIs
<1> QED
  BY <1>1 DEF Begins

\* The first run, and the text its reader has.
LEMMA FirstRunIs ==
  ASSUME InPlace, runs # <<>>
  PROVE  /\ runs[1].first \in 1..End(text) /\ runs[1].end \in 1..End(text)
         /\ runs[1].first <= runs[1].end
         /\ Begins(RunText, text, runs[1].end)
<1>1. runs \in Seq([first : 1..End(text), end : 1..End(text)]) /\ Len(runs) \in Nat
  BY DEF InPlace
<1>2. 1 \in 1..Len(runs)
  BY <1>1
<1>3. runs[1] \in [first : 1..End(text), end : 1..End(text)]
  <2> DEFINE R == [first : 1..End(text), end : 1..End(text)]
  <2>1. runs \in Seq(R)
    BY <1>1
  <2> HIDE DEF R
  <2>2. runs[1] \in R
    BY <1>1, <1>2, <2>1
  <2> QED BY <2>2 DEF R
<1>4. runs[1].first \in 1..End(text) /\ runs[1].end \in 1..End(text)
  BY <1>3
<1>5. runs[1].first <= runs[1].end
  BY <1>2 DEF InPlace
<1>6. text \in Text
  BY TextIs DEF InPlace
<1>7. Begins(RunText, text, runs[1].end)
  BY <1>4, <1>6, RunTextBegins DEF RunText
<1> QED
  BY <1>4, <1>5, <1>7

\* Reading an instance gets the reader on within its text, and puts in the
\* table what is for it.
LEMMA InstanceStays ==
  ASSUME text \in Texts, NEW p, NEW e, Begins(p, text, e), NEW i \in 1..(e - 1), Instance(p, i)
  PROVE  /\ at' \in (i + 1)..e /\ at' \in 1..End(text)
         /\ [TableNext]_tableVars
<1> DEFINE x == read_instance(p, i)
<1>1. /\ p \in Text /\ Len(text) \in Nat /\ End(text) = Len(text) + 1
      /\ e \in 1..End(text) /\ Len(p) = e - 1 /\ End(p) = e
  BY BeginsEnds
<1>2. i \in 1..Len(p) /\ i \in 1..Len(text)
  BY <1>1
<1>3. /\ x.at \in (i + 1)..e
      /\ x.ok => x.id \in Ids /\ x.entity = i
  BY <1>1, <1>2, InstanceIs
<1>4. at' = x.at /\ ((x.ok /\ Insert(x.id, x.entity)) \/ UNCHANGED tableVars)
  BY DEF Instance
<1>5. i \in Instances
  BY <1>2, TextIs
<1> HIDE DEF x
<1>6. [TableNext]_tableVars
  BY <1>3, <1>4, <1>5 DEF TableNext
<1> QED
  BY <1>1, <1>2, <1>3, <1>4, <1>6

LEMMA InitIsInPlace == Init => InPlace
<1> SUFFICES ASSUME Init PROVE InPlace
  OBVIOUS
<1>1. /\ text \in Texts /\ cutter = [start |-> 1, at |-> 1] /\ at = 1 /\ runs = <<>>
      /\ phase # "run"
  BY DEF Init, NoRuns
<1>2. 1 \in 1..End(text)
  BY <1>1, TextIs
<1>3. /\ cutter \in [start : 1..End(text), at : 1..End(text)]
      /\ cutter.start <= cutter.at
  BY <1>1, <1>2
<1> QED
  BY <1>1, <1>2, <1>3 DEF InPlace

\* A run more.
LEMMA AnotherRun ==
  ASSUME InPlace, NEW e \in 1..End(text), cutter.start <= e
  PROVE  LET more == Append(runs, RunOf(e))
         IN  /\ more \in Seq([first : 1..End(text), end : 1..End(text)])
             /\ \A i \in 1..Len(more) : more[i].first <= more[i].end
             /\ more # <<>> /\ Len(more) = Len(runs) + 1
             /\ more[Len(runs) + 1] = RunOf(e)
             /\ \A i \in 1..Len(runs) : more[i] = runs[i]
<1> DEFINE R == [first : 1..End(text), end : 1..End(text)]
           more == Append(runs, RunOf(e))
<1>1. runs \in Seq(R) /\ Len(runs) \in Nat
  BY DEF InPlace
<1>2. cutter.start \in 1..End(text)
  BY DEF InPlace
<1>3. RunOf(e) \in R /\ RunOf(e).first <= RunOf(e).end
  BY <1>2 DEF RunOf
<1> HIDE DEF R
<1>4. /\ more \in Seq(R) /\ more # <<>> /\ Len(more) = Len(runs) + 1
      /\ more[Len(runs) + 1] = RunOf(e)
      /\ \A i \in 1..Len(runs) : more[i] = runs[i]
  BY <1>1, <1>3
<1>5. \A i \in 1..Len(more) : i \in 1..Len(runs) \/ i = Len(runs) + 1
  <2> HIDE DEF more
  <2> QED BY <1>1, <1>4
<1>6. \A i \in 1..Len(more) : more[i].first <= more[i].end
  <2> HIDE DEF more
  <2> QED BY <1>3, <1>4, <1>5 DEF InPlace
<1> QED
  BY <1>4, <1>6 DEF R

\* And one less.
LEMMA LaterRuns ==
  ASSUME InPlace, runs # <<>>
  PROVE  /\ Tail(runs) \in Seq([first : 1..End(text), end : 1..End(text)])
         /\ Len(Tail(runs)) = Len(runs) - 1 /\ Len(runs) \in Nat /\ Len(runs) > 0
         /\ \A i \in 1..Len(Tail(runs)) : Tail(runs)[i] = runs[i + 1] /\ i + 1 \in 1..Len(runs)
<1> DEFINE R == [first : 1..End(text), end : 1..End(text)]
<1>1. runs \in Seq(R) /\ Len(runs) \in Nat
  BY DEF InPlace
<1> HIDE DEF R
<1> QED
  BY <1>1 DEF R

\* Where a statement is to be cut, or the end.
LEMMA CutIsWithin ==
  ASSUME InPlace
  PROVE  /\ ToCut \in cutter.at..End(text) /\ ToCut \in 1..End(text)
         /\ cutter.start <= ToCut
         /\ Symbol(text, ToCut) # "end" =>
              /\ skip_statement(text, ToCut).at \in 1..End(text)
              /\ cutter.start <= skip_statement(text, ToCut).at
<1>1. /\ text \in Text /\ Len(text) \in Nat /\ End(text) = Len(text) + 1
  BY TextIs DEF InPlace
<1>2. cutter.at \in 1..End(text) /\ cutter.start \in 1..End(text) /\ cutter.start <= cutter.at
  BY DEF InPlace
<1> DEFINE c == cutter.at
           b == cutter.start
           k == ToCut
           n == skip_statement(text, k).at
<1>3. c \in 1..End(text) /\ b \in 1..End(text) /\ b <= c
  BY <1>2
<1> HIDE DEF c, b
<1>4. k = skip_whitespace(text, c)
  BY DEF ToCut, c
<1> HIDE DEF k
<1>5. k \in c..End(text)
  BY <1>1, <1>3, <1>4, SkipIs
<1>6. k \in 1..End(text) /\ b <= k
  BY <1>1, <1>3, <1>5
<1>7. n \in k..End(text)
  BY <1>1, <1>6, StatementEndIs
<1> HIDE DEF n
<1>8. n \in 1..End(text) /\ b <= n
  BY <1>1, <1>3, <1>6, <1>7
<1> QED
  BY <1>5, <1>6, <1>8 DEF b, c, k, n

LEMMA CutEndsInPlace ==
  ASSUME InPlace, NEW e \in 1..End(text), cutter.start <= e, CutEndsAt(e),
         UNCHANGED <<tableVars, text, target, at, skipped>>
  PROVE  InPlace'
<1>1. /\ cutter' = cutter /\ text' = text /\ at' = at
      /\ runs' = Append(runs, RunOf(e)) \/ runs' = runs
      /\ phase' # "run"
  BY DEF CutEndsAt
<1>2. /\ runs' \in Seq([first : 1..End(text), end : 1..End(text)])
      /\ \A i \in 1..Len(runs') : runs'[i].first <= runs'[i].end
  <2>1. CASE runs' = runs
    BY <2>1 DEF InPlace
  <2>2. CASE runs' = Append(runs, RunOf(e))
    BY <2>2, AnotherRun
  <2> QED BY <1>1, <2>1, <2>2
<1> QED
  BY <1>1, <1>2 DEF InPlace

\* Every step leaves the reader in the text, and does to the table what
\* TableNext allows.
LEMMA NextStaysInPlace ==
  ASSUME InPlace, [Next]_vars
  PROVE  InPlace' /\ [TableNext]_tableVars
<1>1. /\ text \in Texts /\ text \in Text /\ Len(text) \in Nat /\ End(text) = Len(text) + 1
  BY TextIs DEF InPlace
<1>2. at \in 1..End(text) /\ cutter.start \in 1..End(text) /\ cutter.at \in 1..End(text)
  BY DEF InPlace
<1>3. CASE Section
  BY <1>3 DEF Section, InPlace
<1>4. CASE ReadInstance
  <2> DEFINE k == skip_whitespace(text, at)
  <2>1. Symbol(text, k) = "hash" /\ Instance(text, k) /\ UNCHANGED <<text, target, cutter, runs>>
        /\ phase' = phase /\ phase = "statements"
    BY <1>4 DEF ReadInstance
  <2>2. k \in at..End(text)
    BY <1>1, <1>2, SkipIs
  <2> HIDE DEF k
  <2>3. k \in 1..(End(text) - 1)
    BY <1>1, <1>2, <2>1, <2>2, SymbolWithin
  <2>4. at' \in 1..End(text) /\ [TableNext]_tableVars
    BY <1>1, <2>1, <2>3, TextBeginsItself, InstanceStays
  <2> QED BY <2>1, <2>4 DEF InPlace
<1>5. CASE ReadOther
  <2> DEFINE k == skip_whitespace(text, at)
             n == skip_statement(text, k).at
  <2>1. /\ at' = n /\ UNCHANGED <<tableVars, text, target, cutter, runs, skipped>>
        /\ phase' # "run"
    BY <1>5 DEF ReadOther
  <2>2. k \in at..End(text)
    BY <1>1, <1>2, SkipIs
  <2> HIDE DEF k
  <2>3. k \in 1..End(text)
    BY <1>1, <1>2, <2>2
  <2>4. n \in k..End(text)
    BY <1>1, <2>3, StatementEndIs
  <2> HIDE DEF n
  <2>5. at' \in 1..End(text)
    BY <1>1, <2>1, <2>3, <2>4
  <2> QED BY <2>1, <2>5 DEF InPlace
<1>6. CASE EndSection
  BY <1>6 DEF EndSection, InPlace
<1>7. CASE CutInstance
  <2> DEFINE n == skip_statement(text, ToCut).at
  <2>1. Symbol(text, ToCut) = "hash" /\ UNCHANGED <<tableVars, text, target, at, skipped>>
    BY <1>7 DEF CutInstance
  <2>2. n \in 1..End(text) /\ cutter.start <= n
    BY <2>1, CutIsWithin
  <2>3. \/ CutEndsAt(n)
        \/ /\ runs' = Append(runs, RunOf(n)) /\ cutter' = [start |-> n, at |-> n]
           /\ phase' = phase /\ phase = "cutting"
        \/ cutter' = [cutter EXCEPT !.at = n] /\ runs' = runs /\ phase' = phase
    BY <1>7 DEF CutInstance
  <2> HIDE DEF n
  <2>4. CASE CutEndsAt(n)
    BY <2>1, <2>2, <2>4, CutEndsInPlace
  <2>5. CASE /\ runs' = Append(runs, RunOf(n)) /\ cutter' = [start |-> n, at |-> n]
             /\ phase' = phase /\ phase = "cutting"
    <3>1. /\ runs' \in Seq([first : 1..End(text), end : 1..End(text)])
          /\ \A i \in 1..Len(runs') : runs'[i].first <= runs'[i].end
      BY <2>2, <2>5, AnotherRun
    <3>2. cutter' \in [start : 1..End(text), at : 1..End(text)] /\ cutter'.start <= cutter'.at
      BY <1>1, <2>2, <2>5
    <3> QED BY <2>1, <2>5, <3>1, <3>2 DEF InPlace
  <2>6. CASE cutter' = [cutter EXCEPT !.at = n] /\ runs' = runs /\ phase' = phase
    <3>1. cutter' \in [start : 1..End(text), at : 1..End(text)]
          /\ cutter'.start = cutter.start /\ cutter'.at = n
      BY <2>2, <2>6 DEF InPlace
    <3> QED BY <2>1, <2>2, <2>6, <3>1 DEF InPlace
  <2>7. UNCHANGED tableVars
    BY <2>1
  <2> QED BY <2>3, <2>4, <2>5, <2>6, <2>7
<1>8. CASE CutToTheEnd
  <2>1. CutEndsAt(ToCut) /\ UNCHANGED <<tableVars, text, target, at, skipped>>
    BY <1>8 DEF CutToTheEnd
  <2>2. UNCHANGED tableVars
    BY <2>1
  <2> QED BY <2>1, <2>2, CutIsWithin, CutEndsInPlace
<1>9. CASE CutNothing
  <2>1. /\ runs' = <<>> /\ phase' # "run"
        /\ UNCHANGED <<tableVars, text, target, cutter, at, skipped>>
    BY <1>9 DEF CutNothing, NoRuns
  <2> QED BY <2>1 DEF InPlace
<1>10. CASE StartRun
  <2>1. /\ runs # <<>> /\ at' = runs[1].first
        /\ UNCHANGED <<tableVars, text, target, cutter, runs, skipped>>
    BY <1>10 DEF StartRun, NoRuns
  <2>2. runs[1].first \in 1..End(text) /\ runs[1].first <= runs[1].end
    BY <2>1, FirstRunIs
  <2> QED BY <2>1, <2>2 DEF InPlace
<1>11. CASE ReadInRun
  <2> DEFINE k == skip_whitespace(RunText, at)
             e == runs[1].end
  <2>1. /\ phase = "run" /\ k < e /\ Instance(RunText, k)
        /\ UNCHANGED <<text, target, cutter, runs, phase>>
    BY <1>11 DEF ReadInRun
  <2>2. runs # <<>> /\ at <= e
    BY <2>1 DEF InPlace
  <2>3. Begins(RunText, text, e) /\ e \in 1..End(text)
    BY <2>2, FirstRunIs
  <2>4. RunText \in Text /\ Len(RunText) = e - 1 /\ End(RunText) = e
    BY <2>3, BeginsEnds
  <2>5. k \in at..e
    <3> HIDE DEF e
    <3>1. at \in Nat /\ at > 0 /\ at <= End(RunText)
      BY <1>1, <1>2, <2>2, <2>4
    <3> QED BY <2>4, <3>1, SkipIs
  <2> HIDE DEF k, e
  <2>6. k \in 1..(e - 1)
    BY <1>1, <1>2, <2>1, <2>3, <2>5
  <2>7. at' \in (k + 1)..e /\ at' \in 1..End(text) /\ [TableNext]_tableVars
    BY <1>1, <2>1, <2>3, <2>6, InstanceStays
  <2>8. at' <= e
    BY <1>1, <2>3, <2>6, <2>7
  <2> QED BY <2>1, <2>2, <2>7, <2>8 DEF InPlace, e
<1>12. CASE EndRun
  <2>1. /\ phase = "run" /\ at' = runs[1].end /\ runs' = Tail(runs) /\ phase' # "run"
        /\ UNCHANGED <<tableVars, text, target, cutter, skipped>>
    BY <1>12 DEF EndRun, AfterRun
  <2>2. runs # <<>>
    BY <2>1 DEF InPlace
  <2>3. at' \in 1..End(text)
    BY <2>1, <2>2, FirstRunIs
  <2>4. /\ Tail(runs) \in Seq([first : 1..End(text), end : 1..End(text)])
        /\ \A i \in 1..Len(Tail(runs)) : Tail(runs)[i].first <= Tail(runs)[i].end
    <3>1. \A i \in 1..Len(Tail(runs)) : Tail(runs)[i] = runs[i + 1] /\ i + 1 \in 1..Len(runs)
      BY <2>2, LaterRuns
    <3> QED BY <2>2, <3>1, LaterRuns DEF InPlace
  <2> QED BY <2>1, <2>3, <2>4 DEF InPlace
<1>13. CASE UNCHANGED vars
  <2>1. UNCHANGED tableVars /\ UNCHANGED <<text, cutter, at, runs, phase>>
    BY <1>13 DEF vars, readVars
  <2> QED BY <2>1 DEF InPlace
<1> QED
  BY <1>3, <1>4, <1>5, <1>6, <1>7, <1>8, <1>9, <1>10, <1>11, <1>12, <1>13 DEF Next

-----------------------------------------------------------------------------
(* What is behind the reader is read.                                      *)

\* The runs come one after the other, each up to where a statement ends or
\* only whitespace follows one that does.
Chained(t, rs, from) ==
    \A i \in 1..Len(rs) :
      /\ Closed(t, rs[i].end)
      /\ rs[i].first = IF i = 1 THEN from ELSE rs[i - 1].end

LastEnd(rs) == IF rs = <<>> THEN 1 ELSE rs[Len(rs)].end

ReadWell ==
    /\ phase \in {"opening", "cutting"} =>
         /\ at = 1
         /\ Boundary(text, cutter.at) /\ Closes(text, cutter.at)
         /\ Chained(text, runs, 1)
         /\ cutter.start = LastEnd(runs)
    /\ phase = "runs" => runs # <<>> /\ Chained(text, runs, at)
    /\ phase = "run" => Chained(text, runs, runs[1].first)
    /\ phase # "done" => Boundary(text, at) /\ ReadTo(text, at, latest, skipped)
    /\ phase = "done" =>
         /\ latest = LastOfEach(text, ReadableIn(text, Statements(text)))
         /\ skipped = Cardinality(UnreadableIn(text, Statements(text)))

StepInv == InPlace /\ (AllInstances(text) => ReadWell)

LEMMA InitIsReadWell == Init => ReadWell
<1> SUFFICES ASSUME Init PROVE ReadWell
  OBVIOUS
<1>1. /\ text \in Texts /\ cutter.at = 1 /\ cutter.start = 1 /\ at = 1 /\ runs = <<>>
      /\ phase = "opening" /\ latest = Empty /\ skipped = 0
  BY DEF Init, NoRuns, TableInit
<1>2. text \in Text
  BY <1>1, TextIs
<1>3. Boundary(text, 1) /\ Closes(text, 1) /\ ReadTo(text, 1, Empty, 0)
  BY <1>2, BeginningIsBoundary, NothingRead
<1>4. Chained(text, runs, 1) /\ LastEnd(runs) = 1
  BY <1>1 DEF Chained, LastEnd
<1> QED
  BY <1>1, <1>3, <1>4 DEF ReadWell

\* An instance read where a statement of the text begins that is an instance:
\* what is behind the reader then is read, also by the reader of a run that
\* goes on to where that statement ends.
LEMMA InstanceReadsOn ==
  ASSUME text \in Texts, AllInstances(text),
         Boundary(text, at), ReadTo(text, at, latest, skipped),
         Symbol(text, skip_whitespace(text, at)) \notin {"end", "ENDSEC"},
         NEW p, NEW e, Begins(p, text, e),
         skip_statement(text, skip_whitespace(text, at)).at <= e,
         Instance(p, skip_whitespace(text, at)), text' = text
  PROVE  Boundary(text, at') /\ ReadTo(text, at', latest', skipped')
<1> DEFINE k == skip_whitespace(text, at)
           n == skip_statement(text, k).at
           x == read_instance(text, k)
<1>1. text \in Text /\ Len(text) \in Nat /\ End(text) = Len(text) + 1
  BY TextIs
<1>2. /\ k \in Statements(text) /\ n \in (k + 1)..End(text)
      /\ Boundary(text, n)
      /\ Before(text, n) = Before(text, at) \union {k}
      /\ \A i \in Before(text, at) : i < k
  BY <1>1, StatementGoesOn
<1>3. Instance(p, k) /\ n <= e
  OBVIOUS
<1>4. e \in 1..End(text)
  BY BeginsEnds
<1> HIDE DEF k
<1>5. k \in 1..Len(text) /\ text[k] = "hash" /\ x.at = n
  BY <1>1, <1>2, StatementsAre DEF AllInstances, ReadWhole
<1> HIDE DEF n
<1>6. k \in 1..(e - 1)
  BY <1>1, <1>2, <1>3, <1>4, <1>5
<1>7. read_instance(p, k) = x
  <2>1. x.at <= e
    BY <1>3, <1>5
  <2> QED BY <1>6, <2>1, InstanceInBeginning
<1>8. x.ok \in BOOLEAN /\ (x.ok => x.id = Numeral[text[k + 1]] /\ x.entity = k)
  BY <1>1, <1>5, InstanceIs
<1>9. /\ at' = x.at
      /\ \/ x.ok /\ Insert(x.id, x.entity) /\ skipped' = skipped
         \/ ~x.ok /\ skipped' = skipped + 1 /\ UNCHANGED tableVars
  BY <1>3, <1>7 DEF Instance
<1>10. /\ x.ok => ReadTo(text, n, Put(latest, Numeral[text[k + 1]], k), skipped)
       /\ ~x.ok => ReadTo(text, n, latest, skipped + 1)
  BY <1>1, <1>2, <1>5, ReadOneMore
<1> HIDE DEF x
<1>11. CASE x.ok /\ Insert(x.id, x.entity) /\ skipped' = skipped
  <2>1. latest' = Put(latest, Numeral[text[k + 1]], k)
    BY <1>8, <1>11 DEF Insert
  <2> QED BY <1>2, <1>5, <1>9, <1>10, <1>11, <2>1
<1>12. CASE ~x.ok /\ skipped' = skipped + 1 /\ UNCHANGED tableVars
  <2>1. latest' = latest
    BY <1>12 DEF tableVars
  <2> QED BY <1>2, <1>5, <1>9, <1>10, <1>12, <2>1
<1> QED
  BY <1>9, <1>11, <1>12

\* A run more is chained to those before it.
LEMMA ChainedOnceMore ==
  ASSUME InPlace, Chained(text, runs, 1), cutter.start = LastEnd(runs),
         NEW e \in 1..End(text), cutter.start <= e, Closed(text, e)
  PROVE  LET more == Append(runs, RunOf(e))
         IN  Chained(text, more, 1) /\ LastEnd(more) = e
<1> DEFINE more == Append(runs, RunOf(e))
<1>1. /\ more # <<>> /\ Len(more) = Len(runs) + 1
      /\ more[Len(runs) + 1] = RunOf(e)
      /\ \A i \in 1..Len(runs) : more[i] = runs[i]
  BY AnotherRun
<1>2. RunOf(e).first = cutter.start /\ RunOf(e).end = e
  BY DEF RunOf
<1>3. Len(runs) \in Nat /\ (runs = <<>> <=> Len(runs) = 0)
  BY DEF InPlace
<1> HIDE DEF more
<1>4. LastEnd(more) = e
  BY <1>1, <1>2 DEF LastEnd
<1>5. ASSUME NEW i \in 1..Len(more)
      PROVE  /\ Closed(text, more[i].end)
             /\ more[i].first = IF i = 1 THEN 1 ELSE more[i - 1].end
  <2>1. CASE i \in 1..Len(runs)
    <3>1. more[i] = runs[i] /\ (i # 1 => more[i - 1] = runs[i - 1])
      BY <1>1, <1>3, <2>1
    <3>2. Closed(text, runs[i].end) /\ runs[i].first = IF i = 1 THEN 1 ELSE runs[i - 1].end
      BY <2>1 DEF Chained
    <3> QED BY <3>1, <3>2
  <2>2. CASE i = Len(runs) + 1
    <3>1. more[i].end = e /\ more[i].first = cutter.start
      BY <1>1, <1>2, <2>2
    <3>2. CASE i = 1
      <4>1. runs = <<>>
        BY <1>3, <2>2, <3>2
      <4> QED BY <3>1, <3>2, <4>1 DEF LastEnd
    <3>3. CASE i # 1
      <4>1. runs # <<>> /\ i - 1 = Len(runs) /\ Len(runs) \in 1..Len(runs)
        BY <1>3, <2>2, <3>3
      <4>2. more[i - 1] = runs[Len(runs)]
        BY <1>1, <4>1
      <4> QED BY <3>1, <3>3, <4>1, <4>2 DEF LastEnd
    <3> QED BY <3>2, <3>3
  <2>3. i \in 1..Len(runs) \/ i = Len(runs) + 1
    BY <1>1, <1>3
  <2> QED BY <2>1, <2>2, <2>3
<1>6. Chained(text, more, 1)
  BY <1>5 DEF Chained
<1> QED
  BY <1>4, <1>6 DEF more

\* The first of the runs chained begins where the chain does.
LEMMA ChainedBegins ==
  ASSUME InPlace, runs # <<>>, NEW f, Chained(text, runs, f)
  PROVE  /\ runs[1].first = f /\ Closed(text, runs[1].end)
         /\ Chained(text, Tail(runs), runs[1].end)
<1>1. /\ Len(Tail(runs)) = Len(runs) - 1 /\ Len(runs) \in Nat /\ Len(runs) > 0
      /\ \A i \in 1..Len(Tail(runs)) : Tail(runs)[i] = runs[i + 1] /\ i + 1 \in 1..Len(runs)
  BY LaterRuns
<1>2. 1 \in 1..Len(runs)
  BY <1>1
<1>3. runs[1].first = f /\ Closed(text, runs[1].end)
  BY <1>2 DEF Chained
<1> DEFINE rest == Tail(runs)
<1> HIDE DEF rest
<1>4. ASSUME NEW i \in 1..Len(rest)
      PROVE  /\ Closed(text, rest[i].end)
             /\ rest[i].first = IF i = 1 THEN runs[1].end ELSE rest[i - 1].end
  <2>1. rest[i] = runs[i + 1] /\ i + 1 \in 1..Len(runs)
    BY <1>1 DEF rest
  <2>2. i # 1 => rest[i - 1] = runs[i]
    <3> SUFFICES ASSUME i # 1 PROVE rest[i - 1] = runs[i]
      OBVIOUS
    <3>1. i - 1 \in 1..Len(rest) /\ (i - 1) + 1 = i
      BY <1>1 DEF rest
    <3>2. rest[i - 1] = runs[(i - 1) + 1]
      BY <1>1, <3>1 DEF rest
    <3> QED BY <3>1, <3>2
  <2>3. i + 1 # 1 /\ (i + 1) - 1 = i
    BY <1>1 DEF rest
  <2>4. Closed(text, runs[i + 1].end) /\ runs[i + 1].first = runs[(i + 1) - 1].end
    BY <2>1, <2>3 DEF Chained
  <2> QED BY <2>1, <2>2, <2>3, <2>4
<1>5. Chained(text, rest, runs[1].end)
  BY <1>4 DEF Chained
<1> QED
  BY <1>3, <1>5 DEF rest

\* What is left when the end is reached is a run as well.
LEMMA CutEndsReadWell ==
  ASSUME InPlace, ReadWell, phase = "cutting",
         NEW e \in 1..End(text), cutter.start <= e, Closed(text, e), CutEndsAt(e),
         UNCHANGED <<tableVars, text, target, at, skipped>>
  PROVE  ReadWell'
<1>1. /\ at = 1 /\ Chained(text, runs, 1) /\ cutter.start = LastEnd(runs)
      /\ Boundary(text, at) /\ ReadTo(text, at, latest, skipped)
  BY DEF ReadWell
<1>2. /\ text' = text /\ at' = at /\ latest' = latest /\ skipped' = skipped
  BY DEF tableVars
<1>3. /\ runs' = Append(runs, RunOf(e)) \/ runs' = runs
      /\ phase' = IF runs' = <<>> THEN "statements" ELSE "runs"
  BY DEF CutEndsAt, NoRuns
<1>4. Chained(text, runs', 1)
  BY <1>1, <1>3, ChainedOnceMore
<1>5. CASE runs' = <<>>
  BY <1>1, <1>2, <1>3, <1>5 DEF ReadWell
<1>6. CASE runs' # <<>>
  BY <1>1, <1>2, <1>3, <1>4, <1>6 DEF ReadWell
<1> QED
  BY <1>5, <1>6

\* In a section of nothing but instances every step goes on from what has been
\* read to what is read next.
LEMMA NextReadsWell ==
  ASSUME InPlace, AllInstances(text), ReadWell, [Next]_vars
  PROVE  ReadWell'
<1>1. /\ text \in Texts /\ text \in Text /\ Len(text) \in Nat /\ End(text) = Len(text) + 1
  BY TextIs DEF InPlace
<1>2. at \in 1..End(text) /\ cutter.start \in 1..End(text) /\ cutter.at \in 1..End(text)
  BY DEF InPlace
<1>3. phase # "done" => Boundary(text, at) /\ ReadTo(text, at, latest, skipped)
  BY DEF ReadWell
\* Every statement is an instance.
<1>4. ASSUME NEW a, Boundary(text, a),
             Symbol(text, skip_whitespace(text, a)) \notin {"end", "ENDSEC"}
      PROVE  Symbol(text, skip_whitespace(text, a)) = "hash"
  <2> DEFINE k == skip_whitespace(text, a)
  <2>1. k \in Statements(text)
    BY <1>1, <1>4, StatementGoesOn
  <2> HIDE DEF k
  <2>2. k \in 1..Len(text) /\ text[k] = "hash"
    BY <1>1, <2>1, StatementsAre DEF AllInstances
  <2>3. Symbol(text, k) = "hash"
    BY <1>1, <2>2 DEF Symbol
  <2> QED BY <2>3 DEF k
<1>5. CASE Section
  <2>1. /\ phase = "opening" /\ phase' \in {"statements", "cutting"}
        /\ UNCHANGED <<tableVars, text, target, cutter, at, runs, skipped>>
    BY <1>5 DEF Section
  <2>2. latest' = latest
    BY <2>1 DEF tableVars
  <2> QED BY <2>1, <2>2 DEF ReadWell
<1>6. CASE ReadInstance
  <2> DEFINE k == skip_whitespace(text, at)
             n == skip_statement(text, k).at
             e == End(text)
  <2>1. /\ phase = "statements" /\ phase' = phase /\ text' = text
        /\ Symbol(text, k) = "hash" /\ Instance(text, k)
    BY <1>6 DEF ReadInstance
  <2>2. Boundary(text, at) /\ ReadTo(text, at, latest, skipped)
    BY <1>3, <2>1
  <2>3. Symbol(text, k) \notin {"end", "ENDSEC"}
    BY <2>1
  <2>4. n \in (k + 1)..e /\ k \in at..Len(text)
    BY <1>1, <2>2, <2>3, StatementGoesOn
  <2>5. n <= e
    <3> HIDE DEF k, n, e
    <3> QED BY <1>1, <1>2, <2>4 DEF e
  <2>6. Begins(text, text, e)
    BY <1>1, TextBeginsItself
  <2>7. Boundary(text, at') /\ ReadTo(text, at', latest', skipped')
    <3> HIDE DEF e
    <3> QED BY <1>1, <2>1, <2>2, <2>3, <2>5, <2>6, InstanceReadsOn
  <2> QED BY <2>1, <2>7 DEF ReadWell
<1>7. CASE ReadOther
  BY <1>3, <1>4, <1>7 DEF ReadOther
<1>8. CASE EndSection
  <2>1. /\ phase = "statements" /\ phase' = "done"
        /\ Symbol(text, skip_whitespace(text, at)) \in {"end", "ENDSEC"}
        /\ UNCHANGED <<tableVars, text, target, cutter, at, runs, skipped>>
    BY <1>8 DEF EndSection
  <2>2. latest' = latest
    BY <2>1 DEF tableVars
  <2>3. Before(text, at) = Statements(text)
    BY <1>1, <1>3, <2>1, EndIsReached
  <2>4. /\ latest = LastOfEach(text, ReadableIn(text, Statements(text)))
        /\ skipped = Cardinality(UnreadableIn(text, Statements(text)))
    BY <1>3, <2>1, <2>3 DEF ReadTo
  <2> QED BY <2>1, <2>2, <2>4 DEF ReadWell
<1>9. CASE CutInstance
  <2> DEFINE n == skip_statement(text, ToCut).at
  <2>1. /\ phase = "cutting" /\ Symbol(text, ToCut) = "hash"
        /\ UNCHANGED <<tableVars, text, target, at, skipped>>
    BY <1>9 DEF CutInstance
  <2>2. /\ at = 1 /\ Boundary(text, cutter.at) /\ Closes(text, cutter.at)
        /\ Chained(text, runs, 1) /\ cutter.start = LastEnd(runs)
        /\ Boundary(text, at) /\ ReadTo(text, at, latest, skipped)
    BY <2>1 DEF ReadWell
  <2>3. n \in 1..End(text) /\ cutter.start <= n
    BY <2>1, CutIsWithin
  <2>4. Boundary(text, n) /\ Closes(text, n)
    BY <1>1, <2>1, <2>2, StatementGoesOn DEF ToCut
  <2>5. latest' = latest /\ text' = text /\ at' = at /\ skipped' = skipped
    BY <2>1 DEF tableVars
  <2>6. \/ CutEndsAt(n)
        \/ /\ runs' = Append(runs, RunOf(n)) /\ cutter' = [start |-> n, at |-> n]
           /\ phase' = phase
        \/ cutter' = [cutter EXCEPT !.at = n] /\ runs' = runs /\ phase' = phase
    BY <1>9 DEF CutInstance
  <2> HIDE DEF n
  <2>7. Closed(text, n)
    <3>1. n \in 1..n /\ \A j \in n..(n - 1) : text[j] = "blank"
      BY <1>1, <2>3
    <3> QED BY <2>4, <3>1 DEF Closed
  <2>8. CASE CutEndsAt(n)
    BY <2>1, <2>3, <2>7, <2>8, CutEndsReadWell
  <2>9. CASE /\ runs' = Append(runs, RunOf(n)) /\ cutter' = [start |-> n, at |-> n]
             /\ phase' = phase
    <3>1. Chained(text, runs', 1) /\ LastEnd(runs') = n
      BY <2>2, <2>3, <2>7, <2>9, ChainedOnceMore
    <3>2. cutter'.start = n /\ cutter'.at = n
      BY <2>9
    <3> QED BY <2>1, <2>2, <2>4, <2>5, <2>9, <3>1, <3>2 DEF ReadWell
  <2>10. CASE cutter' = [cutter EXCEPT !.at = n] /\ runs' = runs /\ phase' = phase
    <3>1. cutter'.start = cutter.start /\ cutter'.at = n
      BY <2>10 DEF InPlace
    <3> QED BY <2>1, <2>2, <2>4, <2>5, <2>10, <3>1 DEF ReadWell
  <2> QED BY <2>6, <2>8, <2>9, <2>10
<1>10. CASE CutToTheEnd
  <2>1. /\ phase = "cutting" /\ Symbol(text, ToCut) \in {"end", "ENDSEC"} /\ CutEndsAt(ToCut)
        /\ UNCHANGED <<tableVars, text, target, at, skipped>>
    BY <1>10 DEF CutToTheEnd
  <2>2. Boundary(text, cutter.at) /\ Closes(text, cutter.at)
    BY <2>1 DEF ReadWell
  <2>3. Closed(text, ToCut)
    BY <1>1, <2>1, <2>2, EndIsReached DEF ToCut
  <2>4. ToCut \in 1..End(text) /\ cutter.start <= ToCut
    BY CutIsWithin
  <2> QED BY <2>1, <2>3, <2>4, CutEndsReadWell
<1>11. CASE CutNothing
  <2>1. phase = "cutting" /\ Symbol(text, ToCut) \notin {"hash", "ENDSEC", "end"}
    BY <1>11 DEF CutNothing
  <2>2. Boundary(text, cutter.at)
    BY <2>1 DEF ReadWell
  <2> QED BY <1>4, <2>1, <2>2 DEF ToCut
<1>12. CASE StartRun
  <2>1. /\ phase = "runs" /\ phase' = "run" /\ runs # <<>> /\ at' = runs[1].first
        /\ UNCHANGED <<tableVars, text, target, cutter, runs, skipped>>
    BY <1>12 DEF StartRun, NoRuns
  <2>2. Chained(text, runs, at)
    BY <2>1 DEF ReadWell
  <2>3. runs[1].first = at
    BY <2>1, <2>2, ChainedBegins
  <2>4. latest' = latest
    BY <2>1 DEF tableVars
  <2> QED BY <1>3, <2>1, <2>2, <2>3, <2>4 DEF ReadWell
<1>13. CASE ReadInRun
  <2> DEFINE k == skip_whitespace(text, at)
             n == skip_statement(text, k).at
             e == runs[1].end
  <2>1. /\ phase = "run" /\ skip_whitespace(RunText, at) < e
        /\ Instance(RunText, skip_whitespace(RunText, at))
        /\ UNCHANGED <<text, target, cutter, runs, phase>>
    BY <1>13 DEF ReadInRun
  <2>2. runs # <<>> /\ at <= e
    BY <2>1 DEF InPlace
  <2>3. Begins(RunText, text, e) /\ e \in 1..End(text)
    BY <2>2, FirstRunIs
  <2>4. Boundary(text, at) /\ ReadTo(text, at, latest, skipped) /\ Chained(text, runs, runs[1].first)
    BY <2>1 DEF ReadWell
  <2>5. Closed(text, e)
    BY <2>2, <2>4, ChainedBegins
  <2> HIDE DEF e
  <2>6. at \in 1..e
    BY <1>1, <1>2, <2>2, <2>3
  <2>7. skip_whitespace(RunText, at) = Smaller(e, k)
    BY <2>3, <2>6, SkipInBeginning
  <2>8. skip_whitespace(RunText, at) = k /\ k < e
    <3> HIDE DEF k
    <3> QED BY <1>1, <2>1, <2>3, <2>7 DEF Smaller
  <2>9. Symbol(text, k) \notin {"end", "ENDSEC"} /\ n <= e
    BY <1>1, <2>4, <2>5, <2>8, StatementInRun
  <2>10. Instance(RunText, k)
    BY <2>1, <2>8
  <2>11. Boundary(text, at') /\ ReadTo(text, at', latest', skipped')
    BY <1>1, <2>1, <2>3, <2>4, <2>9, <2>10, InstanceReadsOn
  <2> QED BY <2>1, <2>4, <2>11 DEF ReadWell
<1>14. CASE EndRun
  <2> DEFINE e == runs[1].end
  <2>1. /\ phase = "run" /\ ~(skip_whitespace(RunText, at) < e)
        /\ at' = e /\ runs' = Tail(runs)
        /\ phase' = IF runs' = <<>> THEN "statements" ELSE "runs"
        /\ UNCHANGED <<tableVars, text, target, cutter, skipped>>
    <3>1. /\ phase = "run" /\ skip_whitespace(RunText, at) >= e
          /\ at' = e /\ runs' = Tail(runs)
          /\ phase' = IF runs' = <<>> THEN "statements" ELSE "runs"
          /\ UNCHANGED <<tableVars, text, target, cutter, skipped>>
      BY <1>14 DEF EndRun, AfterRun, NoRuns
    <3>2. skip_whitespace(RunText, at) \in Nat /\ e \in Nat
      <4>1. runs # <<>>
        BY <3>1 DEF InPlace
      <4>2. Begins(RunText, text, e) /\ e \in 1..End(text)
        BY <4>1, FirstRunIs
      <4>3. RunText \in Text
        BY <4>2 DEF Begins
      <4>4. at \in Nat /\ at > 0
        BY <1>1, <1>2
      <4>5. skip_whitespace(RunText, at) \in Nat
        BY <4>3, <4>4, SkipIs
      <4> QED BY <1>1, <4>2, <4>5
    <3> QED BY <3>1, <3>2
  <2>2. runs # <<>> /\ at <= e
    BY <2>1 DEF InPlace
  <2>3. Begins(RunText, text, e) /\ e \in 1..End(text)
    BY <2>2, FirstRunIs
  <2>4. Boundary(text, at) /\ ReadTo(text, at, latest, skipped) /\ Chained(text, runs, runs[1].first)
    BY <2>1 DEF ReadWell
  <2>5. Closed(text, e) /\ Chained(text, Tail(runs), e)
    BY <2>2, <2>4, ChainedBegins
  <2> HIDE DEF e
  <2>6. at \in 1..e
    BY <1>1, <1>2, <2>2, <2>3
  <2>7. skip_whitespace(RunText, at) = Smaller(e, skip_whitespace(text, at))
    BY <2>3, <2>6, SkipInBeginning
  <2>8. ~(skip_whitespace(text, at) < e)
    <3> DEFINE k == skip_whitespace(text, at)
               m == skip_whitespace(RunText, at)
    <3>1. ~(m < e) /\ m = Smaller(e, k)
      BY <2>1, <2>7
    <3>2. k \in Nat /\ e \in Nat
      BY <1>1, <1>2, <2>3, SkipIs
    <3> HIDE DEF k, m
    <3>3. ~(k < e)
      BY <3>1, <3>2 DEF Smaller
    <3> QED BY <3>3 DEF k
  <2>9. Before(text, e) = Before(text, at)
    BY <1>1, <2>2, <2>3, <2>4, <2>8, RunIsRead
  <2>10. Boundary(text, e) /\ ReadTo(text, e, latest, skipped)
    BY <2>4, <2>5, <2>9 DEF Closed, ReadTo
  <2>11. latest' = latest
    BY <2>1 DEF tableVars
  <2>12. phase' \in {"statements", "runs"} /\ (phase' = "runs" => runs' # <<>>)
    BY <2>1
  <2> QED BY <2>1, <2>5, <2>10, <2>11, <2>12 DEF ReadWell
<1>15. CASE UNCHANGED vars
  <2>1. /\ UNCHANGED <<text, cutter, at, runs, skipped, phase>> /\ latest' = latest
    BY <1>15 DEF vars, readVars, tableVars
  <2> QED BY <2>1 DEF ReadWell
<1> QED
  BY <1>5, <1>6, <1>7, <1>8, <1>9, <1>10, <1>11, <1>12, <1>13, <1>14, <1>15 DEF Next

LEMMA StepsKeepInv == StepInv /\ [Next]_vars => StepInv'
<1> SUFFICES ASSUME StepInv, [Next]_vars PROVE StepInv'
  OBVIOUS
<1>1. InPlace'
  BY NextStaysInPlace DEF StepInv
<1>2. text' = text
  BY DEF Next, vars, readVars, Section, ReadInstance, ReadOther, EndSection, CutInstance,
     CutToTheEnd, CutNothing, StartRun, ReadInRun, EndRun
<1>3. AllInstances(text) => ReadWell'
  BY NextReadsWell DEF StepInv
<1> QED
  BY <1>1, <1>2, <1>3 DEF StepInv

LEMMA ReadingIsFine == Spec => []StepInv
<1>1. Init => StepInv
  BY InitIsInPlace, InitIsReadWell DEF StepInv
<1> QED
  BY <1>1, StepsKeepInv, PTL DEF Spec

\* A section of nothing but instances that are read or skipped whole comes to
\* one table and one number of instances skipped, whatever length the runs
\* were to have, and none (instance_runs, read_instance_runs).
THEOREM CutsAreInvisible == Spec => []CuttingIsInvisible
<1>1. StepInv => CuttingIsInvisible
  BY DEF StepInv, ReadWell, CuttingIsInvisible
<1> QED
  BY <1>1, ReadingIsFine, PTL

\* Whatever the section holds, the reader does nothing to the table but state
\* instances in it, each under an identifier it may have.
THEOREM ReadingFillsTheTable == Spec => TableSpec
<1>1. Init => TableInit
  BY DEF Init
<1>2. StepInv /\ [Next]_vars => [TableNext]_tableVars
  BY NextStaysInPlace DEF StepInv
<1> QED
  BY <1>1, <1>2, ReadingIsFine, PTL DEF Spec, TableSpec
=============================================================================
