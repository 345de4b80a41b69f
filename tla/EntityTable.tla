---------------------------- MODULE EntityTable ----------------------------
(***************************************************************************)
(* ifc_import::step::Entities (crates/ifc-import/src/step.rs): every       *)
(* instance of an exchange file by its identifier.  Identifiers have a     *)
(* slot each in a vector, except those that would make the vector more     *)
(* than twice the size of what it holds: they go in a map.                 *)
(***************************************************************************)
EXTENDS Integers, FiniteSets

CONSTANTS
    Ids,              \* identifiers a file may state
    Instances,        \* what it may state under them
    Nothing,          \* a slot that holds none
    ALWAYS_DENSE_IDS  \* identifiers below it always have a slot (65536)

ASSUME IdsAssumption == Ids \subseteq Nat
ASSUME NothingAssumption == Nothing \notin Instances
ASSUME AlwaysDenseAssumption == ALWAYS_DENSE_IDS \in Nat

VARIABLES
    dense,   \* the vector: slot id holds the instance written as #id
    length,  \* its length
    sparse,  \* the map
    count,   \* how many instances there are
    latest   \* history: the instance last stated under each identifier

tableVars == <<dense, length, sparse, count, latest>>

Empty == [id \in {} |-> Nothing]

TableInit ==
    /\ dense = Empty
    /\ length = 0
    /\ sparse = Empty
    /\ count = 0
    /\ latest = Empty

\* f with e at id.
Put(f, id, e) == [x \in DOMAIN f \union {id} |-> IF x = id THEN e ELSE f[x]]

SlotByLength(id) == id < ALWAYS_DENSE_IDS \/ id \div 2 <= length    \* mutant
HasSlot(id) == id < ALWAYS_DENSE_IDS \/ id \div 2 <= count

\* The vector grows to the slot, and what it grows by is empty.
Grown(id) ==
    [x \in 0..((IF length <= id THEN id + 1 ELSE length) - 1) |->
       IF x < length THEN dense[x] ELSE Nothing]

CountedAnyway(before) == count + 1                                 \* mutant
Counted(before) == IF before = Nothing THEN count + 1 ELSE count

InMap(id) == IF id \in DOMAIN sparse THEN sparse[id] ELSE Nothing
InVector(id) == IF id < length THEN dense[id] ELSE Nothing

Insert(id, e) ==
    /\ \/ /\ ~HasSlot(id)
          /\ sparse' = Put(sparse, id, e)
          /\ count' = Counted(InMap(id))
          /\ UNCHANGED <<dense, length>>
       \/ /\ HasSlot(id)
          /\ dense' = [Grown(id) EXCEPT ![id] = e]
          /\ length' = IF length <= id THEN id + 1 ELSE length
          /\ count' = Counted(InVector(id))
          /\ UNCHANGED sparse
    /\ latest' = Put(latest, id, e)

MapFirst(id) == IF InMap(id) # Nothing THEN InMap(id) ELSE InVector(id) \* mutant
get(id) == IF InVector(id) # Nothing THEN InVector(id) ELSE InMap(id)

TableNext == \E id \in Ids, e \in Instances : Insert(id, e)

TableSpec == TableInit /\ [][TableNext]_tableVars

-----------------------------------------------------------------------------
(* What must hold.                                                         *)

Held == Instances \union {Nothing}

\* Every variable keeps to its values.
TableTypeOK ==
    /\ length \in Nat
    /\ dense \in [0..(length - 1) -> Held]
    /\ DOMAIN sparse \subseteq Ids
    /\ sparse \in [DOMAIN sparse -> Instances]
    /\ count \in Nat
    /\ DOMAIN latest \subseteq Ids
    /\ latest \in [DOMAIN latest -> Instances]

\* Of two statements of one identifier the later wins, also where the first
\* went in the map and the second, in a table grown since, has a slot.
LaterOneWins ==
    \A id \in Ids : get(id) = IF id \in DOMAIN latest THEN latest[id] ELSE Nothing

\* The vector is never more than twice the size of the table, but for what
\* it may always have.
VectorStaysSmall == length <= ALWAYS_DENSE_IDS \/ length <= 2 * count

\* What is held in the one and in the other.
HeldIn(f) == {id \in DOMAIN f : f[id] # Nothing}
InBoth == HeldIn(dense) \intersect HeldIn(sparse)

\* Each identifier is counted once, however often it is stated, but for one
\* that was in the map first and has a slot since: that one is held in both,
\* and counted twice.  (A unit test says of an identifier stated again that
\* "the count still says how many instances there are", step.rs:943-944; it
\* does for every identifier that always has a slot, as the test's own does.)
CountsEachOnce ==
    /\ count = Cardinality(DOMAIN latest) + Cardinality(InBoth)
    /\ \A id \in InBoth : id >= ALWAYS_DENSE_IDS
=============================================================================
