-------------------------- MODULE PartitionMembers --------------------------
(***************************************************************************)
(* Reading the members of partitions: for_each_member_batch in             *)
(* crates/rvt-import/src/lib.rs with the walk over their records in        *)
(* crates/rvt-model/src/member.rs.  A member holds records one after the   *)
(* other; the last may go on at the head of the members that follow.       *)
(*                                                                         *)
(* A byte is known by its member and place in it.  How long a header is is *)
(* a parameter, 12 bytes and 16 in the code; the last of them stands for   *)
(* the length of the body.  Inflating and walking ahead on several threads *)
(* hands back what a loop would, which WorkSharing shows, and so is one    *)
(* step.                                                                   *)
(***************************************************************************)
EXTENDS Integers, SequencesExt

CONSTANTS
    Inputs,              \* the sequences of partitions that may be read
    NarrowHeader,        \* bytes of a header of the narrow layout (12)
    WideHeader,          \* and of the wide one (16)
    MEMBER_PREPARE_BATCH \* members resolved together (192)

ASSUME PartitionsAssumption == MEMBER_PREPARE_BATCH \in Nat \ {0}
ASSUME HeaderAssumption == NarrowHeader \in Nat \ {0} /\ WideHeader \in Nat \ {0}
ASSUME InputsAssumption ==
    Inputs \subseteq Seq(Seq([tag : {"narrow", "wide", "none", "unknown"},
                             decodes : BOOLEAN, bytes : Seq(Nat)]))

VARIABLES
    partitions, \* what is read, partition by partition, member by member
    part,       \* the partition being read
    phase,      \* where the reading is
    stored,     \* whether the partition fits in memory
    at,         \* the last member resolved
    upto,       \* the last member of this batch
    prepared,   \* members of the batch inflated together, not yet taken
    ahead,      \* members inflated for a record of an earlier one
    carry,      \* bytes of the next member that belong to an earlier record
    inflated,   \* how often each member was inflated but for the preparing
    batch,      \* the members of this batch resolved so far
    visited     \* what the visitor was shown, over all partitions

vars == <<partitions, part, phase, stored, at, upto, prepared, ahead, carry,
          inflated, batch, visited>>

Least(a, b) == IF a < b THEN a ELSE b

Members == partitions[part]
Known(member) == member.tag \in {"narrow", "wide"}
HeaderBytes(layout) == IF layout = "narrow" THEN NarrowHeader ELSE WideHeader

-----------------------------------------------------------------------------
(* MemberWalk::parse                                                       *)

TruncatedHeader == [offset |-> -1, body |-> 0]

\* The records from an offset on, the last of which may run past the end.
RecordsFrom(bytes, layout, from) ==
    LET header == HeaderBytes(layout)
        rest[o \in 0..Len(bytes)] ==
            IF o = Len(bytes) THEN <<>>
            ELSE IF o + header > Len(bytes) THEN <<TruncatedHeader>>
            ELSE LET body == bytes[o + header]
                     end  == o + header + body
                 IN  <<[offset |-> o, body |-> body]>>
                       \o IF end > Len(bytes) THEN <<>> ELSE rest[end]
    IN  rest[from]

Records(bytes, layout, leading_carry) ==
    IF leading_carry >= Len(bytes) THEN <<>>
    ELSE RecordsFrom(bytes, layout, leading_carry)

End(record, layout) == record.offset + HeaderBytes(layout) + record.body

StillOwed(bytes, leading_carry) == leading_carry - Len(bytes)

TrailingDeficit(bytes, layout, leading_carry) ==
    IF leading_carry >= Len(bytes) THEN StillOwed(bytes, leading_carry)
    ELSE End(Last(Records(bytes, layout, leading_carry)), layout) - Len(bytes)

-----------------------------------------------------------------------------
(* complete_spilled_record: the members a record of member i goes on in.   *)

Placed(p, i) == [k \in DOMAIN p[i].bytes |-> <<i, k>>]
StretchOf(p, i, j) == FlattenSeq([n \in 1..(j - i + 1) |-> Placed(p, i + n - 1)])

AnyMember(member) == TRUE                                          \* mutant
HasDescriptor(member) == member.tag # "none"

\* Those looked at, in turn, until what is owing is covered.
LookedAt(p, i, owing) ==
    {m \in (i + 1)..Len(p) :
       /\ \A x \in (i + 1)..m : HasDescriptor(p[x])
       /\ Len(StretchOf(p, i + 1, m - 1)) < owing}

\* What is appended: all of it or nothing.
SpilledTail(p, i, owing) ==
    LET found == StretchOf(p, i + 1, i + Cardinality(LookedAt(p, i, owing)))
    IN  IF owing <= Len(found) THEN SubSeq(found, 1, owing) ELSE <<>>

-----------------------------------------------------------------------------
(* for_each_member_batch                                                   *)

Init ==
    /\ partitions \in Inputs
    /\ part = 1 /\ phase = "opening"
    /\ stored = FALSE
    /\ at = 0 /\ upto = 0
    /\ prepared = {} /\ ahead = {} /\ carry = 0
    /\ inflated = <<>>
    /\ batch = <<>> /\ visited = <<>>

Fail ==
    /\ phase' = "failed"
    /\ UNCHANGED <<partitions, part, stored, at, upto, prepared, ahead, carry,
                   inflated, batch, visited>>

\* A partition is held whole where it fits; its inventory may fail.
OpenPartition ==
    /\ phase = "opening"
    /\ \/ /\ part > Len(partitions)
          /\ phase' = "done"
          /\ UNCHANGED <<stored, at, upto, ahead, carry, inflated>>
       \/ /\ part <= Len(partitions)
          /\ stored' \in BOOLEAN
          /\ at' = 0 /\ upto' = 0 /\ carry' = 0 /\ ahead' = {}
          /\ inflated' = [m \in DOMAIN Members |-> 0]
          /\ phase' = "batching"
    /\ UNCHANGED <<partitions, part, prepared, batch, visited>>

InventoryFails == phase = "opening" /\ part <= Len(partitions) /\ Fail

CarryDropped == 0                                                  \* mutant
CarryKept == carry

PrepareMembers ==
    /\ phase = "batching"
    /\ at < Len(Members)
    /\ upto' = Least(at + MEMBER_PREPARE_BATCH, Len(Members))
    /\ prepared' = {m \in (at + 1)..upto' :
                      stored /\ Known(Members[m]) /\ Members[m].decodes}
    /\ carry' = CarryKept
    /\ phase' = "resolving"
    /\ UNCHANGED <<partitions, part, stored, at, ahead, inflated, batch, visited>>

ClosePartition ==
    /\ phase = "batching"
    /\ at = Len(Members)
    /\ part' = part + 1
    /\ phase' = "opening"
    /\ UNCHANGED <<partitions, stored, at, upto, prepared, ahead, carry,
                   inflated, batch, visited>>

Following == at + 1
Resolving == phase = "resolving" /\ at < upto

NotAhead == ahead \ {Following}

\* A member without a layout that is known ends what was carried.
Skip ==
    /\ Resolving
    /\ ~Known(Members[Following])
    /\ ahead' = NotAhead
    /\ carry' = 0
    /\ at' = Following
    /\ UNCHANGED <<partitions, part, phase, stored, upto, prepared, inflated,
                   batch, visited>>

\* A member comes from the lookahead, the preparing or, failing both, from
\* the file.
FromFile == Following \notin ahead \union prepared

\* The prepared walk is taken only where nothing is carried.
PreparedFrom == IF Following \in prepared THEN 0 ELSE carry        \* mutant
WalkFrom == carry

Walk == LET member == Members[Following]
        IN  [records |-> Records(member.bytes, member.tag, WalkFrom),
             deficit |-> TrailingDeficit(member.bytes, member.tag, WalkFrom)]

WalkFails == TruncatedHeader \in Range(Walk.records)

WalkedAgain(owing) == LookedAt(Members, Following, owing)          \* mutant
Lookahead(owing) == LookedAt(Members, Following, owing) \ ahead

Once(m) == IF FromFile /\ m = Following THEN 1 ELSE 0

ResolveNothing ==
    /\ Resolving
    /\ Known(Members[Following])
    /\ FromFile => Members[Following].decodes
    /\ WalkFails
    /\ carry' = 0
    /\ ahead' = NotAhead
    /\ prepared' = prepared \ {Following}
    /\ inflated' = [m \in DOMAIN inflated |-> inflated[m] + Once(m)]
    /\ at' = Following
    /\ UNCHANGED <<partitions, part, phase, stored, upto, batch, visited>>

Resolve ==
    /\ Resolving
    /\ Known(Members[Following])
    /\ FromFile => Members[Following].decodes
    /\ ~WalkFails
    /\ \A m \in Lookahead(Walk.deficit) : Members[m].decodes
    /\ carry' = Walk.deficit
    /\ ahead' = NotAhead \union Lookahead(Walk.deficit)
    /\ prepared' = prepared \ {Following}
    /\ inflated' = [m \in DOMAIN inflated |-> inflated[m] + Once(m)
                      + (IF m \in Lookahead(Walk.deficit) THEN 1 ELSE 0)]
    /\ batch' = Append(batch,
         [part |-> part, member |-> Following, records |-> Walk.records,
          payload |-> Placed(Members, Following)
                        \o SpilledTail(Members, Following, Walk.deficit)])
    /\ at' = Following
    /\ UNCHANGED <<partitions, part, phase, stored, upto, visited>>

\* A member that must be inflated and cannot ends the reading.
ResolveFails ==
    /\ Resolving
    /\ Known(Members[Following])
    /\ \/ FromFile /\ ~Members[Following].decodes
       \/ /\ FromFile => Members[Following].decodes
          /\ ~WalkFails
          /\ \E m \in Lookahead(Walk.deficit) : ~Members[m].decodes
    /\ Fail

VisitBatch ==
    /\ phase = "resolving"
    /\ at = upto
    /\ visited' = visited \o batch
    /\ batch' = <<>>
    /\ prepared' = {}
    /\ phase' = "batching"
    /\ UNCHANGED <<partitions, part, stored, at, upto, ahead, carry, inflated>>

\* A reading that is over stays so.
Next ==
    \/ OpenPartition \/ InventoryFails \/ PrepareMembers \/ ClosePartition
    \/ Skip \/ ResolveNothing \/ Resolve \/ ResolveFails \/ VisitBatch

Spec == Init /\ [][Next]_vars

-----------------------------------------------------------------------------
(* What must hold.                                                         *)

\* What was resolved, shown already or not.
Resolved == visited \o batch

LayoutOf(v) == partitions[v.part][v.member].tag

\* MemberRecord::body_in: the body as the visitor reads it out of a payload.
BodyIn(v, r) ==
    IF End(r, LayoutOf(v)) <= Len(v.payload)
    THEN SubSeq(v.payload, r.offset + HeaderBytes(LayoutOf(v)) + 1, End(r, LayoutOf(v)))
    ELSE <<>>

\* The bytes that follow a record's header in the partition, as far as the
\* framing goes on.
StoredAfter(v, r) ==
    LET p == partitions[v.part]
        gaps == {m \in v.member..Len(p) : p[m].tag = "none"}
        last == IF gaps = {} THEN Len(p) ELSE Min(gaps) - 1
        all  == StretchOf(p, v.member, last)
    IN  SubSeq(all, r.offset + HeaderBytes(LayoutOf(v)) + 1, Len(all))

\* A body is whole or absent: the bytes that follow its header, over as many
\* members as it takes, and absent only where the partition ends, or a member
\* without a descriptor comes, before it does.
BodiesAreWholeOrAbsent ==
    \A v \in Range(Resolved) : \A r \in Range(v.records) :
        BodyIn(v, r) = IF r.body <= Len(StoredAfter(v, r))
                       THEN SubSeq(StoredAfter(v, r), 1, r.body)
                       ELSE <<>>

\* The header of a record and its body, as it was read.
Spanned(v, r) ==
    {<<v.part, v.member, r.offset + k>> : k \in 1..HeaderBytes(LayoutOf(v))}
      \union {<<v.part, b[1], b[2]>> : b \in Range(BodyIn(v, r))}

NoneUnknown == \A p \in Range(partitions) : \A m \in Range(p) : m.tag # "unknown"

\* No byte is read as part of two records, be it of one member or of two,
\* unless a record goes on in a member whose layout nobody knows.
NoByteTwice == NoneUnknown =>
    \A i, j \in DOMAIN Resolved :
        \A r \in DOMAIN Resolved[i].records, s \in DOMAIN Resolved[j].records :
            <<i, r>> # <<j, s>> =>
                Spanned(Resolved[i], Resolved[i].records[r])
                  \intersect Spanned(Resolved[j], Resolved[j].records[s]) = {}

\* A partition as one stretch of bytes, and where its members end in it.
WholeOf(p)  == FlattenSeq([i \in DOMAIN p |-> p[i].bytes])
MemberEnds(p) == {Len(StretchOf(p, 1, i)) : i \in DOMAIN p}
LayoutIn(p) == IF p = <<>> THEN "narrow" ELSE p[1].tag
RecordsIn(p) == Records(WholeOf(p), LayoutIn(p), 0)

\* Where a bound of a member would cut the header of a record.
Inside(r, layout) == (r.offset + 1)..(r.offset + HeaderBytes(layout) - 1)

\* The records of a partition tile it, and no member ends within a header.
TilesAsOne(p) ==
    /\ LayoutIn(p) \in {"narrow", "wide"}
    /\ \A m \in Range(p) : m.tag = LayoutIn(p) /\ m.decodes
    /\ p = <<>> \/ TrailingDeficit(WholeOf(p), LayoutIn(p), 0) = 0
    /\ TruncatedHeader \notin Range(RecordsIn(p))
    /\ \A r \in Range(RecordsIn(p)) : MemberEnds(p) \intersect Inside(r, LayoutIn(p)) = {}

\* Where the records tile the partition, each is read, in order and whole,
\* wherever the bounds of batches fall and wherever in a body those of members
\* do.  (A member that ends within a header is dropped with all its records,
\* and what it carried on to the next; see README.)
LosesNothing ==
    phase = "done" /\ (\A p \in Range(partitions) : TilesAsOne(p)) =>
        FlattenSeq([i \in DOMAIN visited |->
            [k \in DOMAIN visited[i].records |->
                Len(BodyIn(visited[i], visited[i].records[k]))]])
        = FlattenSeq([n \in DOMAIN partitions |->
            LET rs == RecordsIn(partitions[n]) IN [k \in DOMAIN rs |-> rs[k].body]])

\* A partition walked member by member, with no batches, nothing held in
\* memory and nothing inflated ahead: what comes of member m after the others.
PlainNext(p, n, m, before) ==
    LET rs      == Records(p[m].bytes, p[m].tag, before.carry)
        deficit == TrailingDeficit(p[m].bytes, p[m].tag, before.carry)
    IN  IF ~Known(p[m]) \/ TruncatedHeader \in Range(rs)
        THEN [carry |-> 0, shown |-> before.shown]
        ELSE [carry |-> deficit,
              shown |-> Append(before.shown,
                [part |-> n, member |-> m, records |-> rs,
                 payload |-> Placed(p, m) \o SpilledTail(p, m, deficit)])]

PlainUpTo(p, n) ==
    LET sofar[m \in 0..Len(p)] == IF m = 0 THEN [carry |-> 0, shown |-> <<>>]
                                  ELSE PlainNext(p, n, m, sofar[m - 1])
    IN  sofar

Plain(p, n) == PlainUpTo(p, n)[Len(p)].shown

PlainReading == FlattenSeq([n \in DOMAIN partitions |-> Plain(partitions[n], n)])

\* What the visitor is shown does not depend on the size of a batch, nor on
\* whether the partition fits in memory: it is what a plain walk finds, and
\* where the reading fails a beginning of it.
BatchingIsInvisible ==
    /\ IsPrefix(Resolved, PlainReading)
    /\ phase = "done" => visited = PlainReading

\* But for the preparing, no member is inflated more than once, however many
\* records of earlier members reach into it.
InflatedOnce == \A m \in DOMAIN inflated : inflated[m] <= 1
=============================================================================
