------------------------------ MODULE Requests ------------------------------
(***************************************************************************)
(* What groma-api decides of a request before anything is converted        *)
(* (apps/groma-api/src/main.rs): which bytes of a scene a reader is sent;  *)
(* whether there is memory to convert what a client uploads; and under     *)
(* what identifier the job is remembered, listed and in the end forgotten. *)
(*                                                                         *)
(* Requests run on threads of their own.  They share a counter, the clock  *)
(* and the map of jobs, each used in a step of its own.  What becomes of   *)
(* the jobs is ConversionSlot's; where a scene's file is, SceneVersions's. *)
(***************************************************************************)
EXTENDS ByteRange, FiniteSets, Sequences

CONSTANTS
    Uploads,      \* requests that upload a model
    Exports,      \* those of them that want an IFC file back
    Reads,        \* requests that read a scene
    Mixes,        \* which of them may come in one behaviour
    HeaderSet,    \* bound: the headers readers send
    Totals,       \* bound: the lengths of files
    SourceSets,   \* bound: the files of one upload, each with size and format
    FreeSet,      \* bound: how much memory may be free
    Unknown,      \* where the host does not say how much is
    Ratio,        \* memory an IFC file takes to read, over its size (5)
    Remembered,   \* how many jobs are remembered (32)
    FirstMs, LastMs,  \* bound: what the clock may say, in milliseconds
    Hex, Dec      \* the bases the two parts of an identifier are written in

ASSUME ExportsAssumption == Exports \subseteq Uploads
ASSUME MixesAssumption == Mixes \subseteq SUBSET (Uploads \union Reads)
ASSUME HeaderSetAssumption == HeaderSet \subseteq Headers
ASSUME TotalsAssumption == Totals \subseteq 0..(MaxU64 \div 2)   \* no file is longer
ASSUME SourceSetsAssumption ==
    SourceSets \subseteq Seq([bytes : 0..MaxU64, format : {"ifc", "rvt"}])
ASSUME FreeSetAssumption == FreeSet \subseteq 0..MaxU64 \union {Unknown} /\ Unknown \notin Int
ASSUME NumbersAssumption ==
    /\ {Ratio, Remembered, Hex, Dec} \subseteq Nat
    /\ Ratio > 1 /\ Remembered > 0 /\ Hex > 1 /\ Dec > 1
ASSUME ClockAssumption == FirstMs \in Nat /\ LastMs \in Nat /\ FirstMs <= LastMs

VARIABLES
    calling,  \* the requests that come
    read,     \* what the last reader asked for, and what it was answered
    charged,  \* what the last upload would take, what was free, the decision
    next,     \* the counter of job_id
    clock,    \* the time in milliseconds
    upload,   \* each upload: where it is, its identifier
    jobs,     \* the uploads whose jobs are remembered
    after     \* history: the jobs announced before each upload came

vars == <<calling, read, charged, next, clock, upload, jobs, after>>

Init ==
    /\ calling \in Mixes
    /\ read = [header |-> [single |-> FALSE, start |-> Missing, end |-> Missing],
               total |-> 1, reply |-> Reply("200", 0, 1)]
    /\ charged = [sources |-> <<>>, free |-> Unknown, room |-> TRUE]
    /\ next = 1
    /\ clock = FirstMs
    /\ upload = [u \in Uploads |-> [at |-> "idle", count |-> 0, ms |-> 0]]
    /\ jobs = {}
    /\ after = [u \in Uploads |-> {}]

-----------------------------------------------------------------------------
(* Reading (serve_scene).                                                  *)

ServeScene(r) ==
    /\ r \in calling
    /\ \E h \in HeaderSet, total \in Totals :
         read' = [header |-> h, total |-> total, reply |-> Answer(h, total)]
    /\ UNCHANGED <<calling, charged, next, clock, upload, jobs, after>>

-----------------------------------------------------------------------------
(* Room in memory (room_to_convert_all).                                   *)

WrappingAdd(a, b) == (a + b) % (MaxU64 + 1)                       \* mutant
SaturatingAdd(a, b) == Lesser(a + b, MaxU64)

\* Only what is read whole is charged for.
Charged(source) == IF source.format = "ifc" THEN source.bytes ELSE 0

\* What is charged for the first source, the first two, and so on.
PlannedUpTo(sources) ==
    LET planned[i \in 0..Len(sources)] ==
          IF i = 0 THEN 0 ELSE SaturatingAdd(planned[i - 1], Charged(sources[i]))
    IN  planned

Planned(sources) == PlannedUpTo(sources)[Len(sources)]

\* A product too large for a number is too large to convert; memory nobody
\* can tell the size of is taken to be enough.
RoomToConvert(bytes, free) ==
    /\ bytes * Ratio <= MaxU64
    /\ free = Unknown \/ bytes * Ratio <= free

Announced == {u \in Uploads : upload[u].at = "announced"}

Goes(u, place) == upload' = [upload EXCEPT ![u].at = place]

\* The models have been received; a scene is charged for, an export is not.
Charge(u) ==
    /\ u \in calling \ Exports
    /\ upload[u].at = "idle"
    /\ \E sources \in SourceSets, free \in FreeSet :
         LET room == RoomToConvert(Planned(sources), free)
         IN  /\ charged' = [sources |-> sources, free |-> free, room |-> room]
             /\ Goes(u, IF room THEN "received" ELSE "refused")
    /\ after' = [after EXCEPT ![u] = Announced]
    /\ UNCHANGED <<calling, read, next, clock, jobs>>

ReceiveExport(u) ==
    /\ u \in calling \intersect Exports
    /\ upload[u].at = "idle"
    /\ Goes(u, "received")
    /\ after' = [after EXCEPT ![u] = Announced]
    /\ UNCHANGED <<calling, read, charged, next, clock, jobs>>

-----------------------------------------------------------------------------
(* Naming a job (job_id) and remembering it (remember).                    *)

TakeCount(u) ==
    /\ upload[u].at = "received"
    /\ upload' = [upload EXCEPT ![u].at = "counted", ![u].count = next]
    /\ next' = next + 1
    /\ UNCHANGED <<calling, read, charged, clock, jobs, after>>

ReadClock(u) ==
    /\ upload[u].at = "counted"
    /\ upload' = [upload EXCEPT ![u].at = "named", ![u].ms = clock]
    /\ UNCHANGED <<calling, read, charged, next, clock, jobs, after>>

\* The digits of each number, the first one first.
DigitsIn(base) ==
    LET digits[n \in Nat] ==
          IF n < base THEN <<n>> ELSE Append(digits[n \div base], n % base)
    IN  digits

Digits(n, base) == DigitsIn(base)[n]

\* All times have one number of digits: eleven, from 2004 to 2527.
ASSUME OneWidthAssumption == Len(Digits(FirstMs, Hex)) = Len(Digits(LastMs, Hex))

Hyphen == -1   \* sorts before every digit

CountFirst(u) == Digits(upload[u].count, Dec) \o <<Hyphen>> \o Digits(upload[u].ms, Hex) \* mutant
JobId(u) == Digits(upload[u].ms, Hex) \o <<Hyphen>> \o Digits(upload[u].count, Dec)

\* Strings are in the order of the first letter that differs.
Sorts(s, t) ==
    \E i \in 1..Len(t) :
      /\ i <= Len(s) + 1
      /\ SubSeq(s, 1, i - 1) = SubSeq(t, 1, i - 1)
      /\ i = Len(s) + 1 \/ s[i] < t[i]

Oldest(kept) == CHOOSE u \in kept : \A o \in kept \ {u} : Sorts(JobId(u), JobId(o))

Kept(kept) == IF Cardinality(kept) >= Remembered THEN kept \ {Oldest(kept)} ELSE kept

Remember(u) ==
    /\ upload[u].at = "named"
    /\ jobs' = {o \in Kept(jobs) : JobId(o) # JobId(u)} \union {u}
    /\ Goes(u, "announced")
    /\ UNCHANGED <<calling, read, charged, next, clock, after>>

\* The version could not be settled: the request ends without a job.
NotSettled(u) ==
    /\ upload[u].at = "named"
    /\ u \notin Exports
    /\ Goes(u, "ended")
    /\ UNCHANGED <<calling, read, charged, next, clock, jobs, after>>

\* The clock is not set back.
Tick ==
    /\ clock < LastMs
    /\ calling \intersect Uploads # {}
    /\ clock' = clock + 1
    /\ UNCHANGED <<calling, read, charged, next, upload, jobs, after>>

Next ==
    \/ \E r \in Reads : ServeScene(r)
    \/ \E u \in Uploads : \/ Charge(u) \/ ReceiveExport(u) \/ TakeCount(u)
                          \/ ReadClock(u) \/ Remember(u) \/ NotSettled(u)
    \/ Tick

Spec == Init /\ [][Next]_vars

-----------------------------------------------------------------------------
(* What must hold.                                                         *)

\* A reader is sent exactly the bytes it asked for that the file has, and is
\* refused only what the file has none of, at every edge of the file and of
\* the width of a number, where its range does not end before it starts
\* (resolve_range, Range::length, Scenes::read).
ServedAsAsked == ExactlyAsked(read.header, read.total)

\* An upload is taken exactly where all its models together fit in the memory
\* that is free, whatever the sum and the product overflow (room_to_convert).
BytesUpTo(sources) ==
    LET bytes[i \in 0..Len(sources)] ==
          IF i = 0 THEN 0 ELSE bytes[i - 1] + Charged(sources[i])
    IN  bytes

TrueNeed(sources) == Ratio * BytesUpTo(sources)[Len(sources)]

TakenWhereItFits ==
    charged.room <=> /\ TrueNeed(charged.sources) <= MaxU64
                     /\ charged.free = Unknown \/ TrueNeed(charged.sources) <= charged.free

\* The listing is chronological (ConversionSlot::listing), and what is
\* forgotten is what came first (ConversionSlot::remember): a job that had
\* been announced when the upload of another came sorts before it and is not
\* kept where that one is not, unless both are of one millisecond.  This rests
\* on a clock that is not set back and on times of one number of digits.
ListingIsChronological ==
    \A u, o \in Announced :
      o \in after[u] /\ upload[o].ms # upload[u].ms =>
        /\ Sorts(JobId(o), JobId(u))
        /\ o \in jobs => u \in jobs
=============================================================================
