----------------------------- MODULE ByteRange -----------------------------
(***************************************************************************)
(* What groma-api serves of a scene's file where a request has a Range     *)
(* header (apps/groma-api/src/scenes.rs, parse_range to Scenes::read).     *)
(* Positions are unsigned integers of a fixed width, up to MaxU64; as      *)
(* written in a header they may be larger, missing, or no number at all.   *)
(***************************************************************************)
EXTENDS Integers

CONSTANTS
    MaxU64,   \* the largest number an unsigned integer holds
    Missing,  \* an end of a range that is not written
    Junk      \* one that is written, and is not a number

ASSUME WidthAssumption == MaxU64 \in Nat /\ MaxU64 > 1
ASSUME TextsAssumption == Missing \notin Int /\ Junk \notin Int /\ Missing # Junk

Texts == Nat \union {Missing, Junk}

\* A header without a range of bytes, or with several, is not single.
Headers == [single : BOOLEAN, start : Texts, end : Texts]

Readable(text) == text = Missing \/ text \in 0..MaxU64

\* Whether the header is taken for a range; otherwise the file is sent whole.
parse_range(h) ==
    /\ h.single
    /\ Readable(h.start)
    /\ Readable(h.end)
    /\ ~(h.start = Missing /\ h.end = Missing)

Lesser(a, b) == IF a <= b THEN a ELSE b

\* The first and last position to send of a file of this length.
EndAsWritten(h, total) == IF h.end = Missing THEN total - 1 ELSE h.end   \* mutant
EndOf(h, total) == IF h.end = Missing THEN total - 1 ELSE Lesser(h.end, total - 1)

Suffix(h, total) == Lesser(h.end, total)

resolve_range(h, total) ==
    IF ~parse_range(h)         THEN [start |-> 0, end |-> total - 1]
    ELSE IF h.start = Missing  THEN [start |-> total - Suffix(h, total), end |-> total - 1]
    ELSE [start |-> h.start, end |-> EndOf(h, total)]

Unsatisfiable(h, total) ==
    \/ total = 0
    \/ parse_range(h) /\ h.start = Missing /\ Suffix(h, total) = 0
    \/ parse_range(h) /\ h.start # Missing /\ h.start > total - 1

\* Unsigned: where the end lies before the start it wraps around.
Length(r) == (r.end - r.start + 1) % (MaxU64 + 1)

\* The answer: its status, and the first position and number of bytes of its
\* body.  A buffer of more than half the numbers there are is not to be had,
\* and the thread that asks for one answers nothing.
Reply(status, from, length) == [status |-> status, from |-> from, length |-> length]

Answer(h, total) ==
    LET r == resolve_range(h, total)
    IN  IF Unsatisfiable(h, total)             THEN Reply("416", 0, 0)
        ELSE IF Length(r) > MaxU64 \div 2      THEN Reply("none", 0, 0)
        ELSE IF r.start + Length(r) > total    THEN Reply("500", 0, 0)
        ELSE Reply(IF parse_range(h) THEN "206" ELSE "200", r.start, Length(r))

-----------------------------------------------------------------------------
(* What a range means.                                                     *)

\* The positions of the file the header asks for: all it has between both
\* ends, from the start on, or the last so many.
Asked(h, total) ==
    {p \in 0..(total - 1) :
       \/ ~parse_range(h)
       \/ /\ h.start = Missing
          /\ p >= total - h.end
       \/ /\ h.start # Missing
          /\ p >= h.start
          /\ h.end = Missing \/ p <= h.end}

\* A range that ends before it starts asks for nothing that has a meaning.
Backward(h) == parse_range(h) /\ h.start # Missing /\ h.end # Missing /\ h.end < h.start

\* What is sent is what was asked for, not a byte more or less, and nothing is
\* refused but what the file has nothing of.
ExactlyAsked(h, total) ==
    ~Backward(h) =>
      LET a == Answer(h, total)
      IN  \/ a.status = "416" /\ Asked(h, total) = {}
          \/ /\ a.status = (IF parse_range(h) THEN "206" ELSE "200")
             /\ a.length > 0
             /\ a.from..(a.from + a.length - 1) = Asked(h, total)
=============================================================================
