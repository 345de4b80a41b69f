---------------------------- MODULE StepReading ----------------------------
(***************************************************************************)
(* Reading the data section of an ISO 10303-21 file: parse, instance_runs  *)
(* and read_instance_runs in crates/ifc-import/src/step.rs.  A small       *)
(* section is read statement by statement; a large one is cut into runs of *)
(* whole statements, which are read on several threads and added in the    *)
(* order of the file (WorkSharing shows that to be a plain loop, which it  *)
(* is here).                                                               *)
(*                                                                         *)
(* The text is a sequence of symbols: marks, a string as quote, what it    *)
(* holds and quote, a blank (white space or a comment), the name of a type,*)
(* an identifier, and "stray" for what no value begins with.  A reader is  *)
(* a text and a position in it, which counts from 1; the end is one past   *)
(* the last symbol.                                                        *)
(***************************************************************************)
EXTENDS EntityTable, SequencesExt

CONSTANTS
    Texts,    \* the data sections that may be read, without "DATA;"
    Targets,  \* how long a run should be: by the size and threads, or 0
    Numeral   \* what number an identifier's symbol is

Identifiers == DOMAIN Numeral
Names == {"IFCA", "IFCB"}
Marks == {"blank", "semicolon", "quote", "open", "close", "comma", "hash",
          "dollar", "equals", "ENDSEC", "end"}

ASSUME NumeralAssumption ==
    /\ Numeral \in [Identifiers -> Ids]
    /\ Identifiers \intersect (Names \union Marks) = {}
ASSUME TextsAssumption ==
    \A t \in Texts :
        t \in Seq(STRING) /\ "end" \notin Range(t) /\ DOMAIN t \subseteq Instances
ASSUME TargetsAssumption == Targets \subseteq Nat

VARIABLES
    text,     \* the section that is read
    target,   \* how long a run is to be, 0 where the section is too small
    cutter,   \* instance_runs: where its reader is, and where the run it is in starts
    at,       \* where the reader is
    runs,     \* the runs that are still to be read: first and end
    skipped,  \* instances that could not be read
    phase     \* where the reading is

readVars == <<text, target, cutter, at, runs, skipped, phase>>
vars == <<tableVars, readVars>>

-----------------------------------------------------------------------------
(* Reader: each operator answers where the reader of a text is afterwards. *)

End(t) == Len(t) + 1

\* The first of the positions found, or the end.
FirstOf(found, t) == IF found = {} THEN End(t) ELSE Min(found)

skip_whitespace(t, i) == FirstOf({k \in i..Len(t) : t[k] # "blank"}, t)

\* Past the string that begins at i.
Smaller(a, b) == IF a < b THEN a ELSE b
read_text(t, i) == Smaller(End(t), FirstOf({k \in (i + 1)..Len(t) : t[k] = "quote"}, t) + 1)

Symbol(t, i) == IF i <= Len(t) THEN t[i] ELSE "end"

\* Past the next semicolon that is not in a string; the end where none is.
StatementEnds(t) ==
    LET past[k \in 1..End(t)] ==
          CASE Symbol(t, k) = "end"       -> [found |-> FALSE, at |-> k]
            [] Symbol(t, k) = "semicolon" -> [found |-> TRUE, at |-> k + 1]
            [] Symbol(t, k) = "quote"     -> past[read_text(t, k)]
            [] OTHER                      -> past[k + 1]
    IN  past

skip_statement(t, i) == StatementEnds(t)[i]

\* The value at k, where rest says how far a list goes on: whether it could be
\* read, whether it is a list, and where the reader is afterwards.
ValueAt(t, k, rest) ==
    LET Value(ok, list, after) == [ok |-> ok, list |-> list, at |-> after]
        s == Symbol(t, k)
        next == skip_whitespace(t, k + 1)
    IN  CASE s = "end"   -> Value(FALSE, FALSE, k)
          [] s = "open"  -> Value(TRUE, TRUE, rest[k + 1])
          [] s = "quote" -> Value(TRUE, FALSE, read_text(t, k))
          [] s \in Identifiers \union {"dollar"} -> Value(TRUE, FALSE, k + 1)
          [] s = "hash"  -> IF Symbol(t, k + 1) \in Identifiers
                            THEN Value(TRUE, FALSE, k + 2)
                            ELSE Value(FALSE, FALSE, k + 1)
          [] s \in Names ->
               Value(TRUE, FALSE, IF Symbol(t, next) = "open" THEN rest[next + 1] ELSE next)
          [] OTHER       -> Value(FALSE, FALSE, k + 1)

\* How far a list goes on from each position.  It ends at what it cannot read,
\* and is a list all the same.
ListEnds(t) ==
    LET rest[i \in 1..End(t)] ==
          LET k == skip_whitespace(t, i)
              member == ValueAt(t, k, rest)
          IN  CASE Symbol(t, k) = "end"   -> k
                [] Symbol(t, k) = "close" -> k + 1
                [] Symbol(t, k) = "comma" -> rest[k + 1]
                [] OTHER -> IF member.ok THEN rest[member.at] ELSE member.at
    IN  rest

read_value(t, i) == ValueAt(t, skip_whitespace(t, i), ListEnds(t))

take_semicolon(t, i) ==
    LET k == skip_whitespace(t, i)
    IN  IF Symbol(t, k) = "semicolon" THEN k + 1 ELSE k

\* An instance is stood for by where it begins.
read_instance(t, i) ==
    LET Unread(k) == [ok |-> FALSE, at |-> k]
        equals == skip_whitespace(t, i + 2)
        name   == skip_whitespace(t, equals + 1)
        value  == read_value(t, name + 1)
    IN  CASE Symbol(t, i + 1) \notin Identifiers -> Unread(i + 1)
          [] Symbol(t, i + 1) \in Identifiers /\ Symbol(t, equals) # "equals" ->
               Unread(skip_statement(t, equals).at)
          [] Symbol(t, i + 1) \in Identifiers /\ Symbol(t, equals) = "equals"
               /\ Symbol(t, name) \notin Names -> Unread(name)
          [] OTHER ->
               IF value.list
               THEN [ok |-> TRUE, at |-> take_semicolon(t, value.at),
                     id |-> Numeral[t[i + 1]], entity |-> i]
               ELSE Unread(skip_statement(t, value.at).at)

-----------------------------------------------------------------------------
(* parse                                                                   *)

NoRuns == <<>>

Init ==
    /\ TableInit
    /\ text \in Texts
    /\ target \in Targets
    /\ cutter = [start |-> 1, at |-> 1]
    /\ at = 1
    /\ runs = NoRuns
    /\ skipped = 0
    /\ phase = "opening"

Section ==
    /\ phase = "opening"
    /\ phase' = IF target = 0 THEN "statements" ELSE "cutting"
    /\ UNCHANGED <<tableVars, text, target, cutter, at, runs, skipped>>

\* One instance, of which the reader of t may be at the beginning or anywhere.
Instance(t, i) ==
    LET instance == read_instance(t, i)
    IN  /\ at' = instance.at
        /\ \/ /\ instance.ok
              /\ Insert(instance.id, instance.entity)
              /\ UNCHANGED skipped
           \/ /\ ~instance.ok
              /\ skipped' = skipped + 1
              /\ UNCHANGED tableVars

\* The loop of parse, at a statement it knows, one it does not, or the end.
ReadInstance ==
    /\ phase = "statements"
    /\ Symbol(text, skip_whitespace(text, at)) = "hash"
    /\ Instance(text, skip_whitespace(text, at))
    /\ UNCHANGED <<text, target, cutter, runs, phase>>

ReadOther ==
    /\ phase = "statements"
    /\ Symbol(text, skip_whitespace(text, at)) \notin {"hash", "ENDSEC", "end"}
    /\ LET past == skip_statement(text, skip_whitespace(text, at))
       IN  /\ at' = past.at
           /\ phase' = IF past.found THEN phase ELSE "done"
    /\ UNCHANGED <<tableVars, text, target, cutter, runs, skipped>>

EndSection ==
    /\ phase = "statements"
    /\ Symbol(text, skip_whitespace(text, at)) \in {"ENDSEC", "end"}
    /\ phase' = "done"
    /\ UNCHANGED <<tableVars, text, target, cutter, at, runs, skipped>>

-----------------------------------------------------------------------------
(* instance_runs                                                           *)

ToCut == skip_whitespace(text, cutter.at)
RunOf(past) == [first |-> cutter.start, end |-> past]

\* What is left up to past is the last run, if it is anything; no runs are none.
CutEndsAt(past) ==
    /\ runs' = IF cutter.start < past THEN Append(runs, RunOf(past)) ELSE runs
    /\ phase' = IF runs' = NoRuns THEN "statements" ELSE "runs"
    /\ UNCHANGED cutter

CutInstance ==
    /\ phase = "cutting"
    /\ Symbol(text, ToCut) = "hash"
    /\ LET past == skip_statement(text, ToCut)
       IN  \/ /\ ~past.found
              /\ CutEndsAt(past.at)
           \/ /\ past.found
              /\ past.at - cutter.start >= target
              /\ runs' = Append(runs, RunOf(past.at))
              /\ cutter' = [start |-> past.at, at |-> past.at]
              /\ UNCHANGED phase
           \/ /\ past.found
              /\ past.at - cutter.start < target
              /\ cutter' = [cutter EXCEPT !.at = past.at]
              /\ UNCHANGED <<runs, phase>>
    /\ UNCHANGED <<tableVars, text, target, at, skipped>>

CutToTheEnd ==
    /\ phase = "cutting"
    /\ Symbol(text, ToCut) \in {"ENDSEC", "end"}
    /\ CutEndsAt(ToCut)
    /\ UNCHANGED <<tableVars, text, target, at, skipped>>

\* What is not an instance is left to the loop of parse, with all of the section.
CutNothing ==
    /\ phase = "cutting"
    /\ Symbol(text, ToCut) \notin {"hash", "ENDSEC", "end"}
    /\ runs' = NoRuns
    /\ phase' = "statements"
    /\ UNCHANGED <<tableVars, text, target, cutter, at, skipped>>

-----------------------------------------------------------------------------
(* read_instance_runs                                                      *)

StartRun ==
    /\ phase = "runs"
    /\ runs # NoRuns
    /\ at' = runs[1].first
    /\ phase' = "run"
    /\ UNCHANGED <<tableVars, text, target, cutter, runs, skipped>>

\* The text the reader of a run has.
RunText == SubSeq(text, 1, runs[1].end - 1)

\* Whatever comes in a run is taken for an instance.
ReadInRun ==
    /\ phase = "run"
    /\ skip_whitespace(RunText, at) < runs[1].end
    /\ Instance(RunText, skip_whitespace(RunText, at))
    /\ UNCHANGED <<text, target, cutter, runs, phase>>

BackAtRun == runs[1].first                                         \* mutant
AfterRun == runs[1].end

EndRun ==
    /\ phase = "run"
    /\ skip_whitespace(RunText, at) >= runs[1].end
    /\ at' = AfterRun
    /\ runs' = Tail(runs)
    /\ phase' = IF runs' = NoRuns THEN "statements" ELSE "runs"
    /\ UNCHANGED <<tableVars, text, target, cutter, skipped>>

Next ==
    \/ Section \/ ReadInstance \/ ReadOther \/ EndSection
    \/ CutInstance \/ CutToTheEnd \/ CutNothing
    \/ StartRun \/ ReadInRun \/ EndRun

Spec == Init /\ [][Next]_vars

-----------------------------------------------------------------------------
(* What must hold.                                                         *)

\* Where the statements of a section begin, as far as ENDSEC.
StatementsFrom(t) ==
    LET from[i \in 1..End(t)] ==
          LET k == skip_whitespace(t, i)
          IN  IF Symbol(t, k) \in {"end", "ENDSEC"} THEN {}
              ELSE {k} \union from[skip_statement(t, k).at]
    IN  from

Statements(t) == StatementsFrom(t)[1]

\* An instance of which the reader leaves nothing behind.
ReadWhole(t, i) == read_instance(t, i).at = skip_statement(t, i).at
ReadableIn(t, places) == {i \in places : t[i] = "hash" /\ read_instance(t, i).ok}
UnreadableIn(t, places) == {i \in places : t[i] = "hash" /\ ~read_instance(t, i).ok}

AllInstances(t) == \A i \in Statements(t) : t[i] = "hash" /\ ReadWhole(t, i)

\* The instances at these places by identifier, of each the last.
LastOfEach(t, places) ==
    LET id(i) == Numeral[t[i + 1]]
    IN  [n \in {id(i) : i \in places} |-> Max({i \in places : id(i) = n})]

\* Where every statement is an instance that is read whole or skipped whole,
\* a section comes to the same table and the same number of instances
\* skipped, read statement by statement or in runs however cut.
CuttingIsInvisible ==
    phase = "done" /\ AllInstances(text) =>
        /\ latest = LastOfEach(text, ReadableIn(text, Statements(text)))
        /\ skipped = Cardinality(UnreadableIn(text, Statements(text)))

\* What could not be read is counted, an instance once (Parsed::skipped).
SkippedAreCounted ==
    phase = "done" => skipped = Cardinality(UnreadableIn(text, Statements(text)))
=============================================================================
