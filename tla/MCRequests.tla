----------------------------- MODULE MCRequests -----------------------------
(* Instances of Requests: readers send every header of small numbers to     *)
(* files of every small length, or a scene of whatever sources is uploaded  *)
(* beside an export, or four exports beside each other.  Numbers go up to   *)
(* 15, memory is taken at the code's ratio, and counts are written in base  *)
(* three, so that the third upload's has a second digit.                    *)
EXTENDS Requests

CONSTANTS u1, u2, u3, u4, u5, r1

MCMixes == {{r1}, {u1, u2}, {u2, u3, u4, u5}}
MCText == 0..6 \union {14, 15, 16} \union {Missing, Junk}
MCHeaders == [single : {TRUE}, start : MCText, end : MCText]
               \union {[single |-> FALSE, start |-> Missing, end |-> Missing]}
MCTotals == 0..5
MCSource == [bytes : {0, 1, 3, 4, 15}, format : {"ifc"}]
              \union {[bytes |-> 15, format |-> "rvt"]}
MCSourceSets == [1..1 -> MCSource] \union [1..2 -> MCSource]
MCFree == {Unknown, 4, 5, 15}
MCExports == {u2, u3, u4, u5}
=============================================================================
