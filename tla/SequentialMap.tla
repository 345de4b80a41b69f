--------------------------- MODULE SequentialMap ---------------------------
(***************************************************************************)
(* What bim_core::work::map_in_order promises its caller: a plain loop.    *)
(* Items go in, and either their results come out in the order the items   *)
(* came in or, where the mapping of one panics, a panic.                   *)
(*                                                                         *)
(* The mapping is a function of the item, so a result is stood for by the  *)
(* item it was made from.                                                  *)
(***************************************************************************)
EXTENDS Sequences

CONSTANT Item

VARIABLES
    items,   \* what is to be mapped
    fatal,   \* the items whose mapping panics
    phase,   \* "idle", "mapping", "returned" or "panicked"
    result   \* what was handed back

vars == <<items, fatal, phase, result>>

AnyFatal == \E i \in DOMAIN items : items[i] \in fatal

Init ==
    /\ items = <<>>
    /\ fatal = {}
    /\ phase = "idle"
    /\ result = <<>>

Call ==
    /\ phase = "idle"
    /\ items' \in Seq(Item)
    /\ fatal' \in SUBSET Item
    /\ phase' = "mapping"
    /\ UNCHANGED result

Return ==
    /\ phase = "mapping"
    /\ ~AnyFatal
    /\ phase' = "returned"
    /\ result' = items
    /\ UNCHANGED <<items, fatal>>

Panic ==
    /\ phase = "mapping"
    /\ AnyFatal
    /\ phase' = "panicked"
    /\ UNCHANGED <<items, fatal, result>>

\* The caller has what it asked for.
Take ==
    /\ phase = "returned"
    /\ phase' = "idle"
    /\ items' = <<>>
    /\ fatal' = {}
    /\ result' = <<>>

Next == Call \/ Return \/ Panic \/ Take

Spec == Init /\ [][Next]_vars
=============================================================================
