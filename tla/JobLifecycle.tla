---------------------------- MODULE JobLifecycle ----------------------------
(***************************************************************************)
(* What the conversion slot promises whoever asks for a conversion, with   *)
(* no threads, locks, processes or requests in it: a job waits, has the    *)
(* slot to itself, runs at most one converter, and ends in one way, once.  *)
(* ConversionSlot implements it.                                           *)
(***************************************************************************)
CONSTANT Jobs

VARIABLES
    phase,       \* whether the job waits for the slot, has it, or is over
    outcome,     \* what the job says of itself
    converters   \* the jobs whose converter is running

vars == <<phase, outcome, converters>>

Ended == {"Done", "Failed", "Cancelled"}

Init ==
    /\ phase = [j \in Jobs |-> "unasked"]
    /\ outcome = [j \in Jobs |-> "None"]
    /\ converters = {}

Ask(j) ==
    /\ phase[j] = "unasked"
    /\ phase' = [phase EXCEPT ![j] = "waiting"]
    /\ outcome' = [outcome EXCEPT ![j] = "Running"]
    /\ UNCHANGED converters

Begin(j) ==
    /\ phase[j] = "waiting"
    /\ \A k \in Jobs : phase[k] # "working"
    /\ phase' = [phase EXCEPT ![j] = "working"]
    /\ UNCHANGED <<outcome, converters>>

Launch(j) ==
    /\ phase[j] = "working"
    /\ converters = {}
    /\ converters' = {j}
    /\ UNCHANGED <<phase, outcome>>

Exit(j) ==
    /\ j \in converters
    /\ converters' = converters \ {j}
    /\ UNCHANGED <<phase, outcome>>

\* Accepted at any time until the job has ended.
Cancel(j) ==
    /\ outcome[j] = "Running"
    /\ outcome' = [outcome EXCEPT ![j] = "Cancelled"]
    /\ UNCHANGED <<phase, converters>>

Finish(j) ==
    /\ phase[j] = "working"
    /\ outcome[j] = "Running"
    /\ converters = {}
    /\ \E o \in {"Done", "Failed"} : outcome' = [outcome EXCEPT ![j] = o]
    /\ UNCHANGED <<phase, converters>>

Retire(j) ==
    /\ phase[j] = "working"
    /\ outcome[j] \in Ended
    /\ converters = {}
    /\ phase' = [phase EXCEPT ![j] = "over"]
    /\ UNCHANGED <<outcome, converters>>

Next == \E j \in Jobs :
    Ask(j) \/ Begin(j) \/ Launch(j) \/ Exit(j) \/ Cancel(j) \/ Finish(j) \/ Retire(j)

Spec == Init /\ [][Next]_vars
=============================================================================
