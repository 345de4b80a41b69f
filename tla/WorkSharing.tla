---------------------------- MODULE WorkSharing ----------------------------
(***************************************************************************)
(* bim_core::work::map_in_order (crates/bim-core/src/work.rs), and its     *)
(* twin parallel_map in crates/rvt-import/src/lib.rs: the items are cut    *)
(* into runs, each run is mapped by a thread of its own, and the calling   *)
(* thread joins the threads in the order of their runs.  It is called      *)
(* again and again, one call at a time, by the passes that pack, read and  *)
(* import (ScenePack, StepReading, PartitionMembers).                      *)
(*                                                                         *)
(* A result is stood for by the item it was made from, as mapping is a     *)
(* function of the item; fatal are the items on which it panics.           *)
(***************************************************************************)
EXTENDS Integers, Sequences

CONSTANTS
    Item,         \* what may be mapped
    Parallelism   \* the most threads the machine reports

ASSUME ParallelismAssumption == Parallelism \in Nat \ {0}

VARIABLES
    call,      \* where the calling thread is
    items,     \* the items of this call
    fatal,     \* those on which the mapping panics
    perThread, \* how many of them each thread has
    out,       \* what each thread has made so far, by its number
    ended,     \* how each thread ended, "no" while it runs
    joining,   \* the thread that is joined next
    joined     \* the results of the threads joined already

sharingVars == <<call, items, fatal, perThread, out, ended, joining, joined>>

Smaller(a, b) == IF a < b THEN a ELSE b
Larger(a, b)  == IF a > b THEN a ELSE b
DivCeil(a, b) == (a + b - 1) \div b

\* Threads for so much work, of a machine that reports so many.
threads(work, reported) == Smaller(reported, Larger(work, 1))

\* The run of items a thread has, and the threads there are.
RunStart(w)  == (w - 1) * perThread + 1
RunEnd(w)   == Smaller(w * perThread, Len(items))
Workers   == {w \in DOMAIN items : (w - 1) * perThread < Len(items)}
LastWorker(w) == w * perThread >= Len(items)

SharingInit ==
    /\ call = "idle"
    /\ items = <<>> /\ fatal = {} /\ perThread = 0
    /\ out = <<>> /\ ended = <<>>
    /\ joining = 1 /\ joined = <<>>

\* What the machine reports is asked at every call.
MapInOrder(s, f) ==
    /\ call = "idle"
    /\ items' = s
    /\ fatal' = f
    /\ \E reported \in 1..Parallelism :
         perThread' = DivCeil(Len(s), threads(Len(s), reported))
    /\ out' = [w \in DOMAIN s |-> <<>>]
    /\ ended' = [w \in DOMAIN s |-> "no"]
    /\ call' = "mapping"
    /\ UNCHANGED <<joining, joined>>

NothingToMap ==
    /\ call = "mapping"
    /\ perThread = 0
    /\ call' = "returned"
    /\ UNCHANGED <<items, fatal, perThread, out, ended, joining, joined>>

NextItem(w) == items[RunStart(w) + Len(out[w])]

\* A thread maps its next item, whichever is being joined meanwhile.
Map(w) ==
    /\ call \in {"mapping", "unwinding"}
    /\ w \in Workers
    /\ ended[w] = "no"
    /\ \/ /\ NextItem(w) \in fatal
          /\ ended' = [ended EXCEPT ![w] = "panicked"]
          /\ UNCHANGED out
       \/ /\ NextItem(w) \notin fatal
          /\ out' = [out EXCEPT ![w] = Append(@, NextItem(w))]
          /\ ended' = [ended EXCEPT ![w] =
               IF RunStart(w) + Len(out[w]) = RunEnd(w) THEN "returned" ELSE "no"]
    /\ UNCHANGED <<call, items, fatal, perThread, joining, joined>>

Prepended(w) == out[w] \o joined                                   \* mutant
Appended(w)  == joined \o out[w]

Panicked(w) == ended[w] = "panicked"

NextThread   == joining + 1

Join ==
    /\ call = "mapping"
    /\ perThread > 0
    /\ ended[joining] # "no"
    /\ \/ /\ Panicked(joining)
          /\ call' = "unwinding"
          /\ UNCHANGED <<joining, joined>>
       \/ /\ ~Panicked(joining)
          /\ joined' = Appended(joining)
          /\ joining' = NextThread
          /\ call' = IF LastWorker(joining) THEN "returned" ELSE "mapping"
    /\ UNCHANGED <<items, fatal, perThread, out, ended>>

AllReturned == \A w \in Workers : ended[w] = "returned"             \* mutant
AllEnded == \A w \in Workers : ended[w] # "no"

\* The scope waits for every thread before the panic leaves it.
Unwind ==
    /\ call = "unwinding"
    /\ AllEnded
    /\ call' = "panicked"
    /\ UNCHANGED <<items, fatal, perThread, out, ended, joining, joined>>

\* The caller takes what was returned.
TakeResults ==
    /\ call = "returned"
    /\ call' = "idle"
    /\ items' = <<>> /\ fatal' = {} /\ perThread' = 0
    /\ out' = <<>> /\ ended' = <<>>
    /\ joining' = 1 /\ joined' = <<>>

\* What goes on inside a call.
Sharing ==
    \/ NothingToMap
    \/ \E w \in DOMAIN items : Map(w)
    \/ Join
    \/ Unwind

SharingNext ==
    \/ \E s \in Seq(Item), f \in SUBSET Item : MapInOrder(s, f)
    \/ Sharing
    \/ TakeResults

SharingSpec == SharingInit /\ [][SharingNext]_sharingVars

-----------------------------------------------------------------------------
(* What must hold.                                                         *)

Calls == {"idle", "mapping", "unwinding", "returned", "panicked"}
Ends  == {"no", "returned", "panicked"}

\* Every variable keeps to its values.
SharingTypeOK ==
    /\ call \in Calls
    /\ items \in Seq(Item)
    /\ fatal \in SUBSET Item
    /\ perThread \in Nat
    /\ out \in [DOMAIN items -> Seq(Item)]
    /\ ended \in [DOMAIN items -> Ends]
    /\ joining \in Nat \ {0}
    /\ joined \in Seq(Item)

\* Results are handed back in the order the items came in, one for each,
\* whichever thread ends first and however many the machine has.
ResultsInOrder == call = "returned" => joined = items

\* A call returns only where no item panics, and panics only where one does.
PanicIsPassedOn ==
    /\ call = "returned" => \A i \in DOMAIN items : items[i] \notin fatal
    /\ call = "panicked" => \E i \in DOMAIN items : items[i] \in fatal

\* No thread outlives the call that spawned it, not even where another one
\* panicked: what they borrow is gone afterwards.
NobodyOutlivesTheCall ==
    call \in {"returned", "panicked"} => \A w \in Workers : ended[w] # "no"

\* A call never has more threads than the machine reports.
NoMoreThreadsThanReported == \A w \in Workers : w <= Parallelism

\* To the caller it is a plain loop.
phase == IF call = "unwinding" THEN "mapping" ELSE call
Loop == INSTANCE SequentialMap WITH
    result <- IF call = "returned" THEN joined ELSE <<>>
LoopSpec == Loop!Spec
=============================================================================
