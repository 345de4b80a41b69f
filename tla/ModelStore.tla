----------------------------- MODULE ModelStore -----------------------------
(***************************************************************************)
(* The models groma-api keeps in memory (Store in apps/groma-api/src/      *)
(* main.rs): requests, handled by a fixed number of threads, ask for a     *)
(* model by name; the first to ask for one reads it from its file, one     *)
(* request at a time, and all others are handed what it kept.  The files   *)
(* are written by somebody else, at any time.                              *)
(*                                                                         *)
(* A name is one that passes the test for separators, and a model is the   *)
(* content its file had when it was read.  Every action is a stretch of    *)
(* code between two looks at something shared: the map of loaded models,   *)
(* under its lock, the file, and the lock of the loader.                   *)
(***************************************************************************)
EXTENDS Naturals, FiniteSets

CONSTANTS
    Requests,    \* requests for a model
    Names,       \* names of models
    NameOf,      \* the name each request asks for
    Contents,    \* what a file may hold
    Threads,     \* how many threads handle requests
    Nothing,     \* no model, no file
    NoOne        \* no request

ASSUME NamesAssumption   == NameOf \in [Requests -> Names]
ASSUME NothingAssumption == Nothing \notin Contents /\ NoOne \notin Requests
ASSUME ThreadsAssumption == Threads \in Nat \ {0}

VARIABLES
    disk,      \* what is at {name}.jsonl
    loaded,    \* Store.loaded
    loading,   \* who holds Store.loading
    at,        \* where each request is
    model      \* the model each request has read or is answered with

vars == <<disk, loaded, loading, at, model>>

Places  == {"queued", "looking", "cold", "waiting", "inside", "reading",
            "read", "answered"}
Handled == Places \ {"queued", "answered"}

Init ==
    /\ disk \in [Names -> Contents \union {Nothing}]
    /\ loaded = [n \in Names |-> Nothing]
    /\ loading = NoOne
    /\ at = [r \in Requests |-> "queued"]
    /\ model = [r \in Requests |-> Nothing]

Goes(r, place) == at' = [at EXCEPT ![r] = place]
Kept(r) == loaded[NameOf[r]]

\* The answer is a model or, where there is Nothing, 404.
Answer(r, answer) ==
    /\ model' = [model EXCEPT ![r] = answer]
    /\ Goes(r, "answered")

-----------------------------------------------------------------------------
(* A request is taken by a thread and asks for its model (Store::get).     *)

Take(r) ==
    /\ at[r] = "queued"
    /\ Cardinality({o \in Requests : at[o] \in Handled}) < Threads
    /\ Goes(r, "looking")
    /\ UNCHANGED <<disk, loaded, loading, model>>

Look(r) ==
    /\ at[r] = "looking"
    /\ \/ Kept(r) # Nothing /\ Answer(r, Kept(r))
       \/ Kept(r) = Nothing /\ Goes(r, "cold") /\ UNCHANGED model
    /\ UNCHANGED <<disk, loaded, loading>>

FindFile(r) ==
    /\ at[r] = "cold"
    /\ \/ disk[NameOf[r]] = Nothing /\ Answer(r, Nothing)
       \/ disk[NameOf[r]] # Nothing /\ Goes(r, "waiting") /\ UNCHANGED model
    /\ UNCHANGED <<disk, loaded, loading>>

LoaderAlwaysFree == TRUE                                       \* mutant
LoaderFree == loading = NoOne

\* The guard of the loader is dropped when the request returns.
KeepsGuard == UNCHANGED loading                                \* mutant
Release == loading' = NoOne

Enter(r) ==
    /\ at[r] = "waiting"
    /\ LoaderFree
    /\ loading' = r
    /\ Goes(r, "inside")
    /\ UNCHANGED <<disk, loaded, model>>

\* Another request may have loaded it while this one waited.
NeverMeanwhile(r) == FALSE                                     \* mutant
LoadedMeanwhile(r) == Kept(r) # Nothing

LookAgain(r) ==
    /\ at[r] = "inside"
    /\ \/ LoadedMeanwhile(r) /\ Answer(r, Kept(r)) /\ Release
       \/ ~LoadedMeanwhile(r) /\ Goes(r, "reading") /\ UNCHANGED <<model, loading>>
    /\ UNCHANGED <<disk, loaded>>

NameOfFile(r) == NameOf[r]                                     \* mutant
OfFile(r) == disk[NameOf[r]]

Read(r) ==
    /\ at[r] = "reading"
    /\ OfFile(r) # Nothing
    /\ model' = [model EXCEPT ![r] = OfFile(r)]
    /\ Goes(r, "read")
    /\ UNCHANGED <<disk, loaded, loading>>

\* The file has gone, or cannot be read to its end.
ReadFails(r) ==
    /\ at[r] = "reading"
    /\ Answer(r, Nothing)
    /\ Release
    /\ UNCHANGED <<disk, loaded>>

Keep(r) ==
    /\ at[r] = "read"
    /\ loaded' = [loaded EXCEPT ![NameOf[r]] = model[r]]
    /\ Release
    /\ Goes(r, "answered")
    /\ UNCHANGED <<disk, model>>

-----------------------------------------------------------------------------
\* Whoever writes the models replaces one, adds one or takes one away.
WriteFile(n) ==
    /\ disk' \in {[disk EXCEPT ![n] = c] : c \in Contents \union {Nothing}}
    /\ UNCHANGED <<loaded, loading, at, model>>

Handle(r) ==
    \/ Take(r) \/ Look(r) \/ FindFile(r) \/ Enter(r) \/ LookAgain(r)
    \/ Read(r) \/ ReadFails(r) \/ Keep(r)

Next ==
    \/ \E r \in Requests : Handle(r)
    \/ \E n \in Names : WriteFile(n)

Spec == Init /\ [][Next]_vars

\* The threads are scheduled, and reading a file comes to an end.
FairSpec == Spec /\ \A r \in Requests : WF_vars(Handle(r))

-----------------------------------------------------------------------------
(* What must hold.                                                         *)

\* Every variable keeps to its values.
TypeOK ==
    /\ disk \in [Names -> Contents \union {Nothing}]
    /\ loaded \in [Names -> Contents \union {Nothing}]
    /\ loading \in Requests \union {NoOne}
    /\ at \in [Requests -> Places]
    /\ model \in [Requests -> Contents \union {Nothing}]

\* Nobody pays twice for a model: none is being read that is loaded already,
\* or that another request is reading (Store::get, "one loader at a time").
NobodyPaysTwice ==
    \A r \in Requests : at[r] \in {"reading", "read"} =>
      /\ Kept(r) = Nothing
      /\ \A o \in Requests \ {r} : at[o] \notin {"reading", "read"}

\* All requests for a name that are answered with a model are answered with
\* the same one, though its file is written over meanwhile: the pages of one
\* listing are pages of one model.
OneModelPerName ==
    \A r, o \in Requests :
      /\ at[r] = "answered" /\ model[r] # Nothing
      /\ at[o] = "answered" /\ model[o] # Nothing
      /\ NameOf[r] = NameOf[o]
      => model[r] = model[o]

\* A model that was loaded stays loaded as it is.
LoadedForGood ==
    [][\A n \in Names : loaded[n] # Nothing => loaded'[n] = loaded[n]]_vars

\* Every request is answered, however few threads there are and however many
\* of them wait for the same loader.
EveryRequestIsAnswered ==
    \A r \in Requests : <>(at[r] = "answered")
=============================================================================
