--------------------------- MODULE ConversionSlot ---------------------------
(***************************************************************************)
(* The conversions of groma-api: the jobs a server has been asked for, the *)
(* one slot they run in, the converter process each one starts, and the    *)
(* requests that cancel them (apps/groma-api/src/main.rs, upload.rs).      *)
(*                                                                         *)
(* Actors, each of which steps on its own: the request handlers announcing *)
(* jobs, one worker thread per job, the thread that reads the converter's  *)
(* standard output, the converter itself, and the cancel requests.  Every  *)
(* action is one stretch of code between two points another actor can get  *)
(* in at: a lock taken or released, a process started, polled or killed.   *)
(*                                                                         *)
(* A job's identifier is a natural number standing for its rank in the     *)
(* order of BTreeMap<String, _>; jobs may be announced in any order, as    *)
(* that order is not always the order of arrival (see Requests).  Where a  *)
(* scene is written (SceneVersions) and what the sources hold (Uploads) is *)
(* left to those modules; here an output is a place on the disk.           *)
(***************************************************************************)
EXTENDS Naturals, FiniteSets

CONSTANTS
    Jobs,        \* identifiers of the jobs asked for
    Outputs,     \* places a converter may write
    OutputOf,    \* where each job's product goes
    Deletable,   \* the places a request may delete: those of scenes
    Federated,   \* the jobs whose sources are a staged set of files
    Cancels,     \* cancel requests
    Remembered   \* how many jobs the map keeps (32 in the code)

ASSUME JobsAssumption       == Jobs \subseteq Nat \ {0}
ASSUME OutputAssumption     == OutputOf \in [Jobs -> Outputs]
ASSUME DeletableAssumption  == Deletable \subseteq Outputs
ASSUME FederatedAssumption  == Federated \subseteq Jobs
ASSUME RememberedAssumption == Remembered \in Nat \ {0}

NoJob == 0

VARIABLES
    jobs,      \* the keys of ConversionSlot.jobs
    running,   \* who holds ConversionSlot.running, or NoJob
    state,     \* Job.state, "None" before the job exists
    process,   \* whether Job.process is set
    stage,     \* whether Job.running names a stage
    worker,    \* where each worker thread is
    child,     \* each job's converter process
    status,    \* what waiting for the converter told the worker
    line,      \* a line of progress the converter printed and nobody read
    open,      \* the jobs whose converter has created its output
    taken,     \* history: the jobs whose output a request has deleted
    file,      \* what is at each output: who wrote it, whether all of it
    staged,    \* the jobs whose staged set is still to be discarded
    cancel     \* each cancel request: where it is and the job it names

jobVars    == <<state, process, stage>>
outVars    == <<open, taken>>
childVars  == <<child, line, outVars>>
vars == <<jobs, running, state, process, stage, worker, child, status, line,
          open, taken, file, staged, cancel>>

JobStates    == {"Running", "Done", "Failed", "Cancelled"}
Exits        == {"succeeded", "failed"}
WorkerPlaces == {"none", "queued", "checking", "starting", "registering",
                 "killing", "following", "joining", "settling",
                 "discarding", "ended"}
CancelPlaces == {"idle", "found", "kill", "answered"}

Absent == [by |-> NoJob, whole |-> FALSE]

Init ==
    /\ jobs = {}
    /\ running = NoJob
    /\ state = [j \in Jobs |-> "None"]
    /\ process = [j \in Jobs |-> FALSE]
    /\ stage = [j \in Jobs |-> FALSE]
    /\ worker = [j \in Jobs |-> "none"]
    /\ child = [j \in Jobs |-> "none"]
    /\ status = [j \in Jobs |-> "unknown"]
    /\ line = [j \in Jobs |-> FALSE]
    /\ open = {}
    /\ taken = {}
    /\ file = [o \in Outputs |-> Absent]
    /\ staged = {}
    /\ cancel = [c \in Cancels |-> [at |-> "idle", job |-> NoJob]]

-----------------------------------------------------------------------------
(* The request that asks for a conversion.                                 *)

\* One turn of the loop of ConversionSlot.remember: the least key goes.
Oldest(held) == CHOOSE j \in held : \A k \in held : j <= k
Evict(held) == IF Cardinality(held) >= Remembered
               THEN held \ {Oldest(held)}
               ELSE held

\* Only a federation's sources are staged as a set.
StagedWithoutSet(j) == {j}                                \* mutant
StagedFor(j) == {j} \intersect Federated

Announce(j) ==
    /\ worker[j] = "none"
    /\ state' = [state EXCEPT ![j] = "Running"]
    /\ jobs' = Evict(jobs) \union {j}
    /\ staged' = staged \union StagedFor(j)
    /\ worker' = [worker EXCEPT ![j] = "queued"]
    /\ UNCHANGED <<running, process, stage, childVars, status, file, cancel>>

-----------------------------------------------------------------------------
(* The worker thread, under the guard of ConversionSlot.running.           *)

GoTo(j, place) == worker' = [worker EXCEPT ![j] = place]

SlotAlwaysFree == TRUE                                     \* mutant
SlotFree == running = NoJob

AcquireSlot(j) ==
    /\ worker[j] = "queued"
    /\ SlotFree
    /\ running' = j
    /\ GoTo(j, "checking")
    /\ UNCHANGED <<jobs, jobVars, childVars, status, file, staged, cancel>>

\* The guard is dropped when the closure returns.
LeaveHolding(j) == staged' = staged \ {j} /\ GoTo(j, "ended")    \* mutant
                   /\ running' = running
Leave(j) ==
    /\ staged' = staged \ {j}
    /\ running' = NoJob
    /\ GoTo(j, "ended")

NeverCancelled(j) == FALSE                                 \* mutant
JobCancelled(j) == state[j] = "Cancelled"

CheckCancelled(j) ==
    /\ worker[j] = "checking"
    /\ \/ /\ JobCancelled(j)
          /\ Leave(j)
       \/ /\ ~JobCancelled(j)
          /\ GoTo(j, "starting")
          /\ UNCHANGED <<running, staged>>
    /\ UNCHANGED <<jobs, jobVars, childVars, status, file, cancel>>

Start(j) ==
    /\ worker[j] = "starting"
    /\ child' = [child EXCEPT ![j] = "alive"]
    /\ GoTo(j, "registering")
    /\ UNCHANGED <<jobs, running, jobVars, line, outVars, status, file, staged,
                   cancel>>

FailsAnyway(j) == "Failed"                                 \* mutant
StartOutcome(j) == IF state[j] = "Cancelled" THEN "Cancelled" ELSE "Failed"

StartFails(j) ==
    /\ worker[j] = "starting"
    /\ state' = [state EXCEPT ![j] = StartOutcome(j)]
    /\ GoTo(j, "discarding")
    /\ UNCHANGED <<jobs, running, process, stage, childVars, status, file,
                   staged, cancel>>

\* Under one lock the process is made known and the cancellation is read, so
\* that either this worker or the cancel request has the process to kill.
KillNobody(j) == FALSE                                     \* mutant
KillNeeded(j) == state[j] = "Cancelled"

Register(j) ==
    /\ worker[j] = "registering"
    /\ process' = [process EXCEPT ![j] = TRUE]
    /\ GoTo(j, IF KillNeeded(j) THEN "killing" ELSE "following")
    /\ UNCHANGED <<jobs, running, state, stage, childVars, status, file, staged,
                   cancel>>

\* Child::kill does nothing to a process that has already exited, and one it
\* does end exits without success.
Kill(j) == child' = [child EXCEPT ![j] = IF @ = "alive" THEN "failed" ELSE @]

KillNow(j) ==
    /\ worker[j] = "killing"
    /\ Kill(j)
    /\ GoTo(j, "following")
    /\ UNCHANGED <<jobs, running, jobVars, line, outVars, status, file, staged,
                   cancel>>

Exited(j) == child[j] \in Exits

Reap(j) ==
    /\ worker[j] = "following"
    /\ Exited(j)
    /\ status' = [status EXCEPT ![j] = child[j]]
    /\ GoTo(j, "joining")
    /\ UNCHANGED <<jobs, running, jobVars, childVars, file, staged, cancel>>

\* try_wait gave an error: the loop ends with no status to speak of.
WaitFails(j) ==
    /\ worker[j] = "following"
    /\ GoTo(j, "joining")
    /\ UNCHANGED <<jobs, running, jobVars, childVars, status, file, staged,
                   cancel>>

\* The readers end at the end of the converter's output.
JoinNothing(j) == TRUE                                     \* mutant
ReadersEnded(j) == Exited(j) /\ ~line[j]

JoinReaders(j) ==
    /\ worker[j] = "joining"
    /\ ReadersEnded(j)
    /\ GoTo(j, "settling")
    /\ UNCHANGED <<jobs, running, jobVars, childVars, status, file, staged,
                   cancel>>

Outcome(j) ==
    IF state[j] = "Cancelled" THEN "Cancelled"
    ELSE IF status[j] = "succeeded" THEN "Done" ELSE "Failed"

\* What is left at the output: a cancelled job's goes, a failed one's stays.
LeftAsWritten(j) == file[OutputOf[j]]                      \* mutant
Left(j) == IF state[j] = "Cancelled" THEN Absent ELSE file[OutputOf[j]]

Settle(j) ==
    /\ worker[j] = "settling"
    /\ process' = [process EXCEPT ![j] = FALSE]
    /\ stage' = [stage EXCEPT ![j] = FALSE]
    /\ state' = [state EXCEPT ![j] = Outcome(j)]
    /\ file' = [file EXCEPT ![OutputOf[j]] = Left(j)]
    /\ status' = [status EXCEPT ![j] = "unknown"]
    /\ GoTo(j, "discarding")
    /\ UNCHANGED <<jobs, running, childVars, staged, cancel>>

Discard(j) ==
    /\ worker[j] = "discarding"
    /\ Leave(j)
    /\ UNCHANGED <<jobs, jobVars, childVars, status, file, cancel>>

-----------------------------------------------------------------------------
(* The converter, and the thread that reads what it prints.                *)

\* A converter reads its sources to the end before it creates its output.
ChildCreates(j) ==
    /\ child[j] = "alive"
    /\ j \notin open
    /\ open' = open \union {j}
    /\ file' = [file EXCEPT ![OutputOf[j]] = [by |-> j, whole |-> FALSE]]
    /\ UNCHANGED <<jobs, running, jobVars, worker, child, line, taken, status,
                   staged, cancel>>

\* It writes to the file it has open, and ends well, whether or not that file
\* still has its name.
Written(j) ==
    IF file[OutputOf[j]].by = j
    THEN [file EXCEPT ![OutputOf[j]] = [by |-> j, whole |-> TRUE]]
    ELSE file

ChildSucceeds(j) ==
    /\ child[j] = "alive"
    /\ j \in open
    /\ file' = Written(j)
    /\ child' = [child EXCEPT ![j] = "succeeded"]
    /\ UNCHANGED <<jobs, running, jobVars, worker, line, outVars, status, staged,
                   cancel>>

\* An error of the converter, or the kernel killing it for its memory.
ChildFails(j) ==
    /\ child[j] = "alive"
    /\ child' = [child EXCEPT ![j] = "failed"]
    /\ UNCHANGED <<jobs, running, jobVars, worker, line, outVars, status, file,
                   staged, cancel>>

ChildReports(j) ==
    /\ child[j] = "alive"
    /\ ~line[j]
    /\ line' = [line EXCEPT ![j] = TRUE]
    /\ UNCHANGED <<jobs, running, jobVars, worker, child, outVars, status, file,
                   staged, cancel>>

\* The reading thread begins once the process is registered.
Reading(j) == worker[j] \in {"following", "joining"}

\* A stage begins or ends; only a job still running takes note of it.
AlwaysNoted(j) == TRUE                                     \* mutant
Noted(j) == state[j] = "Running"

ReadLine(j) ==
    /\ Reading(j)
    /\ line[j]
    /\ line' = [line EXCEPT ![j] = FALSE]
    /\ \E begins \in BOOLEAN :
         stage' = [stage EXCEPT ![j] = IF Noted(j) THEN begins ELSE @]
    /\ UNCHANGED <<jobs, running, state, process, worker, child, outVars, status,
                   file, staged, cancel>>

-----------------------------------------------------------------------------
(* A request that deletes a version, or a scene, while it is written or    *)
(* after (Scenes::remove, Scenes::remove_version).                         *)

DeleteOutput(o) ==
    /\ o \in Deletable
    /\ file[o].by # NoJob
    /\ file' = [file EXCEPT ![o] = Absent]
    /\ taken' = taken \union {file[o].by}
    /\ UNCHANGED <<jobs, running, jobVars, worker, child, line, open, status,
                   staged, cancel>>

-----------------------------------------------------------------------------
(* A cancel request: find the job, cancel it under its lock, kill outside. *)

\* The answer, 202 or 409, is the end of the request.
Answer(c) == cancel' = [cancel EXCEPT ![c] = [at |-> "answered", job |-> NoJob]]

\* An unknown job is answered 404, which changes nothing.
FindJob(c, j) ==
    /\ cancel[c].at = "idle"
    /\ j \in jobs
    /\ cancel' = [cancel EXCEPT ![c] = [at |-> "found", job |-> j]]
    /\ UNCHANGED <<jobs, running, jobVars, worker, childVars, status, file, staged>>

KillsNothing(j) == FALSE                                   \* mutant
HasProcess(j) == process[j]

CancelJob(c) ==
    LET j == cancel[c].job
    IN  /\ cancel[c].at = "found"
        /\ \/ /\ state[j] = "Running"
              /\ state' = [state EXCEPT ![j] = "Cancelled"]
              /\ stage' = [stage EXCEPT ![j] = FALSE]
              /\ IF HasProcess(j)
                 THEN cancel' = [cancel EXCEPT ![c].at = "kill"]
                 ELSE Answer(c)
           \/ /\ state[j] # "Running"
              /\ Answer(c)
              /\ UNCHANGED <<state, stage>>
        /\ UNCHANGED <<jobs, running, process, worker, childVars, status, file,
                       staged>>

KillJob(c) ==
    /\ cancel[c].at = "kill"
    /\ Kill(cancel[c].job)
    /\ Answer(c)
    /\ UNCHANGED <<jobs, running, jobVars, worker, line, outVars, status, file,
                   staged>>

-----------------------------------------------------------------------------
Worker(j) ==
    \/ AcquireSlot(j) \/ CheckCancelled(j) \/ Start(j) \/ StartFails(j)
    \/ Register(j) \/ KillNow(j) \/ Reap(j) \/ JoinReaders(j)
    \/ Settle(j) \/ Discard(j)

Converter(j) ==
    ChildCreates(j) \/ ChildSucceeds(j) \/ ChildFails(j) \/ ChildReports(j)

Canceller(c) == CancelJob(c) \/ KillJob(c)

Next ==
    \/ \E j \in Jobs : Announce(j) \/ Worker(j) \/ WaitFails(j) \/ Converter(j)
                        \/ ReadLine(j)
    \/ \E c \in Cancels : Canceller(c) \/ \E j \in Jobs : FindJob(c, j)
    \/ \E o \in Outputs : DeleteOutput(o)

Spec == Init /\ [][Next]_vars

\* Threads are scheduled; nobody has to ask for a conversion or cancel one,
\* and a converter may run for ever.
Fairness ==
    /\ \A j \in Jobs : WF_vars(Worker(j)) /\ WF_vars(ReadLine(j))
    /\ \A c \in Cancels : WF_vars(Canceller(c))

FairSpec == Spec /\ Fairness

\* What is not assumed: that every converter comes to an end of its own.
ConvertersEnd ==
    \A j \in Jobs : WF_vars(ChildCreates(j) \/ ChildSucceeds(j) \/ ChildFails(j))

-----------------------------------------------------------------------------
(* What the slot promises, seen from outside it.                           *)

Phase(place) == IF place = "none" THEN "unasked"
                ELSE IF place = "queued" THEN "waiting"
                ELSE IF place = "ended" THEN "over" ELSE "working"

Lifecycle == INSTANCE JobLifecycle WITH
    phase      <- [j \in Jobs |-> Phase(worker[j])],
    outcome    <- state,
    converters <- {j \in Jobs : child[j] = "alive"}

\* The slot keeps its promise: a job waits, has the slot to itself, runs one
\* converter at most, leaves no converter behind and ends in one way, once.
LifecycleSpec == Lifecycle!Spec

-----------------------------------------------------------------------------
(* What must hold.                                                         *)

\* Every variable keeps to its values, and the map to its size.
TypeOK ==
    /\ jobs \subseteq Jobs
    /\ running \in Jobs \union {NoJob}
    /\ state \in [Jobs -> JobStates \union {"None"}]
    /\ process \in [Jobs -> BOOLEAN]
    /\ stage \in [Jobs -> BOOLEAN]
    /\ worker \in [Jobs -> WorkerPlaces]
    /\ child \in [Jobs -> Exits \union {"none", "alive"}]
    /\ status \in [Jobs -> Exits \union {"unknown"}]
    /\ line \in [Jobs -> BOOLEAN]
    /\ open \subseteq Jobs
    /\ taken \subseteq Jobs
    /\ file \in [Outputs -> [by : Jobs \union {NoJob}, whole : BOOLEAN]]
    /\ staged \subseteq Federated
    /\ cancel \in [Cancels -> [at : CancelPlaces, job : Jobs \union {NoJob}]]

\* The map of jobs never holds more than it is meant to (remember).
RememberedBound == Cardinality(jobs) <= Remembered

\* Two models are never decoded at once, even where waiting for a converter
\* fails: the slot is not given up while its converter can still be running.
OneConverter ==
    \A j, k \in Jobs : child[j] = "alive" /\ child[k] = "alive" => j = k

\* A converter that outlives its job's cancellation always has somebody about
\* to kill it: the worker that started it, or the request that cancelled it.
CancelledIsKilled ==
    \A j \in Jobs :
      state[j] = "Cancelled" /\ child[j] = "alive" =>
        \/ worker[j] \in {"registering", "killing"}
        \/ \E c \in Cancels : cancel[c] = [at |-> "kill", job |-> j]

\* A cancelled job whose worker is through has left no product of its own, and
\* has seen to the discarding of the files staged for it.
CancelledLeavesNothing ==
    \A j \in Jobs :
      state[j] = "Cancelled" /\ worker[j] = "ended" =>
        file[OutputOf[j]].by # j /\ j \notin staged

\* A job that has ended, or that was cancelled, shows no stage under way,
\* whatever its converter still prints.
NoStageAfterEnd == \A j \in Jobs : stage[j] => state[j] = "Running"

\* A job is called done only when its converter created its product and all
\* of it is where the job says, written by no other job since, unless a
\* request deleted it meanwhile: no other job's cleaning up takes it.  (That
\* a job whose scene was deleted under it is called done is what the code
\* does; see README.)
DoneWhenWhole ==
    [][\A j \in Jobs :
         state[j] # "Done" /\ state'[j] = "Done" =>
           /\ j \in open
           /\ j \in taken \/ file[OutputOf[j]] = [by |-> j, whole |-> TRUE]]_vars

\* How a job ended is never rewritten: a cancellation that was accepted stays
\* one when the converter had succeeded all the same.
EndedForGood ==
    [][\A j \in Jobs : state[j] \in JobStates \ {"Running"} =>
                         state'[j] = state[j]]_vars

\* A job cancelled while it waited for the slot never starts a converter.
CancelledInQueueNeverStarts ==
    \A j \in Jobs :
      [](state[j] = "Cancelled" /\ worker[j] = "queued" => [](child[j] = "none"))

\* Cancelling the job in the slot frees the slot, even where its converter
\* would never have ended.
CancelFreesSlot ==
    \A j \in Jobs : (state[j] = "Cancelled" /\ running = j) ~> (running # j)

\* Where converters end, every conversion asked for comes to an end, however
\* many wait for the slot, and so does whatever was staged for it.
EveryJobEnds ==
    ConvertersEnd =>
      \A j \in Jobs : (worker[j] = "queued") ~>
                         (worker[j] = "ended" /\ state[j] # "Running" /\ j \notin staged)
=============================================================================
