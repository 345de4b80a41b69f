------------------------ MODULE ConversionSlotProofs ------------------------
(***************************************************************************)
(* What ConversionSlot keeps for any number of jobs, outputs and cancel    *)
(* requests.                                                               *)
(***************************************************************************)
EXTENDS ConversionSlot, FiniteSetTheorems, WellFoundedInduction, TLAPS

USE JobsAssumption, OutputAssumption, DeletableAssumption, FederatedAssumption

-----------------------------------------------------------------------------
(* The type invariant.                                                     *)

\* A request only cancels a job it found.
Found ==
    \A c \in Cancels :
      cancel[c].at = "found" \/ cancel[c].at = "kill" => cancel[c].job \in Jobs

TypeInv == TypeOK /\ Found

LEMMA TypeInit == Init => TypeInv
BY DEF Init, TypeInv, TypeOK, Found, NoJob, Absent, WorkerPlaces, CancelPlaces

LEMMA TypeStep == TypeInv /\ [Next]_vars => TypeInv'
<1> SUFFICES ASSUME TypeInv, [Next]_vars PROVE TypeInv'
  OBVIOUS
<1> USE DEF TypeInv, TypeOK, Found, JobStates, Exits, WorkerPlaces, CancelPlaces, outVars
<1>1. ASSUME NEW j \in Jobs, Announce(j) PROVE TypeInv'
  <2>1. Evict(jobs) \subseteq Jobs
    BY DEF Evict
  <2> QED BY <1>1, <2>1 DEF Announce, StagedFor, childVars
<1>2. ASSUME NEW j \in Jobs, Worker(j) PROVE TypeInv'
  <2>1. CASE AcquireSlot(j)
    BY <2>1 DEF AcquireSlot, GoTo, jobVars, childVars
  <2>2. CASE CheckCancelled(j)
    <3>1. CASE JobCancelled(j)
      <4>1. /\ worker' = [worker EXCEPT ![j] = "ended"]
            /\ running' = NoJob
            /\ staged' = staged \ {j}
        BY <2>2, <3>1 DEF CheckCancelled, Leave, GoTo
      <4>2. UNCHANGED <<jobs, jobVars, childVars, status, file, cancel>>
        BY <2>2 DEF CheckCancelled
      <4> QED BY <4>1, <4>2 DEF NoJob, jobVars, childVars
    <3>2. CASE ~JobCancelled(j)
      <4>1. worker' = [worker EXCEPT ![j] = "starting"]
        BY <2>2, <3>2 DEF CheckCancelled, GoTo
      <4>2. UNCHANGED <<running, staged, jobs, jobVars, childVars, status, file, cancel>>
        BY <2>2, <3>2 DEF CheckCancelled
      <4> QED BY <4>1, <4>2 DEF jobVars, childVars
    <3> QED BY <3>1, <3>2
  <2>3. CASE Start(j)
    BY <2>3 DEF Start, GoTo, jobVars
  <2>4. CASE StartFails(j)
    BY <2>4 DEF StartFails, StartOutcome, GoTo, childVars
  <2>5. CASE Register(j)
    BY <2>5 DEF Register, GoTo, childVars
  <2>6. CASE KillNow(j)
    BY <2>6 DEF KillNow, Kill, GoTo, jobVars
  <2>7. CASE Reap(j)
    BY <2>7 DEF Reap, Exited, GoTo, jobVars, childVars
  <2>8. CASE JoinReaders(j)
    BY <2>8 DEF JoinReaders, GoTo, jobVars, childVars
  <2>9. CASE Settle(j)
    BY <2>9 DEF Settle, Outcome, Left, Absent, NoJob, GoTo, childVars
  <2>10. CASE Discard(j)
    BY <2>10 DEF Discard, Leave, GoTo, NoJob, jobVars, childVars
  <2> QED BY <1>2, <2>1, <2>2, <2>3, <2>4, <2>5, <2>6, <2>7, <2>8, <2>9, <2>10
          DEF Worker
<1>3. ASSUME NEW j \in Jobs, WaitFails(j) PROVE TypeInv'
  BY <1>3 DEF WaitFails, GoTo, jobVars, childVars
<1>4. ASSUME NEW j \in Jobs, Converter(j) PROVE TypeInv'
  <2>1. CASE ChildCreates(j)
    BY <2>1 DEF ChildCreates, jobVars, childVars
  <2>2. CASE ChildSucceeds(j)
    BY <2>2 DEF ChildSucceeds, Written, jobVars
  <2>3. CASE ChildFails(j)
    BY <2>3 DEF ChildFails, jobVars
  <2>4. CASE ChildReports(j)
    BY <2>4 DEF ChildReports, jobVars
  <2> QED BY <1>4, <2>1, <2>2, <2>3, <2>4 DEF Converter
<1>5. ASSUME NEW j \in Jobs, ReadLine(j) PROVE TypeInv'
  BY <1>5 DEF ReadLine
<1>6. ASSUME NEW c \in Cancels, NEW j \in Jobs, FindJob(c, j) PROVE TypeInv'
  BY <1>6 DEF FindJob, jobVars, childVars
<1>7. ASSUME NEW c \in Cancels, CancelJob(c) PROVE TypeInv'
  <2>1. cancel[c].job \in Jobs
    BY <1>7 DEF CancelJob
  <2>2. state' \in [Jobs -> JobStates \union {"None"}] /\ stage' \in [Jobs -> BOOLEAN]
    <3>1. \/ /\ state' = [state EXCEPT ![cancel[c].job] = "Cancelled"]
             /\ stage' = [stage EXCEPT ![cancel[c].job] = FALSE]
          \/ UNCHANGED <<state, stage>>
      BY <1>7 DEF CancelJob
    <3> QED BY <3>1
  <2>3. cancel' = [cancel EXCEPT ![c].at = "kill"] \/ Answer(c)
    BY <1>7, <2>1 DEF CancelJob, HasProcess
  <2>4. Found' /\ cancel' \in [Cancels -> [at : CancelPlaces, job : Jobs \union {NoJob}]]
    <3>1. CASE cancel' = [cancel EXCEPT ![c].at = "kill"]
      BY <2>1, <3>1
    <3>2. CASE Answer(c)
      BY <3>2 DEF Answer, NoJob
    <3> QED BY <2>3, <3>1, <3>2
  <2> QED BY <1>7, <2>2, <2>4 DEF CancelJob, childVars
<1>8. ASSUME NEW c \in Cancels, KillJob(c) PROVE TypeInv'
  <2>1. Found' /\ cancel' \in [Cancels -> [at : CancelPlaces, job : Jobs \union {NoJob}]]
    BY <1>8 DEF KillJob, Answer, NoJob
  <2> QED BY <1>8, <2>1 DEF KillJob, Kill, jobVars
<1>9. CASE UNCHANGED vars
  BY <1>9 DEF vars
<1>10. CASE \E j \in Jobs : \/ Announce(j) \/ Worker(j) \/ WaitFails(j)
                             \/ Converter(j) \/ ReadLine(j)
  BY <1>10, <1>1, <1>2, <1>3, <1>4, <1>5
<1>11. CASE \E c \in Cancels : Canceller(c) \/ \E j \in Jobs : FindJob(c, j)
  BY <1>11, <1>6, <1>7, <1>8 DEF Canceller
<1>12. ASSUME NEW o \in Outputs, DeleteOutput(o) PROVE TypeInv'
  <2>1. file[o].by \in Jobs /\ Absent \in [by : Jobs \union {NoJob}, whole : BOOLEAN]
    BY <1>12 DEF DeleteOutput, Absent
  <2> QED BY <1>12, <2>1 DEF DeleteOutput, jobVars
<1> HIDE DEF TypeInv
<1> QED BY <1>9, <1>10, <1>11, <1>12, Zenon DEF Next

\* Every variable keeps to its values.
THEOREM TypeCorrect == Spec => []TypeOK
<1>1. TypeInv => TypeOK
  BY DEF TypeInv
<1> QED BY <1>1, TypeInit, TypeStep, PTL DEF Spec

-----------------------------------------------------------------------------
(* The inductive invariant: what the place of a worker says of its job, its *)
(* converter and its output.                                                *)

Early    == {"queued", "checking", "starting"}
Watching == {"killing", "following", "joining", "settling"}
Late     == {"discarding", "ended"}
InSlot   == {"checking", "starting", "registering", "discarding"} \union Watching

\* A worker between acquiring the slot and leaving it is the one that has it.
SlotHeld == \A j \in Jobs : worker[j] \in InSlot => running = j

StatePlaced ==
    \A j \in Jobs :
      /\ worker[j] = "none" => state[j] = "None"
      /\ worker[j] \in Early \union Watching \union {"registering"} =>
           state[j] \in {"Running", "Cancelled"}
      /\ worker[j] \in Late => state[j] \in {"Done", "Failed", "Cancelled"}

ChildPlaced ==
    \A j \in Jobs :
      /\ worker[j] \in Early \union {"none"} => child[j] = "none"
      /\ child[j] = "alive" =>
           worker[j] \in {"registering", "killing", "following", "joining"}

ProcessPlaced == \A j \in Jobs : process[j] <=> worker[j] \in Watching

StagePlaced ==
    \A j \in Jobs : stage[j] => state[j] = "Running" /\ worker[j] \in Watching

StagedPlaced == \A j \in Jobs : j \in staged => worker[j] \notin {"none", "ended"}

\* What is at an output says whose converter wrote it.
WriterPlaced ==
    \A j \in Jobs :
      \/ child[j] = "none"
      \/ worker[j] \in Late /\ state[j] = "Cancelled"
      => file[OutputOf[j]].by # j

\* A converter that created its output has it where the job says, all of it
\* once it succeeded, and there it is until the job settles, unless a request
\* deleted it.
OutputPlaced ==
    \A j \in Jobs :
      /\ child[j] = "none" => j \notin open
      /\ child[j] = "succeeded" => j \in open
      /\ child[j] = "alive" /\ j \in open => j \in taken \/ file[OutputOf[j]].by = j
      /\ child[j] = "succeeded" /\ worker[j] \in Watching \union {"registering"} =>
           \/ j \in taken
           \/ file[OutputOf[j]].by = j /\ file[OutputOf[j]].whole = TRUE

StatusPlaced == \A j \in Jobs : status[j] = "succeeded" => child[j] = "succeeded"

Inv ==
    /\ TypeInv
    /\ SlotHeld
    /\ StatePlaced
    /\ ChildPlaced
    /\ ProcessPlaced
    /\ StagePlaced
    /\ StagedPlaced
    /\ WriterPlaced
    /\ OutputPlaced
    /\ StatusPlaced
    /\ CancelledIsKilled

LEMMA InvInit == Init => Inv
BY TypeInit DEF Init, Inv, SlotHeld, StatePlaced, ChildPlaced, ProcessPlaced,
                StagePlaced, StagedPlaced, WriterPlaced, OutputPlaced,
                StatusPlaced, CancelledIsKilled, InSlot, Early, Watching,
                Late, NoJob, Absent

Placed ==
    /\ SlotHeld
    /\ StatePlaced
    /\ ChildPlaced
    /\ ProcessPlaced
    /\ StagePlaced
    /\ StagedPlaced
    /\ WriterPlaced
    /\ StatusPlaced
    /\ CancelledIsKilled

\* One converter at most is alive, and no job settles while it is.
LEMMA AliveAlone ==
  ASSUME Inv, NEW j \in Jobs, child[j] = "alive"
  PROVE  /\ \A k \in Jobs \ {j} : child[k] # "alive" /\ worker[k] \notin InSlot
         /\ worker[j] \in {"registering", "killing", "following", "joining"}
BY DEF Inv, ChildPlaced, SlotHeld, InSlot, Watching

\* What was written stays until its job settles, or a request deletes it.
LEMMA OutputsStay == Inv /\ [Next]_vars => OutputPlaced'
<1> SUFFICES ASSUME Inv, [Next]_vars PROVE OutputPlaced'
  OBVIOUS
<1> USE DEF Inv, TypeInv, TypeOK, OutputPlaced, Exits, Watching
<1>1. ASSUME NEW j \in Jobs, Worker(j), ~Settle(j) PROVE OutputPlaced'
  <2>1. UNCHANGED <<open, taken, file>>
    BY <1>1 DEF Worker, AcquireSlot, CheckCancelled, Start, StartFails, Register, KillNow,
       Reap, JoinReaders, Discard, childVars, outVars
  <2>2. \A k \in Jobs : child'[k] = "succeeded" => child[k] = "succeeded"
    BY <1>1 DEF Worker, AcquireSlot, CheckCancelled, Start, StartFails, Register, KillNow,
       Kill, Reap, JoinReaders, Discard, childVars
  <2>3. \A k \in Jobs : child'[k] = "alive" => child[k] \in {"alive", "none"}
    BY <1>1 DEF Worker, AcquireSlot, CheckCancelled, Start, StartFails, Register, KillNow,
       Kill, Reap, JoinReaders, Discard, childVars, ChildPlaced, Early
  <2>4. \A k \in Jobs : child'[k] = "none" => child[k] = "none"
    BY <1>1 DEF Worker, AcquireSlot, CheckCancelled, Start, StartFails, Register, KillNow,
       Kill, Reap, JoinReaders, Discard, childVars
  <2>5. \A k \in Jobs :
          child[k] = "succeeded" /\ worker'[k] \in Watching \union {"registering"} =>
            worker[k] \in Watching \union {"registering"}
    <3>1. worker' = worker \/ \E place \in WorkerPlaces : worker' = [worker EXCEPT ![j] = place]
      BY <1>1 DEF Worker, AcquireSlot, CheckCancelled, Start, StartFails, Register, KillNow,
         Reap, JoinReaders, Discard, Leave, GoTo, WorkerPlaces
    <3>2. worker'[j] \in Watching \union {"registering"} =>
            worker[j] \in Watching \union {"registering"} \/ worker[j] = "starting"
      BY <1>1 DEF Worker, AcquireSlot, CheckCancelled, Start, StartFails, Register, KillNow,
         Reap, JoinReaders, Discard, Leave, GoTo
    <3> QED BY <3>1, <3>2 DEF ChildPlaced, Early
  <2> HIDE DEF Watching
  <2> QED BY <2>1, <2>2, <2>3, <2>4, <2>5
<1>2. ASSUME NEW j \in Jobs, Settle(j) PROVE OutputPlaced'
  <2>1. /\ \A k \in Jobs : child[k] # "alive"
        /\ \A k \in Jobs \ {j} : worker[k] \notin Watching \union {"registering"}
    BY <1>2, AliveAlone DEF Settle, SlotHeld, InSlot
  <2>2. /\ UNCHANGED <<open, taken, child>>
        /\ worker'[j] = "discarding" /\ \A k \in Jobs \ {j} : worker'[k] = worker[k]
    BY <1>2 DEF Settle, GoTo, childVars, outVars
  <2> QED BY <2>1, <2>2
<1>3. ASSUME NEW j \in Jobs, ChildCreates(j) PROVE OutputPlaced'
  <2>1. \A k \in Jobs \ {j} : /\ child[k] # "alive"
                               /\ worker[k] \notin Watching \union {"registering"}
    BY <1>3, AliveAlone DEF ChildCreates, InSlot
  <2>2. child[j] = "alive" /\ open' = open \union {j} /\ UNCHANGED <<child, worker, taken>>
        /\ file'[OutputOf[j]].by = j
    BY <1>3 DEF ChildCreates
  <2> QED BY <2>1, <2>2
<1>4. ASSUME NEW j \in Jobs, ChildSucceeds(j) PROVE OutputPlaced'
  <2>1. \A k \in Jobs \ {j} : /\ child[k] # "alive"
                               /\ worker[k] \notin Watching \union {"registering"}
    BY <1>4, AliveAlone DEF ChildSucceeds, InSlot
  <2>2. /\ child[j] = "alive" /\ j \in open /\ UNCHANGED <<worker, open, taken>>
        /\ child'[j] = "succeeded" /\ \A k \in Jobs \ {j} : child'[k] = child[k]
    BY <1>4 DEF ChildSucceeds, outVars
  <2>3. file[OutputOf[j]].by = j =>
          file'[OutputOf[j]].by = j /\ file'[OutputOf[j]].whole = TRUE
    BY <1>4 DEF ChildSucceeds, Written
  <2> QED BY <2>1, <2>2, <2>3
<1>5. ASSUME NEW j \in Jobs, ChildFails(j) PROVE OutputPlaced'
  BY <1>5 DEF ChildFails, outVars
<1>6. ASSUME NEW o \in Outputs, DeleteOutput(o) PROVE OutputPlaced'
  <2>1. /\ taken \subseteq taken' /\ UNCHANGED <<child, worker, open>>
        /\ \A k \in Jobs : k \in taken' \/ file[OutputOf[k]].by # k
                           \/ file'[OutputOf[k]] = file[OutputOf[k]]
    BY <1>6 DEF DeleteOutput
  <2> QED BY <2>1
<1>7. ASSUME NEW j \in Jobs, Announce(j) PROVE OutputPlaced'
  <2>1. worker[j] = "none" /\ worker' = [worker EXCEPT ![j] = "queued"]
        /\ UNCHANGED <<child, open, taken, file>>
    BY <1>7 DEF Announce, childVars, outVars
  <2> QED BY <2>1
<1>8. ASSUME NEW j \in Jobs, WaitFails(j) PROVE OutputPlaced'
  BY <1>8 DEF WaitFails, GoTo, childVars, outVars
<1>9. ASSUME NEW c \in Cancels, KillJob(c) PROVE OutputPlaced'
  <2>1. cancel[c].job \in Jobs
    BY <1>9 DEF KillJob, Found
  <2> QED BY <1>9, <2>1 DEF KillJob, Kill, outVars
<1>10. ASSUME UNCHANGED <<child, worker, open, taken, file>> PROVE OutputPlaced'
  BY <1>10
<1>11. ASSUME NEW j \in Jobs, ChildReports(j) \/ ReadLine(j)
       PROVE  UNCHANGED <<child, worker, open, taken, file>>
  BY <1>11 DEF ChildReports, ReadLine, outVars
<1>12. ASSUME NEW c \in Cancels, CancelJob(c) \/ \E j \in Jobs : FindJob(c, j)
       PROVE  UNCHANGED <<child, worker, open, taken, file>>
  BY <1>12 DEF CancelJob, FindJob, childVars, outVars
<1>13. UNCHANGED vars => UNCHANGED <<child, worker, open, taken, file>>
  BY DEF vars
<1> HIDE DEF Inv, OutputPlaced
<1>14. CASE \E j \in Jobs : Announce(j) \/ Worker(j) \/ WaitFails(j) \/ Converter(j) \/ ReadLine(j)
  BY <1>14, <1>1, <1>2, <1>3, <1>4, <1>5, <1>7, <1>8, <1>10, <1>11 DEF Converter
<1>15. CASE \E c \in Cancels : Canceller(c) \/ \E j \in Jobs : FindJob(c, j)
  BY <1>15, <1>9, <1>10, <1>12 DEF Canceller
<1> QED BY <1>6, <1>10, <1>13, <1>14, <1>15, Zenon DEF Next

LEMMA InvStep == Inv /\ [Next]_vars => Inv'
<1> SUFFICES ASSUME Inv, TypeInv', [Next]_vars PROVE Placed'
  BY TypeStep, OutputsStay DEF Inv, Placed
<1> USE DEF Inv, TypeInv, TypeOK, Found, NoJob, JobStates, Exits, WorkerPlaces,
            InSlot, Early, Watching, Late
<1>1. ASSUME NEW j \in Jobs, Announce(j) PROVE Placed'
  BY <1>1 DEF Announce, StagedFor, childVars, Placed, SlotHeld, StatePlaced,
              ChildPlaced, ProcessPlaced, StagePlaced, StagedPlaced,
              WriterPlaced, StatusPlaced, CancelledIsKilled
<1>2. ASSUME NEW j \in Jobs, Worker(j) PROVE Placed'
  <2>1. CASE AcquireSlot(j)
    BY <2>1 DEF AcquireSlot, SlotFree, GoTo, jobVars, childVars, Placed,
                SlotHeld, StatePlaced, ChildPlaced, ProcessPlaced,
                StagePlaced, StagedPlaced, WriterPlaced,
                StatusPlaced, CancelledIsKilled
  <2>2. CASE CheckCancelled(j)
    <3>1. SlotHeld'
      BY <2>2 DEF CheckCancelled, JobCancelled, Leave, GoTo, jobVars,
                  childVars, ChildPlaced, ProcessPlaced, SlotHeld,
                  StatePlaced
    <3>2. StatePlaced'
      BY <2>2 DEF CheckCancelled, JobCancelled, Leave, GoTo, jobVars,
                  childVars, ChildPlaced, ProcessPlaced, SlotHeld,
                  StatePlaced
    <3>3. ChildPlaced'
      BY <2>2 DEF CheckCancelled, JobCancelled, Leave, GoTo, jobVars,
                  childVars, ChildPlaced, ProcessPlaced, SlotHeld,
                  StatePlaced
    <3>4. ProcessPlaced'
      BY <2>2 DEF CheckCancelled, JobCancelled, Leave, GoTo, jobVars,
                  childVars, ChildPlaced, ProcessPlaced, SlotHeld,
                  StatePlaced
    <3>5. StagePlaced'
      BY <2>2 DEF CheckCancelled, JobCancelled, Leave, GoTo, jobVars,
                  childVars, ChildPlaced, ProcessPlaced, SlotHeld,
                  StagePlaced, StatePlaced
    <3>6. StagedPlaced'
      BY <2>2 DEF CheckCancelled, JobCancelled, Leave, GoTo, jobVars,
                  childVars, ChildPlaced, ProcessPlaced, SlotHeld,
                  StagedPlaced, StatePlaced
    <3>7. WriterPlaced'
      BY <2>2 DEF CheckCancelled, JobCancelled, Leave, GoTo, jobVars,
                  childVars, ChildPlaced, ProcessPlaced, SlotHeld,
                  StatePlaced, WriterPlaced
    <3>9. StatusPlaced'
      BY <2>2 DEF CheckCancelled, JobCancelled, Leave, GoTo, jobVars,
                  childVars, ChildPlaced, ProcessPlaced, SlotHeld,
                  StatePlaced, StatusPlaced
    <3>10. CancelledIsKilled'
      BY <2>2 DEF CheckCancelled, JobCancelled, Leave, GoTo, jobVars,
                  childVars, CancelledIsKilled, ChildPlaced, ProcessPlaced,
                  SlotHeld, StatePlaced
    <3> QED BY <3>1, <3>2, <3>3, <3>4, <3>5, <3>6, <3>7, <3>9, <3>10 DEF Placed
  <2>3. CASE Start(j)
    BY <2>3 DEF Start, GoTo, jobVars, Placed, SlotHeld, StatePlaced,
                ChildPlaced, ProcessPlaced, StagePlaced, StagedPlaced,
                WriterPlaced, StatusPlaced, CancelledIsKilled
  <2>4. CASE StartFails(j)
    BY <2>4 DEF StartFails, StartOutcome, GoTo, childVars, Placed, SlotHeld,
                StatePlaced, ChildPlaced, ProcessPlaced, StagePlaced,
                StagedPlaced, WriterPlaced, StatusPlaced,
                CancelledIsKilled
  <2>5. CASE Register(j)
    <3>1. SlotHeld'
      BY <2>5 DEF Register, KillNeeded, GoTo, childVars, ChildPlaced,
                  ProcessPlaced, SlotHeld, StatePlaced
    <3>2. StatePlaced'
      BY <2>5 DEF Register, KillNeeded, GoTo, childVars, ChildPlaced,
                  ProcessPlaced, SlotHeld, StatePlaced
    <3>3. ChildPlaced'
      BY <2>5 DEF Register, KillNeeded, GoTo, childVars, ChildPlaced,
                  ProcessPlaced, SlotHeld, StatePlaced
    <3>4. ProcessPlaced'
      BY <2>5 DEF Register, KillNeeded, GoTo, childVars, ChildPlaced,
                  ProcessPlaced, SlotHeld, StatePlaced
    <3>5. StagePlaced'
      BY <2>5 DEF Register, KillNeeded, GoTo, childVars, ChildPlaced,
                  ProcessPlaced, SlotHeld, StagePlaced, StatePlaced
    <3>6. StagedPlaced'
      BY <2>5 DEF Register, KillNeeded, GoTo, childVars, ChildPlaced,
                  ProcessPlaced, SlotHeld, StagedPlaced, StatePlaced
    <3>7. WriterPlaced'
      BY <2>5 DEF Register, KillNeeded, GoTo, childVars, ChildPlaced,
                  ProcessPlaced, SlotHeld, StatePlaced, WriterPlaced
    <3>9. StatusPlaced'
      BY <2>5 DEF Register, KillNeeded, GoTo, childVars, ChildPlaced,
                  ProcessPlaced, SlotHeld, StatePlaced, StatusPlaced
    <3>10. CancelledIsKilled'
      BY <2>5 DEF Register, KillNeeded, GoTo, childVars, CancelledIsKilled,
                  ChildPlaced, ProcessPlaced, SlotHeld, StatePlaced
    <3> QED BY <3>1, <3>2, <3>3, <3>4, <3>5, <3>6, <3>7, <3>9, <3>10 DEF Placed
  <2>6. CASE KillNow(j)
    BY <2>6 DEF KillNow, Kill, GoTo, jobVars, Placed, SlotHeld, StatePlaced,
                ChildPlaced, ProcessPlaced, StagePlaced, StagedPlaced,
                WriterPlaced, StatusPlaced, CancelledIsKilled
  <2>7. CASE Reap(j)
    BY <2>7 DEF Reap, Exited, GoTo, jobVars, childVars, Placed, SlotHeld,
                StatePlaced, ChildPlaced, ProcessPlaced, StagePlaced,
                StagedPlaced, WriterPlaced, StatusPlaced,
                CancelledIsKilled
  <2>8. CASE JoinReaders(j)
    BY <2>8 DEF JoinReaders, ReadersEnded, Exited, GoTo, jobVars, childVars,
                Placed, SlotHeld, StatePlaced, ChildPlaced, ProcessPlaced,
                StagePlaced, StagedPlaced, WriterPlaced,
                StatusPlaced, CancelledIsKilled
  <2>9. CASE Settle(j)
    <3>1. SlotHeld'
      BY <2>9 DEF Settle, Outcome, Left, Absent, GoTo, childVars,
                  ChildPlaced, ProcessPlaced, SlotHeld, StatePlaced
    <3>2. StatePlaced'
      BY <2>9 DEF Settle, Outcome, Left, Absent, GoTo, childVars,
                  ChildPlaced, ProcessPlaced, SlotHeld, StatePlaced
    <3>3. ChildPlaced'
      BY <2>9 DEF Settle, Outcome, Left, Absent, GoTo, childVars,
                  ChildPlaced, ProcessPlaced, SlotHeld, StatePlaced
    <3>4. ProcessPlaced'
      BY <2>9 DEF Settle, Outcome, Left, Absent, GoTo, childVars,
                  ChildPlaced, ProcessPlaced, SlotHeld, StatePlaced
    <3>5. StagePlaced'
      BY <2>9 DEF Settle, Outcome, Left, Absent, GoTo, childVars,
                  ChildPlaced, ProcessPlaced, SlotHeld, StagePlaced,
                  StatePlaced
    <3>6. StagedPlaced'
      BY <2>9 DEF Settle, Outcome, Left, Absent, GoTo, childVars,
                  ChildPlaced, ProcessPlaced, SlotHeld, StagedPlaced,
                  StatePlaced
    <3>7. WriterPlaced'
      BY <2>9 DEF Settle, Outcome, Left, Absent, GoTo, childVars,
                  ChildPlaced, ProcessPlaced, SlotHeld, StatePlaced,
                  WriterPlaced
    <3>9. StatusPlaced'
      BY <2>9 DEF Settle, Outcome, Left, Absent, GoTo, childVars,
                  ChildPlaced, ProcessPlaced, SlotHeld, StatePlaced,
                  StatusPlaced
    <3>10. CancelledIsKilled'
      BY <2>9 DEF Settle, Outcome, Left, Absent, GoTo, childVars,
                  CancelledIsKilled, ChildPlaced, ProcessPlaced, SlotHeld,
                  StatePlaced
    <3> QED BY <3>1, <3>2, <3>3, <3>4, <3>5, <3>6, <3>7, <3>9, <3>10 DEF Placed
  <2>10. CASE Discard(j)
    BY <2>10 DEF Discard, Leave, GoTo, jobVars, childVars, Placed, SlotHeld,
                 StatePlaced, ChildPlaced, ProcessPlaced, StagePlaced,
                 StagedPlaced, WriterPlaced, StatusPlaced,
                 CancelledIsKilled
  <2> QED BY <1>2, <2>1, <2>2, <2>3, <2>4, <2>5, <2>6, <2>7, <2>8, <2>9, <2>10
          DEF Worker
<1>3. ASSUME NEW j \in Jobs, WaitFails(j) PROVE Placed'
  BY <1>3 DEF WaitFails, GoTo, jobVars, childVars, Placed, SlotHeld,
              StatePlaced, ChildPlaced, ProcessPlaced, StagePlaced,
              StagedPlaced, WriterPlaced, StatusPlaced,
              CancelledIsKilled
<1>4. ASSUME NEW j \in Jobs, Converter(j) PROVE Placed'
  <2>1. CASE ChildCreates(j)
    BY <2>1 DEF ChildCreates, jobVars, childVars, Placed, SlotHeld,
                StatePlaced, ChildPlaced, ProcessPlaced, StagePlaced,
                StagedPlaced, WriterPlaced, StatusPlaced,
                CancelledIsKilled
  <2>2. CASE ChildSucceeds(j)
    BY <2>2 DEF ChildSucceeds, Written, jobVars, Placed, SlotHeld, StatePlaced,
                ChildPlaced, ProcessPlaced, StagePlaced, StagedPlaced,
                WriterPlaced, StatusPlaced, CancelledIsKilled
  <2>3. CASE ChildFails(j)
    BY <2>3 DEF ChildFails, jobVars, Placed, SlotHeld, StatePlaced,
                ChildPlaced, ProcessPlaced, StagePlaced, StagedPlaced,
                WriterPlaced, StatusPlaced, CancelledIsKilled
  <2>4. CASE ChildReports(j)
    BY <2>4 DEF ChildReports, jobVars, Placed, SlotHeld, StatePlaced,
                ChildPlaced, ProcessPlaced, StagePlaced, StagedPlaced,
                WriterPlaced, StatusPlaced, CancelledIsKilled
  <2> QED BY <1>4, <2>1, <2>2, <2>3, <2>4 DEF Converter
<1>5. ASSUME NEW j \in Jobs, ReadLine(j) PROVE Placed'
  BY <1>5 DEF ReadLine, Noted, Reading, Placed, SlotHeld, StatePlaced,
              ChildPlaced, ProcessPlaced, StagePlaced, StagedPlaced,
              WriterPlaced, StatusPlaced, CancelledIsKilled
<1>6. ASSUME NEW c \in Cancels, NEW j \in Jobs, FindJob(c, j) PROVE Placed'
  BY <1>6 DEF FindJob, jobVars, childVars, Placed, SlotHeld, StatePlaced,
              ChildPlaced, ProcessPlaced, StagePlaced, StagedPlaced,
              WriterPlaced, StatusPlaced, CancelledIsKilled
<1>7. ASSUME NEW c \in Cancels, CancelJob(c) PROVE Placed'
  <2>1. SlotHeld'
    BY <1>7 DEF CancelJob, HasProcess, childVars, ChildPlaced, ProcessPlaced,
                SlotHeld, StatePlaced
  <2>2. StatePlaced'
    BY <1>7 DEF CancelJob, HasProcess, childVars, ChildPlaced, ProcessPlaced,
                SlotHeld, StatePlaced
  <2>3. ChildPlaced'
    BY <1>7 DEF CancelJob, HasProcess, childVars, ChildPlaced, ProcessPlaced,
                SlotHeld, StatePlaced
  <2>4. ProcessPlaced'
    BY <1>7 DEF CancelJob, HasProcess, childVars, ChildPlaced, ProcessPlaced,
                SlotHeld, StatePlaced
  <2>5. StagePlaced'
    BY <1>7 DEF CancelJob, HasProcess, childVars, ChildPlaced, ProcessPlaced,
                SlotHeld, StagePlaced, StatePlaced
  <2>6. StagedPlaced'
    BY <1>7 DEF CancelJob, HasProcess, childVars, ChildPlaced, ProcessPlaced,
                SlotHeld, StagedPlaced, StatePlaced
  <2>7. WriterPlaced'
    <3>1. cancel[c].job \in Jobs
      BY <1>7 DEF CancelJob
    <3>2. state[cancel[c].job] = "Running" => worker[cancel[c].job] \notin Late
      BY <3>1 DEF StatePlaced
    <3>3. \A j \in Jobs : worker[j] \in Late => state'[j] = state[j]
      BY <1>7, <3>1, <3>2 DEF CancelJob
    <3> QED BY <1>7, <3>3 DEF CancelJob, childVars, WriterPlaced
  <2>9. StatusPlaced'
    BY <1>7 DEF CancelJob, HasProcess, childVars, ChildPlaced, ProcessPlaced,
                SlotHeld, StatePlaced, StatusPlaced
  <2>10. CancelledIsKilled'
    <3>1. CASE cancel' = [cancel EXCEPT ![c].at = "kill"]
      BY <1>7, <3>1 DEF CancelJob, childVars, CancelledIsKilled
    <3>2. CASE Answer(c)
      <4>1. state[cancel[c].job] = "Running" => ~process[cancel[c].job]
        BY <1>7, <3>2 DEF CancelJob, HasProcess, Answer
      <4>2. child[cancel[c].job] = "alive" /\ ~process[cancel[c].job]
              => worker[cancel[c].job] = "registering"
        BY <1>7 DEF CancelJob, ChildPlaced, ProcessPlaced
      <4>3. \A o \in Cancels : cancel[o].at = "kill" => cancel'[o] = cancel[o]
        BY <1>7, <3>2 DEF CancelJob, Answer
      <4> QED BY <1>7, <4>1, <4>2, <4>3 DEF CancelJob, childVars, CancelledIsKilled
    <3>3. cancel' = [cancel EXCEPT ![c].at = "kill"] \/ Answer(c)
      BY <1>7 DEF CancelJob
    <3> QED BY <3>1, <3>2, <3>3
  <2> QED BY <2>1, <2>2, <2>3, <2>4, <2>5, <2>6, <2>7, <2>9, <2>10 DEF Placed
<1>8. ASSUME NEW c \in Cancels, KillJob(c) PROVE Placed'
  BY <1>8 DEF KillJob, Answer, Kill, jobVars, Placed, SlotHeld, StatePlaced,
              ChildPlaced, ProcessPlaced, StagePlaced, StagedPlaced,
              WriterPlaced, StatusPlaced, CancelledIsKilled
<1>9. CASE UNCHANGED vars
  BY <1>9 DEF vars, Placed, SlotHeld, StatePlaced, ChildPlaced,
              ProcessPlaced, StagePlaced, StagedPlaced, WriterPlaced,
              StatusPlaced, CancelledIsKilled
<1>10. CASE \E j \in Jobs : \/ Announce(j) \/ Worker(j) \/ WaitFails(j)
                             \/ Converter(j) \/ ReadLine(j)
  BY <1>10, <1>1, <1>2, <1>3, <1>4, <1>5
<1>11. CASE \E c \in Cancels : Canceller(c) \/ \E j \in Jobs : FindJob(c, j)
  BY <1>11, <1>6, <1>7, <1>8 DEF Canceller
<1>12. ASSUME NEW o \in Outputs, DeleteOutput(o) PROVE Placed'
  BY <1>12 DEF DeleteOutput, jobVars, Absent, Placed, SlotHeld, StatePlaced,
               ChildPlaced, ProcessPlaced, StagePlaced, StagedPlaced,
               WriterPlaced, StatusPlaced, CancelledIsKilled
<1> HIDE DEF TypeInv, Inv
<1> QED BY <1>9, <1>10, <1>11, <1>12, Zenon DEF Next

-----------------------------------------------------------------------------
(* What follows from it.                                                   *)

LEMMA InvCorrect == Spec => []Inv
BY InvInit, InvStep, PTL DEF Spec

\* Two models are never decoded at once.
THEOREM SlotIsExclusive == Spec => []OneConverter
<1>1. Inv => OneConverter
  BY DEF Inv, OneConverter, ChildPlaced, SlotHeld, InSlot, Watching
<1> QED BY <1>1, InvCorrect, PTL

\* A cancelled converter always has somebody about to kill it.
THEOREM NoConverterIsForgotten == Spec => []CancelledIsKilled
<1>1. Inv => CancelledIsKilled
  BY DEF Inv
<1> QED BY <1>1, InvCorrect, PTL

\* A cancelled job leaves no product and no staged files behind.
THEOREM CancelledJobLeavesNothing == Spec => []CancelledLeavesNothing
<1>1. Inv => CancelledLeavesNothing
  BY DEF Inv, CancelledLeavesNothing, WriterPlaced, StagedPlaced, Late
<1> QED BY <1>1, InvCorrect, PTL

\* Cancelled before a converter was started, and never to start one.
Skipped(j) ==
    /\ state[j] = "Cancelled"
    /\ worker[j] \in {"queued", "checking", "ended"}
    /\ child[j] = "none"

LEMMA SkippedForGood ==
  ASSUME NEW j \in Jobs, Inv, Skipped(j), [Next]_vars
  PROVE  Skipped(j)'
<1> USE DEF Inv, TypeInv, TypeOK, Found, Skipped
<1>1. ASSUME NEW k \in Jobs, Announce(k) PROVE Skipped(j)'
  BY <1>1 DEF Announce, childVars
<1>2. ASSUME NEW k \in Jobs, Worker(k) PROVE Skipped(j)'
  <2>1. CASE AcquireSlot(k)
    BY <2>1 DEF AcquireSlot, GoTo, jobVars, childVars
  <2>2. CASE CheckCancelled(k)
    BY <2>2 DEF CheckCancelled, JobCancelled, Leave, GoTo, jobVars, childVars
  <2>3. CASE Start(k)
    BY <2>3 DEF Start, GoTo, jobVars
  <2>4. CASE StartFails(k)
    BY <2>4 DEF StartFails, GoTo, childVars
  <2>5. CASE Register(k)
    BY <2>5 DEF Register, GoTo, childVars
  <2>6. CASE KillNow(k)
    BY <2>6 DEF KillNow, Kill, GoTo, jobVars
  <2>7. CASE Reap(k)
    BY <2>7 DEF Reap, GoTo, jobVars, childVars
  <2>8. CASE JoinReaders(k)
    BY <2>8 DEF JoinReaders, GoTo, jobVars, childVars
  <2>9. CASE Settle(k)
    BY <2>9 DEF Settle, GoTo, childVars
  <2>10. CASE Discard(k)
    BY <2>10 DEF Discard, Leave, GoTo, jobVars, childVars
  <2> QED BY <1>2, <2>1, <2>2, <2>3, <2>4, <2>5, <2>6, <2>7, <2>8, <2>9, <2>10
          DEF Worker
<1>3. ASSUME NEW k \in Jobs, WaitFails(k) PROVE Skipped(j)'
  BY <1>3 DEF WaitFails, GoTo, jobVars, childVars
<1>4. ASSUME NEW k \in Jobs, Converter(k) PROVE Skipped(j)'
  BY <1>4 DEF Converter, ChildCreates, ChildSucceeds, ChildFails, ChildReports,
              jobVars, childVars
<1>5. ASSUME NEW k \in Jobs, ReadLine(k) PROVE Skipped(j)'
  BY <1>5 DEF ReadLine
<1>6. ASSUME NEW c \in Cancels, NEW k \in Jobs, FindJob(c, k) PROVE Skipped(j)'
  BY <1>6 DEF FindJob, jobVars, childVars
<1>7. ASSUME NEW c \in Cancels, Canceller(c) PROVE Skipped(j)'
  BY <1>7 DEF Canceller, CancelJob, KillJob, Kill, jobVars, childVars
<1>8. CASE UNCHANGED vars
  BY <1>8 DEF vars
<1>9. ASSUME NEW o \in Outputs, DeleteOutput(o) PROVE Skipped(j)'
  BY <1>9 DEF DeleteOutput, jobVars
<1> HIDE DEF Inv, Skipped
<1> QED BY <1>1, <1>2, <1>3, <1>4, <1>5, <1>6, <1>7, <1>8, <1>9, Zenon DEF Next

\* A job cancelled while it waited for the slot never starts a converter.
THEOREM SkippedNeverStarts == Spec => CancelledInQueueNeverStarts
<1>1. ASSUME NEW j \in Jobs
      PROVE  Spec => [](state[j] = "Cancelled" /\ worker[j] = "queued" =>
                          [](child[j] = "none"))
  <2>1. Inv /\ Skipped(j) /\ [Next]_vars => Skipped(j)'
    BY SkippedForGood
  <2>2. Inv /\ state[j] = "Cancelled" /\ worker[j] = "queued" => Skipped(j)
    BY DEF Inv, ChildPlaced, Early, Skipped
  <2>3. Skipped(j) => child[j] = "none"
    BY DEF Skipped
  <2> QED BY <2>1, <2>2, <2>3, InvCorrect, PTL DEF Spec
<1> QED BY <1>1 DEF CancelledInQueueNeverStarts

\* How a job ended is never rewritten.
THEOREM OutcomeIsFinal == Spec => EndedForGood
<1>1. Inv /\ [Next]_vars =>
        [\A j \in Jobs : state[j] \in JobStates \ {"Running"} =>
                         state'[j] = state[j]]_vars
  <2> SUFFICES ASSUME Inv, Next, NEW j \in Jobs,
                      state[j] \in JobStates \ {"Running"}
               PROVE  state'[j] = state[j]
    OBVIOUS
  <2> USE DEF Inv, TypeInv, TypeOK, Found, StatePlaced, JobStates
  <2>1. worker[j] \notin {"none"}
    OBVIOUS
  <2>2. ASSUME NEW k \in Jobs, Announce(k) PROVE state'[j] = state[j]
    BY <2>1, <2>2 DEF Announce
  <2>3. ASSUME NEW k \in Jobs, Worker(k) PROVE state'[j] = state[j]
    <3>1. CASE StartFails(k)
      BY <3>1 DEF StartFails, StartOutcome, Early
    <3>2. CASE Settle(k)
      BY <3>2 DEF Settle, Outcome, Watching
    <3> QED BY <2>3, <3>1, <3>2 DEF Worker, AcquireSlot, CheckCancelled, Start,
              Register, KillNow, Reap, JoinReaders, Discard, jobVars
  <2>4. ASSUME NEW k \in Jobs, WaitFails(k) \/ Converter(k) \/ ReadLine(k)
        PROVE  state'[j] = state[j]
    BY <2>4 DEF WaitFails, Converter, ChildCreates, ChildSucceeds, ChildFails,
                ChildReports, ReadLine, jobVars
  <2>5. ASSUME NEW c \in Cancels, NEW k \in Jobs, FindJob(c, k)
        PROVE  state'[j] = state[j]
    BY <2>5 DEF FindJob, jobVars
  <2>6. ASSUME NEW c \in Cancels, Canceller(c) PROVE state'[j] = state[j]
    BY <2>6 DEF Canceller, CancelJob, KillJob, jobVars
  <2>7. ASSUME NEW o \in Outputs, DeleteOutput(o) PROVE state'[j] = state[j]
    BY <2>7 DEF DeleteOutput, jobVars
  <2> HIDE DEF Inv
  <2> QED BY <2>2, <2>3, <2>4, <2>5, <2>6, <2>7, Zenon DEF Next
<1> QED BY <1>1, InvCorrect, PTL DEF Spec, EndedForGood

\* A job is called done only when its converter created its product, and the
\* product is whole and its own unless a request has deleted it.
THEOREM DoneMeansWhole == Spec => DoneWhenWhole
<1>1. Inv /\ [Next]_vars =>
        [\A j \in Jobs :
           state[j] # "Done" /\ state'[j] = "Done" =>
             /\ j \in open
             /\ j \in taken \/ file[OutputOf[j]] = [by |-> j, whole |-> TRUE]]_vars
  <2> DEFINE Whole(j) == /\ j \in open
                         /\ j \in taken \/ file[OutputOf[j]] = [by |-> j, whole |-> TRUE]
  <2> SUFFICES ASSUME Inv, Next, NEW j \in Jobs, state[j] # "Done", state'[j] = "Done"
               PROVE  Whole(j)
    OBVIOUS
  <2> USE DEF Inv, TypeInv, TypeOK, Found
  <2>1. ASSUME NEW k \in Jobs, Settle(k) PROVE Whole(j)
    <3>1. k = j /\ status[j] = "succeeded" /\ worker[j] = "settling"
      BY <2>1 DEF Settle, Outcome
    <3>2. /\ j \in open
          /\ j \in taken \/ (file[OutputOf[j]].by = j /\ file[OutputOf[j]].whole = TRUE)
      BY <3>1 DEF StatusPlaced, OutputPlaced, Watching
    <3>3. file[OutputOf[j]] \in [by : Jobs \union {NoJob}, whole : BOOLEAN]
      OBVIOUS
    <3> QED BY <3>2, <3>3
  <2>2. ASSUME NEW k \in Jobs, Announce(k) PROVE FALSE
    BY <2>2 DEF Announce
  <2>3. ASSUME NEW k \in Jobs, Worker(k), ~Settle(k) PROVE FALSE
    BY <2>3 DEF Worker, AcquireSlot, CheckCancelled, Start, StartFails,
       StartOutcome, Register, KillNow, Reap, JoinReaders, Discard, jobVars
  <2>4. ASSUME NEW k \in Jobs, WaitFails(k) \/ Converter(k) \/ ReadLine(k)
        PROVE  FALSE
    BY <2>4 DEF WaitFails, Converter, ChildCreates, ChildSucceeds, ChildFails,
                ChildReports, ReadLine, jobVars
  <2>5. ASSUME NEW c \in Cancels, NEW k \in Jobs, FindJob(c, k) PROVE FALSE
    BY <2>5 DEF FindJob, jobVars
  <2>6. ASSUME NEW c \in Cancels, Canceller(c) PROVE FALSE
    BY <2>6 DEF Canceller, CancelJob, KillJob, jobVars
  <2>7. ASSUME NEW o \in Outputs, DeleteOutput(o) PROVE FALSE
    BY <2>7 DEF DeleteOutput, jobVars
  <2> HIDE DEF Inv, Whole
  <2> QED BY <2>1, <2>2, <2>3, <2>4, <2>5, <2>6, <2>7, Zenon DEF Next
<1> QED BY <1>1, InvCorrect, PTL DEF Spec, DoneWhenWhole

\* A job that has ended shows no stage under way.
THEOREM NoStageIsLeft == Spec => []NoStageAfterEnd
<1>1. Inv => NoStageAfterEnd
  BY DEF Inv, NoStageAfterEnd, StagePlaced
<1> QED BY <1>1, InvCorrect, PTL

-----------------------------------------------------------------------------
(* The map of jobs keeps to its size.  A turn of the eviction takes one key *)
(* away because a set of identifiers that is not empty has a least one.     *)

LEMMA OldestIsHeld ==
  ASSUME NEW held, held \subseteq Nat, held # {}
  PROVE  Oldest(held) \in held
<1>1. \E j \in held : \A k \in held : ~(<<k, j>> \in OpToRel(<, Nat))
  BY NatLessThanWellFounded, WFMin
<1>2. PICK j \in held : \A k \in held : ~(<<k, j>> \in OpToRel(<, Nat))
  BY <1>1
<1>3. ASSUME NEW k \in held PROVE j <= k
  <2>1. ~(k < j)
    BY <1>2 DEF OpToRel
  <2> QED BY <2>1
<1> QED BY <1>3 DEF Oldest

Bounded == jobs \subseteq Jobs /\ IsFiniteSet(jobs) /\ RememberedBound

LEMMA EvictionMakesRoom ==
  ASSUME Bounded
  PROVE  /\ IsFiniteSet(Evict(jobs))
         /\ Cardinality(Evict(jobs)) \in Nat
         /\ Cardinality(Evict(jobs)) < Remembered
<1> USE RememberedAssumption DEF Bounded, RememberedBound
<1>1. Cardinality(jobs) \in Nat
  BY FS_CardinalityType
<1>2. CASE Cardinality(jobs) >= Remembered
  <2>1. jobs # {} /\ jobs \subseteq Nat
    BY <1>2, FS_EmptySet
  <2>2. Oldest(jobs) \in jobs
    BY <2>1, OldestIsHeld
  <2>3. /\ IsFiniteSet(jobs \ {Oldest(jobs)})
        /\ Cardinality(jobs \ {Oldest(jobs)}) = Cardinality(jobs) - 1
    BY <2>2, FS_RemoveElement
  <2>4. Evict(jobs) = jobs \ {Oldest(jobs)}
    BY <1>2 DEF Evict
  <2>5. Cardinality(jobs \ {Oldest(jobs)}) \in Nat
    BY <2>3, FS_CardinalityType
  <2> HIDE DEF Bounded
  <2> QED BY <1>1, <2>3, <2>4, <2>5 DEF Bounded
<1>3. CASE ~(Cardinality(jobs) >= Remembered)
  <2>1. Evict(jobs) = jobs
    BY <1>3 DEF Evict
  <2> QED BY <1>1, <1>3, <2>1
<1> QED BY <1>2, <1>3

LEMMA BoundedStep == Bounded /\ [Next]_vars => Bounded'
<1> SUFFICES ASSUME Bounded, [Next]_vars PROVE Bounded'
  OBVIOUS
<1>1. ASSUME NEW j \in Jobs, Announce(j) PROVE Bounded'
  <2>1. jobs' = Evict(jobs) \union {j}
    BY <1>1 DEF Announce
  <2>2. Evict(jobs) \subseteq Jobs
    BY DEF Evict, Bounded
  <2>3. /\ IsFiniteSet(jobs')
        /\ Cardinality(jobs') <= Cardinality(Evict(jobs)) + 1
    <3> DEFINE held == Evict(jobs)
    <3>1. IsFiniteSet(held) /\ Cardinality(held) \in Nat
      BY EvictionMakesRoom
    <3> HIDE DEF held
    <3>2. /\ IsFiniteSet(held \union {j})
          /\ Cardinality(held \union {j}) =
               IF j \in held THEN Cardinality(held) ELSE Cardinality(held) + 1
      BY <3>1, FS_AddElement
    <3>3. Cardinality(held \union {j}) <= Cardinality(held) + 1
      BY <3>1, <3>2
    <3> QED BY <2>1, <3>2, <3>3 DEF held
  <2>4. Cardinality(jobs') \in Nat
    BY <2>3, FS_CardinalityType
  <2>5. Cardinality(jobs') <= Remembered
    BY <2>3, <2>4, EvictionMakesRoom, RememberedAssumption
  <2> QED BY <2>1, <2>2, <2>3, <2>5 DEF Bounded, RememberedBound
<1>2. CASE UNCHANGED jobs
  BY <1>2 DEF Bounded, RememberedBound
<1>3. (\E j \in Jobs : Announce(j)) \/ UNCHANGED jobs
  BY DEF Next, Worker, WaitFails, Converter, ReadLine, Canceller, FindJob, vars,
         AcquireSlot, CheckCancelled, Start, StartFails, Register, KillNow, Reap,
         JoinReaders, Settle, Discard, ChildCreates, ChildSucceeds, ChildFails,
         ChildReports, CancelJob, KillJob, DeleteOutput
<1> QED BY <1>1, <1>2, <1>3

\* The map of jobs never holds more jobs than it is meant to.
THEOREM MapKeepsItsSize == Spec => []RememberedBound
<1>1. Init => Bounded
  BY FS_EmptySet, RememberedAssumption DEF Init, Bounded, RememberedBound
<1>2. Bounded => RememberedBound
  BY DEF Bounded
<1> QED BY <1>1, <1>2, BoundedStep, PTL DEF Spec

-----------------------------------------------------------------------------
(* The slot keeps the promise JobLifecycle states: every step of it is a    *)
(* step of the life of one job, or leaves that life as it was.              *)

PhaseOf == [k \in Jobs |-> Phase(worker[k])]

LEMMA PhaseMoves ==
  ASSUME TypeOK, NEW j \in Jobs, NEW place, GoTo(j, place)
  PROVE  PhaseOf' = [PhaseOf EXCEPT ![j] = Phase(place)]
<1>1. worker' = [worker EXCEPT ![j] = place]
  BY DEF GoTo
<1>2. \A k \in Jobs : worker'[k] = IF k = j THEN place ELSE worker[k]
  BY <1>1 DEF TypeOK
<1> QED BY <1>2 DEF PhaseOf

\* While the worker that has the slot has no converter, nobody has one.
LEMMA NobodyRuns ==
  ASSUME Inv, NEW j \in Jobs, worker[j] \in InSlot, child[j] # "alive"
  PROVE  {k \in Jobs : child[k] = "alive"} = {}
BY DEF Inv, ChildPlaced, SlotHeld, InSlot, Watching

LEMMA SimulatesStep == Inv /\ [Next]_vars => [Lifecycle!Next]_(Lifecycle!vars)
<1> SUFFICES ASSUME Inv, [Next]_vars PROVE Lifecycle!Next \/ UNCHANGED Lifecycle!vars
  OBVIOUS
<1> DEFINE Same == UNCHANGED Lifecycle!vars
<1> USE DEF Inv, TypeInv, TypeOK, Found, StatePlaced, ChildPlaced, SlotHeld,
            JobStates, Exits, WorkerPlaces, InSlot, Early, Watching, Late, NoJob,
            Phase, Lifecycle!vars
<1>1. ASSUME NEW j \in Jobs, Announce(j) PROVE Lifecycle!Ask(j)
  BY <1>1 DEF Announce, childVars, Lifecycle!Ask
<1>2. ASSUME NEW j \in Jobs, AcquireSlot(j) PROVE Lifecycle!Begin(j)
  <2>1. PhaseOf' = [PhaseOf EXCEPT ![j] = "working"]
    BY <1>2, PhaseMoves DEF AcquireSlot
  <2>2. \A k \in Jobs : Phase(worker[k]) # "working"
    BY <1>2 DEF AcquireSlot, SlotFree
  <2> QED BY <1>2, <2>1, <2>2 DEF AcquireSlot, jobVars, childVars, PhaseOf, Lifecycle!Begin
<1>3. ASSUME NEW j \in Jobs, CheckCancelled(j) PROVE Same \/ Lifecycle!Retire(j)
  <2>1. CASE JobCancelled(j)
    <3>1. PhaseOf' = [PhaseOf EXCEPT ![j] = "over"]
      BY <1>3, <2>1, PhaseMoves DEF CheckCancelled, Leave
    <3>2. {k \in Jobs : child[k] = "alive"} = {}
      BY <1>3, NobodyRuns DEF CheckCancelled
    <3> QED BY <1>3, <2>1, <3>1, <3>2 DEF CheckCancelled, JobCancelled, jobVars,
               childVars, PhaseOf, Lifecycle!Retire, Lifecycle!Ended
  <2>2. CASE ~JobCancelled(j)
    BY <1>3, <2>2 DEF CheckCancelled, GoTo, jobVars, childVars
  <2> QED BY <2>1, <2>2
<1>4. ASSUME NEW j \in Jobs, Start(j) PROVE Lifecycle!Launch(j)
  <2>1. {k \in Jobs : child[k] = "alive"} = {}
    BY <1>4, NobodyRuns DEF Start
  <2>2. {k \in Jobs : child'[k] = "alive"} = {j}
    BY <1>4, <2>1 DEF Start
  <2> QED BY <1>4, <2>1, <2>2 DEF Start, GoTo, jobVars, Lifecycle!Launch
<1>5. ASSUME NEW j \in Jobs, StartFails(j) PROVE Same \/ Lifecycle!Finish(j)
  <2>1. {k \in Jobs : child[k] = "alive"} = {}
    BY <1>5, NobodyRuns DEF StartFails
  <2>2. state[j] \in {"Running", "Cancelled"}
    BY <1>5 DEF StartFails
  <2>3. \A k \in Jobs : Phase(worker'[k]) = Phase(worker[k])
    BY <1>5 DEF StartFails, GoTo
  <2>4. CASE state[j] = "Running"
    BY <1>5, <2>1, <2>3, <2>4 DEF StartFails, StartOutcome, childVars, Lifecycle!Finish
  <2>5. CASE state[j] = "Cancelled"
    <3>1. state' = state
      BY <1>5, <2>5 DEF StartFails, StartOutcome
    <3> QED BY <1>5, <2>3, <3>1 DEF StartFails, childVars
  <2> QED BY <2>2, <2>4, <2>5
<1>6. ASSUME NEW j \in Jobs, Register(j) \/ Reap(j) \/ JoinReaders(j) \/ WaitFails(j)
      PROVE Same
  BY <1>6 DEF Register, KillNeeded, Reap, JoinReaders, WaitFails, GoTo, jobVars, childVars
<1>7. ASSUME NEW j \in Jobs, KillNow(j) PROVE Same \/ Lifecycle!Exit(j)
  BY <1>7 DEF KillNow, Kill, GoTo, jobVars, Lifecycle!Exit
<1>8. ASSUME NEW j \in Jobs, Settle(j) PROVE Same \/ Lifecycle!Finish(j)
  <2>1. {k \in Jobs : child[k] = "alive"} = {}
    BY <1>8, NobodyRuns DEF Settle
  <2>2. state[j] \in {"Running", "Cancelled"}
    BY <1>8 DEF Settle
  <2>3. \A k \in Jobs : Phase(worker'[k]) = Phase(worker[k])
    BY <1>8 DEF Settle, GoTo
  <2>4. CASE state[j] = "Running"
    BY <1>8, <2>1, <2>3, <2>4 DEF Settle, Outcome, childVars, Lifecycle!Finish
  <2>5. CASE state[j] = "Cancelled"
    <3>1. state' = state
      BY <1>8, <2>5 DEF Settle, Outcome
    <3> QED BY <1>8, <2>3, <3>1 DEF Settle, childVars
  <2> QED BY <2>2, <2>4, <2>5
<1>9. ASSUME NEW j \in Jobs, Discard(j) PROVE Lifecycle!Retire(j)
  <2>1. PhaseOf' = [PhaseOf EXCEPT ![j] = "over"]
    BY <1>9, PhaseMoves DEF Discard, Leave
  <2>2. {k \in Jobs : child[k] = "alive"} = {}
    BY <1>9, NobodyRuns DEF Discard
  <2> QED BY <1>9, <2>1, <2>2 DEF Discard, jobVars, childVars, PhaseOf,
             Lifecycle!Retire, Lifecycle!Ended
<1>10. ASSUME NEW j \in Jobs, ChildSucceeds(j) \/ ChildFails(j) PROVE Lifecycle!Exit(j)
  <2>1. /\ child[j] = "alive"
        /\ child' = [child EXCEPT ![j] = "succeeded"] \/ child' = [child EXCEPT ![j] = "failed"]
        /\ UNCHANGED <<worker, state>>
    BY <1>10 DEF ChildSucceeds, ChildFails, jobVars
  <2>2. {k \in Jobs : child'[k] = "alive"} = {k \in Jobs : child[k] = "alive"} \ {j}
    <3>1. child \in [Jobs -> Exits \union {"none", "alive"}]
      BY DEF Inv, TypeInv, TypeOK
    <3>2. \A k \in Jobs : k # j => child'[k] = child[k]
      BY <2>1, <3>1
    <3>3. child'[j] # "alive"
      BY <2>1, <3>1
    <3> HIDE DEF Inv, TypeInv, TypeOK, Found, StatePlaced, ChildPlaced, SlotHeld
    <3> QED BY <3>2, <3>3, ZenonT(30)
  <2> QED BY <2>1, <2>2 DEF Lifecycle!Exit
<1>11. ASSUME NEW j \in Jobs, ChildCreates(j) \/ ChildReports(j) \/ ReadLine(j)
       PROVE Same
  BY <1>11 DEF ChildCreates, ChildReports, ReadLine, jobVars, childVars
<1>12. ASSUME NEW c \in Cancels, NEW j \in Jobs, FindJob(c, j) PROVE Same
  BY <1>12 DEF FindJob, jobVars, childVars
<1>13. ASSUME NEW c \in Cancels, CancelJob(c)
       PROVE Same \/ \E j \in Jobs : Lifecycle!Cancel(j)
  BY <1>13 DEF CancelJob, childVars, Lifecycle!Cancel
<1>14. ASSUME NEW c \in Cancels, KillJob(c)
       PROVE Same \/ \E j \in Jobs : Lifecycle!Exit(j)
  <2>1. PICK j \in Jobs : child' = [child EXCEPT ![j] = IF @ = "alive" THEN "failed" ELSE @]
    BY <1>14 DEF KillJob, Kill
  <2>2. UNCHANGED <<worker, state>>
    BY <1>14 DEF KillJob, jobVars
  <2>3. CASE child[j] = "alive"
    <3>1. Lifecycle!Exit(j)
      BY <2>1, <2>2, <2>3 DEF Lifecycle!Exit
    <3> QED BY <3>1
  <2>4. CASE child[j] # "alive"
    BY <2>1, <2>2, <2>4
  <2> QED BY <2>3, <2>4
<1>15. CASE UNCHANGED vars
  BY <1>15 DEF vars
<1>18. ASSUME NEW o \in Outputs, DeleteOutput(o) PROVE Same
  BY <1>18 DEF DeleteOutput, jobVars
<1> HIDE DEF Inv, Lifecycle!vars
<1>16. CASE \E j \in Jobs : \/ Announce(j) \/ Worker(j) \/ WaitFails(j)
                             \/ Converter(j) \/ ReadLine(j)
  BY <1>16, <1>1, <1>2, <1>3, <1>4, <1>5, <1>6, <1>7, <1>8, <1>9, <1>10, <1>11
     DEF Worker, Converter, Lifecycle!Next
<1>17. CASE \E c \in Cancels : Canceller(c) \/ \E j \in Jobs : FindJob(c, j)
  BY <1>17, <1>12, <1>13, <1>14 DEF Canceller, Lifecycle!Next
<1> QED BY <1>15, <1>16, <1>17, <1>18, Zenon DEF Next

\* The conversion slot implements the life of a job that it promises.
THEOREM SlotKeepsPromise == Spec => LifecycleSpec
<1>1. Init => Lifecycle!Init
  BY DEF Init, Lifecycle!Init, Phase
<1> QED BY <1>1, SimulatesStep, InvCorrect, PTL
        DEF Spec, LifecycleSpec, Lifecycle!Spec
=============================================================================
