---------------------------- MODULE UploadsProofs ----------------------------
(***************************************************************************)
(* What Uploads keeps for any requests of any clients.  However requests   *)
(* cross, a set that is discarded is gone unless its removal failed or met *)
(* a file created since.  And as long as clients choose names that stay    *)
(* apart, a conversion reads its client's files only, and all that were    *)
(* said to be held for it, each of them whole, also while other files of   *)
(* the set are still being received.                                       *)
(***************************************************************************)
EXTENDS Uploads, TLAPS

SameSet(u, o) == Federated(u) /\ SetOf[u] = SetOf[o]

\* What clients see to (the server does not): no two requests send one file,
\* no two sets, of one client or of two, have one directory, and one request
\* completes a set.
Apart ==
    /\ \A u, o \in Requests :
         /\ Place(u) = Place(o) => u = o
         /\ Federated(u) /\ DirOf(u) = DirOf(o) => SameSet(u, o)
         /\ SameSet(u, o) => ClientOf[u] = ClientOf[o]
    /\ \A u, o \in Complete : SameSet(u, o) => u = o

Got == [place : Places, content : Content]
Typed == TypeOK /\ got \in [Requests -> SUBSET Got]

-----------------------------------------------------------------------------
(* Places, and what is at them.                                             *)

LEMMA PlaceFacts ==
  ASSUME NEW u \in Requests
  PROVE  /\ DirOf(u) \in Dirs \union {Root}
         /\ Place(u) \in Places
         /\ Place(u).dir = DirOf(u)
         /\ Federated(u) <=> DirOf(u) # Root
         /\ Federated(u) => DirOf(u) \in Dirs
<1>1. DirOf(u) \in Dirs \union {Root} /\ (Federated(u) <=> DirOf(u) # Root)
  BY RequestAssumption, DistinctAssumption DEF DirOf, Federated
<1>2. NameOf[u] \in Names
  BY RequestAssumption
<1> QED
  BY <1>1, <1>2 DEF Place, Places

Whole(u) == [by |-> u, whole |-> TRUE]

LEMMA AbsentFacts == Absent \in Content /\ \A u \in Requests : Whole(u) \in Content /\ Whole(u) # Absent
BY DistinctAssumption DEF Absent, Content, Whole

LEMMA WrittenFacts ==
  ASSUME NEW u \in Requests, file[Place(u)] \in Content
  PROVE  /\ Written(u) \in Content
         /\ file[Place(u)].by = u => Written(u) = Whole(u)
         /\ file[Place(u)] = Absent => Written(u) = Absent
<1>1. file[Place(u)].by = u => Written(u) = Whole(u)
  BY DEF Written, Content, Whole
<1>2. file[Place(u)] = Absent => Written(u) = Absent
  BY DistinctAssumption DEF Written, Absent
<1>3. Written(u) \in Content
  BY AbsentFacts DEF Written, Content
<1> QED
  BY <1>1, <1>2, <1>3

LEMMA CompletesASet == Complete \subseteq Requests /\ \A u \in Complete : Federated(u)
BY RequestAssumption DEF Federated

LEMMA GoesFacts ==
  ASSUME Typed, NEW u \in Requests, NEW to, Goes(u, to)
  PROVE  req'[u] = to /\ \A o \in Requests : o # u => req'[o] = req[o]
BY DEF Typed, TypeOK, Goes

\* How a conversion that is through leaves its request.
EndOf(u) == IF req[u] = "declining" THEN "declined"
            ELSE IF req[u] = "produced" THEN "done" ELSE "failed"

LEMMA EndedFacts ==
  ASSUME Typed, NEW u \in Requests, Ended(u)
  PROVE  /\ req' = [req EXCEPT ![u] = EndOf(u)]
         /\ doomed' = [doomed EXCEPT ![u] = {}] /\ removing' = removing \ {u}
         /\ running' \in Requests \union {NoOne}
         /\ EndOf(u) \in Over /\ EndOf(u) \in Stages
BY DEF Ended, EndOf, Goes, Typed, TypeOK, Over, Stages

-----------------------------------------------------------------------------
(* Every variable keeps to its values.                                      *)

LEMMA TypedInit == Init => Typed
BY AbsentFacts DEF Init, Typed, TypeOK, Stages

LEMMA RemovalIsTyped ==
  ASSUME Typed, NEW u \in Requests,
         RemoveSource(u) \/ Leave(u) \/ ListSet(u) \/ RemoveStaged(u) \/ RemoveDirectory(u)
  PROVE  Typed'
<1> USE DEF Typed, TypeOK
<1>1. CASE RemoveSource(u)
  BY <1>1, AbsentFacts DEF RemoveSource, Put
<1>2. CASE Leave(u)
  BY <1>2, EndedFacts DEF Leave
<1>3. CASE ListSet(u)
  <2>1. StagedIn(DirOf(u)) \subseteq Places
    BY DEF StagedIn, In
  <2>2. CASE Ended(u)
    BY <1>3, <2>2, EndedFacts DEF ListSet
  <2>3. CASE ~Ended(u)
    BY <1>3, <2>1, <2>3 DEF ListSet
  <2> QED
    BY <2>2, <2>3
<1>4. CASE RemoveStaged(u)
  <2>1. CASE Ended(u) /\ UNCHANGED file
    BY <1>4, <2>1, EndedFacts DEF RemoveStaged
  <2>2. CASE ~(Ended(u) /\ UNCHANGED file)
    BY <1>4, <2>2, AbsentFacts DEF RemoveStaged, Put
  <2> QED
    BY <2>1, <2>2
<1>5. CASE RemoveDirectory(u)
  BY <1>5, EndedFacts DEF RemoveDirectory
<1> QED
  BY <1>1, <1>2, <1>3, <1>4, <1>5

LEMMA TypedStep == Typed /\ [Next]_vars => Typed'
<1> SUFFICES ASSUME Typed, [Next]_vars PROVE Typed'
  OBVIOUS
<1> USE DEF Typed, TypeOK, Goes, Put, Stages, Ending
<1>1. ASSUME NEW u \in Requests,
             Reject(u) \/ TooLarge(u) \/ BreakOff(u)
      PROVE  Typed'
  BY <1>1, PlaceFacts, AbsentFacts DEF Reject, TooLarge, BreakOff, removalVars
<1>2. ASSUME NEW u \in Requests, OpenDirectory(u) PROVE Typed'
  <2>1. HeldWith(u) \subseteq Requests
    BY DEF HeldWith
  <2> QED
    BY <1>2, <2>1, PlaceFacts DEF OpenDirectory, removalVars
<1>3. ASSUME NEW u \in Requests, CreateFile(u) PROVE Typed'
  <2>1. [by |-> u, whole |-> FALSE] \in Content
    BY DEF Content
  <2> QED
    BY <1>3, <2>1, PlaceFacts DEF CreateFile
<1>4. ASSUME NEW u \in Requests, FinishFile(u) PROVE Typed'
  <2>1. Written(u) \in Content
    BY PlaceFacts, WrittenFacts
  <2> QED
    BY <1>4, <2>1 DEF FinishFile, removalVars
<1>5. ASSUME NEW u \in Requests,
             Stage(u) \/ Unreadable(u) \/ Accept(u) \/ Begin(u) \/ SkipCancelled(u)
               \/ Produce(u) \/ Fail(u)
      PROVE  Typed'
  BY <1>5 DEF Stage, Unreadable, Accept, Begin, SkipCancelled, Produce, Fail, removalVars
<1>6. ASSUME NEW u \in Requests, Gather(u) PROVE Typed'
  <2>1. Gathered(u) \subseteq Places
    BY PlaceFacts DEF Gathered, StagedIn, In
  <2> QED
    BY <1>6, <2>1 DEF Gather, removalVars
<1>7. ASSUME NEW u \in Requests, TurnDown(u) PROVE Typed'
  BY <1>7 DEF TurnDown
<1>8. ASSUME NEW u \in Requests, ReadSource(u) PROVE Typed'
  <2>1. PICK p \in Unread(u) :
          got' = [got EXCEPT ![u] = @ \union {[place |-> p, content |-> file[p]]}]
    BY <1>8 DEF ReadSource
  <2>2. [place |-> p, content |-> file[p]] \in Got
    BY <2>1 DEF Unread, Got
  <2> QED
    BY <1>8, <2>1, <2>2 DEF ReadSource, Got, removalVars
<1>9. CASE UNCHANGED vars
  BY <1>9 DEF vars, removalVars
<1> QED
  BY <1>1, <1>2, <1>3, <1>4, <1>5, <1>6, <1>7, <1>8, <1>9, RemovalIsTyped DEF Next

LEMMA TypedAlways == Spec => []Typed
BY TypedInit, TypedStep, PTL DEF Spec

\* Every variable keeps to its values, whatever names clients choose.
THEOREM UploadsTypeCorrect == Spec => []TypeOK
<1>1. Typed => TypeOK
  BY DEF Typed
<1> QED
  BY <1>1, TypedAlways, PTL

-----------------------------------------------------------------------------
(* Discarding: what is listed is all there is, until a file is created.     *)

\* Nothing lies where there is no directory.
FilesHaveDirectories == \A p \in Places : file[p] # Absent => Exists(p.dir)

\* What is left of a set that is being removed was listed, unless a file was
\* created since.
ListedIsAll ==
    \A u \in Requests : u \in removing /\ u \notin disturbed => StagedIn(DirOf(u)) \subseteq doomed[u]

\* Whoever removes a set has nothing else to do.
RemovingIsEnding == \A u \in removing : req[u] \in Ending

DInv == Typed /\ RemovingIsEnding /\ FilesHaveDirectories /\ ListedIsAll

LEMMA RemovingStaysEnding ==
  ASSUME DInv, [Next]_vars PROVE RemovingIsEnding'
<1> USE DEF DInv, Typed, TypeOK, RemovingIsEnding, Goes
<1>1. CASE UNCHANGED vars
  BY <1>1 DEF vars, removalVars
<1>2. ASSUME NEW u \in Requests, req[u] \notin Ending, NEW to, Goes(u, to),
             UNCHANGED removing
      PROVE  RemovingIsEnding'
  BY <1>2
<1> HIDE DEF Goes
<1>3. ASSUME NEW u \in Requests,
             \/ OpenDirectory(u) \/ Reject(u) \/ CreateFile(u) \/ FinishFile(u)
             \/ TooLarge(u) \/ BreakOff(u) \/ Stage(u) \/ Unreadable(u) \/ Gather(u)
             \/ TurnDown(u) \/ Accept(u) \/ Begin(u) \/ SkipCancelled(u)
             \/ Produce(u) \/ Fail(u)
      PROVE  RemovingIsEnding'
  BY <1>2, <1>3 DEF OpenDirectory, Reject, CreateFile, FinishFile, TooLarge, BreakOff, Stage,
     Unreadable, Gather, TurnDown, Accept, Begin, SkipCancelled, Produce, Fail, removalVars, Ending
<1>4. ASSUME NEW u \in Requests, ReadSource(u) \/ RemoveSource(u) PROVE RemovingIsEnding'
  BY <1>4 DEF ReadSource, RemoveSource, removalVars
<1>5. ASSUME NEW u \in Requests, Ended(u) PROVE RemovingIsEnding'
  BY <1>5, EndedFacts
<1>6. ASSUME NEW u \in Requests,
             Leave(u) \/ ListSet(u) \/ RemoveStaged(u) \/ RemoveDirectory(u)
      PROVE  RemovingIsEnding'
  BY <1>5, <1>6 DEF Leave, ListSet, RemoveStaged, RemoveDirectory, IsOver
<1> QED
  BY <1>1, <1>3, <1>4, <1>6 DEF Next

\* Where files only go, or are written on, both stay so.
LEMMA LessKeeps ==
  ASSUME DInv, Typed', dirs \subseteq dirs', UNCHANGED <<removing, doomed>>,
         disturbed \subseteq disturbed',
         \A p \in Places : file[p] = Absent => file'[p] = Absent
  PROVE  FilesHaveDirectories' /\ ListedIsAll'
<1>1. FilesHaveDirectories'
  BY DEF DInv, FilesHaveDirectories, Exists
<1>2. ListedIsAll'
  BY DEF DInv, ListedIsAll, StagedIn, In
<1> QED
  BY <1>1, <1>2

LEMMA CreateFileKeeps ==
  ASSUME DInv, NEW u \in Requests, CreateFile(u)
  PROVE  FilesHaveDirectories' /\ ListedIsAll'
<1>1. dirs' = dirs /\ removing' = removing /\ doomed' = doomed
  BY DEF CreateFile
<1>2. CASE UNCHANGED <<file, disturbed>>
  BY <1>1, <1>2 DEF DInv, FilesHaveDirectories, ListedIsAll, Exists, StagedIn, In
<1>3. CASE /\ Exists(DirOf(u)) /\ Put(Place(u), [by |-> u, whole |-> FALSE])
           /\ disturbed' = disturbed \union {c \in removing : DirOf(c) = DirOf(u)}
  <2>1. /\ Place(u) \in Places /\ Place(u).dir = DirOf(u)
        /\ \A p \in Places : p # Place(u) => file'[p] = file[p]
    BY <1>3, PlaceFacts DEF Put, DInv, Typed, TypeOK
  <2>2. FilesHaveDirectories'
    BY <1>1, <1>3, <2>1 DEF DInv, FilesHaveDirectories, Exists
  <2>3. ASSUME NEW c \in Requests, c \in removing', c \notin disturbed'
        PROVE  StagedIn(DirOf(c))' \subseteq doomed'[c]
    <3>1. c \in removing /\ c \notin disturbed /\ DirOf(c) # DirOf(u)
      BY <1>1, <1>3, <2>3
    <3>2. StagedIn(DirOf(c))' = StagedIn(DirOf(c))
      BY <2>1, <3>1 DEF StagedIn, In
    <3> QED
      BY <1>1, <3>1, <3>2 DEF DInv, ListedIsAll
  <2> QED
    BY <2>2, <2>3 DEF ListedIsAll, StagedIn, In, DirOf, Federated
<1> QED
  BY <1>2, <1>3 DEF CreateFile

\* A conversion that ends is not removing anything any more.
LEMMA EndedKeeps ==
  ASSUME DInv, NEW u \in Requests, Ended(u), UNCHANGED file,
         disturbed \subseteq disturbed',
         \/ UNCHANGED dirs
         \/ dirs' = dirs \ {DirOf(u)} /\ StagedIn(DirOf(u)) = {}
  PROVE  FilesHaveDirectories' /\ ListedIsAll'
<1>1. removing' = removing \ {u} /\ doomed' = [doomed EXCEPT ![u] = {}]
  BY DEF Ended
<1>2. ListedIsAll'
  BY <1>1 DEF DInv, ListedIsAll, StagedIn, In, Typed, TypeOK
<1>3. FilesHaveDirectories'
  BY DEF DInv, FilesHaveDirectories, Exists, StagedIn, In
<1> QED
  BY <1>2, <1>3

LEMMA RemovalKeepsListed ==
  ASSUME DInv, NEW u \in Requests,
         RemoveSource(u) \/ Leave(u) \/ ListSet(u) \/ RemoveStaged(u) \/ RemoveDirectory(u)
  PROVE  FilesHaveDirectories' /\ ListedIsAll'
<1>1. CASE RemoveSource(u)
  <2>1. PICK p \in doomed[u] :
          /\ doomed' = [doomed EXCEPT ![u] = @ \ {p}]
          /\ Put(p, Absent) \/ UNCHANGED file
    BY <1>1 DEF RemoveSource
  <2>2. /\ u \notin removing /\ UNCHANGED <<dirs, removing, disturbed>>
        /\ \A q \in Places : file[q] = Absent => file'[q] = Absent
    BY <1>1, <2>1 DEF RemoveSource, Put, DInv, Typed, TypeOK
  <2>3. FilesHaveDirectories'
    BY <2>2 DEF DInv, FilesHaveDirectories, Exists
  <2>4. \A c \in Requests : c # u => doomed'[c] = doomed[c]
    BY <2>1 DEF DInv, Typed, TypeOK
  <2>5. ListedIsAll'
    BY <2>2, <2>4 DEF DInv, ListedIsAll, StagedIn, In
  <2> QED
    BY <2>3, <2>5
<1>2. CASE Leave(u)
  BY <1>2, EndedKeeps DEF Leave
<1>3. CASE ListSet(u)
  <2>1. CASE Ended(u) /\ disturbed \subseteq disturbed'
    BY <1>3, <2>1, EndedKeeps DEF ListSet
  <2>2. CASE /\ removing' = removing \union {u}
             /\ doomed' = [doomed EXCEPT ![u] = StagedIn(DirOf(u))]
             /\ UNCHANGED disturbed
    <3>1. UNCHANGED <<dirs, file>>
      BY <1>3 DEF ListSet
    <3>2. doomed'[u] = StagedIn(DirOf(u)) /\ \A c \in Requests : c # u => doomed'[c] = doomed[c]
      BY <2>2 DEF DInv, Typed, TypeOK
    <3>3. \A c \in Requests : StagedIn(DirOf(c))' = StagedIn(DirOf(c))
      BY <3>1 DEF StagedIn, In, DirOf, Federated
    <3>4. ListedIsAll'
      BY <2>2, <3>2, <3>3 DEF DInv, ListedIsAll
    <3> QED
      BY <3>1, <3>4 DEF DInv, FilesHaveDirectories, Exists
  <2> QED
    BY <1>3, <2>1, <2>2 DEF ListSet
<1>4. CASE RemoveStaged(u)
  <2>1. CASE Ended(u) /\ disturbed' = disturbed \union {u} /\ UNCHANGED file
    BY <1>4, <2>1, EndedKeeps DEF RemoveStaged
  <2>2. CASE \E p \in doomed[u] :
               /\ Put(p, Absent)
               /\ doomed' = [doomed EXCEPT ![u] = @ \ {p}]
               /\ UNCHANGED <<req, running, removing, disturbed>>
    <3>1. PICK p \in doomed[u] :
               /\ Put(p, Absent)
               /\ doomed' = [doomed EXCEPT ![u] = @ \ {p}]
               /\ UNCHANGED <<req, running, removing, disturbed>>
      BY <2>2
    <3>2. /\ p \in Places /\ file'[p] = Absent
          /\ \A q \in Places : q # p => file'[q] = file[q]
          /\ doomed'[u] = doomed[u] \ {p}
          /\ \A c \in Requests : c # u => doomed'[c] = doomed[c]
      BY <3>1 DEF Put, DInv, Typed, TypeOK
    <3>3. dirs' = dirs
      BY <1>4 DEF RemoveStaged
    <3>4. FilesHaveDirectories'
      BY <3>2, <3>3 DEF DInv, FilesHaveDirectories, Exists
    <3>5. ASSUME NEW c \in Requests, c \in removing', c \notin disturbed'
          PROVE  StagedIn(DirOf(c))' \subseteq doomed'[c]
      <4>1. StagedIn(DirOf(c)) \subseteq doomed[c]
        BY <3>1, <3>5 DEF DInv, ListedIsAll
      <4>2. \A q \in StagedIn(DirOf(c))' : q \in StagedIn(DirOf(c)) /\ q # p
        BY <3>2 DEF StagedIn, In, DirOf, Federated
      <4> QED
        BY <3>2, <4>1, <4>2
    <3> QED
      BY <3>4, <3>5 DEF ListedIsAll, StagedIn, In, DirOf, Federated
  <2> QED
    BY <1>4, <2>1, <2>2 DEF RemoveStaged
<1>5. CASE RemoveDirectory(u)
  BY <1>5, EndedKeeps DEF RemoveDirectory
<1> QED
  BY <1>1, <1>2, <1>3, <1>4, <1>5

LEMMA DInvStep == DInv /\ [Next]_vars => DInv'
<1> SUFFICES ASSUME DInv, [Next]_vars PROVE FilesHaveDirectories' /\ ListedIsAll'
  BY TypedStep, RemovingStaysEnding DEF DInv
<1>0. Typed'
  BY TypedStep DEF DInv
<1>1. CASE UNCHANGED vars
  BY <1>0, <1>1, LessKeeps DEF vars, removalVars
<1> SUFFICES ASSUME NEW u \in Requests,
                    \/ OpenDirectory(u) \/ Reject(u) \/ CreateFile(u) \/ FinishFile(u)
                    \/ TooLarge(u) \/ BreakOff(u) \/ Stage(u) \/ Unreadable(u) \/ Gather(u)
                    \/ TurnDown(u) \/ RemoveSource(u) \/ Accept(u) \/ Begin(u)
                    \/ SkipCancelled(u) \/ ReadSource(u) \/ Produce(u) \/ Fail(u)
                    \/ Leave(u) \/ ListSet(u) \/ RemoveStaged(u) \/ RemoveDirectory(u)
             PROVE  FilesHaveDirectories' /\ ListedIsAll'
  BY <1>1 DEF Next
<1>2. CASE OpenDirectory(u)
  BY <1>0, <1>2, LessKeeps DEF OpenDirectory, removalVars
<1>3. CASE \/ Reject(u) \/ BreakOff(u) \/ Stage(u) \/ Unreadable(u) \/ Gather(u) \/ Accept(u)
           \/ Begin(u) \/ SkipCancelled(u) \/ ReadSource(u) \/ Produce(u) \/ Fail(u)
  BY <1>0, <1>3, LessKeeps DEF Reject, BreakOff, Stage, Unreadable, Gather, Accept, Begin,
     SkipCancelled, ReadSource, Produce, Fail, removalVars
<1>4. CASE CreateFile(u)
  BY <1>4, CreateFileKeeps
<1>5. CASE FinishFile(u)
  <2>1. \A p \in Places : file[p] = Absent => file'[p] = Absent
    BY <1>5, PlaceFacts, WrittenFacts DEF FinishFile, Put, DInv, Typed, TypeOK
  <2> QED
    BY <1>0, <1>5, <2>1, LessKeeps DEF FinishFile, removalVars
<1>6. CASE TooLarge(u)
  <2>1. \A p \in Places : file[p] = Absent => file'[p] = Absent
    BY <1>6 DEF TooLarge, Put, DInv, Typed, TypeOK
  <2> QED
    BY <1>0, <1>6, <2>1, LessKeeps DEF TooLarge, removalVars
<1>7. CASE TurnDown(u)
  <2>1. u \notin removing
    BY <1>7 DEF TurnDown, DInv, RemovingIsEnding, Ending
  <2>2. \A c \in Requests : c # u => doomed'[c] = doomed[c]
    BY <1>7 DEF TurnDown, DInv, Typed, TypeOK
  <2> QED
    BY <1>7, <2>1, <2>2 DEF TurnDown, DInv, FilesHaveDirectories, ListedIsAll, Exists, StagedIn, In
<1>8. CASE RemoveSource(u) \/ Leave(u) \/ ListSet(u) \/ RemoveStaged(u) \/ RemoveDirectory(u)
  BY <1>8, RemovalKeepsListed
<1> QED
  BY <1>2, <1>3, <1>4, <1>5, <1>6, <1>7, <1>8

LEMMA DInvAlways == Spec => []DInv
<1>1. Init => DInv
  BY TypedInit DEF Init, DInv, RemovingIsEnding, FilesHaveDirectories, ListedIsAll
<1> QED
  BY <1>1, DInvStep, PTL DEF Spec

\* When the conversion of a set is over, or was turned down, nothing of the set
\* is left, however requests cross and whatever names clients choose, unless
\* its removal failed or met a file created since (Uploads::discard_set).
THEOREM SetsAreDiscarded == Spec => NothingLeftBehind
<1>1. ASSUME DInv, [Next]_vars, NEW u \in Complete, req[u] \notin Over, req'[u] \in Over,
             u \notin disturbed'
      PROVE  DirOf(u) \notin dirs' /\ StagedIn(DirOf(u))' = {}
  <2>1. u \in Requests /\ Federated(u) /\ DirOf(u) # Root
    BY CompletesASet, PlaceFacts
  <2>2. ASSUME NEW o \in Requests, NEW to, Goes(o, to), to \notin Over PROVE FALSE
    BY <1>1, <2>1, <2>2, GoesFacts DEF DInv
  <2>3. ~UNCHANGED req
    BY <1>1
  <2>4. PICK o \in Requests :
          Leave(o) \/ ListSet(o) \/ RemoveStaged(o) \/ RemoveDirectory(o)
    <3> PICK o \in Requests :
          \/ OpenDirectory(o) \/ Reject(o) \/ CreateFile(o) \/ FinishFile(o)
          \/ TooLarge(o) \/ BreakOff(o) \/ Stage(o) \/ Unreadable(o) \/ Gather(o)
          \/ TurnDown(o) \/ RemoveSource(o) \/ Accept(o) \/ Begin(o) \/ SkipCancelled(o)
          \/ ReadSource(o) \/ Produce(o) \/ Fail(o) \/ Leave(o) \/ ListSet(o)
          \/ RemoveStaged(o) \/ RemoveDirectory(o)
      BY <1>1, <2>3 DEF Next, vars
    <3> QED
      BY <2>2, <2>3 DEF OpenDirectory, Reject, CreateFile, FinishFile, TooLarge, BreakOff,
         Stage, Unreadable, Gather, TurnDown, RemoveSource, Accept, Begin, SkipCancelled,
         ReadSource, Produce, Fail, Over
  <2>5. Ended(o)
    BY <2>3, <2>4 DEF Leave, ListSet, RemoveStaged, RemoveDirectory
  <2>6. o = u
    BY <1>1, <2>1, <2>5, GoesFacts DEF Ended, DInv
  <2>7. CASE Leave(u)
    BY <2>1, <2>7 DEF Leave, Discards
  <2>8. CASE ListSet(u)
    <3>1. DirOf(u) \notin dirs /\ ~Exists(DirOf(u)) /\ UNCHANGED <<dirs, file>>
      BY <1>1, <2>1, <2>3, <2>8 DEF ListSet, Exists
    <3>2. StagedIn(DirOf(u)) = {}
      <4>1. \A p \in Places : p.dir = DirOf(u) => file[p] = Absent
        BY <1>1, <3>1 DEF DInv, FilesHaveDirectories
      <4> QED
        BY <4>1 DEF StagedIn, In
    <3>3. StagedIn(DirOf(u))' = StagedIn(DirOf(u))
      BY <3>1 DEF StagedIn
    <3> QED
      BY <3>1, <3>2, <3>3
  <2>9. CASE RemoveStaged(u)
    BY <1>1, <2>3, <2>9 DEF RemoveStaged
  <2>10. CASE RemoveDirectory(u)
    BY <1>1, <2>10 DEF RemoveDirectory, StagedIn, In
  <2> QED
    BY <2>4, <2>6, <2>7, <2>8, <2>9, <2>10
<1>2. DInv /\ [Next]_vars =>
        [\A u \in Complete :
           req[u] \notin Over /\ req'[u] \in Over /\ u \notin disturbed' =>
             DirOf(u) \notin dirs' /\ StagedIn(DirOf(u))' = {}]_vars
  BY <1>1
<1> QED
  BY <1>2, DInvAlways, PTL DEF Spec, NothingLeftBehind

-----------------------------------------------------------------------------
(* What is read.                                                            *)

PastGathering == {"gathered", "queued", "reading"} \union Ending \union Over
HasRead  == {"reading"} \union Ending \union Over
HoldsOwn == {"received", "staged", "gathered", "queued", "reading"}

\* Nobody discards its set yet.
Secure(u) == \A c \in Complete : SameSet(c, u) => req[c] \notin Ending \union Over

OwnPlace(u, p) == IF Federated(u) THEN p.dir = DirOf(u) ELSE p = Place(u)

\* A file is by the request whose place it is at.
FilesPlaced ==
    \A p \in Places : file[p] # Absent =>
      file[p].by \in Requests /\ Place(file[p].by) = p

\* Only the request that completes a set goes on to convert it.
RolesKept ==
    \A u \in Requests :
      /\ req[u] \in PastGathering => ~Federated(u) \/ u \in Complete
      /\ req[u] = "staged" => Federated(u) /\ u \notin Complete

ToldIsHeld ==
    \A u \in Requests : \A o \in told[u] :
      o \in Requests /\ req[o] = "staged" /\ SameSet(u, o)

\* What was received is there until its set is discarded.
OwnFileStays ==
    \A u \in Requests : Secure(u) =>
      /\ req[u] = "writing" => file[Place(u)].by = u
      /\ req[u] \in HoldsOwn => file[Place(u)] = Whole(u)

SourcesAreOwn == \A u \in Requests : \A p \in sources[u] : OwnPlace(u, p)

DoomedAreOwn ==
    \A u \in Requests : \A p \in doomed[u] : req[u] \in Ending /\ OwnPlace(u, p)

\* A conversion's sources are all that was known to be held.
SourcesAreAll ==
    \A u \in Requests : req[u] \in PastGathering =>
      \A o \in {u} \union told[u] : Place(o) \in sources[u]

GotIsRead ==
    \A u \in Requests : \A g \in got[u] :
      /\ req[u] \in HasRead
      /\ g.place \in sources[u]
      /\ g.content.by \in Requests
      /\ Place(g.content.by) = g.place

GotIsWhole ==
    \A u \in Requests : \A g \in got[u] :
      \A o \in {u} \union told[u] : g.place = Place(o) => g.content.whole

ProducedFromAll ==
    \A u \in Requests : req[u] \in {"produced", "done"} =>
      \A p \in sources[u] : \E g \in got[u] : g.place = p

Inv ==
    /\ Typed
    /\ FilesPlaced /\ RolesKept /\ ToldIsHeld /\ OwnFileStays
    /\ SourcesAreOwn /\ DoomedAreOwn /\ SourcesAreAll
    /\ GotIsRead /\ GotIsWhole /\ ProducedFromAll

LEMMA InvInit == Init => Inv
<1> SUFFICES ASSUME Init PROVE Inv
  OBVIOUS
<1>1. FilesPlaced /\ RolesKept /\ ToldIsHeld /\ OwnFileStays
  BY DEF Init, FilesPlaced, RolesKept, ToldIsHeld, OwnFileStays, PastGathering, HoldsOwn,
     Ending, Over
<1>2. SourcesAreOwn /\ DoomedAreOwn /\ SourcesAreAll /\ GotIsRead /\ GotIsWhole /\ ProducedFromAll
  BY DEF Init, SourcesAreOwn, DoomedAreOwn, SourcesAreAll, GotIsRead, GotIsWhole,
     ProducedFromAll, PastGathering, Ending, Over
<1> QED
  BY <1>1, <1>2, TypedInit DEF Inv

\* Whoever is to read a set is the only one that may discard it.
LEMMA ReaderIsSecure ==
  ASSUME Apart, NEW u \in Requests, ~Federated(u) \/ u \in Complete,
         req[u] \notin Ending \union Over
  PROVE  Secure(u) /\ \A o \in Requests : SameSet(u, o) => Secure(o)
<1>1. ASSUME NEW c \in Complete, SetOf[c] = SetOf[u] PROVE c = u
  BY <1>1, CompletesASet DEF Apart, SameSet, Federated
<1> QED
  BY <1>1 DEF Secure, SameSet

\* What no later step can make secure again.
LEMMA SecureWas ==
  ASSUME NEW o \in Requests,
         \A c \in Requests : req[c] \in Ending \union Over => req'[c] \in Ending \union Over
  PROVE  Secure(o)' => Secure(o)
BY CompletesASet DEF Secure, SameSet, Federated

-----------------------------------------------------------------------------
(* Steps that only move a request on.                                       *)

LEMMA MoveKeeps ==
  ASSUME Inv, Typed', NEW u \in Requests, NEW to, Goes(u, to),
         UNCHANGED <<file, sources, got, doomed, told>>,
         \/ req[u] \in {"opened", "writing", "received"} /\ to = "refused"
         \/ req[u] = "received" /\ to = "staged" /\ Federated(u) /\ u \notin Complete
         \/ req[u] = "gathered" /\ to = "queued"
         \/ req[u] = "queued" /\ to \in {"reading", "skipping"}
         \/ req[u] = "reading" /\ to = "produced" /\ Unread(u) = {}
         \/ req[u] = "reading" /\ to = "failing"
  PROVE  Inv'
<1>1. req'[u] = to /\ \A o \in Requests : o # u => req'[o] = req[o]
  BY GoesFacts DEF Inv
<1>2. FilesPlaced' /\ SourcesAreOwn' /\ GotIsWhole'
  BY DEF Inv, FilesPlaced, SourcesAreOwn, GotIsWhole, OwnPlace
<1>3. RolesKept' /\ ToldIsHeld'
  BY <1>1 DEF Inv, RolesKept, ToldIsHeld, PastGathering, Ending, Over
<1>4. DoomedAreOwn'
  BY <1>1 DEF Inv, DoomedAreOwn, OwnPlace, Ending
<1>5. SourcesAreAll' /\ GotIsRead'
  BY <1>1 DEF Inv, SourcesAreAll, GotIsRead, PastGathering, HasRead, Ending, Over
<1>6. ProducedFromAll'
  BY <1>1 DEF Inv, ProducedFromAll, Unread
<1>7. \A o \in Requests : Secure(o)' => Secure(o)
  BY <1>1, SecureWas DEF Ending, Over
<1>8. OwnFileStays'
  BY <1>1, <1>7 DEF Inv, OwnFileStays, HoldsOwn
<1> QED
  BY <1>2, <1>3, <1>4, <1>5, <1>6, <1>8 DEF Inv

LEMMA OpenDirectoryKeeps ==
  ASSUME Inv, Typed', NEW u \in Requests, OpenDirectory(u) PROVE Inv'
<1>1. /\ req[u] = "idle" /\ UNCHANGED <<file, sources, got, doomed>>
      /\ told'[u] = IF Federated(u) THEN HeldWith(u) ELSE {}
      /\ \A o \in Requests : o # u => told'[o] = told[o]
  BY DEF OpenDirectory, removalVars, Inv, Typed, TypeOK
<1>2. req'[u] = "opened" /\ \A o \in Requests : o # u => req'[o] = req[o]
  BY GoesFacts DEF OpenDirectory, Inv
<1>3. got[u] = {}
  BY <1>1 DEF Inv, GotIsRead, HasRead, Ending, Over
<1>4. FilesPlaced' /\ SourcesAreOwn' /\ GotIsWhole'
  BY <1>1, <1>3 DEF Inv, FilesPlaced, SourcesAreOwn, GotIsWhole, OwnPlace
<1>5. RolesKept' /\ DoomedAreOwn'
  BY <1>1, <1>2 DEF Inv, RolesKept, DoomedAreOwn, OwnPlace, PastGathering, Ending, Over
<1>6. ToldIsHeld'
  <2>1. \A o \in told'[u] : o \in Requests /\ req[o] = "staged" /\ SameSet(u, o)
    BY <1>1 DEF HeldWith, SameSet
  <2> QED
    BY <1>1, <1>2, <2>1 DEF Inv, ToldIsHeld, SameSet, Federated
<1>7. SourcesAreAll' /\ GotIsRead' /\ ProducedFromAll'
  BY <1>1, <1>2 DEF Inv, SourcesAreAll, GotIsRead, ProducedFromAll, PastGathering, HasRead,
     Ending, Over
<1>8. \A o \in Requests : Secure(o)' => Secure(o)
  BY <1>1, <1>2, SecureWas DEF Ending, Over
<1>9. OwnFileStays'
  BY <1>1, <1>2, <1>8 DEF Inv, OwnFileStays, HoldsOwn
<1> QED
  BY <1>4, <1>5, <1>6, <1>7, <1>9 DEF Inv

-----------------------------------------------------------------------------
(* Receiving a file, gathering and reading.                                 *)

\* A request empties, completes or removes its own file.
LEMMA WriteKeeps ==
  ASSUME Inv, Typed', Apart, NEW u \in Requests, NEW to, NEW content,
         Put(Place(u), content), Goes(u, to), UNCHANGED <<sources, got, doomed, told>>,
         content = Absent \/ content.by = u,
         \/ req[u] = "opened" /\ to = "writing" /\ content.by = u
         \/ req[u] = "writing" /\ to = "received" /\ (Secure(u) => content = Whole(u))
         \/ req[u] = "writing" /\ to = "refused"
  PROVE  Inv'
<1>1. req'[u] = to /\ \A o \in Requests : o # u => req'[o] = req[o]
  BY GoesFacts DEF Inv
<1>2. /\ Place(u) \in Places /\ file'[Place(u)] = content
      /\ \A p \in Places : p # Place(u) => file'[p] = file[p]
  BY PlaceFacts DEF Put, Inv, Typed, TypeOK
<1>3. \A o \in Requests : o # u => Place(o) # Place(u) /\ file'[Place(o)] = file[Place(o)]
  BY <1>2, PlaceFacts DEF Apart
<1>4. FilesPlaced'
  BY <1>2 DEF Inv, FilesPlaced
<1>5. SourcesAreOwn' /\ GotIsWhole'
  BY DEF Inv, SourcesAreOwn, GotIsWhole, OwnPlace
<1>6. RolesKept' /\ ToldIsHeld'
  BY <1>1 DEF Inv, RolesKept, ToldIsHeld, PastGathering, Ending, Over
<1>7. DoomedAreOwn'
  BY <1>1 DEF Inv, DoomedAreOwn, OwnPlace, Ending
<1>8. SourcesAreAll' /\ GotIsRead' /\ ProducedFromAll'
  BY <1>1 DEF Inv, SourcesAreAll, GotIsRead, ProducedFromAll, PastGathering, HasRead,
     Ending, Over
<1>9. \A o \in Requests : Secure(o)' => Secure(o)
  BY <1>1, SecureWas DEF Ending, Over
<1>10. OwnFileStays'
  <2>1. ASSUME NEW o \in Requests, Secure(o)'
        PROVE  /\ req'[o] = "writing" => file'[Place(o)].by = o
               /\ req'[o] \in HoldsOwn => file'[Place(o)] = Whole(o)
    <3>1. CASE o = u
      BY <1>1, <1>2, <1>9, <2>1, <3>1 DEF HoldsOwn
    <3>2. CASE o # u
      BY <1>1, <1>3, <1>9, <2>1, <3>2 DEF Inv, OwnFileStays
    <3> QED
      BY <3>1, <3>2
  <2> QED
    BY <2>1 DEF OwnFileStays, Place, DirOf, Federated, Whole
<1> QED
  BY <1>4, <1>5, <1>6, <1>7, <1>8, <1>10 DEF Inv

\* What a reader knows to be held is there, and whole.
LEMMA HeldIsThere ==
  ASSUME Inv, Apart, NEW u \in Requests, req[u] \in {"received", "reading"},
         ~Federated(u) \/ u \in Complete, NEW o \in {u} \union told[u]
  PROVE  /\ o \in Requests /\ file[Place(o)] = Whole(o) /\ Place(o) \in Places
         /\ IF Federated(u) THEN DirOf(o) = DirOf(u) ELSE o = u
<1>1. o \in Requests /\ (o = u \/ (req[o] = "staged" /\ SameSet(u, o)))
  BY DEF Inv, ToldIsHeld
<1>2. Secure(o)
  BY <1>1, ReaderIsSecure DEF Ending, Over
<1>3. file[Place(o)] = Whole(o)
  BY <1>1, <1>2 DEF Inv, OwnFileStays, HoldsOwn
<1> QED
  BY <1>1, <1>3, PlaceFacts DEF SameSet, DirOf, Federated

LEMMA GatherKeeps ==
  ASSUME Inv, Typed', Apart, NEW u \in Requests, Gather(u) PROVE Inv'
<1>1. /\ req[u] = "received" /\ (~Federated(u) \/ u \in Complete)
      /\ UNCHANGED <<file, got, doomed, told>>
      /\ sources'[u] = Gathered(u) /\ \A o \in Requests : o # u => sources'[o] = sources[o]
  BY DEF Gather, removalVars, Inv, Typed, TypeOK
<1>2. req'[u] = "gathered" /\ \A o \in Requests : o # u => req'[o] = req[o]
  BY GoesFacts DEF Gather, Inv
<1>3. FilesPlaced' /\ GotIsWhole'
  BY <1>1 DEF Inv, FilesPlaced, GotIsWhole
<1>4. SourcesAreOwn'
  <2>1. \A p \in Gathered(u) : OwnPlace(u, p)
    BY DEF Gathered, StagedIn, In, OwnPlace
  <2> QED
    BY <1>1, <2>1 DEF Inv, SourcesAreOwn, OwnPlace
<1>5. RolesKept' /\ ToldIsHeld' /\ DoomedAreOwn'
  BY <1>1, <1>2 DEF Inv, RolesKept, ToldIsHeld, DoomedAreOwn, OwnPlace, PastGathering,
     Ending, Over
<1>6. SourcesAreAll'
  <2>1. ASSUME NEW o \in {u} \union told[u] PROVE Place(o) \in Gathered(u)
    <3>1. /\ o \in Requests /\ file[Place(o)] = Whole(o) /\ Place(o) \in Places
          /\ IF Federated(u) THEN DirOf(o) = DirOf(u) ELSE o = u
      BY <1>1, HeldIsThere
    <3> QED
      BY <3>1, AbsentFacts, PlaceFacts DEF Gathered, StagedIn, In
  <2> QED
    BY <1>1, <1>2, <2>1 DEF Inv, SourcesAreAll
<1>7. got[u] = {}
  BY <1>1 DEF Inv, GotIsRead, HasRead, Ending, Over
<1>8. GotIsRead' /\ ProducedFromAll'
  BY <1>1, <1>2, <1>7 DEF Inv, GotIsRead, ProducedFromAll
<1>9. \A o \in Requests : Secure(o)' => Secure(o)
  BY <1>1, <1>2, SecureWas DEF Ending, Over
<1>10. OwnFileStays'
  BY <1>1, <1>2, <1>9 DEF Inv, OwnFileStays, HoldsOwn
<1> QED
  BY <1>3, <1>4, <1>5, <1>6, <1>8, <1>10 DEF Inv

LEMMA ReadSourceKeeps ==
  ASSUME Inv, Typed', Apart, NEW u \in Requests, ReadSource(u) PROVE Inv'
<1>1. PICK p \in Unread(u) :
        /\ file[p] # Absent
        /\ got' = [got EXCEPT ![u] = @ \union {[place |-> p, content |-> file[p]]}]
  BY DEF ReadSource
<1>2. req[u] = "reading" /\ UNCHANGED <<file, req, sources, doomed, told>>
  BY DEF ReadSource, removalVars
<1> DEFINE g == [place |-> p, content |-> file[p]]
<1>3. p \in sources[u] /\ p \in Places /\ g.place = p /\ g.content = file[p]
  BY <1>1 DEF Inv, Typed, TypeOK, Unread
<1>4. got'[u] = got[u] \union {g} /\ \A o \in Requests : o # u => got'[o] = got[o]
  BY <1>1 DEF Inv, Typed
<1> HIDE DEF g
<1>5. /\ FilesPlaced' /\ RolesKept' /\ ToldIsHeld' /\ OwnFileStays' /\ SourcesAreOwn'
      /\ DoomedAreOwn' /\ SourcesAreAll'
  BY <1>2 DEF Inv, FilesPlaced, RolesKept, ToldIsHeld, OwnFileStays, Secure, SourcesAreOwn,
     DoomedAreOwn, OwnPlace, SourcesAreAll
<1>6. ProducedFromAll'
  BY <1>2, <1>4 DEF Inv, ProducedFromAll
<1>7. GotIsRead'
  <2>1. g.content.by \in Requests /\ Place(g.content.by) = g.place
    BY <1>1, <1>3 DEF Inv, FilesPlaced
  <2> QED
    BY <1>2, <1>3, <1>4, <2>1 DEF Inv, GotIsRead, HasRead
<1>8. GotIsWhole'
  <2>1. ASSUME NEW o \in {u} \union told[u], g.place = Place(o) PROVE g.content.whole
    <3>1. file[Place(o)] = Whole(o)
      BY <1>2, HeldIsThere DEF Inv, RolesKept, PastGathering
    <3> QED
      BY <1>3, <2>1, <3>1 DEF Whole
  <2> QED
    BY <1>2, <1>4, <2>1 DEF Inv, GotIsWhole
<1> QED
  BY <1>5, <1>6, <1>7, <1>8 DEF Inv

-----------------------------------------------------------------------------
(* Discarding.                                                              *)

LEMMA TurnDownKeeps == ASSUME Inv, Typed', NEW u \in Requests, TurnDown(u) PROVE Inv'
<1>1. /\ req[u] = "gathered" /\ UNCHANGED <<file, sources, got, told>>
      /\ doomed'[u] = sources[u] /\ \A o \in Requests : o # u => doomed'[o] = doomed[o]
  BY DEF TurnDown, Inv, Typed, TypeOK
<1>2. req'[u] = "declining" /\ \A o \in Requests : o # u => req'[o] = req[o]
  BY GoesFacts DEF TurnDown, Inv
<1>3. FilesPlaced' /\ SourcesAreOwn' /\ GotIsWhole'
  BY <1>1 DEF Inv, FilesPlaced, SourcesAreOwn, GotIsWhole, OwnPlace
<1>4. RolesKept' /\ ToldIsHeld'
  BY <1>1, <1>2 DEF Inv, RolesKept, ToldIsHeld, PastGathering, Ending, Over
<1>5. DoomedAreOwn'
  BY <1>1, <1>2 DEF Inv, DoomedAreOwn, SourcesAreOwn, OwnPlace, Ending
<1>6. SourcesAreAll' /\ GotIsRead' /\ ProducedFromAll'
  BY <1>1, <1>2 DEF Inv, SourcesAreAll, GotIsRead, ProducedFromAll, PastGathering, HasRead,
     Ending, Over
<1>7. \A o \in Requests : Secure(o)' => Secure(o)
  BY <1>1, <1>2, SecureWas DEF Ending, Over
<1>8. OwnFileStays'
  BY <1>1, <1>2, <1>7 DEF Inv, OwnFileStays, HoldsOwn
<1> QED
  BY <1>3, <1>4, <1>5, <1>6, <1>8 DEF Inv

\* A conversion that is through takes away what it may, file by file.
Removes(u) ==
    /\ req[u] \in Ending /\ req'[u] \in Ending \union Over
    /\ req'[u] \in {"produced", "done"} => req[u] = "produced"
    /\ \A o \in Requests : o # u => req'[o] = req[o] /\ doomed'[o] = doomed[o]
    /\ \A p \in doomed'[u] : req'[u] \in Ending /\ OwnPlace(u, p)
    /\ \A p \in Places : file'[p] = file[p] \/ (file'[p] = Absent /\ p \in doomed[u])
    /\ UNCHANGED <<sources, got, told>>

LEMMA RemovesKeeps ==
  ASSUME Inv, Typed', Apart, NEW u \in Requests, Removes(u) PROVE Inv'
<1> USE DEF Removes
<1>1. FilesPlaced' /\ SourcesAreOwn' /\ GotIsWhole'
  BY DEF Inv, FilesPlaced, SourcesAreOwn, GotIsWhole, OwnPlace
<1>2. RolesKept'
  BY DEF Inv, RolesKept, PastGathering, Ending, Over
<1>3. ToldIsHeld'
  BY DEF Inv, ToldIsHeld, SameSet, Federated, Ending
<1>4. DoomedAreOwn'
  BY DEF Inv, DoomedAreOwn, OwnPlace
<1>5. SourcesAreAll' /\ GotIsRead'
  BY DEF Inv, SourcesAreAll, GotIsRead, PastGathering, HasRead
<1>6. ProducedFromAll'
  BY DEF Inv, ProducedFromAll
<1>7. \A o \in Requests : Secure(o)' => Secure(o)
  BY SecureWas
<1>8. ASSUME NEW o \in Requests, Secure(o)', file'[Place(o)] # file[Place(o)] PROVE o = u
  <2>1. Place(o) \in Places /\ Place(o).dir = DirOf(o) /\ Place(o) \in doomed[u]
    BY <1>8, PlaceFacts
  <2>2. OwnPlace(u, Place(o))
    BY <2>1 DEF Inv, DoomedAreOwn
  <2>3. CASE ~Federated(u)
    BY <2>2, <2>3 DEF OwnPlace, Apart
  <2>4. CASE Federated(u)
    <3>1. SameSet(u, o)
      BY <2>1, <2>2, <2>4 DEF OwnPlace, Apart
    <3>2. u \in Complete
      BY <2>4 DEF Inv, RolesKept, PastGathering
    <3> QED
      BY <1>8, <3>1, <3>2 DEF Secure, SameSet, Federated
  <2> QED
    BY <2>3, <2>4
<1>9. OwnFileStays'
  <2>1. ASSUME NEW o \in Requests, Secure(o)'
        PROVE  /\ req'[o] = "writing" => file'[Place(o)].by = o
               /\ req'[o] \in HoldsOwn => file'[Place(o)] = Whole(o)
    <3>1. CASE o = u
      BY <3>1 DEF HoldsOwn, Ending, Over
    <3>2. CASE o # u
      BY <1>7, <1>8, <2>1, <3>2 DEF Inv, OwnFileStays
    <3> QED
      BY <3>1, <3>2
  <2> QED
    BY <2>1 DEF OwnFileStays, Place, DirOf, Federated, Whole
<1> QED
  BY <1>1, <1>2, <1>3, <1>4, <1>5, <1>6, <1>9 DEF Inv

LEMMA EndedRemoves ==
  ASSUME Inv, NEW u \in Requests, req[u] \in Ending, Ended(u), UNCHANGED <<file, sources, got, told>>
  PROVE  Removes(u)
<1>1. /\ req'[u] = EndOf(u) /\ doomed'[u] = {} /\ EndOf(u) \in Over
      /\ \A o \in Requests : o # u => req'[o] = req[o] /\ doomed'[o] = doomed[o]
  BY EndedFacts DEF Inv, Typed, TypeOK
<1> QED
  BY <1>1 DEF Removes, EndOf

LEMMA TakesRemoves ==
  ASSUME Inv, NEW u \in Requests, NEW p \in doomed[u], doomed' = [doomed EXCEPT ![u] = @ \ {p}],
         Put(p, Absent) \/ UNCHANGED file, UNCHANGED <<req, sources, got, told>>
  PROVE  Removes(u)
<1>1. /\ doomed'[u] = doomed[u] \ {p}
      /\ \A o \in Requests : o # u => doomed'[o] = doomed[o]
  BY DEF Inv, Typed, TypeOK
<1>2. \A q \in Places : file'[q] = file[q] \/ (file'[q] = Absent /\ q \in doomed[u])
  BY DEF Put, Inv, Typed, TypeOK
<1>3. req[u] \in Ending /\ \A q \in doomed[u] : OwnPlace(u, q)
  BY DEF Inv, DoomedAreOwn
<1> QED
  BY <1>1, <1>2, <1>3 DEF Removes, Ending

LEMMA RemovalRemoves ==
  ASSUME Inv, RemovingIsEnding, NEW u \in Requests,
         RemoveSource(u) \/ Leave(u) \/ ListSet(u) \/ RemoveStaged(u) \/ RemoveDirectory(u)
  PROVE  Removes(u)
<1>1. CASE RemoveSource(u)
  BY <1>1, TakesRemoves DEF RemoveSource
<1>2. CASE Leave(u)
  BY <1>2, EndedRemoves DEF Leave, IsOver
<1>3. CASE ListSet(u)
  <2>1. CASE Ended(u)
    BY <1>3, <2>1, EndedRemoves DEF ListSet, IsOver
  <2>2. CASE doomed' = [doomed EXCEPT ![u] = StagedIn(DirOf(u))] /\ UNCHANGED req
    <3>1. /\ doomed'[u] = StagedIn(DirOf(u))
          /\ \A o \in Requests : o # u => doomed'[o] = doomed[o]
      BY <2>2 DEF Inv, Typed, TypeOK
    <3>2. \A p \in StagedIn(DirOf(u)) : OwnPlace(u, p)
      BY <1>3 DEF StagedIn, In, OwnPlace, ListSet, Discards
    <3>3. req[u] \in Ending /\ UNCHANGED <<file, sources, got, told>>
      BY <1>3 DEF ListSet, IsOver
    <3> HIDE <1>3
    <3> QED
      BY <2>2, <3>1, <3>2, <3>3 DEF Removes, Ending
  <2> QED
    BY <1>3, <2>1, <2>2 DEF ListSet
<1>4. CASE RemoveStaged(u)
  <2>1. CASE Ended(u) /\ UNCHANGED file
    BY <1>4, <2>1, EndedRemoves DEF RemoveStaged, RemovingIsEnding
  <2>2. CASE ~(Ended(u) /\ UNCHANGED file)
    BY <1>4, <2>2, TakesRemoves DEF RemoveStaged
  <2> QED
    BY <2>1, <2>2
<1>5. CASE RemoveDirectory(u)
  BY <1>5, EndedRemoves DEF RemoveDirectory, RemovingIsEnding
<1> QED
  BY <1>1, <1>2, <1>3, <1>4, <1>5

-----------------------------------------------------------------------------
LEMMA InvStep == ASSUME Apart PROVE Inv /\ RemovingIsEnding /\ [Next]_vars => Inv'
<1> SUFFICES ASSUME Inv, RemovingIsEnding, [Next]_vars PROVE Inv'
  OBVIOUS
<1>0. Typed'
  BY TypedStep DEF Inv
<1>1. CASE UNCHANGED vars
  BY <1>0, <1>1 DEF vars, removalVars, Inv, FilesPlaced, RolesKept, ToldIsHeld, OwnFileStays,
     Secure, SourcesAreOwn, DoomedAreOwn, OwnPlace, SourcesAreAll, GotIsRead, GotIsWhole,
     ProducedFromAll
<1> SUFFICES ASSUME NEW u \in Requests,
                    \/ OpenDirectory(u) \/ Reject(u) \/ CreateFile(u) \/ FinishFile(u)
                    \/ TooLarge(u) \/ BreakOff(u) \/ Stage(u) \/ Unreadable(u) \/ Gather(u)
                    \/ TurnDown(u) \/ RemoveSource(u) \/ Accept(u) \/ Begin(u)
                    \/ SkipCancelled(u) \/ ReadSource(u) \/ Produce(u) \/ Fail(u)
                    \/ Leave(u) \/ ListSet(u) \/ RemoveStaged(u) \/ RemoveDirectory(u)
             PROVE  Inv'
  BY <1>1 DEF Next
<1>2. CASE OpenDirectory(u)
  BY <1>0, <1>2, OpenDirectoryKeeps
<1>3. CASE \/ Reject(u) \/ BreakOff(u) \/ Stage(u) \/ Unreadable(u) \/ Accept(u)
           \/ Begin(u) \/ SkipCancelled(u) \/ Produce(u) \/ Fail(u)
  BY <1>0, <1>3, MoveKeeps DEF Reject, BreakOff, Stage, Unreadable, Accept, Begin,
     SkipCancelled, Produce, Fail, removalVars
<1>4. CASE CreateFile(u)
  <2>1. CASE Put(Place(u), [by |-> u, whole |-> FALSE]) /\ Goes(u, "writing")
    BY <1>0, <1>4, <2>1, WriteKeeps DEF CreateFile
  <2>2. CASE Goes(u, "refused") /\ UNCHANGED file
    BY <1>0, <1>4, <2>2, MoveKeeps DEF CreateFile
  <2> QED
    BY <1>4, <2>1, <2>2 DEF CreateFile
<1>5. CASE FinishFile(u)
  <2>1. Place(u) \in Places /\ file[Place(u)] \in Content
    BY PlaceFacts DEF Inv, Typed, TypeOK
  <2>2. file[Place(u)] = Absent \/ file[Place(u)].by = u
    BY <2>1 DEF Inv, FilesPlaced, Apart
  <2>3. Secure(u) => file[Place(u)].by = u
    BY <1>5 DEF FinishFile, Inv, OwnFileStays
  <2>4. /\ Written(u) = Absent \/ Written(u).by = u
        /\ Secure(u) => Written(u) = Whole(u)
    BY <2>1, <2>2, <2>3, WrittenFacts DEF Whole
  <2> QED
    BY <1>0, <1>5, <2>4, WriteKeeps DEF FinishFile, removalVars
<1>6. CASE TooLarge(u)
  BY <1>0, <1>6, WriteKeeps DEF TooLarge, removalVars
<1>7. CASE Gather(u)
  BY <1>0, <1>7, GatherKeeps
<1>8. CASE ReadSource(u)
  BY <1>0, <1>8, ReadSourceKeeps
<1>9. CASE TurnDown(u)
  BY <1>0, <1>9, TurnDownKeeps
<1>10. CASE RemoveSource(u) \/ Leave(u) \/ ListSet(u) \/ RemoveStaged(u) \/ RemoveDirectory(u)
  BY <1>0, <1>10, RemovalRemoves, RemovesKeeps
<1> QED
  BY <1>2, <1>3, <1>4, <1>5, <1>6, <1>7, <1>8, <1>9, <1>10

LEMMA InvCorrect == ASSUME Apart PROVE Spec => []Inv
<1>1. DInv => RemovingIsEnding
  BY DEF DInv
<1> QED
  BY <1>1, InvInit, InvStep, DInvAlways, PTL DEF Spec

\* Clients that federate at once, each in a set of its own, never read each
\* other's files (Uploads::set_directory).
THEOREM ClientsStayApart == ASSUME Apart PROVE Spec => []OwnFilesOnly
<1>1. Inv => OwnFilesOnly
  <2> SUFFICES ASSUME Inv, NEW u \in Requests, NEW g \in got[u]
               PROVE  g.content.by \in Requests /\ ClientOf[g.content.by] = ClientOf[u]
    BY DEF OwnFilesOnly
  <2> DEFINE o == g.content.by
  <2>1. o \in Requests /\ Place(o) = g.place /\ OwnPlace(u, Place(o))
    BY DEF Inv, GotIsRead, SourcesAreOwn
  <2>2. CASE Federated(u)
    <3>1. DirOf(o) = DirOf(u)
      BY <2>1, <2>2, PlaceFacts DEF OwnPlace
    <3> QED
      BY <2>1, <2>2, <3>1 DEF Apart
  <2>3. CASE ~Federated(u)
    <3>1. Place(o) = Place(u)
      BY <2>1, <2>3 DEF OwnPlace
    <3> QED
      BY <2>1, <3>1 DEF Apart
  <2> QED
    BY <2>2, <2>3
<1> QED
  BY <1>1, InvCorrect, PTL

\* A conversion that produces its output has read every file that was said to
\* be held before the one that completed its set was sent, and all of each,
\* whatever else of the set arrives meanwhile (receive_upload, Uploads::staged).
THEOREM NothingSentIsMissed == ASSUME Apart PROVE Spec => []ReadsAllItWasSent
<1>1. Inv => ReadsAllItWasSent
  <2> SUFFICES ASSUME Inv, NEW u \in Requests, req[u] \in {"produced", "done"},
                      NEW o \in {u} \union told[u]
               PROVE  \E g \in got[u] : g.content.whole /\ g.content.by = o
    BY DEF ReadsAllItWasSent
  <2>1. o \in Requests /\ Place(o) \in sources[u]
    BY DEF Inv, ToldIsHeld, SourcesAreAll, PastGathering, Ending, Over
  <2>2. PICK g \in got[u] : g.place = Place(o)
    BY <2>1 DEF Inv, ProducedFromAll
  <2>3. g.content.whole
    BY <2>2 DEF Inv, GotIsWhole
  <2>4. g.content.by = o
    BY <2>1, <2>2 DEF Inv, GotIsRead, Apart
  <2> QED
    BY <2>3, <2>4
<1> QED
  BY <1>1, InvCorrect, PTL
=============================================================================
