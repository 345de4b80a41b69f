------------------------------ MODULE Uploads ------------------------------
(***************************************************************************)
(* The files groma-api receives and the conversions that read them         *)
(* (apps/groma-api/src/upload.rs, receive_upload in main.rs): a model on    *)
(* its own, under uploads/, or the models of a federation, one request     *)
(* each, in the directory of their set, until a request says the set is    *)
(* complete.                                                               *)
(*                                                                         *)
(* Requests run at once and share the directories only, so that a step is  *)
(* one stretch between two calls on the file system; removing a directory  *)
(* is several.  A client may send the files of a set in any order and at   *)
(* once, the one that completes it among them.  A file's content is who    *)
(* sent it and whether all of it has arrived.                              *)
(***************************************************************************)
EXTENDS Naturals, FiniteSets

CONSTANTS
    Requests,    \* upload requests
    Clients,     \* who sends them
    ClientOf,    \* who sends each
    Names,       \* sanitised file names with their extension
    NameOf,      \* the name each request sends
    SetNames,    \* names of sets, as clients choose them
    SetOf,       \* the set each request names, or NoSet
    Complete,    \* the requests that say their set is complete
    Dirs,        \* directories under uploads/sets
    Sanitised,   \* the directory of each set name
    NoSet, Root, \* no set; the directory uploads/ itself
    NoOne, Mixed \* no content; the content of two senders writing one file

ASSUME RequestAssumption ==
    /\ ClientOf \in [Requests -> Clients]
    /\ NameOf \in [Requests -> Names]
    /\ SetOf \in [Requests -> SetNames \union {NoSet}]
    /\ Complete \subseteq {u \in Requests : SetOf[u] # NoSet}
    /\ Sanitised \in [SetNames -> Dirs]
ASSUME DistinctAssumption ==
    /\ NoSet \notin SetNames
    /\ Root \notin Dirs
    /\ NoOne \notin Requests /\ Mixed \notin Requests /\ NoOne # Mixed

VARIABLES
    dirs,      \* the set directories that exist
    file,      \* what is at each place
    req,       \* where each request, and then its job, is
    sources,   \* the places its job reads
    got,       \* what its converter has read: the content of each place
    running,   \* the request whose job has the conversion slot
    removing,  \* the requests whose set's directory is listed, to be removed
    doomed,    \* the places each is about to empty
    disturbed, \* history: removals that failed, or met a file created since
    told       \* history: what had been said to be held when each arrived

removalVars == <<removing, doomed, disturbed>>
vars == <<dirs, file, req, sources, got, running, removalVars, told>>

Federated(u) == SetOf[u] # NoSet
DirUnsanitised(u) == IF Federated(u) THEN SetOf[u] ELSE Root    \* mutant
DirForAll(u) == Root                                            \* mutant
DirOf(u) == IF Federated(u) THEN Sanitised[SetOf[u]] ELSE Root

Places  == [dir : Dirs \union {Root}, name : Names]
Content == [by : Requests \union {NoOne, Mixed}, whole : BOOLEAN]
Absent  == [by |-> NoOne, whole |-> FALSE]

Place(u) == [dir |-> DirOf(u), name |-> NameOf[u]]
In(d) == {p \in Places : p.dir = d}
Exists(d) == d = Root \/ d \in dirs

Init ==
    /\ dirs = {}
    /\ file = [p \in Places |-> Absent]
    /\ req = [u \in Requests |-> "idle"]
    /\ sources = [u \in Requests |-> {}]
    /\ got = [u \in Requests |-> {}]
    /\ running = NoOne
    /\ removing = {} /\ disturbed = {}
    /\ doomed = [u \in Requests |-> {}]
    /\ told = [u \in Requests |-> {}]

Goes(u, place) == req' = [req EXCEPT ![u] = place]
Put(p, content) == file' = [file EXCEPT ![p] = content]

-----------------------------------------------------------------------------
(* Receiving one file (receive).                                           *)

\* The requests of a set that were answered that their file is held.
HeldWith(u) == {o \in Requests : req[o] = "staged" /\ SetOf[o] = SetOf[u]}

OpenDirectory(u) ==
    /\ req[u] = "idle"
    /\ told' = [told EXCEPT ![u] = IF Federated(u) THEN HeldWith(u) ELSE {}]
    /\ dirs' = IF Federated(u) THEN dirs \union {DirOf(u)} ELSE dirs
    /\ Goes(u, "opened")
    /\ UNCHANGED <<file, sources, got, running, removalVars>>

\* The leading bytes name no format this server reads, or the body breaks.
Reject(u) ==
    /\ req[u] = "opened"
    /\ Goes(u, "refused")
    /\ UNCHANGED <<dirs, file, sources, got, running, removalVars, told>>

\* Creating a file empties the one that was there.
CreateFile(u) ==
    /\ req[u] = "opened"
    /\ \/ /\ Exists(DirOf(u))
          /\ Put(Place(u), [by |-> u, whole |-> FALSE])
          /\ disturbed' = disturbed \union {c \in removing : DirOf(c) = DirOf(u)}
          /\ Goes(u, "writing")
       \/ /\ ~Exists(DirOf(u))
          /\ Goes(u, "refused")
          /\ UNCHANGED <<file, disturbed>>
    /\ UNCHANGED <<dirs, sources, got, running, removing, doomed, told>>

\* Two handles on one file leave some of each; a removed file gets nothing.
Written(u) ==
    LET was == file[Place(u)]
    IN  IF was.by = u THEN [was EXCEPT !.whole = TRUE]
        ELSE IF was = Absent THEN Absent
        ELSE [by |-> Mixed, whole |-> FALSE]

FinishFile(u) ==
    /\ req[u] = "writing"
    /\ Put(Place(u), Written(u))
    /\ Goes(u, "received")
    /\ UNCHANGED <<dirs, sources, got, running, removalVars, told>>

TooLarge(u) ==
    /\ req[u] = "writing"
    /\ Put(Place(u), Absent)
    /\ Goes(u, "refused")
    /\ UNCHANGED <<dirs, sources, got, running, removalVars, told>>

\* The connection breaks: what has arrived stays.
BreakOff(u) ==
    /\ req[u] = "writing"
    /\ Goes(u, "refused")
    /\ UNCHANGED <<dirs, file, sources, got, running, removalVars, told>>

-----------------------------------------------------------------------------
(* What the request does with it (receive_upload, serve_upload).           *)

Stage(u) ==
    /\ req[u] = "received"
    /\ Federated(u) /\ u \notin Complete
    /\ Goes(u, "staged")
    /\ UNCHANGED <<dirs, file, sources, got, running, removalVars, told>>

\* The files of the set, as they are on the disk now.
StagedIn(d) == {p \in In(d) : file[p] # Absent}

GatheredOwn(u) == {Place(u)}                                    \* mutant
Gathered(u) == IF Federated(u) THEN StagedIn(DirOf(u)) ELSE {Place(u)}

\* A staged file does not open, or its bytes are read again and name no format.
Unreadable(u) ==
    /\ req[u] = "received"
    /\ u \in Complete
    /\ Goes(u, "refused")
    /\ UNCHANGED <<dirs, file, sources, got, running, removalVars, told>>

Gather(u) ==
    /\ req[u] = "received"
    /\ ~Federated(u) \/ u \in Complete
    /\ sources' = [sources EXCEPT ![u] = Gathered(u)]
    /\ Goes(u, "gathered")
    /\ UNCHANGED <<dirs, file, got, running, removalVars, told>>

\* No room to convert, no version to write, or not a format that exports: what
\* was gathered is removed, and then what else there is of the set.
TurnDown(u) ==
    /\ req[u] = "gathered"
    /\ doomed' = [doomed EXCEPT ![u] = sources[u]]
    /\ Goes(u, "declining")
    /\ UNCHANGED <<dirs, file, sources, got, running, removing, disturbed, told>>

RemoveSource(u) ==
    /\ req[u] = "declining" /\ u \notin removing
    /\ \E p \in doomed[u] :
         /\ doomed' = [doomed EXCEPT ![u] = @ \ {p}]
         /\ Put(p, Absent) \/ UNCHANGED file
    /\ UNCHANGED <<dirs, req, sources, got, running, removing, disturbed, told>>

Accept(u) ==
    /\ req[u] = "gathered"
    /\ Goes(u, "queued")
    /\ UNCHANGED <<dirs, file, sources, got, running, removalVars, told>>

-----------------------------------------------------------------------------
(* The job.                                                                *)

Begin(u) ==
    /\ req[u] = "queued"
    /\ running = NoOne
    /\ running' = u
    /\ Goes(u, "reading")
    /\ UNCHANGED <<dirs, file, sources, got, removalVars, told>>

\* Cancelled while it waited: it holds the slot until its set is discarded.
SkipCancelled(u) ==
    /\ req[u] = "queued"
    /\ running = NoOne
    /\ running' = u
    /\ Goes(u, "skipping")
    /\ UNCHANGED <<dirs, file, sources, got, removalVars, told>>

Unread(u) == sources[u] \ {g.place : g \in got[u]}

\* The converter reads its sources one after the other.
ReadSource(u) ==
    /\ req[u] = "reading"
    /\ \E p \in Unread(u) :
         /\ file[p] # Absent
         /\ got' = [got EXCEPT ![u] = @ \union {[place |-> p, content |-> file[p]]}]
    /\ UNCHANGED <<dirs, file, req, sources, running, removalVars, told>>

Produce(u) ==
    /\ req[u] = "reading"
    /\ sources[u] # {} /\ Unread(u) = {}
    /\ Goes(u, "produced")
    /\ UNCHANGED <<dirs, file, sources, got, running, removalVars, told>>

\* A source is gone or unreadable, the converter is killed, or fails.
Fail(u) ==
    /\ req[u] = "reading"
    /\ Goes(u, "failing")
    /\ UNCHANGED <<dirs, file, sources, got, running, removalVars, told>>

-----------------------------------------------------------------------------
(* Discarding a set (discard_set): its directory is listed, what was found *)
(* is removed file by file, and then the directory, unless it is not empty. *)
(* What fails is given up without a word.                                  *)

DiscardsProduced(u) == Federated(u) /\ req[u] = "produced"          \* mutant
Discards(u) == Federated(u)

Ended(u) ==
    /\ Goes(u, IF req[u] = "declining" THEN "declined"
               ELSE IF req[u] = "produced" THEN "done" ELSE "failed")
    /\ running' = IF running = u THEN NoOne ELSE running
    /\ removing' = removing \ {u}
    /\ doomed' = [doomed EXCEPT ![u] = {}]

Ending == {"declining", "skipping", "produced", "failing"}

\* A conversion that is through, or was turned down.
IsOver(u) == req[u] \in Ending /\ doomed[u] = {} /\ u \notin removing

\* A file on its own stays where it is.
Leave(u) ==
    /\ IsOver(u)
    /\ ~Discards(u)
    /\ Ended(u)
    /\ UNCHANGED <<dirs, file, sources, got, disturbed, told>>

ListSet(u) ==
    /\ IsOver(u)
    /\ Discards(u)
    /\ \/ /\ Exists(DirOf(u))
          /\ removing' = removing \union {u}
          /\ doomed' = [doomed EXCEPT ![u] = StagedIn(DirOf(u))]
          /\ UNCHANGED <<req, running, disturbed>>
       \/ /\ Ended(u)
          /\ disturbed' = IF Exists(DirOf(u)) THEN disturbed \union {u} ELSE disturbed
    /\ UNCHANGED <<dirs, file, sources, got, told>>

RemoveStaged(u) ==
    /\ u \in removing
    /\ \E p \in doomed[u] :
         \/ /\ Put(p, Absent)
            /\ doomed' = [doomed EXCEPT ![u] = @ \ {p}]
            /\ UNCHANGED <<req, running, removing, disturbed>>
         \/ /\ Ended(u)
            /\ disturbed' = disturbed \union {u}
            /\ UNCHANGED file
    /\ UNCHANGED <<dirs, sources, got, told>>

RemoveDirectory(u) ==
    /\ u \in removing /\ doomed[u] = {}
    /\ \/ /\ StagedIn(DirOf(u)) = {}
          /\ dirs' = dirs \ {DirOf(u)}
          /\ UNCHANGED disturbed
       \/ /\ disturbed' = disturbed \union {u}
          /\ UNCHANGED dirs
    /\ Ended(u)
    /\ UNCHANGED <<file, sources, got, told>>

-----------------------------------------------------------------------------
Next == \E u \in Requests :
    \/ OpenDirectory(u) \/ Reject(u) \/ CreateFile(u) \/ FinishFile(u)
    \/ TooLarge(u) \/ BreakOff(u) \/ Stage(u) \/ Unreadable(u) \/ Gather(u)
    \/ TurnDown(u) \/ RemoveSource(u) \/ Accept(u) \/ Begin(u) \/ SkipCancelled(u)
    \/ ReadSource(u) \/ Produce(u) \/ Fail(u) \/ Leave(u) \/ ListSet(u)
    \/ RemoveStaged(u) \/ RemoveDirectory(u)

Spec == Init /\ [][Next]_vars

-----------------------------------------------------------------------------
(* What must hold.                                                         *)

Over == {"declined", "done", "failed"}
Stages == {"idle", "opened", "writing", "received", "staged", "refused", "gathered",
           "queued", "reading"} \union Ending \union Over

\* Every variable keeps to its values.
TypeOK ==
    /\ dirs \subseteq Dirs
    /\ file \in [Places -> Content]
    /\ req \in [Requests -> Stages]
    /\ sources \in [Requests -> SUBSET Places]
    /\ \A u \in Requests : got[u] \subseteq [place : Places, content : Content]
    /\ running \in Requests \union {NoOne}
    /\ removing \subseteq Requests
    /\ doomed \in [Requests -> SUBSET Places]
    /\ disturbed \subseteq Requests
    /\ told \in [Requests -> SUBSET Requests]

\* Nobody's files but the client's own are read into its conversion
\* (set_directory: clients federating at once cannot see each other's files).
OwnFilesOnly ==
    \A u \in Requests : \A g \in got[u] :
      /\ g.content.by \in Requests
      /\ ClientOf[g.content.by] = ClientOf[u]

\* A conversion that succeeds has read the file that completed its set and
\* every file that was said to be held before that one was sent, each whole,
\* whatever other files of the set arrive meanwhile or are discarded with it.
ReadsAllItWasSent ==
    \A u \in Requests : req[u] \in {"produced", "done"} =>
      {u} \union told[u] \subseteq
        {g.content.by : g \in {h \in got[u] : h.content.whole}}

\* When the conversion of a set is over, or was turned down, nothing of the set
\* is left on the disk, also where others of its requests are being received
\* at that moment: only a removal that failed, or one that a file was created
\* under, leaves something.
NothingLeftBehind ==
    [][\A u \in Complete :
         req[u] \notin Over /\ req'[u] \in Over /\ u \notin disturbed' =>
           DirOf(u) \notin dirs' /\ StagedIn(DirOf(u))' = {}]_vars
=============================================================================
