--------------------------- MODULE SceneVersions ---------------------------
(***************************************************************************)
(* The versions groma-api keeps of one scene (apps/groma-api/src/          *)
(* scenes.rs): the numbers it hands to conversions, the files the          *)
(* conversions write under them, the cached preview, the requests that     *)
(* delete a version or the scene, and viewers that read one version over   *)
(* several requests.                                                       *)
(*                                                                         *)
(* Requests run on threads of their own and share nothing but the          *)
(* directory, so every call that looks at it or changes it is a step.      *)
(* Scenes of different names share no file and are independent.  How a     *)
(* conversion waits for the slot, is cancelled and reaped is               *)
(* ConversionSlot's; here it is queued, has the slot, and ends.            *)
(***************************************************************************)
EXTENDS Naturals, FiniteSets, FiniteSetsExt

CONSTANTS
    Convs,           \* conversions of this scene
    VersionDeletes,  \* requests that delete one version
    SceneDeletes,    \* requests that delete the scene
    Viewers,         \* requests that store a preview a viewer drew
    Readers,         \* readers that keep to the version they first got
    MaxNumber,       \* bound: the highest number that can be handed out
    HasFlat,         \* whether a scene from before there were versions exists
    Patience,        \* what an upload of this scene waits for: see Patient
    MarkMayFail,     \* whether writing the mark may fail
    RemovalMayFail,  \* whether removing a file or the directory may fail
    Legacy, NoOne    \* the scene in the flat file, and no scene at all

ASSUME ConvsAssumption == Legacy \notin Convs /\ NoOne \notin Convs /\ Legacy # NoOne
ASSUME MaxNumberAssumption == MaxNumber \in Nat \ {0}
ASSUME FlagsAssumption == {HasFlat, MarkMayFail, RemovalMayFail} \subseteq BOOLEAN
ASSUME PatienceAssumption == Patience \in {"none", "reply", "end"}

Numbers == 1..MaxNumber
Models  == Convs \union {Legacy}

VARIABLES
    flat,      \* what is at {name}.rvs
    dir,       \* whether versions/{name} exists
    file,      \* what is at versions/{name}/{number}.rvs
    mark,      \* what the file "last" says, 0 where it says nothing
    marked,    \* whether there is a file "last"
    handles,   \* the conversions that have opened the file "last" there is
    preview,   \* whether a preview is cached
    running,   \* the conversion that has the slot
    conv,      \* each conversion: where it is, what it found, its number
    vdel,      \* each request to delete a version
    sdel,      \* each request to delete the scene
    viewer,    \* where each request to store a preview is
    reader,    \* each reader: the number it keeps to and the model it got
    deleted,   \* history: the models taken away by a request to delete
    fresh,     \* history: the uploads since each request to delete the scene
    disturbed  \* history: the requests to delete the scene whose removal of
               \* the directory failed, or had a file created beside it

last    == <<mark, marked, handles>>
disk    == <<flat, dir, file, last>>
history == <<deleted, fresh, disturbed>>
vars == <<flat, dir, file, mark, marked, handles, preview, running, conv, vdel,
          sdel, viewer, reader, deleted, fresh, disturbed>>

Absent == [by |-> NoOne, whole |-> FALSE]

Init ==
    /\ flat = IF HasFlat THEN [by |-> Legacy, whole |-> TRUE] ELSE Absent
    /\ dir = FALSE
    /\ file = [n \in Numbers |-> Absent]
    /\ mark = 0
    /\ marked = FALSE
    /\ handles = {}
    /\ preview = FALSE
    /\ running = NoOne
    /\ conv = [c \in Convs |-> [at |-> "idle", present |-> 0, number |-> 0]]
    /\ vdel = [d \in VersionDeletes |->
                 [at |-> "idle", number |-> 0, flat |-> FALSE, newest |-> FALSE]]
    /\ sdel = [s \in SceneDeletes |-> [at |-> "idle", left |-> {}, flat |-> FALSE]]
    /\ viewer = [w \in Viewers |-> "idle"]
    /\ reader = [r \in Readers |-> [number |-> 0, got |-> NoOne]]
    /\ deleted = {}
    /\ fresh = [s \in SceneDeletes |-> {}]
    /\ disturbed = {}

-----------------------------------------------------------------------------
(* What the directory resolves to.                                         *)

\* A numbered file wins over the flat one, which stands for version 1.
AtFlat(n) == n = 1 /\ file[1] = Absent
At(n) == IF AtFlat(n) THEN flat ELSE file[n]

\* Whatever is there counts, the file a conversion is still writing included.
Held == {n \in Numbers : At(n) # Absent}

Newest == IF Held = {} THEN 0 ELSE Max(Held)

-----------------------------------------------------------------------------
(* Handing out a number (next_version_path), in the request that uploads.  *)

Numbering == {"made", "listed", "numbered", "marking"}
Over      == {"done", "failed", "cancelled"}

\* Nothing in the code holds an upload back.  A client that waits for the
\* reply to one upload, or for the end of its conversion, does.
Patient(c) ==
    \A o \in Convs \ {c} :
      /\ Patience = "reply" => conv[o].at \notin Numbering
      /\ Patience = "end"   => conv[o].at \in {"idle"} \union Over

Goes(c, place) == conv' = [conv EXCEPT ![c].at = place]

MakeDirectory(c) ==
    /\ conv[c].at = "idle"
    /\ Patient(c)
    /\ dir' = TRUE
    /\ fresh' = [s \in SceneDeletes |-> fresh[s] \union {c}]
    /\ Goes(c, "made")
    /\ UNCHANGED <<flat, file, last, preview, running, vdel, sdel, viewer,
                   reader, deleted, disturbed>>

ListPresent(c) ==
    /\ conv[c].at = "made"
    /\ conv' = [conv EXCEPT ![c].at = "listed", ![c].present = Newest]
    /\ UNCHANGED <<disk, preview, running, vdel, sdel, viewer, reader, history>>

\* One past the highest number handed out or present.
PastPresent(c) == conv[c].present + 1                          \* mutant
NextNumber(c) == Max({conv[c].present, mark}) + 1

ReadMark(c) ==
    /\ conv[c].at = "listed"
    /\ NextNumber(c) <= MaxNumber
    /\ conv' = [conv EXCEPT ![c] = [at |-> "numbered", present |-> 0, number |-> NextNumber(c)]]
    /\ UNCHANGED <<disk, preview, running, vdel, sdel, viewer, reader, history>>

\* A file created in the directory while it is being removed.
Disturbs == disturbed' = disturbed \union {s \in SceneDeletes : sdel[s].at = "erasing"}

\* std::fs::write makes the file, or empties the one there is, before it
\* writes.
EmptyMark(c) ==
    /\ conv[c].at = "numbered"
    /\ dir
    /\ mark' = 0
    /\ marked' = TRUE
    /\ handles' = handles \union {c}
    /\ Disturbs
    /\ Goes(c, "marking")
    /\ UNCHANGED <<flat, dir, file, preview, running, vdel, sdel, viewer,
                   reader, deleted, fresh>>

\* What is written to a file removed since it was opened is lost.
MarkedPast(c) == IF c \in handles THEN conv[c].number + 1 ELSE mark \* mutant
Marked(c) == IF c \in handles THEN conv[c].number ELSE mark

WriteMark(c) ==
    /\ conv[c].at = "marking"
    /\ mark' = Marked(c)
    /\ handles' = handles \ {c}
    /\ Goes(c, "queued")
    /\ UNCHANGED <<flat, dir, file, marked, preview, running, vdel, sdel, viewer,
                   reader, history>>

\* Writing the mark fails, as it does without the directory; that is ignored.
MarkFails(c) ==
    /\ conv[c].at \in {"numbered", "marking"}
    /\ MarkMayFail \/ (conv[c].at = "numbered" /\ ~dir)
    /\ handles' = handles \ {c}
    /\ Goes(c, "queued")
    /\ UNCHANGED <<flat, dir, file, mark, marked, preview, running, vdel, sdel,
                   viewer, reader, history>>

-----------------------------------------------------------------------------
(* The conversion.                                                         *)

Begin(c) ==
    /\ conv[c].at = "queued"
    /\ running = NoOne
    /\ running' = c
    /\ Goes(c, "converting")
    /\ UNCHANGED <<disk, preview, vdel, sdel, viewer, reader, history>>

\* Cancelled while it waited: the worker returns without a converter.
Skip(c) ==
    /\ conv[c].at = "queued"
    /\ running = NoOne
    /\ Goes(c, "cancelled")
    /\ UNCHANGED <<disk, preview, running, vdel, sdel, viewer, reader, history>>

\* The converter creates its output in a directory it does not make.
Create(c) ==
    /\ conv[c].at = "converting"
    /\ dir
    /\ file' = [file EXCEPT ![conv[c].number] = [by |-> c, whole |-> FALSE]]
    /\ Disturbs
    /\ Goes(c, "writing")
    /\ UNCHANGED <<flat, dir, last, preview, running, vdel, sdel, viewer,
                   reader, deleted, fresh>>

\* What is written to a file since removed is written to nothing.
Complete(c) ==
    /\ conv[c].at = "writing"
    /\ file' = [file EXCEPT ![conv[c].number].whole = @ \/ file[conv[c].number].by = c]
    /\ Goes(c, "written")
    /\ UNCHANGED <<flat, dir, last, preview, running, vdel, sdel, viewer,
                   reader, history>>

Land(c) ==
    /\ conv[c].at = "written"
    /\ Goes(c, "landed")
    /\ UNCHANGED <<disk, preview, running, vdel, sdel, viewer, reader, history>>

ForgetPreview(c) ==
    /\ conv[c].at = "landed"
    /\ preview' = FALSE
    /\ running' = NoOne
    /\ Goes(c, "done")
    /\ UNCHANGED <<disk, vdel, sdel, viewer, reader, history>>

\* An error, or the directory is gone.  What there is of a file stays.
Fail(c) ==
    /\ conv[c].at \in {"converting", "writing"}
    /\ running' = NoOne
    /\ Goes(c, "failed")
    /\ UNCHANGED <<disk, preview, vdel, sdel, viewer, reader, history>>

\* A cancelled conversion removes what is at the path it was given.
CleanedNewest(c) == [file EXCEPT ![Newest] = Absent]           \* mutant
Cleaned(c) == [file EXCEPT ![conv[c].number] = Absent]

Cancel(c) ==
    /\ conv[c].at \in {"converting", "writing", "written"}
    /\ file' = Cleaned(c)
    /\ running' = NoOne
    /\ Goes(c, "cancelled")
    /\ UNCHANGED <<flat, dir, last, preview, vdel, sdel, viewer, reader, history>>

-----------------------------------------------------------------------------
(* Deleting one version (remove_version).                                  *)

\* The only version is refused; what is not there is not found.
ListVersions(d, n) ==
    /\ vdel[d].at = "idle"
    /\ n \in Held
    /\ Cardinality(Held) # 1
    /\ vdel' = [vdel EXCEPT ![d] = [at |-> "listed", number |-> n,
                                    flat |-> AtFlat(n), newest |-> n = Newest]]
    /\ UNCHANGED <<disk, preview, running, conv, sdel, viewer, reader, history>>

\* Removing a path: nothing is resolved again.
Unlink(n, isFlat) ==
    IF isFlat THEN flat' = Absent /\ UNCHANGED file
              ELSE file' = [file EXCEPT ![n] = Absent] /\ UNCHANGED flat
There(n, isFlat) == IF isFlat THEN flat ELSE file[n]

RemoveVersion(d) ==
    LET n == vdel[d].number
        isFlat == vdel[d].flat
    IN  /\ vdel[d].at = "listed"
        /\ Unlink(n, isFlat)
        /\ deleted' = deleted \union ({There(n, isFlat).by} \ {NoOne})
        \* A file that is not there any more ends the request.
        /\ vdel' = [vdel EXCEPT ![d] =
                      IF vdel[d].newest /\ There(n, isFlat) # Absent
                      THEN [at |-> "removed", number |-> 0, flat |-> FALSE, newest |-> FALSE]
                      ELSE [at |-> "ended", number |-> 0, flat |-> FALSE, newest |-> FALSE]]
        /\ UNCHANGED <<dir, last, preview, running, conv, sdel, viewer, reader,
                       fresh, disturbed>>

ForgetRemoved(d) ==
    /\ vdel[d].at = "removed"
    /\ preview' = FALSE
    /\ vdel' = [vdel EXCEPT ![d].at = "ended"]
    /\ UNCHANGED <<disk, running, conv, sdel, viewer, reader, history>>

-----------------------------------------------------------------------------
(* Deleting the scene (remove).                                            *)

ListScene(s) ==
    /\ sdel[s].at = "idle"
    /\ Held # {}
    /\ sdel' = [sdel EXCEPT ![s] = [at |-> "removing", left |-> Held,
                                    flat |-> AtFlat(1)]]
    /\ fresh' = [fresh EXCEPT ![s] = {}]
    /\ UNCHANGED <<disk, preview, running, conv, vdel, viewer, reader, deleted,
                   disturbed>>

Finished(place) == [at |-> place, left |-> {}, flat |-> FALSE]

\* The versions go one by one, and the first that is gone already ends it.
RemoveNext(s) ==
    /\ sdel[s].at = "removing"
    /\ sdel[s].left # {}
    /\ LET n == Min(sdel[s].left)
           isFlat == n = 1 /\ sdel[s].flat
       IN  /\ Unlink(n, isFlat)
           /\ deleted' = deleted \union ({There(n, isFlat).by} \ {NoOne})
           /\ sdel' = [sdel EXCEPT ![s] =
                         IF There(n, isFlat) = Absent THEN Finished("ended")
                         ELSE [sdel[s] EXCEPT !.left = @ \ {n}]]
    /\ UNCHANGED <<dir, last, preview, running, conv, vdel, viewer, reader, fresh,
                   disturbed>>

\* remove_dir_all: what is in the directory is listed, removed one by one, and
\* then the directory, if nothing is in it.  An entry is the number of a
\* version, or 0 for the mark; what was created since the listing may be found
\* as well.  That any of it fails is ignored.
Entries == {n \in Numbers : file[n] # Absent} \union (IF marked THEN {0} ELSE {})

ListDirectory(s) ==
    /\ sdel[s].at = "removing"
    /\ sdel[s].left = {}
    /\ sdel' = [sdel EXCEPT ![s] = [at |-> "erasing", left |-> Entries, flat |-> FALSE]]
    /\ UNCHANGED <<disk, preview, running, conv, vdel, viewer, reader, history>>

Erase(s) ==
    /\ sdel[s].at = "erasing"
    /\ \E e \in Entries :
         /\ IF e = 0 THEN /\ mark' = 0 /\ marked' = FALSE /\ handles' = {}
                          /\ UNCHANGED <<file, deleted>>
                     ELSE /\ file' = [file EXCEPT ![e] = Absent]
                          /\ deleted' = deleted \union ({file[e].by} \ {NoOne})
                          /\ UNCHANGED last
         /\ sdel' = [sdel EXCEPT ![s].left = @ \ {e}]
    /\ UNCHANGED <<flat, dir, preview, running, conv, vdel, viewer, reader, fresh,
                   disturbed>>

LeftUnerased(s) == TRUE                                        \* mutant
Erased(s) == sdel[s].left \intersect Entries = {}

RemoveDirectory(s) ==
    /\ sdel[s].at = "erasing"
    /\ Erased(s)
    /\ dir' = (dir /\ Entries # {})
    /\ sdel' = [sdel EXCEPT ![s] = Finished("emptied")]
    /\ UNCHANGED <<flat, file, last, preview, running, conv, vdel, viewer, reader,
                   history>>

\* That a version cannot be removed ends the request; that the directory, or
\* what is in it, cannot is ignored.
VersionFails(s) ==
    /\ RemovalMayFail
    /\ sdel[s].at = "removing"
    /\ sdel[s].left # {}
    /\ sdel' = [sdel EXCEPT ![s] = Finished("ended")]
    /\ UNCHANGED <<disk, preview, running, conv, vdel, viewer, reader, history>>

DirectoryFails(s) ==
    /\ RemovalMayFail
    /\ \/ sdel[s].at = "removing" /\ sdel[s].left = {}
       \/ sdel[s].at = "erasing"
    /\ sdel' = [sdel EXCEPT ![s] = Finished("emptied")]
    /\ disturbed' = disturbed \union {s}
    /\ UNCHANGED <<disk, preview, running, conv, vdel, viewer, reader, deleted, fresh>>

RemovePreview(s) ==
    /\ sdel[s].at = "emptied"
    /\ preview' = FALSE
    /\ sdel' = [sdel EXCEPT ![s].at = "removed"]
    /\ UNCHANGED <<disk, running, conv, vdel, viewer, reader, history>>

-----------------------------------------------------------------------------
(* Previews to store (store_preview) and readers (resolve, read).          *)

\* The picture is taken where the name names a scene, and refused otherwise.
CheckScene(w) ==
    /\ viewer[w] = "idle"
    /\ viewer' = [viewer EXCEPT ![w] = IF Held # {} THEN "checked" ELSE "ended"]
    /\ UNCHANGED <<disk, preview, running, conv, vdel, sdel, reader, history>>

\* Nothing says which version it is a picture of.
StorePreview(w) ==
    /\ viewer[w] = "checked"
    /\ preview' = TRUE
    /\ viewer' = [viewer EXCEPT ![w] = "ended"]
    /\ UNCHANGED <<disk, running, conv, vdel, sdel, reader, history>>

\* The first answer says which version it came from, and the reader asks for
\* that one from then on.
Open(r) ==
    /\ reader[r].number = 0
    /\ Held # {}
    /\ reader' = [reader EXCEPT ![r] = [number |-> Newest, got |-> At(Newest).by]]
    /\ UNCHANGED <<disk, preview, running, conv, vdel, sdel, viewer, history>>

-----------------------------------------------------------------------------
Conversion(c) ==
    \/ MakeDirectory(c) \/ ListPresent(c) \/ ReadMark(c) \/ EmptyMark(c)
    \/ WriteMark(c) \/ MarkFails(c) \/ Begin(c) \/ Skip(c) \/ Create(c)
    \/ Complete(c) \/ Land(c) \/ ForgetPreview(c) \/ Fail(c) \/ Cancel(c)

Next ==
    \/ \E c \in Convs : Conversion(c)
    \/ \E d \in VersionDeletes : \/ \E n \in Numbers : ListVersions(d, n)
                                 \/ RemoveVersion(d)
                                 \/ ForgetRemoved(d)
    \/ \E s \in SceneDeletes : \/ ListScene(s) \/ RemoveNext(s) \/ ListDirectory(s)
                               \/ Erase(s) \/ RemoveDirectory(s) \/ VersionFails(s)
                               \/ DirectoryFails(s) \/ RemovePreview(s)
    \/ \E w \in Viewers : CheckScene(w) \/ StorePreview(w)
    \/ \E r \in Readers : Open(r)

Spec == Init /\ [][Next]_vars

-----------------------------------------------------------------------------
(* What must hold.                                                         *)

File == [by : Models \union {NoOne}, whole : BOOLEAN]

\* Every variable keeps to its values.
TypeOK ==
    /\ flat \in File
    /\ dir \in BOOLEAN
    /\ file \in [Numbers -> File]
    /\ mark \in 0..MaxNumber
    /\ marked \in BOOLEAN
    /\ handles \subseteq Convs
    /\ preview \in BOOLEAN
    /\ running \in Convs \union {NoOne}
    /\ conv \in [Convs -> [at : Numbering \union Over \union
                                  {"idle", "queued", "converting", "writing",
                                   "written", "landed"},
                           present : 0..MaxNumber, number : 0..MaxNumber]]
    /\ vdel \in [VersionDeletes -> [at : {"idle", "listed", "removed", "ended"},
                                     number : 0..MaxNumber,
                                     flat : BOOLEAN, newest : BOOLEAN]]
    /\ sdel \in [SceneDeletes -> [at : {"idle", "removing", "erasing", "emptied",
                                         "removed", "ended"},
                                   left : SUBSET (0..MaxNumber), flat : BOOLEAN]]
    /\ viewer \in [Viewers -> {"idle", "checked", "ended"}]
    /\ reader \in [Readers -> [number : 0..MaxNumber, got : Models \union {NoOne}]]
    /\ deleted \subseteq Models
    /\ fresh \in [SceneDeletes -> SUBSET Convs]
    /\ disturbed \subseteq SceneDeletes

\* Nobody has asked to delete the whole scene, which gives its numbers up.
Undeleted == \A s \in SceneDeletes : sdel[s].at = "idle"

\* A number is never handed out twice (next_version_path).
NumbersAreUnique == Undeleted =>
    \A c, o \in Convs :
      conv[c].number = conv[o].number /\ conv[c].number # 0 => c = o

\* A reader that keeps to a version number is never handed another model
\* under it, whatever has been deleted, cancelled and converted in between.
PinnedReadsOneModel == Undeleted =>
    \A r \in Readers :
      LET n == reader[r].number
      IN  n # 0 /\ At(n) # Absent => At(n).by = reader[r].got

\* A conversion that is done has the whole of its scene under its number
\* until somebody deletes it: no other conversion, however it ends, takes it.
LandedIsThere == Undeleted =>
    \A c \in Convs :
      conv[c].at = "done" /\ c \notin deleted =>
        At(conv[c].number) = [by |-> c, whole |-> TRUE]

\* A scene that was deleted stays deleted until it is uploaded again, where
\* nothing came between its directory and the removal of it: the conversions
\* asked for before, waiting, running or writing, do not bring it back.  (One
\* that creates its file while the directory is being removed does; README.)
DeletedStaysDeleted ==
    \A s \in SceneDeletes :
      sdel[s].at = "removed" /\ fresh[s] = {} /\ s \notin disturbed => Held = {}

\* What a name resolves to is never the part that a conversion which failed,
\* or was cancelled halfway, has left (the comment on next_version_path).
NobodyResolvesToPart ==
    Held # {} /\ ~At(Newest).whole =>
      conv[At(Newest).by].at \notin {"failed", "cancelled"}
=============================================================================
