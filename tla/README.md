# Groma in TLA+

Groma reads building models (RVT, IFC and related formats), packs them into scenes
a viewer can stream, and exports IFC. This directory holds TLA+ modules of the parts
of it whose behaviour depends on order, interleaving and failure; the TLC
configurations that check them on small instances; and TLAPS proofs that hold for
every value of the constants.

    tlc -workers 2 -config ConversionSlot.cfg MCConversionSlot   # check an instance
    tlapm ConversionSlotProofs.tla                               # check the proofs

`PROJECT.json` ties every definition to the lines of the repository it models, and
lists the runs, the hazards, the mutants that each property catches, and the
theorems.

## 1. The system

One server process (`apps/groma-api`) takes HTTP requests on several threads. It holds
models in memory, receives files, and starts `groma-cli` as a separate process for
every conversion and export. The libraries under `crates/` read, mesh and write models;
they run on one thread but where they call `map_in_order` of `bim-core/src/work.rs` or
its twin `parallel_map` in `rvt-import`.

| component | state | operations | what makes it correct | modelled |
|---|---|---|---|---|
| conversion slot and jobs (`groma-api/src/main.rs`, `upload.rs`) | map of the last 32 jobs, one mutex held for a whole conversion, a state, process and stage per job | announce, wait, start, register, kill, reap, read progress, settle, forget, cancel | one converter at a time; a cancellation is never lost, never undone and leaves nothing; the slot is always given up | `ConversionSlot` |
| scene directory (`scenes.rs`) | files only: `{name}.rvs`, `versions/{name}/{n}.rvs`, the high-water mark, cached previews | number, write, land, delete a version, delete a scene, store and forget a preview, resolve and read | a number names one model until its scene is deleted; what landed stays until a request deletes it; a scene whose directory was removed undisturbed stays deleted; a reader gets the bytes it asks for | `SceneVersions`, `ByteRange`; not the listing |
| uploads and federation sets (`upload.rs`, `receive_upload`) | files only: `uploads/{name}`, `uploads/sets/{set}/{name}` | receive, stage, gather, turn down, discard | a conversion reads its client's files only, and all that were said to be held before it was asked for; nothing of a set is left where removing it succeeds | `Uploads`; not the settings of an export |
| model store (`Store` in `main.rs`, `store.rs`) | mutex over loaded models | get, page, fold storeys | a model is loaded once, everybody gets the same | `ModelStore`; not paging and folding |
| HTTP server (`main.rs`) | a counter, the clock, the map of jobs | name a job, remember and list it, charge an upload | the listing is in order, what is forgotten is the oldest | `Requests`; not the match over routes |
| memory budget (`bim-convert/src/memory.rs`) | none; reads the host | `room_to_convert_all` | sums and ratios do not overflow | `Requests`; not the ceilings of a plan |
| work sharing (`bim-core/src/work.rs`) | threads of one call | `map_in_order` | the result is that of a sequential map; a panic is not lost | `WorkSharing` |
| scene packing (`scene-pack`) | chunk being filled, what was written, the manifest | mesh a batch, push an element, close a chunk, flush, write blocks, manifest, trailer | a file with a trailer is whole; chunks keep to their size | `ScenePack`; not the layout of bytes |
| RVT records and members (`rvt-model/src/member.rs`), visiting them (`rvt-import/src/lib.rs`) | bytes carried over, members inflated ahead | walk, prepare, resolve, visit | a record's body is whole or absent and no byte is read twice, whatever the batches; where no member ends within a header, every record is read | `PartitionMembers`; not what is in a record |
| IFC import (`ifc-import/src/step.rs`) | a reader, the table of instances | cut into runs, read, insert, look up | where statements are plain, cutting does not show; the later of two instances wins | `StepReading`, `EntityTable`; not `model.rs`, `solid.rs` |
| neutral model, command line, formats, meshing, other RVT and IFC codecs, catalogues | none | decode, triangulate, encode | geometry, tables and byte layout | no, see section 7 |

How they interact. A request that uploads receives its file (uploads), asks whether
the host has room (memory budget), is handed a number (scene directory), announces a
job and starts a worker thread (slot). The worker takes the slot, asks whether the job
was cancelled meanwhile, starts the converter, makes the process known under the job's
lock, and follows it while another thread reads its output. When the process has ended
it settles the job, forgets the preview, discards the set and gives the slot up. A
cancel request meets the worker only through the job's lock; deletions and readers
meet it only through the file system.

What is hard about it: everything in that paragraph happens beside everything else.
The mutexes are few (the slot, the map, each job), no file is locked, and the
converter is a process that may hang, fail or be killed at any point.

The converter reads a model (members of an RVT file, or the section of an IFC file)
and packs it. What is hard there is that work is done ahead of knowing whether it is
wanted, or cut where nobody has parsed up to, and shared among threads: that must not
show in what comes out, and a write or a thread that fails must not look like an end.

## 2. The modules

| module | models | relation to the code |
|---|---|---|
| `JobLifecycle` | what the slot promises a client | abstract: a job waits, works with the slot to itself, is over; its outcome is set once |
| `ConversionSlot` | jobs, slot, worker, converter, reading thread, cancel requests | one action per stretch of code between two points where another thread can act |
| `SceneVersions` | numbering, versions, deletions, previews, pinned readers of one scene | one action per call on the file system |
| `Uploads` | receiving, staging, gathering, converting, discarding | one action per stretch between two calls on the file system |
| `ModelStore` | threads that handle requests, the map of loaded models, the lock of the loader, the files | one action per stretch between two looks at something shared |
| `ByteRange` | the range of a scene a header asks for | operators, one per function, on numbers of a fixed width |
| `Requests` | reads, charging of uploads, identifiers, the map of jobs and its eviction; extends `ByteRange` | one action per use of the counter, the clock and the map |
| `SequentialMap` | what `map_in_order` promises | abstract: a list in order, or a panic |
| `WorkSharing` | the threads of one call | one action per item mapped, per join, and for unwinding |
| `ScenePack` | `write_scene`; extends `WorkSharing`, whose threads run inside it | one action per call to `map_in_order`, element pushed and section written |
| `PartitionMembers` | `for_each_member_batch` and the walk over records | one action per member and per batch |
| `EntityTable` | `Entities`, the table of instances | `insert` and `get` |
| `StepReading` | `parse`, `instance_runs`, `read_instance_runs`; extends `EntityTable` | one action per statement read or cut; the reader's functions as operators |
| `...Proofs` | theorems about the module of that name | see section 5 |
| `MC...` | instances for TLC | constants and symmetry only |

**ConversionSlot.** `worker[j]` is the place of the worker thread in the closure that
`serve_upload` (and, in the same shape, `serve_export_ifc`) spawns, and in `follow`:
`queued` (blocked on the slot), `checking` (`job_cancelled`), `starting`
(`Command::spawn`), `registering` (the job's lock is about to be taken to store the
process), `killing`, `following` (the `try_wait` loop), `joining` (the reading threads),
`settling` (under the job's lock), `discarding` (the staged set, then the guard is
dropped). The `try_wait` loop's polling and sleeping are one action, enabled once the
process has exited. `child[j]` and `line[j]` are the converter and the line in its pipe;
`state`, `process`, `stage` are the job's fields of those names. A cancel request finds
the job under the map's lock, cancels it under the job's lock, and kills the process
with neither; these are three actions. `file` is what is at each output, so that two
jobs writing one place can be told apart. `open` are the jobs whose converter has
created its output: a request that deletes a scene or a version (`DeleteOutput`) takes
the name away at any moment, also while the converter writes, which goes on writing to
the file it has open and succeeds (`Written`, `ChildSucceeds`). `taken`, a history
variable, has the jobs whose product was deleted so. A reading thread begins once the
process is registered (`Reading`). An identifier is its rank as a key of the `BTreeMap`;
jobs are announced in any order of rank, because identifiers made in one millisecond do
not sort by arrival.

**SceneVersions.** All state is on the disk. `next_version_path` is `MakeDirectory`,
`ListPresent`, `ReadMark`, `EmptyMark`, `WriteMark`: `std::fs::write` truncates before
it writes, and another request can look in between; what it writes to a mark that was
removed since it opened it (`handles`) is lost. A flat `{name}.rvs` stands for version
1 until a numbered file 1 exists (`At`, `Held`). `remove_version` lists, then removes,
then forgets the preview. `remove` lists, removes one version after the other
(`RemoveNext`), then calls `remove_dir_all`, which is three kinds of step: the
directory is listed (`ListDirectory`), what is found is removed entry by entry
(`Erase`), and the directory goes if nothing is in it by then (`RemoveDirectory`).
Uploads and converters run between any two of them and may create the mark or a
version in the directory; the removal may also fail at any point (`VersionFails`,
which ends the request with an error, `DirectoryFails`, which the code ignores).
`disturbed` records either. A request to store a preview asks whether the scene
exists, and stores the picture. How the conversion queues and is reaped is abstracted
to one slot here, since `ConversionSlot` models it. `deleted`, `disturbed`, and
`fresh` (the uploads since each request to delete the scene), are history variables
that no action reads.

The constant `Patience` names what clients wait for before they upload the same name
again: nothing, the reply to the upload before, or the end of its conversion. The
server does not enforce any of the three. Properties that need a client to wait are
checked with the least waiting under which they hold, and the run with `"none"` shows
what happens without.

**Uploads.** A file's content is the request that wrote it and whether all of it
arrived; two handles on one path leave `Mixed`, and a file removed while it is written
gets nothing. A client may send the requests of a set in any order and at once, also
the one that completes it, so that files are received while others of the set are
gathered, converted or discarded. `discard_set` is a listing (`ListSet`), a removal per
file (`RemoveStaged`) and the removal of the directory, which fails where something is
in it (`RemoveDirectory`); each may fail and ends the discarding then, as
`let _ = remove_dir_all` has it. An upload that is turned down removes its sources one
by one first (`TurnDown`, `RemoveSource`). A job cancelled in the queue holds the slot
while it discards its set (`SkipCancelled`). `disturbed` (a removal that failed or had
a file created in its directory since the listing) and `told` (the requests of its set
that had been answered when a request arrived) are history variables. `Sanitised` is
the map from a set's name to its directory.

**ModelStore.** `Store::get`: a look at the map (`Look`), the test of the file
(`FindFile`), the lock of the loader (`Enter`), the second look (`LookAgain`),
`Model::load` (`Read`, `ReadFails`) and the insertion, after which the guard is
dropped (`Keep`). `Take` is the loop of a server thread. Names that fail the test for
separators never come as far, and are left out. Reading a file is one action: the
content a model has is what the file held when it was read. A poisoned lock, which
only a panic inside `Model::load` could leave, is not modelled.

**ByteRange and Requests.** `parse_range`, `resolve_range` and the reply of
`serve_scene` are operators on numbers up to `MaxU64` (2^64 - 1 in the code): `Length`
wraps, a buffer of more than half the numbers is not to be had, and a header's text may
be a number that does not fit, no number, or missing. `JobId` is the sequence of
digits the code formats, compared digit by digit, since what sorts before what is the
question; `Hex` and `Dec` are the bases. `PlannedUpTo` adds up what the files of an
upload are charged for, one after the other. `Charge` is `room_to_convert_all`: a sum that
saturates, a product that is checked, and a host that may not say how much is free.
An export is not charged for, as in the code.

**WorkSharing.** `perThread` items make a run, each run has a thread, and the caller
joins them in order. `Map(w)` is one item in thread `w`; a panic ends the thread. The
caller that joins a thread that panicked unwinds, and leaves only when every thread
has ended, as `std::thread::scope` has it. A result is the item it was made from.

**ScenePack.** The `stage` of `write_scene`; a mesh is the number of its triangles; a
section of the file is what it holds, and an offset counts the sections before it.
Every section is one write, which may fail leaving part of it. Meshing, deflating of
chunks and of property blocks each go through `MapInOrder`, so that their threads
interleave with nothing but each other, and meshing may panic in one element.

**PartitionMembers.** A byte is its member and its place, so that a record's body can
be told apart from another of the same bytes. The lengths of a narrow header and of a
wide one are parameters, 12 and 16 in the code; the last byte of a header stands for
the length of the body. A member that ends within a header has a `TruncatedHeader`,
and then, as in the code, all its records are dropped and nothing is carried on from
it. `Inputs` are partitions with every kind of member: narrow, wide, with a tag
nobody knows, without a descriptor, and damaged. `Resolve` is the whole of what is done
for a member: taking it from the lookahead, the preparing or the file, the walk, the
members a spilled record goes on in, and the bytes carried over.

**StepReading and EntityTable.** A section is a sequence of symbols (a mark such as
`"hash"` or `"semicolon"`, a name, an identifier); positions count from 1. Each
function of `Reader` is an operator of a text and a position, and answers where the
reader is afterwards. The two that call themselves are recursive functions of the
position: `StatementEnds` (the loop of `skip_statement`) and `ListEnds` (the lists of
`read_value`, whose one step is `ValueAt`). The reader of a run has the section up to
the run's end and no more, as `&bytes[..run.end]` (`RunText`). `instance_runs` is three
actions over a reader of its own, `cutter`. Reading a run on a thread is a step per
statement, in the order of the file, since `WorkSharing` shows that to be what comes
out. The table has a slot for an identifier or an entry in a map, by how many instances
came before.

## 3. The runs

Runs that pass:

| run | instance | shows |
|---|---|---|
| `slot_safety` | 3 jobs, of which 1 and 2 share an output and 2 is a federation; 2 cancel requests; one output that may be deleted at any moment; 2 jobs remembered | types, one converter, no lost cancellation, nothing left by a cancelled job, no stale stage, a job becomes done with the whole of its product in place unless a request deleted it, and `ConversionSlot` implements `JobLifecycle` |
| `slot_liveness` | `FairSpec`, 3 jobs as above, 1 cancel request | a cancelled job frees the slot although its converter might have run for ever; one cancelled in the queue never starts a process; and, if converters end, every job asked for gets the slot, settles and discards its set |
| `scenes` | 2 uploads, the second once the first was answered; a request deleting any version, one deleting the scene whose removals may fail; a preview being stored, a reader, a flat scene | until the scene is deleted, numbers are unique, a pinned reader never sees another model and a landed version stays; a scene whose directory was removed undisturbed is not brought back by a conversion asked for before |
| `model_store` | `FairSpec`, 3 requests for one model and 1 for another, 3 threads, files replaced and removed meanwhile | a model is read once, answers agree, every request is answered |
| `uploads` | 4 requests of 2 clients in any order: a set of two, a set of one with a file of the same name, and that name on its own; any removal may fail | only the client's files are read, all that it was told are held are, nothing of a set is left but by a removal that failed or met a new file |
| `requests` | every header of small numbers to files of every small length; an upload of one or two files beside an export; four exports beside each other over two milliseconds | what is sent is what was asked for; what is taken fits, where sums and products overflow; jobs are listed and forgotten in the order they came |
| `scene_pack` | `FairSpec`, an empty model and one of 4 elements in another order than the curve's, each element without geometry, with an empty mesh or with up to 2 triangles, up to 3 threads, any one element panicking, any write failing | a file with a trailer is a whole scene and the same one whatever threads there were; chunks keep their budget; `WorkSharing` implements `SequentialMap` in every call; packing ends |
| `partition_members` | every partition of three members, and every two of two and one, over twenty-six kinds of member; headers of two and three bytes; batches of two, held in memory or not | bodies are whole or absent and no byte is read twice, also where members end within headers; where none does every record comes out, in order; batches do not show; a member is inflated once but for the preparing |
| `step_reading` | every section of three statements out of ten kinds, ended or broken off, read whole or in short or long runs | cutting does not show where statements are plain; of two instances of one identifier the later wins; the vector stays small; each identifier is counted once, but for one held in map and vector |

Runs that find a violation, each of what the code's own comments say (section 6):
`scenes_race`, `scenes_part`, `step_skipped`.

**Bounds.** Three jobs are the fewest in which a job waits behind one that waits, and
with two remembered the third evicts a job that may be running. Two cancel requests
race each other and the worker for one job, or reach two jobs; each request is made
once. One line in the pipe suffices, since reading one does not depend on the next.
Two conversions race for a number, let one land, be deleted, and be followed by the
other, or meet a deletion of the scene at every one of its steps. `MaxNumber` is one
above the number of conversions, for the flat scene is
version 1, so that no behaviour is cut off by it in the passing runs. Four upload
requests give a set of two files, a second set beside it, and a file outside of sets;
the completing request of the first set may come before, between or after the steps of
the other one, which is then received while the set is discarded.
Three requests for one model let one read it, one wait for the
lock and one come after, and three threads let the fourth request wait for a thread.

In `Requests` a number has four bits, so that five times a small size or the sum of two
overflows; a count is written in base three, so that the third has a second digit; the
times 4 and 5 have one number of digits in base two, as milliseconds have in base
sixteen until the year 2527. In `ScenePack` a batch of three and a flush of two leave
something over of four elements, and a budget of two closes a chunk after one element
or two. Three members are the fewest over which one record reaches over another
member into a third, and with batches of two that is across a batch; a header of two
bytes is the shortest that the end of a member can cut. Three statements
let a run end behind a first and before a last; with `ALWAYS_DENSE_IDS` 2 an
identifier's slot depends on what came before it from the first one on.
Each constant only adds more actors, or more data, of the same kinds; the theorems of
section 5 hold for every value.

**Symmetry** is used for the conversions of `SceneVersions`, which the module only
compares for equality, and in no run with a liveness property.

**CHECK_DEADLOCK FALSE** is in every configuration but that of `ModelStore` because the
requests of an instance are finite: when all have been answered and all conversions have
ended, or the file is packed or read, the system stops. That nobody waits for ever
before that is what the liveness runs show.

## 4. Fairness

`Fairness` is weak fairness of each worker thread, each reading thread and each cancel
request that is under way: threads of the operating system. Nothing is assumed of
clients, and nothing of converters: in `FairSpec` a converter may run for ever, as
nothing in the code times one out. `WaitFails` (an error of `try_wait`) is never
forced. Weak fairness suffices for the slot although a mutex may be unfair: the set of
jobs is finite and each acquires it once, so in the end the waiting job is alone with
it. With an endless stream of jobs it would not, and the code claims nothing there.
That converters end is a hypothesis of the one property that needs it
(`ConvertersEnd => ...` in `EveryJobEnds`), not of the specification.

In `ModelStore`, `FairSpec` is weak fairness of each request's handling: the thread
that has it is scheduled, and reading a file ends. The writer of the files has none,
and may keep on writing.

In `ScenePack`, `FairSpec` is weak fairness of the calling thread and of each thread of
`map_in_order`; no write has to succeed, and none is forced to fail.

## 5. The proofs

Each proof is an inductive invariant: it holds at first, every step keeps it, and the
property follows. Below is what each one says and why the property alone is not
enough. The invariants were found with TLC, by checking them on the instances of
section 3 before they were proved; the runs kept check the properties.

### The slot

`ConversionSlotProofs` proves, for any finite or infinite set of jobs, outputs and
cancel requests, any assignment of outputs and any size of the map:

| theorem | property |
|---|---|
| `TypeCorrect` | `TypeOK` |
| `SlotIsExclusive` | `OneConverter` |
| `NoConverterIsForgotten` | `CancelledIsKilled` |
| `CancelledJobLeavesNothing` | `CancelledLeavesNothing` |
| `NoStageIsLeft` | `NoStageAfterEnd` |
| `OutcomeIsFinal` | `EndedForGood` |
| `DoneMeansWhole` | `DoneWhenWhole` |
| `SkippedNeverStarts` | `CancelledInQueueNeverStarts` |
| `MapKeepsItsSize` | `RememberedBound` |
| `SlotKeepsPromise` | `LifecycleSpec`, the refinement of `JobLifecycle` |

Assumed are only the named assumptions of `ConversionSlot` (identifiers are positive
naturals, every job has an output, federations are jobs, at least one job is
remembered), which TLC evaluates on every run.

The properties are not inductive on their own. "At most one converter runs" is kept by
`Start` only if nobody else's converter runs, which follows from *who holds the slot*
and *in which places a worker can have a live converter*. `Inv` says exactly that of
each variable: a worker past `queued` and before `ended` holds the slot (`SlotHeld`); a
child is alive only from `registering` to `joining` (`ChildPlaced`), the process is
known only between registering and settling (`ProcessPlaced`), a job still `Running` has
not settled (`StatePlaced`), a stage is shown only while it runs (`StagePlaced`),
nothing at an output is by a job that started no converter or whose cancellation is
settled (`WriterPlaced`), a converter that succeeded has created its output, and what it
wrote is whole until its job settles unless a request deleted it (`OutputPlaced`), what
the wait returned is how the child ended (`StatusPlaced`), and a set exists only until
its worker leaves (`StagedPlaced`). `InvInit` and `InvStep` show it inductive, one step
per action; each theorem follows from it. The refinement maps a worker's place to a
phase, the job's state to the outcome and the live children to the converters;
`SimulatesStep` shows every action to be one of `JobLifecycle` or a stutter.
`MapKeepsItsSize` needs that the eviction does take a key away, hence that a set of
identifiers that is not empty has a least one (`OldestIsHeld`), from the
well-foundedness of the order on the naturals.

### The model store

`ModelStoreProofs` proves, for any requests, names, contents and number of threads:
`StoreTypeCorrect` (`TypeOK`), `ModelIsReadOnce` (`NobodyPaysTwice`), `AnswersAgree`
(`OneModelPerName`) and `LoadedIsKept` (`LoadedForGood`). Assumed are that every
request names a model, and that the values standing for no model and no request are
neither a content nor a request.
The invariant is that whoever is past the lock has it (`HasLock`), that what it reads
is still not loaded (`NotYetKept`), and that every answer is what is kept
(`AnsweredAsKept`). `NotYetKept` is what the second look is for: it holds at
`LookAgain` and only the holder of the lock could break it.

### Uploads

`UploadsProofs` proves `UploadsTypeCorrect` (`TypeOK`) and `SetsAreDiscarded` as they
stand. The other two need a premise, `Apart`: no two requests send one file to one
directory, two sets have two directories, a set is one client's, and one request
completes it. The server sees to none of that, names are the clients' to choose;
without it two clients do share files.

| theorem | property | premise |
|---|---|---|
| `UploadsTypeCorrect` | `TypeOK` | none |
| `SetsAreDiscarded` | `NothingLeftBehind` | none; the property excepts removals that fail or meet a new file |
| `ClientsStayApart` | `OwnFilesOnly` | `Apart` |
| `NothingSentIsMissed` | `ReadsAllItWasSent` | `Apart` |

`SetsAreDiscarded` rests on `DInv`: nothing lies where there is no directory
(`FilesHaveDirectories`), and what is left in a directory being removed was listed,
unless the removal is disturbed (`ListedIsAll`); then the set is over, or was turned
down, only by the step that removes the empty directory, or where there was none.

For the others the invariant ties what is at a place to where its one sender is: a
file is by the request whose place it is (`FilesPlaced`), and is whole from when that
request has received it until its set is discarded (`OwnFileStays`); a job reads
places of its own directory only (`SourcesAreOwn`), and what is about to be removed is
of the own directory too (`DoomedAreOwn`). Only a request that completes a set
discards it, and one does (`Secure`): that is how a file which was said to be held is
still there when the set is gathered and read, while files that nobody was told of may
come and go beside it.

### The scene directory

`SceneVersionsProofs` proves, for any number of conversions, deletions, viewers and
readers:

| theorem | property | premise |
|---|---|---|
| `ScenesTypeCorrect` | `TypeOK` | none |
| `NumbersStayUnique` | `NumbersAreUnique` | `InTurn` |
| `PinnedReadersAreSafe` | `PinnedReadsOneModel` | `InTurn` |
| `LandedStays` | `LandedIsThere` | `InTurn` |
| `DeletionIsFinal` | `DeletedStaysDeleted` | none; the property excepts removals that fail or meet a new file |

`InTurn` is that each upload of the name waits at least for the answer to the one
before and that the mark can be written. The three properties with that premise say
what they say until somebody deletes the whole scene (`Undeleted`), which takes the
mark with it. `ReadMark` keeps numbers unique only if the mark is as high as
every number handed out (`MarkIsHighest`), while one upload at a time is in the
numbering (`OneIsNumbered`); where the mark is empty, it is the number of the upload
about to write it that is highest (`MarkingIsHighest`). Number 1 is the flat scene's,
also once that is deleted, as it is deleted only where another version is or was
(`OneIsTheFlats`); what is under a number is by the conversion that was handed it
(`FilesAreNumbered`), stays until it is deleted (`WrittenStays`), and is what a reader
of that number got (`ReadersGotTheirs`). `HighestIsOne` is that the versions listed,
being finitely many, have a highest one.

`DeletionIsFinal` rests on another invariant (`DeletionInv`). While the flat file is
there nobody is handed its number (`FlatIsFirst`), so that a request deleting the scene
has it among what is left to remove (`FlatIsLeft`). What is in the directory while it
is removed was listed, unless an upload made it again or the removal was disturbed
(`DirectoryIsListed`); so nothing is in it when it goes, and then no conversion asked
for before brings a version back, as the converter creates its file and not its
directory (`NothingComesBack`). Nothing is asked of clients or of the mark. What the
property excepts does happen: section 6.

### Requests

`RequestsProofs` proves, for any headers, uploads and files, any width of a number, any
ratio and number of jobs remembered:

| theorem | property |
|---|---|
| `ReadersGetWhatTheyAskFor` | `ServedAsAsked` |
| `ChargedTruly` | `TakenWhereItFits` |
| `ListedInOrder` | `ListingIsChronological` |

`ServedExactly` is the first of them for a single reader: for every header and every
length of a file, the answer is `ExactlyAsked`. `ChargedTruly` is that a sum which
saturates (`PlannedIsSum`) and a product which is checked (`RoomIsExact`) come to the
decision that numbers of any size would come to: where the sum is the largest number
there is, twice that is more than any host has. Its premise, `Ratio > 1`, holds of the
code's 5. `ListedInOrder` needs that all times have as many digits
(`OneWidthAssumption`; section 3 says until when) and a clock that is not set back,
which `Tick` is. It rests on what digits are: a larger number has no fewer of them and
sorts after one that has as many (`DigitsKeepOrder`), and different numbers have
different ones (`DigitsDiffer`), so that identifiers sort by time
(`IdsAreChronological`) and no two jobs share one (`IdsDiffer`). The invariant
`ListingInv` adds to the property that counts are handed out once (`CountsAreTaken`)
and that what was announced when an upload came had read the clock before it did
(`AfterIsPast`), and `OldestExists` that finitely many jobs have an oldest one, by the
smallest set that would not.

### Scene packing and work sharing

`ScenePackProofs` is about a call of `map_in_order` first, then about the packing that
makes such calls.

Of a call it proves, for any items and any number of threads, `SharingTypeCorrect`,
`OrderIsKept` (`ResultsInOrder`), `PanicGetsThrough` (`PanicIsPassedOn`),
`NobodyIsLeft` (`NobodyOutlivesTheCall`), `NoThreadTooMany`
(`NoMoreThreadsThanReported`) and `SharingIsALoop` (`LoopSpec`): `WorkSharing`
implements `SequentialMap`. The invariant (`IInv`) is that what a thread has made is
the beginning of its run, that one which returned has made all of it and mapped
nothing fatal, and that what is joined is what stands before the run joined next; that
the runs cover the items and do not overlap is arithmetic about ceilings, in lemmas of
its own.

Of the packing it proves, for any model, curve and meshes, any sizes of batches, blocks
and budget, any number of threads, and any write or thread that fails:

| theorem | property |
|---|---|
| `TrailersAreEarned` | `TrailerMeansWhole` |
| `BudgetsAreKept` | `ChunksKeepTheirBudget` |
| `PackingCallsALoop` | `LoopSpec`, the refinement of `SequentialMap`, by every call |

Assumed is `PackAssumption` (a curve visits every element once; sizes are positive)
with `ParallelismAssumption` of `WorkSharing`. The invariant, `PackInv`, says what each
variable holds of the model at every stage. `NothingLost` is its heart: the chunks in
the manifest, those closed and not written and the one being filled are, one after the
other, exactly the elements pushed so far that draw something, each once and in order
with its mesh. `Batched` says which elements a batch in hand is, `Deflated` which
chunks or blocks are with the threads or on their way to the file, so that what a
call of `map_in_order` returns (`Taken`, from `IInv`) is what `NothingLost` expects
there. `Filed` says the manifest's offsets find what they name in the file, which only
grows (`FoundLater`), and that there is no trailer before the end. `Budgeted` is
`ChunksKeepTheirBudget` of every chunk wherever it is, the one being filled included;
which chunk may be short, the last one, is only known once `final` is set
(`InItsPlace`). A panic in meshing and a failed write end in `"failed"`, of which
nothing is claimed but that there is no trailer: that is what the theorem is about.

### Records and members

`PartitionMembersProofs` proves, for any partitions, whatever their members hold, and
any lengths of headers and any size of a batch:

| theorem | property | premise in the property |
|---|---|---|
| `NoneInflatedTwice` | `InflatedOnce` | none |
| `BatchesAreInvisible` | `BatchingIsInvisible` | none |
| `BodiesWholeOrAbsent` | `BodiesAreWholeOrAbsent` | none |
| `BytesAreReadOnce` | `NoByteTwice` | no member of an unknown layout (section 6) |
| `EveryRecordIsRead` | `LosesNothing` | records tile their partition, and no member ends within a header (section 6) |

`Position` says where in the partitions a reading is, `InflatedAhead` that what was
inflated for an earlier record is in the lookahead until its turn. `AsPlain` is that
the visitor and the batch in hand hold what the plain walk has shown up to here, and
that what is owed is what it would owe: one batch or many, the same. `EntriesAreRead`
is that everything shown is what `Resolve` makes of some member into which some bytes
are carried, from which `BodyIsWhole` follows of every body.
`InTurn` says that the records shown so far end before what is read next, once the
bytes owed are counted in: then nothing read later overlaps them (`EntryBounds`).
`Lossless` says that what was shown and what a walk over the whole partition would
still find from here on are together all there is. It goes through because a walk of
records one after the other may be split at any member's end that is not within a
header (`WalkSplits`). `EveryRecordIsRead` holds for headers of any length.

### Induction over data

The prover cannot instantiate a theorem that takes an operator, as those of induction
do. Where a fact is about all of a sequence or all numbers (the digits of a number, the
records of a member, the sum of a list), the modules prove it of the *set* of numbers
for which it holds: a set of naturals that holds each number whose smaller ones it
holds is all of them (`Induction`), from the least element of what is left
(`LeastNatural`). That a recursive function exists and obeys its equation, which TLC
takes for granted and TLAPS does not, is shown in the same way from its approximations
on initial segments (`DigitsUnfold`, `FlattenUnfolds`, `PlainUnfolds`, `RecordsUnfold`,
`KeptUnfolds`), or on final ones where each value rests on later ones
(`StatementEndsUnfolds`, `ListEndsUnfolds`, `StatementsFromUnfolds`).

### Reading a section, and the table of instances

`StepReadingProofs` proves, for any sections, identifiers, lengths of runs and
threshold:

| theorem | property |
|---|---|
| `TableTypeCorrect` | `TableTypeOK` |
| `LaterInstanceIsFound` | `LaterOneWins` |
| `VectorIsSmall` | `VectorStaysSmall` |
| `EachIsCountedOnce` | `CountsEachOnce` |
| `ReadingFillsTheTable` | `TableSpec`, by every reading of `StepReading` |
| `CutsAreInvisible` | `CuttingIsInvisible` |

The first four are about the table in any use of it (`TableSpec`); by the fifth they
hold of every reading. What has to be added to them is `VectorHasSlots`: everything in
the vector below its length still has a slot, as the count never falls, hence a later
statement never goes in the map where an earlier one is in the vector. That the count is
right takes in addition that it is what vector and map hold together, and that what is
held is what was stated; an identifier that is in both is over `ALWAYS_DENSE_IDS`.

`CutsAreInvisible` is about sections of nothing but instances that are read or skipped
whole, the premise of the property and what the comment on `instance_runs` takes for
granted (section 6 has what happens otherwise). The table and the count it names do not
mention the runs, so sections read in runs of different lengths, or in none, come to the
same. `NumeralAssumption` says that an identifier is no mark or name, `TextsAssumption`
that `"end"` stands for the end only. The argument has three parts.

- *A text and its beginning.* What the reader makes of an instance does not depend on
  what follows it (`InstanceInBeginning`): if in the whole section it stops by position
  e, it does the same in the section cut at e. The same is shown before of each thing it
  calls, white space, strings, statements, values, lists (`...InBeginning`), where one
  that recurs is handled from the end of the text backwards (`Downward`).
- *Statements and boundaries.* At a `Boundary` the statements that begin before it have
  ended and the others follow. The next statement leads from one boundary to the next
  (`StatementGoesOn`), and a run ends at one with nothing but white space after the
  statement before it (`Closed`), so that a run holds whole statements and nothing else
  (`StatementInRun`, `RunIsRead`).
- *The invariant*, `StepInv`. `InPlace` keeps reader, cutter and runs within the text,
  for every section. `ReadWell`, for those of the premise, says that the reader is at a
  boundary, that the table and the count are those of all statements before it
  (`ReadTo`), and that the runs follow one another (`Chained`).

### Only model-checked

Liveness (`CancelFreesSlot`, `EveryJobEnds`, `EveryRequestIsAnswered`, `PackingEnds`),
which needs ENABLED and is beyond the prover. Every invariant, action property and
refinement the passing runs check is stated by a theorem.

## 6. Where the code and its comments disagree

Each of the first three is a run with the shortest trace TLC finds, and an entry in
`PROJECT.json`.

- *Two uploads of one name can be handed one number* (`scenes_race`). A comment in
  `scenes.rs` says a number is never reused. Nothing makes listing, reading the mark
  and writing it one step.
- *A name resolves to the part that a failed conversion left* (`scenes_part`). The
  comment at `scenes.rs:90-93` says that a conversion which fails leaves a partial file
  nobody resolves to. Only a cancelled one removes its file (`upload.rs:724`), and any
  numbered file is a version.
- *A complex instance is counted as skipped many times* (`step_skipped`).
  `read_instance` leaves such an instance at its list and relies on `parse` to step over
  the rest; in a run of a large section nobody does, and each symbol that follows is
  counted as one more instance skipped, four in the trace. The instances themselves are
  not affected.

Others follow from the models as they are, and the properties except them by name:

- *A deleted scene can come back.* The result of `remove_dir_all` is ignored
  (`scenes.rs:330`). Where a converter creates its file between the listing of the
  directory and its removal, or something in it cannot be removed, the request is
  answered as done and a version is still there, although the comment at
  `scenes.rs:316-318` says that a deleted scene must not come back in the next listing.
  `DeletedStaysDeleted` excepts such removals (`disturbed`).
- *Numbers start again once the scene is deleted*, as the mark goes with the directory;
  an upload that was handed a number before and one after can be handed the same one.
  Numbers, pinned readers and landed versions are therefore checked until then.
- *A job can be done with nothing there.* A scene or version deleted while its
  conversion writes it leaves the converter writing to a file without a name; it exits
  well, and `follow` looks at the exit status alone (`upload.rs:713-723`).
  `DoneWhenWhole` excepts the jobs whose product a request deleted (`taken`).
- *A file can be answered as held and never read.* A request of a set that is received
  after the set was gathered is answered like the others, and its file is discarded
  with the set. `ReadsAllItWasSent` is about the files held before the completing one
  was sent. Where such a file is created while the set's directory is removed, it is
  left behind; `NothingLeftBehind` excepts such removals.
- *A member that ends within the header of a record loses all its records.* Its walk
  fails with `TruncatedHeader` (`member.rs:141-143`), and the member is dropped with
  what it would have carried on to the next one (`lib.rs:413-416`), which is then read
  from its start. `LosesNothing` excepts partitions with such members; that no body is
  read wrong because of it, and no byte twice, is checked with them.
- *An identifier stated first in the map and later in the vector counts twice.* A unit
  test says that a restated instance replaces the one before and that the count still
  says how many there are (`step.rs:943-946`), of an identifier that always has a slot.
  `CountsEachOnce` says that identifiers held in both are the only ones counted twice,
  and that none of them is below `ALWAYS_DENSE_IDS`.
- A preview drawn of an older version can be stored as the newest's (`scenes.rs:416`).
- The last whole version can be deleted while another is being written, or by two
  requests at once (`scenes.rs:376`).
- A job that is done can lose its export to a later one of the same name, which writes
  the same file (`upload.rs:710`).
- Two set names that sanitise alike share a directory (`upload.rs:168`).
- A range that ends before it starts, `bytes=5-2`, has a length that wraps around:
  `ServedAsAsked` is about the others.
- Two jobs of one millisecond are in the order of their counts as text, "-10" before
  "-9"; so are all jobs if the clock is set back. `ListingIsChronological` is about
  jobs of different milliseconds and a clock that is not.
- A record that spills into a member with an unknown tag is completed from it, while
  the member ends what is carried, so the member after may be read as part of that
  record and again for itself: `NoByteTwice` is about partitions without such members.

## 7. What is not modelled

- Encodings, formats, geometry, catalogues: byte layout and floating point, with no
  state or order to check. Formatting of reports and answers likewise. The tables
  generated for the Revit catalogue and the IFC entities alone are about half of the
  source by lines, and a further quarter decodes, prints or computes with coordinates;
  the modules cover by lines only what has control to speak of.
- The layout of `Document` into IFC entities and of RVT records into elements, a match
  per class over immutable data.
- A restart of the server. Nothing is recovered: jobs are in memory, and what is on
  the disk is read as it is. That a converter survives its server is listed as a
  hazard that no promise of the code covers.
- A thread that cannot be spawned: in `WorkSharing` and the other modules every thread
  starts.
- That removing a cancelled job's file (`upload.rs:709-712`) or a preview fails, which
  the code ignores: `CancelledLeavesNothing` is about hosts where it does not. Failures
  of a scene's deletion, of the mark and of a set's removal are modelled.
- The content of models: a model is the conversion that wrote it.
- Host memory as a changing quantity: it is what it is at the moment of asking.
- The queue between the listener and the server's threads: every request is handled
  when a thread takes it, in any order.
- That a member prepared ahead on several threads may be inflated again, for a record
  of an earlier one that goes on in it, is in `PartitionMembers`, but `InflatedOnce`
  counts lookahead and reading only: the code (`lib.rs:573`) looks for such a member in
  the lookahead and not in what was prepared.

## 8. Plan

Modelled first was what a test reaches least: the slot, then the two parts that share
only a disk, then the models in memory; then what a request is answered before it is
converted, sharing of work with the packing it serves, and the two readers that cut
or look ahead. What is left, in this order:

1. Uploads, slot and scenes composed, to check across components what each module
   assumes of the others (a set is whole while its job is queued, a number is held
   until its job settles).
2. `federate` and the element table of RVT files against reference definitions.
