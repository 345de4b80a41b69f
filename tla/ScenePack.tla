----------------------------- MODULE ScenePack -----------------------------
(***************************************************************************)
(* scene_pack::write_scene (crates/scene-pack/src): the elements of a      *)
(* model, in the order their geometry sits in space, are meshed a batch at *)
(* a time, pushed into chunks, and the chunks deflated a few at a time and *)
(* written; then the elements' bounds, their properties in blocks, and the *)
(* manifest that says where everything is, behind which a trailer closes   *)
(* the file.  Meshing and deflating go through WorkSharing.                *)
(*                                                                         *)
(* A mesh is the number of its triangles, a section of the file is what it *)
(* holds, and an offset counts the sections before it.  What a chunk holds *)
(* are pairs of an element and the element whose mesh is stored for it.    *)
(***************************************************************************)
EXTENDS WorkSharing, SequencesExt

CONSTANTS
    SpatialOrders,       \* of each model, its elements along the Morton curve
    MostTriangles,       \* bound: triangles of one element's mesh
    TESSELLATION_BATCH,  \* elements meshed in one batch (1024 in the code)
    CHUNK_FLUSH_BATCH,   \* chunks deflated together (8)
    Budget,              \* chunk_triangle_budget: a chunk is closed at it
    PropertyBlock        \* property_block: elements in one block

ASSUME PackAssumption ==
    /\ \A s \in SpatialOrders :
         s \in Seq(Item) /\ IsInjective(s) /\ Range(s) = DOMAIN s
    /\ MostTriangles \in Nat
    /\ {TESSELLATION_BATCH, CHUNK_FLUSH_BATCH, Budget, PropertyBlock}
         \subseteq Nat \ {0}

VARIABLES
    along,     \* the model's elements along the curve
    mesh,      \* the triangles of each element, Absent or Hollow
    broken,    \* the elements whose meshing panics
    stage,     \* where write_scene is
    next,      \* how many elements have been batched
    meshes,    \* the meshes of the batch that are still to be pushed
    stored,    \* deflated chunks or blocks that are still to be written
    chunk,     \* what is in the chunk being filled
    closed,    \* chunks that are full and not written yet
    final,     \* whether the last chunk has been closed
    file,      \* what was written, section by section
    manifest   \* manifest::Builder: where chunks, blocks and bounds are

inputVars == <<along, mesh, broken>>
chunkVars == <<next, meshes, stored, chunk, closed, final>>
vars == <<sharingVars, inputVars, stage, chunkVars, file, manifest>>

Elements == DOMAIN along
Absent == -2   \* no geometry: not in the spatial order
Hollow == -1   \* geometry that meshes to nothing

\* Of a sequence, up to each of its places, the elements of another kind.
Without(kind, s) ==
    LET kept[i \in 0..Len(s)] == IF i = 0 THEN <<>>
                                 ELSE IF mesh[s[i]] = kind THEN kept[i - 1]
                                 ELSE Append(kept[i - 1], s[i])
    IN  kept

spatial_order == Without(Absent, along)[Len(along)]

triangle_count(c) ==
    LET sum[i \in 0..Len(c)] == IF i = 0 THEN 0 ELSE sum[i - 1] + mesh[c[i][2]]
    IN  sum[Len(c)]

Heading    == [is |-> "heading"]
Chunk(c)   == [is |-> "chunk", holds |-> c]
Block(b)   == [is |-> "block", holds |-> b]
Bounds     == [is |-> "bounds"]
Manifest   == [is |-> "manifest"]
Trailer(m) == [is |-> "trailer", holds |-> m]
Torn       == [is |-> "torn"]

Init ==
    /\ SharingInit
    /\ along \in SpatialOrders
    /\ mesh \in [Elements -> Absent..MostTriangles]
    /\ broken \in {{}} \union {{e} : e \in {x \in Elements : mesh[x] # Absent}}
    /\ stage = "opening"
    /\ next = 0 /\ meshes = <<>> /\ stored = <<>>
    /\ chunk = <<>> /\ closed = <<>> /\ final = FALSE
    /\ file = <<>>
    /\ manifest = [chunks |-> <<>>, blocks |-> <<>>, bounds |-> 0, marks |-> {}]

At == Len(file)

\* A write goes through, or fails part of the way, which ends the packing.
Writes(section) == file' = Append(file, section)
WriteFails ==
    /\ stage \in {"opening", "writing", "bounds", "blocks", "manifest", "trailer"}
    /\ file' \in {file, Append(file, Torn)}
    /\ stage' = "failed"
    /\ UNCHANGED <<sharingVars, inputVars, chunkVars, manifest>>

Open ==
    /\ stage = "opening"
    /\ Writes(Heading)
    /\ stage' = "batching"
    /\ UNCHANGED <<sharingVars, inputVars, chunkVars, manifest>>

-----------------------------------------------------------------------------
(* Batches of meshes, pushed into chunks.                                  *)

Batch == SubSeq(spatial_order, next + 1,
                Smaller(next + TESSELLATION_BATCH, Len(spatial_order)))

Tessellate ==
    /\ stage = "batching"
    /\ next < Len(spatial_order)
    /\ MapInOrder(Batch, broken)
    /\ next' = next + Len(Batch)
    /\ stage' = "meshing"
    /\ UNCHANGED <<inputVars, meshes, stored, chunk, closed, final, file, manifest>>

HaveMeshes ==
    /\ stage = "meshing"
    /\ TakeResults
    /\ meshes' = joined
    /\ stage' = "pushing"
    /\ UNCHANGED <<inputVars, next, stored, chunk, closed, final, file, manifest>>

\* The element that the next mesh of the batch belongs to.
Zipped == spatial_order[next - Len(meshes) + 1]
Pushed == Append(chunk, <<Zipped, meshes[1]>>)

OverBudget(c) == triangle_count(c) > Budget                        \* mutant
Full(c) == triangle_count(c) >= Budget

Enough == Len(closed') >= CHUNK_FLUSH_BATCH

PushNothing ==
    /\ stage = "pushing"
    /\ meshes # <<>>
    /\ mesh[meshes[1]] = Hollow
    /\ meshes' = Tail(meshes)
    /\ UNCHANGED <<sharingVars, inputVars, stage, next, stored, chunk, closed,
                   final, file, manifest>>

Push ==
    /\ stage = "pushing"
    /\ meshes # <<>>
    /\ mesh[meshes[1]] # Hollow
    /\ meshes' = Tail(meshes)
    /\ manifest' = [manifest EXCEPT !.marks = @ \union {Zipped}]
    /\ IF Full(Pushed)
       THEN closed' = Append(closed, Pushed) /\ chunk' = <<>>
       ELSE chunk' = Pushed /\ UNCHANGED closed
    /\ stage' = IF Full(Pushed) /\ Enough THEN "flushing" ELSE "pushing"
    /\ UNCHANGED <<sharingVars, inputVars, next, stored, final, file>>

BatchDone ==
    /\ stage = "pushing"
    /\ meshes = <<>>
    /\ stage' = "batching"
    /\ UNCHANGED <<sharingVars, inputVars, chunkVars, file, manifest>>

WithoutLast == closed                                              \* mutant
WithLast == IF chunk = <<>> THEN closed ELSE Append(closed, chunk)

CloseLast ==
    /\ stage = "batching"
    /\ next = Len(spatial_order)
    /\ closed' = WithLast
    /\ chunk' = <<>>
    /\ final' = TRUE
    /\ stage' = IF closed' = <<>> THEN "bounds" ELSE "flushing"
    /\ UNCHANGED <<sharingVars, inputVars, next, meshes, stored, file, manifest>>

-----------------------------------------------------------------------------
(* Chunks, deflated together and written in the order they closed.  There  *)
(* may still be meshes of the batch to push afterwards.                    *)

DeflateChunks ==
    /\ stage = "flushing"
    /\ MapInOrder([i \in DOMAIN closed |-> i], {})
    /\ stage' = "deflating"
    /\ UNCHANGED <<inputVars, chunkVars, file, manifest>>

HaveChunks ==
    /\ stage = "deflating"
    /\ TakeResults
    /\ stored' = joined
    /\ stage' = "writing"
    /\ UNCHANGED <<inputVars, next, meshes, chunk, closed, final, file, manifest>>

Span == At

\* The chunk zipped with the next deflated one, which push_chunk notes.
Noted == closed[Len(closed) - Len(stored) + 1]

WriteChunk ==
    /\ stage = "writing"
    /\ stored # <<>>
    /\ Writes(Chunk(closed[stored[1]]))
    /\ manifest' = [manifest EXCEPT
         !.chunks = Append(@, [at |-> Span, holds |-> Noted])]
    /\ stored' = Tail(stored)
    /\ UNCHANGED <<sharingVars, inputVars, stage, next, meshes, chunk, closed, final>>

Cleared == <<>>

Flushed ==
    /\ stage = "writing"
    /\ stored = <<>>
    /\ closed' = Cleared
    /\ stage' = IF final THEN "bounds" ELSE "pushing"
    /\ UNCHANGED <<sharingVars, inputVars, next, meshes, stored, chunk, final,
                   file, manifest>>

-----------------------------------------------------------------------------
(* Bounds, properties, manifest and trailer.                               *)

WriteBounds ==
    /\ stage = "bounds"
    /\ manifest' = [manifest EXCEPT !.bounds = Span]
    /\ Writes(Bounds)
    /\ stage' = "properties"
    /\ UNCHANGED <<sharingVars, inputVars, chunkVars>>

\* The elements of the model a block of properties is about.
BlockOf(b) == ((b - 1) * PropertyBlock + 1)
                .. Smaller(b * PropertyBlock, Len(along))

DeflateBlocks ==
    /\ stage = "properties"
    /\ MapInOrder([b \in 1..DivCeil(Len(along), PropertyBlock) |-> b], {})
    /\ stage' = "packing"
    /\ UNCHANGED <<inputVars, chunkVars, file, manifest>>

HaveBlocks ==
    /\ stage = "packing"
    /\ TakeResults
    /\ stored' = joined
    /\ stage' = "blocks"
    /\ UNCHANGED <<inputVars, next, meshes, chunk, closed, final, file, manifest>>

WriteBlock ==
    /\ stage = "blocks"
    /\ stored # <<>>
    /\ Writes(Block(BlockOf(stored[1])))
    /\ manifest' = [manifest EXCEPT !.blocks = Append(@, Span)]
    /\ stored' = Tail(stored)
    /\ UNCHANGED <<sharingVars, inputVars, stage, next, meshes, chunk, closed, final>>

WriteManifest ==
    /\ stage = "blocks"
    /\ stored = <<>>
    /\ Writes(Manifest)
    /\ stage' = "trailer"
    /\ UNCHANGED <<sharingVars, inputVars, chunkVars, manifest>>

\* The trailer is told where the manifest was written before it.
WriteTrailer ==
    /\ stage = "trailer"
    /\ Writes(Trailer(At - 1))
    /\ stage' = "done"
    /\ UNCHANGED <<sharingVars, inputVars, chunkVars, manifest>>

\* A thread that meshes, deflates, or waits for those that do.
Share == Sharing /\ UNCHANGED <<inputVars, stage, chunkVars, file, manifest>>

Pack ==
    \/ Open \/ Tessellate \/ HaveMeshes \/ PushNothing \/ Push \/ BatchDone
    \/ CloseLast \/ DeflateChunks \/ HaveChunks \/ WriteChunk \/ Flushed
    \/ WriteBounds \/ DeflateBlocks \/ HaveBlocks \/ WriteBlock
    \/ WriteManifest \/ WriteTrailer

Next == Pack \/ Share \/ WriteFails

Spec == Init /\ [][Next]_vars

\* The threads of the operating system are scheduled, the calling one too.
FairSpec ==
    /\ Spec
    /\ WF_vars(Pack)
    /\ WF_vars((NothingToMap \/ Join \/ Unwind) /\ Share)
    /\ \A w \in Item : WF_vars(Map(w) /\ Share)

-----------------------------------------------------------------------------
(* What must hold.                                                         *)

HasTrailer == file # <<>> /\ file[Len(file)].is = "trailer"
Read(span) == file[span + 1]

\* What the elements that mesh to something become, in a scene.
Drawn == LET drawn == Without(Hollow, spatial_order)[Len(spatial_order)]
         IN  [i \in DOMAIN drawn |-> <<drawn[i], drawn[i]>>]

\* A file with a trailer is a whole scene, and the same one whatever threads
\* there were: from the trailer one gets to the manifest, and from that to
\* every element that draws something, once, in spatial order, with its own
\* mesh, to the bounds, and to every element's properties.  A file that broke
\* off, whichever write or thread failed, has none.
TrailerMeansWhole == HasTrailer =>
    /\ Read(file[Len(file)].holds) = Manifest
    /\ FlattenSeq([i \in DOMAIN manifest.chunks |->
                     Read(manifest.chunks[i].at).holds]) = Drawn
    /\ manifest.marks = {Drawn[i][1] : i \in DOMAIN Drawn}
    /\ Read(manifest.bounds) = Bounds
    /\ \A e \in Elements : \E b \in DOMAIN manifest.blocks :
         /\ (b - 1) * PropertyBlock < e /\ e <= b * PropertyBlock
         /\ e \in Read(manifest.blocks[b]).holds

\* A chunk is closed by the element that fills its budget and by no later
\* one, and only the last chunk of a scene is closed before that.
ChunksKeepTheirBudget ==
    LET all == [i \in DOMAIN manifest.chunks |-> manifest.chunks[i].holds] \o closed
    IN  \A i \in DOMAIN all :
          /\ triangle_count(Front(all[i])) < Budget
          /\ \/ triangle_count(all[i]) >= Budget
             \/ final /\ all[i] = Last(all)

\* Packing comes to an end, by a scene, an error or a panic.
PackingEnds == <>(stage \in {"done", "failed"} \/ call = "panicked")
=============================================================================
