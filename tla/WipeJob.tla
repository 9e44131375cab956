------------------------------- MODULE WipeJob -------------------------------
(***************************************************************************)
(* wipe_free_space (restora-application/src/wipe_job.rs): find the free    *)
(* ranges, overwrite every range with every pass of the pattern in chunks, *)
(* optionally carve the wiped ranges to verify.  The steps are those of    *)
(* one thread, and between any two of them                                 *)
(*   - the process may die, and the user may run the wipe again,           *)
(*   - a write may fail, after part of its chunk has reached the image,    *)
(*   - another program that has the image open may allocate a cluster and  *)
(*     write its data there: nothing locks the image.                      *)
(*                                                                         *)
(* The content of a byte is abstracted to what was written there last:     *)
(* 0 for data of the file system, p for pass p of the pattern.             *)
(***************************************************************************)
EXTENDS FreeSpace, FiniteSets

CONSTANTS Passes,           \* WipePattern::passes, over "Zero", "One", "Random"
          WipeChunkSize,    \* WIPE_CHUNK_SIZE
          ImageSizes,       \* sizes the image file may have: a truncated one is
                            \* shorter than the volume its boot sector describes
          MaxRuns,          \* bound: how often the job is run
          MaxAllocations    \* bound: clusters another program allocates

ASSUME WipeAssumption ==
    /\ Passes \in Seq({"Zero", "One", "Random"}) /\ Passes # <<>>
    /\ WipeChunkSize \in Nat \ {0}
    /\ ImageSizes \subseteq Nat
    /\ MaxRuns \in Nat /\ MaxAllocations \in Nat

VARIABLES imageSize,
          layer,          \* byte of the volume -> the last pass written there, or 0
          pc,             \* where the job is, or how it ended
          assumeSsd, verify,     \* its arguments
          rangeIndex, pass,      \* the loops over ranges and passes
          offset,         \* the loop over chunks
          bytesWritten,
          found,          \* carved_files_found_after_wipe, or NotVerified
          runs, allocations,
          liveAtOpen      \* history: the clusters live when the job opened the image

loopPosition == <<rangeIndex, pass, offset>>
jobVars == <<imageSize, layer, pc, assumeSsd, verify, loopPosition, bytesWritten, found, runs>>
vars == <<freeSpaceVars, jobVars, allocations, liveAtOpen>>

VolumeBytes == 0 .. ClusterOffset(TotalClusters) - 1
NotVerified == -1
Ended == {"refused", "failed", "crashed", "done"}

Init == /\ FreeSpaceInit
        /\ imageSize \in ImageSizes
        /\ layer = [b \in VolumeBytes |-> 0]
        /\ pc = "start"
        /\ assumeSsd \in BOOLEAN /\ verify \in BOOLEAN
        /\ rangeIndex = 1 /\ pass = 1 /\ offset = 0
        /\ bytesWritten = 0
        /\ found = NotVerified
        /\ runs = 1 /\ allocations = 0
        /\ liveAtOpen = {}

\* An SSD is refused before anything is opened.
Refuse == /\ pc = "start" /\ assumeSsd
          /\ pc' = "refused"
          /\ UNCHANGED <<freeSpaceVars, imageSize, layer, assumeSsd, verify, loopPosition,
                         bytesWritten, found, runs, allocations, liveAtOpen>>

\* The image cannot be opened read-write, or holds no known file system.
OpenFails == /\ pc = "start" /\ ~ assumeSsd
             /\ pc' = "failed"
             /\ UNCHANGED <<freeSpaceVars, imageSize, layer, assumeSsd, verify, loopPosition,
                            bytesWritten, found, runs, allocations, liveAtOpen>>

Open == /\ pc = "start" /\ ~ assumeSsd
        /\ pc' = "ranging"
        /\ cluster' = FirstCluster /\ runStart' = NoRun /\ ranges' = <<>>
        /\ liveAtOpen' = live
        /\ UNCHANGED <<live, unreadable, imageSize, layer, assumeSsd, verify, loopPosition,
                       bytesWritten, found, runs, allocations>>

\* One step of free_space_ranges.
FindRanges == /\ pc = "ranging"
              /\ FreeSpaceNext
              /\ UNCHANGED <<jobVars, allocations, liveAtOpen>>

\* The ranges are known and will not be looked up again.
StartWriting ==
    /\ pc = "ranging" /\ RangesDone
    /\ pc' = "writing"
    /\ rangeIndex' = 1 /\ pass' = 1
    /\ offset' = IF ranges = <<>> THEN 0 ELSE ranges[1][1]
    /\ UNCHANGED <<freeSpaceVars, imageSize, layer, assumeSsd, verify, bytesWritten, found, runs,
                   allocations, liveAtOpen>>

Writing == pc = "writing" /\ rangeIndex <= Len(ranges)
RangeStart == ranges[rangeIndex][1]
RangeEnd == ranges[rangeIndex][2]
ChunkEnd == IF offset + WipeChunkSize <= RangeEnd THEN offset + WipeChunkSize ELSE RangeEnd

\* The image with this pass written from offset up to end.
Overwrite(end) ==
    layer' = [b \in VolumeBytes |-> IF offset <= b /\ b < end THEN pass ELSE layer[b]]

\* Slip: the offset is not moved past the chunk.
NextChunkInPlace == /\ ChunkEnd < RangeEnd
                    /\ UNCHANGED <<offset, rangeIndex, pass, bytesWritten>>

\* Slip: the next pass goes on where this one ended.
NextPassFromEnd == /\ ChunkEnd = RangeEnd /\ pass < Len(Passes)
                   /\ pass' = pass + 1 /\ offset' = ChunkEnd
                   /\ UNCHANGED <<rangeIndex, bytesWritten>>

\* Slip: bytes are counted once per pass.
NextPassCounted == /\ ChunkEnd = RangeEnd /\ pass < Len(Passes)
                   /\ pass' = pass + 1 /\ offset' = RangeStart
                   /\ bytesWritten' = bytesWritten + (RangeEnd - RangeStart)
                   /\ UNCHANGED rangeIndex

\* Slip: one pass too many.
NextPassTooMany == /\ ChunkEnd = RangeEnd /\ pass <= Len(Passes)
                   /\ pass' = pass + 1 /\ offset' = RangeStart
                   /\ UNCHANGED <<rangeIndex, bytesWritten>>

\* Slip: the next range starts with the pass the last one ended with.
NextRangeSamePass ==
    /\ ChunkEnd = RangeEnd /\ pass = Len(Passes)
    /\ rangeIndex' = rangeIndex + 1
    /\ offset' = IF rangeIndex < Len(ranges) THEN ranges[rangeIndex + 1][1] ELSE 0
    /\ bytesWritten' = bytesWritten + (RangeEnd - RangeStart)
    /\ UNCHANGED pass

\* After a chunk: the next chunk, the next pass over this range from its
\* start, or the next range, whose length is counted once for all passes.
NextChunk == /\ ChunkEnd < RangeEnd
             /\ offset' = ChunkEnd
             /\ UNCHANGED <<rangeIndex, pass, bytesWritten>>

NextPass == /\ ChunkEnd = RangeEnd /\ pass < Len(Passes)
            /\ pass' = pass + 1 /\ offset' = RangeStart
            /\ UNCHANGED <<rangeIndex, bytesWritten>>

NextRange == /\ ChunkEnd = RangeEnd /\ pass = Len(Passes)
             /\ rangeIndex' = rangeIndex + 1 /\ pass' = 1
             /\ offset' = IF rangeIndex < Len(ranges) THEN ranges[rangeIndex + 1][1] ELSE 0
             /\ bytesWritten' = bytesWritten + (RangeEnd - RangeStart)

WriteChunk ==
    /\ Writing /\ ChunkEnd <= imageSize
    /\ Overwrite(ChunkEnd)
    /\ NextChunk \/ NextPass \/ NextRange
    /\ UNCHANGED <<freeSpaceVars, imageSize, pc, assumeSsd, verify, found, runs, allocations, liveAtOpen>>

\* write_at refuses a chunk that leaves the image, before it writes.
WriteOutOfBounds ==
    /\ Writing /\ ChunkEnd > imageSize
    /\ pc' = "failed"
    /\ UNCHANGED <<freeSpaceVars, imageSize, layer, assumeSsd, verify, loopPosition,
                   bytesWritten, found, runs, allocations, liveAtOpen>>

\* write_all fails, or the process dies in it, when part of the chunk (or
\* none) has reached the image.
WriteFails ==
    /\ Writing /\ ChunkEnd <= imageSize
    /\ \E end \in offset .. ChunkEnd - 1 : Overwrite(end)
    /\ pc' \in {"failed", "crashed"}
    /\ UNCHANGED <<freeSpaceVars, imageSize, assumeSsd, verify, loopPosition, bytesWritten, found,
                   runs, allocations, liveAtOpen>>

\* Verification carves the wiped ranges.  No signature starts with zeros or
\* with ones alone, but one may stand in data or in random bytes.
MayHoldHeader(b) == layer[b] = 0 \/ Passes[layer[b]] = "Random"

Finish ==
    /\ pc = "writing" /\ rangeIndex > Len(ranges)
    /\ pc' = "done"
    /\ IF verify
       THEN found' \in IF \E b \in Covered : MayHoldHeader(b) THEN {0, 1} ELSE {0}
       ELSE UNCHANGED found
    /\ UNCHANGED <<freeSpaceVars, imageSize, layer, assumeSsd, verify, loopPosition,
                   bytesWritten, runs, allocations, liveAtOpen>>

\* The verifying scan cannot read a range.
VerifyFails ==
    /\ pc = "writing" /\ rangeIndex > Len(ranges) /\ verify /\ ranges # <<>>
    /\ pc' = "failed"
    /\ UNCHANGED <<freeSpaceVars, imageSize, layer, assumeSsd, verify, loopPosition,
                   bytesWritten, found, runs, allocations, liveAtOpen>>

\* The process dies between two steps.
Crash == /\ pc \in {"ranging", "writing"}
         /\ pc' = "crashed"
         /\ UNCHANGED <<freeSpaceVars, imageSize, layer, assumeSsd, verify, loopPosition,
                        bytesWritten, found, runs, allocations, liveAtOpen>>

\* The user runs the job again: everything starts over but the image.
RunAgain == /\ pc \in Ended /\ runs < MaxRuns
            /\ pc' = "start" /\ runs' = runs + 1
            /\ assumeSsd' \in BOOLEAN /\ verify' \in BOOLEAN
            /\ rangeIndex' = 1 /\ pass' = 1 /\ offset' = 0
            /\ bytesWritten' = 0 /\ found' = NotVerified
            /\ UNCHANGED <<freeSpaceVars, imageSize, layer, allocations, liveAtOpen>>

\* Another program allocates a cluster and writes its data there: no step of
\* the job alone, but one of SharedImage.
Allocate == /\ allocations < MaxAllocations
            /\ \E c \in Clusters \ live :
                  /\ live' = live \union {c}
                  /\ layer' = [b \in VolumeBytes |-> IF b \in ClusterBytes(c) THEN 0 ELSE layer[b]]
            /\ allocations' = allocations + 1
            /\ UNCHANGED <<unreadable, loopVars, imageSize, pc, assumeSsd, verify, loopPosition,
                           bytesWritten, found, runs, liveAtOpen>>

JobStep == \/ Refuse \/ OpenFails \/ Open \/ FindRanges \/ StartWriting
           \/ WriteChunk \/ WriteOutOfBounds \/ WriteFails \/ Finish \/ VerifyFails

Next == JobStep \/ Crash \/ RunAgain

\* The job is one thread that nothing blocks; nothing makes a call fail, the
\* process die or the user try again.
Proceed == \/ Refuse \/ Open \/ FindRanges \/ StartWriting
           \/ WriteChunk \/ WriteOutOfBounds \/ Finish

Spec == Init /\ [][Next]_vars /\ WF_vars(Proceed)

-----------------------------------------------------------------------------
TypeOK ==
    /\ FreeSpaceTypeOK
    /\ imageSize \in ImageSizes
    /\ layer \in [VolumeBytes -> 0 .. Len(Passes)]
    /\ pc \in {"start", "ranging", "writing"} \union Ended
    /\ assumeSsd \in BOOLEAN /\ verify \in BOOLEAN
    /\ rangeIndex \in 1 .. Len(ranges) + 1
    /\ pass \in 1 .. Len(Passes)
    /\ offset \in Nat
    /\ bytesWritten \in Nat
    /\ found \in {NotVerified, 0, 1}
    /\ runs \in Nat /\ allocations \in Nat
    /\ liveAtOpen \in SUBSET Clusters

\* "Never touches allocated/live clusters" (wipe_job.rs 65-68): whatever
\* fails, dies or is run again, no byte of a live cluster is overwritten.
LiveUntouched ==
    \A c \in live : \A b \in ClusterBytes(c) : layer[b] = 0

\* A wipe that returns Ok has put the last pass on every byte of every
\* cluster that reads as free: no chunk, range or pass was skipped, also
\* after an earlier run that failed half way.
DoneMeansWiped ==
    pc = "done" =>
        \A c \in Clusters : ReadsFree(c) => \A b \in ClusterBytes(c) : layer[b] = Len(Passes)

\* The bytes_written it reports are those of the free clusters, once for
\* all passes.
BytesCounted ==
    pc = "done" =>
        bytesWritten = ClusterSize * Cardinality({c \in Clusters : ReadsFree(c)})

\* Verification after a pattern that does not end in random bytes finds
\* nothing ("Zero is the goal", wipe_job.rs 49-53), unless another program
\* has put its data in the ranges meanwhile.
VerifiedClean ==
    pc = "done" /\ verify /\ allocations = 0 /\ Passes[Len(Passes)] # "Random" => found = 0

\* Passes are laid in order: a byte gets pass 1, or the pass after the one
\* it carries, never a later pass over one that was left out.
PassesInOrder ==
    [][\A b \in VolumeBytes :
          layer'[b] \notin {0, layer[b]} => layer'[b] = 1 \/ layer'[b] = layer[b] + 1]_vars

\* A job that is not killed comes to an end.
JobEnds == [](pc = "start" => <>(pc \in Ended))
=============================================================================
