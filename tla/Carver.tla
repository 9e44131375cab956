------------------------------- MODULE Carver -------------------------------
(***************************************************************************)
(* SignatureCarver::scan_with_progress (restora-domain/src/carving/        *)
(* carver.rs): the chunked scan.  A step is one turn of the loop: it reads *)
(* a chunk at pos, resolves every header match at an offset not seen       *)
(* before, tells on_progress how far the scan is, and stops, ends or moves *)
(* pos on by step.  on_progress is the caller's: it may ask to stop after  *)
(* any chunk.  Any read of the source may fail, which ends the scan with   *)
(* an error and drops what it found.                                       *)
(*                                                                         *)
(* The final sort by start offset gives the results their only order, and  *)
(* starts are distinct (UniqueStarts), so they are kept as a set.          *)
(***************************************************************************)
EXTENDS Signatures, FiniteSets

CONSTANT ChunkSizes    \* bound: what with_chunk_size is given, which takes any

ASSUME ChunkAssumption == ChunkSizes \subseteq Nat

VARIABLES chunkSize, \* SignatureCarver::chunk_size, fixed when it is made
          image,     \* the source; a scan does not write it
          lo, hi,    \* the range to scan, within the source
          pos,       \* where the next chunk starts
          seen,      \* seen_starts
          results,   \* the carved files so far
          scanned,   \* the last value given to on_progress
          pc         \* "running", then "complete", "stopped" or "error"

vars == <<chunkSize, image, lo, hi, pos, seen, results, scanned, pc>>

\* Slip: chunks that do not overlap.
StepWithoutOverlap == chunkSize

\* Do consecutive chunks share as many bytes as the longest header has?
Overlapping == chunkSize > Overlap

Step == IF Overlapping THEN chunkSize - Overlap ELSE chunkSize

ReadLen == IF chunkSize <= hi - pos THEN chunkSize ELSE hi - pos

Init == /\ chunkSize \in ChunkSizes
        /\ image \in Images
        /\ lo \in 0 .. Size
        /\ hi \in lo .. Size
        /\ pos = lo
        /\ seen = {}
        /\ results = {}
        /\ scanned = 0
        /\ pc = "running"

\* The loop is entered with nothing to read: an empty range or empty chunks.
NothingToRead ==
    /\ pc = "running"
    /\ pos >= hi \/ ReadLen = 0
    /\ pc' = "complete"
    /\ UNCHANGED <<chunkSize, image, lo, hi, pos, seen, results, scanned>>

\* Slip: only the offsets of the last chunk are remembered.
TakeMatchesForgetting ==
    LET new == {m \in HeadersWithin(image, pos, pos + ReadLen) : m[2] \notin seen}
    IN  /\ seen' = {m[2] : m \in new}
        /\ results' = results \union {ResolveExtent(image, m[1], m[2]) : m \in new}

\* The chunk's matches at new offsets, each resolved to an extent.
TakeMatches ==
    LET new == {m \in HeadersWithin(image, pos, pos + ReadLen) : m[2] \notin seen}
    IN  /\ seen' = seen \union {m[2] : m \in new}
        /\ results' = results \union {ResolveExtent(image, m[1], m[2]) : m \in new}

\* Slip: chunks no longer than the overlap do not move the scan on, and only
\* the end of the range is tested.
ScanChunkInPlace ==
    /\ pc = "running" /\ pos < hi /\ ReadLen > 0
    /\ TakeMatches
    /\ scanned' = pos + ReadLen - lo
    /\ IF pos + ReadLen >= hi
       THEN pc' = "complete" /\ UNCHANGED pos
       ELSE pos' = (IF Overlapping THEN pos + Step ELSE pos) /\ UNCHANGED pc
    /\ UNCHANGED <<chunkSize, image, lo, hi>>

\* One chunk, after which on_progress asks to go on.
ScanChunk ==
    /\ pc = "running" /\ pos < hi /\ ReadLen > 0
    /\ TakeMatches
    /\ scanned' = pos + ReadLen - lo
    /\ IF pos + Step <= pos \/ pos + ReadLen >= hi
       THEN pc' = "complete" /\ UNCHANGED pos
       ELSE pos' = pos + Step /\ UNCHANGED pc
    /\ UNCHANGED <<chunkSize, image, lo, hi>>

\* One chunk, after which on_progress asks to stop.
ScanChunkAndStop ==
    /\ pc = "running" /\ pos < hi /\ ReadLen > 0
    /\ TakeMatches
    /\ scanned' = pos + ReadLen - lo
    /\ pc' = "stopped"
    /\ UNCHANGED <<chunkSize, image, lo, hi, pos>>

\* Reading the chunk, or the window of one of its matches, fails.
ReadFails ==
    /\ pc = "running" /\ pos < hi /\ ReadLen > 0
    /\ pc' = "error"
    /\ results' = {}
    /\ UNCHANGED <<chunkSize, image, lo, hi, pos, seen, scanned>>

Ended == pc # "running" /\ UNCHANGED vars

Next == NothingToRead \/ ScanChunk \/ ScanChunkAndStop \/ ReadFails \/ Ended

\* The scan is one thread that nothing blocks, so it keeps scanning; nothing
\* makes a read fail or the caller stop it.
Spec == Init /\ [][Next]_vars /\ WF_vars(NothingToRead \/ ScanChunk)

-----------------------------------------------------------------------------
TypeOK ==
    /\ chunkSize \in ChunkSizes
    /\ image \in Images
    /\ lo \in 0 .. Size /\ hi \in lo .. Size
    /\ pos \in lo .. hi
    /\ seen \subseteq Offsets
    /\ results \subseteq [sig : Sigs, start : Offsets, end : 0 .. Size, confidence : {30, 85}]
    /\ scanned \in 0 .. (hi - lo)
    /\ pc \in {"running", "complete", "stopped", "error"}

\* The carver's documented guarantee (carver.rs 11-18): whatever the chunk
\* boundaries cut through, the files found are exactly those whose header
\* lies in the bytes scanned so far, no header missed and none invented.
\* Chunks no longer than the overlap, which with_chunk_size takes as well, may
\* cut a header and miss it; they invent none.
PrefixCarved ==
    pc # "error" => /\ results \subseteq CarvedWithin(image, lo, lo + scanned)
                    /\ Overlapping => results = CarvedWithin(image, lo, lo + scanned)

\* A scan that was not stopped has read the whole range, unless its chunks are
\* empty, and has carved all of it if they overlap.
CompleteScan ==
    pc = "complete" => /\ chunkSize > 0 => lo + scanned = hi
                       /\ Overlapping => results = CarvedWithin(image, lo, hi)

\* De-duplication: no offset is reported twice although the overlap is
\* scanned twice, and the reported starts are exactly the seen ones.
UniqueStarts ==
    /\ \A f, g \in results : f.start = g.start => f = g
    /\ pc # "error" => {f.start : f \in results} = seen

\* An extent never leaves the source, a carved file holds at least its own
\* header, and a confidence of 85 is given only to an extent that ends with
\* its footer and holds no earlier one.
ExtentsSound ==
    \A f \in results :
        /\ f.end <= Size
        /\ f.start + Len(Header[f.sig]) <= f.end
        /\ f.confidence = 85 =>
              LET last == f.end - Len(Footer[f.sig])
              IN  /\ Occurs(image, Footer[f.sig], last)
                  /\ \A e \in f.start .. last - 1 : ~ Occurs(image, Footer[f.sig], e)
        /\ f.confidence = 30 => FootersWithin(image, f.sig, f.start) = {}

\* A scan ends, with whatever chunk size: chunks no longer than the overlap
\* step by their whole length, and empty ones end the scan with nothing read,
\* so that the "shouldn't happen" of the loop's last break does not.
ScanEnds == <>(pc # "running")

\* Carving implements its abstract specification.
Abstract == INSTANCE CarveSpec WITH whole <- Overlapping, covered <- lo + scanned,
                                    report <- results, outcome <- pc
ImplementsCarveSpec == Abstract!Spec
=============================================================================
