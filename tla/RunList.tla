------------------------------- MODULE RunList -------------------------------
(***************************************************************************)
(* How NTFS content is read back: parse_data_runs (ntfs/data_runs.rs)      *)
(* decodes an attribute's run list, and RunListFile::read_at               *)
(* (ntfs/run_list_file.rs) reads a range of the file it describes, run by  *)
(* run.  An encoded run has a length and a signed delta from the run       *)
(* before; one whose offset takes no bytes is sparse and has no delta.     *)
(*                                                                         *)
(* The byte of the source at offset a is a itself, so that a byte says     *)
(* where it was read; Zero is a zero that comes from no place.             *)
(***************************************************************************)
EXTENDS Integers, Sequences, FiniteSetsExt

CONSTANTS ClusterSize,     \* bytes per cluster
          SourceClusters,  \* clusters of the source; reading past them fails
          Lengths,         \* bound: lengths a run may have, in clusters
          Deltas,          \* bound: offsets a run may have
          MaxEncoded,      \* bound: runs in a list
          MaxAsked         \* bound: offset and length of a read, in bytes

ASSUME RunListAssumption ==
    /\ ClusterSize \in Nat \ {0}
    /\ SourceClusters \in Nat
    /\ Lengths \subseteq Nat /\ Deltas \subseteq Int
    /\ MaxEncoded \in Nat /\ MaxAsked \in Nat

Zero == -1

IsSparse(run) == "delta" \notin DOMAIN run
EncodedRuns == [length : Lengths, delta : Deltas] \union [length : Lengths]
Encodings == UNION {[1 .. n -> EncodedRuns] : n \in 0 .. MaxEncoded}

VARIABLES encoded,    \* the runs in the attribute
          cut,        \* does a header follow that claims more than remains?
          lcn,        \* current_lcn
          runs,       \* the decoded runs: <<start_lcn, length_clusters>>
          k,          \* the loop's next run, encoded or decoded
          offset, len,             \* the range asked of read_at
          runBase, logicalPos, remaining,  \* read_at's locals
          out,        \* the bytes read so far
          pc          \* "parse", "read", then "done" or "error"

list == <<encoded, cut>>
asked == <<offset, len>>
reading == <<runBase, logicalPos, remaining, out>>
vars == <<list, lcn, runs, k, asked, reading, pc>>

Init == /\ encoded \in Encodings /\ cut \in BOOLEAN
        /\ lcn = 0 /\ runs = <<>> /\ k = 1
        /\ offset = 0 /\ len = 0
        /\ runBase = 0 /\ logicalPos = 0 /\ remaining = 0 /\ out = <<>>
        /\ pc = "parse"

-----------------------------------------------------------------------------
(* parse_data_runs                                                         *)

DecodeRun ==
    /\ pc = "parse" /\ k <= Len(encoded) /\ ~IsSparse(encoded[k])
    /\ lcn' = lcn + encoded[k].delta
    /\ IF lcn' < 0
       THEN pc' = "error" /\ UNCHANGED <<runs, k>>
       ELSE /\ runs' = Append(runs, <<lcn', encoded[k].length>>)
            /\ k' = k + 1
            /\ UNCHANGED pc
    /\ UNCHANGED <<list, asked, reading>>

\* A sparse run has no place on disk and leaves nothing in the decoded list.
SkipSparse ==
    /\ pc = "parse" /\ k <= Len(encoded) /\ IsSparse(encoded[k])
    /\ k' = k + 1
    /\ UNCHANGED <<list, lcn, runs, asked, reading, pc>>

DecodeTruncated ==
    /\ pc = "parse" /\ k > Len(encoded) /\ cut
    /\ pc' = "error"
    /\ UNCHANGED <<list, lcn, runs, k, asked, reading>>

\* The list is decoded, and some range of the file is asked for.
StartRead ==
    /\ pc = "parse" /\ k > Len(encoded) /\ ~cut
    /\ offset' \in 0 .. MaxAsked /\ len' \in 0 .. MaxAsked
    /\ logicalPos' = offset' /\ remaining' = len'
    /\ k' = 1
    /\ pc' = "read"
    /\ UNCHANGED <<list, lcn, runs, runBase, out>>

-----------------------------------------------------------------------------
(* RunListFile::read_at                                                    *)

RunBytes(run) == run[2] * ClusterSize
RunEnd == runBase + RunBytes(runs[k])
Reading == pc = "read" /\ k <= Len(runs) /\ remaining > 0
Overlaps == logicalPos < RunEnd /\ logicalPos + remaining > runBase

\* Slip: every run is read from its start.
StartOfRun == 0

\* saturating_sub
StartInRun == IF logicalPos >= runBase THEN logicalPos - runBase ELSE 0
Take == IF remaining <= RunBytes(runs[k]) - StartInRun
        THEN remaining
        ELSE RunBytes(runs[k]) - StartInRun
DiskOffset == runs[k][1] * ClusterSize + StartInRun
InSource == DiskOffset + Take <= SourceClusters * ClusterSize

PassRun ==
    /\ Reading /\ ~Overlaps
    /\ runBase' = RunEnd
    /\ k' = k + 1
    /\ UNCHANGED <<list, lcn, runs, asked, logicalPos, remaining, out, pc>>

ReadRun ==
    /\ Reading /\ Overlaps /\ InSource
    /\ out' = out \o [j \in 1 .. Take |-> DiskOffset + j - 1]
    /\ logicalPos' = logicalPos + Take
    /\ remaining' = remaining - Take
    /\ runBase' = RunEnd
    /\ k' = k + 1
    /\ UNCHANGED <<list, lcn, runs, asked, pc>>

ReadFails ==
    /\ Reading /\ Overlaps /\ ~InSource
    /\ pc' = "error"
    /\ UNCHANGED <<list, lcn, runs, k, asked, reading>>

\* Out of runs, or of bytes to read: the rest is padded with zeros.
Pad ==
    /\ pc = "read" /\ (k > Len(runs) \/ remaining = 0)
    /\ out' = out \o [j \in 1 .. len - Len(out) |-> Zero]
    /\ pc' = "done"
    /\ UNCHANGED <<list, lcn, runs, k, asked, runBase, logicalPos, remaining>>

Ended == pc \in {"done", "error"} /\ UNCHANGED vars

Next == \/ DecodeRun \/ SkipSparse \/ DecodeTruncated \/ StartRead
        \/ PassRun \/ ReadRun \/ ReadFails \/ Pad \/ Ended

Spec == Init /\ [][Next]_vars

-----------------------------------------------------------------------------
(* What a run list means: the file's bytes, one after another.             *)

\* Clusters of the file before encoded run n + 1, and where on disk the last
\* run up to n that has a place there starts.
ClustersUpTo ==
    LET f[n \in 0 .. Len(encoded)] == IF n = 0 THEN 0 ELSE f[n - 1] + encoded[n].length
    IN  f
LcnOf ==
    LET f[n \in 0 .. Len(encoded)] ==
            IF n = 0 THEN 0
            ELSE f[n - 1] + (IF IsSparse(encoded[n]) THEN 0 ELSE encoded[n].delta)
    IN  f

\* The file's byte p: that of the run holding it, a zero in a hole and past
\* the end.
FileByte(p) ==
    IF p >= ClustersUpTo[Len(encoded)] * ClusterSize
    THEN Zero
    ELSE LET r == CHOOSE n \in 1 .. Len(encoded) :
                      /\ ClustersUpTo[n - 1] * ClusterSize <= p
                      /\ p < ClustersUpTo[n] * ClusterSize
         IN  IF IsSparse(encoded[r])
             THEN Zero
             ELSE LcnOf[r] * ClusterSize + p - ClustersUpTo[r - 1] * ClusterSize

NoHole == \A n \in DOMAIN encoded : ~IsSparse(encoded[n])

\* The bytes of the file before its first hole, all of them if it has none.
BytesBeforeHole ==
    LET holes == {n \in 1 .. Len(encoded) : IsSparse(encoded[n])}
        dense == {n \in 0 .. Len(encoded) : \A h \in holes : n < h}
    IN  ClusterSize * Max({ClustersUpTo[n] : n \in dense})

\* A read returns the range asked for of the file's content, every byte from
\* the run that holds it however many runs the range touches, up to the first
\* hole; and, when there is none, zeros past the end.
ReadsUpToHole ==
    pc = "done" =>
        /\ Len(out) = len
        /\ \A j \in 1 .. len :
              (offset + j - 1 < BytesBeforeHole \/ NoHole) =>
                  out[j] = FileByte(offset + j - 1)

\* A RunListFile is its runs "presented as one continuous logical byte
\* stream" (run_list_file.rs), in which a sparse run "represents a hole full
\* of implicit zeros" (data_runs.rs): a read returns that content, zeros in
\* the holes and what follows them in its place.
ReadsFileContent ==
    pc = "done" => out = [j \in 1 .. len |-> FileByte(offset + j - 1)]
=============================================================================
