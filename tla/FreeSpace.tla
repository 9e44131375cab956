------------------------------ MODULE FreeSpace ------------------------------
(***************************************************************************)
(* free_space_ranges of both parsers (restora-domain/src/fat32/            *)
(* fat32_parser.rs 160-191 and ntfs/ntfs_parser.rs 274-304): one loop over *)
(* the clusters, which reads each cluster's entry in the allocation table  *)
(* (a FAT entry, or a bit of $Bitmap) and coalesces consecutive free       *)
(* clusters into byte ranges.                                              *)
(*                                                                         *)
(* FirstCluster is 2 for FAT32, whose data area starts at DataStart, and 0 *)
(* for NTFS, where DataStart is 0.                                         *)
(***************************************************************************)
EXTENDS Integers, Sequences

CONSTANTS FirstCluster,    \* the number of the first cluster
          TotalClusters,   \* total_clusters, the exclusive end of the loop
          ClusterSize,     \* bytes
          DataStart,       \* where the first cluster stands
          TableEnd         \* clusters from here on have no entry of their own

ASSUME GeometryAssumption ==
    /\ FirstCluster \in Nat
    /\ TotalClusters \in Nat /\ FirstCluster <= TotalClusters
    /\ ClusterSize \in Nat \ {0}
    /\ DataStart \in Nat
    /\ TableEnd \in Nat

VARIABLES live,         \* the clusters some file, directory or table uses
          unreadable,   \* the clusters whose entry cannot be read
          cluster,      \* the loop variable
          runStart,     \* run_start
          ranges        \* the ranges pushed so far, exclusive ends

loopVars == <<cluster, runStart, ranges>>
freeSpaceVars == <<live, unreadable, loopVars>>

Clusters == FirstCluster .. TotalClusters - 1

NoRun == -1             \* None

\* cluster_offset of either boot sector.
ClusterOffset(c) == DataStart + (c - FirstCluster) * ClusterSize

ClusterBytes(c) == ClusterOffset(c) .. ClusterOffset(c) + ClusterSize - 1

\* What the loop takes for free.  An entry that cannot be read counts as
\* allocated (unwrap_or(u32::MAX), unwrap_or(true)); a bit past the end of
\* $Bitmap reads as 0, which is free (is_allocated's unwrap_or(&0), and the
\* zeros RunListFile::read_at pads with).
ReadsFree(c) == /\ c \notin unreadable
                /\ c < TableEnd => c \notin live

LoopInit == cluster = FirstCluster /\ runStart = NoRun /\ ranges = <<>>

\* Slip: a run is closed with its last cluster inclusive.
CloseRunInclusive(end) ==
    /\ ranges' = Append(ranges, <<ClusterOffset(runStart), ClusterOffset(end + 1)>>)
    /\ runStart' = NoRun

\* Slip: run_start is not taken, only read.
CloseRunAndKeep(end) ==
    /\ ranges' = Append(ranges, <<ClusterOffset(runStart), ClusterOffset(end)>>)
    /\ UNCHANGED runStart

CloseRun(end) ==
    /\ ranges' = Append(ranges, <<ClusterOffset(runStart), ClusterOffset(end)>>)
    /\ runStart' = NoRun

\* One turn of the loop: the three arms of its match.
OpensRun == /\ ReadsFree(cluster) /\ runStart = NoRun
            /\ runStart' = cluster
            /\ UNCHANGED ranges

ClosesRun == /\ ~ ReadsFree(cluster) /\ runStart # NoRun
             /\ CloseRun(cluster)

StaysInRun == /\ ReadsFree(cluster) <=> runStart # NoRun
              /\ UNCHANGED <<runStart, ranges>>

ExamineCluster ==
    /\ cluster < TotalClusters
    /\ cluster' = cluster + 1
    /\ OpensRun \/ ClosesRun \/ StaysInRun
    /\ UNCHANGED <<live, unreadable>>

\* Slip: a run that reaches the end of the volume is not pushed.
DropLastRun ==
    /\ cluster = TotalClusters /\ runStart # NoRun
    /\ runStart' = NoRun
    /\ UNCHANGED <<live, unreadable, cluster, ranges>>

\* After the loop: a run that reaches the end of the volume is pushed too.
CloseLastRun ==
    /\ cluster = TotalClusters /\ runStart # NoRun
    /\ CloseRun(TotalClusters)
    /\ UNCHANGED <<live, unreadable, cluster>>

RangesDone == cluster = TotalClusters /\ runStart = NoRun

FreeSpaceInit == /\ live \in SUBSET Clusters
                 /\ unreadable \in SUBSET Clusters
                 /\ LoopInit

FreeSpaceNext == ExamineCluster \/ CloseLastRun

FreeSpaceSpec == /\ FreeSpaceInit
                 /\ [][FreeSpaceNext]_freeSpaceVars
                 /\ WF_freeSpaceVars(FreeSpaceNext)

-----------------------------------------------------------------------------
FreeSpaceTypeOK ==
    /\ live \in SUBSET Clusters
    /\ unreadable \in SUBSET Clusters
    /\ cluster \in FirstCluster .. TotalClusters
    /\ runStart \in Clusters \union {NoRun}
    /\ ranges \in Seq(Nat \X Nat)

RangeBytes(r) == r[1] .. r[2] - 1

\* The bytes the ranges pushed so far cover.
Covered == UNION {RangeBytes(ranges[i]) : i \in 1 .. Len(ranges)}

\* The clusters that the pushed ranges must account for.
Frontier == IF runStart = NoRun THEN cluster ELSE runStart

\* The ranges are exactly the bytes of the clusters that read as free: no
\* free cluster is lost at a change of run or at the end of the volume, and
\* none that is not free slips in.
RangesExact ==
    Covered = UNION {ClusterBytes(c) : c \in {d \in Clusters : d < Frontier /\ ReadsFree(d)}}

\* Ranges are not empty, ascend, and never touch (two adjacent free clusters
\* are always in one range), so no byte is wiped, counted or verified twice.
RangesApart ==
    /\ \A i \in 1 .. Len(ranges) : ranges[i][1] < ranges[i][2]
    /\ \A i \in 1 .. Len(ranges) - 1 : ranges[i][2] < ranges[i + 1][1]
    /\ \A i \in 1 .. Len(ranges) : ranges[i][2] <= ClusterOffset(Frontier)
=============================================================================
