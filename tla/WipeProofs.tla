------------------------------- MODULE WipeProofs -------------------------------
(***************************************************************************)
(* Proofs about the loop of free_space_ranges; that a wipe stays off live  *)
(* clusters; and what it has done when it returns Ok, alone on its image   *)
(* or with another wipe of the same image at work: for every volume,       *)
(* allocation table, pattern, chunk size and number of runs, crash and     *)
(* failing write.                                                          *)
(*                                                                         *)
(* Two jobs on one image are the same program on different variables.      *)
(* What is said of both is said once, of a job that is a record: its steps *)
(* are Steps, its invariant is JobOk, and what it has done to the image is *)
(* LaidBy, if nobody else writes, or Reached, if somebody does. FirstSteps *)
(* and OtherSteps show that the steps of either job are such steps.        *)
(***************************************************************************)
EXTENDS SharedImage, Induction

-----------------------------------------------------------------------------
(* The free ranges                                                         *)

\* The run being followed: its clusters read as free, and its bytes are
\* theirs.
RunFollowed ==
    runStart # NoRun =>
        /\ runStart < cluster
        /\ \A c \in runStart .. cluster - 1 : ReadsFree(c)
        /\ ClusterOffset(runStart) .. ClusterOffset(cluster) - 1
             = UNION {ClusterBytes(c) : c \in runStart .. cluster - 1}

\* While a run may still be pushed, every pushed range ends before the next
\* one can start.
GapBefore ==
    ~ RangesDone => \A i \in 1 .. Len(ranges) : ranges[i][2] < ClusterOffset(Frontier)

LoopInv == FreeSpaceTypeOK /\ RunFollowed /\ RangesExact /\ RangesApart /\ GapBefore

-----------------------------------------------------------------------------
\* Clusters lie one after the other: a later cluster starts where an earlier
\* one has ended, or after.
LEMMA ClustersApart ==
    ASSUME NEW c \in Nat, NEW d \in Nat, FirstCluster <= c, c < d
    PROVE  /\ ClusterOffset(c) \in Nat /\ ClusterOffset(d) \in Nat
           /\ ClusterOffset(c) + ClusterSize <= ClusterOffset(d)
<1>1. \A k \in Nat : k * ClusterSize \in Nat
  BY GeometryAssumption
<1>2. /\ c - FirstCluster \in Nat /\ d - FirstCluster \in Nat /\ d - c - 1 \in Nat
      /\ DataStart \in Nat /\ ClusterSize \in Nat
  BY GeometryAssumption
<1>3. (d - FirstCluster) * ClusterSize
        = (c - FirstCluster) * ClusterSize + ClusterSize + (d - c - 1) * ClusterSize
  BY GeometryAssumption
<1>4. /\ (c - FirstCluster) * ClusterSize \in Nat /\ (d - FirstCluster) * ClusterSize \in Nat
      /\ (d - c - 1) * ClusterSize \in Nat
  BY <1>1, <1>2
<1>. QED  BY <1>2, <1>3, <1>4 DEF ClusterOffset

\* The offset of a cluster is a natural number.
LEMMA OffsetType ==
    ASSUME NEW c \in Nat, FirstCluster <= c
    PROVE  ClusterOffset(c) \in Nat
BY ClustersApart, c + 1 \in Nat, c < c + 1

\* A cluster's bytes lie directly before the next cluster.
LEMMA NextCluster ==
    ASSUME NEW c \in Nat, FirstCluster <= c, NEW d \in Nat, d = c + 1
    PROVE  ClusterOffset(d) = ClusterOffset(c) + ClusterSize
<1>1. \A k \in Nat : k * ClusterSize \in Nat
  BY GeometryAssumption
<1>2. /\ c - FirstCluster \in Nat /\ d - FirstCluster \in Nat
      /\ ClusterSize \in Nat /\ DataStart \in Nat
  BY GeometryAssumption
<1>3. (d - FirstCluster) * ClusterSize = (c - FirstCluster) * ClusterSize + ClusterSize
  BY GeometryAssumption
<1>4. (c - FirstCluster) * ClusterSize \in Nat /\ (d - FirstCluster) * ClusterSize \in Nat
  BY <1>1, <1>2
<1>. QED  BY <1>2, <1>3, <1>4 DEF ClusterOffset

\* Pushing a range adds its bytes to the covered ones and keeps the rest.
LEMMA PushCovers ==
    ASSUME NEW rs \in Seq(Nat \X Nat), NEW r \in Nat \X Nat
    PROVE  UNION {RangeBytes(Append(rs, r)[i]) : i \in 1 .. Len(Append(rs, r))}
             = (UNION {RangeBytes(rs[i]) : i \in 1 .. Len(rs)}) \union RangeBytes(r)
<1>1. /\ Len(Append(rs, r)) = Len(rs) + 1 /\ Len(rs) \in Nat
      /\ \A i \in 1 .. Len(rs) : Append(rs, r)[i] = rs[i]
      /\ Append(rs, r)[Len(rs) + 1] = r
  OBVIOUS
<1>2. 1 .. Len(rs) + 1 = (1 .. Len(rs)) \union {Len(rs) + 1}
  BY <1>1
<1>. QED  BY <1>1, <1>2

\* Closing the run in progress keeps the ranges exact and apart.
LEMMA CloseRunKeeps ==
    ASSUME LoopInv, runStart # NoRun, CloseRun(cluster)
    PROVE  /\ ranges' \in Seq(Nat \X Nat) /\ runStart' = NoRun
           /\ Covered' = UNION {ClusterBytes(c) : c \in {d \in Clusters : d < cluster /\ ReadsFree(d)}}
           /\ \A i \in 1 .. Len(ranges') : ranges'[i][1] < ranges'[i][2]
           /\ \A i \in 1 .. Len(ranges') - 1 : ranges'[i][2] < ranges'[i + 1][1]
           /\ \A i \in 1 .. Len(ranges') : ranges'[i][2] <= ClusterOffset(cluster)
<1>. DEFINE r == <<ClusterOffset(runStart), ClusterOffset(cluster)>>
<1>1. /\ runStart \in Nat /\ cluster \in Nat /\ FirstCluster <= runStart /\ runStart < cluster
      /\ cluster <= TotalClusters /\ Frontier = runStart /\ ~ RangesDone
      /\ ranges \in Seq(Nat \X Nat)
  BY GeometryAssumption DEF LoopInv, FreeSpaceTypeOK, RunFollowed, Clusters, Frontier, RangesDone
<1>2. /\ ClusterOffset(runStart) \in Nat /\ ClusterOffset(cluster) \in Nat
      /\ ClusterOffset(runStart) < ClusterOffset(cluster)
  BY <1>1, ClustersApart, GeometryAssumption
<1>3. r \in Nat \X Nat /\ ranges' = Append(ranges, r) /\ runStart' = NoRun
  BY <1>2 DEF CloseRun
<1>4. Covered' = Covered \union RangeBytes(r)
  BY <1>1, <1>3, PushCovers DEF Covered
<1>5. RangeBytes(r) = UNION {ClusterBytes(c) : c \in runStart .. cluster - 1}
  BY <1>1 DEF RangeBytes, LoopInv, RunFollowed
<1>6. {d \in Clusters : d < cluster /\ ReadsFree(d)}
        = {d \in Clusters : d < Frontier /\ ReadsFree(d)} \union (runStart .. cluster - 1)
  <2>1. \A c \in runStart .. cluster - 1 : c \in Clusters /\ ReadsFree(c) /\ c < cluster
    BY <1>1, GeometryAssumption DEF LoopInv, RunFollowed, Clusters
  <2>2. \A d \in Clusters : d \in Int /\ (d < cluster <=> d < runStart \/ d \in runStart .. cluster - 1)
    BY <1>1, GeometryAssumption DEF Clusters
  <2>. QED  BY <1>1, <2>1, <2>2
<1>7. Covered' = UNION {ClusterBytes(c) : c \in {d \in Clusters : d < cluster /\ ReadsFree(d)}}
  <2>. DEFINE A == {d \in Clusters : d < Frontier /\ ReadsFree(d)}
              B == runStart .. cluster - 1
  <2>1. Covered = UNION {ClusterBytes(c) : c \in A}
    BY DEF LoopInv, RangesExact
  <2>. HIDE DEF A, B, r
  <2>2. Covered' = UNION {ClusterBytes(c) : c \in A \union B}
    BY <1>4, <1>5, <2>1 DEF B
  <2>. QED  BY <1>6, <2>2 DEF A, B
<1>8. /\ Len(ranges') = Len(ranges) + 1 /\ Len(ranges) \in Nat
      /\ \A i \in 1 .. Len(ranges) : ranges'[i] = ranges[i] /\ ranges[i] \in Nat \X Nat
      /\ ranges'[Len(ranges) + 1] = r
  BY <1>1, <1>3
<1>9. \A i \in 1 .. Len(ranges) : /\ ranges[i][1] < ranges[i][2]
                                  /\ ranges[i][2] < ClusterOffset(runStart)
                                  /\ ranges[i][1] \in Nat /\ ranges[i][2] \in Nat
  BY <1>1, <1>8 DEF LoopInv, RangesApart, GapBefore
<1>10. \A i \in 1 .. Len(ranges) - 1 : ranges[i][2] < ranges[i + 1][1]
  BY DEF LoopInv, RangesApart
<1>11. ASSUME NEW i \in 1 .. Len(ranges')
       PROVE  ranges'[i][1] < ranges'[i][2] /\ ranges'[i][2] <= ClusterOffset(cluster)
  <2>1. CASE i \in 1 .. Len(ranges)
    <3>1. /\ ranges'[i] = ranges[i] /\ ranges[i][1] < ranges[i][2]
          /\ ranges[i][2] < ClusterOffset(runStart) /\ ranges[i][2] \in Nat
      BY <1>8, <1>9, <2>1
    <3>. QED  BY <1>2, <3>1
  <2>2. CASE i = Len(ranges) + 1
    BY <1>2, <1>8, <2>2
  <2>. QED  BY <1>8, <2>1, <2>2
<1>12. ASSUME NEW i \in 1 .. Len(ranges') - 1
       PROVE  ranges'[i][2] < ranges'[i + 1][1]
  <2>1. i \in 1 .. Len(ranges) /\ ranges'[i] = ranges[i]
    BY <1>8
  <2>2. CASE i + 1 \in 1 .. Len(ranges)
    BY <1>8, <1>10, <2>1, <2>2
  <2>3. CASE i = Len(ranges)
    <3>1. ranges'[i + 1] = r /\ ranges[i][2] < ClusterOffset(runStart)
      BY <1>8, <1>9, <2>1, <2>3
    <3>. QED  BY <1>2, <2>1, <3>1
  <2>. QED  BY <1>8, <2>1, <2>2, <2>3
<1>. QED  BY <1>1, <1>3, <1>7, <1>11, <1>12

\* Before the loop nothing is covered.
LEMMA LoopInitInv == FreeSpaceInit => LoopInv
<1>. SUFFICES ASSUME FreeSpaceInit  PROVE LoopInv
  OBVIOUS
<1>1. FreeSpaceTypeOK
  BY GeometryAssumption DEF FreeSpaceInit, LoopInit, FreeSpaceTypeOK
<1>2. ranges = <<>> /\ Len(ranges) = 0 /\ runStart = NoRun /\ Frontier = FirstCluster
  BY DEF FreeSpaceInit, LoopInit, Frontier
<1>3. {d \in Clusters : d < Frontier /\ ReadsFree(d)} = {}
  BY <1>2, GeometryAssumption DEF Clusters
<1>4. RangesExact
  BY <1>2, <1>3 DEF RangesExact, Covered
<1>. QED  BY <1>1, <1>2, <1>4 DEF LoopInv, RunFollowed, RangesApart, GapBefore

\* Every turn of the loop, and the push after it, keep the invariant.
LEMMA LoopNextInv == LoopInv /\ [FreeSpaceNext]_freeSpaceVars => LoopInv'
<1>. SUFFICES ASSUME LoopInv, [FreeSpaceNext]_freeSpaceVars  PROVE LoopInv'
  OBVIOUS
<1>. USE GeometryAssumption
<1>0. /\ FreeSpaceTypeOK /\ RangesExact /\ RangesApart
      /\ cluster \in Nat /\ FirstCluster <= cluster /\ cluster <= TotalClusters
      /\ runStart # NoRun => runStart \in Nat /\ FirstCluster <= runStart /\ runStart < cluster
      /\ ranges \in Seq(Nat \X Nat) /\ Len(ranges) \in Nat
      /\ \A i \in 1 .. Len(ranges) : ranges[i][1] \in Nat /\ ranges[i][2] \in Nat
      /\ NoRun \notin Nat
  BY DEF LoopInv, FreeSpaceTypeOK, RunFollowed, Clusters, NoRun
<1>1. CASE ExamineCluster
  <2>0. /\ cluster < TotalClusters /\ cluster' = cluster + 1 /\ cluster \in Clusters
        /\ UNCHANGED <<live, unreadable>>
        /\ \A c : ReadsFree(c)' = ReadsFree(c)
    BY <1>0, <1>1 DEF ExamineCluster, ReadsFree, Clusters
  <2>1. ClusterOffset(cluster') = ClusterOffset(cluster) + ClusterSize
    BY <1>0, <2>0, NextCluster
  <2>2. /\ ClusterOffset(cluster) \in Nat /\ ClusterOffset(cluster') \in Nat
        /\ ClusterOffset(cluster) < ClusterOffset(cluster')
    BY <1>0, <2>0, <2>1, OffsetType
  <2>3. {d \in Clusters : d < cluster' /\ ReadsFree(d)}
          = IF ReadsFree(cluster)
            THEN {d \in Clusters : d < cluster /\ ReadsFree(d)} \union {cluster}
            ELSE {d \in Clusters : d < cluster /\ ReadsFree(d)}
    BY <1>0, <2>0 DEF Clusters
  <2>4. CASE OpensRun
    <3>1. runStart = NoRun /\ runStart' = cluster /\ ReadsFree(cluster) /\ ranges' = ranges
      BY <2>4 DEF OpensRun
    <3>2. Frontier = cluster /\ Frontier' = cluster
      BY <1>0, <3>1 DEF Frontier
    <3>3. FreeSpaceTypeOK'
      BY <1>0, <2>0, <3>1 DEF FreeSpaceTypeOK, Clusters
    <3>4. RunFollowed'
      <4>1. cluster .. cluster' - 1 = {cluster}
        BY <1>0, <2>0
      <4>2. ClusterOffset(cluster) .. ClusterOffset(cluster') - 1 = ClusterBytes(cluster)
        BY <2>1, <2>2 DEF ClusterBytes
      <4>3. \A c \in cluster .. cluster' - 1 : ReadsFree(c)'
        BY <2>0, <3>1, <4>1
      <4>4. ClusterOffset(cluster) .. ClusterOffset(cluster') - 1
              = UNION {ClusterBytes(c) : c \in cluster .. cluster' - 1}
        BY <4>1, <4>2
      <4>5. cluster < cluster'
        BY <1>0, <2>0
      <4>. QED  BY <3>1, <4>3, <4>4, <4>5 DEF RunFollowed
    <3>5. RangesExact'
      BY <1>0, <2>0, <3>1, <3>2 DEF RangesExact, Covered
    <3>6. RangesApart' /\ GapBefore'
      BY <1>0, <2>0, <3>1, <3>2 DEF RangesApart, LoopInv, GapBefore, RangesDone
    <3>. QED  BY <3>3, <3>4, <3>5, <3>6 DEF LoopInv
  <2>5. CASE ClosesRun
    <3>1. /\ runStart # NoRun /\ CloseRun(cluster) /\ ~ ReadsFree(cluster)
      BY <2>5 DEF ClosesRun
    <3>2. /\ ranges' \in Seq(Nat \X Nat) /\ runStart' = NoRun
          /\ Covered' = UNION {ClusterBytes(c) : c \in {d \in Clusters : d < cluster /\ ReadsFree(d)}}
          /\ \A i \in 1 .. Len(ranges') : ranges'[i][1] < ranges'[i][2]
          /\ \A i \in 1 .. Len(ranges') - 1 : ranges'[i][2] < ranges'[i + 1][1]
          /\ \A i \in 1 .. Len(ranges') : ranges'[i][2] <= ClusterOffset(cluster)
      BY <3>1, CloseRunKeeps
    <3>3. Frontier' = cluster'
      BY <3>2 DEF Frontier
    <3>4. FreeSpaceTypeOK' /\ RunFollowed'
      BY <1>0, <2>0, <3>2 DEF FreeSpaceTypeOK, RunFollowed
    <3>5. RangesExact'
      BY <2>0, <2>3, <3>1, <3>2, <3>3 DEF RangesExact
    <3>6. \A i \in 1 .. Len(ranges') : ranges'[i][2] < ClusterOffset(cluster')
      <4>1. \A i \in 1 .. Len(ranges') : ranges'[i][2] \in Nat
        BY <3>2
      <4>. QED  BY <2>2, <3>2, <4>1
    <3>7. \A i \in 1 .. Len(ranges') : ranges'[i][2] <= ClusterOffset(cluster')
      BY <2>2, <3>2, <3>6
    <3>. QED  BY <3>2, <3>3, <3>4, <3>5, <3>6, <3>7 DEF LoopInv, RangesApart, GapBefore
  <2>6. CASE StaysInRun
    <3>1. (ReadsFree(cluster) <=> runStart # NoRun) /\ UNCHANGED <<runStart, ranges>>
      BY <2>6 DEF StaysInRun
    <3>2. FreeSpaceTypeOK'
      BY <1>0, <2>0, <3>1 DEF FreeSpaceTypeOK
    <3>3. CASE runStart = NoRun
      <4>1. Frontier = cluster /\ Frontier' = cluster' /\ RunFollowed'
        BY <3>1, <3>3 DEF Frontier, RunFollowed
      <4>2. RangesExact'
        BY <1>0, <2>0, <2>3, <3>1, <3>3, <4>1 DEF RangesExact, Covered
      <4>3. ~ RangesDone
        BY <2>0, <1>0 DEF RangesDone
      <4>4. \A i \in 1 .. Len(ranges) : ranges[i][2] < ClusterOffset(cluster')
        BY <1>0, <2>2, <4>1, <4>3 DEF LoopInv, GapBefore
      <4>5. RangesApart' /\ GapBefore'
        BY <1>0, <2>2, <3>1, <4>1, <4>4 DEF RangesApart, GapBefore
      <4>. QED  BY <3>2, <4>1, <4>2, <4>5 DEF LoopInv
    <3>4. CASE runStart # NoRun
      <4>1. Frontier = runStart /\ Frontier' = runStart
        BY <3>1, <3>4 DEF Frontier
      <4>2. RangesExact'
        BY <1>0, <2>0, <3>1, <4>1 DEF RangesExact, Covered
      <4>3. ~ RangesDone
        BY <2>0, <1>0 DEF RangesDone
      <4>4. RangesApart' /\ GapBefore'
        BY <1>0, <3>1, <4>1, <4>3 DEF RangesApart, GapBefore, LoopInv
      <4>5. RunFollowed'
        <5>1. /\ runStart < cluster' /\ runStart .. cluster' - 1 = (runStart .. cluster - 1) \union {cluster}
          BY <1>0, <2>0, <3>4
        <5>2. \A c \in runStart .. cluster' - 1 : ReadsFree(c)'
          BY <2>0, <3>1, <3>4, <5>1 DEF LoopInv, RunFollowed
        <5>3. ClusterOffset(runStart) \in Nat /\ ClusterOffset(runStart) < ClusterOffset(cluster)
          BY <1>0, <3>4, ClustersApart
        <5>4. ClusterOffset(runStart) .. ClusterOffset(cluster') - 1
                = (ClusterOffset(runStart) .. ClusterOffset(cluster) - 1) \union ClusterBytes(cluster)
          BY <2>1, <2>2, <5>3 DEF ClusterBytes
        <5>5. ClusterOffset(runStart) .. ClusterOffset(cluster) - 1
                = UNION {ClusterBytes(c) : c \in runStart .. cluster - 1}
          BY <3>4 DEF LoopInv, RunFollowed
        <5>6. ClusterOffset(runStart) .. ClusterOffset(cluster') - 1
                = UNION {ClusterBytes(c) : c \in runStart .. cluster' - 1}
          BY <5>1, <5>4, <5>5
        <5>. QED  BY <3>1, <5>1, <5>2, <5>6 DEF RunFollowed
      <4>. QED  BY <3>2, <4>2, <4>4, <4>5 DEF LoopInv
    <3>. QED  BY <3>3, <3>4
  <2>. QED  BY <1>1, <2>4, <2>5, <2>6 DEF ExamineCluster
<1>2. CASE CloseLastRun
  <2>0. /\ cluster = TotalClusters /\ runStart # NoRun /\ CloseRun(cluster)
        /\ UNCHANGED <<live, unreadable, cluster>> /\ \A c : ReadsFree(c)' = ReadsFree(c)
    BY <1>2 DEF CloseLastRun, ReadsFree
  <2>1. /\ ranges' \in Seq(Nat \X Nat) /\ runStart' = NoRun
        /\ Covered' = UNION {ClusterBytes(c) : c \in {d \in Clusters : d < cluster /\ ReadsFree(d)}}
        /\ \A i \in 1 .. Len(ranges') : ranges'[i][1] < ranges'[i][2]
        /\ \A i \in 1 .. Len(ranges') - 1 : ranges'[i][2] < ranges'[i + 1][1]
        /\ \A i \in 1 .. Len(ranges') : ranges'[i][2] <= ClusterOffset(cluster)
    BY <2>0, CloseRunKeeps
  <2>2. Frontier' = cluster /\ RangesDone'
    BY <2>0, <2>1 DEF Frontier, RangesDone
  <2>3. FreeSpaceTypeOK' /\ RunFollowed'
    BY <1>0, <2>0, <2>1 DEF FreeSpaceTypeOK, RunFollowed
  <2>. QED  BY <2>0, <2>1, <2>2, <2>3 DEF LoopInv, RangesExact, RangesApart, GapBefore
<1>3. CASE UNCHANGED freeSpaceVars
  <2>1. /\ live' = live /\ unreadable' = unreadable /\ cluster' = cluster
        /\ runStart' = runStart /\ ranges' = ranges
    BY <1>3 DEF freeSpaceVars, loopVars
  <2>2. Frontier' = Frontier /\ RangesDone' = RangesDone /\ \A c : ReadsFree(c)' = ReadsFree(c)
    BY <2>1 DEF Frontier, RangesDone, ReadsFree
  <2>3. FreeSpaceTypeOK' /\ RunFollowed'
    BY <2>1, <2>2 DEF LoopInv, FreeSpaceTypeOK, RunFollowed
  <2>4. RangesExact'
    BY <1>0, <2>1, <2>2 DEF RangesExact, Covered
  <2>5. RangesApart' /\ GapBefore'
    BY <2>1, <2>2 DEF LoopInv, RangesApart, GapBefore
  <2>. QED  BY <2>3, <2>4, <2>5 DEF LoopInv
<1>. QED  BY <1>1, <1>2, <1>3 DEF FreeSpaceNext

-----------------------------------------------------------------------------
\* The loop keeps its invariant.
THEOREM LoopInvariant == FreeSpaceSpec => []LoopInv
BY LoopInitInv, LoopNextInv, PTL DEF FreeSpaceSpec

\* The ranges found so far are, byte for byte, the clusters before the
\* frontier whose entries read as free, for every volume and table.
THEOREM RangesAreExact == FreeSpaceSpec => []RangesExact
<1>1. LoopInv => RangesExact
  BY DEF LoopInv
<1>. QED  BY <1>1, LoopInvariant, PTL

\* Ranges are not empty, ascend and never touch.
THEOREM RangesAreApart == FreeSpaceSpec => []RangesApart
<1>1. LoopInv => RangesApart
  BY DEF LoopInv
<1>. QED  BY <1>1, LoopInvariant, PTL

-----------------------------------------------------------------------------
(* The wipe of the free ranges                                             *)

\* Every cluster has an entry of its own in the allocation table: the FAT or
\* $Bitmap covers the volume.
TableCovers == TotalClusters <= TableEnd

\* Ranges are not empty.
RangesProper == \A i \in 1 .. Len(ranges) : ranges[i][1] < ranges[i][2]

\* No range found in this run meets a cluster that was live at its start.
RangesAvoid ==
    \A i \in 1 .. Len(ranges) : \A c \in liveAtOpen :
        RangeBytes(ranges[i]) \cap ClusterBytes(c) = {}

\* Neither does the run of free clusters that is being followed.
RunAvoids ==
    pc = "ranging" /\ runStart # NoRun =>
        /\ runStart < cluster
        /\ \A c \in runStart .. cluster - 1 : c \notin liveAtOpen

\* Within a run of the job clusters only become live.
LiveGrows == pc \in {"ranging", "writing"} => liveAtOpen \subseteq live

\* The job is within the range it writes.
Position ==
    /\ pc \in {"start", "ranging"} => rangeIndex = 1
    /\ Writing => RangeStart <= offset /\ offset < RangeEnd

IInv == TypeOK /\ RangesProper /\ RangesAvoid /\ RunAvoids /\ LiveGrows /\ Position

-----------------------------------------------------------------------------
\* The bytes of a cluster are bytes of the volume.
LEMMA ClusterInVolume ==
    ASSUME NEW c \in Clusters
    PROVE  /\ ClusterOffset(c) \in Nat /\ ClusterBytes(c) \subseteq VolumeBytes
<1>1. c \in Nat /\ FirstCluster <= c /\ c < TotalClusters /\ TotalClusters \in Nat /\ ClusterSize \in Nat
  BY GeometryAssumption DEF Clusters
<1>. QED  BY <1>1, ClustersApart DEF ClusterBytes, VolumeBytes

\* A range of clusters that avoids a cluster avoids its bytes.
LEMMA RunBytesAvoid ==
    ASSUME NEW a \in Clusters, NEW b \in Nat, a < b, b <= TotalClusters,
           NEW c \in Clusters, c \notin a .. b - 1
    PROVE  (ClusterOffset(a) .. ClusterOffset(b) - 1) \cap ClusterBytes(c) = {}
<1>1. /\ a \in Nat /\ c \in Nat /\ FirstCluster <= a /\ FirstCluster <= c /\ FirstCluster <= b
      /\ ClusterSize \in Nat
  BY GeometryAssumption DEF Clusters
<1>2. /\ ClusterOffset(a) \in Nat /\ ClusterOffset(b) \in Nat /\ ClusterOffset(c) \in Nat
  BY <1>1, OffsetType
<1>3. c < a \/ b <= c
  BY <1>1
<1>4. CASE c < a
  <2>1. ClusterOffset(c) + ClusterSize <= ClusterOffset(a)
    BY <1>1, <1>4, ClustersApart
  <2>. QED  BY <1>1, <1>2, <2>1 DEF ClusterBytes
<1>5. CASE b <= c
  <2>1. ClusterOffset(b) <= ClusterOffset(c)
    <3>1. CASE b = c
      BY <1>2, <3>1
    <3>2. CASE b < c
      BY <1>1, <1>2, <3>2, ClustersApart
    <3>. QED  BY <1>1, <1>5, <3>1, <3>2
  <2>. QED  BY <1>1, <1>2, <2>1 DEF ClusterBytes
<1>. QED  BY <1>3, <1>4, <1>5

\* Pushing the run keeps the ranges typed, proper and off the clusters that
\* were live at the start.
LEMMA CloseRunAvoids ==
    ASSUME IInv, pc = "ranging", runStart # NoRun, CloseRun(cluster)
    PROVE  /\ ranges' \in Seq(Nat \X Nat) /\ Len(ranges') = Len(ranges) + 1
           /\ \A i \in 1 .. Len(ranges') : ranges'[i][1] < ranges'[i][2]
           /\ \A i \in 1 .. Len(ranges') : \A c \in liveAtOpen :
                  RangeBytes(ranges'[i]) \cap ClusterBytes(c) = {}
<1>. DEFINE r == <<ClusterOffset(runStart), ClusterOffset(cluster)>>
<1>1. /\ runStart \in Clusters /\ runStart \in Nat /\ FirstCluster <= runStart
      /\ cluster \in Nat /\ cluster <= TotalClusters /\ runStart < cluster
      /\ ranges \in Seq(Nat \X Nat) /\ liveAtOpen \subseteq Clusters
      /\ \A c \in runStart .. cluster - 1 : c \notin liveAtOpen
      /\ ClusterSize \in Nat \ {0}
  BY GeometryAssumption DEF IInv, TypeOK, FreeSpaceTypeOK, RunAvoids, Clusters
<1>2. /\ ClusterOffset(runStart) \in Nat /\ ClusterOffset(cluster) \in Nat
      /\ ClusterOffset(runStart) < ClusterOffset(cluster)
  BY <1>1, ClustersApart
<1>3. /\ ranges' = Append(ranges, r) /\ r \in Nat \X Nat
  BY <1>2 DEF CloseRun
<1>4. /\ Len(ranges') = Len(ranges) + 1 /\ Len(ranges) \in Nat /\ ranges' \in Seq(Nat \X Nat)
      /\ \A i \in 1 .. Len(ranges) : ranges'[i] = ranges[i]
      /\ ranges'[Len(ranges) + 1] = r
  BY <1>1, <1>3
<1>5. \A c \in liveAtOpen : RangeBytes(r) \cap ClusterBytes(c) = {}
  BY <1>1, RunBytesAvoid DEF RangeBytes
<1>6. r[1] < r[2]
  BY <1>2
<1>. HIDE DEF r
<1>7. \A i \in 1 .. Len(ranges') : i \in 1 .. Len(ranges) \/ i = Len(ranges) + 1
  BY <1>4
<1>8. \A i \in 1 .. Len(ranges') : ranges'[i][1] < ranges'[i][2]
  BY <1>4, <1>6, <1>7 DEF IInv, RangesProper
<1>9. \A i \in 1 .. Len(ranges') : \A c \in liveAtOpen : RangeBytes(ranges'[i]) \cap ClusterBytes(c) = {}
  BY <1>4, <1>5, <1>7 DEF IInv, RangesAvoid
<1>. QED  BY <1>4, <1>8, <1>9

\* The invariant holds initially.
LEMMA WipeInitInv == Init => IInv
<1>. SUFFICES ASSUME Init  PROVE IInv
  OBVIOUS
<1>1. FreeSpaceTypeOK
  BY LoopInitInv DEF Init, LoopInv
<1>2. ranges = <<>> /\ runStart = NoRun /\ cluster = FirstCluster /\ pc = "start"
  BY DEF Init, FreeSpaceInit, LoopInit
<1>3. TypeOK
  BY <1>1, <1>2, WipeAssumption DEF Init, TypeOK, Ended
<1>. QED  BY <1>2, <1>3 DEF Init, IInv, RangesProper, RangesAvoid, RunAvoids, LiveGrows, Position, Writing

\* A chunk lies in the range being written, so it meets no cluster that was
\* live at the start.
LEMMA ChunkAvoids ==
    ASSUME IInv, Writing
    PROVE  /\ offset \in Nat /\ ChunkEnd \in Nat /\ offset < ChunkEnd /\ ChunkEnd <= RangeEnd
           /\ RangeStart \in Nat /\ RangeEnd \in Nat /\ rangeIndex \in 1 .. Len(ranges)
           /\ \A c \in liveAtOpen : \A b \in ClusterBytes(c) : ~ (offset <= b /\ b < ChunkEnd)
<1>1. /\ rangeIndex \in 1 .. Len(ranges) /\ ranges \in Seq(Nat \X Nat) /\ offset \in Nat
      /\ RangeStart <= offset /\ offset < RangeEnd
      /\ liveAtOpen \subseteq Clusters
  BY DEF IInv, TypeOK, FreeSpaceTypeOK, Position, Writing
<1>2. RangeStart \in Nat /\ RangeEnd \in Nat /\ ranges[rangeIndex] \in Nat \X Nat
  BY <1>1 DEF RangeStart, RangeEnd
<1>3. ChunkEnd \in Nat /\ offset < ChunkEnd /\ ChunkEnd <= RangeEnd
  BY <1>1, <1>2, WipeAssumption DEF ChunkEnd
<1>4. ASSUME NEW c \in liveAtOpen, NEW b \in ClusterBytes(c)
      PROVE  ~ (offset <= b /\ b < ChunkEnd)
  <2>1. b \in Int
    BY <1>1, <1>4, ClusterInVolume DEF VolumeBytes
  <2>2. RangeBytes(ranges[rangeIndex]) \cap ClusterBytes(c) = {}
    BY <1>1, <1>4 DEF IInv, RangesAvoid
  <2>. QED  BY <1>1, <1>2, <1>3, <1>4, <2>1, <2>2 DEF RangeBytes, RangeStart, RangeEnd
<1>. QED  BY <1>1, <1>2, <1>3, <1>4

\* A write to part of the chunk changes no byte of a cluster live at the start.
LEMMA OverwriteAvoids ==
    ASSUME IInv, Writing, NEW end \in Nat, end <= ChunkEnd, Overwrite(end)
    PROVE  /\ layer' \in [VolumeBytes -> 0 .. Len(Passes)]
           /\ \A c \in liveAtOpen : \A b \in ClusterBytes(c) : layer'[b] = layer[b]
<1>1. /\ layer \in [VolumeBytes -> 0 .. Len(Passes)] /\ pass \in 1 .. Len(Passes)
      /\ Len(Passes) \in Nat /\ liveAtOpen \subseteq Clusters
  BY WipeAssumption DEF IInv, TypeOK
<1>2. layer' \in [VolumeBytes -> 0 .. Len(Passes)]
  BY <1>1 DEF Overwrite
<1>3. ASSUME NEW c \in liveAtOpen, NEW b \in ClusterBytes(c)
      PROVE  layer'[b] = layer[b]
  <2>1. b \in VolumeBytes /\ b \in Int
    BY <1>1, <1>3, ClusterInVolume DEF VolumeBytes
  <2>2. /\ ~ (offset <= b /\ b < ChunkEnd) /\ ChunkEnd \in Nat /\ offset \in Nat
    BY <1>3, ChunkAvoids
  <2>3. ~ (offset <= b /\ b < end)
    BY <2>1, <2>2
  <2>. QED  BY <2>1, <2>3 DEF Overwrite
<1>. QED  BY <1>2, <1>3

\* A step of free_space_ranges within the job keeps the invariant.
LEMMA FindRangesInv ==
    ASSUME TableCovers, IInv, FindRanges
    PROVE  IInv'
<1>. USE GeometryAssumption
<1>0. /\ FreeSpaceTypeOK /\ cluster \in Nat /\ FirstCluster <= cluster /\ cluster <= TotalClusters
      /\ pc = "ranging" /\ NoRun \notin Nat /\ rangeIndex = 1
      /\ UNCHANGED <<jobVars, allocations, liveAtOpen>>
      /\ ranges \in Seq(Nat \X Nat) /\ runStart \in Clusters \union {NoRun}
      /\ live \in SUBSET Clusters /\ unreadable \in SUBSET Clusters
  BY DEF IInv, TypeOK, FreeSpaceTypeOK, FindRanges, NoRun, Position
<1>1. /\ pc' = pc /\ layer' = layer /\ liveAtOpen' = liveAtOpen /\ imageSize' = imageSize
      /\ rangeIndex' = rangeIndex /\ pass' = pass /\ offset' = offset /\ assumeSsd' = assumeSsd
      /\ verify' = verify /\ bytesWritten' = bytesWritten /\ found' = found /\ runs' = runs
      /\ allocations' = allocations
  BY <1>0 DEF jobVars, loopPosition
<1>2. ASSUME /\ ranges' \in Seq(Nat \X Nat) /\ Len(ranges') \in Nat
             /\ runStart' \in Clusters \union {NoRun}
             /\ cluster' \in FirstCluster .. TotalClusters
             /\ live' = live /\ unreadable' = unreadable,
             RangesProper', RangesAvoid', RunAvoids'
      PROVE  IInv'
  <2>1. TypeOK'
    BY <1>0, <1>1, <1>2 DEF IInv, TypeOK, FreeSpaceTypeOK
  <2>2. LiveGrows' /\ Position'
    BY <1>0, <1>1, <1>2 DEF IInv, LiveGrows, Position, Writing
  <2>. QED  BY <1>2, <2>1, <2>2 DEF IInv
<1>3. CASE ExamineCluster
  <2>1. /\ cluster < TotalClusters /\ cluster' = cluster + 1 /\ live' = live
        /\ unreadable' = unreadable /\ cluster \in Clusters /\ cluster' \in FirstCluster .. TotalClusters
    BY <1>0, <1>3 DEF ExamineCluster, Clusters
  <2>2. ReadsFree(cluster) => cluster \notin liveAtOpen
    BY <1>0, <2>1 DEF ReadsFree, TableCovers, IInv, LiveGrows
  <2>3. CASE OpensRun
    <3>1. runStart' = cluster /\ ranges' = ranges /\ ReadsFree(cluster)
      BY <2>3 DEF OpensRun
    <3>2. RunAvoids'
      BY <1>0, <1>1, <2>1, <2>2, <3>1 DEF RunAvoids
    <3>. QED  BY <1>0, <1>1, <1>2, <2>1, <3>1, <3>2 DEF IInv, RangesProper, RangesAvoid
  <2>4. CASE ClosesRun
    <3>1. runStart # NoRun /\ CloseRun(cluster) /\ runStart' = NoRun
      BY <2>4 DEF ClosesRun, CloseRun
    <3>2. /\ ranges' \in Seq(Nat \X Nat) /\ RangesProper' /\ RangesAvoid'
      BY <1>0, <1>1, <3>1, CloseRunAvoids DEF RangesProper, RangesAvoid
    <3>3. RunAvoids'
      BY <3>1 DEF RunAvoids
    <3>. QED  BY <1>2, <2>1, <3>1, <3>2, <3>3
  <2>5. CASE StaysInRun
    <3>1. /\ ReadsFree(cluster) <=> runStart # NoRun
          /\ runStart' = runStart /\ ranges' = ranges
      BY <2>5 DEF StaysInRun
    <3>2. RunAvoids'
      <4>1. CASE runStart # NoRun
        <5>1. /\ runStart \in Nat /\ runStart < cluster
              /\ \A c \in runStart .. cluster - 1 : c \notin liveAtOpen
          BY <1>0, <4>1 DEF IInv, RunAvoids, Clusters
        <5>2. runStart .. cluster' - 1 = (runStart .. cluster - 1) \union {cluster} /\ runStart < cluster'
          BY <1>0, <2>1, <5>1
        <5>. QED  BY <1>1, <2>2, <3>1, <4>1, <5>1, <5>2 DEF RunAvoids
      <4>2. CASE runStart = NoRun
        BY <3>1, <4>2 DEF RunAvoids
      <4>. QED  BY <4>1, <4>2
    <3>. QED  BY <1>0, <1>1, <1>2, <2>1, <3>1, <3>2 DEF IInv, RangesProper, RangesAvoid
  <2>. QED  BY <1>3, <2>3, <2>4, <2>5 DEF ExamineCluster
<1>4. CASE CloseLastRun
  <2>1. /\ runStart # NoRun /\ CloseRun(cluster) /\ runStart' = NoRun /\ cluster' = cluster
        /\ live' = live /\ unreadable' = unreadable
    BY <1>4 DEF CloseLastRun, CloseRun
  <2>2. /\ ranges' \in Seq(Nat \X Nat) /\ RangesProper' /\ RangesAvoid'
    BY <1>0, <1>1, <2>1, CloseRunAvoids DEF RangesProper, RangesAvoid
  <2>3. RunAvoids'
    BY <2>1 DEF RunAvoids
  <2>. QED  BY <1>0, <1>2, <2>1, <2>2, <2>3
<1>. QED  BY <1>3, <1>4 DEF FindRanges, FreeSpaceNext

\* Every step keeps the invariant, whatever the process, the disk and other
\* programs do.
LEMMA WipeNextInv ==
    ASSUME TableCovers, IInv, [Next \/ Allocate]_vars
    PROVE  IInv'
<1>. USE GeometryAssumption, WipeAssumption
<1>0. /\ TypeOK /\ FreeSpaceTypeOK /\ RangesProper /\ RangesAvoid /\ RunAvoids /\ LiveGrows /\ Position
      /\ ranges \in Seq(Nat \X Nat) /\ Len(ranges) \in Nat /\ Len(Passes) \in Nat /\ 1 <= Len(Passes)
      /\ live \in SUBSET Clusters
  BY DEF IInv, TypeOK, FreeSpaceTypeOK
<1>1. ASSUME UNCHANGED <<freeSpaceVars, imageSize, assumeSsd, verify, loopPosition, bytesWritten,
                         runs, allocations, liveAtOpen>>,
             layer' \in [VolumeBytes -> 0 .. Len(Passes)],
             pc' \in Ended, found' \in {NotVerified, 0, 1}
      PROVE  IInv'
  <2>1. TypeOK'
    BY <1>0, <1>1 DEF TypeOK, FreeSpaceTypeOK, freeSpaceVars, loopVars, loopPosition
  <2>2. RangesProper' /\ RangesAvoid' /\ RunAvoids' /\ LiveGrows' /\ Position'
    BY <1>0, <1>1 DEF RangesProper, RangesAvoid, RunAvoids, LiveGrows, Position, Writing, Ended,
                      freeSpaceVars, loopVars
  <2>. QED  BY <2>1, <2>2 DEF IInv
<1>2. CASE Refuse
  BY <1>0, <1>1, <1>2 DEF Refuse, Ended, TypeOK
<1>3. CASE OpenFails
  BY <1>0, <1>1, <1>3 DEF OpenFails, Ended, TypeOK
<1>4. CASE Open
  <2>1. /\ pc = "start" /\ pc' = "ranging" /\ cluster' = FirstCluster /\ runStart' = NoRun
        /\ ranges' = <<>> /\ Len(ranges') = 0 /\ liveAtOpen' = live /\ live' = live
        /\ unreadable' = unreadable /\ rangeIndex = 1
        /\ UNCHANGED <<imageSize, layer, assumeSsd, verify, loopPosition, bytesWritten, found,
                       runs, allocations>>
    BY <1>0, <1>4 DEF Open, Position
  <2>2. TypeOK'
    BY <1>0, <2>1 DEF TypeOK, FreeSpaceTypeOK, loopPosition
  <2>3. RangesProper' /\ RangesAvoid' /\ RunAvoids' /\ LiveGrows' /\ Position'
    BY <1>0, <2>1 DEF RangesProper, RangesAvoid, RunAvoids, LiveGrows, Position, Writing, loopPosition
  <2>. QED  BY <2>2, <2>3 DEF IInv
<1>5. CASE FindRanges
  BY <1>5, FindRangesInv
<1>6. CASE StartWriting
  <2>1. /\ pc = "ranging" /\ pc' = "writing" /\ rangeIndex' = 1 /\ pass' = 1
        /\ offset' = IF ranges = <<>> THEN 0 ELSE ranges[1][1]
        /\ UNCHANGED <<freeSpaceVars, imageSize, layer, assumeSsd, verify, bytesWritten, found,
                       runs, allocations, liveAtOpen>>
    BY <1>6 DEF StartWriting
  <2>2. ranges # <<>> => 1 \in 1 .. Len(ranges) /\ ranges[1] \in Nat \X Nat
    BY <1>0
  <2>3. TypeOK'
    BY <1>0, <2>1, <2>2 DEF TypeOK, FreeSpaceTypeOK, freeSpaceVars, loopVars
  <2>4. RangesProper' /\ RangesAvoid' /\ RunAvoids' /\ LiveGrows'
    BY <1>0, <2>1 DEF RangesProper, RangesAvoid, RunAvoids, LiveGrows, freeSpaceVars, loopVars
  <2>5. Position'
    BY <1>0, <2>1, <2>2 DEF Position, Writing, RangeStart, RangeEnd, RangesProper, freeSpaceVars, loopVars
  <2>. QED  BY <2>3, <2>4, <2>5 DEF IInv
<1>7. CASE WriteChunk
  <2>1. /\ Writing /\ Overwrite(ChunkEnd) /\ pc' = pc /\ pc = "writing"
        /\ UNCHANGED <<freeSpaceVars, imageSize, assumeSsd, verify, found, runs, allocations, liveAtOpen>>
    BY <1>7 DEF WriteChunk, Writing
  <2>2. /\ offset \in Nat /\ ChunkEnd \in Nat /\ offset < ChunkEnd /\ ChunkEnd <= RangeEnd
        /\ RangeStart \in Nat /\ RangeEnd \in Nat /\ rangeIndex \in 1 .. Len(ranges)
        /\ RangeStart < RangeEnd /\ RangeStart <= offset
    BY <1>0, <2>1, ChunkAvoids DEF RangesProper, RangeStart, RangeEnd, Position
  <2>3. layer' \in [VolumeBytes -> 0 .. Len(Passes)]
    BY <2>1, <2>2, OverwriteAvoids
  <2>4. /\ rangeIndex' \in 1 .. Len(ranges) + 1 /\ pass' \in 1 .. Len(Passes)
        /\ offset' \in Nat /\ bytesWritten' \in Nat
        /\ rangeIndex' <= Len(ranges) =>
              ranges[rangeIndex'][1] <= offset' /\ offset' < ranges[rangeIndex'][2]
    <3>0. pass \in 1 .. Len(Passes) /\ bytesWritten \in Nat
      BY <1>0 DEF TypeOK
    <3>1. CASE NextChunk
      BY <2>2, <3>0, <3>1 DEF NextChunk, RangeStart, RangeEnd
    <3>2. CASE NextPass
      BY <1>0, <2>2, <3>0, <3>2 DEF NextPass, RangeStart, RangeEnd
    <3>3. CASE NextRange
      <4>1. rangeIndex < Len(ranges) =>
               /\ rangeIndex + 1 \in 1 .. Len(ranges)
               /\ ranges[rangeIndex + 1] \in Nat \X Nat
               /\ ranges[rangeIndex + 1][1] < ranges[rangeIndex + 1][2]
        BY <1>0, <2>2 DEF RangesProper
      <4>2. RangeEnd - RangeStart \in Nat
        BY <2>2
      <4>. QED  BY <1>0, <2>2, <3>0, <3>3, <4>1, <4>2 DEF NextRange
    <3>. QED  BY <1>7, <3>1, <3>2, <3>3 DEF WriteChunk
  <2>5. TypeOK'
    BY <1>0, <2>1, <2>3, <2>4 DEF TypeOK, FreeSpaceTypeOK, freeSpaceVars, loopVars
  <2>6. RangesProper' /\ RangesAvoid' /\ RunAvoids' /\ LiveGrows'
    BY <1>0, <2>1 DEF RangesProper, RangesAvoid, RunAvoids, LiveGrows, freeSpaceVars, loopVars
  <2>7. Position'
    BY <2>1, <2>4 DEF Position, Writing, RangeStart, RangeEnd, freeSpaceVars, loopVars
  <2>. QED  BY <2>5, <2>6, <2>7 DEF IInv
<1>8. CASE WriteOutOfBounds
  BY <1>0, <1>1, <1>8 DEF WriteOutOfBounds, Ended, TypeOK
<1>9. CASE WriteFails
  <2>1. Writing /\ pc' \in Ended /\ found' = found
    BY <1>9 DEF WriteFails, Ended
  <2>2. PICK end \in offset .. ChunkEnd - 1 : Overwrite(end)
    BY <1>9 DEF WriteFails
  <2>3. end \in Nat /\ end <= ChunkEnd
    BY <2>1, <2>2, ChunkAvoids
  <2>4. layer' \in [VolumeBytes -> 0 .. Len(Passes)]
    BY <2>1, <2>2, <2>3, OverwriteAvoids
  <2>. QED  BY <1>0, <1>1, <1>9, <2>1, <2>4 DEF WriteFails, TypeOK
<1>10. CASE Finish
  <2>1. found' \in {NotVerified, 0, 1}
    BY <1>0, <1>10 DEF Finish, TypeOK
  <2>. QED  BY <1>0, <1>1, <1>10, <2>1 DEF Finish, Ended, TypeOK
<1>11. CASE VerifyFails
  BY <1>0, <1>1, <1>11 DEF VerifyFails, Ended, TypeOK
<1>12. CASE Crash
  BY <1>0, <1>1, <1>12 DEF Crash, Ended, TypeOK
<1>13. CASE RunAgain
  <2>1. /\ pc' = "start" /\ runs' = runs + 1 /\ assumeSsd' \in BOOLEAN /\ verify' \in BOOLEAN
        /\ rangeIndex' = 1 /\ pass' = 1 /\ offset' = 0 /\ bytesWritten' = 0 /\ found' = NotVerified
        /\ UNCHANGED <<freeSpaceVars, imageSize, layer, allocations, liveAtOpen>>
    BY <1>13 DEF RunAgain
  <2>2. TypeOK'
    BY <1>0, <2>1 DEF TypeOK, FreeSpaceTypeOK, freeSpaceVars, loopVars
  <2>3. RangesProper' /\ RangesAvoid' /\ RunAvoids' /\ LiveGrows' /\ Position'
    BY <1>0, <2>1 DEF RangesProper, RangesAvoid, RunAvoids, LiveGrows, Position, Writing,
                      freeSpaceVars, loopVars
  <2>. QED  BY <2>2, <2>3 DEF IInv
<1>14. CASE Allocate
  <2>1. PICK c \in Clusters \ live :
            /\ live' = live \union {c}
            /\ layer' = [b \in VolumeBytes |-> IF b \in ClusterBytes(c) THEN 0 ELSE layer[b]]
    BY <1>14 DEF Allocate
  <2>2. /\ allocations' = allocations + 1
        /\ UNCHANGED <<unreadable, loopVars, imageSize, pc, assumeSsd, verify, loopPosition,
                       bytesWritten, found, runs, liveAtOpen>>
    BY <1>14 DEF Allocate
  <2>3. TypeOK'
    BY <1>0, <2>1, <2>2 DEF TypeOK, FreeSpaceTypeOK, loopVars, loopPosition
  <2>4. RangesProper' /\ RangesAvoid' /\ RunAvoids' /\ LiveGrows' /\ Position'
    BY <1>0, <2>1, <2>2 DEF RangesProper, RangesAvoid, RunAvoids, LiveGrows, Position, Writing,
                            RangeStart, RangeEnd, loopVars, loopPosition
  <2>. QED  BY <2>3, <2>4 DEF IInv
<1>15. CASE UNCHANGED vars
  <2>1. TypeOK'
    BY <1>0, <1>15 DEF vars, jobVars, freeSpaceVars, loopVars, loopPosition, TypeOK, FreeSpaceTypeOK
  <2>2. RangesProper' /\ RangesAvoid' /\ RunAvoids' /\ LiveGrows' /\ Position'
    BY <1>0, <1>15 DEF vars, jobVars, freeSpaceVars, loopVars, loopPosition, RangesProper, RangesAvoid,
                       RunAvoids, LiveGrows, Position, Writing, RangeStart, RangeEnd
  <2>. QED  BY <2>1, <2>2 DEF IInv
<1>. QED
  BY <1>2, <1>3, <1>4, <1>5, <1>6, <1>7, <1>8, <1>9, <1>10, <1>11, <1>12, <1>13, <1>14, <1>15
  DEF Next, JobStep

-----------------------------------------------------------------------------
\* The invariant holds of every behaviour of the job.
THEOREM WipeInvariant ==
    ASSUME TableCovers
    PROVE  Spec => []IInv
<1>1. IInv /\ [Next]_vars => IInv'
  BY WipeNextInv
<1>. QED  BY <1>1, WipeInitInv, PTL DEF Spec

\* What a write may change: only the job's writes touch clusters live at the
\* start with anything but data of the file system, and they stay off them.
LEMMA StepAvoids ==
    ASSUME IInv, [Next \/ Allocate]_vars
    PROVE  \A c \in liveAtOpen : \A b \in ClusterBytes(c) : layer'[b] \in {0, layer[b]}
<1>1. CASE WriteChunk
  <2>1. Writing /\ Overwrite(ChunkEnd)
    BY <1>1 DEF WriteChunk
  <2>2. ChunkEnd \in Nat /\ ChunkEnd <= ChunkEnd
    BY <2>1, ChunkAvoids
  <2>. QED  BY <2>1, <2>2, OverwriteAvoids
<1>2. CASE WriteFails
  <2>1. Writing
    BY <1>2 DEF WriteFails
  <2>2. PICK end \in offset .. ChunkEnd - 1 : Overwrite(end)
    BY <1>2 DEF WriteFails
  <2>3. end \in Nat /\ end <= ChunkEnd
    BY <2>1, <2>2, ChunkAvoids
  <2>. QED  BY <2>1, <2>2, <2>3, OverwriteAvoids
<1>3. CASE Allocate
  <2>1. PICK d \in Clusters \ live :
            layer' = [b \in VolumeBytes |-> IF b \in ClusterBytes(d) THEN 0 ELSE layer[b]]
    BY <1>3 DEF Allocate
  <2>2. liveAtOpen \subseteq Clusters
    BY DEF IInv, TypeOK
  <2>3. \A c \in liveAtOpen : ClusterBytes(c) \subseteq VolumeBytes
    BY <2>2, ClusterInVolume
  <2>. QED  BY <2>1, <2>3
<1>4. ASSUME ~ WriteChunk, ~ WriteFails, ~ Allocate
      PROVE  layer' = layer
  BY <1>4 DEF Next, JobStep, Refuse, OpenFails, Open, FindRanges, StartWriting, WriteOutOfBounds,
              Finish, VerifyFails, Crash, RunAgain, vars, jobVars
<1>. QED  BY <1>1, <1>2, <1>3, <1>4

\* When no other program writes the image, the clusters live during a run
\* are those that were live at its start, and hold their data.
AloneInv ==
    /\ pc \in {"ranging", "writing"} => liveAtOpen = live
    /\ LiveUntouched

\* "Never touches allocated/live clusters" (wipe_job.rs 65-68), in full: the
\* table covers the volume and the job is alone with the image.
THEOREM LiveIsUntouched ==
    ASSUME TableCovers
    PROVE  Spec => []LiveUntouched
<1>1. Init => AloneInv
  <2>1. ASSUME Init, NEW c \in live, NEW b \in ClusterBytes(c)
        PROVE  layer[b] = 0
    <3>1. c \in Clusters
      BY <2>1 DEF Init, FreeSpaceInit
    <3>. QED  BY <2>1, <3>1, ClusterInVolume DEF Init
  <2>. QED  BY <2>1 DEF AloneInv, LiveUntouched, Init
<1>2. ASSUME IInv, AloneInv, [Next]_vars
      PROVE  AloneInv'
  <2>1. live' = live
    BY <1>2 DEF Next, JobStep, Refuse, OpenFails, Open, FindRanges, FreeSpaceNext,
          ExamineCluster, CloseLastRun, StartWriting, WriteChunk, WriteOutOfBounds, WriteFails,
          Finish, VerifyFails, Crash, RunAgain, vars, freeSpaceVars
  <2>2. pc' \in {"ranging", "writing"} => liveAtOpen' = live'
    BY <1>2, <2>1 DEF AloneInv, Next, JobStep, Refuse, OpenFails, Open, FindRanges,
          StartWriting, WriteChunk, WriteOutOfBounds, WriteFails, Finish, VerifyFails, Crash,
          RunAgain, vars, jobVars, Ended
  <2>3. ASSUME NEW c \in live, NEW b \in ClusterBytes(c)
        PROVE  layer'[b] = 0
    <3>1. layer[b] = 0
      BY <1>2, <2>3 DEF AloneInv, LiveUntouched
    <3>2. CASE pc \in {"ranging", "writing"}
      BY <1>2, <2>3, <3>1, <3>2, StepAvoids DEF AloneInv
    <3>3. CASE pc \notin {"ranging", "writing"}
      <4>1. layer' = layer
        BY <1>2, <3>3 DEF Next, JobStep, Refuse, OpenFails, Open, FindRanges, StartWriting,
              WriteChunk, WriteOutOfBounds, WriteFails, Writing, Finish, VerifyFails, Crash,
              RunAgain, vars, jobVars
      <4>. QED  BY <3>1, <4>1
    <3>. QED  BY <3>2, <3>3
  <2>. QED  BY <2>1, <2>2, <2>3 DEF AloneInv, LiveUntouched
<1>3. AloneInv => LiveUntouched
  BY DEF AloneInv
<1>. QED  BY <1>1, <1>2, <1>3, WipeInvariant, PTL DEF Spec

-----------------------------------------------------------------------------
(* A job and the image, whichever job it is                                *)

FirstJob == [pc |-> pc, cluster |-> cluster, runStart |-> runStart, ranges |-> ranges,
             rangeIndex |-> rangeIndex, pass |-> pass, offset |-> offset]
OtherJob == [pc |-> otherPc, cluster |-> otherCluster, runStart |-> otherRunStart,
             ranges |-> otherRanges, rangeIndex |-> otherRangeIndex, pass |-> otherPass,
             offset |-> otherOffset]

LastPass == Len(Passes)
SameLoops(j, k) == k.cluster = j.cluster /\ k.runStart = j.runStart /\ k.ranges = j.ranges
SamePlace(j, k) == k.rangeIndex = j.rangeIndex /\ k.pass = j.pass /\ k.offset = j.offset

\* What each step makes of the job, j then k, and of the image, l then m.
Closes(j, k) ==
    /\ j.runStart # NoRun /\ k.runStart = NoRun
    /\ k.ranges = Append(j.ranges, <<ClusterOffset(j.runStart), ClusterOffset(j.cluster)>>)
    /\ \/ k.cluster = j.cluster
       \/ k.cluster = j.cluster + 1 /\ ~ ReadsFree(j.cluster) /\ j.cluster < TotalClusters
GoesOn(j, k) ==
    /\ j.cluster < TotalClusters /\ k.cluster = j.cluster + 1 /\ k.ranges = j.ranges
    /\ \/ j.runStart = NoRun /\ k.runStart = j.cluster
       \/ (ReadsFree(j.cluster) <=> j.runStart # NoRun) /\ k.runStart = j.runStart
Searches(j, k, l, m) ==
    /\ j.pc = "ranging" /\ k.pc = "ranging" /\ SamePlace(j, k) /\ m = l
    /\ Closes(j, k) \/ GoesOn(j, k)

Begins(j, k, l, m) ==
    /\ m = l /\ SameLoops(j, k) /\ j.cluster = TotalClusters /\ j.runStart = NoRun
    /\ k.pc = "writing" /\ k.rangeIndex = 1 /\ k.pass = 1
    /\ k.ranges # <<>> => k.offset = k.ranges[1][1]
    /\ k.offset \in Nat

IsWriting(j) == j.pc = "writing" /\ j.rangeIndex <= Len(j.ranges)
StartOf(j) == j.ranges[j.rangeIndex][1]
EndOf(j) == j.ranges[j.rangeIndex][2]

Lays(j, end, l, m) ==
    m = [b \in VolumeBytes |-> IF j.offset <= b /\ b < end THEN j.pass ELSE l[b]]

Writes(j, k, l, m) ==
    /\ IsWriting(j) /\ k.pc = "writing" /\ SameLoops(j, k)
    /\ \E end \in Nat :
          /\ j.offset < end /\ end <= EndOf(j) /\ Lays(j, end, l, m)
          /\ \/ end < EndOf(j) /\ k.offset = end /\ k.rangeIndex = j.rangeIndex /\ k.pass = j.pass
             \/ /\ end = EndOf(j) /\ j.pass < LastPass
                /\ k.pass = j.pass + 1 /\ k.offset = StartOf(j) /\ k.rangeIndex = j.rangeIndex
             \/ /\ end = EndOf(j) /\ j.pass = LastPass
                /\ k.rangeIndex = j.rangeIndex + 1 /\ k.pass = 1
                /\ k.offset = IF j.rangeIndex < Len(j.ranges) THEN j.ranges[j.rangeIndex + 1][1] ELSE 0

Ends(j, k, l, m) ==
    /\ m = l /\ SameLoops(j, k) /\ SamePlace(j, k)
    /\ j.pc = "writing" /\ j.rangeIndex > Len(j.ranges) /\ k.pc = "done"

\* It is opened, fails, dies or is run again, a write perhaps half done.
Breaks(j, k, l, m) ==
    /\ k.pc \notin {"writing", "done"}
    /\ SameLoops(j, k) \/ (k.cluster = FirstCluster /\ k.runStart = NoRun /\ k.ranges = <<>>)
    /\ SamePlace(j, k) \/ (k.rangeIndex = 1 /\ k.pass = 1 /\ k.offset = 0)
    /\ \/ m = l
       \/ IsWriting(j) /\ \E end \in Nat : end <= EndOf(j) /\ Lays(j, end, l, m)

Steps(j, k, l, m) == \/ Searches(j, k, l, m) \/ Begins(j, k, l, m) \/ Writes(j, k, l, m)
                     \/ Ends(j, k, l, m) \/ Breaks(j, k, l, m)
                     \/ k = j /\ m = l

FrontierOf(j) == IF j.runStart = NoRun THEN j.cluster ELSE j.runStart

\* The ranges a job has are in order, within the volume, and hold every
\* cluster the job has passed that reads as free (now, that is).
RangesOf(j) ==
    /\ j.ranges \in Seq(Nat \X Nat)
    /\ \A i \in 1 .. Len(j.ranges) : j.ranges[i][1] < j.ranges[i][2]
    /\ \A i \in 1 .. Len(j.ranges) : j.ranges[i][2] <= ClusterOffset(FrontierOf(j))
    /\ \A i, h \in 1 .. Len(j.ranges) : i < h => j.ranges[i][2] <= j.ranges[h][1]
FreeCovered(j) ==
    \A c \in Clusters : ReadsFree(c) /\ c < FrontierOf(j) =>
        \A b \in ClusterBytes(c) : \E i \in 1 .. Len(j.ranges) : b \in RangeBytes(j.ranges[i])

PlaceOf(j) ==
    /\ j.cluster \in FirstCluster .. TotalClusters
    /\ j.runStart \in Clusters \union {NoRun} /\ (j.runStart # NoRun => j.runStart < j.cluster)
    /\ j.rangeIndex \in Nat \ {0} /\ j.pass \in 1 .. LastPass /\ j.offset \in Nat
    /\ j.pc \in {"writing", "done"} => j.cluster = TotalClusters /\ j.runStart = NoRun
    /\ j.pc = "done" => j.rangeIndex > Len(j.ranges)
    /\ IsWriting(j) => StartOf(j) <= j.offset /\ j.offset < EndOf(j)

JobOk(j) == RangesOf(j) /\ FreeCovered(j) /\ PlaceOf(j)

\* Pass q, or a later one, has been laid on byte b in this run of the job.
Reached(j, q, b) ==
    /\ j.pc \in {"writing", "done"}
    /\ \E i \in 1 .. Len(j.ranges) :
          /\ b \in RangeBytes(j.ranges[i])
          /\ \/ i < j.rangeIndex
             \/ i = j.rangeIndex /\ (j.pass > q \/ (j.pass = q /\ b < j.offset))

\* The passes the job laid are on its ranges still.
LaidBy(j, l) ==
    j.pc \in {"writing", "done"} =>
        /\ \A i \in 1 .. Len(j.ranges) : i < j.rangeIndex =>
               \A b \in RangeBytes(j.ranges[i]) : l[b] = LastPass
        /\ IsWriting(j) =>
               \A b \in RangeBytes(j.ranges[j.rangeIndex]) :
                   /\ b < j.offset => l[b] = j.pass
                   /\ j.offset <= b /\ j.pass > 1 => l[b] = j.pass - 1

Images == [VolumeBytes -> 0 .. LastPass]

-----------------------------------------------------------------------------
LEMMA PassesAreSome == LastPass \in Nat /\ 1 <= LastPass
BY WipeAssumption DEF LastPass

LEMMA RangeTyped ==
    ASSUME NEW j, JobOk(j), NEW i \in 1 .. Len(j.ranges)
    PROVE  /\ j.ranges[i] \in Nat \X Nat /\ j.ranges[i][1] \in Nat /\ j.ranges[i][2] \in Nat
           /\ j.ranges[i][1] < j.ranges[i][2]
           /\ \A b \in RangeBytes(j.ranges[i]) :
                  b \in VolumeBytes /\ b \in Int /\ j.ranges[i][1] <= b /\ b < j.ranges[i][2]
<1>1. j.ranges[i] \in Nat \X Nat
  BY DEF JobOk, RangesOf
<1>2. j.ranges[i][1] \in Nat /\ j.ranges[i][2] \in Nat
  BY <1>1
<1>3. FrontierOf(j) \in Nat /\ FirstCluster <= FrontierOf(j) /\ FrontierOf(j) <= TotalClusters
      /\ TotalClusters \in Nat
  BY GeometryAssumption DEF JobOk, PlaceOf, FrontierOf, Clusters
<1>4. ClusterOffset(FrontierOf(j)) <= ClusterOffset(TotalClusters)
      /\ ClusterOffset(FrontierOf(j)) \in Nat /\ ClusterOffset(TotalClusters) \in Nat
  <2>1. CASE FrontierOf(j) = TotalClusters
    BY <1>3, <2>1, OffsetType
  <2>2. CASE FrontierOf(j) < TotalClusters
    BY <1>3, <2>2, ClustersApart, GeometryAssumption
  <2>. QED  BY <1>3, <2>1, <2>2
<1>5. j.ranges[i][2] <= ClusterOffset(FrontierOf(j)) /\ j.ranges[i][1] < j.ranges[i][2]
  BY DEF JobOk, RangesOf
<1>6. ASSUME NEW b \in RangeBytes(j.ranges[i])
      PROVE  b \in VolumeBytes /\ b \in Int /\ j.ranges[i][1] <= b /\ b < j.ranges[i][2]
  BY <1>2, <1>4, <1>5, <1>6 DEF RangeBytes, VolumeBytes
<1>. QED  BY <1>1, <1>2, <1>5, <1>6

\* The ranges are kept when a run is closed.
LEMMA ClosesWell ==
    ASSUME NEW j, JobOk(j), NEW k, Closes(j, k)
    PROVE  RangesOf(k) /\ FreeCovered(k)
<1>0. /\ j.runStart # NoRun /\ k.runStart = NoRun
      /\ k.ranges = Append(j.ranges, <<ClusterOffset(j.runStart), ClusterOffset(j.cluster)>>)
      /\ \/ k.cluster = j.cluster
         \/ k.cluster = j.cluster + 1 /\ ~ ReadsFree(j.cluster) /\ j.cluster < TotalClusters
  BY DEF Closes
<1>. DEFINE r == <<ClusterOffset(j.runStart), ClusterOffset(j.cluster)>>
<1>1. /\ j.runStart \in Clusters /\ j.runStart \in Nat /\ FirstCluster <= j.runStart
      /\ j.cluster \in Nat /\ j.cluster <= TotalClusters /\ j.runStart < j.cluster
      /\ FirstCluster <= j.cluster /\ FirstCluster \in Nat /\ ClusterSize \in Nat \ {0}
  BY <1>0, GeometryAssumption DEF JobOk, PlaceOf, Clusters
<1>2. FrontierOf(j) = j.runStart /\ FrontierOf(k) = k.cluster
  BY <1>0 DEF FrontierOf
<1>3. /\ r[1] \in Nat /\ r[2] \in Nat /\ r[1] < r[2] /\ r \in Nat \X Nat
      /\ r[1] = ClusterOffset(j.runStart) /\ r[2] = ClusterOffset(j.cluster)
  <2>1. /\ ClusterOffset(j.runStart) \in Nat /\ ClusterOffset(j.cluster) \in Nat
        /\ ClusterOffset(j.runStart) + ClusterSize <= ClusterOffset(j.cluster)
    BY <1>1, ClustersApart
  <2>. QED  BY <1>1, <2>1
<1>4. ClusterOffset(k.cluster) \in Nat /\ r[2] <= ClusterOffset(k.cluster)
  <2>1. CASE k.cluster = j.cluster
    BY <1>3, <2>1
  <2>2. CASE k.cluster = j.cluster + 1
    BY <1>1, <1>3, <2>2, ClustersApart
  <2>. QED  BY <1>0, <2>1, <2>2
<1>. HIDE DEF r
<1>5. /\ j.ranges \in Seq(Nat \X Nat) /\ Len(j.ranges) \in Nat /\ k.ranges \in Seq(Nat \X Nat)
      /\ Len(k.ranges) = Len(j.ranges) + 1
      /\ \A i \in 1 .. Len(j.ranges) : k.ranges[i] = j.ranges[i]
      /\ k.ranges[Len(j.ranges) + 1] = r
  <2>1. k.ranges = Append(j.ranges, r) /\ j.ranges \in Seq(Nat \X Nat)
    BY <1>0 DEF r, JobOk, RangesOf
  <2>. QED  BY <1>3, <2>1
<1>6. \A i \in 1 .. Len(k.ranges) : i \in Int /\ (i \in 1 .. Len(j.ranges) \/ i = Len(j.ranges) + 1)
  BY <1>5
<1>7. \A i \in 1 .. Len(j.ranges) : /\ j.ranges[i][2] \in Nat /\ j.ranges[i][2] <= r[1]
                                    /\ j.ranges[i][1] < j.ranges[i][2]
  BY <1>2, <1>3, RangeTyped DEF JobOk, RangesOf
<1>8. RangesOf(k)
  <2>1. \A i \in 1 .. Len(k.ranges) : k.ranges[i][1] < k.ranges[i][2]
    BY <1>3, <1>5, <1>6, <1>7
  <2>2. \A i \in 1 .. Len(k.ranges) : k.ranges[i][2] <= ClusterOffset(FrontierOf(k))
    <3>1. ASSUME NEW i \in 1 .. Len(j.ranges) PROVE k.ranges[i][2] <= ClusterOffset(k.cluster)
      <4>1. j.ranges[i][2] \in Nat /\ j.ranges[i][2] <= r[1] /\ k.ranges[i] = j.ranges[i]
        BY <1>5, <1>7
      <4>. QED  BY <1>3, <1>4, <4>1
    <3>2. k.ranges[Len(j.ranges) + 1][2] <= ClusterOffset(k.cluster)
      BY <1>4, <1>5
    <3>. QED  BY <1>2, <1>6, <3>1, <3>2
  <2>3. ASSUME NEW i \in 1 .. Len(k.ranges), NEW h \in 1 .. Len(k.ranges), i < h
        PROVE  k.ranges[i][2] <= k.ranges[h][1]
    <3>1. CASE h = Len(j.ranges) + 1
      <4>1. i \in 1 .. Len(j.ranges)
        BY <1>5, <1>6, <2>3, <3>1
      <4>2. k.ranges[i] = j.ranges[i] /\ k.ranges[h] = r /\ j.ranges[i][2] <= r[1]
        BY <1>5, <1>7, <3>1, <4>1
      <4>. QED  BY <4>2
    <3>2. CASE h \in 1 .. Len(j.ranges)
      <4>1. i \in 1 .. Len(j.ranges)
        BY <1>5, <1>6, <2>3, <3>2
      <4>. QED  BY <1>5, <2>3, <3>2, <4>1 DEF JobOk, RangesOf
    <3>. QED  BY <1>6, <3>1, <3>2
  <2>. QED  BY <1>5, <2>1, <2>2, <2>3 DEF RangesOf
<1>9. ASSUME NEW c \in Clusters, ReadsFree(c), c < FrontierOf(k), NEW b \in ClusterBytes(c)
      PROVE  \E i \in 1 .. Len(k.ranges) : b \in RangeBytes(k.ranges[i])
  <2>1. c \in Nat /\ FirstCluster <= c /\ c < j.cluster
    BY <1>0, <1>1, <1>2, <1>9 DEF Clusters
  <2>2. CASE c < j.runStart
    <3>1. FreeCovered(j) /\ c < FrontierOf(j)
      BY <1>2, <2>2 DEF JobOk
    <3>2. PICK i \in 1 .. Len(j.ranges) : b \in RangeBytes(j.ranges[i])
      BY <1>9, <3>1, Zenon DEF FreeCovered
    <3>3. i \in 1 .. Len(k.ranges) /\ k.ranges[i] = j.ranges[i]
      BY <1>5, <3>2
    <3>. QED  BY <3>2, <3>3
  <2>3. CASE ~ (c < j.runStart)
    <3>1. ClusterOffset(c) \in Nat /\ ClusterOffset(c) + ClusterSize <= r[2]
      BY <1>1, <1>3, <2>1, ClustersApart
    <3>2. r[1] <= ClusterOffset(c)
      <4>1. CASE c = j.runStart
        BY <1>3, <4>1
      <4>2. CASE j.runStart < c
        BY <1>1, <1>3, <2>1, <4>2, ClustersApart
      <4>. QED  BY <1>1, <2>1, <2>3, <4>1, <4>2
    <3>3. b \in Int /\ ClusterOffset(c) <= b /\ b < ClusterOffset(c) + ClusterSize
      BY <1>1, <1>9, <3>1 DEF ClusterBytes
    <3>4. b \in r[1] .. r[2] - 1
      BY <1>1, <1>3, <3>1, <3>2, <3>3
    <3>5. b \in RangeBytes(k.ranges[Len(j.ranges) + 1]) /\ Len(j.ranges) + 1 \in 1 .. Len(k.ranges)
      BY <1>5, <3>4 DEF RangeBytes
    <3>. QED  BY <3>5, Zenon
  <2>. QED  BY <2>2, <2>3
<1>. QED  BY <1>8, <1>9 DEF FreeCovered

\* Every step keeps a job in order.
LEMMA StepsOk ==
    ASSUME NEW j, NEW k, NEW l, NEW m, JobOk(j), Steps(j, k, l, m)
    PROVE  JobOk(k)
<1>. USE PassesAreSome
<1>1. /\ j.cluster \in Nat /\ FirstCluster <= j.cluster /\ j.cluster <= TotalClusters
      /\ TotalClusters \in Nat /\ FirstCluster \in Nat /\ FirstCluster <= TotalClusters
      /\ NoRun \notin Nat /\ Clusters \subseteq Nat
      /\ j.ranges \in Seq(Nat \X Nat) /\ Len(j.ranges) \in Nat
      /\ j.runStart \in Clusters \union {NoRun} /\ (j.runStart # NoRun => j.runStart < j.cluster)
  BY GeometryAssumption DEF JobOk, PlaceOf, RangesOf, NoRun, Clusters
<1>2. ASSUME SameLoops(j, k) PROVE RangesOf(k) /\ FreeCovered(k)
  BY <1>2 DEF SameLoops, JobOk, RangesOf, FreeCovered, FrontierOf
<1>3. CASE Searches(j, k, l, m)
  <2>1. CASE Closes(j, k)
    <3>1. PlaceOf(k)
      BY <1>1, <1>3, <2>1 DEF Searches, Closes, SamePlace, PlaceOf, JobOk, IsWriting
    <3>. QED  BY <2>1, <3>1, ClosesWell DEF JobOk
  <2>2. CASE GoesOn(j, k)
    <3>1. /\ k.cluster \in FirstCluster .. TotalClusters
          /\ k.runStart \in Clusters \union {NoRun} /\ (k.runStart # NoRun => k.runStart < k.cluster)
      <4>1. j.cluster \in Clusters /\ \A c \in Clusters : c \in Nat
        BY <1>1, <2>2 DEF GoesOn, Clusters
      <4>2. k.cluster \in FirstCluster .. TotalClusters /\ k.cluster = j.cluster + 1
        BY <1>1, <2>2 DEF GoesOn
      <4>3. CASE k.runStart = j.cluster
        BY <1>1, <4>1, <4>2, <4>3
      <4>4. CASE k.runStart = j.runStart
        <5>1. j.runStart # NoRun => j.runStart \in Nat /\ j.runStart < j.cluster
          BY <1>1, Zenon
        <5>. QED  BY <1>1, <4>2, <4>4, <5>1
      <4>. QED  BY <2>2, <4>2, <4>3, <4>4 DEF GoesOn
    <3>2. PlaceOf(k)
      BY <1>3, <3>1 DEF Searches, SamePlace, PlaceOf, JobOk, IsWriting
    <3>3. \/ FrontierOf(k) = FrontierOf(j)
          \/ FrontierOf(j) = j.cluster /\ FrontierOf(k) = j.cluster + 1 /\ ~ ReadsFree(j.cluster)
      <4>1. j.cluster # NoRun
        BY <1>1
      <4>. QED  BY <2>2, <4>1 DEF GoesOn, FrontierOf
    <3>4. FrontierOf(j) \in Nat /\ FirstCluster <= FrontierOf(j)
      BY <1>1 DEF FrontierOf, Clusters
    <3>5. ClusterOffset(FrontierOf(j)) <= ClusterOffset(FrontierOf(k))
          /\ ClusterOffset(FrontierOf(j)) \in Nat /\ ClusterOffset(FrontierOf(k)) \in Nat
      <4>1. ClusterOffset(FrontierOf(j)) \in Nat
        BY <3>4, OffsetType
      <4>2. CASE FrontierOf(k) = FrontierOf(j)
        BY <4>1, <4>2
      <4>3. CASE FrontierOf(k) = FrontierOf(j) + 1
        BY <3>4, <4>3, ClustersApart, GeometryAssumption
      <4>. QED  BY <3>3, <4>2, <4>3
    <3>6. RangesOf(k)
      <4>1. \A i \in 1 .. Len(j.ranges) : j.ranges[i][2] <= ClusterOffset(FrontierOf(k))
        BY <3>5, RangeTyped DEF JobOk, RangesOf
      <4>. QED  BY <2>2, <4>1 DEF GoesOn, RangesOf, JobOk
    <3>7. \A c \in Clusters : ReadsFree(c) /\ c < FrontierOf(k) => c < FrontierOf(j)
      BY <1>1, <3>3, <3>4
    <3>8. FreeCovered(k)
      BY <2>2, <3>7 DEF GoesOn, FreeCovered, JobOk
    <3>. QED  BY <3>2, <3>6, <3>8 DEF JobOk
  <2>. QED  BY <1>3, <2>1, <2>2 DEF Searches
<1>4. CASE Begins(j, k, l, m)
  <2>1. IsWriting(k) => StartOf(k) <= k.offset /\ k.offset < EndOf(k)
    <3>. SUFFICES ASSUME IsWriting(k) PROVE StartOf(k) <= k.offset /\ k.offset < EndOf(k)
      OBVIOUS
    <3>1. k.ranges = j.ranges /\ k.rangeIndex = 1 /\ 1 \in 1 .. Len(j.ranges)
      BY <1>1, <1>4 DEF IsWriting, Begins, SameLoops
    <3>2. k.ranges # <<>>
      BY <1>1, <3>1
    <3>3. k.offset = j.ranges[1][1]
      BY <1>4, <3>1, <3>2 DEF Begins
    <3>. QED  BY <3>1, <3>3, RangeTyped DEF StartOf, EndOf
  <2>2. PlaceOf(k)
    BY <1>1, <1>4, <2>1 DEF Begins, SameLoops, PlaceOf, Clusters
  <2>. QED  BY <1>2, <1>4, <2>2 DEF Begins, JobOk
<1>5. CASE Writes(j, k, l, m)
  <2>1. /\ j.rangeIndex \in 1 .. Len(j.ranges) /\ j.pass \in 1 .. LastPass /\ k.ranges = j.ranges
        /\ SameLoops(j, k) /\ k.pc = "writing" /\ j.cluster = TotalClusters /\ j.runStart = NoRun
        /\ StartOf(j) <= j.offset /\ j.offset < EndOf(j) /\ j.offset \in Nat
    <3>1. IsWriting(j) /\ SameLoops(j, k) /\ k.pc = "writing" /\ PlaceOf(j)
      BY <1>5 DEF Writes, JobOk
    <3>2. /\ j.pc = "writing" /\ j.rangeIndex <= Len(j.ranges) /\ k.ranges = j.ranges
          /\ StartOf(j) <= j.offset /\ j.offset < EndOf(j)
      BY <3>1 DEF IsWriting, SameLoops, PlaceOf
    <3>3. /\ j.rangeIndex \in Nat \ {0} /\ j.pass \in 1 .. LastPass /\ j.offset \in Nat
          /\ j.cluster = TotalClusters /\ j.runStart = NoRun
      BY <3>1, <3>2 DEF PlaceOf
    <3>. QED  BY <1>1, <3>1, <3>2, <3>3
  <2>2. StartOf(j) \in Nat /\ EndOf(j) \in Nat /\ StartOf(j) < EndOf(j)
    BY <2>1, RangeTyped DEF StartOf, EndOf
  <2>3. /\ k.rangeIndex \in Nat \ {0} /\ k.pass \in 1 .. LastPass /\ k.offset \in Nat
        /\ k.rangeIndex <= Len(j.ranges) =>
              j.ranges[k.rangeIndex][1] <= k.offset /\ k.offset < j.ranges[k.rangeIndex][2]
    <3>1. PICK end \in Nat :
             /\ j.offset < end /\ end <= EndOf(j)
             /\ \/ end < EndOf(j) /\ k.offset = end /\ k.rangeIndex = j.rangeIndex /\ k.pass = j.pass
                \/ /\ end = EndOf(j) /\ j.pass < LastPass
                   /\ k.pass = j.pass + 1 /\ k.offset = StartOf(j) /\ k.rangeIndex = j.rangeIndex
                \/ /\ end = EndOf(j) /\ j.pass = LastPass
                   /\ k.rangeIndex = j.rangeIndex + 1 /\ k.pass = 1
                   /\ k.offset = IF j.rangeIndex < Len(j.ranges) THEN j.ranges[j.rangeIndex + 1][1] ELSE 0
      BY <1>5 DEF Writes
    <3>2. /\ j.rangeIndex \in Nat \ {0} /\ j.ranges[j.rangeIndex][1] = StartOf(j)
          /\ j.ranges[j.rangeIndex][2] = EndOf(j)
      BY <1>1, <2>1 DEF StartOf, EndOf
    <3>3. CASE end < EndOf(j) /\ k.offset = end /\ k.rangeIndex = j.rangeIndex /\ k.pass = j.pass
      BY <2>1, <2>2, <3>1, <3>2, <3>3
    <3>4. CASE /\ j.pass < LastPass /\ k.pass = j.pass + 1
               /\ k.offset = StartOf(j) /\ k.rangeIndex = j.rangeIndex
      BY <2>1, <2>2, <3>2, <3>4
    <3>5. CASE /\ k.rangeIndex = j.rangeIndex + 1 /\ k.pass = 1
               /\ k.offset = IF j.rangeIndex < Len(j.ranges) THEN j.ranges[j.rangeIndex + 1][1] ELSE 0
      <4>. DEFINE i == j.rangeIndex + 1
      <4>1. CASE i \in 1 .. Len(j.ranges)
        <5>1. j.ranges[i][1] \in Nat /\ j.ranges[i][2] \in Nat /\ j.ranges[i][1] < j.ranges[i][2]
          BY <4>1, RangeTyped
        <5>2. j.rangeIndex \in Nat /\ Len(j.ranges) \in Nat
          BY <1>1, <3>2
        <5>3. j.rangeIndex < Len(j.ranges) /\ i \in Nat \ {0}
          BY <4>1, <5>2
        <5>4. 1 \in 1 .. LastPass
          OBVIOUS
        <5>. QED  BY <3>5, <5>1, <5>3, <5>4
      <4>2. CASE i \notin 1 .. Len(j.ranges)
        <5>1. i \in Nat \ {0} /\ ~ (i <= Len(j.ranges)) /\ ~ (j.rangeIndex < Len(j.ranges))
              /\ 1 \in 1 .. LastPass
          BY <1>1, <3>2, <4>2
        <5>. QED  BY <3>5, <5>1
      <4>. QED  BY <4>1, <4>2
    <3>. QED  BY <3>1, <3>3, <3>4, <3>5
  <2>4. PlaceOf(k)
    BY <1>1, <2>1, <2>3 DEF PlaceOf, SameLoops, IsWriting, StartOf, EndOf
  <2>. QED  BY <1>2, <2>1, <2>4 DEF JobOk
<1>6. CASE Ends(j, k, l, m)
  <2>1. PlaceOf(k)
    BY <1>6 DEF Ends, SameLoops, SamePlace, JobOk, PlaceOf, IsWriting
  <2>. QED  BY <1>2, <1>6, <2>1 DEF Ends, JobOk
<1>7. CASE Breaks(j, k, l, m)
  <2>1. PlaceOf(k)
    <3>1. PlaceOf(j) /\ k.pc \notin {"writing", "done"}
      BY <1>7 DEF Breaks, JobOk
    <3>2. /\ k.cluster \in FirstCluster .. TotalClusters
          /\ k.runStart \in Clusters \union {NoRun} /\ (k.runStart # NoRun => k.runStart < k.cluster)
      <4>1. CASE SameLoops(j, k)
        BY <3>1, <4>1 DEF SameLoops, PlaceOf
      <4>2. CASE k.cluster = FirstCluster /\ k.runStart = NoRun
        BY <1>1, <4>2
      <4>. QED  BY <1>7, <4>1, <4>2 DEF Breaks
    <3>3. k.rangeIndex \in Nat \ {0} /\ k.pass \in 1 .. LastPass /\ k.offset \in Nat
      <4>1. CASE SamePlace(j, k)
        BY <3>1, <4>1 DEF SamePlace, PlaceOf
      <4>2. CASE k.rangeIndex = 1 /\ k.pass = 1 /\ k.offset = 0
        BY <1>1, <4>2
      <4>. QED  BY <1>7, <4>1, <4>2 DEF Breaks
    <3>. QED  BY <3>1, <3>2, <3>3 DEF PlaceOf, IsWriting
  <2>2. CASE SameLoops(j, k)
    BY <1>2, <2>1, <2>2 DEF JobOk
  <2>3. CASE k.cluster = FirstCluster /\ k.runStart = NoRun /\ k.ranges = <<>>
    <3>1. RangesOf(k)
      BY <2>3 DEF RangesOf
    <3>2. FreeCovered(k)
      BY <1>1, <2>3 DEF FreeCovered, FrontierOf, Clusters
    <3>. QED  BY <2>1, <3>1, <3>2 DEF JobOk
  <2>. QED  BY <1>7, <2>2, <2>3 DEF Breaks
<1>8. CASE k = j /\ m = l
  BY <1>8
<1>. QED  BY <1>3, <1>4, <1>5, <1>6, <1>7, <1>8 DEF Steps


\* The pass that a step lays on a byte of the job's range, or of no other.
LEMMA LaidBytes ==
    ASSUME NEW j, NEW k, NEW l, NEW m, JobOk(j), Steps(j, k, l, m)
    PROVE  \A b \in VolumeBytes : m[b] = l[b] \/ m[b] = j.pass
<1>1. ASSUME NEW end, Lays(j, end, l, m) PROVE \A b \in VolumeBytes : m[b] = l[b] \/ m[b] = j.pass
  BY <1>1 DEF Lays
<1>. QED  BY <1>1 DEF Steps, Searches, Begins, Writes, Ends, Breaks

LEMMA StepsTyped ==
    ASSUME NEW j, NEW k, NEW l \in Images, NEW m, JobOk(j), Steps(j, k, l, m)
    PROVE  m \in Images
<1>1. j.pass \in 0 .. LastPass
  BY PassesAreSome DEF JobOk, PlaceOf
<1>2. ASSUME NEW end, Lays(j, end, l, m) PROVE m \in Images
  BY <1>1, <1>2 DEF Lays, Images
<1>. QED  BY <1>2 DEF Steps, Searches, Begins, Writes, Ends, Breaks

\* The range that is written, apart from the others.
LEMMA WritingApart ==
    ASSUME NEW j, JobOk(j), IsWriting(j)
    PROVE  /\ j.rangeIndex \in 1 .. Len(j.ranges) /\ Len(j.ranges) \in Nat
           /\ j.offset \in Nat /\ StartOf(j) \in Nat /\ EndOf(j) \in Nat
           /\ StartOf(j) <= j.offset /\ j.offset < EndOf(j)
           /\ \A i \in 1 .. Len(j.ranges) : \A b \in RangeBytes(j.ranges[i]) :
                 /\ b \in VolumeBytes /\ b \in Int
                 /\ i < j.rangeIndex => b < StartOf(j)
                 /\ i = j.rangeIndex => StartOf(j) <= b /\ b < EndOf(j)
                 /\ i > j.rangeIndex => EndOf(j) <= b
<1>1. j.rangeIndex \in 1 .. Len(j.ranges) /\ Len(j.ranges) \in Nat
  BY DEF JobOk, PlaceOf, RangesOf, IsWriting
<1>2. /\ j.offset \in Nat /\ StartOf(j) <= j.offset /\ j.offset < EndOf(j)
  BY DEF JobOk, PlaceOf
<1>3. StartOf(j) \in Nat /\ EndOf(j) \in Nat
  BY <1>1, RangeTyped DEF StartOf, EndOf
<1>4. ASSUME NEW i \in 1 .. Len(j.ranges), NEW b \in RangeBytes(j.ranges[i])
      PROVE  /\ b \in VolumeBytes /\ b \in Int
             /\ i < j.rangeIndex => b < StartOf(j)
             /\ i = j.rangeIndex => StartOf(j) <= b /\ b < EndOf(j)
             /\ i > j.rangeIndex => EndOf(j) <= b
  <2>1. /\ b \in VolumeBytes /\ b \in Int /\ j.ranges[i][1] <= b /\ b < j.ranges[i][2]
        /\ j.ranges[i][1] \in Nat /\ j.ranges[i][2] \in Nat
    BY RangeTyped
  <2>2. i < j.rangeIndex => j.ranges[i][2] <= StartOf(j)
    BY <1>1 DEF JobOk, RangesOf, StartOf
  <2>3. i > j.rangeIndex => EndOf(j) <= j.ranges[i][1]
    <3>1. i > j.rangeIndex => j.rangeIndex < i
      BY <1>1
    <3>. QED  BY <1>1, <3>1 DEF JobOk, RangesOf, EndOf
  <2>4. i = j.rangeIndex => j.ranges[i][1] = StartOf(j) /\ j.ranges[i][2] = EndOf(j)
    BY DEF StartOf, EndOf
  <2>. QED  BY <1>3, <2>1, <2>2, <2>3, <2>4
<1>. QED  BY <1>1, <1>2, <1>3, <1>4

\* A byte that has had pass q by a step has it from this step, or had it
\* before and the step left it alone.
LEMMA StepsReach ==
    ASSUME NEW j, NEW k, NEW l \in Images, NEW m, JobOk(j), Steps(j, k, l, m),
           NEW q \in 1 .. LastPass, NEW b \in VolumeBytes, Reached(k, q, b)
    PROVE  (Reached(j, q, b) /\ m[b] = l[b]) \/ m[b] >= q
<1>. USE PassesAreSome
<1>1. k.pc \in {"writing", "done"}
  BY DEF Reached
<1>2. PICK i \in 1 .. Len(k.ranges) :
         /\ b \in RangeBytes(k.ranges[i])
         /\ \/ i < k.rangeIndex
            \/ i = k.rangeIndex /\ (k.pass > q \/ (k.pass = q /\ b < k.offset))
  BY DEF Reached
<1>3. CASE Begins(j, k, l, m)
  <2>1. k.rangeIndex = 1 /\ k.pass = 1 /\ i = 1
    BY <1>2, <1>3 DEF Begins
  <2>2. b < k.offset /\ k.ranges # <<>> /\ k.ranges = j.ranges
    BY <1>2, <1>3, <2>1 DEF Begins, SameLoops
  <2>3. k.offset = j.ranges[1][1] /\ i \in 1 .. Len(j.ranges)
    BY <1>2, <1>3, <2>2 DEF Begins
  <2>4. j.ranges[1][1] <= b /\ b \in Int /\ j.ranges[1][1] \in Nat
    BY <1>2, <2>1, <2>2, <2>3, RangeTyped
  <2>. QED  BY <2>2, <2>3, <2>4
<1>4. CASE Writes(j, k, l, m)
  <2>1. IsWriting(j) /\ k.ranges = j.ranges /\ j.pc = "writing" /\ j.pass \in 1 .. LastPass
    BY <1>4 DEF Writes, IsWriting, SameLoops, JobOk, PlaceOf
  <2>2. /\ j.rangeIndex \in 1 .. Len(j.ranges) /\ Len(j.ranges) \in Nat
        /\ j.offset \in Nat /\ StartOf(j) \in Nat /\ EndOf(j) \in Nat
        /\ StartOf(j) <= j.offset /\ j.offset < EndOf(j)
        /\ b \in Int /\ i \in Int
        /\ i < j.rangeIndex => b < StartOf(j)
        /\ i = j.rangeIndex => StartOf(j) <= b /\ b < EndOf(j)
        /\ i > j.rangeIndex => EndOf(j) <= b
    BY <1>2, <2>1, WritingApart
  <2>3. PICK end \in Nat :
             /\ j.offset < end /\ end <= EndOf(j) /\ Lays(j, end, l, m)
             /\ \/ end < EndOf(j) /\ k.offset = end /\ k.rangeIndex = j.rangeIndex /\ k.pass = j.pass
                \/ /\ end = EndOf(j) /\ j.pass < LastPass
                   /\ k.pass = j.pass + 1 /\ k.offset = StartOf(j) /\ k.rangeIndex = j.rangeIndex
                \/ /\ end = EndOf(j) /\ j.pass = LastPass
                   /\ k.rangeIndex = j.rangeIndex + 1 /\ k.pass = 1
                   /\ k.offset = IF j.rangeIndex < Len(j.ranges) THEN j.ranges[j.rangeIndex + 1][1] ELSE 0
    BY <1>4 DEF Writes
  <2>4. m[b] = IF j.offset <= b /\ b < end THEN j.pass ELSE l[b]
    BY <2>3 DEF Lays
  <2>10. i \in 1 .. Len(j.ranges) /\ b \in RangeBytes(j.ranges[i])
    BY <1>2, <2>1
  <2>5. CASE i < j.rangeIndex
    <3>1. m[b] = l[b]
      BY <2>2, <2>4, <2>5
    <3>2. Reached(j, q, b)
      BY <2>1, <2>5, <2>10 DEF Reached
    <3>. QED  BY <3>1, <3>2
  <2>6. CASE i = j.rangeIndex
    <3>1. ASSUME b < j.offset, j.pass >= q PROVE Reached(j, q, b) /\ m[b] = l[b]
      <4>1. m[b] = l[b]
        BY <2>2, <2>4, <3>1
      <4>2. j.pass > q \/ j.pass = q
        BY <2>1, <3>1
      <4>3. Reached(j, q, b)
        BY <2>1, <2>6, <2>10, <3>1, <4>2, Zenon DEF Reached
      <4>. QED  BY <4>1, <4>3
    <3>2. ASSUME b < end, j.pass >= q PROVE (Reached(j, q, b) /\ m[b] = l[b]) \/ m[b] >= q
      <4>1. CASE b < j.offset
        BY <3>1, <3>2, <4>1
      <4>2. CASE ~ (b < j.offset)
        BY <2>2, <2>4, <3>2, <4>2
      <4>. QED  BY <4>1, <4>2
    <3>3. ASSUME j.pass > q PROVE (Reached(j, q, b) /\ m[b] = l[b]) \/ m[b] >= q
      <4>1. Reached(j, q, b)
        BY <2>1, <2>6, <2>10, <3>3 DEF Reached
      <4>2. m[b] = l[b] \/ m[b] = j.pass
        BY <2>4
      <4>. QED  BY <2>1, <3>3, <4>1, <4>2
    <3>4. CASE end < EndOf(j) /\ k.offset = end /\ k.rangeIndex = j.rangeIndex /\ k.pass = j.pass
      BY <1>2, <2>1, <2>2, <2>6, <3>2, <3>3, <3>4
    <3>5. CASE /\ end = EndOf(j) /\ j.pass < LastPass
               /\ k.pass = j.pass + 1 /\ k.offset = StartOf(j) /\ k.rangeIndex = j.rangeIndex
      <4>1. ~ (b < k.offset) /\ k.pass > q /\ b < end
        BY <1>2, <2>2, <2>6, <3>5
      <4>2. j.pass >= q
        BY <2>1, <3>5, <4>1
      <4>. QED  BY <3>2, <4>1, <4>2
    <3>6. CASE end = EndOf(j) /\ j.pass = LastPass
      BY <2>1, <2>2, <2>6, <3>2, <3>6
    <3>. QED  BY <2>3, <3>4, <3>5, <3>6
  <2>7. CASE i > j.rangeIndex
    <3>1. /\ k.rangeIndex = j.rangeIndex + 1 /\ k.pass = 1
          /\ k.offset = IF j.rangeIndex < Len(j.ranges) THEN j.ranges[j.rangeIndex + 1][1] ELSE 0
      BY <1>2, <2>2, <2>3, <2>7
    <3>2. i = j.rangeIndex + 1 /\ b < k.offset /\ i \in 1 .. Len(j.ranges)
      BY <1>2, <2>1, <2>2, <2>7, <3>1
    <3>3. k.offset = j.ranges[i][1]
      BY <2>2, <3>1, <3>2
    <3>4. j.ranges[i][1] <= b /\ j.ranges[i][1] \in Nat
      BY <1>2, <2>1, <3>2, RangeTyped
    <3>. QED  BY <2>2, <3>2, <3>3, <3>4
  <2>. QED  BY <2>2, <2>5, <2>6, <2>7
<1>5. CASE Ends(j, k, l, m)
  BY <1>2, <1>5 DEF Ends, SameLoops, SamePlace, Reached
<1>6. CASE k = j /\ m = l
  BY <1>6
<1>. QED  BY <1>1, <1>3, <1>4, <1>5, <1>6 DEF Steps, Searches, Breaks


\* What was laid stays, step by step, if nobody else writes.
LEMMA StepsLaid ==
    ASSUME NEW j, NEW k, NEW l \in Images, NEW m, JobOk(j), LaidBy(j, l), Steps(j, k, l, m)
    PROVE  LaidBy(k, m)
<1>. USE PassesAreSome
<1>1. CASE k.pc \notin {"writing", "done"}
  BY <1>1 DEF LaidBy
<1>2. CASE Begins(j, k, l, m)
  <2>1. k.rangeIndex = 1 /\ k.pass = 1 /\ k.ranges = j.ranges
        /\ (k.ranges # <<>> => k.offset = j.ranges[1][1])
    BY <1>2 DEF Begins, SameLoops
  <2>2. \A i \in 1 .. Len(k.ranges) : ~ (i < k.rangeIndex)
    BY <2>1 DEF JobOk, RangesOf
  <2>3. ASSUME IsWriting(k), NEW b \in RangeBytes(k.ranges[k.rangeIndex]) PROVE ~ (b < k.offset)
    <3>1. 1 \in 1 .. Len(j.ranges) /\ k.ranges # <<>>
      BY <2>1, <2>3 DEF IsWriting, JobOk, RangesOf
    <3>2. b \in Int /\ j.ranges[1][1] <= b /\ j.ranges[1][1] \in Nat
      BY <2>1, <2>3, <3>1, RangeTyped
    <3>. QED  BY <2>1, <3>1, <3>2
  <2>4. ~ (k.pass > 1)
    BY <2>1
  <2>. QED  BY <2>2, <2>3, <2>4 DEF LaidBy
<1>3. CASE Writes(j, k, l, m)
  <2>1. IsWriting(j) /\ k.ranges = j.ranges /\ j.pc = "writing" /\ j.pass \in 1 .. LastPass
        /\ k.pc = "writing"
    BY <1>3 DEF Writes, IsWriting, SameLoops, JobOk, PlaceOf
  <2>2. /\ j.rangeIndex \in 1 .. Len(j.ranges) /\ Len(j.ranges) \in Nat
        /\ j.offset \in Nat /\ StartOf(j) \in Nat /\ EndOf(j) \in Nat
        /\ StartOf(j) <= j.offset /\ j.offset < EndOf(j)
    BY <2>1, WritingApart
  <2>3. PICK end \in Nat :
             /\ j.offset < end /\ end <= EndOf(j) /\ Lays(j, end, l, m)
             /\ \/ end < EndOf(j) /\ k.offset = end /\ k.rangeIndex = j.rangeIndex /\ k.pass = j.pass
                \/ /\ end = EndOf(j) /\ j.pass < LastPass
                   /\ k.pass = j.pass + 1 /\ k.offset = StartOf(j) /\ k.rangeIndex = j.rangeIndex
                \/ /\ end = EndOf(j) /\ j.pass = LastPass
                   /\ k.rangeIndex = j.rangeIndex + 1 /\ k.pass = 1
                   /\ k.offset = IF j.rangeIndex < Len(j.ranges) THEN j.ranges[j.rangeIndex + 1][1] ELSE 0
    BY <1>3 DEF Writes
  <2>4. ASSUME NEW i \in 1 .. Len(j.ranges), i < j.rangeIndex, NEW b \in RangeBytes(j.ranges[i])
        PROVE  m[b] = LastPass
    <3>1. b \in VolumeBytes /\ b \in Int /\ b < StartOf(j)
      BY <2>1, <2>4, WritingApart
    <3>2. m[b] = l[b]
      BY <2>2, <2>3, <3>1 DEF Lays
    <3>. QED  BY <2>1, <2>4, <3>2 DEF LaidBy
  <2>5. ASSUME NEW b \in RangeBytes(j.ranges[j.rangeIndex])
        PROVE  /\ b \in Int /\ StartOf(j) <= b /\ b < EndOf(j)
               /\ b < end => m[b] = j.pass
               /\ end <= b /\ j.pass > 1 => m[b] = j.pass - 1
    <3>1. b \in VolumeBytes /\ b \in Int /\ StartOf(j) <= b /\ b < EndOf(j)
      BY <2>1, <2>2, <2>5, WritingApart
    <3>2. m[b] = IF j.offset <= b /\ b < end THEN j.pass ELSE l[b]
      BY <2>3, <3>1 DEF Lays
    <3>3. /\ b < j.offset => l[b] = j.pass
          /\ j.offset <= b /\ j.pass > 1 => l[b] = j.pass - 1
      BY <2>1, <2>5 DEF LaidBy
    <3>. QED  BY <2>2, <2>3, <3>1, <3>2, <3>3
  <2>6. CASE end < EndOf(j) /\ k.offset = end /\ k.rangeIndex = j.rangeIndex /\ k.pass = j.pass
    BY <2>1, <2>4, <2>5, <2>6 DEF LaidBy
  <2>7. CASE /\ end = EndOf(j) /\ j.pass < LastPass
             /\ k.pass = j.pass + 1 /\ k.offset = StartOf(j) /\ k.rangeIndex = j.rangeIndex
    <3>1. \A b \in RangeBytes(j.ranges[j.rangeIndex]) :
             m[b] = j.pass /\ ~ (b < k.offset) /\ k.pass - 1 = j.pass
      BY <2>1, <2>2, <2>5, <2>7
    <3>. QED  BY <2>1, <2>4, <2>7, <3>1 DEF LaidBy
  <2>8. CASE /\ end = EndOf(j) /\ j.pass = LastPass
             /\ k.rangeIndex = j.rangeIndex + 1 /\ k.pass = 1
             /\ k.offset = IF j.rangeIndex < Len(j.ranges) THEN j.ranges[j.rangeIndex + 1][1] ELSE 0
    <3>1. ASSUME NEW i \in 1 .. Len(j.ranges), i < k.rangeIndex, NEW b \in RangeBytes(j.ranges[i])
          PROVE  m[b] = LastPass
      <4>1. CASE i < j.rangeIndex
        BY <2>4, <3>1, <4>1
      <4>2. CASE i = j.rangeIndex
        BY <2>5, <2>8, <3>1, <4>2
      <4>. QED  BY <2>2, <2>8, <3>1, <4>1, <4>2
    <3>2. ASSUME IsWriting(k), NEW b \in RangeBytes(j.ranges[k.rangeIndex]) PROVE ~ (b < k.offset)
      <4>. DEFINE i == j.rangeIndex + 1
      <4>1. k.rangeIndex = i /\ i <= Len(j.ranges)
        BY <2>1, <2>8, <3>2 DEF IsWriting
      <4>2. i \in 1 .. Len(j.ranges) /\ j.rangeIndex < Len(j.ranges)
        BY <2>2, <4>1
      <4>3. k.offset = j.ranges[i][1]
        BY <2>8, <4>2
      <4>4. b \in RangeBytes(j.ranges[i])
        BY <3>2, <4>1
      <4>. HIDE DEF i
      <4>5. b \in Int /\ j.ranges[i][1] <= b /\ j.ranges[i][1] \in Nat
        BY <4>2, <4>4, RangeTyped
      <4>. QED  BY <4>3, <4>5
    <3>3. ~ (k.pass > 1)
      BY <2>8
    <3>. QED  BY <2>1, <3>1, <3>2, <3>3 DEF LaidBy
  <2>. QED  BY <2>3, <2>6, <2>7, <2>8
<1>4. CASE Ends(j, k, l, m)
  BY <1>4 DEF Ends, SameLoops, SamePlace, LaidBy, IsWriting
<1>5. CASE k = j /\ m = l
  BY <1>5
<1>. QED  BY <1>1, <1>2, <1>3, <1>4, <1>5 DEF Steps, Searches, Breaks

-----------------------------------------------------------------------------
(* The steps of the job are such steps                                     *)

LEMMA FirstFields ==
    /\ FirstJob.pc = pc /\ FirstJob.cluster = cluster /\ FirstJob.runStart = runStart
    /\ FirstJob.ranges = ranges /\ FirstJob.rangeIndex = rangeIndex
    /\ FirstJob.pass = pass /\ FirstJob.offset = offset
BY DEF FirstJob

LEMMA FirstFieldsNext ==
    /\ FirstJob'.pc = pc' /\ FirstJob'.cluster = cluster' /\ FirstJob'.runStart = runStart'
    /\ FirstJob'.ranges = ranges' /\ FirstJob'.rangeIndex = rangeIndex'
    /\ FirstJob'.pass = pass' /\ FirstJob'.offset = offset'
BY DEF FirstJob

LEMMA FirstSteps ==
    ASSUME JobOk(FirstJob), JobStep \/ Crash \/ RunAgain
    PROVE  Steps(FirstJob, FirstJob', layer, layer')
<1>. DEFINE j == FirstJob
            k == FirstJob'
<1>0. /\ j.pc = pc /\ j.cluster = cluster /\ j.runStart = runStart /\ j.ranges = ranges
      /\ j.rangeIndex = rangeIndex /\ j.pass = pass /\ j.offset = offset
      /\ k.pc = pc' /\ k.cluster = cluster' /\ k.runStart = runStart' /\ k.ranges = ranges'
      /\ k.rangeIndex = rangeIndex' /\ k.pass = pass' /\ k.offset = offset'
  BY FirstFields, FirstFieldsNext
<1>. HIDE DEF j, k
<1>1. JobOk(j) /\ NoRun \notin Clusters /\ TotalClusters \in Nat
  BY GeometryAssumption DEF j, NoRun, Clusters
<1>2. CASE Refuse \/ OpenFails \/ Open \/ WriteOutOfBounds \/ VerifyFails \/ Crash \/ RunAgain
  <2>1. Breaks(j, k, layer, layer')
    BY <1>0, <1>2 DEF Breaks, SameLoops, SamePlace, Refuse, OpenFails, Open, WriteOutOfBounds,
       VerifyFails, Crash, RunAgain, freeSpaceVars, loopVars, loopPosition, Ended
  <2>. QED  BY <2>1 DEF Steps, j, k
<1>3. CASE FindRanges
  <2>1. /\ j.pc = "ranging" /\ k.pc = "ranging" /\ SamePlace(j, k) /\ layer' = layer
    BY <1>0, <1>3 DEF FindRanges, jobVars, loopPosition, SamePlace
  <2>2. CASE ExamineCluster
    <3>1. cluster < TotalClusters /\ cluster' = cluster + 1
      BY <2>2 DEF ExamineCluster
    <3>2. ASSUME OpensRun PROVE Closes(j, k) \/ GoesOn(j, k)
      BY <1>0, <3>1, <3>2 DEF OpensRun, GoesOn
    <3>3. ASSUME ClosesRun PROVE Closes(j, k) \/ GoesOn(j, k)
      BY <1>0, <3>1, <3>3 DEF ClosesRun, CloseRun, Closes
    <3>4. ASSUME StaysInRun PROVE Closes(j, k) \/ GoesOn(j, k)
      BY <1>0, <3>1, <3>4 DEF StaysInRun, GoesOn
    <3>5. Closes(j, k) \/ GoesOn(j, k)
      BY <2>2, <3>2, <3>3, <3>4 DEF ExamineCluster
    <3>. QED  BY <2>1, <3>5 DEF Searches, Steps, j, k
  <2>3. CASE CloseLastRun
    <3>1. Closes(j, k)
      BY <1>0, <2>3 DEF CloseLastRun, CloseRun, Closes
    <3>. QED  BY <2>1, <3>1 DEF Searches, Steps, j, k
  <2>. QED  BY <1>3, <2>2, <2>3 DEF FindRanges, FreeSpaceNext
<1>4. CASE StartWriting
  <2>1. ranges # <<>> => ranges[1][1] \in Nat
    <3>1. ASSUME ranges # <<>> PROVE 1 \in 1 .. Len(j.ranges)
      BY <1>0, <1>1, <3>1 DEF JobOk, RangesOf
    <3>. QED  BY <1>0, <1>1, <3>1, RangeTyped
  <2>2. Begins(j, k, layer, layer')
    BY <1>0, <1>4, <2>1 DEF Begins, StartWriting, SameLoops, RangesDone, freeSpaceVars, loopVars
  <2>. QED  BY <2>2 DEF Steps, j, k
<1>5. ASSUME Writing
      PROVE  /\ IsWriting(j) /\ RangeStart = StartOf(j) /\ RangeEnd = EndOf(j)
             /\ offset \in Nat /\ ChunkEnd \in Nat /\ offset < ChunkEnd /\ ChunkEnd <= EndOf(j)
             /\ EndOf(j) \in Nat
  <2>1. IsWriting(j) /\ RangeStart = StartOf(j) /\ RangeEnd = EndOf(j)
    BY <1>0, <1>5 DEF Writing, IsWriting, RangeStart, RangeEnd, StartOf, EndOf
  <2>2. offset \in Nat /\ EndOf(j) \in Nat /\ offset < EndOf(j)
    BY <1>0, <1>1, <2>1, WritingApart
  <2>. QED  BY <2>1, <2>2, WipeAssumption DEF ChunkEnd
<1>6. CASE WriteChunk
  <2>1. /\ Writing /\ Lays(j, ChunkEnd, layer, layer') /\ SameLoops(j, k) /\ k.pc = "writing"
    BY <1>0, <1>6 DEF WriteChunk, Writing, Overwrite, Lays, SameLoops, freeSpaceVars, loopVars
  <2>2. NextChunk \/ NextPass \/ NextRange
    BY <1>6 DEF WriteChunk
  <2>3. Writes(j, k, layer, layer')
    <3>1. CASE NextChunk
      BY <1>0, <1>5, <2>1, <3>1 DEF NextChunk, Writes
    <3>2. CASE NextPass
      BY <1>0, <1>5, <2>1, <3>2 DEF NextPass, Writes, LastPass
    <3>3. CASE NextRange
      BY <1>0, <1>5, <2>1, <3>3 DEF NextRange, Writes, LastPass
    <3>. QED  BY <2>2, <3>1, <3>2, <3>3
  <2>. QED  BY <2>3 DEF Steps, j, k
<1>7. CASE WriteFails
  <2>1. Writing /\ SameLoops(j, k) /\ SamePlace(j, k) /\ k.pc \notin {"writing", "done"}
    BY <1>0, <1>7 DEF WriteFails, SameLoops, SamePlace, freeSpaceVars, loopVars, loopPosition
  <2>2. PICK end \in offset .. ChunkEnd - 1 : Overwrite(end)
    BY <1>7 DEF WriteFails
  <2>3. end \in Nat /\ end <= EndOf(j) /\ Lays(j, end, layer, layer')
    BY <1>0, <1>5, <2>1, <2>2 DEF Overwrite, Lays
  <2>4. Breaks(j, k, layer, layer')
    BY <1>5, <2>1, <2>3 DEF Breaks
  <2>. QED  BY <2>4 DEF Steps, j, k
<1>8. CASE Finish
  <2>1. Ends(j, k, layer, layer')
    BY <1>0, <1>8 DEF Ends, Finish, SameLoops, SamePlace, freeSpaceVars, loopVars, loopPosition
  <2>. QED  BY <2>1 DEF Steps, j, k
<1>. QED  BY <1>2, <1>3, <1>4, <1>6, <1>7, <1>8 DEF JobStep

LEMMA OtherFields ==
    /\ OtherJob.pc = otherPc /\ OtherJob.cluster = otherCluster /\ OtherJob.runStart = otherRunStart
    /\ OtherJob.ranges = otherRanges /\ OtherJob.rangeIndex = otherRangeIndex
    /\ OtherJob.pass = otherPass /\ OtherJob.offset = otherOffset
BY DEF OtherJob

LEMMA OtherFieldsNext ==
    /\ OtherJob'.pc = otherPc' /\ OtherJob'.cluster = otherCluster'
    /\ OtherJob'.runStart = otherRunStart'
    /\ OtherJob'.ranges = otherRanges' /\ OtherJob'.rangeIndex = otherRangeIndex'
    /\ OtherJob'.pass = otherPass' /\ OtherJob'.offset = otherOffset'
BY DEF OtherJob

LEMMA OtherSteps ==
    ASSUME JobOk(OtherJob), Other!JobStep \/ Other!Crash \/ Other!RunAgain
    PROVE  Steps(OtherJob, OtherJob', layer, layer')
<1>. DEFINE j == OtherJob
            k == OtherJob'
<1>0. /\ j.pc = otherPc /\ j.cluster = otherCluster
      /\ j.runStart = otherRunStart /\ j.ranges = otherRanges
      /\ j.rangeIndex = otherRangeIndex /\ j.pass = otherPass /\ j.offset = otherOffset
      /\ k.pc = otherPc' /\ k.cluster = otherCluster'
      /\ k.runStart = otherRunStart' /\ k.ranges = otherRanges'
      /\ k.rangeIndex = otherRangeIndex' /\ k.pass = otherPass' /\ k.offset = otherOffset'
  BY OtherFields, OtherFieldsNext
<1>. HIDE DEF j, k
<1>1. JobOk(j) /\ NoRun \notin Clusters /\ TotalClusters \in Nat
  BY GeometryAssumption DEF j, NoRun, Clusters
<1>2. CASE \/ Other!Refuse \/ Other!OpenFails \/ Other!Open \/ Other!WriteOutOfBounds
           \/ Other!VerifyFails \/ Other!Crash \/ Other!RunAgain
  <2>1. Breaks(j, k, layer, layer')
    BY <1>0, <1>2 DEF Breaks, SameLoops, SamePlace, Other!Refuse, Other!OpenFails, Other!Open,
       Other!WriteOutOfBounds, Other!VerifyFails, Other!Crash, Other!RunAgain, Other!freeSpaceVars, Other!loopVars,
       Other!loopPosition, Other!Ended, Other!NoRun, NoRun
  <2>. QED  BY <2>1 DEF Steps, j, k
<1>3. CASE Other!FindRanges
  <2>1. /\ j.pc = "ranging" /\ k.pc = "ranging" /\ SamePlace(j, k) /\ layer' = layer
    BY <1>0, <1>3 DEF Other!FindRanges, Other!jobVars, Other!loopPosition, SamePlace
  <2>2. CASE Other!ExamineCluster
    <3>1. otherCluster < TotalClusters /\ otherCluster' = otherCluster + 1
      BY <2>2 DEF Other!ExamineCluster
    <3>2. ASSUME Other!OpensRun PROVE Closes(j, k) \/ GoesOn(j, k)
      BY <1>0, <3>1, <3>2 DEF Other!OpensRun, GoesOn, Other!ReadsFree, ReadsFree, Other!NoRun, NoRun
    <3>3. ASSUME Other!ClosesRun PROVE Closes(j, k) \/ GoesOn(j, k)
      BY <1>0, <3>1, <3>3 DEF Other!ClosesRun, Other!CloseRun, Closes,
         Other!ReadsFree, ReadsFree, Other!NoRun, NoRun, Other!ClusterOffset, ClusterOffset
    <3>4. ASSUME Other!StaysInRun PROVE Closes(j, k) \/ GoesOn(j, k)
      BY <1>0, <3>1, <3>4 DEF Other!StaysInRun, GoesOn, Other!ReadsFree, ReadsFree, Other!NoRun, NoRun
    <3>5. Closes(j, k) \/ GoesOn(j, k)
      BY <2>2, <3>2, <3>3, <3>4 DEF Other!ExamineCluster
    <3>. QED  BY <2>1, <3>5 DEF Searches, Steps, j, k
  <2>3. CASE Other!CloseLastRun
    <3>1. Closes(j, k)
      BY <1>0, <2>3 DEF Other!CloseLastRun, Other!CloseRun, Closes,
         Other!NoRun, NoRun, Other!ClusterOffset, ClusterOffset
    <3>. QED  BY <2>1, <3>1 DEF Searches, Steps, j, k
  <2>. QED  BY <1>3, <2>2, <2>3 DEF Other!FindRanges, Other!FreeSpaceNext
<1>4. CASE Other!StartWriting
  <2>1. otherRanges # <<>> => otherRanges[1][1] \in Nat
    <3>1. ASSUME otherRanges # <<>> PROVE 1 \in 1 .. Len(j.ranges)
      BY <1>0, <1>1, <3>1 DEF JobOk, RangesOf
    <3>. QED  BY <1>0, <1>1, <3>1, RangeTyped
  <2>2. Begins(j, k, layer, layer')
    BY <1>0, <1>4, <2>1 DEF Begins, Other!StartWriting, SameLoops,
       Other!RangesDone, Other!NoRun, NoRun, Other!freeSpaceVars, Other!loopVars
  <2>. QED  BY <2>2 DEF Steps, j, k
<1>5. ASSUME Other!Writing
      PROVE  /\ IsWriting(j) /\ Other!RangeStart = StartOf(j) /\ Other!RangeEnd = EndOf(j)
             /\ otherOffset \in Nat /\ Other!ChunkEnd \in Nat
             /\ otherOffset < Other!ChunkEnd /\ Other!ChunkEnd <= EndOf(j)
             /\ EndOf(j) \in Nat
  <2>1. IsWriting(j) /\ Other!RangeStart = StartOf(j) /\ Other!RangeEnd = EndOf(j)
    BY <1>0, <1>5 DEF Other!Writing, IsWriting, Other!RangeStart, Other!RangeEnd, StartOf, EndOf
  <2>2. otherOffset \in Nat /\ EndOf(j) \in Nat /\ otherOffset < EndOf(j)
    BY <1>0, <1>1, <2>1, WritingApart
  <2>. QED  BY <2>1, <2>2, WipeAssumption DEF Other!ChunkEnd
<1>6. CASE Other!WriteChunk
  <2>1. /\ Other!Writing /\ Lays(j, Other!ChunkEnd, layer, layer') /\ SameLoops(j, k) /\ k.pc = "writing"
    BY <1>0, <1>6 DEF Other!WriteChunk, Other!Writing, Other!Overwrite, Lays,
       SameLoops, Other!freeSpaceVars, Other!loopVars,
       Other!VolumeBytes, VolumeBytes, Other!ClusterOffset, ClusterOffset
  <2>2. Other!NextChunk \/ Other!NextPass \/ Other!NextRange
    BY <1>6 DEF Other!WriteChunk
  <2>3. Writes(j, k, layer, layer')
    <3>1. CASE Other!NextChunk
      BY <1>0, <1>5, <2>1, <3>1 DEF Other!NextChunk, Writes
    <3>2. CASE Other!NextPass
      BY <1>0, <1>5, <2>1, <3>2 DEF Other!NextPass, Writes, LastPass
    <3>3. CASE Other!NextRange
      BY <1>0, <1>5, <2>1, <3>3 DEF Other!NextRange, Writes, LastPass
    <3>. QED  BY <2>2, <3>1, <3>2, <3>3
  <2>. QED  BY <2>3 DEF Steps, j, k
<1>7. CASE Other!WriteFails
  <2>1. Other!Writing /\ SameLoops(j, k) /\ SamePlace(j, k) /\ k.pc \notin {"writing", "done"}
    BY <1>0, <1>7 DEF Other!WriteFails, SameLoops, SamePlace,
       Other!freeSpaceVars, Other!loopVars, Other!loopPosition
  <2>2. PICK end \in otherOffset .. Other!ChunkEnd - 1 : Other!Overwrite(end)
    BY <1>7 DEF Other!WriteFails
  <2>3. end \in Nat /\ end <= EndOf(j) /\ Lays(j, end, layer, layer')
    BY <1>0, <1>5, <2>1, <2>2 DEF Other!Overwrite, Lays,
       Other!VolumeBytes, VolumeBytes, Other!ClusterOffset, ClusterOffset
  <2>4. Breaks(j, k, layer, layer')
    BY <1>5, <2>1, <2>3 DEF Breaks
  <2>. QED  BY <2>4 DEF Steps, j, k
<1>8. CASE Other!Finish
  <2>1. Ends(j, k, layer, layer')
    BY <1>0, <1>8 DEF Ends, Other!Finish, SameLoops, SamePlace,
       Other!freeSpaceVars, Other!loopVars, Other!loopPosition
  <2>. QED  BY <2>1 DEF Steps, j, k
<1>. QED  BY <1>2, <1>3, <1>4, <1>6, <1>7, <1>8 DEF Other!JobStep

-----------------------------------------------------------------------------
(* What a job that is done has done                                        *)

\* A job stays in order when clusters are taken from the free ones.
LEMMA FirstOkNext ==
    ASSUME JobOk(FirstJob'), \A c \in Clusters : ReadsFree(c)' => ReadsFree(c)
    PROVE  JobOk(FirstJob)'
BY DEF JobOk, RangesOf, FreeCovered, PlaceOf, FrontierOf, IsWriting, StartOf, EndOf

LEMMA OtherOkNext ==
    ASSUME JobOk(OtherJob'), \A c \in Clusters : ReadsFree(c)' => ReadsFree(c)
    PROVE  JobOk(OtherJob)'
BY DEF JobOk, RangesOf, FreeCovered, PlaceOf, FrontierOf, IsWriting, StartOf, EndOf

LEMMA LaidNext == LaidBy(FirstJob', layer') => LaidBy(FirstJob, layer)'
BY DEF LaidBy, IsWriting

LEMMA ReachedNext ==
    /\ \A q, b : Reached(FirstJob, q, b)' <=> Reached(FirstJob', q, b)
    /\ \A q, b : Reached(OtherJob, q, b)' <=> Reached(OtherJob', q, b)
BY DEF Reached

LEMMA DoneReached ==
    ASSUME NEW j, JobOk(j), j.pc = "done", NEW c \in Clusters, ReadsFree(c),
           NEW b \in ClusterBytes(c), NEW q
    PROVE  /\ \E i \in 1 .. Len(j.ranges) : b \in RangeBytes(j.ranges[i]) /\ i < j.rangeIndex
           /\ Reached(j, q, b)
<1>1. FrontierOf(j) = TotalClusters /\ j.rangeIndex > Len(j.ranges) /\ Len(j.ranges) \in Nat
      /\ j.rangeIndex \in Nat
  BY DEF JobOk, PlaceOf, FrontierOf, RangesOf
<1>2. c < FrontierOf(j)
  BY <1>1, GeometryAssumption DEF Clusters
<1>3. PICK i \in 1 .. Len(j.ranges) : b \in RangeBytes(j.ranges[i])
  BY <1>2, Zenon DEF JobOk, FreeCovered
<1>4. i < j.rangeIndex
  BY <1>1, <1>3
<1>. QED  BY <1>3, <1>4 DEF Reached

-----------------------------------------------------------------------------
(* One job alone                                                           *)

AloneOk == JobOk(FirstJob) /\ LaidBy(FirstJob, layer) /\ layer \in Images

LEMMA StartOk ==
    ASSUME NEW j, j.pc = "start", j.cluster = FirstCluster, j.runStart = NoRun,
           j.ranges = <<>>, j.rangeIndex = 1, j.pass = 1, j.offset = 0
    PROVE  JobOk(j) /\ LaidBy(j, layer) /\ \A q, b : ~ Reached(j, q, b)
<1>1. FrontierOf(j) = FirstCluster /\ \A c \in Clusters : ~ (c < FirstCluster)
  BY GeometryAssumption DEF FrontierOf, Clusters
<1>2. RangesOf(j) /\ FreeCovered(j)
  BY <1>1 DEF RangesOf, FreeCovered
<1>3. PlaceOf(j)
  BY PassesAreSome, GeometryAssumption DEF PlaceOf, IsWriting
<1>. QED  BY <1>2, <1>3 DEF JobOk, LaidBy, Reached

LEMMA AloneInitOk == Init => AloneOk
<1>. SUFFICES ASSUME Init PROVE AloneOk
  OBVIOUS
<1>1. JobOk(FirstJob) /\ LaidBy(FirstJob, layer)
  BY StartOk, FirstFields DEF Init, FreeSpaceInit, LoopInit
<1>2. layer \in Images
  BY PassesAreSome DEF Init, Images
<1>. QED  BY <1>1, <1>2 DEF AloneOk

\* The job changes nothing on the volume but free space.
LEMMA FirstLeaves ==
    ASSUME JobStep \/ Crash \/ RunAgain
    PROVE  live' = live /\ unreadable' = unreadable /\ allocations' = allocations
BY DEF JobStep, Crash, RunAgain, Refuse, OpenFails, Open, FindRanges, FreeSpaceNext,
   ExamineCluster, CloseLastRun, StartWriting, WriteChunk, WriteOutOfBounds, WriteFails, Finish,
   VerifyFails, freeSpaceVars, loopVars, jobVars

LEMMA FreeKept ==
    ASSUME live' = live, unreadable' = unreadable
    PROVE  \A c : ReadsFree(c)' <=> ReadsFree(c)
BY DEF ReadsFree

LEMMA FirstIdle ==
    ASSUME UNCHANGED vars
    PROVE  FirstJob' = FirstJob /\ layer' = layer /\ live' = live /\ unreadable' = unreadable
BY DEF vars, freeSpaceVars, loopVars, jobVars, loopPosition, FirstJob

LEMMA NextSteps ==
    ASSUME JobOk(FirstJob), [Next]_vars
    PROVE  Steps(FirstJob, FirstJob', layer, layer') /\ live' = live /\ unreadable' = unreadable
<1>1. CASE Next
  BY <1>1, FirstSteps, FirstLeaves DEF Next
<1>2. CASE UNCHANGED vars
  BY <1>2, FirstIdle DEF Steps
<1>. QED  BY <1>1, <1>2

LEMMA AloneNextOk == AloneOk /\ [Next]_vars => AloneOk'
<1>. SUFFICES ASSUME AloneOk, [Next]_vars PROVE AloneOk'
  OBVIOUS
<1>1. /\ Steps(FirstJob, FirstJob', layer, layer')
      /\ JobOk(FirstJob) /\ LaidBy(FirstJob, layer) /\ layer \in Images
      /\ \A c \in Clusters : ReadsFree(c)' => ReadsFree(c)
  BY NextSteps, FreeKept DEF AloneOk
<1>2. JobOk(FirstJob') /\ LaidBy(FirstJob', layer') /\ layer' \in Images
  BY <1>1, StepsOk, StepsLaid, StepsTyped
<1>3. JobOk(FirstJob)' /\ LaidBy(FirstJob, layer)'
  BY <1>1, <1>2, FirstOkNext, LaidNext
<1>4. Images' = Images
  BY DEF Images, LastPass, VolumeBytes, ClusterOffset
<1>. QED  BY <1>2, <1>3, <1>4 DEF AloneOk

LEMMA AloneInvariant == Spec => []AloneOk
BY AloneInitOk, AloneNextOk, PTL DEF Spec

\* A wipe that returns Ok has put the last pass on every byte of every cluster
\* that reads as free, whatever the table reads like, and however often the job
\* has failed or died before.
THEOREM OkMeansWiped == Spec => []DoneMeansWiped
<1>1. AloneOk => DoneMeansWiped
  <2>. SUFFICES ASSUME AloneOk, pc = "done", NEW c \in Clusters, ReadsFree(c),
                       NEW b \in ClusterBytes(c)
                PROVE  layer[b] = Len(Passes)
    BY DEF DoneMeansWiped
  <2>1. FirstJob.pc = "done" /\ JobOk(FirstJob) /\ LaidBy(FirstJob, layer)
    BY FirstFields DEF AloneOk
  <2>2. PICK i \in 1 .. Len(FirstJob.ranges) :
             b \in RangeBytes(FirstJob.ranges[i]) /\ i < FirstJob.rangeIndex
    BY <2>1, DoneReached
  <2>. QED  BY <2>1, <2>2 DEF LaidBy, LastPass
<1>. QED  BY <1>1, AloneInvariant, PTL

\* Passes are laid in order: no byte gets a pass over one that was left out.
THEOREM PassesAreInOrder == Spec => PassesInOrder
<1>1. ASSUME AloneOk, [Next]_vars, NEW b \in VolumeBytes, layer'[b] \notin {0, layer[b]}
      PROVE  layer'[b] = 1 \/ layer'[b] = layer[b] + 1
  <2>. DEFINE j == FirstJob
              k == FirstJob'
  <2>1. JobOk(j) /\ LaidBy(j, layer) /\ layer \in Images /\ Steps(j, k, layer, layer')
    BY <1>1, NextSteps DEF AloneOk
  <2>. HIDE DEF j, k
  <2>2. ASSUME IsWriting(j), NEW end \in Nat, end <= EndOf(j), Lays(j, end, layer, layer')
        PROVE  layer'[b] = 1 \/ layer'[b] = layer[b] + 1
    <3>1. layer'[b] = j.pass /\ j.offset <= b /\ b < end
      BY <1>1, <2>2 DEF Lays
    <3>2. j.offset \in Nat /\ StartOf(j) \in Nat /\ EndOf(j) \in Nat /\ StartOf(j) <= j.offset
      BY <2>1, <2>2, WritingApart
    <3>3. b \in Int
      BY DEF VolumeBytes
    <3>4. b \in RangeBytes(j.ranges[j.rangeIndex])
      BY <2>2, <3>1, <3>2, <3>3 DEF RangeBytes, StartOf, EndOf
    <3>5. j.pc = "writing" /\ j.pass \in 1 .. LastPass
      BY <2>1, <2>2 DEF IsWriting, JobOk, PlaceOf
    <3>6. j.pass > 1 => layer[b] = j.pass - 1
      BY <2>1, <2>2, <3>1, <3>4, <3>5 DEF LaidBy
    <3>. QED  BY <3>1, <3>5, <3>6, PassesAreSome
  <2>3. layer' # layer
    BY <1>1
  <2>. QED  BY <2>1, <2>2, <2>3 DEF Steps, Searches, Begins, Writes, Ends, Breaks
<1>2. AloneOk /\ [Next]_vars =>
         [\A b \in VolumeBytes :
             layer'[b] \notin {0, layer[b]} => layer'[b] = 1 \/ layer'[b] = layer[b] + 1]_vars
  BY <1>1
<1>. QED  BY <1>2, AloneInvariant, PTL DEF Spec, PassesInOrder

\* What the job finds at its end, if its passes are on its ranges still.
LEMMA FinishFindsNothing ==
    ASSUME JobOk(FirstJob), LaidBy(FirstJob, layer), Finish, verify',
           Passes[Len(Passes)] # "Random"
    PROVE  found' = 0
<1>1. /\ pc = "writing" /\ rangeIndex > Len(ranges) /\ verify
      /\ found' \in IF \E b \in Covered : MayHoldHeader(b) THEN {0, 1} ELSE {0}
  BY DEF Finish
<1>2. Len(ranges) \in Nat /\ rangeIndex \in Nat
  BY FirstFields DEF JobOk, PlaceOf, RangesOf
<1>3. ASSUME NEW b \in Covered PROVE ~ MayHoldHeader(b)
  <2>1. PICK i \in 1 .. Len(ranges) : b \in RangeBytes(ranges[i])
    BY DEF Covered
  <2>2. i < rangeIndex
    BY <1>1, <1>2
  <2>3. layer[b] = LastPass
    BY <1>1, <2>1, <2>2, FirstFields DEF LaidBy
  <2>. QED  BY <2>3, PassesAreSome DEF MayHoldHeader, LastPass
<1>. QED  BY <1>1, <1>3

\* A step other than the end of the job leaves what it found.
LEMMA FoundStays ==
    ASSUME Next, ~ Finish, pc' = "done"
    PROVE  UNCHANGED <<pc, verify, allocations, found>>
BY DEF Next, JobStep, Refuse, OpenFails, Open, FindRanges, StartWriting, WriteChunk,
   WriteOutOfBounds, WriteFails, VerifyFails, Crash, RunAgain, jobVars, Writing

\* After a pattern that does not end in random bytes, the verification of a
\* wipe that nothing else disturbs finds no file.
THEOREM OkVerifiesClean == Spec => []VerifiedClean
<1>1. Init => VerifiedClean
  BY DEF Init, VerifiedClean
<1>2. AloneOk /\ VerifiedClean /\ [Next]_vars => VerifiedClean'
  <2>. SUFFICES ASSUME AloneOk, VerifiedClean, [Next]_vars PROVE VerifiedClean'
    OBVIOUS
  <2>1. CASE Finish
    BY <2>1, FinishFindsNothing DEF AloneOk, VerifiedClean
  <2>2. CASE Next /\ ~ Finish
    BY <2>2, FoundStays DEF VerifiedClean
  <2>3. CASE UNCHANGED vars
    BY <2>3 DEF VerifiedClean, vars, jobVars
  <2>. QED  BY <2>1, <2>2, <2>3
<1>. QED  BY <1>1, <1>2, AloneInvariant, PTL DEF Spec

-----------------------------------------------------------------------------
(* What the job reports                                                    *)

FreeBefore(k) == {c \in Clusters : c < k /\ ReadsFree(c)}
BytesBefore(k) == UNION {ClusterBytes(c) : c \in FreeBefore(k)}

\* The bytes of the ranges that are finished.
Behind(n) == UNION {RangeBytes(ranges[i]) : i \in {h \in 1 .. Len(ranges) : h < n}}

CountInv ==
    /\ AloneOk /\ LoopInv
    /\ pc \in {"start", "ranging"} => bytesWritten = 0
    /\ pc \in {"writing", "done"} => bytesWritten = Cardinality(Behind(rangeIndex))

LEMMA VolumeIsFinite == IsFiniteSet(VolumeBytes) /\ IsFiniteSet(Clusters)
<1>1. ClusterOffset(TotalClusters) \in Nat /\ TotalClusters \in Nat /\ FirstCluster \in Nat
  BY GeometryAssumption, OffsetType
<1>2. /\ ClusterOffset(TotalClusters) - 1 \in Int /\ TotalClusters - 1 \in Int
      /\ 0 \in Int /\ FirstCluster \in Int
  BY <1>1
<1>. QED  BY <1>2, FS_Interval, Zenon DEF VolumeBytes, Clusters

\* A cluster's bytes are ClusterSize of them.
LEMMA ClusterCount ==
    ASSUME NEW c \in Clusters
    PROVE  IsFiniteSet(ClusterBytes(c)) /\ Cardinality(ClusterBytes(c)) = ClusterSize
<1>. DEFINE first == ClusterOffset(c)
            last == ClusterOffset(c) + ClusterSize - 1
<1>1. first \in Int /\ last \in Int /\ ~ (first > last) /\ last - first + 1 = ClusterSize
  BY ClusterInVolume, GeometryAssumption
<1>2. ClusterBytes(c) = first .. last
  BY DEF ClusterBytes
<1>. HIDE DEF first, last
<1>. QED  BY <1>1, <1>2, FS_Interval

\* The free bytes are the free clusters times their size.
LEMMA FreeBytesCount ==
    Cardinality(BytesBefore(TotalClusters)) = ClusterSize * Cardinality(FreeBefore(TotalClusters))
<1>. DEFINE N == TotalClusters - FirstCluster
            Good(n) == Cardinality(BytesBefore(FirstCluster + n))
                           = ClusterSize * Cardinality(FreeBefore(FirstCluster + n))
            T == {n \in Nat : Good(n)}
<1>0. /\ FirstCluster \in Nat /\ TotalClusters \in Nat /\ N \in Nat /\ ClusterSize \in Nat
      /\ FirstCluster + N = TotalClusters
  BY GeometryAssumption
<1>1. 0 \in T
  <2>1. FreeBefore(FirstCluster + 0) = {}
    BY <1>0 DEF FreeBefore, Clusters
  <2>2. BytesBefore(FirstCluster + 0) = {}
    BY <2>1 DEF BytesBefore
  <2>. QED  BY <1>0, <2>1, <2>2, FS_EmptySet
<1>2. ASSUME NEW n \in 0 .. N - 1, n \in T PROVE n + 1 \in T
  <2>. DEFINE c == FirstCluster + n
  <2>1. c \in Clusters /\ c \in Nat /\ FirstCluster + (n + 1) = c + 1 /\ n + 1 \in Nat
        /\ FirstCluster <= c
    BY <1>0, <1>2 DEF Clusters
  <2>2. Cardinality(BytesBefore(c)) = ClusterSize * Cardinality(FreeBefore(c))
    BY <1>2
  <2>. HIDE DEF c
  <2>3. \A d \in Clusters : d < c + 1 <=> (d < c \/ d = c)
    BY <2>1 DEF Clusters
  <2>4. CASE ~ ReadsFree(c)
    <3>1. FreeBefore(c + 1) = FreeBefore(c)
      BY <2>3, <2>4 DEF FreeBefore
    <3>. QED  BY <2>1, <2>2, <3>1 DEF BytesBefore
  <2>5. CASE ReadsFree(c)
    <3>1. FreeBefore(c + 1) = FreeBefore(c) \union {c} /\ c \notin FreeBefore(c)
      <4>1. \A d : d \in FreeBefore(c + 1) <=> d \in FreeBefore(c) \/ d = c
        BY <2>1, <2>3, <2>5 DEF FreeBefore
      <4>2. ~ (c < c)
        BY <2>1
      <4>. QED  BY <4>1, <4>2 DEF FreeBefore
    <3>2. BytesBefore(c + 1) = BytesBefore(c) \union ClusterBytes(c)
      BY <3>1 DEF BytesBefore
    <3>3. BytesBefore(c) \cap ClusterBytes(c) = {}
      <4>. SUFFICES ASSUME NEW d \in FreeBefore(c), NEW b \in ClusterBytes(d), b \in ClusterBytes(c)
                    PROVE  FALSE
        BY DEF BytesBefore
      <4>1. d \in Nat /\ FirstCluster <= d /\ d < c
        BY <1>0 DEF FreeBefore, Clusters
      <4>2. /\ ClusterOffset(c) \in Nat /\ ClusterOffset(d) \in Nat
            /\ ClusterOffset(d) + ClusterSize <= ClusterOffset(c)
        BY <2>1, <4>1, ClustersApart
      <4>. QED  BY <1>0, <4>2 DEF ClusterBytes
    <3>4. IsFiniteSet(FreeBefore(c)) /\ IsFiniteSet(BytesBefore(c))
      <4>1. FreeBefore(c) \subseteq Clusters /\ BytesBefore(c) \subseteq VolumeBytes
        BY ClusterInVolume DEF FreeBefore, BytesBefore
      <4>. QED  BY <4>1, VolumeIsFinite, FS_Subset
    <3>5. Cardinality(FreeBefore(c + 1)) = Cardinality(FreeBefore(c)) + 1
      BY <3>1, <3>4, FS_AddElement
    <3>6. Cardinality(BytesBefore(c + 1)) = Cardinality(BytesBefore(c)) + ClusterSize
      <4>1. /\ IsFiniteSet(ClusterBytes(c)) /\ Cardinality(ClusterBytes(c)) = ClusterSize
            /\ Cardinality(BytesBefore(c)) \in Nat
            /\ Cardinality(BytesBefore(c) \cap ClusterBytes(c)) = 0
        BY <2>1, <3>3, <3>4, ClusterCount, FS_CardinalityType, FS_EmptySet
      <4>2. Cardinality(BytesBefore(c) \union ClusterBytes(c))
              = Cardinality(BytesBefore(c)) + Cardinality(ClusterBytes(c))
                    - Cardinality(BytesBefore(c) \cap ClusterBytes(c))
        BY <3>4, <4>1, FS_Union
      <4>3. \A x \in Nat : x + ClusterSize - 0 = x + ClusterSize
        BY <1>0
      <4>4. Cardinality(BytesBefore(c + 1)) = Cardinality(BytesBefore(c)) + ClusterSize - 0
        BY <3>2, <4>1, <4>2, Zenon
      <4>. QED  BY <4>1, <4>3, <4>4
    <3>7. Cardinality(FreeBefore(c)) \in Nat
      BY <3>4, FS_CardinalityType
    <3>8. Cardinality(BytesBefore(c + 1)) = ClusterSize * Cardinality(FreeBefore(c + 1))
      <4>. HIDE DEF FreeBefore, BytesBefore
      <4>1. \A x \in Nat : ClusterSize * x + ClusterSize = ClusterSize * (x + 1)
        BY <1>0
      <4>. QED  BY <2>2, <3>5, <3>6, <3>7, <4>1
    <3>. QED  BY <2>1, <3>8
  <2>. QED  BY <2>4, <2>5
<1>. HIDE DEF T, N
<1>3. N \in T
  BY <1>0, <1>1, <1>2, EveryUpTo
<1>. QED  BY <1>0, <1>3 DEF T

\* A range that is finished adds its length to what is counted.
LEMMA RangeCounted ==
    ASSUME JobOk(FirstJob), rangeIndex \in 1 .. Len(ranges)
    PROVE  Cardinality(Behind(rangeIndex + 1))
             = Cardinality(Behind(rangeIndex)) + (RangeEnd - RangeStart)
<1>. DEFINE n == rangeIndex
            R == RangeBytes(ranges[n])
<1>0. /\ n \in 1 .. Len(ranges) /\ Len(ranges) \in Nat /\ n \in Nat
      /\ \A i \in 1 .. Len(ranges) :
            /\ i \in Nat /\ ranges[i][1] \in Nat /\ ranges[i][2] \in Nat
            /\ ranges[i][1] < ranges[i][2] /\ RangeBytes(ranges[i]) \subseteq VolumeBytes
      /\ \A i, h \in 1 .. Len(ranges) : i < h => ranges[i][2] <= ranges[h][1]
      /\ RangeStart = ranges[n][1] /\ RangeEnd = ranges[n][2]
  <2>1. Len(ranges) \in Nat /\ FirstJob.ranges = ranges
    BY FirstFields DEF JobOk, RangesOf
  <2>2. \A i \in 1 .. Len(ranges) :
            /\ ranges[i][1] \in Nat /\ ranges[i][2] \in Nat
            /\ ranges[i][1] < ranges[i][2] /\ RangeBytes(ranges[i]) \subseteq VolumeBytes
    BY <2>1, RangeTyped
  <2>3. \A i, h \in 1 .. Len(ranges) : i < h => ranges[i][2] <= ranges[h][1]
    BY <2>1 DEF JobOk, RangesOf
  <2>. QED  BY <2>1, <2>2, <2>3 DEF RangeStart, RangeEnd
<1>. HIDE DEF n
<1>1. Behind(n + 1) = Behind(n) \union R
  <2>1. \A i \in 1 .. Len(ranges) : i < n + 1 <=> (i < n \/ i = n)
    BY <1>0
  <2>. QED  BY <1>0, <2>1 DEF Behind
<1>2. Behind(n) \cap R = {}
  <2>. SUFFICES ASSUME NEW i \in 1 .. Len(ranges), i < n, NEW b \in RangeBytes(ranges[i]), b \in R
                PROVE  FALSE
    BY DEF Behind
  <2>1. ranges[i][2] <= ranges[n][1] /\ ranges[i][1] \in Nat /\ ranges[i][2] \in Nat
        /\ ranges[n][1] \in Nat /\ ranges[n][2] \in Nat
    BY <1>0
  <2>. QED  BY <2>1 DEF RangeBytes
<1>3. IsFiniteSet(R) /\ Cardinality(R) = ranges[n][2] - ranges[n][1]
  <2>1. /\ ranges[n][1] \in Int /\ ranges[n][2] - 1 \in Int
        /\ ~ (ranges[n][1] > ranges[n][2] - 1)
        /\ ranges[n][2] - 1 - ranges[n][1] + 1 = ranges[n][2] - ranges[n][1]
    BY <1>0
  <2>. QED  BY <2>1, FS_Interval DEF RangeBytes
<1>4. IsFiniteSet(Behind(n)) /\ Cardinality(Behind(n)) \in Nat
  <2>1. Behind(n) \subseteq VolumeBytes
    BY <1>0 DEF Behind
  <2>. QED  BY <2>1, VolumeIsFinite, FS_Subset, FS_CardinalityType
<1>5. Cardinality(Behind(n + 1)) = Cardinality(Behind(n)) + Cardinality(R)
                                       - Cardinality(Behind(n) \cap R)
  BY <1>1, <1>3, <1>4, FS_Union
<1>6. Cardinality(Behind(n) \cap R) = 0
  BY <1>2, FS_EmptySet
<1>7. \A x, y, z \in Nat : x + (y - z) - 0 = x + (y - z)
  OBVIOUS
<1>8. Cardinality(Behind(n + 1)) = Cardinality(Behind(n)) + (ranges[n][2] - ranges[n][1])
  BY <1>0, <1>3, <1>4, <1>5, <1>6, <1>7
<1>. QED  BY <1>0, <1>8 DEF n

LEMMA LoopInitNext == FreeSpaceInit' => LoopInv'
BY LoopInitInv, PTL

LEMMA LoopStays == LoopInv /\ [Next]_vars => LoopInv'
<1>. SUFFICES ASSUME LoopInv, [Next]_vars PROVE LoopInv'
  OBVIOUS
<1>1. CASE Open
  <2>1. FreeSpaceInit'
    BY <1>1 DEF Open, FreeSpaceInit, LoopInit, LoopInv, FreeSpaceTypeOK
  <2>. QED  BY <2>1, LoopInitNext
<1>2. CASE ~ Open
  <2>1. FreeSpaceNext \/ UNCHANGED freeSpaceVars
    BY <1>2 DEF Next, JobStep, Refuse, OpenFails, FindRanges, StartWriting, WriteChunk,
       WriteOutOfBounds, WriteFails, Finish, VerifyFails, Crash, RunAgain, vars
  <2>. QED  BY <2>1, LoopNextInv
<1>. QED  BY <1>1, <1>2

LEMMA CountInvariant == Spec => []CountInv
<1>1. Init => CountInv
  BY AloneInitOk, LoopInitInv DEF Init, CountInv
<1>2. ASSUME CountInv, [Next]_vars PROVE CountInv'
  <2>1. AloneOk' /\ LoopInv'
    BY <1>2, AloneNextOk, LoopStays DEF CountInv
  <2>2. ASSUME UNCHANGED <<pc, ranges, rangeIndex, bytesWritten>> PROVE CountInv'
    BY <1>2, <2>1, <2>2 DEF CountInv, Behind
  <2>3. ASSUME pc' \in {"start", "ranging"}, bytesWritten' = 0 PROVE CountInv'
    BY <2>1, <2>3 DEF CountInv
  <2>4. ASSUME pc' \in {"refused", "failed", "crashed"} PROVE CountInv'
    BY <2>1, <2>4 DEF CountInv
  <2>5. CASE Refuse \/ OpenFails \/ WriteOutOfBounds \/ WriteFails \/ VerifyFails \/ Crash
    BY <2>4, <2>5 DEF Refuse, OpenFails, WriteOutOfBounds, WriteFails, VerifyFails, Crash
  <2>6. CASE Open \/ FindRanges \/ RunAgain
    BY <1>2, <2>3, <2>6 DEF Open, FindRanges, RunAgain, jobVars, CountInv
  <2>7. CASE StartWriting
    <3>1. pc' = "writing" /\ bytesWritten' = 0 /\ rangeIndex' = 1 /\ ranges' = ranges
      BY <1>2, <2>7 DEF StartWriting, CountInv, freeSpaceVars, loopVars
    <3>2. \A i \in 1 .. Len(ranges) : ~ (i < 1)
      BY FirstFields, <1>2 DEF CountInv, AloneOk, JobOk, RangesOf
    <3>3. Behind(rangeIndex)' = {}
      BY <3>1, <3>2 DEF Behind
    <3>. QED  BY <2>1, <3>1, <3>3, FS_EmptySet DEF CountInv
  <2>8. CASE WriteChunk
    <3>1. Writing /\ pc = "writing" /\ pc' = "writing" /\ ranges' = ranges
      BY <2>8 DEF WriteChunk, Writing, freeSpaceVars, loopVars
    <3>2. CASE NextChunk \/ NextPass
      BY <2>2, <3>1, <3>2 DEF NextChunk, NextPass
    <3>3. CASE NextRange
      <4>1. /\ rangeIndex' = rangeIndex + 1
            /\ bytesWritten' = bytesWritten + (RangeEnd - RangeStart)
            /\ bytesWritten = Cardinality(Behind(rangeIndex))
        BY <1>2, <3>1, <3>3 DEF NextRange, CountInv
      <4>2. JobOk(FirstJob) /\ rangeIndex \in 1 .. Len(ranges)
        BY <1>2, <3>1, FirstFields DEF CountInv, AloneOk, JobOk, PlaceOf, RangesOf, Writing
      <4>3. bytesWritten' = Cardinality(Behind(rangeIndex + 1))
        BY <4>1, <4>2, RangeCounted
      <4>4. Behind(rangeIndex)' = Behind(rangeIndex + 1)
        BY <3>1, <4>1 DEF Behind
      <4>. QED  BY <2>1, <3>1, <4>3, <4>4 DEF CountInv
    <3>. QED  BY <2>8, <3>2, <3>3 DEF WriteChunk
  <2>9. CASE Finish
    <3>1. /\ pc = "writing" /\ pc' = "done" /\ ranges' = ranges /\ rangeIndex' = rangeIndex
          /\ bytesWritten' = bytesWritten
      BY <2>9 DEF Finish, freeSpaceVars, loopVars, loopPosition
    <3>. QED  BY <1>2, <2>1, <3>1 DEF CountInv, Behind
  <2>10. CASE UNCHANGED vars
    BY <2>2, <2>10 DEF vars, freeSpaceVars, loopVars, jobVars, loopPosition
  <2>. QED  BY <1>2, <2>5, <2>6, <2>7, <2>8, <2>9, <2>10 DEF Next, JobStep
<1>. QED  BY <1>1, <1>2, PTL DEF Spec

\* A wipe that returns Ok reports the bytes of the free clusters, each once,
\* however many passes, chunks and ranges it took.
THEOREM BytesAreCounted == Spec => []BytesCounted
<1>1. CountInv => BytesCounted
  <2>. SUFFICES ASSUME CountInv, pc = "done"
                PROVE  bytesWritten = ClusterSize * Cardinality({c \in Clusters : ReadsFree(c)})
    BY DEF BytesCounted
  <2>1. /\ Frontier = TotalClusters /\ Len(ranges) \in Nat
        /\ \A i \in 1 .. Len(ranges) : i < rangeIndex
    BY FirstFields DEF CountInv, AloneOk, JobOk, PlaceOf, RangesOf, Frontier
  <2>2. Behind(rangeIndex) = Covered
    BY <2>1 DEF Behind, Covered
  <2>3. Covered = BytesBefore(TotalClusters)
    BY <2>1 DEF CountInv, LoopInv, RangesExact, BytesBefore, FreeBefore
  <2>4. FreeBefore(TotalClusters) = {c \in Clusters : ReadsFree(c)}
    BY GeometryAssumption DEF FreeBefore, Clusters
  <2>. QED  BY <2>2, <2>3, <2>4, FreeBytesCount DEF CountInv
<1>. QED  BY <1>1, CountInvariant, PTL

LEMMA ImagesNext == Images' = Images
BY DEF Images, LastPass, VolumeBytes, ClusterOffset

\* The types, with what they need.
TypeInv ==
    /\ CountInv /\ TypeOK
    /\ pc \in {"start", "ranging"} => rangeIndex = 1

\* What the invariant above says of the types in the next state.
LEMMA TypesNext ==
    ASSUME CountInv', imageSize' = imageSize, runs' \in Nat, allocations' = allocations,
           imageSize \in ImageSizes, allocations \in Nat,
           pc' \in {"start", "ranging", "writing"} \union Ended,
           assumeSsd' \in BOOLEAN, verify' \in BOOLEAN, bytesWritten' \in Nat,
           found' \in {NotVerified, 0, 1}, liveAtOpen' \in SUBSET Clusters,
           rangeIndex' <= Len(ranges') + 1, pc' \in {"start", "ranging"} => rangeIndex' = 1
    PROVE  TypeInv'
<1>1. FreeSpaceTypeOK' /\ layer' \in Images
  BY ImagesNext DEF CountInv, LoopInv, AloneOk
<1>2. rangeIndex' \in Nat \ {0} /\ pass' \in 1 .. LastPass /\ offset' \in Nat
  BY FirstFieldsNext DEF CountInv, AloneOk, JobOk, PlaceOf, LastPass
<1>3. Len(ranges') \in Nat
  BY <1>1 DEF FreeSpaceTypeOK
<1>4. rangeIndex' \in 1 .. Len(ranges') + 1
  BY <1>2, <1>3
<1>5. pass' \in 1 .. Len(Passes) /\ layer' \in [VolumeBytes -> 0 .. Len(Passes)]
  BY <1>1, <1>2 DEF LastPass, Images
<1>6. TypeOK'
  BY <1>1, <1>2, <1>4, <1>5 DEF TypeOK, Ended, NotVerified, Clusters, VolumeBytes, ClusterOffset
<1>. QED  BY <1>6 DEF TypeInv

\* Every variable keeps its type, whatever the table reads like.
THEOREM TypeCorrect == Spec => []TypeOK
<1>. USE GeometryAssumption, WipeAssumption
<1>1. Init /\ CountInv => TypeInv
  BY PassesAreSome DEF Init, TypeInv, TypeOK, FreeSpaceInit, LoopInit, CountInv, LoopInv, NotVerified,
     AloneOk, Images, LastPass, Ended
<1>2. ASSUME TypeInv, CountInv', [Next]_vars PROVE TypeInv'
  <2>0. /\ imageSize \in ImageSizes /\ allocations \in Nat /\ runs \in Nat
        /\ pc \in {"start", "ranging", "writing"} \union Ended
        /\ assumeSsd \in BOOLEAN /\ verify \in BOOLEAN /\ bytesWritten \in Nat
        /\ found \in {NotVerified, 0, 1} /\ liveAtOpen \in SUBSET Clusters
        /\ live \in SUBSET Clusters
        /\ rangeIndex \in 1 .. Len(ranges) + 1 /\ ranges \in Seq(Nat \X Nat) /\ Len(ranges) \in Nat
        /\ pc \in {"start", "ranging"} => rangeIndex = 1
    BY <1>2 DEF TypeInv, TypeOK, FreeSpaceTypeOK
  <2>1. CASE Refuse \/ OpenFails \/ WriteOutOfBounds \/ WriteFails \/ VerifyFails \/ Crash
    <3>1. /\ imageSize' = imageSize /\ runs' = runs /\ allocations' = allocations
          /\ assumeSsd' = assumeSsd /\ verify' = verify /\ bytesWritten' = bytesWritten
          /\ found' = found /\ liveAtOpen' = liveAtOpen /\ rangeIndex' = rangeIndex
          /\ ranges' = ranges /\ pc' \in Ended
      BY <2>1 DEF Refuse, OpenFails, WriteOutOfBounds, WriteFails, VerifyFails, Crash,
         freeSpaceVars, loopVars, loopPosition, Ended
    <3>. QED  BY <1>2, <2>0, <3>1, TypesNext DEF Ended
  <2>2. CASE Open
    <3>1. /\ imageSize' = imageSize /\ runs' = runs /\ allocations' = allocations
          /\ assumeSsd' = assumeSsd /\ verify' = verify /\ bytesWritten' = bytesWritten
          /\ found' = found /\ liveAtOpen' = live /\ rangeIndex' = 1
          /\ ranges' = <<>> /\ pc' = "ranging"
      BY <2>0, <2>2 DEF Open, loopPosition
    <3>. QED  BY <1>2, <2>0, <3>1, TypesNext
  <2>3. CASE FindRanges
    <3>1. /\ imageSize' = imageSize /\ runs' = runs /\ allocations' = allocations
          /\ assumeSsd' = assumeSsd /\ verify' = verify /\ bytesWritten' = bytesWritten
          /\ found' = found /\ liveAtOpen' = liveAtOpen /\ rangeIndex' = 1
          /\ pc' = "ranging"
      BY <2>0, <2>3 DEF FindRanges, jobVars, loopPosition
    <3>2. Len(ranges') \in Nat
      BY <1>2 DEF CountInv, LoopInv, FreeSpaceTypeOK
    <3>. QED  BY <1>2, <2>0, <3>1, <3>2, TypesNext
  <2>4. CASE StartWriting
    <3>1. /\ imageSize' = imageSize /\ runs' = runs /\ allocations' = allocations
          /\ assumeSsd' = assumeSsd /\ verify' = verify /\ bytesWritten' = bytesWritten
          /\ found' = found /\ liveAtOpen' = liveAtOpen /\ rangeIndex' = 1
          /\ ranges' = ranges /\ pc' = "writing"
      BY <2>4 DEF StartWriting, freeSpaceVars, loopVars
    <3>. QED  BY <1>2, <2>0, <3>1, TypesNext
  <2>5. CASE WriteChunk
    <3>1. /\ imageSize' = imageSize /\ runs' = runs /\ allocations' = allocations
          /\ assumeSsd' = assumeSsd /\ verify' = verify
          /\ found' = found /\ liveAtOpen' = liveAtOpen
          /\ ranges' = ranges /\ pc' = "writing" /\ Writing
      BY <2>5 DEF WriteChunk, Writing, freeSpaceVars, loopVars
    <3>2. rangeIndex' = rangeIndex \/ rangeIndex' = rangeIndex + 1
      BY <2>5 DEF WriteChunk, NextChunk, NextPass, NextRange
    <3>3. rangeIndex <= Len(ranges) /\ rangeIndex' <= Len(ranges') + 1
      BY <2>0, <3>1, <3>2 DEF Writing
    <3>4. bytesWritten' \in Nat
      <4>1. rangeIndex \in 1 .. Len(FirstJob.ranges) /\ FirstJob.ranges = ranges /\ JobOk(FirstJob)
        BY <1>2, <2>0, <3>3, FirstFields DEF TypeInv, CountInv, AloneOk
      <4>2. RangeEnd \in Nat /\ RangeStart \in Nat /\ RangeStart < RangeEnd
        BY <4>1, RangeTyped DEF RangeEnd, RangeStart
      <4>3. bytesWritten' = bytesWritten \/ bytesWritten' = bytesWritten + (RangeEnd - RangeStart)
        BY <2>5 DEF WriteChunk, NextChunk, NextPass, NextRange
      <4>. QED  BY <2>0, <4>2, <4>3
    <3>. QED  BY <1>2, <2>0, <3>1, <3>3, <3>4, TypesNext
  <2>6. CASE Finish
    <3>1. /\ imageSize' = imageSize /\ runs' = runs /\ allocations' = allocations
          /\ assumeSsd' = assumeSsd /\ verify' = verify /\ bytesWritten' = bytesWritten
          /\ liveAtOpen' = liveAtOpen /\ rangeIndex' = rangeIndex
          /\ ranges' = ranges /\ pc' = "done"
      BY <2>6 DEF Finish, freeSpaceVars, loopVars, loopPosition
    <3>2. found' \in {NotVerified, 0, 1}
      BY <2>0, <2>6 DEF Finish
    <3>. QED  BY <1>2, <2>0, <3>1, <3>2, TypesNext DEF Ended
  <2>7. CASE RunAgain
    <3>1. /\ imageSize' = imageSize /\ runs' \in Nat /\ allocations' = allocations
          /\ assumeSsd' \in BOOLEAN /\ verify' \in BOOLEAN /\ bytesWritten' = 0
          /\ found' = NotVerified /\ liveAtOpen' = liveAtOpen /\ rangeIndex' = 1
          /\ ranges' = ranges /\ pc' = "start"
      BY <2>0, <2>7 DEF RunAgain, freeSpaceVars, loopVars
    <3>. QED  BY <1>2, <2>0, <3>1, TypesNext
  <2>8. CASE UNCHANGED vars
    <3>1. /\ imageSize' = imageSize /\ runs' = runs /\ allocations' = allocations
          /\ assumeSsd' = assumeSsd /\ verify' = verify /\ bytesWritten' = bytesWritten
          /\ found' = found /\ liveAtOpen' = liveAtOpen /\ rangeIndex' = rangeIndex
          /\ ranges' = ranges /\ pc' = pc
      BY <2>8 DEF vars, jobVars, freeSpaceVars, loopVars, loopPosition
    <3>. QED  BY <1>2, <2>0, <3>1, TypesNext
  <2>. QED  BY <1>2, <2>1, <2>2, <2>3, <2>4, <2>5, <2>6, <2>7, <2>8 DEF Next, JobStep
<1>3. TypeInv => TypeOK
  BY DEF TypeInv
<1>. QED  BY <1>1, <1>2, <1>3, CountInvariant, PTL DEF Spec

-----------------------------------------------------------------------------
(* Two jobs at once                                                        *)

\* The clusters nobody uses: both jobs take them for free, whatever the table
\* reads like.
Unused == {c \in Clusters : c \notin live /\ c \notin unreadable}

\* What the passes of two jobs, however interleaved, leave of a free byte.
Overlaid(j, o, l, b) ==
    /\ Reached(j, 1, b) => l[b] >= 1
    /\ Reached(o, 1, b) => l[b] >= 1
    /\ Reached(j, LastPass, b) /\ Reached(o, LastPass, b) => l[b] >= LastPass

TogetherInv ==
    /\ JobOk(FirstJob) /\ JobOk(OtherJob)
    /\ layer \in Images
    /\ allocations \in Nat
    /\ \A c \in Unused : \A b \in ClusterBytes(c) : Overlaid(FirstJob, OtherJob, layer, b)
    /\ ~ crossed /\ allocations = 0 => LaidBy(FirstJob, layer)

\* A step of one job, while the other stands.
LEMMA OverlaidStays ==
    ASSUME NEW j, NEW k, NEW o, NEW l \in Images, NEW m, JobOk(j), Steps(j, k, l, m),
           NEW b \in VolumeBytes, Overlaid(j, o, l, b)
    PROVE  Overlaid(k, o, m, b)
<1>. USE PassesAreSome
<1>1. l[b] \in Nat /\ m[b] \in Nat
  BY StepsTyped DEF Images
<1>2. m[b] = l[b] \/ m[b] = j.pass
  BY LaidBytes
<1>3. j.pass >= 1
  BY DEF JobOk, PlaceOf
<1>4. 1 \in 1 .. LastPass /\ LastPass \in 1 .. LastPass
  OBVIOUS
<1>5. Reached(k, 1, b) => m[b] >= 1
  <2>. SUFFICES ASSUME Reached(k, 1, b) PROVE m[b] >= 1
    OBVIOUS
  <2>1. (Reached(j, 1, b) /\ m[b] = l[b]) \/ m[b] >= 1
    BY <1>4, StepsReach
  <2>. QED  BY <2>1 DEF Overlaid
<1>6. Reached(o, 1, b) => m[b] >= 1
  BY <1>2, <1>3 DEF Overlaid
<1>7. Reached(k, LastPass, b) /\ Reached(o, LastPass, b) => m[b] >= LastPass
  <2>. SUFFICES ASSUME Reached(k, LastPass, b), Reached(o, LastPass, b) PROVE m[b] >= LastPass
    OBVIOUS
  <2>1. (Reached(j, LastPass, b) /\ m[b] = l[b]) \/ m[b] >= LastPass
    BY <1>4, StepsReach
  <2>. QED  BY <2>1 DEF Overlaid
<1>. QED  BY <1>5, <1>6, <1>7 DEF Overlaid

LEMMA OverlaidEitherWay ==
    \A j, o, l, b : Overlaid(j, o, l, b) <=> Overlaid(o, j, l, b)
BY DEF Overlaid

LEMMA OverlaidNext ==
    \A b : Overlaid(FirstJob, OtherJob, layer, b)' <=> Overlaid(FirstJob', OtherJob', layer', b)
BY ReachedNext DEF Overlaid, LastPass

\* No step frees a cluster.
LEMMA UnusedShrinks ==
    ASSUME live \subseteq live', unreadable' = unreadable
    PROVE  /\ \A c : c \in Unused' => c \in Unused
           /\ \A c \in Clusters : ReadsFree(c)' => ReadsFree(c)
           /\ \A c : ClusterBytes(c)' = ClusterBytes(c)
BY DEF Unused, ReadsFree, ClusterBytes, ClusterOffset, Clusters

\* The second job, like the first, leaves the volume and the other job alone.
LEMMA OtherLeaves ==
    ASSUME OtherStep
    PROVE  /\ live' = live /\ unreadable' = unreadable /\ allocations' = allocations
           /\ FirstJob' = FirstJob /\ UNCHANGED <<pc, verify, found>>
<1>1. UNCHANGED <<live, unreadable, allocations>>
  BY DEF OtherStep, Other!JobStep, Other!Crash, Other!RunAgain, Other!Refuse, Other!OpenFails,
     Other!Open, Other!FindRanges, Other!FreeSpaceNext, Other!ExamineCluster, Other!CloseLastRun,
     Other!StartWriting, Other!WriteChunk, Other!WriteOutOfBounds, Other!WriteFails, Other!Finish,
     Other!VerifyFails, Other!freeSpaceVars, Other!loopVars, Other!jobVars
<1>. QED  BY <1>1 DEF OtherStep, firstVars, loopVars, loopPosition, FirstJob

LEMMA TogetherInit == SharedInit => TogetherInv
<1>. SUFFICES ASSUME SharedInit PROVE TogetherInv
  OBVIOUS
<1>1. /\ JobOk(FirstJob) /\ LaidBy(FirstJob, layer)
      /\ \A q, b : ~ Reached(FirstJob, q, b)
  BY StartOk, FirstFields DEF SharedInit, Init, FreeSpaceInit, LoopInit
<1>2. JobOk(OtherJob) /\ \A q, b : ~ Reached(OtherJob, q, b)
  BY StartOk, OtherFields DEF SharedInit, Other!Init, Other!FreeSpaceInit, Other!LoopInit,
     Other!NoRun, NoRun
<1>3. layer \in Images /\ allocations \in Nat
  BY PassesAreSome DEF SharedInit, Init, Images
<1>. QED  BY <1>1, <1>2, <1>3 DEF TogetherInv, Overlaid

LEMMA UnusedInVolume ==
    ASSUME NEW c \in Unused, NEW b \in ClusterBytes(c)
    PROVE  b \in VolumeBytes
BY ClusterInVolume DEF Unused

LEMMA TogetherFirst ==
    ASSUME TogetherInv, FirstStep
    PROVE  TogetherInv'
<1>1. Steps(FirstJob, FirstJob', layer, layer')
  BY FirstSteps DEF TogetherInv, FirstStep
<1>2. /\ live' = live /\ unreadable' = unreadable /\ allocations' = allocations
      /\ OtherJob' = OtherJob
  BY FirstLeaves DEF FirstStep, otherVars, OtherJob
<1>3. /\ \A c : c \in Unused' => c \in Unused
      /\ \A c \in Clusters : ReadsFree(c)' => ReadsFree(c)
      /\ \A c : ClusterBytes(c)' = ClusterBytes(c)
  BY <1>2, UnusedShrinks
<1>4. JobOk(FirstJob') /\ JobOk(OtherJob') /\ layer' \in Images
  BY <1>1, <1>2, StepsOk, StepsTyped DEF TogetherInv
<1>5. JobOk(FirstJob)' /\ JobOk(OtherJob)'
  BY <1>3, <1>4, FirstOkNext, OtherOkNext
<1>6. ASSUME NEW c \in Unused, NEW b \in ClusterBytes(c)
      PROVE  Overlaid(FirstJob, OtherJob, layer, b)'
  <2>1. Overlaid(FirstJob, OtherJob, layer, b) /\ b \in VolumeBytes
    BY <1>6, UnusedInVolume DEF TogetherInv
  <2>2. Overlaid(FirstJob', OtherJob, layer', b)
    BY <1>1, <2>1, OverlaidStays DEF TogetherInv
  <2>. QED  BY <1>2, <2>2, OverlaidNext
<1>7. (~ crossed /\ allocations = 0)' => LaidBy(FirstJob, layer)'
  <2>. SUFFICES ASSUME ~ crossed', allocations' = 0 PROVE LaidBy(FirstJob, layer)'
    OBVIOUS
  <2>1. CASE crossed
    <3>1. pc = "start"
      BY <2>1 DEF FirstStep
    <3>2. pc' \notin {"writing", "done"}
      BY <3>1 DEF FirstStep, JobStep, Crash, RunAgain, Refuse, OpenFails, Open, FindRanges,
         StartWriting, WriteChunk, Writing, WriteOutOfBounds, WriteFails, Finish, VerifyFails, Ended
    <3>. QED  BY <3>2, FirstFieldsNext, LaidNext DEF LaidBy
  <2>2. CASE ~ crossed
    BY <1>1, <1>2, <2>2, StepsLaid, LaidNext DEF TogetherInv
  <2>. QED  BY <2>1, <2>2
<1>8. allocations' \in Nat
  BY <1>2 DEF TogetherInv
<1>. QED  BY <1>3, <1>4, <1>5, <1>6, <1>7, <1>8, ImagesNext DEF TogetherInv

LEMMA TogetherOther ==
    ASSUME TogetherInv, OtherStep
    PROVE  TogetherInv'
<1>1. Steps(OtherJob, OtherJob', layer, layer')
  BY OtherSteps DEF TogetherInv, OtherStep
<1>2. /\ live' = live /\ unreadable' = unreadable /\ allocations' = allocations
      /\ FirstJob' = FirstJob
  BY OtherLeaves
<1>3. /\ \A c : c \in Unused' => c \in Unused
      /\ \A c \in Clusters : ReadsFree(c)' => ReadsFree(c)
      /\ \A c : ClusterBytes(c)' = ClusterBytes(c)
  BY <1>2, UnusedShrinks
<1>4. JobOk(FirstJob') /\ JobOk(OtherJob') /\ layer' \in Images
  BY <1>1, <1>2, StepsOk, StepsTyped DEF TogetherInv
<1>5. JobOk(FirstJob)' /\ JobOk(OtherJob)'
  BY <1>3, <1>4, FirstOkNext, OtherOkNext
<1>6. ASSUME NEW c \in Unused, NEW b \in ClusterBytes(c)
      PROVE  Overlaid(FirstJob, OtherJob, layer, b)'
  <2>1. Overlaid(OtherJob, FirstJob, layer, b) /\ b \in VolumeBytes
    BY <1>6, UnusedInVolume, OverlaidEitherWay DEF TogetherInv
  <2>2. Overlaid(OtherJob', FirstJob, layer', b)
    BY <1>1, <2>1, OverlaidStays DEF TogetherInv
  <2>. QED  BY <1>2, <2>2, OverlaidNext, OverlaidEitherWay
<1>7. (~ crossed /\ allocations = 0)' => LaidBy(FirstJob, layer)'
  <2>. SUFFICES ASSUME ~ crossed', allocations' = 0 PROVE LaidBy(FirstJob, layer)'
    OBVIOUS
  <2>1. ~ crossed /\ layer' = layer
    BY DEF OtherStep
  <2>. QED  BY <1>2, <2>1, LaidNext DEF TogetherInv
<1>8. allocations' \in Nat
  BY <1>2 DEF TogetherInv
<1>. QED  BY <1>3, <1>4, <1>5, <1>6, <1>7, <1>8, ImagesNext DEF TogetherInv

\* Only the bytes of the cluster it takes are another program's.
LEMMA TogetherThird ==
    ASSUME TogetherInv, ThirdStep
    PROVE  TogetherInv'
<1>1. PICK d \in Clusters \ live :
          /\ live' = live \union {d}
          /\ layer' = [b \in VolumeBytes |-> IF b \in ClusterBytes(d) THEN 0 ELSE layer[b]]
  BY DEF ThirdStep, Allocate
<1>2. /\ unreadable' = unreadable /\ allocations' = allocations + 1
      /\ FirstJob' = FirstJob /\ OtherJob' = OtherJob
  BY DEF ThirdStep, Allocate, loopVars, loopPosition, otherVars, FirstJob, OtherJob
<1>3. /\ \A c : c \in Unused' => c \in Unused
      /\ \A c \in Clusters : ReadsFree(c)' => ReadsFree(c)
      /\ \A c : ClusterBytes(c)' = ClusterBytes(c)
  BY <1>1, <1>2, UnusedShrinks
<1>4. layer' \in Images
  BY <1>1, PassesAreSome DEF TogetherInv, Images
<1>5. JobOk(FirstJob)' /\ JobOk(OtherJob)'
  BY <1>2, <1>3, FirstOkNext, OtherOkNext DEF TogetherInv
<1>6. ASSUME NEW c \in Unused', NEW b \in ClusterBytes(c)
      PROVE  Overlaid(FirstJob, OtherJob, layer, b)'
  <2>1. c \in Unused /\ c # d /\ c \in Clusters
    BY <1>1, <1>3, <1>6 DEF Unused, Clusters
  <2>2. b \notin ClusterBytes(d) /\ b \in VolumeBytes
    <3>1. /\ c \in Nat /\ d \in Nat /\ FirstCluster <= c /\ FirstCluster <= d /\ ClusterSize \in Nat
      BY <1>1, <2>1, GeometryAssumption DEF Clusters
    <3>2. b \in ClusterOffset(c) .. ClusterOffset(c) + ClusterSize - 1 /\ b \in VolumeBytes
      BY <1>6, <2>1, UnusedInVolume DEF ClusterBytes
    <3>3. /\ ClusterOffset(c) \in Nat /\ ClusterOffset(d) \in Nat
          /\ \/ ClusterOffset(c) + ClusterSize <= ClusterOffset(d)
             \/ ClusterOffset(d) + ClusterSize <= ClusterOffset(c)
      <4>1. c < d \/ d < c
        BY <2>1, <3>1
      <4>. QED  BY <3>1, <4>1, ClustersApart
    <3>. QED  BY <3>1, <3>2, <3>3 DEF ClusterBytes
  <2>3. layer'[b] = layer[b]
    BY <1>1, <2>2
  <2>4. Overlaid(FirstJob, OtherJob, layer, b)
    BY <1>6, <2>1 DEF TogetherInv
  <2>5. Overlaid(FirstJob', OtherJob', layer', b)
    BY <1>2, <2>3, <2>4 DEF Overlaid
  <2>. QED  BY <2>5, OverlaidNext
<1>7. allocations' \in Nat /\ allocations' # 0
  BY <1>2 DEF TogetherInv
<1>. QED  BY <1>3, <1>4, <1>5, <1>6, <1>7, ImagesNext DEF TogetherInv

LEMMA TogetherIdle ==
    ASSUME TogetherInv, UNCHANGED sharedVars
    PROVE  TogetherInv'
<1>1. /\ FirstJob' = FirstJob /\ layer' = layer /\ live' = live /\ unreadable' = unreadable
      /\ OtherJob' = OtherJob /\ allocations' = allocations /\ crossed' = crossed
  BY FirstIdle DEF sharedVars, vars, otherVars, OtherJob
<1>2. /\ \A c : c \in Unused' => c \in Unused
      /\ \A c \in Clusters : ReadsFree(c)' => ReadsFree(c)
      /\ \A c : ClusterBytes(c)' = ClusterBytes(c)
  BY <1>1, UnusedShrinks
<1>3. JobOk(FirstJob)' /\ JobOk(OtherJob)'
  BY <1>1, <1>2, FirstOkNext, OtherOkNext DEF TogetherInv
<1>4. ASSUME NEW c \in Unused, NEW b \in ClusterBytes(c)
      PROVE  Overlaid(FirstJob, OtherJob, layer, b)'
  BY <1>1, <1>4, OverlaidNext DEF TogetherInv
<1>5. (~ crossed /\ allocations = 0)' => LaidBy(FirstJob, layer)'
  BY <1>1, LaidNext DEF TogetherInv
<1>. QED  BY <1>1, <1>2, <1>3, <1>4, <1>5, ImagesNext DEF TogetherInv

LEMMA TogetherInvariant == SharedSpec => []TogetherInv
<1>1. TogetherInv /\ [SharedNext]_sharedVars => TogetherInv'
  BY TogetherFirst, TogetherOther, TogetherThird, TogetherIdle DEF SharedNext
<1>. QED  BY <1>1, TogetherInit, PTL DEF SharedSpec

\* Two wipes of one image at once: when either has returned Ok nothing is left
\* of what was in the clusters free throughout, whatever the other has done
\* meanwhile or does later; when both have, each such byte carries the last
\* pass, though the two laid their passes in any interleaving.
THEOREM TwoWipesTogether == SharedSpec => []WipedTogether
<1>1. TogetherInv => WipedTogether
  <2>. SUFFICES ASSUME TogetherInv, NEW atOpen, NEW c \in FreeThroughout(atOpen),
                       NEW b \in ClusterBytes(c)
                PROVE  /\ pc = "done" => layer[b] # 0
                       /\ otherPc = "done" => layer[b] # 0
                       /\ pc = "done" /\ otherPc = "done" => layer[b] = Len(Passes)
    BY DEF WipedTogether
  <2>1. c \in Unused /\ c \in Clusters /\ ReadsFree(c)
    BY DEF FreeThroughout, Unused, ReadsFree
  <2>2. b \in VolumeBytes /\ Overlaid(FirstJob, OtherJob, layer, b) /\ layer[b] \in 0 .. LastPass
    BY <2>1, UnusedInVolume DEF TogetherInv, Images
  <2>3. pc = "done" => Reached(FirstJob, 1, b) /\ Reached(FirstJob, LastPass, b)
    BY <2>1, DoneReached, FirstFields DEF TogetherInv
  <2>4. otherPc = "done" => Reached(OtherJob, 1, b) /\ Reached(OtherJob, LastPass, b)
    BY <2>1, DoneReached, OtherFields DEF TogetherInv
  <2>. QED  BY <2>2, <2>3, <2>4, PassesAreSome DEF Overlaid, LastPass
<1>. QED  BY <1>1, TogetherInvariant, PTL

\* A wipe during which no other wrote verifies as clean after a pattern that
\* does not end in random bytes, also when an earlier wipe of the image, or
\* another one, died or failed half way.
THEOREM CleanWhenAlone == SharedSpec => []VerifiedCleanAlone
<1>1. SharedInit => VerifiedCleanAlone
  BY DEF SharedInit, Init, VerifiedCleanAlone, VerifiedClean
<1>2. TogetherInv /\ VerifiedCleanAlone /\ [SharedNext]_sharedVars => VerifiedCleanAlone'
  <2>. SUFFICES ASSUME TogetherInv, VerifiedCleanAlone, [SharedNext]_sharedVars, ~ crossed',
                       pc' = "done", verify', allocations' = 0, Passes[Len(Passes)] # "Random"
                PROVE  found' = 0
    BY DEF VerifiedCleanAlone, VerifiedClean
  <2>1. CASE FirstStep
    <3>1. Next /\ pc # "start" /\ ~ crossed /\ allocations = 0
      <4>1. Next /\ allocations' = allocations
        BY <2>1, FirstLeaves DEF FirstStep, Next
      <4>2. pc # "start"
        BY <4>1 DEF Next, JobStep, Refuse, OpenFails, Open, FindRanges, StartWriting, WriteChunk,
           WriteOutOfBounds, WriteFails, Finish, VerifyFails, Crash, RunAgain, jobVars, Writing
      <4>. QED  BY <2>1, <4>1, <4>2 DEF FirstStep
    <3>2. CASE Finish
      BY <3>1, <3>2, FinishFindsNothing DEF TogetherInv
    <3>3. CASE ~ Finish
      BY <3>1, <3>3, FoundStays DEF VerifiedCleanAlone, VerifiedClean
    <3>. QED  BY <3>2, <3>3
  <2>2. CASE OtherStep
    BY <2>2, OtherLeaves DEF OtherStep, VerifiedCleanAlone, VerifiedClean
  <2>3. CASE ThirdStep
    BY <2>3 DEF ThirdStep, Allocate, TogetherInv
  <2>4. CASE UNCHANGED sharedVars
    BY <2>4 DEF sharedVars, vars, jobVars, VerifiedCleanAlone, VerifiedClean
  <2>. QED  BY <2>1, <2>2, <2>3, <2>4 DEF SharedNext
<1>. QED  BY <1>1, <1>2, TogetherInvariant, PTL DEF SharedSpec

-----------------------------------------------------------------------------
(* What each of two jobs spares                                            *)

\* What the first job needs of the second one: that it writes a pass of the
\* pattern.
OtherPassOk == otherPass \in 1 .. Len(Passes)

\* A step of the second job that writes, or leaves the image alone.
OtherWrites(end) ==
    layer' = [b \in VolumeBytes |-> IF otherOffset <= b /\ b < end THEN otherPass ELSE layer[b]]

\* A step of the second job leaves the volume and the first job as they are,
\* and the image made of passes.
LEMMA OtherStepEffect ==
    ASSUME OtherStep, OtherPassOk, IInv
    PROVE  /\ OtherPassOk'
           /\ UNCHANGED <<live, unreadable, imageSize, allocations, firstVars>>
           /\ layer' \in [VolumeBytes -> 0 .. Len(Passes)]
<1>. USE WipeAssumption
<1>1. Len(Passes) \in Nat /\ 1 <= Len(Passes) /\ layer \in [VolumeBytes -> 0 .. Len(Passes)]
  BY DEF IInv, TypeOK
<1>2. Other!JobStep \/ Other!Crash \/ Other!RunAgain
  BY DEF OtherStep
<1>3. UNCHANGED firstVars
  BY DEF OtherStep
<1>4. UNCHANGED <<live, unreadable, imageSize, allocations>>
  BY <1>2 DEF Other!JobStep, Other!Crash, Other!RunAgain, Other!Refuse, Other!OpenFails, Other!Open,
     Other!FindRanges, Other!FreeSpaceNext, Other!ExamineCluster, Other!CloseLastRun,
     Other!StartWriting, Other!WriteChunk, Other!WriteOutOfBounds, Other!WriteFails, Other!Finish,
     Other!VerifyFails, Other!freeSpaceVars, Other!loopVars, Other!jobVars
<1>5. OtherPassOk'
  BY <1>1, <1>2 DEF OtherPassOk, Other!JobStep, Other!Crash, Other!RunAgain, Other!Refuse,
     Other!OpenFails, Other!Open, Other!FindRanges, Other!StartWriting, Other!WriteChunk,
     Other!NextChunk, Other!NextPass, Other!NextRange, Other!WriteOutOfBounds, Other!WriteFails,
     Other!Finish, Other!VerifyFails, Other!jobVars, Other!loopPosition
<1>6. CASE Other!WriteChunk \/ Other!WriteFails
  <2>1. PICK end : OtherWrites(end)
    BY <1>6 DEF OtherWrites, Other!WriteChunk, Other!WriteFails, Other!Overwrite,
       Other!VolumeBytes, VolumeBytes, Other!ClusterOffset, ClusterOffset
  <2>. QED  BY <1>1, <1>3, <1>4, <1>5, <2>1 DEF OtherWrites, OtherPassOk
<1>7. CASE ~ (Other!WriteChunk \/ Other!WriteFails)
  <2>1. layer' = layer
    BY <1>2, <1>7 DEF Other!JobStep, Other!Crash, Other!RunAgain, Other!Refuse, Other!OpenFails,
       Other!Open, Other!FindRanges, Other!StartWriting, Other!WriteOutOfBounds, Other!Finish,
       Other!VerifyFails, Other!jobVars
  <2>. QED  BY <1>1, <1>3, <1>4, <1>5, <2>1
<1>. QED  BY <1>6, <1>7

\* Every step of the two jobs and the third program keeps the first job's
\* invariant.
LEMMA SharedNextInv ==
    ASSUME TableCovers, IInv, OtherPassOk, [SharedNext]_sharedVars
    PROVE  IInv' /\ OtherPassOk'
<1>1. CASE FirstStep
  <2>1. Next
    BY <1>1 DEF FirstStep, Next
  <2>2. otherPass' = otherPass
    BY <1>1 DEF FirstStep, otherVars
  <2>. QED  BY <2>1, <2>2, WipeNextInv DEF OtherPassOk
<1>2. CASE OtherStep
  <2>1. /\ UNCHANGED <<live, unreadable, imageSize, allocations, firstVars>>
        /\ layer' \in [VolumeBytes -> 0 .. Len(Passes)]
        /\ OtherPassOk'
    BY <1>2, OtherStepEffect
  <2>2. TypeOK'
    BY <2>1 DEF IInv, TypeOK, FreeSpaceTypeOK, firstVars, loopVars, loopPosition
  <2>3. RangesProper' /\ RangesAvoid' /\ RunAvoids' /\ LiveGrows' /\ Position'
    BY <2>1 DEF IInv, RangesProper, RangesAvoid, RunAvoids, LiveGrows, Position, Writing,
       RangeStart, RangeEnd, firstVars, loopVars, loopPosition
  <2>. QED  BY <2>1, <2>2, <2>3 DEF IInv
<1>3. CASE ThirdStep
  <2>1. Allocate
    BY <1>3 DEF ThirdStep
  <2>2. otherPass' = otherPass
    BY <1>3 DEF ThirdStep, otherVars
  <2>. QED  BY <2>1, <2>2, WipeNextInv DEF OtherPassOk
<1>4. CASE UNCHANGED sharedVars
  <2>1. UNCHANGED vars /\ otherPass' = otherPass
    BY <1>4 DEF sharedVars, otherVars
  <2>. QED  BY <2>1, WipeNextInv DEF OtherPassOk
<1>. QED  BY <1>1, <1>2, <1>3, <1>4 DEF SharedNext

\* The second job starts with a pass of the pattern.
LEMMA SharedInitInv == SharedInit => IInv /\ OtherPassOk
<1>. SUFFICES ASSUME SharedInit  PROVE IInv /\ OtherPassOk
  OBVIOUS
<1>1. IInv
  BY WipeInitInv DEF SharedInit
<1>2. Len(Passes) \in Nat /\ 1 <= Len(Passes)
  BY WipeAssumption
<1>. QED  BY <1>1, <1>2 DEF SharedInit, Other!Init, OtherPassOk

\* Two wipes of one image at once: if the table covers the volume, neither
\* overwrites a cluster that was live when it opened the image, wherever the
\* two are, fail, die or are run again, and whatever is allocated meanwhile.
THEOREM EachWipeSparesLive ==
    ASSUME TableCovers
    PROVE  SharedSpec => SparesLive
<1>1. IInv /\ OtherPassOk /\ [SharedNext]_sharedVars => IInv' /\ OtherPassOk'
  BY SharedNextInv
<1>2. IInv /\ [SharedNext]_sharedVars =>
         [FirstStep => \A c \in liveAtOpen : \A b \in ClusterBytes(c) :
                           layer'[b] \in {0, layer[b]}]_sharedVars
  <2>1. FirstStep => Next
    BY DEF FirstStep, Next
  <2>. QED  BY <2>1, StepAvoids
<1>. QED  BY <1>1, <1>2, SharedInitInv, PTL DEF SharedSpec, SparesLive
=============================================================================
