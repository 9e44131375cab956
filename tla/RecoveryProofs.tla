--------------------------- MODULE RecoveryProofs ---------------------------
(***************************************************************************)
(* Proofs that recovery gives back what nothing disturbed and accounts for *)
(* what it wrote, and that confidence means what it says, for any volume,  *)
(* any sizes in its records, any number of files, of changes to the volume *)
(* and of records gone bad, before the job or during it.                   *)
(***************************************************************************)
EXTENDS RecoveryJob, Induction

-----------------------------------------------------------------------------
(* The invariant                                                           *)

CarvedNames == {"carved"} \X (Nat \ {0})

MetadataFiles == [how : {"metadata"}, name : Names, first : Int, size : Nat, confidence : Nat,
                  record : Records, clusters : RunLists \union {<<>>}]
CarvedFileSet == [how : {"carved"}, name : CarvedNames, first : Clusters, size : Nat,
                  clusters : Seq(Clusters)]
AnyFile == MetadataFiles \union CarvedFileSet

Cells == Int \X Nat
Results == [success : BOOLEAN, wrote : BOOLEAN, bytes : Seq(Cells)]

Typed ==
    /\ fs \in {"NTFS", "FAT32"}
    /\ mft \in [Records -> FileRecords \union {EmptyRecord}]
    /\ writes \in [Clusters -> Nat]
    /\ carvedAt \in Seq({<<c, c + 1>> : c \in Clusters})
    /\ changes \in Nat
    /\ session \in Seq(AnyFile) /\ files \in Seq(AnyFile) /\ results \in Seq(Results)
    /\ pc \in {"scan", "saved", "recover", "done", "error"}

\* What a metadata file had at the scan its record still has, unless it was
\* changed; a carved file's clusters lie in a row.
Known(f) ==
    /\ f.how = "metadata" =>
          /\ f.name \in named[f.record]
          /\ fs = "NTFS" => f.clusters # <<>>
          /\ f.record \notin touched =>
                mft[f.record] = [use |-> "deleted", name |-> f.name, runs |-> f.clusters,
                                 size |-> f.size]
    /\ f.how = "carved" => f.clusters = Contiguous(f)

AllKnown ==
    /\ \A i \in 1 .. Len(session) : Known(session[i])
    /\ \A i \in 1 .. Len(files) : Known(files[i])

\* The names records have are among those they had; the memory names records
\* in use, and with FAT32 none.
Remembered ==
    /\ named \in [Records -> SUBSET Names]
    /\ \A r \in Used(mft) : mft[r].name \in named[r]
    /\ \A n \in DOMAIN memory : memory[n] \in Used(mft)
    /\ fs = "FAT32" => DOMAIN memory = {}

\* The memory leads from an undisturbed file's name to a record, and from a
\* name that only one record has had to that record.
Leads(f) ==
    fs = "NTFS" /\ f.how = "metadata" =>
        /\ f.record \notin touched \union lost => f.name \in DOMAIN memory
        /\ f.name \in DOMAIN memory /\ Alone(f) => memory[f.name] = f.record

\* Where the job is.
Placed ==
    /\ pc = "scan" => /\ session = <<>> /\ touched = {} /\ changes = 0
                      /\ allocated = ClustersOf(mft, Live(mft))
    /\ pc \in {"scan", "saved"} => files = <<>> /\ results = <<>>
    /\ Len(results) <= Len(files)
    /\ pc = "recover" => \A i \in 1 .. Len(files) : Leads(files[i])

RecoveryInv == Typed /\ AllKnown /\ Remembered /\ Placed

-----------------------------------------------------------------------------
(* The files there are                                                     *)

LEMMA RunListsTyped ==
    ASSUME NEW s \in RunLists \union {<<>>}
    PROVE  s \in Seq(Clusters) /\ Len(s) \in Nat /\ DOMAIN s = 1 .. Len(s)
<1>1. s \in Seq(Clusters)
  <2>1. CASE s \in RunLists
    <3>1. PICK n \in 1 .. MaxRuns : s \in [1 .. n -> Clusters]
      BY <2>1 DEF RunLists
    <3>2. n \in Nat
      BY RecoveryAssumption
    <3>. QED  BY <3>1, <3>2
  <2>2. CASE s = <<>>
    BY <2>2
  <2>. QED  BY <2>1, <2>2
<1>. QED  BY <1>1

LEMMA DeletedTyped ==
    ASSUME Typed
    PROVE  /\ Deleted \subseteq Records /\ Cardinality(Deleted) \in Nat
           /\ \A r \in Deleted : /\ mft[r] \in FileRecords /\ mft[r].use = "deleted"
                                 /\ fs = "NTFS" => mft[r].runs # <<>>
<1>1. Deleted \subseteq Records
  BY DEF Deleted
<1>2. IsFiniteSet(Records)
  BY RecoveryAssumption, FS_Interval DEF Records
<1>3. Cardinality(Deleted) \in Nat
  BY <1>1, <1>2, FS_Subset, FS_CardinalityType
<1>4. \A r \in Deleted : mft[r] \in FileRecords /\ mft[r].use = "deleted"
  BY DEF Deleted, Typed, EmptyRecord
<1>. QED  BY <1>1, <1>3, <1>4 DEF Deleted

\* What enumerate_deleted reports of a record.
LEMMA MetadataKnown ==
    ASSUME Typed, Remembered, NEW r \in Deleted
    PROVE  /\ MetadataFile(r) \in MetadataFiles /\ Known(MetadataFile(r))
           /\ MetadataFile(r).name = mft[r].name
<1>1. r \in Records /\ mft[r] \in FileRecords /\ mft[r].use = "deleted"
      /\ (fs = "NTFS" => mft[r].runs # <<>>)
  BY DeletedTyped
<1>2. mft[r].name \in Names /\ mft[r].runs \in RunLists \union {<<>>} /\ mft[r].size \in Nat
      /\ mft[r] = [use |-> "deleted", name |-> mft[r].name, runs |-> mft[r].runs,
                   size |-> mft[r].size]
  BY <1>1, RecoveryAssumption DEF FileRecords
<1>3. mft[r].runs \in Seq(Clusters) /\ Len(mft[r].runs) \in Nat
  BY <1>2, RunListsTyped
<1>4. ASSUME HasFirst(r) PROVE mft[r].runs[1] \in Int
  <2>1. Clusters \subseteq Int
    BY RecoveryAssumption DEF Clusters
  <2>2. mft[r].runs # <<>>
    BY <1>4 DEF HasFirst
  <2>3. 1 \in 1 .. Len(mft[r].runs)
    BY <1>3, <2>2
  <2>4. mft[r].runs[1] \in Clusters
    BY <1>3, <2>3
  <2>. QED  BY <2>1, <2>4
<1>5. Confidence(mft[r].runs) \in Nat
  BY DEF Confidence
<1>6. (CASE fs = "NTFS" -> Confidence(mft[r].runs)
         [] fs = "FAT32" /\ HasFirst(r) -> 60
         [] OTHER -> 10) \in Nat
  BY <1>5
<1>. DEFINE first == IF HasFirst(r) THEN mft[r].runs[1] ELSE -2
            confidence == CASE fs = "NTFS" -> Confidence(mft[r].runs)
                            [] fs = "FAT32" /\ HasFirst(r) -> 60
                            [] OTHER -> 10
<1>7. MetadataFile(r) = [how |-> "metadata", name |-> mft[r].name, first |-> first,
                         size |-> mft[r].size, confidence |-> confidence,
                         record |-> r, clusters |-> mft[r].runs]
  BY Zenon DEF MetadataFile
<1>8. first \in Int /\ confidence \in Nat
  BY <1>4, <1>6
<1>. HIDE DEF first, confidence
<1>9. MetadataFile(r) \in MetadataFiles
  BY <1>1, <1>2, <1>3, <1>7, <1>8 DEF MetadataFiles
<1>10. mft[r].name \in named[r]
  BY <1>1 DEF Remembered, Used
<1>11. Known(MetadataFile(r))
  BY <1>1, <1>2, <1>7, <1>10 DEF Known
<1>. QED  BY <1>7, <1>9, <1>11

\* What the carver reports.
LEMMA CarvedKnown ==
    ASSUME Typed
    PROVE  /\ CarvedFiles \in Seq(AnyFile) /\ Len(CarvedFiles) = Len(carvedAt) /\ Len(carvedAt) \in Nat
           /\ \A i \in 1 .. Len(CarvedFiles) :
                 /\ CarvedFiles[i] \in CarvedFileSet /\ Known(CarvedFiles[i])
                 /\ CarvedFiles[i].name = <<"carved", i>>
<1>1. carvedAt \in Seq({<<c, c + 1>> : c \in Clusters}) /\ Len(carvedAt) \in Nat
      /\ DOMAIN carvedAt = 1 .. Len(carvedAt)
  BY DEF Typed
<1>2. ASSUME NEW i \in 1 .. Len(carvedAt)
      PROVE  /\ CarvedFile(i) \in CarvedFileSet /\ Known(CarvedFile(i))
             /\ CarvedFile(i).name = <<"carved", i>>
  <2>1. PICK c \in Clusters : carvedAt[i] = <<c, c + 1>>
    BY <1>1
  <2>2. c \in Nat
    BY RecoveryAssumption DEF Clusters
  <2>3. carvedAt[i][1] = c /\ carvedAt[i][2] - carvedAt[i][1] = 1
    BY <2>1, <2>2
  <2>. DEFINE at == [j \in 1 .. 1 |-> c + j - 1]
  <2>4. CarvedFile(i) = [how |-> "carved", name |-> <<"carved", i>>, first |-> c,
                         size |-> 1, clusters |-> at]
    BY <2>3 DEF CarvedFile
  <2>5. at \in Seq(Clusters)
    <3>1. \A j \in 1 .. 1 : at[j] = c
      BY <2>2
    <3>2. at \in [1 .. 1 -> Clusters]
      BY <3>1
    <3>. QED  BY <3>2
  <2>6. i \in Nat \ {0}
    BY <1>1
  <2>7. Contiguous(CarvedFile(i)) = at
    BY <2>4 DEF Contiguous
  <2>. HIDE DEF at
  <2>8. CarvedFile(i) \in CarvedFileSet
    BY <2>4, <2>5, <2>6 DEF CarvedFileSet, CarvedNames
  <2>9. Known(CarvedFile(i))
    BY <2>4, <2>7 DEF Known
  <2>. QED  BY <2>4, <2>8, <2>9
<1>3. CarvedFiles \in [1 .. Len(carvedAt) -> AnyFile]
  BY <1>1, <1>2 DEF CarvedFiles, AnyFile
<1>4. CarvedFiles \in Seq(AnyFile) /\ Len(CarvedFiles) = Len(carvedAt)
  BY <1>1, <1>3
<1>5. \A i \in 1 .. Len(CarvedFiles) : CarvedFiles[i] = CarvedFile(i)
  BY <1>1, <1>4 DEF CarvedFiles
<1>. QED  BY <1>1, <1>2, <1>4, <1>5

\* The session of a scan: the deleted files, then the carved ones.
LEMMA ScannedKnown ==
    ASSUME Typed, Remembered, NEW order \in Ascending(Deleted), NEW listed,
           listed = [i \in DOMAIN order |-> MetadataFile(order[i])]
    PROVE  /\ listed \in Seq(AnyFile) /\ Len(listed) = Cardinality(Deleted)
           /\ \A i \in 1 .. Len(listed) : /\ order[i] \in Deleted /\ listed[i] = MetadataFile(order[i])
                                          /\ Known(listed[i]) /\ listed[i] \in MetadataFiles
           /\ \A i, j \in 1 .. Len(listed) : order[i] = order[j] => i = j
<1>1. Cardinality(Deleted) \in Nat /\ Deleted \subseteq Records
  BY DeletedTyped
<1>2. order \in [1 .. Cardinality(Deleted) -> Deleted]
      /\ \A i, j \in 1 .. Cardinality(Deleted) : i < j => order[i] < order[j]
  BY DEF Ascending
<1>3. \A i \in 1 .. Cardinality(Deleted) :
         order[i] \in Deleted /\ MetadataFile(order[i]) \in MetadataFiles /\ Known(MetadataFile(order[i]))
  BY <1>2, MetadataKnown
<1>4. listed \in [1 .. Cardinality(Deleted) -> AnyFile]
  BY <1>2, <1>3 DEF AnyFile
<1>5. listed \in Seq(AnyFile) /\ Len(listed) = Cardinality(Deleted)
  BY <1>1, <1>4
<1>6. \A i, j \in 1 .. Len(listed) : order[i] = order[j] => i = j
  <2>1. \A i \in 1 .. Len(listed) : order[i] \in Nat
    <3>1. Records \subseteq Nat
      BY RecoveryAssumption DEF Records
    <3>. QED  BY <1>1, <1>2, <1>5, <3>1
  <2>2. \A i, j \in 1 .. Len(listed) : i < j => order[i] < order[j]
    BY <1>2, <1>5
  <2>3. \A i \in 1 .. Len(listed) : i \in Nat
    BY <1>5
  <2>. QED  BY <2>1, <2>2, <2>3
<1>. QED  BY <1>2, <1>3, <1>5, <1>6

-----------------------------------------------------------------------------
(* What is read                                                            *)

\* Max of record numbers is one of them.
LEMMA MaxRecord ==
    ASSUME NEW S \in SUBSET Records, S # {}
    PROVE  Max(S) \in S
<1>. DEFINE T == {n \in Nat : \E r \in S : n = NRecords - r}
<1>1. \A r \in S : r \in Nat /\ r < NRecords /\ NRecords - r \in T
  BY RecoveryAssumption DEF Records
<1>2. PICK m \in T : \A n \in T : m <= n
  <2>1. T # {}
    BY <1>1
  <2>. HIDE DEF T
  <2>2. T \in SUBSET Nat
    BY DEF T
  <2>. QED  BY <2>1, <2>2, LeastElement
<1>3. PICK r \in S : m = NRecords - r
  BY <1>2
<1>4. \A q \in S : r >= q
  <2>1. \A q \in S : m <= NRecords - q
    BY <1>1, <1>2
  <2>. QED  BY <1>1, <1>3, <2>1, RecoveryAssumption
<1>5. \E x \in S : \A y \in S : x >= y
  BY <1>4
<1>. QED  BY <1>5 DEF Max

LEMMA MinOfTwo ==
    ASSUME NEW a \in Nat, NEW b \in Nat
    PROVE  Min({a, b}) \in Nat /\ Min({a, b}) <= a /\ Min({a, b}) <= b /\ (a = b => Min({a, b}) = a)
<1>1. \E x \in {a, b} : \A y \in {a, b} : x <= y
  OBVIOUS
<1>2. Min({a, b}) \in {a, b} /\ \A y \in {a, b} : Min({a, b}) <= y
  BY <1>1 DEF Min
<1>. QED  BY <1>2

\* The first clusters of a run list.
LEMMA PrefixOf ==
    ASSUME NEW S, NEW s \in Seq(S), NEW k \in Nat, k <= Len(s)
    PROVE  /\ SubSeq(s, 1, k) \in Seq(S) /\ Len(SubSeq(s, 1, k)) = k
           /\ \A i \in 1 .. k : SubSeq(s, 1, k)[i] = s[i] /\ i \in 1 .. Len(s)
<1>1. \A i \in 1 .. k : s[i] \in S /\ i \in 1 .. Len(s)
  <2>1. Len(s) \in Nat /\ \A i \in 1 .. Len(s) : s[i] \in S
    OBVIOUS
  <2>2. \A i \in 1 .. k : i \in 1 .. Len(s)
    BY <2>1
  <2>. QED  BY <2>1, <2>2
<1>2. SubSeq(s, 1, k) = [i \in 1 .. k |-> s[i]]
  OBVIOUS
<1>3. [i \in 1 .. k |-> s[i]] \in [1 .. k -> S]
  BY <1>1
<1>. QED  BY <1>1, <1>2, <1>3

LEMMA FileTyped ==
    ASSUME NEW f \in AnyFile
    PROVE  /\ f.how \in {"metadata", "carved"} /\ f.size \in Nat /\ f.first \in Int
           /\ f.clusters \in Seq(Clusters) /\ DOMAIN f.clusters = 1 .. Len(f.clusters)
           /\ f.how = "metadata" => f \in MetadataFiles /\ f.record \in Records
           /\ Contiguous(f) \in Seq(Int) /\ Len(Contiguous(f)) = f.size
<1>1. Clusters \subseteq Int
  BY RecoveryAssumption DEF Clusters
<1>2. f.how \in {"metadata", "carved"} /\ f.size \in Nat /\ f.first \in Int
  BY <1>1 DEF AnyFile, MetadataFiles, CarvedFileSet
<1>3. f.clusters \in Seq(Clusters)
  BY RunListsTyped DEF AnyFile, MetadataFiles, CarvedFileSet
<1>4. f.how = "metadata" => f \in MetadataFiles /\ f.record \in Records
  BY DEF AnyFile, MetadataFiles, CarvedFileSet
<1>5. Contiguous(f) \in [1 .. f.size -> Int]
  BY <1>2 DEF Contiguous
<1>6. Contiguous(f) \in Seq(Int) /\ Len(Contiguous(f)) = f.size
  BY <1>2, <1>5
<1>. QED  BY <1>2, <1>3, <1>4, <1>6

\* A record in use has a run list.
LEMMA RunsTyped ==
    ASSUME Typed, NEW r \in Used(mft)
    PROVE  r \in Records /\ mft[r] \in FileRecords /\ mft[r].runs \in Seq(Clusters)
<1>1. r \in Records /\ mft[r] \in FileRecords
  BY DEF Typed, Used, EmptyRecord
<1>2. mft[r].runs \in RunLists \union {<<>>}
  BY <1>1 DEF FileRecords
<1>. QED  BY <1>1, <1>2, RunListsTyped

LEMMA SourceTyped ==
    ASSUME Typed, Remembered, NEW f \in AnyFile
    PROVE  Source(f) \in Seq(Int)
<1>1. f.size \in Nat /\ Contiguous(f) \in Seq(Int)
  BY FileTyped
<1>2. ASSUME FollowsRecord(f) PROVE Source(f) \in Seq(Int)
  <2>. DEFINE runs == mft[memory[f.name]].runs
  <2>1. memory[f.name] \in Used(mft)
    BY <1>2 DEF FollowsRecord, Remembered
  <2>2. runs \in Seq(Clusters)
    BY <2>1, RunsTyped
  <2>3. Source(f) = SubSeq(runs, 1, Min({f.size, Len(runs)}))
    BY <1>2 DEF Source
  <2>. HIDE DEF runs
  <2>4. Clusters \subseteq Int
    BY RecoveryAssumption DEF Clusters
  <2>5. runs \in Seq(Int)
    <3>1. runs \in [1 .. Len(runs) -> Clusters] /\ Len(runs) \in Nat
      BY <2>2
    <3>2. runs \in [1 .. Len(runs) -> Int]
      BY <2>4, <3>1
    <3>. QED  BY <3>1, <3>2
  <2>6. Min({f.size, Len(runs)}) \in Nat /\ Min({f.size, Len(runs)}) <= Len(runs)
    <3>1. Len(runs) \in Nat
      BY <2>5
    <3>. QED  BY <1>1, <3>1, MinOfTwo
  <2>7. SubSeq(runs, 1, Min({f.size, Len(runs)})) \in Seq(Int)
    BY <2>5, <2>6, PrefixOf
  <2>. QED  BY <2>3, <2>7
<1>. QED  BY <1>1, <1>2 DEF Source

LEMMA ContentTyped ==
    ASSUME Typed, Remembered, NEW f \in AnyFile, Recoverable(f)
    PROVE  Content(f) \in Seq(Cells) /\ Len(Content(f)) = f.size
<1>1. Source(f) \in Seq(Int) /\ f.size \in Nat /\ Len(Source(f)) \in Nat
      /\ DOMAIN Source(f) = 1 .. Len(Source(f))
  BY SourceTyped, FileTyped
<1>2. ASSUME NEW i \in 1 .. Len(Source(f)) PROVE Cell(Source(f)[i]) \in Cells
  <2>. DEFINE c == Source(f)[i]
  <2>1. c \in -2 .. NClusters - 1
    BY <1>1 DEF Recoverable, Range
  <2>2. c \in Int
    BY <1>1
  <2>. HIDE DEF c
  <2>3. ASSUME ~ (c < 0) PROVE writes[c] \in Nat
    BY <2>1, <2>2, <2>3, RecoveryAssumption DEF Typed, Clusters
  <2>4. Cell(c) \in Cells
    BY <2>2, <2>3 DEF Cell, Cells
  <2>. QED  BY <2>4 DEF c
<1>3. Content(f) \in [1 .. f.size -> Cells]
  <2>1. Zero \in Cells
    BY DEF Zero, Cells
  <2>2. \A i \in 1 .. f.size :
          (IF i <= Len(Source(f)) THEN Cell(Source(f)[i]) ELSE Zero) \in Cells
    BY <1>1, <1>2, <2>1
  <2>. QED  BY <2>2 DEF Content
<1>. QED  BY <1>1, <1>3

-----------------------------------------------------------------------------
(* RecoveryInv is inductive                                                *)

\* While the volume rests, what is known of it and of the files stays.
LEMMA VolumeRests ==
    ASSUME UNCHANGED <<volume, touched, named>>
    PROVE  /\ ClustersOf(mft, Live(mft))' = ClustersOf(mft, Live(mft))
           /\ \A f : Known(f) => Known(f)'
           /\ \A f : Alone(f) => Alone(f)'
<1>1. ClustersOf(mft, Live(mft))' = ClustersOf(mft, Live(mft))
  BY DEF ClustersOf, Live, volume
<1>2. \A f : Known(f) => Known(f)'
  BY DEF Known, Contiguous, volume
<1>3. \A f : Alone(f) => Alone(f)'
  BY DEF Alone
<1>. QED  BY <1>1, <1>2, <1>3

\* What leads to a file's record still does, though more be changed or lost.
LEMMA LeadsStays ==
    ASSUME UNCHANGED <<fs, memory>>, touched \subseteq touched', lost \subseteq lost',
           \A r \in Records : named[r] \subseteq named'[r]
    PROVE  \A f : Leads(f) => Leads(f)'
<1>1. ASSUME NEW f, Alone(f)' PROVE Alone(f)
  BY <1>1 DEF Alone
<1>. QED  BY <1>1 DEF Leads

LEMMA RememberedStays ==
    ASSUME Remembered, UNCHANGED <<volume, memory, named>>
    PROVE  Remembered'
<1>. QED  BY DEF Remembered, Used, volume

LEMMA RecoveryInitInv == Init => RecoveryInv
<1>. SUFFICES ASSUME Init PROVE RecoveryInv
  OBVIOUS
<1>1. carvedAt \in Seq({<<c, c + 1>> : c \in Clusters})
  <2>1. ASSUME NEW c \in CarvedFirst, carvedAt = <<<<c, c + 1>>>>
        PROVE  carvedAt \in Seq({<<d, d + 1>> : d \in Clusters})
    <3>1. c \in Clusters
      BY RecoveryAssumption DEF Clusters
    <3>. QED  BY <2>1, <3>1
  <2>2. CASE carvedAt = <<>>
    BY <2>2
  <2>. QED  BY <2>1, <2>2 DEF Init
<1>2. Typed
  BY <1>1 DEF Init, Typed
<1>3. Remembered
  <2>1. \A r \in Used(mft) : mft[r].name \in Names
    BY RunsTyped, <1>2 DEF FileRecords
  <2>2. named \in [Records -> SUBSET Names] /\ \A r \in Used(mft) : mft[r].name \in named[r]
    BY <2>1 DEF Init, Used
  <2>3. DOMAIN memory = {}
    BY DEF Init
  <2>. QED  BY <2>2, <2>3 DEF Remembered
<1>4. AllKnown /\ Placed
  BY DEF Init, AllKnown, Placed
<1>. QED  BY <1>2, <1>3, <1>4 DEF RecoveryInv

LEMMA ScanKeepsInv ==
    ASSUME RecoveryInv, Scan
    PROVE  RecoveryInv'
<1>1. Typed /\ AllKnown /\ Remembered /\ Placed
  BY DEF RecoveryInv
<1>2. PICK order \in Ascending(Deleted) :
         session' = [i \in DOMAIN order |-> MetadataFile(order[i])] \o CarvedFiles
  BY DEF Scan
<1>. DEFINE listed == [i \in DOMAIN order |-> MetadataFile(order[i])]
<1>3. listed \in Seq(AnyFile) /\ \A i \in 1 .. Len(listed) : Known(listed[i])
  BY <1>1, ScannedKnown
<1>4. CarvedFiles \in Seq(AnyFile) /\ \A i \in 1 .. Len(CarvedFiles) : Known(CarvedFiles[i])
  BY <1>1, CarvedKnown
<1>5. session' = listed \o CarvedFiles
  BY <1>2
<1>. HIDE DEF listed
<1>6. session' \in Seq(AnyFile) /\ \A i \in 1 .. Len(session') : Known(session'[i])
  BY <1>3, <1>4, <1>5
<1>7. /\ UNCHANGED <<volume, touched, named, carvedAt, memory, files, results, changes>>
      /\ pc = "scan" /\ pc' = "saved"
  BY DEF Scan
<1>8. Typed'
  BY <1>1, <1>6, <1>7 DEF Typed, volume
<1>9. AllKnown'
  BY <1>1, <1>6, <1>7, VolumeRests DEF AllKnown
<1>10. Remembered'
  BY <1>1, <1>7, RememberedStays
<1>11. Placed'
  BY <1>1, <1>7, VolumeRests DEF Placed
<1>. QED  BY <1>8, <1>9, <1>10, <1>11 DEF RecoveryInv

\* What the enumeration remembers: of each name a deleted record.
LEMMA NameMapTyped ==
    ASSUME Typed
    PROVE  /\ \A n \in DOMAIN NameMap : NameMap[n] \in Deleted /\ mft[NameMap[n]].name = n
           /\ fs = "NTFS" => \A r \in Deleted : mft[r].name \in DOMAIN NameMap
           /\ fs = "FAT32" => DOMAIN NameMap = {}
<1>1. ASSUME NEW n \in DOMAIN NameMap, fs = "NTFS"
      PROVE  NameMap[n] \in Deleted /\ mft[NameMap[n]].name = n
  <2>. DEFINE S == {r \in Deleted : mft[r].name = n}
  <2>1. n \in {mft[r].name : r \in Deleted} /\ NameMap[n] = Max(S)
    BY <1>1 DEF NameMap
  <2>2. S # {} /\ S \in SUBSET Records
    BY <2>1 DEF Deleted
  <2>. HIDE DEF S
  <2>3. Max(S) \in S
    BY <2>2, MaxRecord
  <2>. QED  BY <2>1, <2>3 DEF S
<1>2. fs = "NTFS" => \A r \in Deleted : mft[r].name \in DOMAIN NameMap
  BY DEF NameMap
<1>3. fs = "FAT32" => DOMAIN NameMap = {}
  BY DEF NameMap
<1>. QED  BY <1>1, <1>2, <1>3 DEF Typed

\* A memory just warmed leads to the records of all files that are known.
LEMMA WarmedLeads ==
    ASSUME Typed, Remembered, memory' = NameMap, UNCHANGED <<volume, lost, touched, named>>,
           NEW f \in AnyFile, Known(f)
    PROVE  Leads(f)'
<1>. SUFFICES ASSUME fs = "NTFS", f.how = "metadata"
              PROVE  /\ f.record \notin touched \union lost => f.name \in DOMAIN memory'
                     /\ f.name \in DOMAIN memory' /\ Alone(f)' => memory'[f.name] = f.record
  BY DEF Leads, volume
<1>1. f.record \in Records
  BY FileTyped
<1>2. ASSUME f.record \notin touched \union lost PROVE f.name \in DOMAIN memory'
  <2>1. mft[f.record] = [use |-> "deleted", name |-> f.name, runs |-> f.clusters, size |-> f.size]
        /\ f.clusters # <<>>
    BY <1>2 DEF Known
  <2>2. f.record \in Deleted
    BY <1>1, <1>2, <2>1 DEF Deleted
  <2>. QED  BY <2>1, <2>2, NameMapTyped
<1>3. ASSUME f.name \in DOMAIN memory', Alone(f)' PROVE memory'[f.name] = f.record
  <2>. DEFINE r == NameMap[f.name]
  <2>1. r \in Deleted /\ mft[r].name = f.name
    BY <1>3, NameMapTyped
  <2>. HIDE DEF r
  <2>2. r \in Records /\ r \in Used(mft)
    BY <2>1 DEF Deleted, Used
  <2>3. f.name \in named[r]
    BY <2>1, <2>2 DEF Remembered
  <2>4. r = f.record
    BY <1>3, <2>2, <2>3 DEF Alone
  <2>. QED  BY <2>4 DEF r
<1>. QED  BY <1>2, <1>3

\* A recovery begins: the files are known, and the memory is warm if any of
\* them needs it.
LEMMA StartKeepsInv ==
    ASSUME RecoveryInv, pc \in {"scan", "saved"}, pc' = "recover",
           UNCHANGED <<volume, lost, carvedAt, session, results, touched, named, changes>>,
           files' \in Seq(AnyFile), \A i \in 1 .. Len(files') : Known(files'[i]),
           \/ memory' = NameMap
           \/ memory' = memory /\ \A i \in 1 .. Len(files') : files'[i].how = "carved"
    PROVE  RecoveryInv'
<1>1. Typed'
  BY DEF RecoveryInv, Typed, volume
<1>2. AllKnown'
  BY VolumeRests DEF RecoveryInv, AllKnown
<1>3. Remembered'
  <2>1. Typed /\ Remembered
    BY DEF RecoveryInv
  <2>2. CASE memory' = memory
    BY <2>1, <2>2, RememberedStays
  <2>3. CASE memory' = NameMap
    <3>1. \A n \in DOMAIN NameMap : NameMap[n] \in Used(mft)
      <4>1. Deleted \subseteq Used(mft)
        BY DEF Deleted, Used
      <4>. QED  BY <2>1, <4>1, NameMapTyped
    <3>2. fs = "FAT32" => DOMAIN NameMap = {}
      BY <2>1, NameMapTyped
    <3>. QED  BY <2>1, <2>3, <3>1, <3>2 DEF Remembered, Used, volume
  <2>. QED  BY <2>2, <2>3
<1>4. ASSUME NEW i \in 1 .. Len(files'), NEW f, f = files'[i] PROVE Leads(f)'
  <2>1. f \in AnyFile /\ Known(f)
    BY <1>4
  <2>2. CASE memory' = NameMap
    BY <2>1, <2>2, WarmedLeads DEF RecoveryInv
  <2>3. CASE \A j \in 1 .. Len(files') : files'[j].how = "carved"
    BY <1>4, <2>3 DEF Leads
  <2>. QED  BY <2>2, <2>3
<1>5. results' = <<>> /\ Len(files') \in Nat
  BY DEF RecoveryInv, Placed
<1>6. Placed'
  BY <1>4, <1>5 DEF Placed
<1>. QED  BY <1>1, <1>2, <1>3, <1>6 DEF RecoveryInv

\* The file that recover of the CLI picks.
LEMMA FirstOfName ==
    ASSUME Typed, NEW n, \E r \in Deleted : mft[r].name = n
    PROVE  Min({r \in Deleted : mft[r].name = n}) \in Deleted
<1>. DEFINE S == {r \in Deleted : mft[r].name = n}
<1>1. S \in SUBSET Nat /\ S # {} /\ S \subseteq Deleted
  BY RecoveryAssumption DEF Deleted, Records
<1>. HIDE DEF S
<1>2. \E x \in S : \A y \in S : x <= y
  BY <1>1, LeastElement
<1>3. Min(S) \in S
  BY <1>2 DEF Min
<1>4. Min(S) \in Deleted
  BY <1>1, <1>3
<1>. QED  BY <1>4 DEF S

\* The files chosen from a session, in its order.
LEMMA ChosenKnown ==
    ASSUME RecoveryInv, NEW chosen \in SUBSET (DOMAIN session), NEW order \in Ascending(chosen),
           NEW picked, picked = [i \in DOMAIN order |-> session[order[i]]]
    PROVE  /\ picked \in Seq(AnyFile) /\ Len(picked) = Cardinality(chosen)
           /\ \A i \in 1 .. Len(picked) :
                 /\ order[i] \in 1 .. Len(session) /\ picked[i] = session[order[i]] /\ Known(picked[i])
           /\ \A i, j \in 1 .. Len(picked) : order[i] = order[j] => i = j
<1>1. session \in Seq(AnyFile) /\ Len(session) \in Nat /\ DOMAIN session = 1 .. Len(session)
  BY DEF RecoveryInv, Typed
<1>2. Cardinality(chosen) \in Nat
  <2>1. IsFiniteSet(1 .. Len(session))
    BY <1>1, FS_Interval
  <2>. QED  BY <1>1, <2>1, FS_Subset, FS_CardinalityType
<1>3. order \in [1 .. Cardinality(chosen) -> chosen]
      /\ \A i, j \in 1 .. Cardinality(chosen) : i < j => order[i] < order[j]
  BY DEF Ascending
<1>4. \A i \in 1 .. Cardinality(chosen) : order[i] \in 1 .. Len(session)
  BY <1>1, <1>3
<1>5. \A i \in 1 .. Cardinality(chosen) : session[order[i]] \in AnyFile /\ Known(session[order[i]])
  BY <1>1, <1>4 DEF RecoveryInv, AllKnown
<1>6. picked \in [1 .. Cardinality(chosen) -> AnyFile]
  BY <1>3, <1>5
<1>7. picked \in Seq(AnyFile) /\ Len(picked) = Cardinality(chosen)
  BY <1>2, <1>6
<1>8. \A i, j \in 1 .. Len(picked) : order[i] = order[j] => i = j
  <2>1. \A i \in 1 .. Len(picked) : i \in Nat /\ order[i] \in Nat
    BY <1>4, <1>7
  <2>2. \A i, j \in 1 .. Len(picked) : i < j => order[i] < order[j]
    BY <1>3, <1>7
  <2>. QED  BY <2>1, <2>2
<1>. QED  BY <1>3, <1>4, <1>5, <1>7, <1>8

LEMMA RecoveryStarts ==
    ASSUME RecoveryInv, NEW chosen \in SUBSET (DOMAIN session), StartRecovery(chosen)
    PROVE  RecoveryInv'
<1>1. PICK order \in Ascending(chosen) : files' = [i \in DOMAIN order |-> session[order[i]]]
  BY DEF StartRecovery
<1>2. files' \in Seq(AnyFile) /\ \A i \in 1 .. Len(files') : Known(files'[i])
  BY <1>1, ChosenKnown
<1>3. /\ pc = "saved" /\ pc' = "recover" /\ memory' = NameMap
      /\ UNCHANGED <<volume, lost, carvedAt, session, results, touched, named, changes>>
  BY DEF StartRecovery
<1>. QED  BY <1>2, <1>3, StartKeepsInv

LEMMA OneShotKeepsInv ==
    ASSUME RecoveryInv, CarveAll \/ \E n \in Names : RecoverNamed(n)
    PROVE  RecoveryInv'
<1>1. Typed /\ Remembered
  BY DEF RecoveryInv
<1>2. CASE CarveAll
  <2>1. /\ files' = CarvedFiles /\ pc = "scan" /\ pc' = "recover"
        /\ UNCHANGED <<volume, lost, carvedAt, session, memory, results, touched, named, changes>>
    BY <1>2 DEF CarveAll
  <2>2. /\ CarvedFiles \in Seq(AnyFile)
        /\ \A i \in 1 .. Len(CarvedFiles) : Known(CarvedFiles[i]) /\ CarvedFiles[i].how = "carved"
    BY <1>1, CarvedKnown DEF CarvedFileSet
  <2>. QED  BY <2>1, <2>2, StartKeepsInv
<1>3. ASSUME NEW n \in Names, RecoverNamed(n) PROVE RecoveryInv'
  <2>. DEFINE r == Min({q \in Deleted : mft[q].name = n})
  <2>1. /\ files' = <<MetadataFile(r)>> /\ memory' = NameMap /\ pc = "scan" /\ pc' = "recover"
        /\ UNCHANGED <<volume, lost, carvedAt, session, results, touched, named, changes>>
        /\ \E q \in Deleted : mft[q].name = n
    BY <1>3 DEF RecoverNamed
  <2>2. r \in Deleted
    BY <1>1, <2>1, FirstOfName
  <2>. HIDE DEF r
  <2>3. MetadataFile(r) \in AnyFile /\ Known(MetadataFile(r))
    BY <1>1, <2>2, MetadataKnown DEF AnyFile
  <2>4. files' \in Seq(AnyFile) /\ \A i \in 1 .. Len(files') : Known(files'[i])
    BY <2>1, <2>3
  <2>. QED  BY <2>1, <2>4, StartKeepsInv
<1>. QED  BY <1>2, <1>3

\* The volume changes, in one record, which counts as touched.
LEMMA ChangeKeepsInv ==
    ASSUME RecoveryInv, Change, UNCHANGED fs, NEW r \in Records, NEW record \in FileRecords,
           touched' = touched \union {r},
           mft' = [mft EXCEPT ![r] = record],
           named' \in [Records -> SUBSET Names], record.name \in named'[r],
           \A q \in Records : named[q] \subseteq named'[q],
           writes' \in [Clusters -> Nat]
    PROVE  RecoveryInv'
<1>1. /\ UNCHANGED <<lost, carvedAt, session, memory, files, results, pc>>
      /\ pc # "scan" /\ changes' = changes + 1
  BY DEF Change
<1>2. /\ mft \in [Records -> FileRecords \union {EmptyRecord}]
      /\ mft' \in [Records -> FileRecords \union {EmptyRecord}] /\ mft'[r] = record
      /\ \A q \in Records : q # r => mft'[q] = mft[q]
  BY DEF RecoveryInv, Typed
<1>3. Typed'
  BY <1>1, <1>2 DEF RecoveryInv, Typed
<1>4. ASSUME NEW f \in AnyFile, Known(f) PROVE Known(f)'
  <2>1. f.how = "metadata" => f.record \in Records
    BY FileTyped
  <2>. QED  BY <1>2, <1>4, <2>1 DEF Known, Contiguous
<1>5. /\ \A i \in 1 .. Len(session) : session[i] \in AnyFile
      /\ \A i \in 1 .. Len(files) : files[i] \in AnyFile
  BY DEF RecoveryInv, Typed
<1>6. AllKnown'
  BY <1>1, <1>4, <1>5 DEF RecoveryInv, AllKnown
<1>7. Remembered'
  <2>1. record.use # "empty"
    BY DEF FileRecords
  <2>2. Used(mft') = Used(mft) \union {r}
    BY <1>2, <2>1 DEF Used
  <2>3. \A q \in Used(mft') : mft'[q].name \in named'[q]
    <3>1. Used(mft) \subseteq Records
      BY DEF Used
    <3>. QED  BY <1>2, <2>2, <3>1 DEF RecoveryInv, Remembered
  <2>. QED  BY <1>1, <2>2, <2>3 DEF RecoveryInv, Remembered
<1>8. \A f : Leads(f) => Leads(f)'
  BY <1>1, LeadsStays
<1>9. Placed'
  BY <1>1, <1>8 DEF RecoveryInv, Placed
<1>. QED  BY <1>3, <1>6, <1>7, <1>9 DEF RecoveryInv

LEMMA MakeKeepsInv ==
    ASSUME RecoveryInv, NEW r \in Records, NEW n \in Names, NEW runs \in MadeRuns, MakeFile(r, n, runs)
    PROVE  RecoveryInv'
<1>. DEFINE record == [use |-> "live", name |-> n, runs |-> runs, size |-> Len(runs)]
<1>1. writes \in [Clusters -> Nat] /\ named \in [Records -> SUBSET Names]
  BY DEF RecoveryInv, Typed, Remembered
<1>2. record \in FileRecords
  <2>1. runs \in RunLists \union {<<>>}
    BY MadeAssumption
  <2>2. Len(runs) \in 0 .. MaxRuns
    <3>1. CASE runs = <<>>
      BY <3>1, RecoveryAssumption
    <3>2. CASE runs \in RunLists
      <4>1. PICK k \in 1 .. MaxRuns : runs \in [1 .. k -> Clusters]
        BY <3>2 DEF RunLists
      <4>2. k \in Nat /\ k <= MaxRuns
        BY RecoveryAssumption
      <4>. QED  BY <4>1, <4>2
    <3>. QED  BY <2>1, <3>1, <3>2
  <2>3. Len(runs) \in Sizes
    BY <2>2, RecoveryAssumption
  <2>. QED  BY <2>1, <2>3 DEF FileRecords
<1>3. record.name = n
  OBVIOUS
<1>4. mft' = [mft EXCEPT ![r] = record] /\ touched' = touched \union {r} /\ Change /\ UNCHANGED fs
  BY DEF MakeFile
<1>. HIDE DEF record
<1>5. writes' \in [Clusters -> Nat]
  BY <1>1 DEF MakeFile
<1>6. /\ named' \in [Records -> SUBSET Names] /\ n \in named'[r]
      /\ \A q \in Records : named[q] \subseteq named'[q]
  BY <1>1 DEF MakeFile
<1>. QED  BY <1>2, <1>3, <1>4, <1>5, <1>6, ChangeKeepsInv

LEMMA DeleteKeepsInv ==
    ASSUME RecoveryInv, NEW r \in Records, DeleteFile(r)
    PROVE  RecoveryInv'
<1>. DEFINE dead == [mft[r] EXCEPT !.use = "deleted"]
<1>1. /\ mft \in [Records -> FileRecords \union {EmptyRecord}]
      /\ named \in [Records -> SUBSET Names] /\ writes' \in [Clusters -> Nat]
  BY DEF RecoveryInv, Typed, Remembered, DeleteFile
<1>2. mft[r] \in FileRecords /\ r \in Used(mft)
  BY <1>1 DEF DeleteFile, EmptyRecord, Used
<1>3. dead \in FileRecords /\ dead.name = mft[r].name
  BY <1>2 DEF FileRecords
<1>4. mft' = [mft EXCEPT ![r] = dead] /\ touched' = touched \union {r} /\ named' = named
      /\ Change /\ UNCHANGED fs
  BY DEF DeleteFile
<1>. HIDE DEF dead
<1>5. dead.name \in named'[r] /\ \A q \in Records : named[q] \subseteq named'[q]
  BY <1>2, <1>3, <1>4 DEF RecoveryInv, Remembered
<1>. QED  BY <1>1, <1>3, <1>4, <1>5, ChangeKeepsInv

LEMMA LoseKeepsInv ==
    ASSUME RecoveryInv, NEW r \in Records, LoseRecord(r)
    PROVE  RecoveryInv'
<1>1. /\ UNCHANGED <<volume, carvedAt, session, memory, files, results, touched, named, changes, pc>>
      /\ UNCHANGED <<fs, allocated>> /\ lost \subseteq lost'
  BY DEF LoseRecord, volume
<1>2. Typed'
  BY <1>1 DEF RecoveryInv, Typed, volume
<1>3. AllKnown' /\ Remembered'
  BY <1>1, VolumeRests, RememberedStays DEF RecoveryInv, AllKnown
<1>4. \A f : Leads(f) => Leads(f)'
  BY <1>1, LeadsStays
<1>5. Placed'
  BY <1>1, <1>4, VolumeRests DEF RecoveryInv, Placed
<1>. QED  BY <1>2, <1>3, <1>5 DEF RecoveryInv

\* The file whose turn it is, and its result.
LEMMA CurrentKnown ==
    ASSUME RecoveryInv, NextFile
    PROVE  /\ Len(results) + 1 \in 1 .. Len(files)
           /\ Current \in AnyFile /\ Known(Current) /\ Leads(Current)
<1>1. files \in Seq(AnyFile) /\ results \in Seq(Results) /\ pc = "recover"
      /\ Len(results) < Len(files)
  BY DEF RecoveryInv, Typed, NextFile
<1>2. Len(results) + 1 \in 1 .. Len(files)
  BY <1>1
<1>. QED  BY <1>1, <1>2 DEF Current, RecoveryInv, AllKnown, Placed

LEMMA NextKeepsInv ==
    ASSUME RecoveryInv, NextFile, NEW result \in Results, results' = Append(results, result),
           pc' \in {"recover", "error"}
    PROVE  RecoveryInv'
<1>1. /\ UNCHANGED <<volume, lost, carvedAt, session, memory, files, touched, named, changes>>
      /\ pc = "recover" /\ Len(results) + 1 \in 1 .. Len(files)
      /\ UNCHANGED fs
  BY CurrentKnown DEF NextFile, volume
<1>2. results' \in Seq(Results) /\ Len(results') = Len(results) + 1 /\ Len(files) \in Nat
  BY DEF RecoveryInv, Typed
<1>3. Typed'
  BY <1>1, <1>2 DEF RecoveryInv, Typed, volume
<1>4. AllKnown' /\ Remembered'
  BY <1>1, VolumeRests, RememberedStays DEF RecoveryInv, AllKnown
<1>5. \A f : Leads(f) => Leads(f)'
  BY <1>1, LeadsStays
<1>6. Placed'
  BY <1>1, <1>2, <1>5 DEF RecoveryInv, Placed
<1>. QED  BY <1>3, <1>4, <1>6 DEF RecoveryInv

LEMMA RecoverKeepsInv ==
    ASSUME RecoveryInv, RecoverOne \/ NoSuccess \/ WriteStops
    PROVE  RecoveryInv'
<1>1. NextFile /\ pc = "recover"
  BY DEF RecoverOne, NoSuccess, WriteStops, NextFile
<1>2. Current \in AnyFile
  BY <1>1, CurrentKnown
<1>3. ASSUME Recoverable(Current) PROVE Content(Current) \in Seq(Cells)
  BY <1>2, <1>3, ContentTyped DEF RecoveryInv
<1>4. CASE RecoverOne
  <2>1. Content(Current) \in Seq(Cells) /\ pc' = pc
    BY <1>3, <1>4 DEF RecoverOne
  <2>2. [success |-> Content(Current) # <<>>, wrote |-> TRUE, bytes |-> Content(Current)] \in Results
    BY <2>1 DEF Results
  <2>. QED  BY <1>1, <1>4, <2>1, <2>2, NextKeepsInv DEF RecoverOne
<1>5. CASE NoSuccess
  <2>1. [success |-> FALSE, wrote |-> FALSE, bytes |-> <<>>] \in Results
    BY DEF Results
  <2>. QED  BY <1>1, <1>5, <2>1, NextKeepsInv DEF NoSuccess, GoOn
<1>6. CASE WriteStops
  <2>1. PICK n \in 0 .. Len(Content(Current)) - 1 :
           results' = Append(results, [success |-> FALSE, wrote |-> TRUE,
                                       bytes |-> SubSeq(Content(Current), 1, n)])
    BY <1>6 DEF WriteStops
  <2>2. Content(Current) \in Seq(Cells) /\ Len(Content(Current)) \in Nat
    BY <1>3, <1>6 DEF WriteStops
  <2>3. n \in Nat /\ n <= Len(Content(Current))
    BY <2>2
  <2>4. SubSeq(Content(Current), 1, n) \in Seq(Cells)
    BY <2>2, <2>3, PrefixOf
  <2>5. [success |-> FALSE, wrote |-> TRUE, bytes |-> SubSeq(Content(Current), 1, n)] \in Results
    BY <2>4 DEF Results
  <2>. QED  BY <1>1, <1>6, <2>1, <2>5, NextKeepsInv DEF WriteStops, GoOn
<1>. QED  BY <1>4, <1>5, <1>6

LEMMA RestKeepsInv ==
    ASSUME RecoveryInv, OpenFails \/ RecoverPanics \/ Finish \/ Ended \/ UNCHANGED vars
    PROVE  RecoveryInv'
<1>1. /\ UNCHANGED <<volume, lost, carvedAt, session, memory, files, results, touched, named, changes>>
      /\ pc' = pc \/ pc' \in {"done", "error"}
  BY DEF OpenFails, RecoverPanics, Finish, Ended, vars
<1>2. Typed'
  BY <1>1 DEF RecoveryInv, Typed, volume
<1>3. AllKnown' /\ Remembered'
  BY <1>1, VolumeRests, RememberedStays DEF RecoveryInv, AllKnown
<1>4. \A f : Leads(f) => Leads(f)'
  BY <1>1, LeadsStays DEF volume
<1>5. Placed'
  <2>1. allocated' = allocated
    BY <1>1 DEF volume
  <2>2. CASE pc' = pc
    BY <1>1, <1>4, <2>1, <2>2, VolumeRests DEF RecoveryInv, Placed
  <2>3. CASE pc' \in {"done", "error"}
    BY <1>1, <2>3 DEF RecoveryInv, Placed
  <2>. QED  BY <1>1, <2>2, <2>3
<1>. QED  BY <1>2, <1>3, <1>5 DEF RecoveryInv

LEMMA RecoveryNextInv ==
    ASSUME RecoveryInv, [Next]_vars
    PROVE  RecoveryInv'
<1>1. CASE Scan
  BY <1>1, ScanKeepsInv
<1>2. CASE CarveAll \/ \E n \in Names : RecoverNamed(n)
  BY <1>2, OneShotKeepsInv
<1>3. ASSUME NEW n \in Names, RecoverFromSession(n) PROVE RecoveryInv'
  BY <1>3, RecoveryStarts DEF RecoverFromSession
<1>4. CASE \E r \in Records, n \in Names, runs \in MadeRuns : MakeFile(r, n, runs)
  BY <1>4, MakeKeepsInv
<1>5. CASE \E r \in Records : DeleteFile(r) \/ LoseRecord(r)
  BY <1>5, DeleteKeepsInv, LoseKeepsInv
<1>6. CASE \E chosen \in SUBSET (DOMAIN session) : StartRecovery(chosen)
  BY <1>6, RecoveryStarts
<1>7. CASE RecoverOne \/ RecoverFails \/ WriteFails \/ WriteStops
  BY <1>7, RecoverKeepsInv DEF RecoverFails, WriteFails
<1>8. CASE OpenFails \/ RecoverPanics \/ Finish \/ Ended \/ UNCHANGED vars
  BY <1>8, RestKeepsInv
<1>. QED  BY <1>1, <1>2, <1>3, <1>4, <1>5, <1>6, <1>7, <1>8 DEF Next

LEMMA RecoveryInvariant == Spec => []RecoveryInv
<1>. QED  BY RecoveryInitInv, RecoveryNextInv, PTL DEF Spec

-----------------------------------------------------------------------------
(* What nothing disturbed comes back                                       *)

\* Of an undisturbed file that can be found recovery reads the clusters it had.
LEMMA SourceExact ==
    ASSUME Typed, Remembered, NEW f \in AnyFile, Known(f), Leads(f), ~Disturbed(f), Findable(f)
    PROVE  \A j \in 1 .. f.size : /\ j <= Len(Source(f)) <=> j <= Len(f.clusters)
                                  /\ j <= Len(f.clusters) => Source(f)[j] = f.clusters[j]
<1>1. /\ f.size \in Nat /\ f.clusters \in Seq(Clusters) /\ Len(f.clusters) \in Nat
      /\ f.how = "metadata" => f.record \notin touched
      /\ fs \in {"NTFS", "FAT32"}
  BY FileTyped DEF Disturbed, Typed
<1>2. ASSUME f.how = "metadata", fs = "NTFS", f.name \in DOMAIN memory
      PROVE  memory[f.name] = f.record /\ mft[memory[f.name]].runs = f.clusters
  <2>1. memory[f.name] = f.record
    BY <1>2 DEF Findable, Leads
  <2>2. mft[f.record] = [use |-> "deleted", name |-> f.name, runs |-> f.clusters, size |-> f.size]
    BY <1>1, <1>2 DEF Known
  <2>. QED  BY <2>1, <2>2
<1>3. CASE FollowsRecord(f)
  <2>1. f.how = "metadata" /\ f.name \in DOMAIN memory
    BY <1>3 DEF FollowsRecord
  <2>2. fs = "NTFS"
    BY <1>1, <2>1 DEF Remembered
  <2>. DEFINE k == Min({f.size, Len(f.clusters)})
  <2>3. Source(f) = SubSeq(f.clusters, 1, k)
    BY <1>2, <1>3, <2>1, <2>2 DEF Source
  <2>4. k \in Nat /\ k <= f.size /\ k <= Len(f.clusters) /\ k \in {f.size, Len(f.clusters)}
    <3>1. \E x \in {f.size, Len(f.clusters)} : \A y \in {f.size, Len(f.clusters)} : x <= y
      BY <1>1
    <3>2. k \in {f.size, Len(f.clusters)}
      BY <3>1 DEF Min
    <3>. QED  BY <1>1, <3>2, MinOfTwo
  <2>. HIDE DEF k
  <2>5. /\ Len(SubSeq(f.clusters, 1, k)) = k
        /\ \A i \in 1 .. k : SubSeq(f.clusters, 1, k)[i] = f.clusters[i]
    BY <1>1, <2>4, PrefixOf
  <2>. QED  BY <1>1, <2>3, <2>4, <2>5
<1>4. CASE ~ FollowsRecord(f)
  <2>1. InOnePiece(f)
    <3>. SUFFICES ASSUME HasRecord(f) PROVE FALSE
      BY DEF Findable
    <3>1. fs = "NTFS" /\ f.how = "metadata" /\ f.record \notin lost
      BY DEF HasRecord
    <3>2. f.name \in DOMAIN memory /\ f.clusters # <<>>
      BY <1>1, <3>1 DEF Leads, Known
    <3>. QED  BY <1>2, <1>4, <3>1, <3>2 DEF FollowsRecord
  <2>2. f.size <= Len(f.clusters) /\ SubSeq(f.clusters, 1, f.size) = Contiguous(f)
    BY <2>1 DEF InOnePiece
  <2>3. Source(f) = Contiguous(f)
    BY <1>4 DEF Source
  <2>4. /\ Len(SubSeq(f.clusters, 1, f.size)) = f.size
        /\ \A i \in 1 .. f.size : SubSeq(f.clusters, 1, f.size)[i] = f.clusters[i]
    BY <1>1, <2>2, PrefixOf
  <2>. QED  BY <1>1, <2>2, <2>3, <2>4
<1>. QED  BY <1>3, <1>4

LEMMA ContentExact ==
    ASSUME Typed, Remembered, NEW f \in AnyFile, Known(f), Leads(f), ~Disturbed(f), Findable(f)
    PROVE  Content(f) = Original(f)
<1>1. /\ f.size \in Nat /\ f.clusters \in Seq(Clusters) /\ Len(f.clusters) \in Nat
      /\ DOMAIN f.clusters = 1 .. Len(f.clusters)
  BY FileTyped
<1>2. ASSUME NEW j \in 1 .. f.size
      PROVE  (IF j <= Len(Source(f)) THEN Cell(Source(f)[j]) ELSE Zero)
                = (IF j <= Len(f.clusters) THEN <<f.clusters[j], 0>> ELSE Zero)
  <2>1. /\ j <= Len(Source(f)) <=> j <= Len(f.clusters)
        /\ j <= Len(f.clusters) => Source(f)[j] = f.clusters[j]
    BY SourceExact
  <2>2. ASSUME j <= Len(f.clusters) PROVE Cell(f.clusters[j]) = <<f.clusters[j], 0>>
    <3>. DEFINE c == f.clusters[j]
    <3>1. c \in Clusters /\ c \in Range(f.clusters)
      BY <1>1, <2>2 DEF Range
    <3>. HIDE DEF c
    <3>2. c \in Nat /\ ~ (c < 0)
      BY <3>1, RecoveryAssumption DEF Clusters
    <3>3. writes[c] \in Nat /\ ~ (writes[c] > 0)
      BY <3>1 DEF Typed, Disturbed
    <3>4. Cell(c) = <<c, 0>>
      BY <3>2, <3>3 DEF Cell
    <3>. QED  BY <3>4 DEF c
  <2>. QED  BY <2>1, <2>2
<1>. QED  BY <1>2, Zenon DEF Content, Original

\* What is disturbed stays so, and what cannot be found is not found again.
LEMMA DisturbedStays ==
    ASSUME RecoveryInv, UNCHANGED fs, touched \subseteq touched', lost \subseteq lost',
           \A r \in Records : named[r] \subseteq named'[r],
           \A c \in Clusters : writes[c] > 0 => writes'[c] > 0
    PROVE  \A f \in AnyFile : /\ Disturbed(f) => Disturbed(f)'
                              /\ Findable(f)' => Findable(f)
<1>. TAKE f \in AnyFile
<1>1. Disturbed(f) => Disturbed(f)'
  <2>1. f.clusters \in Seq(Clusters) /\ DOMAIN f.clusters = 1 .. Len(f.clusters)
    BY FileTyped
  <2>2. Range(f.clusters) \subseteq Clusters
    BY <2>1 DEF Range
  <2>. QED  BY <2>2 DEF Disturbed
<1>2. Alone(f)' => Alone(f)
  BY DEF Alone
<1>3. HasRecord(f)' => HasRecord(f)
  BY DEF HasRecord
<1>4. InOnePiece(f)' => InOnePiece(f)
  BY DEF InOnePiece, Contiguous
<1>. QED  BY <1>1, <1>2, <1>3, <1>4 DEF Findable

LEMMA ExactStays ==
    ASSUME RecoveryInv, UndisturbedIsExact, UNCHANGED <<fs, files, results>>,
           touched \subseteq touched', lost \subseteq lost',
           \A r \in Records : named[r] \subseteq named'[r],
           \A c \in Clusters : writes[c] > 0 => writes'[c] > 0
    PROVE  UndisturbedIsExact'
<1>1. DOMAIN results = 1 .. Len(results) /\ files \in Seq(AnyFile) /\ Len(results) <= Len(files)
      /\ Len(results) \in Nat /\ Len(files) \in Nat
  BY DEF RecoveryInv, Typed, Placed
<1>2. \A f \in AnyFile : (Disturbed(f) => Disturbed(f)') /\ (Findable(f)' => Findable(f))
  BY DisturbedStays
<1>3. \A f : Original(f)' = Original(f)
  BY DEF Original
<1>. SUFFICES ASSUME NEW i \in DOMAIN results, NEW f, f = files[i], results[i].success,
                     (~Disturbed(f))', Findable(f)'
              PROVE  results[i].bytes = Original(f)
  BY <1>3 DEF UndisturbedIsExact
<1>4. f \in AnyFile
  BY <1>1
<1>. QED  BY <1>2, <1>4 DEF UndisturbedIsExact

\* One more result, right if it is a success.
LEMMA ExactGrows ==
    ASSUME RecoveryInv, UndisturbedIsExact, NextFile, NEW r \in Results,
           results' = Append(results, r),
           r.success => r.bytes = Content(Current)
    PROVE  UndisturbedIsExact'
<1>1. /\ results \in Seq(Results) /\ files \in Seq(AnyFile) /\ Len(results) <= Len(files)
      /\ Len(results) \in Nat /\ Len(files) \in Nat /\ DOMAIN results = 1 .. Len(results)
  BY DEF RecoveryInv, Typed, Placed
<1>2. /\ DOMAIN results' = 1 .. Len(results) + 1 /\ results'[Len(results) + 1] = r
      /\ \A i \in 1 .. Len(results) : results'[i] = results[i]
  BY <1>1
<1>3. UNCHANGED <<fs, writes, touched, lost, named, files>>
  BY DEF NextFile, volume
<1>4. \A f \in AnyFile : (Disturbed(f) => Disturbed(f)') /\ (Findable(f)' => Findable(f))
  BY <1>3, DisturbedStays
<1>5. \A f : Original(f)' = Original(f)
  BY DEF Original
<1>. SUFFICES ASSUME NEW i \in DOMAIN results', NEW f, f = files[i], results'[i].success,
                     (~Disturbed(f))', Findable(f)'
              PROVE  results'[i].bytes = Original(f)
  BY <1>3, <1>5 DEF UndisturbedIsExact
<1>6. CASE i \in 1 .. Len(results)
  <2>1. f \in AnyFile /\ i \in DOMAIN results
    BY <1>1, <1>6
  <2>. QED  BY <1>2, <1>4, <1>6, <2>1 DEF UndisturbedIsExact
<1>7. CASE i = Len(results) + 1
  <2>1. f = Current /\ f \in AnyFile /\ Known(f) /\ Leads(f)
    BY <1>7, CurrentKnown DEF Current
  <2>2. Content(f) = Original(f)
    BY <1>4, <2>1, ContentExact DEF RecoveryInv
  <2>. QED  BY <1>2, <1>7, <2>1, <2>2
<1>. QED  BY <1>2, <1>6, <1>7

LEMMA NextExact ==
    ASSUME RecoveryInv, UndisturbedIsExact, [Next]_vars
    PROVE  UndisturbedIsExact'
<1>1. CASE results' = <<>>
  BY <1>1 DEF UndisturbedIsExact
<1>2. CASE Scan \/ CarveAll \/ \E n \in Names : RecoverNamed(n) \/ RecoverFromSession(n)
  BY <1>1, <1>2 DEF Scan, CarveAll, RecoverNamed, RecoverFromSession, StartRecovery,
                   RecoveryInv, Placed
<1>3. CASE \E chosen \in SUBSET (DOMAIN session) : StartRecovery(chosen)
  BY <1>1, <1>3 DEF StartRecovery, RecoveryInv, Placed
<1>4. ASSUME NEW r \in Records, NEW n \in Names, NEW runs \in MadeRuns, MakeFile(r, n, runs)
      PROVE  UndisturbedIsExact'
  <2>1. UNCHANGED <<fs, files, results, lost>> /\ touched \subseteq touched'
    BY <1>4 DEF MakeFile, Change
  <2>2. writes \in [Clusters -> Nat] /\ named \in [Records -> SUBSET Names]
    BY DEF RecoveryInv, Typed, Remembered
  <2>3. \A q \in Records : named[q] \subseteq named'[q]
    BY <1>4, <2>2 DEF MakeFile
  <2>4. \A c \in Clusters : writes[c] > 0 => writes'[c] > 0
    BY <1>4, <2>2 DEF MakeFile
  <2>. QED  BY <2>1, <2>3, <2>4, ExactStays
<1>5. CASE \E r \in Records : DeleteFile(r) \/ LoseRecord(r)
  <2>1. /\ UNCHANGED <<fs, files, results, named, writes>>
        /\ touched \subseteq touched' /\ lost \subseteq lost'
    BY <1>5 DEF DeleteFile, LoseRecord, Change, volume
  <2>. QED  BY <2>1, ExactStays
<1>6. CASE RecoverOne
  <2>. DEFINE r == [success |-> Content(Current) # <<>>, wrote |-> TRUE, bytes |-> Content(Current)]
  <2>1. NextFile /\ results' = Append(results, r) /\ Recoverable(Current)
    BY <1>6 DEF RecoverOne
  <2>2. Content(Current) \in Seq(Cells)
    BY <2>1, CurrentKnown, ContentTyped DEF RecoveryInv
  <2>3. r \in Results /\ r.bytes = Content(Current)
    BY <2>2 DEF Results
  <2>. HIDE DEF r
  <2>. QED  BY <2>1, <2>3, ExactGrows
<1>7. CASE NoSuccess
  <2>. DEFINE r == [success |-> FALSE, wrote |-> FALSE, bytes |-> <<>>]
  <2>1. NextFile /\ results' = Append(results, r) /\ r \in Results /\ ~ r.success
    BY <1>7 DEF NoSuccess, Results
  <2>. QED  BY <2>1, ExactGrows
<1>8. CASE WriteStops
  <2>1. PICK n \in 0 .. Len(Content(Current)) - 1 :
           results' = Append(results, [success |-> FALSE, wrote |-> TRUE,
                                       bytes |-> SubSeq(Content(Current), 1, n)])
    BY <1>8 DEF WriteStops
  <2>. DEFINE r == [success |-> FALSE, wrote |-> TRUE, bytes |-> SubSeq(Content(Current), 1, n)]
  <2>2. Content(Current) \in Seq(Cells) /\ NextFile
    BY <1>8, CurrentKnown, ContentTyped DEF WriteStops, RecoveryInv
  <2>3. n \in Nat /\ n <= Len(Content(Current))
    BY <2>2
  <2>4. SubSeq(Content(Current), 1, n) \in Seq(Cells)
    BY <2>2, <2>3, PrefixOf
  <2>5. r \in Results /\ ~ r.success
    BY <2>4 DEF Results
  <2>6. results' = Append(results, r)
    BY <2>1
  <2>. HIDE DEF r
  <2>. QED  BY <2>2, <2>5, <2>6, ExactGrows
<1>9. CASE OpenFails \/ RecoverPanics \/ Finish \/ Ended \/ UNCHANGED vars
  <2>1. UNCHANGED <<fs, files, results, named, writes, touched, lost>>
    BY <1>9 DEF OpenFails, RecoverPanics, Finish, Ended, vars, volume
  <2>. QED  BY <2>1, ExactStays
<1>. QED  BY <1>2, <1>3, <1>4, <1>5, <1>6, <1>7, <1>8, <1>9 DEF Next, RecoverFails, WriteFails

\* A file nothing has disturbed since the scan is recovered byte for byte or
\* not at all, if its record can still be read or it lies in one piece and, on
\* NTFS, no other record has had its name: recover_files, from a session or at
\* once, of any files, in any number of pieces and of whatever size they say,
\* whatever becomes of the rest of the volume before the job and during it.
THEOREM UndisturbedComesBack == Spec => []UndisturbedIsExact
<1>1. Init => UndisturbedIsExact
  BY DEF Init, UndisturbedIsExact
<1>2. RecoveryInv /\ UndisturbedIsExact /\ [Next]_vars => UndisturbedIsExact'
  BY NextExact
<1>. QED  BY <1>1, <1>2, RecoveryInvariant, PTL DEF Spec

-----------------------------------------------------------------------------
(* What is written is accounted for                                        *)

\* The conjuncts of OutputsAccounted that speak of the directory.
Written == {files[i].name : i \in {k \in DOMAIN results : results[k].wrote}}
Overwritten(i) == \E j \in i + 1 .. Len(results) : results[j].wrote /\ files[j].name = files[i].name
AsReported ==
    /\ DOMAIN outputs = Written
    /\ \A i \in DOMAIN results : \/ ~results[i].wrote
                                \/ Overwritten(i)
                                \/ outputs[files[i].name] = results[i].bytes

LEMMA ReportedBefore == OutputsAccounted <=> AsReported /\ (pc = "done" => Len(results) = Len(files))
<1>. QED  BY DEF OutputsAccounted, AsReported, Overwritten, Written

\* A file was written, and its result appended.
LEMMA WriteReported ==
    ASSUME RecoveryInv, AsReported, NextFile, NEW r \in Results, results' = Append(results, r),
           IF r.wrote THEN Write(r.bytes) ELSE UNCHANGED outputs
    PROVE  AsReported'
<1>. DEFINE n == Len(results)
<1>1. /\ results \in Seq(Results) /\ n \in Nat /\ DOMAIN results = 1 .. n /\ files' = files
  BY DEF RecoveryInv, Typed, NextFile
<1>2. /\ DOMAIN results' = 1 .. n + 1 /\ Len(results') = n + 1 /\ results'[n + 1] = r
      /\ \A i \in 1 .. n : results'[i] = results[i]
  BY <1>1
<1>3. Current = files[n + 1]
  BY DEF Current
<1>. HIDE DEF n
<1>4. Written' = IF r.wrote THEN Written \union {Current.name} ELSE Written
  BY <1>1, <1>2, <1>3 DEF Written
<1>5. CASE r.wrote
  <2>1. outputs' = [k \in DOMAIN outputs \union {Current.name} |->
                       IF k = Current.name THEN r.bytes ELSE outputs[k]]
    BY <1>5 DEF Write
  <2>2. DOMAIN outputs' = Written'
    BY <1>4, <1>5, <2>1 DEF AsReported
  <2>3. ASSUME NEW i \in DOMAIN results', results'[i].wrote, ~ Overwritten(i)'
        PROVE  outputs'[files[i].name] = results'[i].bytes
    <3>1. CASE i = n + 1
      BY <1>2, <1>3, <2>1, <3>1
    <3>2. CASE i # n + 1
      <4>1. i \in 1 .. n /\ results'[i] = results[i] /\ results[i].wrote
        BY <1>1, <1>2, <2>3, <3>2
      <4>2. \A j \in i + 1 .. n + 1 : ~ (results'[j].wrote /\ files[j].name = files[i].name)
        BY <1>1, <1>2, <2>3 DEF Overwritten
      <4>3. files[n + 1].name # files[i].name
        <5>1. n + 1 \in i + 1 .. n + 1
          BY <1>1, <4>1
        <5>. QED  BY <1>2, <1>5, <4>2, <5>1
      <4>4. ~ Overwritten(i)
        <5>1. \A j \in i + 1 .. n : j \in i + 1 .. n + 1 /\ j \in 1 .. n
          BY <1>1, <4>1
        <5>2. \A j \in i + 1 .. n : ~ (results[j].wrote /\ files[j].name = files[i].name)
          BY <1>2, <4>2, <5>1
        <5>. QED  BY <5>2 DEF Overwritten, n
      <4>5. outputs[files[i].name] = results[i].bytes
        BY <1>1, <4>1, <4>4 DEF AsReported
      <4>6. files[i].name \in DOMAIN outputs
        BY <1>1, <4>1 DEF AsReported, Written
      <4>. QED  BY <1>3, <2>1, <4>1, <4>3, <4>5, <4>6
    <3>. QED  BY <3>1, <3>2
  <2>. QED  BY <1>1, <2>2, <2>3 DEF AsReported
<1>6. CASE ~ r.wrote
  <2>1. outputs' = outputs
    BY <1>6
  <2>2. ASSUME NEW i \in DOMAIN results', results'[i].wrote, ~ Overwritten(i)'
        PROVE  outputs'[files[i].name] = results'[i].bytes
    <3>1. i \in 1 .. n /\ results'[i] = results[i] /\ results[i].wrote
      BY <1>1, <1>2, <1>6, <2>2
    <3>2. \A j \in i + 1 .. n + 1 : ~ (results'[j].wrote /\ files[j].name = files[i].name)
      BY <1>1, <1>2, <2>2 DEF Overwritten
    <3>3. \A j \in i + 1 .. n : j \in i + 1 .. n + 1 /\ j \in 1 .. n
      BY <1>1, <3>1
    <3>4. \A j \in i + 1 .. n : ~ (results[j].wrote /\ files[j].name = files[i].name)
      BY <1>2, <3>2, <3>3
    <3>5. ~ Overwritten(i)
      BY <3>4 DEF Overwritten, n
    <3>. QED  BY <1>1, <2>1, <3>1, <3>5 DEF AsReported
  <2>. QED  BY <1>1, <1>4, <1>6, <2>1, <2>2 DEF AsReported
<1>. QED  BY <1>5, <1>6

LEMMA NextReported ==
    ASSUME RecoveryInv, AsReported, [Next]_vars
    PROVE  AsReported'
<1>1. CASE UNCHANGED <<results, outputs, files>>
  BY <1>1 DEF AsReported, Overwritten, Written
<1>2. CASE results = <<>> /\ results' = <<>> /\ outputs' = outputs
  BY <1>2 DEF AsReported, Overwritten, Written
<1>3. CASE Scan \/ CarveAll \/ \E n \in Names : RecoverNamed(n) \/ RecoverFromSession(n)
  BY <1>2, <1>3 DEF Scan, CarveAll, RecoverNamed, RecoverFromSession, StartRecovery,
                   RecoveryInv, Placed
<1>4. CASE \E chosen \in SUBSET (DOMAIN session) : StartRecovery(chosen)
  BY <1>2, <1>4 DEF StartRecovery, RecoveryInv, Placed
<1>5. CASE \/ \E r \in Records, n \in Names, runs \in MadeRuns : MakeFile(r, n, runs)
           \/ \E r \in Records : DeleteFile(r) \/ LoseRecord(r)
  BY <1>1, <1>5 DEF MakeFile, DeleteFile, LoseRecord, Change
<1>6. CASE RecoverOne
  <2>. DEFINE r == [success |-> Content(Current) # <<>>, wrote |-> TRUE, bytes |-> Content(Current)]
  <2>1. NextFile /\ results' = Append(results, r) /\ Recoverable(Current) /\ Write(Content(Current))
    BY <1>6 DEF RecoverOne
  <2>2. Content(Current) \in Seq(Cells)
    BY <2>1, CurrentKnown, ContentTyped DEF RecoveryInv
  <2>3. r \in Results /\ r.bytes = Content(Current) /\ r.wrote
    BY <2>2 DEF Results
  <2>. HIDE DEF r
  <2>. QED  BY <2>1, <2>3, WriteReported
<1>7. CASE NoSuccess
  <2>. DEFINE r == [success |-> FALSE, wrote |-> FALSE, bytes |-> <<>>]
  <2>1. NextFile /\ results' = Append(results, r) /\ r \in Results /\ ~ r.wrote /\ outputs' = outputs
    BY <1>7 DEF NoSuccess, Results
  <2>. HIDE DEF r
  <2>. QED  BY <2>1, WriteReported
<1>8. CASE WriteStops
  <2>1. PICK n \in 0 .. Len(Content(Current)) - 1 :
           /\ Write(SubSeq(Content(Current), 1, n))
           /\ results' = Append(results, [success |-> FALSE, wrote |-> TRUE,
                                          bytes |-> SubSeq(Content(Current), 1, n)])
    BY <1>8 DEF WriteStops
  <2>. DEFINE r == [success |-> FALSE, wrote |-> TRUE, bytes |-> SubSeq(Content(Current), 1, n)]
  <2>2. Content(Current) \in Seq(Cells) /\ NextFile
    BY <1>8, CurrentKnown, ContentTyped DEF WriteStops, RecoveryInv
  <2>3. n \in Nat /\ n <= Len(Content(Current))
    BY <2>2
  <2>4. SubSeq(Content(Current), 1, n) \in Seq(Cells)
    BY <2>2, <2>3, PrefixOf
  <2>5. r \in Results /\ r.wrote /\ r.bytes = SubSeq(Content(Current), 1, n)
    BY <2>4 DEF Results
  <2>6. results' = Append(results, r)
    BY <2>1
  <2>. HIDE DEF r
  <2>. QED  BY <2>1, <2>2, <2>5, <2>6, WriteReported
<1>9. CASE OpenFails \/ RecoverPanics \/ Finish \/ Ended \/ UNCHANGED vars
  BY <1>1, <1>9 DEF OpenFails, RecoverPanics, Finish, Ended, vars
<1>. QED  BY <1>3, <1>4, <1>5, <1>6, <1>7, <1>8, <1>9 DEF Next, RecoverFails, WriteFails

\* The job ends with a result for each file.
LEMMA NextComplete ==
    ASSUME RecoveryInv, pc = "done" => Len(results) = Len(files), [Next]_vars, pc' = "done"
    PROVE  Len(results') = Len(files')
<1>1. CASE Scan \/ CarveAll \/ \E n \in Names : RecoverNamed(n) \/ RecoverFromSession(n)
  BY <1>1 DEF Scan, CarveAll, RecoverNamed, RecoverFromSession, StartRecovery
<1>2. CASE \/ \E r \in Records, n \in Names, runs \in MadeRuns : MakeFile(r, n, runs)
           \/ \E r \in Records : DeleteFile(r) \/ LoseRecord(r)
           \/ \E chosen \in SUBSET (DOMAIN session) : StartRecovery(chosen)
  BY <1>2 DEF MakeFile, DeleteFile, LoseRecord, Change, StartRecovery
<1>3. CASE RecoverOne \/ NoSuccess \/ WriteStops
  BY <1>3 DEF RecoverOne, NoSuccess, WriteStops, NextFile, GoOn
<1>4. CASE OpenFails \/ RecoverPanics \/ Finish \/ Ended \/ UNCHANGED vars
  BY <1>4 DEF OpenFails, RecoverPanics, Finish, Ended, vars
<1>. QED  BY <1>1, <1>2, <1>3, <1>4 DEF Next, RecoverFails, WriteFails

\* The output directory holds what the results report and nothing else, though
\* files share names, reads and writes fail and a write stops half way: what
\* recover_files (and recover and carve of the CLI) reports as recovered is
\* lost only to a later file of the same name, and every file has a result
\* when the job is done.
THEOREM OutputsAreAccounted == Spec => []OutputsAccounted
<1>1. Init => OutputsAccounted
  BY DEF Init, OutputsAccounted
<1>2. RecoveryInv /\ OutputsAccounted /\ [Next]_vars => OutputsAccounted'
  <2>. SUFFICES ASSUME RecoveryInv, OutputsAccounted, [Next]_vars PROVE OutputsAccounted'
    OBVIOUS
  <2>1. AsReported /\ (pc = "done" => Len(results) = Len(files))
    BY ReportedBefore
  <2>2. AsReported' /\ (pc' = "done" => Len(results') = Len(files'))
    BY <2>1, NextReported, NextComplete
  <2>. QED  BY <2>2 DEF OutputsAccounted, AsReported, Overwritten, Written
<1>. QED  BY <1>1, <1>2, RecoveryInvariant, PTL DEF Spec

-----------------------------------------------------------------------------
(* Confidence                                                              *)

\* NTFS's $Bitmap has a bit for every cluster.
WholeBitmap == BitmapEnd = NClusters

\* What confidence_for_runs looked up when it said 90.
LEMMA ConfidentIsFree ==
    ASSUME WholeBitmap, Typed, NEW r \in Deleted, MetadataFile(r).confidence = 90
    PROVE  Range(MetadataFile(r).clusters) \intersect allocated = {}
<1>. DEFINE runs == mft[r].runs
<1>1. MetadataFile(r).clusters = runs
      /\ MetadataFile(r).confidence = CASE fs = "NTFS" -> Confidence(runs)
                                        [] fs = "FAT32" /\ HasFirst(r) -> 60
                                        [] OTHER -> 10
  BY DEF MetadataFile
<1>2. runs \in Seq(Clusters) /\ DOMAIN runs = 1 .. Len(runs)
  BY DeletedTyped, RunListsTyped DEF FileRecords
<1>. HIDE DEF runs
<1>3. Confidence(runs) = 90
  BY <1>1 DEF Typed
<1>4. \A c \in Range(runs) : ~ IsAllocated(c)
  BY <1>3 DEF Confidence
<1>5. \A c \in Range(runs) : c < BitmapEnd
  BY <1>2, RecoveryAssumption DEF Range, Clusters, WholeBitmap
<1>. QED  BY <1>1, <1>4, <1>5 DEF IsAllocated

LEMMA ScanConfident ==
    ASSUME WholeBitmap, RecoveryInv, Scan
    PROVE  ConfidentIsNotLive'
<1>1. Typed /\ Remembered /\ allocated = ClustersOf(mft, Live(mft))
  BY DEF RecoveryInv, Placed, Scan
<1>2. PICK order \in Ascending(Deleted) :
         session' = [i \in DOMAIN order |-> MetadataFile(order[i])] \o CarvedFiles
  BY DEF Scan
<1>. DEFINE listed == [i \in DOMAIN order |-> MetadataFile(order[i])]
<1>3. /\ listed \in Seq(AnyFile)
      /\ \A i \in 1 .. Len(listed) : order[i] \in Deleted /\ listed[i] = MetadataFile(order[i])
  BY <1>1, ScannedKnown
<1>4. /\ CarvedFiles \in Seq(AnyFile)
      /\ \A i \in 1 .. Len(CarvedFiles) : CarvedFiles[i].how = "carved"
  BY <1>1, CarvedKnown DEF CarvedFileSet
<1>5. session' = listed \o CarvedFiles
  BY <1>2
<1>. HIDE DEF listed
<1>6. ASSUME NEW i \in DOMAIN session', session'[i].how = "metadata", session'[i].confidence = 90
      PROVE  Range(session'[i].clusters) \intersect allocated = {}
  <2>1. \/ i \in 1 .. Len(listed) /\ session'[i] = listed[i]
        \/ i - Len(listed) \in 1 .. Len(CarvedFiles) /\ session'[i] = CarvedFiles[i - Len(listed)]
    BY <1>3, <1>4, <1>5
  <2>2. i \in 1 .. Len(listed) /\ session'[i] = MetadataFile(order[i]) /\ order[i] \in Deleted
    BY <1>3, <1>4, <1>6, <2>1
  <2>. QED  BY <1>1, <1>6, <2>2, ConfidentIsFree
<1>7. ClustersOf(mft, Live(mft))' = allocated
  BY <1>1, VolumeRests DEF Scan
<1>. QED  BY <1>6, <1>7 DEF ConfidentIsNotLive, Files

LEMMA NextConfident ==
    ASSUME WholeBitmap, RecoveryInv, ConfidentIsNotLive, [Next]_vars
    PROVE  ConfidentIsNotLive'
<1>1. CASE Scan
  BY <1>1, ScanConfident
<1>2. CASE pc' # "saved"
  BY <1>2 DEF ConfidentIsNotLive
<1>3. CASE Change
  <2>1. changes' # 0
    BY <1>3 DEF Change, RecoveryInv, Typed
  <2>. QED  BY <2>1 DEF ConfidentIsNotLive
<1>4. CASE \/ \E r \in Records, n \in Names, runs \in MadeRuns : MakeFile(r, n, runs)
           \/ \E r \in Records : DeleteFile(r)
  BY <1>3, <1>4 DEF MakeFile, DeleteFile
<1>5. CASE CarveAll \/ \E n \in Names : RecoverNamed(n) \/ RecoverFromSession(n)
  BY <1>2, <1>5 DEF CarveAll, RecoverNamed, RecoverFromSession, StartRecovery
<1>6. CASE RecoverOne \/ RecoverFails \/ WriteFails \/ WriteStops
  BY <1>2, <1>6 DEF RecoverOne, RecoverFails, WriteFails, NoSuccess, WriteStops, NextFile, GoOn
<1>7. CASE \/ \E chosen \in SUBSET (DOMAIN session) : StartRecovery(chosen)
           \/ OpenFails \/ RecoverPanics \/ Finish
  BY <1>2, <1>7 DEF StartRecovery, OpenFails, RecoverPanics, Finish
<1>8. CASE Ended \/ UNCHANGED vars \/ \E r \in Records : LoseRecord(r)
  <2>1. UNCHANGED <<volume, touched, named, session, changes, pc>>
    BY <1>8 DEF Ended, vars, LoseRecord
  <2>2. ClustersOf(mft, Live(mft))' = ClustersOf(mft, Live(mft))
    BY <2>1, VolumeRests
  <2>. QED  BY <2>1, <2>2 DEF ConfidentIsNotLive, Files
<1>. QED  BY <1>1, <1>4, <1>5, <1>6, <1>7, <1>8 DEF Next

\* A file with confidence 90 has no cluster a live file owns when the session
\* is made: confidence_for_runs of ntfs_parser.rs, where $Bitmap covers the
\* volume, and the lower confidence of all that FAT32 finds.
THEOREM ConfidentFilesAreFree == ASSUME WholeBitmap PROVE Spec => []ConfidentIsNotLive
<1>1. Init => ConfidentIsNotLive
  BY DEF Init, ConfidentIsNotLive
<1>2. RecoveryInv /\ ConfidentIsNotLive /\ [Next]_vars => ConfidentIsNotLive'
  BY NextConfident
<1>. QED  BY <1>1, <1>2, RecoveryInvariant, PTL DEF Spec
=============================================================================
