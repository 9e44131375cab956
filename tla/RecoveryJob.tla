----------------------------- MODULE RecoveryJob -----------------------------
(***************************************************************************)
(* Recovering the files of a session from the image they were found on, in *)
(* a process that need not be the one that scanned it: a parser            *)
(* (ntfs/ntfs_parser.rs or fat32/fat32_parser.rs) enumerates the deleted   *)
(* files of the MFT or of the directories, the session keeps what          *)
(* RecoverableFile carries (recoverable.rs), and recover_files             *)
(* (restora-application/src/recovery_job.rs) opens the image afresh,       *)
(* enumerates once more for the parser's memory of names, and recovers the *)
(* chosen files one by one.  After the scan, and while the job runs, the   *)
(* volume may be used, files made and deleted on it, and an MFT record may *)
(* become unreadable.                                                      *)
(*                                                                         *)
(* A file is a sequence of clusters; a cluster's bytes are its number and  *)
(* how often it was written since the scan.  RunList has the reading of a  *)
(* run list byte by byte, FatWalk the walk of the directories.  A record   *)
(* is an MFT record or a directory entry; clusters are numbered from the   *)
(* first of the volume, which FAT32 calls 2.  A size, in clusters, is what *)
(* $FILE_NAME or the entry says, whatever data there is.  An NTFS file     *)
(* without clusters has its data in its record, which is resident.         *)
(***************************************************************************)
EXTENDS Integers, Sequences, SequencesExt, FiniteSetsExt

CONSTANTS NRecords,     \* MFT records, or directory entries
          NClusters,    \* clusters of the volume
          BitmapEnd,    \* clusters $Bitmap has a bit for; the others read free
          Names,        \* file names
          MaxRuns,      \* bound: clusters of a file
          Sizes,        \* bound: sizes a record may give
          BadClusters,  \* bound: clusters whose reads may fail, one at a time
          LossyRecords, \* bound: MFT records that may become unreadable
          CarvedFirst,  \* bound: where the carver may find a file of one cluster
          MaxChosen,    \* bound: files of a session recovered at once
          MadeRuns,     \* bound: run lists of the files made after the scan
          MaxOdd        \* bound: odd things about the volume, see Odd

ASSUME RecoveryAssumption ==
    /\ NRecords \in Nat /\ NClusters \in Nat
    /\ BitmapEnd \in 0 .. NClusters
    /\ BadClusters \subseteq 0 .. NClusters   \* the last is $Bitmap's
    /\ CarvedFirst \subseteq 0 .. NClusters - 1
    /\ LossyRecords \subseteq 0 .. NRecords - 1
    /\ 0 .. MaxRuns \subseteq Sizes /\ Sizes \subseteq Nat
    /\ MaxRuns \in Nat /\ MaxChosen \in Nat /\ MaxOdd \in Nat

Records == 0 .. NRecords - 1
Clusters == 0 .. NClusters - 1
BitmapCluster == NClusters   \* where $Bitmap lies, which no file uses
Zero == <<-3, 0>>            \* zeros that no cluster held

\* The clusters of a file with data on disk, in order; an empty file has none.
RunLists == UNION {{s \in [1 .. n -> Clusters] : IsInjective(s)} : n \in 1 .. MaxRuns}
ASSUME MadeAssumption == MadeRuns \subseteq RunLists \union {<<>>}

EmptyRecord == [use |-> "empty"]
FileRecords ==
    [use : {"live", "deleted"}, name : Names, runs : RunLists \union {<<>>}, size : Sizes]

VARIABLES fs,         \* what detect_parser finds: "NTFS" or "FAT32"
          headless,   \* FAT32: deleted records whose first cluster is 0
          mft,        \* the records
          allocated,  \* clusters $Bitmap marks used
          writes,     \* cluster -> how often written since the scan
          unreadable, \* clusters whose reads fail
          lost,       \* NTFS: records that cannot be read, or are no FILE records
          carvedAt,   \* ranges of clusters the carver resolves
          session,    \* the session's files
          memory,     \* record_index_by_name of the parser in use
          files,      \* the files chosen for recovery
          results,    \* their RecoveryResults so far, with what was written
          outputs,    \* the destination directory: name -> bytes
          oneShot,    \* is it recover or carve of the CLI, which scan for themselves?
          touched,    \* history: records changed since the scan
          named,      \* history: record -> the names it had since the scan
          changes,    \* changes so far
          pc          \* "scan", "saved", "recover", then "done" or "error"

volume == <<fs, headless, mft, allocated, writes>>
vars == <<volume, unreadable, lost, carvedAt, session, memory, files, results, outputs,
          oneShot, touched, named, changes, pc>>

Used(m) == {r \in Records : m[r].use # "empty"}
Live(m) == {r \in Records : m[r].use = "live"}
ClustersOf(m, rs) == UNION {Range(m[r].runs) : r \in rs}

\* The records whose size is not that of their data.
Stale(m) == {r \in Used(m) : m[r].size # Len(m[r].runs)}

\* Stale sizes, damaged entries, a $Bitmap that cannot be read, records that
\* went bad, changes since the scan.
Odd == Cardinality(Stale(mft)) + Cardinality(headless)
           + Cardinality(unreadable \intersect {BitmapCluster}) + Cardinality(lost) + changes

\* A consistent volume: live files have clusters of their own, all marked
\* used.  Deleted files may overlap anything.  The size of a live file is
\* never read.
Init == /\ fs \in {"NTFS", "FAT32"}
        /\ mft \in [Records -> FileRecords \union {EmptyRecord}]
        /\ Stale(mft) \intersect Live(mft) = {}
        /\ \A r, s \in Live(mft) : r # s => Range(mft[r].runs) \intersect Range(mft[s].runs) = {}
        /\ allocated = ClustersOf(mft, Live(mft))
        /\ headless \in {{}} \union
               {{r} : r \in {d \in Records : /\ fs = "FAT32" /\ mft[d].use = "deleted"
                                            /\ mft[d].runs # <<>>}}
        /\ writes = [c \in Clusters |-> 0]
        /\ unreadable \in {{}} \union {{c} : c \in BadClusters}
        /\ lost = {}
        /\ carvedAt \in {<<>>} \union {<<<<c, c + 1>>>> : c \in CarvedFirst}
        /\ session = <<>> /\ memory = <<>> /\ files = <<>>
        /\ results = <<>> /\ outputs = <<>>
        /\ oneShot = FALSE
        /\ touched = {} /\ changes = 0 /\ Odd <= MaxOdd
        /\ named = [r \in Records |-> IF r \in Used(mft) THEN {mft[r].name} ELSE {}]
        /\ pc = "scan"

-----------------------------------------------------------------------------
(* enumerate_deleted                                                       *)

\* NTFS passes over a record that cannot be read and one without runs.
Deleted == {r \in Records : /\ mft[r].use = "deleted"
                            /\ fs = "NTFS" => r \notin lost /\ mft[r].runs # <<>>}

\* Slip: the bit after the cluster's.
IsNextAllocated(c) == c < BitmapEnd /\ c + 1 \in allocated

IsAllocated(c) == c < BitmapEnd /\ c \in allocated

\* confidence_for_runs: 40 when $Bitmap itself cannot be read.
Confidence(runs) ==
    IF BitmapCluster \in unreadable THEN 40
    ELSE IF \E c \in Range(runs) : IsAllocated(c) THEN 25
    ELSE 90

\* NTFS's loop inserts a name again for each record that has it: the last
\* wins.  FAT32 remembers no names.
NameMap ==
    IF fs = "NTFS"
    THEN [n \in {mft[r].name : r \in Deleted} |-> Max({r \in Deleted : mft[r].name = n})]
    ELSE <<>>

\* from_deleted_entry; record and clusters are history, not in the session.
\* A FAT32 entry's first cluster is 0, two before the first of the volume, if
\* it is empty or damaged, and its confidence is no more than that.
HasFirst(r) == mft[r].runs # <<>> /\ r \notin headless
MetadataFile(r) ==
    [how |-> "metadata", name |-> mft[r].name,
     first |-> IF HasFirst(r) THEN mft[r].runs[1] ELSE -2,
     size |-> mft[r].size,
     confidence |-> CASE fs = "NTFS" -> Confidence(mft[r].runs)
                      [] fs = "FAT32" /\ HasFirst(r) -> 60
                      [] OTHER -> 10,
     record |-> r, clusters |-> mft[r].runs]

\* from_carved_file: numbered, so that no two have one name.
CarvedFile(i) ==
    LET range == carvedAt[i]
    IN  [how |-> "carved", name |-> <<"carved", i>>, first |-> range[1],
         size |-> range[2] - range[1],
         clusters |-> [j \in 1 .. range[2] - range[1] |-> range[1] + j - 1]]

\* The one sequence of S, numbers, in their order.
Ascending(S) ==
    {s \in [1 .. Cardinality(S) -> S] : \A i, j \in 1 .. Cardinality(S) : i < j => s[i] < s[j]}

CarvedFiles == [i \in DOMAIN carvedAt |-> CarvedFile(i)]

Scan ==
    /\ pc = "scan"
    /\ \E order \in Ascending(Deleted) :
          session' = [i \in DOMAIN order |-> MetadataFile(order[i])] \o CarvedFiles
    /\ pc' = "saved"
    /\ UNCHANGED <<volume, unreadable, lost, carvedAt, memory, files, results, outputs,
                   oneShot, touched, named, changes>>

\* recover of the CLI: the first file of a name is recovered at once, by the
\* parser that found it.  The case of letters is left out.
RecoverNamed(n) ==
    /\ pc = "scan"
    /\ \E r \in Deleted : mft[r].name = n
    /\ files' = <<MetadataFile(Min({r \in Deleted : mft[r].name = n}))>>
    /\ memory' = NameMap
    /\ oneShot' = TRUE
    /\ pc' = "recover"
    /\ UNCHANGED <<volume, unreadable, lost, carvedAt, session, results, outputs,
                   touched, named, changes>>

\* carve of the CLI: all that the carver finds is read and written at once.
CarveAll ==
    /\ pc = "scan" /\ carvedAt # <<>>
    /\ files' = CarvedFiles
    /\ oneShot' = TRUE
    /\ pc' = "recover"
    /\ UNCHANGED <<volume, unreadable, lost, carvedAt, session, memory, results, outputs,
                   touched, named, changes>>

-----------------------------------------------------------------------------
(* Meanwhile: whatever uses the volume, and whatever wears it out.         *)

Change == /\ pc \in {"saved", "recover"} /\ Odd < MaxOdd
          /\ changes' = changes + 1
          /\ UNCHANGED <<unreadable, lost, carvedAt, session, memory, files, results, outputs,
                         oneShot, pc>>

\* A file is made: it takes a record that is not live and free clusters.
MakeFile(r, n, runs) ==
    /\ Change
    /\ mft[r].use # "live" /\ Range(runs) \intersect allocated = {}
    /\ mft' = [mft EXCEPT ![r] = [use |-> "live", name |-> n, runs |-> runs, size |-> Len(runs)]]
    /\ allocated' = allocated \union Range(runs)
    /\ writes' = [c \in Clusters |-> IF c \in Range(runs) THEN writes[c] + 1 ELSE writes[c]]
    /\ touched' = touched \union {r}
    /\ named' = [named EXCEPT ![r] = named[r] \union {n}]
    /\ UNCHANGED <<fs, headless>>

DeleteFile(r) ==
    /\ Change
    /\ mft[r].use = "live"
    /\ mft' = [mft EXCEPT ![r].use = "deleted"]
    /\ allocated' = allocated \ Range(mft[r].runs)
    /\ touched' = touched \union {r}
    /\ UNCHANGED <<fs, headless, writes, named>>

\* A record goes bad, for good, before the scan or later.
LoseRecord(r) ==
    /\ fs = "NTFS" /\ pc \in {"scan", "saved", "recover"}
    /\ r \in LossyRecords \ lost /\ Odd < MaxOdd
    /\ lost' = lost \union {r}
    /\ UNCHANGED <<volume, unreadable, carvedAt, session, memory, files, results, outputs,
                   oneShot, touched, named, changes, pc>>

-----------------------------------------------------------------------------
(* recover_files                                                           *)

\* Slip: the fresh parser is not made to enumerate first.
StartUnwarmed(chosen) ==
    /\ pc = "saved" /\ chosen # {} /\ Cardinality(chosen) <= MaxChosen
    /\ \E order \in Ascending(chosen) : files' = [i \in DOMAIN order |-> session[order[i]]]
    /\ memory' = <<>>
    /\ pc' = "recover"
    /\ UNCHANGED <<volume, unreadable, lost, carvedAt, session, results, outputs,
                   oneShot, touched, named, changes>>

\* The image is opened, a fresh parser detected and its memory warmed, as far
\* as records can still be read: the enumeration's errors are ignored.  Any
\* files of the session may be asked for.
StartRecovery(chosen) ==
    /\ pc = "saved" /\ chosen # {} /\ Cardinality(chosen) <= MaxChosen
    /\ \E order \in Ascending(chosen) : files' = [i \in DOMAIN order |-> session[order[i]]]
    /\ memory' = NameMap
    /\ pc' = "recover"
    /\ UNCHANGED <<volume, unreadable, lost, carvedAt, session, results, outputs,
                   oneShot, touched, named, changes>>

\* session-recover of the CLI asks for the first file of a name.
RecoverFromSession(n) ==
    \E i \in DOMAIN session :
        /\ session[i].name = n /\ \A j \in 1 .. i - 1 : session[j].name # n
        /\ StartRecovery({i})

\* The image or the destination cannot be opened, or the enumeration brings
\* the process down (MftRecord).
OpenFails ==
    /\ pc = "saved"
    /\ pc' = "error"
    /\ UNCHANGED <<volume, unreadable, lost, carvedAt, session, memory, files, results, outputs,
                   oneShot, touched, named, changes>>

\* The file whose turn it is.
Current == files[Len(results) + 1]

Contiguous(file) == [i \in 1 .. file.size |-> file.first + i - 1]

\* Does NTFS's recover_bytes find a record by the file's name, a FILE record
\* with a run list, whatever file it now is?
FollowsRecord(file) ==
    /\ file.how = "metadata" /\ file.name \in DOMAIN memory
    /\ memory[file.name] \notin lost
    /\ mft[memory[file.name]].runs # <<>>

\* The clusters recovery reads: the record's or else, as always with FAT32, a
\* contiguous guess.
Source(file) ==
    IF FollowsRecord(file)
    THEN LET runs == mft[memory[file.name]].runs
         IN  SubSeq(runs, 1, Min({file.size, Len(runs)}))
    ELSE Contiguous(file)

Recoverable(file) == Range(Source(file)) \subseteq (-2 .. NClusters - 1) \ unreadable

\* What lies before the first cluster is the FAT, which is never a file's.
Cell(c) == IF c < 0 THEN <<c, 0>> ELSE <<c, writes[c]>>

\* read_at pads what the record's runs do not hold.
Content(file) ==
    [i \in 1 .. file.size |-> IF i <= Len(Source(file)) THEN Cell(Source(file)[i]) ELSE Zero]

\* The bytes are written under the file's name, over what is there.
Write(bytes) ==
    outputs' = [n \in DOMAIN outputs \union {Current.name} |->
                   IF n = Current.name THEN bytes ELSE outputs[n]]

NextFile == /\ pc = "recover" /\ Len(results) < Len(files)
            /\ UNCHANGED <<volume, unreadable, lost, carvedAt, session, memory, files,
                           oneShot, touched, named, changes>>

\* An empty file is written too, though its result is no success.
RecoverOne ==
    /\ NextFile /\ UNCHANGED pc
    /\ Recoverable(Current)
    /\ Write(Content(Current))
    /\ results' = Append(results, [success |-> Content(Current) # <<>>, wrote |-> TRUE,
                                   bytes |-> Content(Current)])

\* After a file without success the next is recovered; recover and carve of
\* the CLI end.
GoOn == pc' = IF oneShot THEN "error" ELSE pc

\* Slip: the path of a file without success is removed.
NoSuccessTidied ==
    /\ NextFile /\ GoOn
    /\ outputs' = [n \in DOMAIN outputs \ {Current.name} |-> outputs[n]]
    /\ results' = Append(results, [success |-> FALSE, wrote |-> FALSE, bytes |-> <<>>])

NoSuccess ==
    /\ NextFile /\ GoOn
    /\ UNCHANGED outputs
    /\ results' = Append(results, [success |-> FALSE, wrote |-> FALSE, bytes |-> <<>>])

\* A read fails.
RecoverFails == NoSuccess /\ ~Recoverable(Current)

\* There is no parser for a metadata file, or its path cannot be opened.
WriteFails == NoSuccess

\* fs::write empties what is there and fails before the last byte.
WriteStops ==
    /\ NextFile /\ GoOn
    /\ Recoverable(Current)
    /\ \E n \in 0 .. Len(Content(Current)) - 1 :
          LET bytes == SubSeq(Content(Current), 1, n)
          IN  /\ Write(bytes)
              /\ results' = Append(results, [success |-> FALSE, wrote |-> TRUE, bytes |-> bytes])

\* The process comes down: a size beyond the memory there is; a record gone
\* bad in a way that its parsing panics (MftRecord); or the first cluster of an
\* entry without one, from which cluster_offset subtracts 2, where overflow is
\* checked.
RecoverPanics ==
    /\ pc = "recover" /\ Len(results) < Len(files)
    /\ Current.how = "metadata"
    /\ \/ Current.size > NClusters
       \/ Current.name \in DOMAIN memory /\ memory[Current.name] \in lost
       \/ Current.first < 0 /\ Current.size > 0
    /\ pc' = "error"
    /\ UNCHANGED <<volume, unreadable, lost, carvedAt, session, memory, files, results, outputs,
                   oneShot, touched, named, changes>>

Finish ==
    /\ pc = "recover" /\ Len(results) = Len(files)
    /\ pc' = "done"
    /\ UNCHANGED <<volume, unreadable, lost, carvedAt, session, memory, files, results, outputs,
                   oneShot, touched, named, changes>>

Ended == pc \in {"done", "error"} /\ UNCHANGED vars

Next == \/ Scan \/ CarveAll
        \/ \E n \in Names : RecoverNamed(n) \/ RecoverFromSession(n)
        \/ \E r \in Records, n \in Names, runs \in MadeRuns : MakeFile(r, n, runs)
        \/ \E r \in Records : DeleteFile(r) \/ LoseRecord(r)
        \/ \E chosen \in SUBSET (DOMAIN session) : StartRecovery(chosen)
        \/ OpenFails \/ RecoverOne \/ RecoverFails \/ WriteFails \/ WriteStops
        \/ RecoverPanics \/ Finish \/ Ended

Spec == Init /\ [][Next]_vars

-----------------------------------------------------------------------------
Files == {session[i] : i \in DOMAIN session}

\* Was the file's record changed, or one of its clusters written?
Disturbed(file) == \/ \E c \in Range(file.clusters) : writes[c] > 0
                   \/ file.how = "metadata" /\ file.record \in touched

\* Has no other record had the file's name?
Alone(file) == \A r \in Records \ {file.record} : file.name \notin named[r]

\* Can the record still be read that says where the file lies?
HasRecord(file) == fs = "NTFS" /\ file.how = "metadata" /\ file.record \notin lost

\* Does it lie in one piece, from its first cluster on, as a guess would have it?
InOnePiece(file) == /\ file.size <= Len(file.clusters)
                    /\ SubSeq(file.clusters, 1, file.size) = Contiguous(file)

\* Its content at the scan, of the size its name gives.
Original(file) ==
    [j \in 1 .. file.size |-> IF j <= Len(file.clusters) THEN <<file.clusters[j], 0>> ELSE Zero]

\* What UndisturbedIsExact asks of a file: its record can still be read or it
\* lies in one piece, and on NTFS no other record has had its name.
Findable(file) == /\ HasRecord(file) \/ InOnePiece(file)
                  /\ fs = "NTFS" /\ file.how = "metadata" => Alone(file)

\* A file nothing has disturbed since the scan, its record as it was and its
\* clusters not written, is recovered byte for byte or not at all, whatever
\* became of the rest of the volume before or during the job, if it is still
\* Findable: a reloaded session gets "the same quality of recovery as the
\* original scan did" (recovery_job.rs).
UndisturbedIsExact ==
    \A i \in DOMAIN results :
        results[i].success /\ ~Disturbed(files[i]) /\ Findable(files[i]) =>
            results[i].bytes = Original(files[i])

\* The parser remembers "which record this entry came from" (ntfs_parser.rs),
\* so that a file whose record can be read is recovered from it, whatever
\* names the other records have.
RecordRemembered ==
    \A i \in DOMAIN results :
        results[i].success /\ ~Disturbed(files[i]) /\ HasRecord(files[i]) =>
            results[i].bytes = Original(files[i])

\* The output directory is what the results say: no name is there but of a
\* file that was written, and each holds the bytes of the last file of that
\* name that was, so that a file reported as recovered is lost only to a later
\* one of its own name; and when the job is done every file has its result.
OutputsAccounted ==
    /\ pc = "done" => Len(results) = Len(files)
    /\ DOMAIN outputs = {files[i].name : i \in {k \in DOMAIN results : results[k].wrote}}
    /\ \A i \in DOMAIN results :
          \/ ~results[i].wrote
          \/ \E j \in i + 1 .. Len(results) : results[j].wrote /\ files[j].name = files[i].name
          \/ outputs[files[i].name] = results[i].bytes

\* High confidence is a promise about the volume at the scan: no cluster of a
\* file with confidence 90 belongs to a live file then.
ConfidentIsNotLive ==
    pc = "saved" /\ changes = 0 =>
        \A f \in Files : f.how = "metadata" /\ f.confidence = 90 =>
            Range(f.clusters) \intersect ClustersOf(mft, Live(mft)) = {}
=============================================================================
