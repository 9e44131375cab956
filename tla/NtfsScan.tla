------------------------------ MODULE NtfsScan ------------------------------
(***************************************************************************)
(* NtfsParser (ntfs/ntfs_parser.rs) over a RunListFile: new finds the      *)
(* $MFT's run list in its first record and $Bitmap in another one, and     *)
(* enumerate_deleted reads every record through that list.  The same       *)
(* RunListFile serves any range of a deleted file or of $Bitmap.           *)
(*                                                                         *)
(* RunList's byte is a sector here.  What a record holds is chosen when it *)
(* is read: nothing locks the volume.                                      *)
(***************************************************************************)
EXTENDS RunList, MftRecord

CONSTANTS BitmapIndex,        \* MFT_RECORD_INDEX_BITMAP
          MaxRecordsScanned   \* MAX_RECORDS_SCANNED

ASSUME ScanAssumption == BitmapIndex \in Nat /\ MaxRecordsScanned \in Nat

VARIABLES reader,  \* who reads: "nobody" yet, "boot", "bitmap", "scan" or "file"
          index,   \* the record, 0 for the first
          found,   \* results, each <<index, name>>
          wanted   \* history: what whole deleted records the scan has met

scanVars == <<reader, index, found, wanted>>
allVars == <<vars, scanVars>>

ScanInit == /\ encoded = <<>> /\ cut = FALSE
            /\ lcn = 0 /\ runs = <<>> /\ k = 1
            /\ offset = 0 /\ len = 0
            /\ runBase = 0 /\ logicalPos = 0 /\ remaining = 0 /\ out = <<>>
            /\ pc = "open"
            /\ reader = "nobody" /\ index = 0 /\ found = <<>> /\ wanted = {}

\* What comes of a record: how the parsing ended, what it found, and whether
\* the record is whole.  is_valid_file_record and the flags are apart.
Outcomes ==
    {[ended |-> Parsed(r).ended, name |-> Parsed(r).name, data |-> Parsed(r).data,
      whole |-> Whole(r), trueName |-> First(r, "name"), trueData |-> First(r, "data")] : r \in Records}

\* A record without the signature is not parsed further.
Blank == [ended |-> "ok", name |-> None, data |-> None,
          whole |-> FALSE, trueName |-> None, trueData |-> None]

\* A record that read_at padded up to its end is blank, one that it padded
\* from the middle on is no whole one.
ReadOutcomes ==
    IF out[1] = Zero THEN {Blank}
    ELSE {Blank} \union {o \in Outcomes : o.whole => \A j \in DOMAIN out : out[j] # Zero}

-----------------------------------------------------------------------------
(* A range of the content of a deleted file, or of $Bitmap                 *)

OpenFile ==
    /\ pc = "open"
    /\ encoded' \in Encodings /\ cut' \in BOOLEAN
    /\ reader' = "file"
    /\ pc' = "parse"
    /\ UNCHANGED <<lcn, runs, k, asked, reading, index, found, wanted>>

\* RunList's actions, for whoever reads; only a file is asked for any range.
ReadOn ==
    /\ \/ DecodeRun \/ SkipSparse \/ DecodeTruncated
       \/ PassRun \/ ReadRun \/ ReadFails \/ Pad
       \/ reader = "file" /\ StartRead
    /\ UNCHANGED scanVars

-----------------------------------------------------------------------------
(* NtfsParser::new                                                         *)

\* Record 0 is read where the boot sector says, not through a list; it must
\* parse, and hold a non-resident $DATA.
ReadRecordZero ==
    /\ pc = "open"
    /\ \E o \in {Blank} \union Outcomes :
          \/ /\ o.ended = "panic"
             /\ pc' = "panic"
             /\ UNCHANGED list
          \/ /\ o.ended = "error" \/ (o.ended # "panic" /\ o.data \in {None, "resident"})
             /\ pc' = "failed"
             /\ UNCHANGED list
          \/ /\ o.ended \notin {"panic", "error"} /\ o.data \notin {None, "resident"}
             /\ pc' = "parse"
             /\ encoded' \in Encodings /\ cut' = FALSE
    /\ reader' = "boot"
    /\ UNCHANGED <<lcn, runs, k, asked, reading, index, found, wanted>>

\* What the table's list leads to cannot be read, and new fails: detect_parser
\* finds no filesystem.
BootFails ==
    /\ pc = "error" /\ reader \in {"boot", "bitmap"}
    /\ pc' = "failed"
    /\ UNCHANGED <<list, lcn, runs, k, asked, reading, scanVars>>

\* read_at of one record.
StartRecord(i) ==
    /\ index' = i
    /\ offset' = i * RecordSectors /\ len' = RecordSectors
    /\ logicalPos' = offset' /\ remaining' = len'
    /\ runBase' = 0 /\ out' = <<>> /\ k' = 1
    /\ pc' = "read"

OpenTable ==
    /\ pc = "parse" /\ reader = "boot" /\ k > Len(encoded)
    /\ StartRecord(BitmapIndex)
    /\ reader' = "bitmap"
    /\ UNCHANGED <<list, lcn, runs, found, wanted>>

TotalSectors == FoldLeft(LAMBDA sum, run : sum + RunBytes(run), 0, runs)
TotalRecords == Min({TotalSectors \div RecordSectors, MaxRecordsScanned})

\* On to record i, if there is one.
GoTo(i) ==
    IF i < TotalRecords
    THEN StartRecord(i)
    ELSE /\ index' = i /\ pc' = "scanned"
         /\ UNCHANGED <<asked, reading, k>>

\* $Bitmap must have a $DATA, resident or not.
ReadBitmapRecord ==
    /\ pc = "done" /\ reader = "bitmap"
    /\ \E o \in ReadOutcomes :
          \/ /\ o.ended = "panic"
             /\ pc' = "panic"
             /\ UNCHANGED <<reader, index, asked, reading, k>>
          \/ /\ o.ended = "error" \/ (o.ended # "panic" /\ o.data = None)
             /\ pc' = "failed"
             /\ UNCHANGED <<reader, index, asked, reading, k>>
          \/ /\ o.ended \notin {"panic", "error"} /\ o.data # None
             /\ reader' = "scan"
             /\ GoTo(0)
    /\ UNCHANGED <<list, lcn, runs, found, wanted>>

-----------------------------------------------------------------------------
(* enumerate_deleted                                                       *)

\* Err(_) => continue
SkipUnreadable ==
    /\ pc = "error" /\ reader = "scan"
    /\ GoTo(index + 1)
    /\ UNCHANGED <<list, lcn, runs, reader, found, wanted>>

\* A record is listed that parses, is neither in use nor a directory, and has
\* a name and runs.
Listed(o, deleted) ==
    /\ deleted
    /\ o.ended # "error"
    /\ o.name # None
    /\ o.data \notin {None, "resident", "empty"}

ScanRecord ==
    /\ pc = "done" /\ reader = "scan"
    /\ \E o \in ReadOutcomes, deleted \in BOOLEAN :
          /\ wanted' = IF /\ o.whole /\ deleted
                          /\ o.trueName # None /\ o.trueData = "runs"
                       THEN wanted \union {<<index, o.trueName>>}
                       ELSE wanted
          /\ IF o.ended = "panic"
             THEN pc' = "panic" /\ UNCHANGED <<index, asked, reading, k, found>>
             ELSE /\ found' = IF Listed(o, deleted) THEN Append(found, <<index, o.name>>) ELSE found
                  /\ GoTo(index + 1)
    /\ UNCHANGED <<list, lcn, runs, reader>>

ScanOver ==
    /\ \/ pc \in {"panic", "failed", "scanned"}
       \/ pc \in {"done", "error"} /\ reader = "file"
    /\ UNCHANGED allVars

ScanNext == \/ OpenFile \/ ReadOn
            \/ ReadRecordZero \/ BootFails \/ OpenTable \/ ReadBitmapRecord
            \/ SkipUnreadable \/ ScanRecord
            \/ ScanOver

ScanSpec == ScanInit /\ [][ScanNext]_allVars

-----------------------------------------------------------------------------
\* A scan that comes to its end has listed, in the order of the table, each
\* once and under its first name, every deleted file whose record is whole,
\* whatever was wrong with the other records; a record that is whole never
\* brings it down.
GoodRecordsListed ==
    /\ \A w \in wanted : \E i \in DOMAIN found : found[i] = w
    /\ \A i, j \in DOMAIN found : i < j => found[i][1] < found[j][1]
    /\ pc = "failed" => reader # "scan"
    /\ pc = "panic" => \A w \in wanted : w[1] < index
=============================================================================
