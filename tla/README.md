# Restora in TLA+

Restora recovers deleted files from disk images and overwrites the free space
of a volume. This directory holds TLA+ modules of its core, the TLC
configurations that check them on small instances, and theorems that TLAPS
checks for every value of the constants. Line numbers are those of `src/`;
`PROJECT.json` maps every definition to the lines it models.

To check one configuration: `tlc -config WipeCrash.cfg MCWipeJob`. To check
the proofs: `tlapm CarverProofs.tla`, and likewise `WipeProofs`, `RecoveryProofs`,
`NtfsProofs`, `FatWalkProofs`, `ScanSessionProofs`, `DesktopProofs` and
`Induction`. Most take half a minute, `WipeProofs` and `NtfsProofs` a few.

## 1. Inventory

| Component | State | Operations | Hard behaviours | What makes it correct |
|---|---|---|---|---|
| **Signature carver** `restora-domain/src/carving` | position, starts seen, files | `scan_with_progress` in overlapping chunks; `resolve_extent` | headers cut by chunk boundaries, de-duplication in the overlap, the end of the source, stop or read error between chunks | finds exactly the files whose header lies in what was scanned, each once |
| **Free space** `free_space_ranges` of both parsers | loop cluster, open run, ranges | one pass over the allocation table | first and last run, unreadable entries, a `$Bitmap` that is too short | exactly the free clusters, ranges apart |
| **Wipe job** `restora-application/src/wipe_job.rs`, `wipe_pattern.rs`, `writable_image_file.rs` | bytes of the image, loops over ranges, passes, chunks | refuse an SSD, open, find ranges, write chunks, verify | crash, torn or failed write, second run, a second wipe or another program on the image, a truncated image | no live cluster is touched; Ok means everything free is overwritten |
| **Scan session** `scan_session.rs`, `event_bus.rs` | session state, progress, results, cancel flag, channel | metadata phase, carving phase, finish; send, drain, join | two threads, cancellation at any moment, failures of one phase, a receiver that hangs up | the stream tells the session; a short scan is not Complete; the consumer is released |
| **Session store** `session_store.rs` | rows by id | save (upsert), load, list | two processes on one database, equal ids | what was saved stays |
| **Desktop window** `desktop/frontend/index.html`, `src-tauri/src/lib.rs`, `restora-api` | inputs, table, selection, last session, list | scan, tick, recover, save, list, load; wipe; inspect | answers in any order, inputs edited while commands run, restart | what a command is asked for belongs together |
| **Recovery job** `recovery_job.rs`, `recoverable.rs` | parser's memory of names, output directory | warm up, recover one by one, write | reloaded sessions, records reused or gone bad, stale sizes, equal names, writes that stop half way | undisturbed files come back exactly; the outputs are what the results say |
| **NTFS parser** `restora-domain/src/ntfs` | MFT geometry, memory of names | find the MFT through its own first record, enumerate, restore fixups, walk attributes, decode runs, read, confidence, recover | a fragmented MFT, torn and malformed records, holes, overlapping runs, corrupt lists | each byte comes from its run; a broken record costs that record |
| **FAT32 parser** `restora-domain/src/fat32` | FAT, visited directories | walk the tree, follow chains, recover | cycles, crossed directories, chains off the image | the walk ends and finds each deleted entry once |
| **Detection, byte sources, raw disks, privileges** | cursor under a mutex; handles | detect, read, write | bounds, failures | failures are errors, not other bytes |
| **Command line** `cli/src/main.rs` | none | the above, one after another; a scan on its own thread | thread and channel | as above |

The parts meet as follows. The command line and the window start a
`ScanSession`, which detects a parser, lists its deleted entries, carves the
image and streams events through a channel to the thread that started it. The
finished session is saved and loaded through `SessionStore`. `recover_files`
takes files of a session, opens the image afresh, and asks a newly detected
parser or the carver's ranges for their bytes. `wipe_free_space` asks the parser
for free ranges, writes the image, and uses the carver to verify. `recover` and
`carve` of the command line recover one file directly after finding it, without
a session. Nothing locks an image against other programs, and the window does
not stop a second command from starting while one runs.

The hazards, each at its line with the properties that would catch it, are
listed in `PROJECT.json`.

## 2. Modules

| Module | Models | State and actions |
|---|---|---|
| `Signatures` | the signature table, header matches, `resolve_extent` | pure operators over a source of bytes |
| `CarveSpec` | what carving promises: the report is that of a growing prefix | `Cover`, `CoverNothing`, `Fail` |
| `Carver` | `scan_with_progress` | `pos`, `seen`, `results`, `scanned` are the locals; an action is one turn of the loop, with the callback's answer or a failed read |
| `FreeSpace` | the loop both parsers share | `ExamineCluster` has the arms of the `match`; `CloseLastRun` is the code after the loop. `FirstCluster`, `DataStart` and `TableEnd` make it FAT32's or NTFS's |
| `WipeJob` | `wipe_free_space`, extends `FreeSpace` | the three nested loops are `rangeIndex`, `pass`, `offset`; a write may fail or be torn, the process may die, the user may run it again, another program may allocate. A byte's content is the number of the pass last written there, 0 for data |
| `SharedImage` | two wipes of one image, and a third program; extends `WipeJob` and instantiates it once more (`Other`) | a step is one of the first job, of the second or of the other program; `crossed` remembers whether the second wrote since the first opened the image |
| `ScanSession` | `ScanSession::run`, the channel, the draining and joining thread | `pc` is where `run` is; one action per emitted event or read of the flag |
| `Desktop` | the window, its commands, `SessionStore`, a scan of the command line beside it | `calls` are the commands in flight, answered in any order or failed; `rows` are the databases |
| `RecoveryJob` | enumeration, session, `recover_files`, `recover_bytes` of both parsers, NTFS's confidence, carved files, and `recover`, `carve` and `session-recover` of the command line | `fs` is the parser detected; `mft` (or the directory entries), `allocated`, `writes` are the volume, which may change after the scan, also between two files of a job; `lost` are records that went bad; a record's `size` is its own, whatever its runs hold; `memory` is `record_index_by_name`; `touched` and `named` are history |
| `RunList` | `parse_data_runs` and `RunListFile::read_at` | a byte of the source is its own offset, so a byte read says where it came from |
| `MftRecord` | `apply_fixups` and `parse_attributes` | pure operators: what parsing a record gives (`Parsed`), an error and a panic among it, and when the record is `Whole` |
| `NtfsScan` | `NtfsParser::new` and `enumerate_deleted`, extends `RunList` and `MftRecord` | record 0 gives the MFT's run list, `$Bitmap`'s record is read through it, then every record in turn; what a record holds is chosen when it is read; `reader` says for whom `RunList` reads |
| `FatWalk` | `enumerate_deleted`, `walk_directory`, `follow_chain`, `read_directory_bytes` for FAT32 | `stack` is the recursion |
| `MC...` | an instance of the module for TLC | |
| `CarverProofs`, `WipeProofs` (with free space and two wipes), `RecoveryProofs`, `NtfsProofs`, `FatWalkProofs`, `ScanSessionProofs`, `DesktopProofs` | theorems (section 4) | |
| `Induction` | lemmas on natural numbers and recursive functions that several proofs rest on | |

`WipeJob` composes with `FreeSpace`, whose loop is one of its steps;
`SharedImage` composes two `WipeJob`s on one image; `NtfsScan` runs `RunList`'s
reads for `MftRecord`'s records. `Carver` implements `CarveSpec` (`Abstract`, a refinement checked by TLC and proved).
Where a module uses the operation of another that is checked on its own, it
keeps only its outcomes: `ScanSession` takes any number of files from each
chunk of the carver, `WipeJob` any result of the verifying scan that the wiped
bytes allow, `RecoveryJob` whole clusters where `RunList` has bytes.

Operators whose comment begins with *Slip* are plausible mistakes in the
definition that follows them. No specification uses them: they are the mutants
of `PROJECT.json`, put in the place of that definition to see that the property
named there notices.

## 3. What the runs check

`CarverChunks`, `WipeCrash`, `ScanEvents`, `DesktopWindow` and `FatWalkVolumes`
also check the type invariant (`TypeOK`) of their module.

| Run | Instance | Shows |
|---|---|---|
| `CarverChunks` | every source of 7 bytes over 3 values, every range; a 3-byte header that overlaps itself and shares a byte with its footer, and a 2-byte one; chunks of 0, 2, 3 and 4 bytes with an overlap of 3 | `PrefixCarved`: at every moment the files are among those whose header lies in the bytes scanned, and all of them if chunks are longer than the overlap, whichever way boundaries cut; `UniqueStarts`; `ExtentsSound`; `ScanEnds`; `ImplementsCarveSpec` |
| `WipeCrash` | every allocation and every set of unreadable entries of 4 FAT clusters, image whole or a byte short, 3 passes, chunks of 3 bytes over clusters of 2, two runs | `LiveUntouched`, `DoneMeansWiped`, `BytesCounted`, `PassesInOrder`, `RangesExact`, `RangesApart`, `JobEnds`, under failures, torn writes and crashes |
| `WipeBusyImage` | two wipes of 3 clusters, two passes, one run each, one cluster allocated by a third program at any time | `SparesLive`: no step of a wipe overwrites what was live when it opened the image, which is what is left of the promise; `WipedTogether`: Ok of one means nothing is left of what was free, whatever the other does, and Ok of both that everything free carries the last pass; `VerifiedCleanAlone`: a wipe nobody wrote beside verifies as clean |
| `WipeShortBitmap` | NTFS geometry, last of 4 clusters without a bit | finding: `LiveUntouched` fails |
| `ScanEvents` | up to 2 entries, 3 chunks, one file in each | `StreamMatchesSession`, `WellBracketed`, `IdsAndNumbersUnique`, `CompleteIsWhole`, `PromptCancel`, `ConsumerReleased` |
| `DesktopWindow` | 2 images, 2 databases, 2 scans, 2 commands in flight, a restart | `RecoversOnlyTicked`, `ListedCanBeLoaded`, `SavedSessionsKept`, `ShownCanBeKept` |
| `DesktopOtherImage` | one database | finding: `RecoversFromOwnImage` fails |
| `RunListReads` | `MCNtfsScan`: up to 3 runs, sparse ones, backwards and overlapping ones, cut lists; every read of up to 5 sectors at 0 to 5; the `$MFT` in any of these lists, with up to 3 records, each whole, torn or malformed | `ReadsUpToHole`; `GoodRecordsListed`: every whole deleted record the scan gets past is listed, once, in order, whatever was wrong with the others; a malformed one may end the scan in a panic (section 5), a whole one never does |
| `RunListSparse` | the same lists as a file's | finding: `ReadsFileContent` fails |
| `FatWalkVolumes` | every FAT and every directory content of 3 clusters | `FindsEachDeletedOnce`, `PathsLeadThere`, `DirectoryIsWhole`, `DepthBounded`, `WalkEnds` |
| `RecoverReloaded` | 2 records on 3 clusters, of one name or two, files in up to two pieces, NTFS or FAT32, recovered from a session or in one shot; one stale size, damaged entry, record gone bad or change to the volume, before the job or during it; an unreadable cluster or `$Bitmap`, a carved range, writes that fail or stop half way | `UndisturbedIsExact`: a file nothing disturbed is right or no success, if its record can be read or it lies in one piece and its name is its own; `OutputsAccounted`: the directory holds what the results say, and a file written is lost only to a later one of its name; `ConfidentIsNotLive` |
| `RecoverSameName` | the same, smaller | finding: `RecordRemembered` fails |

### Bounds

- *Carver.* With an overlap of 3, chunks of 4 advance by one byte, so a range
  of 7 takes several chunks and every header and footer is cut by some
  boundary. Chunks of 2 and 3 are not longer than the overlap: the loop then
  steps by whole chunks, and a range of 7 ends in a shorter one. An empty chunk
  reads nothing and ends the scan at once. `ScanEnds` holds for all of them; sources hold up to three headers, overlapping ones among them. The
  theorems remove the bounds.
- *Wipe.* Four clusters hold two separate ranges, a run at either end, and none;
  the chunk divides neither a cluster nor a range. Two runs are one crashed or
  failed run and its repetition; a third would start from an image that a second
  can also leave. The theorems remove these bounds for all but liveness.
- *Two wipes.* Three clusters in chunks of 3 bytes leave one range or two, with
  chunks that cross clusters, so each job can be ahead of, behind or inside the
  other's range and pass. One run each: `WipeCrash` has the repetition.
- *Scan.* Two entries and three chunks let ids cross the phases and every
  flag load come before, between and after chunks.
- *Window.* Two scans, two calls and two databases suffice for every pair of
  racing commands; files are numbered from 0 in each session, so one file each
  is enough for a selection to be mistaken. Images and databases are
  symmetric: no definition singles one out, and the run has no temporal
  property. The same holds for the names of `RecoverReloaded`.
- *Run lists and the MFT.* Three runs with a hole in any place and a read over any
  of them; a read inside one run, over two, over all, and past the end. The unit
  is a sector: a cluster is two, a record four (2048 bytes, as large as two
  clusters), so that records lie across runs and clusters. `BitmapIndex` is 1
  where the program has 6, which only moves one record; three records are
  scanned, so that a broken one has others before and after it. Of attributes
  there is each kind the walk tells apart: with a name, with a better one, cut
  off, resident or not, and with a length of zero, up to a sector's end, up to
  the record's and past it; up to three of them, in any order, make a record.
- *FAT.* Three clusters contain a directory of two clusters beside a
  subdirectory, a chain or tree of depth three, and every loop through them.
  `MaxChainClusters` has the code's value, which the loop check makes
  unreachable on volumes this small. One slot to a cluster, since a directory of
  several slots is a chain of several clusters.
- *Recovery.* `BadClusters` and `CarvedFirst` pick one cluster (and `$Bitmap`) to
  fail and one where the carver finds a file; the clusters are alike but for
  their order. Two records are enough for one to take the other's name, record
  or clusters, and three clusters for files in two pieces in either order.
  `Sizes` has every size less than, equal to and more than what the runs hold,
  and one beyond the volume. `LossyRecords` picks the record that is enumerated
  last. `MaxChosen` is two files of a session at once, which may have one name,
  and `MadeRuns` the empty file or one cluster. `MaxOdd` allows one oddity (see
  `Odd`) at a time besides an unreadable data cluster and a carved range: each
  alone already leads to every source recovery can take. The theorems remove
  these bounds and combine any number.

### Deadlock

The wipe and desktop configurations switch the deadlock check off: a job that
has ended and may not be run again, and a window whose bounds are used up,
rest there. Every other module ends in an explicit stuttering step, so a
state it should not rest in is reported.

### Fairness

Fairness is given only to what a thread does by itself when nothing goes wrong:
`NothingToRead \/ ScanChunk` in `Carver`, `Proceed` in `WipeJob` and
`ScanSession`, `Receive \/ Join` for the draining thread, and `Next` in `FatWalk`,
whose steps are all one thread's. These threads wait for nobody (the channel
is unbounded, the flag is an atomic), so weak fairness is what the operating
system's scheduler gives them. Failures, crashes, cancellation, hanging up,
other programs and the user have none: nothing makes them happen. `Desktop`,
`RecoveryJob`, `RunList`, `NtfsScan` and `SharedImage` state no liveness and no
fairness.

## 4. What is proved

Every invariant and every action property that a passing run checks is also a
theorem: TLC shows it on the run's instance, TLAPS for every value of the
constants that meets the named assumptions of the modules and those the theorem
states.

**`CarverProofs`** (assumes the table's shape: `SignatureAssumption`,
`OverlapAssumption`, `PrefixFreeAssumption`; of the chunk size nothing).
`TypeCorrect`, `NoHeaderMissed` (`PrefixCarved`), `WholeRangeCarved`
(`CompleteScan`), `StartsAreUnique` (`UniqueStarts`), `ExtentsAreSound`
(`ExtentsSound`) and `ScanImplementsCarveSpec` (`ImplementsCarveSpec`).
`PrefixCarved` is not inductive: it does not say where the next chunk starts.
`IInv` adds `Caught` (results *and* starts seen come from the same headers in the
prefix scanned, `From`, and from all of them if chunks are longer than the overlap,
so that skipping a seen start skips nothing new) and `Behind` (a running scan that has
read something resumes exactly `Overlap` bytes before the end of what it covered, or
at that end if its chunks do not overlap; a complete one has covered all, unless
chunks are empty). The step then rests on `ChunkExtendsPrefix`: a header that ends in
the new prefix lies in the old prefix or in the new chunk, because none is longer
than the overlap. Prefix-free headers give one match per offset (`OneMatchPerOffset`).
That a file never ends inside its own header needs that no footer occurs in one
(`FooterAssumption`, true of the four signatures). Chunks no longer than the overlap,
which `with_chunk_size` accepts and the program never uses (the default is
1,000,000), can miss a header that a boundary cuts; of them the theorems claim that
what is found is there, and that a scan that completes has reached the end of its
range. That it ends at all is `ScanEnds`, which stays with TLC.

**`WipeProofs`**, in four parts.

- *Free ranges*: `RangesAreExact` and `RangesAreApart`, for any geometry and any set
  of unreadable or missing entries. `LoopInv` adds to the two properties that the
  open run is free from its start to the loop's cluster (`RunFollowed`) and that
  there is an allocated cluster between it and the last range (`GapBefore`), which
  is why closing it keeps ranges apart.
- *Live clusters*: `LiveIsUntouched` for a job alone, and `EachWipeSparesLive`
  (`SparesLive`) with another wipe and a third program at work, if every cluster has
  an entry in the table (`TableCovers`, `TotalClusters <= TableEnd`).
  `WipeShortBitmap` shows that this cannot be left out. `IInv` says that ranges are
  within the volume (`RangesProper`) and that they and the open run avoid what was
  live at the opening (`RangesAvoid`, `RunAvoids`), that files made by others only
  add to that set (`LiveGrows`), and that the three loops are at a place inside a
  range (`Position`); a write then lies in a range, and a range avoids live clusters.
  For two jobs this is rely and guarantee: all that the first one's `IInv` needs of
  the second is that it writes passes of the pattern (`OtherPassOk`) and leaves the
  first one's variables and the volume's tables alone (`OtherStepEffect`). The
  theorem is about the first of the two jobs; they are instances of one module and
  differ in name only.
- *What Ok means*, with no assumption on the table: `OkMeansWiped`
  (`DoneMeansWiped`), `PassesAreInOrder` (`PassesInOrder`), `OkVerifiesClean`, and for
  two wipes of one image `TwoWipesTogether` (`WipedTogether`) and `CleanWhenAlone`
  (`VerifiedCleanAlone`). A job is taken as a record, so that the lemmas speak of
  either: `JobOk` says which free clusters its ranges hold, that no two of them meet
  (neighbours being apart is not enough), and where its loops are. Of a job alone
  `LaidBy` says what it has done: ranges before `rangeIndex` hold the last pass, and
  in that one what is before `offset` holds this pass and the rest the one before.
  With another job at work that is lost, and what is left is what both have reached:
  `Reached(j, q, b)` says that job `j` has laid pass `q` or a later one on byte `b`,
  and `Overlaid`, that of a free byte some pass is there once one job has been there,
  and the last one once both have laid their last. It is inductive because a job's
  pass over a byte only ever follows its own pass before it.
- *What is reported*: `BytesAreCounted` (`BytesCounted`) and `TypeCorrect`. `CountInv`
  says that the bytes reported are as many as the finished ranges hold, which a
  cardinality argument turns into the free clusters times their size.

**`RecoveryProofs`**: `UndisturbedComesBack` (`UndisturbedIsExact`) and
`OutputsAreAccounted` (`OutputsAccounted`), with no assumption on names, sizes or
what happens to the volume, and `ConfidentFilesAreFree` (`ConfidentIsNotLive`) where
`$Bitmap` has a bit for every cluster (a cluster without one reads as free, as for a
wipe). `RecoveryInv` has four parts besides types. `Known` ties a file of the session
to the record it came from for as long as that is untouched. `Remembered` says that
the names records have are among those they had, and that the memory names records in
use. `Leads`, of the files a job is to recover: the memory leads from an undisturbed
file's name to some record unless its own went bad, and from a name that is the
file's alone to its record. That it is kept while the volume changes under the job is
why `named` is history: a record that takes the name later is no longer told apart
by what is on the volume, but `Alone` is false from then on. `Placed` has the rest.
`SourceExact` and `ContentExact` then give the bytes of a file that is `Findable`,
through its record or the contiguous guess, and `ExactStays` keeps past results
right, since `Disturbed` and losses only grow. For the outputs the invariant is the
property itself, with `AsReported` for what holds at every moment and not only at
the end.

**`NtfsProofs`**: `ContentIsRead` (`ReadsUpToHole`), `WholeRecordsAreListed`
(`GoodRecordsListed`) and `WholeIsParsed`. `RecordAssumption` says of attributes what
the bytes of a record can say: lengths and places are naturals, and what a parsed
name or run list can be.

- *Reading.* `FileInv` follows a list from decoding to the answer. `Decoded(m)` says
  that up to the first hole the decoded runs are the encoded ones, at the places the
  deltas sum up to; `Reached`, of a read at run `k`, that the bytes read are right,
  that `runBase` is where run `k` lies in the file if no hole came before, and no
  less than where any run before a hole ends if one did; `Answered`, that what was
  padded lies in no run before a hole. That the bytes are then those of `FileByte` uses that each byte of
  the file lies in exactly one run (`OneRunHolds`, `SomeRunHolds`), since run starts
  are running sums of lengths (`ClustersSum`, `AtGrows`).
- *Parsing.* `SoFar` says what the loop of `parse_attributes` has found after `i`
  attributes of a whole record: the first name and the first data of those passed.
  It never stops early or panics, because the ends of the attributes grow and the
  last leaves room for the end marker (`WholeHasRoom`).
- *Scanning.* `ListInv` says that what is listed and what should be are the same as
  far as the records before `index` go; the step uses `WholeIsParsed` only, so a
  broken record may end in any way.

**`FatWalkProofs`**: `TypeCorrect`, `PathsAreReal` (`PathsLeadThere`), `DepthIsBounded`
(`DepthBounded`), `EachDeletedIsFound` (`FindsEachDeletedOnce`), and
`DirectoriesAreWhole` (`DirectoryIsWhole`) if no chain is longer than
`MAX_CHAIN_CLUSTERS` (`ChainsFit`); a longer one is read short, as the cap means it
to. Reading a directory follows a chain: `ReadBy(c, s)` says that the directory at `c`
is what the clusters `s` hold, one following the other, none twice, until the loop
of `follow_chain` stops, and `VolumeRead` that each directory is read so. `WalkInv`
says that the calls in progress are in directories entered one from the other, all
visited and none twice, and that none is past an end marker; the depth is then that
of an injection into the clusters. `FoundInv` adds what has been found: what a visited
directory holds is found, or entered, up to the slot its call is at (`Scanned`,
`Behind`). A walk that ends has no call left, so the visited directories are closed
under their subdirectories and contain the tree, which is the least such set.

**`ScanSessionProofs`**: `ScanTypes`, `IdsAreUnique`, `CancelIsPrompt`,
`StreamIsWellBracketed`, `CompleteScansAreWhole` and `StreamIsTheSession`, for any
number of entries, chunks and files. `ScanInv` ties ids and numbers to the counts of
the phase that gives them (`Numbered`) and the flag to the chunks carved since
(`Prompt`). `StoryInv` says at each place of `run` which events can have been sent
(`Bracketed`), so that the next one fits, and that a scan past its last chunk
carved them all (`Whole`). `SessionInv` says that the `n`th file of the session is that
of the `n`th `FileFound` there was (`Streamed`), received or still in the channel, and
that nothing follows the event that ends the scan (`Closed`).

**`DesktopProofs`**: `WindowTypes`, `OnlyTickedAreRecovered`, `ListedAreThere`; and
`SavedAreKept` and `ShownIsKept`, if `~SameMillisecond`. `WindowInv` ties the ticks
and the list to what they were drawn from, through every answer. For the last two
`IdsApart` says that ids tell apart all sessions there are, on the screen, kept for
Save, on their way to a database or in one, and all scans under way: then an
upsert replaces a session by itself only.

**`Induction`**: the prover cannot use an induction rule that speaks of any predicate,
so its lemmas speak of any *set*: one that has 0 and each successor has every natural
(`EveryNatural`, `EveryUpTo`), and a non-empty one has a least element, from the
well-foundedness of `<` on naturals. `FunctionByRecursion` gives the
function that a recursive definition means: the set of the lengths for which there
is one is all of `Nat`. A recursive function of the model, which is a `CHOOSE` of what
satisfies its equation, then satisfies it because something does.

### Only model-checked

Liveness (`ScanEnds`, `JobEnds`, `ConsumerReleased`, `WalkEnds`): it rests on
fairness, and so on `ENABLED`, which the prover does not reason about. And the
properties that fail (section 5), of which there is nothing to prove.

## 5. Findings

1. `WipeShortBitmap`. A cluster past the end of `$Bitmap` reads as free
   (`ntfs_parser.rs:53`), so a volume whose `$Bitmap` is shorter than its boot
   sector's sectors loses live clusters to a wipe that "never touches
   allocated/live clusters" (`wipe_job.rs:66`). An entry that cannot be read is
   taken for allocated; one that is not there is not.
2. `DesktopOtherImage`. The window sends the path input as it is when Recover is
   clicked (`index.html:407`), which after a load, an edit or a late answer is
   not the image of the files shown. The command line uses the session's
   own path.
3. `RunListSparse`. Holes are dropped from the decoded list (`data_runs.rs:65`),
   so what follows a hole is recovered in its place.
4. `RecoverSameName`. The parser remembers records by name alone
   (`ntfs_parser.rs:213`): of two deleted files with one name both are recovered
   from the last record. `RecordRemembered` says that a file whose record can be
   read comes from it.

Less than findings, but worth knowing, since passing runs assume or exclude them:

- A cluster that another program allocates after the free ranges were found is
  overwritten, and the files another program makes while a wipe runs may be lost;
  the promise that holds is `SparesLive`: what was live at the opening stays.
- A malformed attribute in one MFT record (shorter than its header, or with content
  past its end) is sliced out of bounds (`mft_record.rs:164`), and the release
  profile aborts on that, although the scan means to "skip, don't abort the whole
  scan" (`ntfs_parser.rs:197`). `GoodRecordsListed` has the panic as an outcome and
  says that no whole record causes it.
- Of an entry whose first cluster is 0 `cluster_offset` (`boot_sector.rs:121`)
  computes 0 - 2: a panic where overflow is checked (`RecoverPanics`), an offset off
  the image elsewhere.
- FAT32 recovery is contiguous from the first cluster, so `UndisturbedIsExact`
  speaks of contiguous files there; a fragmented one comes back as a guess.
- A record that cannot be read again, is no FILE record or has no run list makes
  `recover_bytes` fall through to the contiguous guess (`ntfs_parser.rs:249-251`),
  although the comment below it says that this is reached "only" if the name lookup
  failed. A fragmented file that nothing disturbed then comes back wrong, as a
  success; `UndisturbedIsExact` leaves it out (`Findable`: `HasRecord` or
  `InOnePiece`).
- A file's size is that of its `$FILE_NAME` (`ntfs_parser.rs:218`), whatever its run
  list holds. A stale one cuts the file or pads it with zeros, and that is a success;
  `UndisturbedIsExact` speaks of the content at that size (`Original`). An absurd one
  ends the process (`RecoverPanics`).
- Two files of one name in a recovery are written to one path, and both count as
  recovered; if the later write stops half way, neither is there. `OutputsAccounted`
  says which bytes are.
- A slot in a cluster that two directories' chains share is listed once for each:
  `FindsEachDeletedOnce` counts an entry by directory and slot.
- A session's id is the millisecond it started in, so two processes may save two
  sessions under one id (`SavedSessionsKept` with `SameMillisecond = TRUE`).
- A metadata phase that fails does not keep a session from being Complete, and
  one unreadable subdirectory ends a FAT32 enumeration without entries.
- `TableEnd` models NTFS's short `$Bitmap`. A FAT too short for its volume is
  not modelled: the parser then takes the bytes after it for entries.

## 6. Not modelled, and why

- *Bytes of the formats*: the fields of boot sectors (with sectors per cluster or a
  record size of 0 the program divides by zero), FAT names, UTF-16, the JSON of
  sessions. The operations above start from what parsing gives.
- *SQLite*: `save`, `load` and `list` are single statements, taken as atomic.
- *Random bytes*: the generator is abstracted to "any byte".
- *Byte sources*: bounds and failures are guards and choices of those who read
  and write; the cursor's mutex is held for one call and no source is shared
  between threads.
- *Raw disks, privileges*: operating system calls without state of their own.
- *Printing, logging, the inspector and the HTML*, the event log and the grid of a
  deep scan among it: two deep scans in one window mix their events there, and
  nothing is decided from them. The window also calls a deep scan that failed
  complete (`index.html:389`), which is a matter of wording.
- *A recovery beside a wipe*: it reads what the wipe has left by then, as it would
  beside any other program. `RecoveryJob` has the volume change at any time after the
  scan, but the reading of one file is a single step: a change to that file's clusters
  disturbs it and is excluded, one to others does not matter to it.
- *Overflow in run lists*: `RunList` counts in naturals; a corrupt length for which
  64 bits do not suffice is not modelled.
- *Fixture generator and CI*: not part of the program.

## 7. Plan

Done, in the order of importance it was planned in: carver and its abstract
specification; free space and wipe; scan session; window and store; recovery on
both file systems and from the command line; run lists; FAT walk; the NTFS record
and the scan of the MFT; two wipes of one image; the theorems of section 4.

Left:

1. Abstract specifications: a store that keeps the last saved session of each id,
   implemented by `Desktop`'s rows; a wipe that overwrites free clusters at once,
   implemented by `WipeJob`.
2. Theorems: those refinements; `EachWipeSparesLive` of the second job by the
   job-as-a-record argument, as the other theorems on two wipes have it.
3. Models: the parsing of boot sectors with its divisions; recovery with a file
   read in several steps; `SharedImage` with second runs.
