---------------------------- MODULE ScanSession ----------------------------
(***************************************************************************)
(* ScanSession::run (restora-application/src/scan_session.rs) on a thread  *)
(* of its own, the event channel to the thread that started it             *)
(* (event_bus.rs), and that thread: it drains the channel until the scan   *)
(* drops the sender, and then joins the scan (cmd_session_scan in          *)
(* cli/src/main.rs, scan_deep in desktop/src-tauri/src/lib.rs).  Whoever   *)
(* holds the cancellation flag may set it at any moment.                   *)
(*                                                                         *)
(* Progress counts chunks of the carver, which calls back after each one:  *)
(* first the callback emits Progress, then it loads the flag.  A file is   *)
(* its id and where it came from; its bytes are Carver's business.         *)
(***************************************************************************)
EXTENDS Integers, Sequences, SequencesExt

CONSTANTS MaxEntries,  \* bound: deleted entries the metadata pass may list
          MaxChunks,   \* bound: chunks of the image
          MaxPerChunk  \* bound: files the carver may find in a chunk

ASSUME SessionAssumption ==
    /\ MaxEntries \in Nat
    /\ MaxChunks \in Nat
    /\ MaxPerChunk \in Nat

Phases == {"metadata", "carving"}
Files == [id : Nat, from : Phases, index : Nat]

Started(p) == [type |-> "PhaseStarted", phase |-> p]
Completed(p) == [type |-> "PhaseCompleted", phase |-> p]
Progress(n) == [type |-> "Progress", scanned |-> n]
FileFound(f) == [type |-> "FileFound", file |-> f]
FailedIn(p) == [type |-> "Failed", phase |-> p]
AllDone(n) == [type |-> "Completed", total_found |-> n]
Stopped == [type |-> "Cancelled"]

VARIABLES mode,      \* "Quick" or "Deep"
          cancel,    \* the AtomicBool
          pc,        \* where run is
          state,     \* session.state
          scanned,   \* session.progress.scanned_bytes, in chunks
          total,     \* session.progress.total_bytes, in chunks
          results,   \* session.results
          found,     \* files the current phase holds and has not reported
          index,     \* how many of its files it has reported
          queue,     \* events sent and not received
          consumer,  \* "listening", then "joined", or "gone"
          received,  \* history: the events the consumer took
          extra      \* history: chunks carved after the flag was set

session == <<state, scanned, total, results>>
job == <<found, index>>
other == <<consumer, received, mode, cancel>>
vars == <<mode, cancel, pc, session, job, queue, consumer, received, extra>>

\* A send to a receiver that is gone is ignored; nobody waits for room.
Emit(e) == queue' = IF consumer = "listening" THEN Append(queue, e) ELSE queue

\* The flag is clear and the session not started; with no EventSender at
\* all (restora-api's run_scan) every event is dropped.
Init == /\ mode \in {"Quick", "Deep"}
        /\ consumer \in {"listening", "gone"}
        /\ cancel = FALSE
        /\ pc = "open"
        /\ state = "Idle" /\ scanned = 0 /\ total = 0 /\ results = <<>>
        /\ found = 0 /\ index = 0
        /\ queue = <<>> /\ received = <<>> /\ extra = 0

-----------------------------------------------------------------------------
(* The scan thread.                                                        *)

OpenFails ==
    /\ pc = "open"
    /\ pc' = "error"
    /\ UNCHANGED <<session, job, queue, extra, other>>

Open ==
    /\ pc = "open"
    /\ state' = "Scanning"
    /\ total' \in 0 .. MaxChunks
    /\ Emit(Started("metadata"))
    /\ pc' = "detect"
    /\ UNCHANGED <<scanned, results, job, extra, other>>

\* No parser knows the filesystem, or enumerate_deleted lists its entries.
Enumerate ==
    /\ pc = "detect"
    /\ found' \in 0 .. MaxEntries
    /\ pc' = "metadata"
    /\ UNCHANGED <<session, index, queue, extra, other>>

\* enumerate_deleted fails: the session says so and goes on.
EnumerateFails ==
    /\ pc = "detect"
    /\ Emit(FailedIn("metadata"))
    /\ pc' = "metadata"
    /\ UNCHANGED <<session, job, extra, other>>

\* Slip: ids are numbered per phase.
ReportWithPhaseId(p) ==
    /\ pc = p /\ found > 0
    /\ LET file == [id |-> index, from |-> p, index |-> index]
       IN  /\ Emit(FileFound(file))
           /\ results' = Append(results, file)
    /\ found' = found - 1
    /\ index' = index + 1
    /\ UNCHANGED <<pc, state, scanned, total, extra, other>>

\* The next file of phase p is reported and kept under the next id.
Report(p) ==
    /\ pc = p /\ found > 0
    /\ LET file == [id |-> Len(results), from |-> p, index |-> index]
       IN  /\ Emit(FileFound(file))
           /\ results' = Append(results, file)
    /\ found' = found - 1
    /\ index' = index + 1
    /\ UNCHANGED <<pc, state, scanned, total, extra, other>>

EndMetadata ==
    /\ pc = "metadata" /\ found = 0
    /\ scanned' = total
    /\ Emit(Completed("metadata"))
    /\ pc' = "between"
    /\ index' = 0
    /\ UNCHANGED <<state, total, results, found, extra, other>>

\* Slip: the phase is not announced.
StartCarvingSilently ==
    /\ pc = "between" /\ mode = "Deep" /\ ~cancel
    /\ scanned' = 0
    /\ pc' = IF total = 0 THEN "carving" ELSE "carve"
    /\ UNCHANGED <<state, total, results, job, queue, extra, other>>

\* Slip: progress goes on from the metadata phase's.
StartCarvingWithOldProgress ==
    /\ pc = "between" /\ mode = "Deep" /\ ~cancel
    /\ Emit(Started("carving"))
    /\ pc' = IF total = 0 THEN "carving" ELSE "carve"
    /\ UNCHANGED <<state, scanned, total, results, job, extra, other>>

StartCarving ==
    /\ pc = "between" /\ mode = "Deep" /\ ~cancel
    /\ scanned' = 0
    /\ Emit(Started("carving"))
    /\ pc' = IF total = 0 THEN "carving" ELSE "carve"
    /\ UNCHANGED <<state, total, results, job, extra, other>>

SkipCarving ==
    /\ pc = "between" /\ (mode = "Quick" \/ cancel)
    /\ pc' = "finish"
    /\ UNCHANGED <<session, job, queue, extra, other>>

\* A chunk is scanned, and the callback told so.
CarveChunk ==
    /\ pc = "carve"
    /\ \E n \in 0 .. MaxPerChunk : found' = found + n
    /\ scanned' = scanned + 1
    /\ Emit(Progress(scanned + 1))
    /\ extra' = IF cancel THEN extra + 1 ELSE extra
    /\ pc' = "check"
    /\ UNCHANGED <<state, total, results, index, other>>

\* Slip: the callback always asks to go on.
CheckNothing ==
    /\ pc = "check"
    /\ pc' = IF scanned = total THEN "carving" ELSE "carve"
    /\ UNCHANGED <<session, job, queue, extra, other>>

\* The callback loads the flag; the carver stops on it, and at the end.
CheckCancel ==
    /\ pc = "check"
    /\ pc' = IF cancel \/ scanned = total THEN "carving" ELSE "carve"
    /\ UNCHANGED <<session, job, queue, extra, other>>

\* A read fails: what this phase found is lost, the metadata results stay.
CarveFails ==
    /\ pc = "carve"
    /\ state' = "Failed"
    /\ found' = 0
    /\ Emit(FailedIn("carving"))
    /\ pc' = "return"
    /\ UNCHANGED <<scanned, total, results, index, extra, other>>

\* Also after a stop: the phase counts as completed.
EndCarving ==
    /\ pc = "carving" /\ found = 0
    /\ Emit(Completed("carving"))
    /\ pc' = "finish"
    /\ UNCHANGED <<session, job, extra, other>>

FinishCancelled ==
    /\ pc = "finish" /\ cancel
    /\ state' = "Cancelled"
    /\ Emit(Stopped)
    /\ pc' = "return"
    /\ UNCHANGED <<scanned, total, results, job, extra, other>>

\* Slip: a cancelled scan may end as a complete one.
FinishAnyway ==
    /\ pc = "finish"
    /\ state' = "Complete"
    /\ Emit(AllDone(Len(results)))
    /\ pc' = "return"
    /\ UNCHANGED <<scanned, total, results, job, extra, other>>

FinishComplete ==
    /\ pc = "finish" /\ ~cancel
    /\ state' = "Complete"
    /\ Emit(AllDone(Len(results)))
    /\ pc' = "return"
    /\ UNCHANGED <<scanned, total, results, job, extra, other>>

\* Slip: the sender outlives the scan.
ReturnKeepingSender ==
    /\ pc = "return"
    /\ UNCHANGED <<pc, session, job, queue, extra, other>>

\* run returns and its thread ends: the sender is dropped.
Return ==
    /\ pc = "return"
    /\ pc' = "done"
    /\ UNCHANGED <<session, job, queue, extra, other>>

Scan == \/ OpenFails \/ Open \/ Enumerate \/ EnumerateFails
        \/ Report("metadata") \/ EndMetadata
        \/ StartCarving \/ SkipCarving
        \/ CarveChunk \/ CheckCancel \/ CarveFails
        \/ Report("carving") \/ EndCarving
        \/ FinishCancelled \/ FinishComplete \/ Return

\* What the scan does when nothing fails.
Proceed == \/ Open \/ Enumerate \/ Report("metadata") \/ EndMetadata
           \/ StartCarving \/ SkipCarving
           \/ CarveChunk \/ CheckCancel \/ Report("carving") \/ EndCarving
           \/ FinishCancelled \/ FinishComplete \/ Return

-----------------------------------------------------------------------------
(* The thread that started the scan, and the holder of the flag.           *)

SenderDropped == pc \in {"done", "error"}

\* One turn of `for event in rx`.
Receive ==
    /\ consumer = "listening" /\ queue # <<>>
    /\ received' = Append(received, Head(queue))
    /\ queue' = Tail(queue)
    /\ UNCHANGED <<mode, cancel, pc, session, job, consumer, extra>>

\* Slip: the scan is joined as soon as it is over.
JoinUndrained ==
    /\ consumer = "listening" /\ SenderDropped
    /\ consumer' = "joined"
    /\ UNCHANGED <<mode, cancel, pc, session, job, queue, received, extra>>

\* The loop ends when the channel is empty and has no sender.
Join ==
    /\ consumer = "listening" /\ queue = <<>> /\ SenderDropped
    /\ consumer' = "joined"
    /\ UNCHANGED <<mode, cancel, pc, session, job, queue, received, extra>>

\* The receiver is dropped with events in it: nobody is listening any more.
HangUp ==
    /\ consumer = "listening"
    /\ consumer' = "gone"
    /\ queue' = <<>>
    /\ UNCHANGED <<mode, cancel, pc, session, job, received, extra>>

Cancel ==
    /\ ~cancel
    /\ cancel' = TRUE
    /\ UNCHANGED <<mode, pc, session, job, queue, consumer, received, extra>>

Ended == /\ SenderDropped /\ consumer # "listening"
         /\ UNCHANGED vars

Next == Scan \/ Receive \/ Join \/ HangUp \/ Cancel \/ Ended

\* Both threads run; nothing makes anyone cancel, hang up or fail.
Spec == Init /\ [][Next]_vars /\ WF_vars(Proceed) /\ WF_vars(Receive \/ Join)

-----------------------------------------------------------------------------
\* The events sent so far, for a consumer that has not hung up.
Story == received \o queue

\* The files of the FileFound events, in the order of the events.
FilesIn(events) ==
    LET places == {i \in DOMAIN events : events[i].type = "FileFound"}
        nth(n) == CHOOSE i \in places : Cardinality({j \in places : j <= i}) = n
    IN  [n \in 1 .. Cardinality(places) |-> events[nth(n)].file]

TypeOK ==
    /\ mode \in {"Quick", "Deep"} /\ cancel \in BOOLEAN
    /\ state \in {"Idle", "Scanning", "Cancelled", "Complete", "Failed"}
    /\ total \in 0 .. MaxChunks /\ scanned \in 0 .. total
    /\ results \in Seq(Files)
    /\ found \in Nat /\ index \in Nat /\ extra \in Nat
    /\ consumer \in {"listening", "joined", "gone"}
    /\ consumer # "listening" => queue = <<>>
    /\ SenderDropped => found = 0

\* What a joined consumer saw is the session it gets: the files streamed are
\* session.results, in order and once each, and the last event is the outcome
\* with its count.  Nothing is still in the channel when it is joined.
StreamMatchesSession ==
    consumer = "joined" /\ pc = "done" =>
        /\ FilesIn(received) = results
        /\ received # <<>>
        /\ Last(received) =
             CASE state = "Complete" -> AllDone(Len(results))
               [] state = "Cancelled" -> Stopped
               [] state = "Failed" -> FailedIn("carving")

\* A session's ids are unique within it, as RecoverableFile promises, over
\* both phases; and a phase's files carry its own numbering (the number in a
\* carved file's name starts from zero after any number of entries).
IdsAndNumbersUnique ==
    \A i, j \in DOMAIN results : i # j =>
        /\ results[i].id # results[j].id
        /\ results[i].from = results[j].from => results[i].index # results[j].index

\* The stream is well bracketed: a phase is completed at most once and only
\* after it started, each file and each report of progress comes within its
\* phase, and nothing follows the event that ends the scan.
WellBracketed ==
    consumer # "gone" =>
        \A i \in DOMAIN Story :
            LET e == Story[i]
                before == {Story[k] : k \in 1 .. i - 1}
                within(p) == Started(p) \in before /\ Completed(p) \notin before
            IN  /\ e.type = "FileFound" => within(e.file.from)
                /\ e.type = "PhaseCompleted" => within(e.phase)
                /\ e.type = "Progress" => within("carving")
                /\ e.type \in {"Completed", "Cancelled"} => i = Len(Story)

\* A Deep session is Complete only if it carved the image to its end and said
\* so: one that stopped short is Cancelled or Failed.  (A filesystem that could
\* not be enumerated does not keep a session from being Complete.)
CompleteIsWhole ==
    state = "Complete" /\ mode = "Deep" /\ consumer # "gone" =>
        /\ scanned = total
        /\ Completed("carving") \in {Story[i] : i \in DOMAIN Story}

\* The carving phase stops promptly: once the flag is set, at most the chunk
\* that was under way is carved.
PromptCancel == extra <= 1

\* The consumer is never left waiting: it joins the scan, or hung up.
ConsumerReleased == <>(consumer # "listening")
=============================================================================
