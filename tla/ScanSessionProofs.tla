-------------------------- MODULE ScanSessionProofs --------------------------
(***************************************************************************)
(* Proofs about a scan and its events, for any number of entries, chunks   *)
(* and files, and for every moment to cancel, to fail and to hang up.      *)
(***************************************************************************)
EXTENDS ScanSession, Induction

Events == {Started(p) : p \in Phases} \union {Completed(p) : p \in Phases}
          \union {Progress(n) : n \in Nat} \union {FileFound(f) : f \in Files}
          \union {FailedIn(p) : p \in Phases} \union {AllDone(n) : n \in Nat} \union {Stopped}

BeforeCarving == {"open", "detect", "metadata", "between"}
InCarving == {"carve", "check", "carving"}

\* Where the scan is, and what that says of its variables.
Places ==
    /\ TypeOK
    /\ pc \in BeforeCarving \union InCarving \union {"finish", "return", "done", "error"}
    /\ queue \in Seq(Events) /\ received \in Seq(Events)
    /\ consumer = "joined" => SenderDropped
    /\ pc \in {"open", "detect", "error"} => found = 0
    /\ pc \in {"between", "finish", "return"} => found = 0
    /\ pc = "open" => scanned = 0
    /\ pc = "carve" => scanned < total

\* Files are numbered in order: by session, and by phase.
Numbered ==
    /\ \A i \in DOMAIN results : results[i].id = i - 1
    /\ pc \in BeforeCarving => \A i \in DOMAIN results : results[i].from = "metadata"
    /\ pc \in {"open", "detect", "metadata"} =>
          \A i \in DOMAIN results : results[i].index < index
    /\ pc \in InCarving =>
          \A i \in DOMAIN results : results[i].from = "carving" => results[i].index < index
    /\ \A i, j \in DOMAIN results :
          i < j /\ results[i].from = results[j].from => results[i].index < results[j].index

\* The chunk carved after the flag was set is the last one.
Prompt ==
    /\ extra \in {0, 1}
    /\ extra = 1 => cancel /\ pc \notin BeforeCarving \union {"carve"}

ScanInv == Places /\ Numbered /\ Prompt

-----------------------------------------------------------------------------
LEMMA ScanInitInv == Init => ScanInv
<1>. SUFFICES ASSUME Init  PROVE ScanInv
  OBVIOUS
<1>. USE SessionAssumption DEF Init
<1>1. /\ results \in Seq(Files) /\ queue \in Seq(Events) /\ received \in Seq(Events)
      /\ DOMAIN results = {}
  OBVIOUS
<1>2. 0 \in 0 .. MaxChunks /\ 0 \in 0 .. 0
  OBVIOUS
<1>3. TypeOK
  BY <1>1, <1>2 DEF TypeOK, SenderDropped
<1>. QED  BY <1>1, <1>3 DEF ScanInv, Places, Numbered, Prompt, BeforeCarving, InCarving

\* What Emit does to the channel.
LEMMA EmitTyped ==
    ASSUME Places, NEW e \in Events, Emit(e)
    PROVE  queue' \in Seq(Events) /\ (consumer # "listening" => queue' = <<>>)
BY DEF Places, TypeOK, Emit

LEMMA EventsTyped ==
    /\ \A p \in Phases : Started(p) \in Events /\ Completed(p) \in Events /\ FailedIn(p) \in Events
    /\ \A n \in Nat : Progress(n) \in Events /\ AllDone(n) \in Events
    /\ \A f \in Files : FileFound(f) \in Events
    /\ Stopped \in Events
BY DEF Events

\* A file is reported: it gets the next number of either kind.
LEMMA ReportInv ==
    ASSUME ScanInv, NEW p \in Phases, p = "metadata" \/ p = "carving", Report(p)
    PROVE  ScanInv'
<1>. DEFINE file == [id |-> Len(results), from |-> p, index |-> index]
<1>1. /\ pc = p /\ found > 0 /\ Emit(FileFound(file)) /\ results' = Append(results, file)
      /\ found' = found - 1 /\ index' = index + 1
      /\ UNCHANGED <<pc, state, scanned, total, extra, consumer, received, mode, cancel>>
  BY DEF Report, other
<1>2. results \in Seq(Files) /\ Len(results) \in Nat /\ index \in Nat /\ found \in Nat
  BY DEF ScanInv, Places, TypeOK
<1>3. file \in Files
  BY <1>2 DEF Files
<1>4. queue' \in Seq(Events) /\ (consumer # "listening" => queue' = <<>>)
  <2>1. FileFound(file) \in Events
    BY <1>3, EventsTyped
  <2>. QED  BY <1>1, <2>1, EmitTyped DEF ScanInv
<1>5. file.id = Len(results) /\ file.from = p /\ file.index = index
  OBVIOUS
<1>. HIDE DEF file
<1>6. /\ results' \in Seq(Files) /\ Len(results') = Len(results) + 1
      /\ DOMAIN results' = 1 .. Len(results) + 1 /\ DOMAIN results = 1 .. Len(results)
      /\ \A i \in 1 .. Len(results) : results'[i] = results[i]
      /\ results'[Len(results) + 1] = file
  BY <1>1, <1>2, <1>3
<1>7. Places'
  BY <1>1, <1>2, <1>4, <1>6 DEF ScanInv, Places, TypeOK, SenderDropped, BeforeCarving, InCarving
<1>8. \A i \in DOMAIN results' : results'[i].id = i - 1
  BY <1>2, <1>5, <1>6 DEF ScanInv, Numbered
<1>9. pc' \in BeforeCarving => p = "metadata" /\ pc \in BeforeCarving
  BY <1>1 DEF BeforeCarving
<1>10. pc' \in BeforeCarving => \A i \in DOMAIN results' : results'[i].from = "metadata"
  BY <1>2, <1>5, <1>6, <1>9 DEF ScanInv, Numbered
<1>11. \A i \in 1 .. Len(results) :
          results[i].index \in Nat /\ (results[i].from = p => results[i].index < index)
  <2>1. \A i \in 1 .. Len(results) : results[i].index \in Nat
    <3>1. \A i \in 1 .. Len(results) : results[i] \in Files
      BY <1>2
    <3>2. \A f \in Files : f.index \in Nat
      BY DEF Files
    <3>. QED  BY <3>1, <3>2
  <2>2. CASE p = "metadata"
    <3>1. pc \in {"open", "detect", "metadata"}
      BY <1>1, <2>2
    <3>2. \A i \in DOMAIN results : results[i].index < index
      BY <3>1 DEF ScanInv, Numbered
    <3>. QED  BY <1>6, <2>1, <3>2
  <2>3. CASE p = "carving"
    BY <1>1, <1>6, <2>1, <2>3 DEF ScanInv, Numbered, InCarving
  <2>. QED  BY <2>2, <2>3
<1>12. \A i \in DOMAIN results' : results'[i].from = p => results'[i].index < index'
  BY <1>1, <1>2, <1>5, <1>6, <1>11
<1>13. \A i, j \in DOMAIN results' :
          i < j /\ results'[i].from = results'[j].from => results'[i].index < results'[j].index
  <2>. SUFFICES ASSUME NEW i \in DOMAIN results', NEW j \in DOMAIN results', i < j,
                       results'[i].from = results'[j].from
                PROVE  results'[i].index < results'[j].index
    OBVIOUS
  <2>1. CASE j = Len(results) + 1
    BY <1>2, <1>5, <1>6, <1>11, <2>1
  <2>2. CASE j # Len(results) + 1
    BY <1>2, <1>6, <2>2 DEF ScanInv, Numbered
  <2>. QED  BY <2>1, <2>2
<1>14. pc' \in {"open", "detect", "metadata"} => p = "metadata"
  BY <1>1
<1>15. pc' \in InCarving => p = "carving"
  BY <1>1 DEF InCarving
<1>16. Numbered'
  <2>1. pc' \in {"open", "detect", "metadata"} =>
            \A i \in DOMAIN results' : results'[i].index < index'
    BY <1>10, <1>12, <1>14 DEF BeforeCarving
  <2>2. pc' \in InCarving =>
            \A i \in DOMAIN results' : results'[i].from = "carving" => results'[i].index < index'
    BY <1>12, <1>15
  <2>. QED  BY <1>8, <1>10, <1>13, <2>1, <2>2 DEF Numbered
<1>. QED  BY <1>1, <1>7, <1>16 DEF ScanInv, Prompt

\* Every step keeps the invariant.
LEMMA ScanNextInv ==
    ASSUME ScanInv, [Next]_vars
    PROVE  ScanInv'
<1>. USE SessionAssumption DEF other, session, job
<1>. USE DEF BeforeCarving, InCarving
<1>1. CASE OpenFails
  BY <1>1 DEF OpenFails, ScanInv, Places, TypeOK, Numbered, Prompt, SenderDropped
<1>2. CASE Open
  <2>1. queue' \in Seq(Events) /\ (consumer # "listening" => queue' = <<>>)
    BY <1>2, EmitTyped, EventsTyped DEF Open, ScanInv, Phases
  <2>2. Places'
    BY <1>2, <2>1 DEF Open, ScanInv, Places, TypeOK, SenderDropped
  <2>. QED  BY <1>2, <2>2 DEF Open, ScanInv, Numbered, Prompt
<1>3. CASE Enumerate
  BY <1>3 DEF Enumerate, ScanInv, Places, TypeOK, Numbered, Prompt, SenderDropped
<1>4. CASE EnumerateFails
  <2>1. queue' \in Seq(Events) /\ (consumer # "listening" => queue' = <<>>)
    BY <1>4, EmitTyped, EventsTyped DEF EnumerateFails, ScanInv, Phases
  <2>2. Places'
    BY <1>4, <2>1 DEF EnumerateFails, ScanInv, Places, TypeOK, SenderDropped
  <2>. QED  BY <1>4, <2>2 DEF EnumerateFails, ScanInv, Numbered, Prompt
<1>5. CASE Report("metadata") \/ Report("carving")
  BY <1>5, ReportInv DEF Phases
<1>6. CASE EndMetadata
  <2>1. queue' \in Seq(Events) /\ (consumer # "listening" => queue' = <<>>)
    BY <1>6, EmitTyped, EventsTyped DEF EndMetadata, ScanInv, Phases
  <2>2. Places'
    BY <1>6, <2>1 DEF EndMetadata, ScanInv, Places, TypeOK, SenderDropped
  <2>. QED  BY <1>6, <2>2 DEF EndMetadata, ScanInv, Numbered, Prompt
<1>7. CASE StartCarving
  <2>1. queue' \in Seq(Events) /\ (consumer # "listening" => queue' = <<>>)
    BY <1>7, EmitTyped, EventsTyped DEF StartCarving, ScanInv, Phases
  <2>2. Places'
    BY <1>7, <2>1 DEF StartCarving, ScanInv, Places, TypeOK, SenderDropped
  <2>. QED  BY <1>7, <2>2 DEF StartCarving, ScanInv, Numbered, Prompt
<1>8. CASE SkipCarving
  BY <1>8 DEF SkipCarving, ScanInv, Places, TypeOK, Numbered, Prompt, SenderDropped
<1>9. CASE CarveChunk
  <2>0. scanned \in Nat /\ scanned + 1 \in 0 .. total /\ extra = 0
    BY <1>9 DEF CarveChunk, ScanInv, Places, TypeOK, Prompt
  <2>1. queue' \in Seq(Events) /\ (consumer # "listening" => queue' = <<>>)
    BY <1>9, <2>0, EmitTyped, EventsTyped DEF CarveChunk, ScanInv
  <2>2. Places'
    BY <1>9, <2>0, <2>1 DEF CarveChunk, ScanInv, Places, TypeOK, SenderDropped
  <2>. QED  BY <1>9, <2>0, <2>2 DEF CarveChunk, ScanInv, Numbered, Prompt
<1>10. CASE CheckCancel
  <2>1. Places'
    BY <1>10 DEF CheckCancel, ScanInv, Places, TypeOK, SenderDropped
  <2>. QED  BY <1>10, <2>1 DEF CheckCancel, ScanInv, Numbered, Prompt
<1>11. CASE CarveFails
  <2>1. queue' \in Seq(Events) /\ (consumer # "listening" => queue' = <<>>)
    BY <1>11, EmitTyped, EventsTyped DEF CarveFails, ScanInv, Phases
  <2>2. Places'
    BY <1>11, <2>1 DEF CarveFails, ScanInv, Places, TypeOK, SenderDropped
  <2>. QED  BY <1>11, <2>2 DEF CarveFails, ScanInv, Numbered, Prompt
<1>12. CASE EndCarving
  <2>1. queue' \in Seq(Events) /\ (consumer # "listening" => queue' = <<>>)
    BY <1>12, EmitTyped, EventsTyped DEF EndCarving, ScanInv, Phases
  <2>2. Places'
    BY <1>12, <2>1 DEF EndCarving, ScanInv, Places, TypeOK, SenderDropped
  <2>. QED  BY <1>12, <2>2 DEF EndCarving, ScanInv, Numbered, Prompt
<1>13. CASE FinishCancelled
  <2>1. queue' \in Seq(Events) /\ (consumer # "listening" => queue' = <<>>)
    BY <1>13, EmitTyped, EventsTyped DEF FinishCancelled, ScanInv
  <2>2. Places'
    BY <1>13, <2>1 DEF FinishCancelled, ScanInv, Places, TypeOK, SenderDropped
  <2>. QED  BY <1>13, <2>2 DEF FinishCancelled, ScanInv, Numbered, Prompt
<1>14. CASE FinishComplete
  <2>0. Len(results) \in Nat
    BY DEF ScanInv, Places, TypeOK
  <2>1. queue' \in Seq(Events) /\ (consumer # "listening" => queue' = <<>>)
    BY <1>14, <2>0, EmitTyped, EventsTyped DEF FinishComplete, ScanInv
  <2>2. Places'
    BY <1>14, <2>1 DEF FinishComplete, ScanInv, Places, TypeOK, SenderDropped
  <2>. QED  BY <1>14, <2>2 DEF FinishComplete, ScanInv, Numbered, Prompt
<1>15. CASE Return
  BY <1>15 DEF Return, ScanInv, Places, TypeOK, Numbered, Prompt, SenderDropped
<1>16. CASE Receive
  <2>1. queue # <<>> /\ received' = Append(received, Head(queue)) /\ queue' = Tail(queue)
    BY <1>16 DEF Receive
  <2>2. queue' \in Seq(Events) /\ received' \in Seq(Events)
    BY <2>1 DEF ScanInv, Places
  <2>3. Places'
    BY <1>16, <2>2 DEF Receive, ScanInv, Places, TypeOK, SenderDropped
  <2>. QED  BY <1>16, <2>3 DEF Receive, ScanInv, Numbered, Prompt
<1>17. CASE Join
  BY <1>17 DEF Join, ScanInv, Places, TypeOK, Numbered, Prompt, SenderDropped
<1>18. CASE HangUp
  BY <1>18 DEF HangUp, ScanInv, Places, TypeOK, Numbered, Prompt, SenderDropped
<1>19. CASE Cancel
  BY <1>19 DEF Cancel, ScanInv, Places, TypeOK, Numbered, Prompt, SenderDropped
<1>20. CASE UNCHANGED vars
  BY <1>20 DEF vars, ScanInv, Places, TypeOK, Numbered, Prompt, SenderDropped
<1>. QED  BY <1>1, <1>2, <1>3, <1>4, <1>5, <1>6, <1>7, <1>8, <1>9, <1>10, <1>11, <1>12, <1>13,
             <1>14, <1>15, <1>16, <1>17, <1>18, <1>19, <1>20 DEF Next, Scan, Ended

LEMMA ScanInvariant == Spec => []ScanInv
<1>1. ScanInv /\ [Next]_vars => ScanInv'
  BY ScanNextInv
<1>. QED  BY <1>1, ScanInitInv, PTL DEF Spec

\* The session, the channel and the place of the scan keep their types.
THEOREM ScanTypes == Spec => []TypeOK
<1>1. ScanInv => TypeOK
  BY DEF ScanInv, Places
<1>. QED  BY <1>1, ScanInvariant, PTL

\* No two files of a session have one id, nor two of one phase one number.
THEOREM IdsAreUnique == Spec => []IdsAndNumbersUnique
<1>1. ScanInv => IdsAndNumbersUnique
  <2>. SUFFICES ASSUME ScanInv, NEW i \in DOMAIN results, NEW j \in DOMAIN results, i # j
                PROVE  /\ results[i].id # results[j].id
                       /\ results[i].from = results[j].from => results[i].index # results[j].index
    BY DEF IdsAndNumbersUnique
  <2>1. /\ i \in Nat /\ j \in Nat /\ results[i] \in Files /\ results[j] \in Files
    BY DEF ScanInv, Places, TypeOK
  <2>2. results[i].id # results[j].id
    BY <2>1 DEF ScanInv, Numbered
  <2>3. results[i].index \in Nat /\ results[j].index \in Nat
    BY <2>1 DEF Files
  <2>4. results[i].from = results[j].from => results[i].index # results[j].index
    BY <2>1, <2>3 DEF ScanInv, Numbered
  <2>. QED  BY <2>2, <2>4
<1>. QED  BY <1>1, ScanInvariant, PTL

\* At most one chunk is carved after the flag is set.
THEOREM CancelIsPrompt == Spec => []PromptCancel
<1>1. ScanInv => PromptCancel
  BY DEF ScanInv, Prompt, PromptCancel
<1>. QED  BY <1>1, ScanInvariant, PTL

-----------------------------------------------------------------------------
(* The stream                                                              *)

\* The events sent so far.
Told == {Story[k] : k \in 1 .. Len(Story)}

EndEvents == {"Completed", "Cancelled"}

Within(p) == Started(p) \in Told /\ Completed(p) \notin Told

\* What the stream has said when the scan is at its place.
Bracketed ==
    consumer # "gone" =>
        /\ pc \in {"open", "detect", "metadata"} => Completed("metadata") \notin Told
        /\ pc \in {"detect", "metadata"} => Started("metadata") \in Told
        /\ pc \in BeforeCarving \union InCarving => Completed("carving") \notin Told
        /\ pc \in InCarving => Started("carving") \in Told
        /\ pc \notin {"return", "done"} => \A e \in Told : e.type \notin EndEvents

\* A carving phase that the flag did not stop has reached the end.
Whole ==
    /\ state = "Complete" => pc \in {"return", "done"}
    /\ pc = "carving" /\ ~ cancel => scanned = total
    /\ pc = "finish" /\ mode = "Deep" /\ ~ cancel =>
          scanned = total /\ (consumer # "gone" => Completed("carving") \in Told)
    /\ state = "Complete" /\ mode = "Deep" =>
          scanned = total /\ (consumer # "gone" => Completed("carving") \in Told)

StoryInv == Bracketed /\ Whole /\ WellBracketed

\* An event that may come next.
Fits(e) ==
    /\ e.type = "FileFound" => Within(e.file.from)
    /\ e.type = "PhaseCompleted" => Within(e.phase)
    /\ e.type = "Progress" => Within("carving")
    /\ \A x \in Told : x.type \notin EndEvents

LEMMA EventFields ==
    /\ \A p : Started(p).type = "PhaseStarted" /\ Started(p).phase = p
    /\ \A p : Completed(p).type = "PhaseCompleted" /\ Completed(p).phase = p
    /\ \A n : Progress(n).type = "Progress"
    /\ \A f : FileFound(f).type = "FileFound" /\ FileFound(f).file = f
    /\ \A p : FailedIn(p).type = "Failed"
    /\ \A n : AllDone(n).type = "Completed"
    /\ Stopped.type = "Cancelled"
BY DEF Started, Completed, Progress, FileFound, FailedIn, AllDone, Stopped

LEMMA StoryTyped ==
    ASSUME Places
    PROVE  Story \in Seq(Events) /\ Len(Story) = Len(received) + Len(queue) /\ Len(Story) \in Nat
BY DEF Places, Story

\* What WellBracketed says of the i-th event: what came before it.
Before(i) == {Story[k] : k \in 1 .. i - 1}

PlacedWell(i) ==
    LET e == Story[i]
    IN  /\ e.type = "FileFound" =>
              Started(e.file.from) \in Before(i) /\ Completed(e.file.from) \notin Before(i)
        /\ e.type = "PhaseCompleted" =>
              Started(e.phase) \in Before(i) /\ Completed(e.phase) \notin Before(i)
        /\ e.type = "Progress" =>
              Started("carving") \in Before(i) /\ Completed("carving") \notin Before(i)
        /\ e.type \in EndEvents => i = Len(Story)

AllPlacedWell == consumer # "gone" => \A i \in 1 .. Len(Story) : PlacedWell(i)

LEMMA BracketsByPlace == Places => (WellBracketed <=> AllPlacedWell)
<1>. SUFFICES ASSUME Places  PROVE WellBracketed <=> AllPlacedWell
  OBVIOUS
<1>1. DOMAIN Story = 1 .. Len(Story)
  BY StoryTyped
<1>. QED  BY <1>1 DEF WellBracketed, AllPlacedWell, PlacedWell, Before, EndEvents

LEMMA BracketsByPlacePrime == Places' => (WellBracketed' <=> AllPlacedWell')
BY BracketsByPlace, PTL

\* A send puts its event at the end of the story.
LEMMA StoryGrows ==
    ASSUME Places, consumer = "listening", NEW e \in Events, Emit(e), received' = received
    PROVE  /\ Len(Story') = Len(Story) + 1 /\ Story' \in Seq(Events)
           /\ \A k \in 1 .. Len(Story) : Story'[k] = Story[k]
           /\ Story'[Len(Story) + 1] = e
           /\ Told' = Told \union {e}
<1>1. queue \in Seq(Events) /\ received \in Seq(Events) /\ queue' = Append(queue, e)
  BY DEF Places, Emit
<1>2. Story' = Append(Story, e) /\ Story \in Seq(Events)
  BY <1>1 DEF Story
<1>. HIDE DEF Story
<1>3. /\ Len(Story') = Len(Story) + 1 /\ Len(Story) \in Nat /\ Story' \in Seq(Events)
      /\ \A k \in 1 .. Len(Story) : Story'[k] = Story[k]
      /\ Story'[Len(Story) + 1] = e
  BY <1>2
<1>4. Told' = Told \union {e}
  <2>1. \A k : k \in 1 .. Len(Story') <=> k \in 1 .. Len(Story) \/ k = Len(Story) + 1
    BY <1>3
  <2>. QED  BY <1>3, <2>1 DEF Told
<1>. QED  BY <1>3, <1>4

\* Receiving an event moves it within the story.
LEMMA StoryMoves ==
    ASSUME Places, Receive
    PROVE  Story' = Story
<1>1. /\ queue \in Seq(Events) /\ received \in Seq(Events) /\ queue # <<>>
      /\ received' = Append(received, Head(queue)) /\ queue' = Tail(queue)
  BY DEF Places, Receive
<1>2. Append(received, Head(queue)) \o Tail(queue) = received \o queue
  BY <1>1
<1>. QED  BY <1>1, <1>2 DEF Story

\* A fitting event keeps the stream well bracketed.
LEMMA FittingEvent ==
    ASSUME ScanInv, StoryInv, consumer # "gone", pc \notin {"done", "error"},
           NEW e \in Events, Fits(e), Emit(e), UNCHANGED <<received, consumer>>, Places'
    PROVE  WellBracketed' /\ Told' = Told \union {e}
<1>1. consumer = "listening" /\ Places
  BY DEF ScanInv, Places, TypeOK, SenderDropped
<1>2. /\ Len(Story') = Len(Story) + 1 /\ Len(Story) \in Nat
      /\ \A k \in 1 .. Len(Story) : Story'[k] = Story[k]
      /\ Story'[Len(Story) + 1] = e
      /\ Told' = Told \union {e}
  BY <1>1, StoryGrows, StoryTyped
<1>3. ASSUME NEW i \in 1 .. Len(Story)
      PROVE  Before(i)' = Before(i) /\ Story'[i] = Story[i]
  BY <1>2 DEF Before
<1>4. ASSUME NEW i, i = Len(Story) + 1
      PROVE  Before(i)' = Told
  <2>1. \A k : k \in 1 .. i - 1 <=> k \in 1 .. Len(Story)
    BY <1>2, <1>4
  <2>. QED  BY <1>2, <2>1 DEF Told, Before
<1>5. ASSUME NEW i \in 1 .. Len(Story')
      PROVE  PlacedWell(i)'
  <2>1. CASE i = Len(Story) + 1
    <3>1. Story'[i] = e /\ i = Len(Story') /\ Before(i)' = Told
      BY <1>2, <1>4, <2>1
    <3>. QED  BY <3>1 DEF Fits, Within, PlacedWell
  <2>2. CASE i \in 1 .. Len(Story)
    <3>1. Story[i].type \notin EndEvents
      BY <2>2 DEF Fits, Told
    <3>2. PlacedWell(i)
      BY <1>1, <2>2, BracketsByPlace DEF StoryInv, AllPlacedWell
    <3>3. Before(i)' = Before(i) /\ Story'[i] = Story[i]
      BY <1>3, <2>2
    <3>. QED  BY <3>1, <3>2, <3>3 DEF PlacedWell
  <2>. QED  BY <1>2, <2>1, <2>2
<1>. QED  BY <1>2, <1>5, BracketsByPlacePrime DEF AllPlacedWell

\* Nothing is sent and nothing received.
LEMMA SameStory ==
    ASSUME WellBracketed, UNCHANGED <<queue, received>>, consumer' # "gone" => consumer # "gone"
    PROVE  WellBracketed' /\ Told' = Told
<1>1. Story' = Story
  BY DEF Story
<1>. QED  BY <1>1 DEF Told, WellBracketed

LEMMA StoryInitInv == Init => StoryInv
<1>. SUFFICES ASSUME Init  PROVE StoryInv
  OBVIOUS
<1>1. Places
  BY ScanInitInv DEF ScanInv
<1>2. Len(Story) = 0
  BY <1>1, StoryTyped DEF Init
<1>3. Told = {}
  BY <1>2 DEF Told
<1>4. WellBracketed
  BY <1>1, <1>2, BracketsByPlace DEF AllPlacedWell
<1>. QED  BY <1>3, <1>4 DEF Init, StoryInv, Bracketed, Whole, BeforeCarving, InCarving

\* A file is reported within its phase.
LEMMA ReportStoryInv ==
    ASSUME ScanInv, ScanInv', StoryInv, NEW p \in Phases, Report(p)
    PROVE  StoryInv'
<1>. USE DEF other, session, job
<1>. USE DEF BeforeCarving, InCarving
<1>. DEFINE file == [id |-> Len(results), from |-> p, index |-> index]
<1>1. /\ pc = p /\ found > 0 /\ Emit(FileFound(file))
      /\ UNCHANGED <<pc, state, scanned, total, consumer, received, mode, cancel>>
  BY DEF Report
<1>2. file \in Files /\ Places /\ Places'
  BY DEF Files, ScanInv, Places, TypeOK
<1>3. file.from = p
  OBVIOUS
<1>. HIDE DEF file
<1>4. FileFound(file) \in Events
  BY <1>2, EventsTyped
<1>5. pc \in {"metadata", "carving"}
  BY <1>1 DEF Phases
<1>6. CASE consumer # "gone"
  <2>1. Fits(FileFound(file))
    BY <1>1, <1>3, <1>5, <1>6, EventFields DEF Fits, Within, StoryInv, Bracketed
  <2>2. WellBracketed' /\ Told' = Told \union {FileFound(file)}
    BY <1>1, <1>2, <1>4, <1>5, <1>6, <2>1, FittingEvent
  <2>3. Bracketed'
    BY <1>1, <1>6, <2>2, EventFields DEF StoryInv, Bracketed, EndEvents
  <2>4. Whole'
    BY <1>1, <2>2 DEF StoryInv, Whole
  <2>. QED  BY <2>2, <2>3, <2>4 DEF StoryInv
<1>7. CASE consumer = "gone"
  <2>1. Whole'
    BY <1>1, <1>7 DEF StoryInv, Whole
  <2>. QED  BY <1>1, <1>7, <2>1 DEF StoryInv, Bracketed, WellBracketed
<1>. QED  BY <1>6, <1>7

LEMMA StoryNextInv ==
    ASSUME ScanInv, ScanInv', StoryInv, [Next]_vars
    PROVE  StoryInv'
<1>. USE DEF other, session, job
<1>. USE DEF BeforeCarving, InCarving
<1>0. /\ Places /\ Places' /\ scanned \in Nat /\ total \in Nat /\ Len(results) \in Nat
      /\ pc = "carve" => scanned < total
  BY SessionAssumption DEF ScanInv, Places, TypeOK
<1>1. CASE OpenFails
  <2>1. UNCHANGED <<queue, received>> /\ (consumer' # "gone" => consumer # "gone")
    BY <1>1 DEF OpenFails
  <2>2. WellBracketed' /\ Told' = Told
    BY <2>1, SameStory DEF StoryInv
  <2>3. Bracketed'
    BY <1>1, <2>1, <2>2 DEF OpenFails, StoryInv, Bracketed
  <2>4. Whole'
    BY <1>0, <1>1, <2>1, <2>2 DEF OpenFails, StoryInv, Whole
  <2>. QED  BY <2>2, <2>3, <2>4 DEF StoryInv
<1>2. CASE Open
  <2>1. /\ Emit(Started("metadata"))
        /\ UNCHANGED <<received, consumer, mode, cancel>> /\ pc \notin {"done", "error"}
    BY <1>2 DEF Open, Phases
  <2>2. Started("metadata") \in Events
    BY EventsTyped DEF Phases
  <2>3. CASE consumer # "gone"
    <3>1. Fits(Started("metadata"))
      BY <1>2, <2>3, EventFields DEF Open, Fits, Within, StoryInv, Bracketed
    <3>2. WellBracketed' /\ Told' = Told \union {Started("metadata")}
      BY <1>0, <2>1, <2>2, <2>3, <3>1, FittingEvent
    <3>3. Bracketed'
      BY <1>2, <2>3, <3>2, EventFields DEF Open, StoryInv, Bracketed, EndEvents
    <3>4. Whole'
      BY <1>0, <1>2, <2>3, <3>2 DEF Open, StoryInv, Whole
    <3>. QED  BY <3>2, <3>3, <3>4 DEF StoryInv
  <2>4. CASE consumer = "gone"
    <3>1. Whole'
      BY <1>0, <1>2, <2>4 DEF Open, StoryInv, Whole
    <3>. QED  BY <2>1, <2>4, <3>1 DEF StoryInv, Bracketed, WellBracketed
  <2>. QED  BY <2>3, <2>4
<1>3. CASE Enumerate
  <2>1. UNCHANGED <<queue, received>> /\ (consumer' # "gone" => consumer # "gone")
    BY <1>3 DEF Enumerate
  <2>2. WellBracketed' /\ Told' = Told
    BY <2>1, SameStory DEF StoryInv
  <2>3. Bracketed'
    BY <1>3, <2>1, <2>2 DEF Enumerate, StoryInv, Bracketed
  <2>4. Whole'
    BY <1>0, <1>3, <2>1, <2>2 DEF Enumerate, StoryInv, Whole
  <2>. QED  BY <2>2, <2>3, <2>4 DEF StoryInv
<1>4. CASE EnumerateFails
  <2>1. /\ Emit(FailedIn("metadata"))
        /\ UNCHANGED <<received, consumer, mode, cancel>> /\ pc \notin {"done", "error"}
    BY <1>4 DEF EnumerateFails, Phases
  <2>2. FailedIn("metadata") \in Events
    BY EventsTyped DEF Phases
  <2>3. CASE consumer # "gone"
    <3>1. Fits(FailedIn("metadata"))
      BY <1>4, <2>3, EventFields DEF EnumerateFails, Fits, Within, StoryInv, Bracketed
    <3>2. WellBracketed' /\ Told' = Told \union {FailedIn("metadata")}
      BY <1>0, <2>1, <2>2, <2>3, <3>1, FittingEvent
    <3>3. Bracketed'
      BY <1>4, <2>3, <3>2, EventFields DEF EnumerateFails, StoryInv, Bracketed, EndEvents
    <3>4. Whole'
      BY <1>0, <1>4, <2>3, <3>2 DEF EnumerateFails, StoryInv, Whole
    <3>. QED  BY <3>2, <3>3, <3>4 DEF StoryInv
  <2>4. CASE consumer = "gone"
    <3>1. Whole'
      BY <1>0, <1>4, <2>4 DEF EnumerateFails, StoryInv, Whole
    <3>. QED  BY <2>1, <2>4, <3>1 DEF StoryInv, Bracketed, WellBracketed
  <2>. QED  BY <2>3, <2>4
<1>5. CASE Report("metadata") \/ Report("carving")
  BY <1>5, ReportStoryInv DEF Phases
<1>6. CASE EndMetadata
  <2>1. /\ Emit(Completed("metadata"))
        /\ UNCHANGED <<received, consumer, mode, cancel>> /\ pc \notin {"done", "error"}
    BY <1>6 DEF EndMetadata, Phases
  <2>2. Completed("metadata") \in Events
    BY EventsTyped DEF Phases
  <2>3. CASE consumer # "gone"
    <3>1. Fits(Completed("metadata"))
      BY <1>6, <2>3, EventFields DEF EndMetadata, Fits, Within, StoryInv, Bracketed
    <3>2. WellBracketed' /\ Told' = Told \union {Completed("metadata")}
      BY <1>0, <2>1, <2>2, <2>3, <3>1, FittingEvent
    <3>3. Bracketed'
      BY <1>6, <2>3, <3>2, EventFields DEF EndMetadata, StoryInv, Bracketed, EndEvents
    <3>4. Whole'
      BY <1>0, <1>6, <2>3, <3>2 DEF EndMetadata, StoryInv, Whole
    <3>. QED  BY <3>2, <3>3, <3>4 DEF StoryInv
  <2>4. CASE consumer = "gone"
    <3>1. Whole'
      BY <1>0, <1>6, <2>4 DEF EndMetadata, StoryInv, Whole
    <3>. QED  BY <2>1, <2>4, <3>1 DEF StoryInv, Bracketed, WellBracketed
  <2>. QED  BY <2>3, <2>4
<1>7. CASE StartCarving
  <2>1. /\ Emit(Started("carving"))
        /\ UNCHANGED <<received, consumer, mode, cancel>> /\ pc \notin {"done", "error"}
    BY <1>7 DEF StartCarving, Phases
  <2>2. Started("carving") \in Events
    BY EventsTyped DEF Phases
  <2>3. CASE consumer # "gone"
    <3>1. Fits(Started("carving"))
      BY <1>7, <2>3, EventFields DEF StartCarving, Fits, Within, StoryInv, Bracketed
    <3>2. WellBracketed' /\ Told' = Told \union {Started("carving")}
      BY <1>0, <2>1, <2>2, <2>3, <3>1, FittingEvent
    <3>3. Bracketed'
      BY <1>7, <2>3, <3>2, EventFields DEF StartCarving, StoryInv, Bracketed, EndEvents
    <3>4. Whole'
      BY <1>0, <1>7, <2>3, <3>2 DEF StartCarving, StoryInv, Whole
    <3>. QED  BY <3>2, <3>3, <3>4 DEF StoryInv
  <2>4. CASE consumer = "gone"
    <3>1. Whole'
      BY <1>0, <1>7, <2>4 DEF StartCarving, StoryInv, Whole
    <3>. QED  BY <2>1, <2>4, <3>1 DEF StoryInv, Bracketed, WellBracketed
  <2>. QED  BY <2>3, <2>4
<1>8. CASE SkipCarving
  <2>1. UNCHANGED <<queue, received>> /\ (consumer' # "gone" => consumer # "gone")
    BY <1>8 DEF SkipCarving
  <2>2. WellBracketed' /\ Told' = Told
    BY <2>1, SameStory DEF StoryInv
  <2>3. Bracketed'
    BY <1>8, <2>1, <2>2 DEF SkipCarving, StoryInv, Bracketed
  <2>4. Whole'
    BY <1>0, <1>8, <2>1, <2>2 DEF SkipCarving, StoryInv, Whole
  <2>. QED  BY <2>2, <2>3, <2>4 DEF StoryInv
<1>9. CASE CarveChunk
  <2>1. /\ Emit(Progress(scanned + 1))
        /\ UNCHANGED <<received, consumer, mode, cancel>> /\ pc \notin {"done", "error"}
    BY <1>9 DEF CarveChunk, Phases
  <2>2. Progress(scanned + 1) \in Events
    BY <1>0, EventsTyped DEF Phases
  <2>3. CASE consumer # "gone"
    <3>1. Fits(Progress(scanned + 1))
      BY <1>9, <2>3, EventFields DEF CarveChunk, Fits, Within, StoryInv, Bracketed
    <3>2. WellBracketed' /\ Told' = Told \union {Progress(scanned + 1)}
      BY <1>0, <2>1, <2>2, <2>3, <3>1, FittingEvent
    <3>3. Bracketed'
      BY <1>9, <2>3, <3>2, EventFields DEF CarveChunk, StoryInv, Bracketed, EndEvents
    <3>4. Whole'
      BY <1>0, <1>9, <2>3, <3>2 DEF CarveChunk, StoryInv, Whole
    <3>. QED  BY <3>2, <3>3, <3>4 DEF StoryInv
  <2>4. CASE consumer = "gone"
    <3>1. Whole'
      BY <1>0, <1>9, <2>4 DEF CarveChunk, StoryInv, Whole
    <3>. QED  BY <2>1, <2>4, <3>1 DEF StoryInv, Bracketed, WellBracketed
  <2>. QED  BY <2>3, <2>4
<1>10. CASE CheckCancel
  <2>1. UNCHANGED <<queue, received>> /\ (consumer' # "gone" => consumer # "gone")
    BY <1>10 DEF CheckCancel
  <2>2. WellBracketed' /\ Told' = Told
    BY <2>1, SameStory DEF StoryInv
  <2>3. Bracketed'
    BY <1>10, <2>1, <2>2 DEF CheckCancel, StoryInv, Bracketed
  <2>4. Whole'
    BY <1>0, <1>10, <2>1, <2>2 DEF CheckCancel, StoryInv, Whole
  <2>. QED  BY <2>2, <2>3, <2>4 DEF StoryInv
<1>11. CASE CarveFails
  <2>1. /\ Emit(FailedIn("carving"))
        /\ UNCHANGED <<received, consumer, mode, cancel>> /\ pc \notin {"done", "error"}
    BY <1>11 DEF CarveFails, Phases
  <2>2. FailedIn("carving") \in Events
    BY EventsTyped DEF Phases
  <2>3. CASE consumer # "gone"
    <3>1. Fits(FailedIn("carving"))
      BY <1>11, <2>3, EventFields DEF CarveFails, Fits, Within, StoryInv, Bracketed
    <3>2. WellBracketed' /\ Told' = Told \union {FailedIn("carving")}
      BY <1>0, <2>1, <2>2, <2>3, <3>1, FittingEvent
    <3>3. Bracketed'
      BY <1>11, <2>3, <3>2, EventFields DEF CarveFails, StoryInv, Bracketed, EndEvents
    <3>4. Whole'
      BY <1>0, <1>11, <2>3, <3>2 DEF CarveFails, StoryInv, Whole
    <3>. QED  BY <3>2, <3>3, <3>4 DEF StoryInv
  <2>4. CASE consumer = "gone"
    <3>1. Whole'
      BY <1>0, <1>11, <2>4 DEF CarveFails, StoryInv, Whole
    <3>. QED  BY <2>1, <2>4, <3>1 DEF StoryInv, Bracketed, WellBracketed
  <2>. QED  BY <2>3, <2>4
<1>12. CASE EndCarving
  <2>1. /\ Emit(Completed("carving"))
        /\ UNCHANGED <<received, consumer, mode, cancel>> /\ pc \notin {"done", "error"}
    BY <1>12 DEF EndCarving, Phases
  <2>2. Completed("carving") \in Events
    BY EventsTyped DEF Phases
  <2>3. CASE consumer # "gone"
    <3>1. Fits(Completed("carving"))
      BY <1>12, <2>3, EventFields DEF EndCarving, Fits, Within, StoryInv, Bracketed
    <3>2. WellBracketed' /\ Told' = Told \union {Completed("carving")}
      BY <1>0, <2>1, <2>2, <2>3, <3>1, FittingEvent
    <3>3. Bracketed'
      BY <1>12, <2>3, <3>2, EventFields DEF EndCarving, StoryInv, Bracketed, EndEvents
    <3>4. Whole'
      BY <1>0, <1>12, <2>3, <3>2 DEF EndCarving, StoryInv, Whole
    <3>. QED  BY <3>2, <3>3, <3>4 DEF StoryInv
  <2>4. CASE consumer = "gone"
    <3>1. Whole'
      BY <1>0, <1>12, <2>4 DEF EndCarving, StoryInv, Whole
    <3>. QED  BY <2>1, <2>4, <3>1 DEF StoryInv, Bracketed, WellBracketed
  <2>. QED  BY <2>3, <2>4
<1>13. CASE FinishCancelled
  <2>1. /\ Emit(Stopped)
        /\ UNCHANGED <<received, consumer, mode, cancel>> /\ pc \notin {"done", "error"}
    BY <1>13 DEF FinishCancelled, Phases
  <2>2. Stopped \in Events
    BY EventsTyped DEF Phases
  <2>3. CASE consumer # "gone"
    <3>1. Fits(Stopped)
      BY <1>13, <2>3, EventFields DEF FinishCancelled, Fits, Within, StoryInv, Bracketed
    <3>2. WellBracketed' /\ Told' = Told \union {Stopped}
      BY <1>0, <2>1, <2>2, <2>3, <3>1, FittingEvent
    <3>3. Bracketed'
      BY <1>13, <2>3, <3>2, EventFields DEF FinishCancelled, StoryInv, Bracketed, EndEvents
    <3>4. Whole'
      BY <1>0, <1>13, <2>3, <3>2 DEF FinishCancelled, StoryInv, Whole
    <3>. QED  BY <3>2, <3>3, <3>4 DEF StoryInv
  <2>4. CASE consumer = "gone"
    <3>1. Whole'
      BY <1>0, <1>13, <2>4 DEF FinishCancelled, StoryInv, Whole
    <3>. QED  BY <2>1, <2>4, <3>1 DEF StoryInv, Bracketed, WellBracketed
  <2>. QED  BY <2>3, <2>4
<1>14. CASE FinishComplete
  <2>1. /\ Emit(AllDone(Len(results)))
        /\ UNCHANGED <<received, consumer, mode, cancel>> /\ pc \notin {"done", "error"}
    BY <1>14 DEF FinishComplete, Phases
  <2>2. AllDone(Len(results)) \in Events
    BY <1>0, EventsTyped DEF Phases
  <2>3. CASE consumer # "gone"
    <3>1. Fits(AllDone(Len(results)))
      BY <1>14, <2>3, EventFields DEF FinishComplete, Fits, Within, StoryInv, Bracketed
    <3>2. WellBracketed' /\ Told' = Told \union {AllDone(Len(results))}
      BY <1>0, <2>1, <2>2, <2>3, <3>1, FittingEvent
    <3>3. Bracketed'
      BY <1>14, <2>3, <3>2, EventFields DEF FinishComplete, StoryInv, Bracketed, EndEvents
    <3>4. Whole'
      BY <1>0, <1>14, <2>3, <3>2 DEF FinishComplete, StoryInv, Whole
    <3>. QED  BY <3>2, <3>3, <3>4 DEF StoryInv
  <2>4. CASE consumer = "gone"
    <3>1. Whole'
      BY <1>0, <1>14, <2>4 DEF FinishComplete, StoryInv, Whole
    <3>. QED  BY <2>1, <2>4, <3>1 DEF StoryInv, Bracketed, WellBracketed
  <2>. QED  BY <2>3, <2>4
<1>15. CASE Return
  <2>1. UNCHANGED <<queue, received>> /\ (consumer' # "gone" => consumer # "gone")
    BY <1>15 DEF Return
  <2>2. WellBracketed' /\ Told' = Told
    BY <2>1, SameStory DEF StoryInv
  <2>3. Bracketed'
    BY <1>15, <2>1, <2>2 DEF Return, StoryInv, Bracketed
  <2>4. Whole'
    BY <1>0, <1>15, <2>1, <2>2 DEF Return, StoryInv, Whole
  <2>. QED  BY <2>2, <2>3, <2>4 DEF StoryInv
<1>16. CASE Receive
  <2>1. Story' = Story /\ UNCHANGED <<mode, cancel, pc, session, job, consumer, extra>>
    BY <1>0, <1>16, StoryMoves DEF Receive
  <2>2. Told' = Told
    BY <2>1 DEF Told
  <2>. QED  BY <2>1, <2>2 DEF StoryInv, Bracketed, Whole, WellBracketed
<1>17. CASE Join
  <2>1. UNCHANGED <<queue, received>> /\ (consumer' # "gone" => consumer # "gone")
    BY <1>17 DEF Join
  <2>2. WellBracketed' /\ Told' = Told
    BY <2>1, SameStory DEF StoryInv
  <2>3. Bracketed'
    BY <1>17, <2>1, <2>2 DEF Join, StoryInv, Bracketed
  <2>4. Whole'
    BY <1>0, <1>17, <2>1, <2>2 DEF Join, StoryInv, Whole
  <2>. QED  BY <2>2, <2>3, <2>4 DEF StoryInv
<1>18. CASE HangUp
  BY <1>18 DEF HangUp, StoryInv, Bracketed, Whole, WellBracketed
<1>19. CASE Cancel
  <2>1. UNCHANGED <<queue, received>> /\ (consumer' # "gone" => consumer # "gone")
    BY <1>19 DEF Cancel
  <2>2. WellBracketed' /\ Told' = Told
    BY <2>1, SameStory DEF StoryInv
  <2>3. Bracketed'
    BY <1>19, <2>1, <2>2 DEF Cancel, StoryInv, Bracketed
  <2>4. Whole'
    BY <1>0, <1>19, <2>1, <2>2 DEF Cancel, StoryInv, Whole
  <2>. QED  BY <2>2, <2>3, <2>4 DEF StoryInv
<1>20. CASE UNCHANGED vars
  <2>1. UNCHANGED <<queue, received, consumer, pc, state, scanned, total, mode, cancel>>
    BY <1>20 DEF vars
  <2>2. WellBracketed' /\ Told' = Told
    BY <2>1, SameStory DEF StoryInv
  <2>. QED  BY <2>1, <2>2 DEF StoryInv, Bracketed, Whole
<1>. QED  BY <1>1, <1>2, <1>3, <1>4, <1>5, <1>6, <1>7, <1>8, <1>9, <1>10, <1>11, <1>12, <1>13,
             <1>14, <1>15, <1>16, <1>17, <1>18, <1>19, <1>20 DEF Next, Scan, Ended

LEMMA StoryInvariant == Spec => []StoryInv
<1>1. ScanInv /\ ScanInv' /\ StoryInv /\ [Next]_vars => StoryInv'
  BY StoryNextInv
<1>. QED  BY <1>1, StoryInitInv, ScanInvariant, PTL DEF Spec

\* The stream is well bracketed, wherever the scan is cancelled or fails.
THEOREM StreamIsWellBracketed == Spec => []WellBracketed
<1>1. StoryInv => WellBracketed
  BY DEF StoryInv
<1>. QED  BY <1>1, StoryInvariant, PTL

\* A Deep scan that is Complete carved the image to its end and said so.
THEOREM CompleteScansAreWhole == Spec => []CompleteIsWhole
<1>1. ScanInv /\ StoryInv => CompleteIsWhole
  <2>1. Places => DOMAIN Story = 1 .. Len(Story)
    BY StoryTyped
  <2>. QED  BY <2>1 DEF ScanInv, StoryInv, Whole, CompleteIsWhole, Told
<1>. QED  BY <1>1, ScanInvariant, StoryInvariant, PTL

-----------------------------------------------------------------------------
(* The stream and the session                                              *)

\* The places up to i where a file was streamed, and how many there are.
UpTo(i) == {k \in 1 .. i : Story[k].type = "FileFound"}
Rank(i) == Cardinality(UpTo(i))

\* The n-th file streamed is the n-th the session holds.
Streamed ==
    consumer # "gone" =>
        /\ Rank(Len(Story)) = Len(results)
        /\ \A i \in UpTo(Len(Story)) : Rank(i) \in 1 .. Len(results) /\ Story[i].file = results[Rank(i)]
        /\ \A n \in 1 .. Len(results) : \E i \in UpTo(Len(Story)) : Rank(i) = n

\* A scan that is over has an outcome, and has told it last.
OutcomeEvent ==
    CASE state = "Complete" -> AllDone(Len(results))
      [] state = "Cancelled" -> Stopped
      [] state = "Failed" -> FailedIn("carving")

Closed ==
    pc \in {"return", "done"} =>
        /\ state \in {"Complete", "Cancelled", "Failed"}
        /\ consumer # "gone" => Len(Story) > 0 /\ Story[Len(Story)] = OutcomeEvent

SessionInv == Streamed /\ Closed

LEMMA UpToIsFinite == \A i \in Nat : IsFiniteSet(UpTo(i)) /\ Rank(i) \in Nat
<1>. SUFFICES ASSUME NEW i \in Nat  PROVE IsFiniteSet(UpTo(i)) /\ Rank(i) \in Nat
  OBVIOUS
<1>1. 0 \in Int /\ 1 \in Int /\ i \in Int
  OBVIOUS
<1>2. IsFiniteSet(1 .. i)
  BY <1>1, FS_Interval
<1>3. UpTo(i) \subseteq 1 .. i
  BY DEF UpTo
<1>. QED  BY <1>2, <1>3, FS_Subset, FS_CardinalityType DEF Rank

\* What a send does to the ranks.
LEMMA RankGrows ==
    ASSUME Places, consumer = "listening", NEW e \in Events, Emit(e), received' = received,
           NEW n, n = Len(Story) + 1
    PROVE  /\ n \in Nat /\ Len(Story') = n /\ Story'[n] = e /\ Len(Story) \in Nat
           /\ \A i \in 1 .. Len(Story) : UpTo(i)' = UpTo(i) /\ Rank(i)' = Rank(i) /\ Story'[i] = Story[i]
           /\ e.type # "FileFound" => UpTo(n)' = UpTo(Len(Story)) /\ Rank(n)' = Rank(Len(Story))
           /\ e.type = "FileFound" =>
                 UpTo(n)' = UpTo(Len(Story)) \union {n} /\ Rank(n)' = Rank(Len(Story)) + 1
<1>. DEFINE N == Len(Story)
<1>1. /\ Len(Story') = n /\ N \in Nat /\ n \in Nat /\ n = N + 1 /\ Story'[n] = e
      /\ \A k \in 1 .. N : Story'[k] = Story[k]
  BY StoryGrows, StoryTyped
<1>2. \A i \in 1 .. N : UpTo(i)' = UpTo(i) /\ Rank(i)' = Rank(i) /\ Story'[i] = Story[i]
  <2>. SUFFICES ASSUME NEW i \in 1 .. N
                PROVE  UpTo(i)' = UpTo(i) /\ Rank(i)' = Rank(i) /\ Story'[i] = Story[i]
    OBVIOUS
  <2>1. UpTo(i)' = UpTo(i)
    BY <1>1 DEF UpTo
  <2>. QED  BY <1>1, <2>1 DEF Rank
<1>3. \A k : k \in 1 .. n <=> k \in 1 .. N \/ k = n
  BY <1>1
<1>4. IsFiniteSet(UpTo(N)) /\ n \notin UpTo(N)
  BY <1>1, UpToIsFinite DEF UpTo
<1>5. ASSUME e.type # "FileFound"  PROVE UpTo(n)' = UpTo(N)
  BY <1>1, <1>3, <1>5 DEF UpTo
<1>6. ASSUME e.type = "FileFound"  PROVE UpTo(n)' = UpTo(N) \union {n}
  BY <1>1, <1>3, <1>6 DEF UpTo
<1>7. Cardinality(UpTo(N) \union {n}) = Rank(N) + 1
  BY <1>4, FS_AddElement DEF Rank
<1>8. e.type # "FileFound" => UpTo(n)' = UpTo(N) /\ Rank(n)' = Rank(N)
  BY <1>5 DEF Rank
<1>9. e.type = "FileFound" => UpTo(n)' = UpTo(N) \union {n} /\ Rank(n)' = Rank(N) + 1
  BY <1>6, <1>7 DEF Rank
<1>. QED  BY <1>1, <1>2, <1>8, <1>9

\* The same of any place that is the last one.
LEMMA StreamedByRank ==
    ASSUME NEW n, Len(Story) = n, Rank(n) = Len(results),
           \A i \in UpTo(n) : Rank(i) \in 1 .. Len(results) /\ Story[i].file = results[Rank(i)],
           \A k \in 1 .. Len(results) : \E i \in UpTo(n) : Rank(i) = k
    PROVE  Streamed
BY DEF Streamed

LEMMA StreamedByRankPrime ==
    ASSUME NEW n, Len(Story') = n, Rank(n)' = Len(results'),
           \A i \in UpTo(n)' : Rank(i)' \in 1 .. Len(results') /\ Story'[i].file = results'[Rank(i)'],
           \A k \in 1 .. Len(results') : \E i \in UpTo(n)' : Rank(i)' = k
    PROVE  Streamed'
BY DEF Streamed

\* A file goes to the stream and to the session.
LEMMA FileStreamed ==
    ASSUME Places, Streamed, consumer = "listening", NEW f \in Files, Emit(FileFound(f)),
           received' = received, results' = Append(results, f)
    PROVE  Streamed'
<1>. DEFINE N == Len(Story)
            R == Len(results)
<1>. SUFFICES ASSUME NEW n, n = N + 1  PROVE Streamed'
  OBVIOUS
<1>1. results \in Seq(Files) /\ FileFound(f) \in Events
  BY EventsTyped DEF Places, TypeOK
<1>2. FileFound(f).type = "FileFound" /\ FileFound(f).file = f
  BY EventFields
<1>3. /\ n \in Nat /\ Len(Story') = n /\ Story'[n] = FileFound(f) /\ N \in Nat
      /\ \A i \in 1 .. N : UpTo(i)' = UpTo(i) /\ Rank(i)' = Rank(i) /\ Story'[i] = Story[i]
      /\ UpTo(n)' = UpTo(N) \union {n} /\ Rank(n)' = Rank(N) + 1
  BY <1>1, <1>2, RankGrows
<1>4. /\ R \in Nat /\ Len(results') = R + 1 /\ results'[R + 1] = f
      /\ \A k \in 1 .. R : results'[k] = results[k]
  BY <1>1
<1>5. /\ Rank(N) = R
      /\ \A i \in UpTo(N) : Rank(i) \in 1 .. R /\ Story[i].file = results[Rank(i)]
      /\ \A k \in 1 .. R : \E i \in UpTo(N) : Rank(i) = k
  BY DEF Streamed
<1>6. UpTo(N) \subseteq 1 .. N
  BY DEF UpTo
<1>. HIDE DEF N, R
<1>7. Rank(n)' = Len(results')
  BY <1>3, <1>4, <1>5
<1>8. ASSUME NEW i \in UpTo(n)'
      PROVE  Rank(i)' \in 1 .. Len(results') /\ Story'[i].file = results'[Rank(i)']
  <2>1. CASE i = n
    <3>1. Rank(i)' = R + 1
      BY <1>3, <1>5, <2>1
    <3>. QED  BY <1>2, <1>3, <1>4, <2>1, <3>1
  <2>2. CASE i \in UpTo(N)
    <3>1. i \in 1 .. N
      BY <1>6, <2>2
    <3>2. Rank(i)' = Rank(i) /\ Story'[i] = Story[i]
      BY <1>3, <3>1
    <3>3. Rank(i) \in 1 .. R /\ Story[i].file = results[Rank(i)]
      BY <1>5, <2>2
    <3>. QED  BY <1>4, <3>2, <3>3
  <2>. QED  BY <1>3, <1>8, <2>1, <2>2
<1>9. ASSUME NEW k \in 1 .. Len(results')  PROVE \E i \in UpTo(n)' : Rank(i)' = k
  <2>1. CASE k = R + 1
    BY <1>3, <1>5, <2>1
  <2>2. CASE k \in 1 .. R
    <3>1. PICK i \in UpTo(N) : Rank(i) = k
      BY <1>5, <2>2
    <3>2. Rank(i)' = Rank(i)
      BY <1>3, <1>6, <3>1
    <3>. QED  BY <1>3, <3>1, <3>2
  <2>. QED  BY <1>4, <2>1, <2>2
<1>. QED  BY <1>3, <1>7, <1>8, <1>9, StreamedByRankPrime

\* Another event, or none.
LEMMA OtherStreamed ==
    ASSUME Places, Streamed, consumer = "listening", NEW e \in Events, e.type # "FileFound",
           Emit(e), received' = received, results' = results
    PROVE  Streamed'
<1>. DEFINE N == Len(Story)
<1>. SUFFICES ASSUME NEW n, n = N + 1  PROVE Streamed'
  OBVIOUS
<1>1. /\ n \in Nat /\ Len(Story') = n /\ N \in Nat
      /\ \A i \in 1 .. N : UpTo(i)' = UpTo(i) /\ Rank(i)' = Rank(i) /\ Story'[i] = Story[i]
      /\ UpTo(n)' = UpTo(N) /\ Rank(n)' = Rank(N)
  BY RankGrows
<1>2. /\ Rank(N) = Len(results)
      /\ \A i \in UpTo(N) : Rank(i) \in 1 .. Len(results) /\ Story[i].file = results[Rank(i)]
      /\ \A k \in 1 .. Len(results) : \E i \in UpTo(N) : Rank(i) = k
  BY DEF Streamed
<1>3. UpTo(N) \subseteq 1 .. N
  BY DEF UpTo
<1>. HIDE DEF N
<1>4. \A i \in UpTo(n)' : i \in UpTo(N) /\ Rank(i)' = Rank(i) /\ Story'[i] = Story[i]
  BY <1>1, <1>3
<1>5. \A i \in UpTo(n)' : Rank(i)' \in 1 .. Len(results') /\ Story'[i].file = results'[Rank(i)']
  BY <1>2, <1>4
<1>6. ASSUME NEW k \in 1 .. Len(results')  PROVE \E i \in UpTo(n)' : Rank(i)' = k
  BY <1>1, <1>2, <1>4
<1>. QED  BY <1>1, <1>2, <1>5, <1>6, StreamedByRankPrime

LEMMA StillStreamed ==
    ASSUME Streamed, Story' = Story, results' = results, consumer' # "gone" => consumer # "gone"
    PROVE  Streamed'
<1>1. \A i : UpTo(i)' = UpTo(i)
  BY DEF UpTo
<1>2. \A i : Rank(i)' = Rank(i)
  BY <1>1 DEF Rank
<1>. QED  BY <1>1, <1>2 DEF Streamed

LEMMA StillListening ==
    ASSUME Places, consumer # "gone", pc \notin {"done", "error"}
    PROVE  consumer = "listening"
BY DEF Places, TypeOK, SenderDropped

\* A file is reported.
LEMMA ReportStreamed ==
    ASSUME ScanInv, SessionInv, NEW p \in Phases, Report(p)
    PROVE  SessionInv'
<1>. DEFINE file == [id |-> Len(results), from |-> p, index |-> index]
<1>1. /\ pc = p /\ pc' = pc /\ Emit(FileFound(file)) /\ results' = Append(results, file)
      /\ UNCHANGED <<consumer, received>>
  BY DEF Report, other
<1>2. Places /\ results \in Seq(Files) /\ index \in Nat
  BY DEF ScanInv, Places, TypeOK
<1>3. file \in Files
  BY <1>2 DEF Files
<1>. HIDE DEF file
<1>4. pc \notin {"return", "done", "error"}
  BY <1>1 DEF Phases
<1>5. Closed'
  BY <1>1, <1>4 DEF Closed
<1>6. CASE consumer # "gone"
  BY <1>1, <1>2, <1>3, <1>4, <1>5, <1>6, StillListening, FileStreamed DEF SessionInv
<1>7. CASE consumer = "gone"
  BY <1>1, <1>5, <1>7 DEF SessionInv, Streamed
<1>. QED  BY <1>6, <1>7

\* Another event is told, and the scan goes on.
LEMMA EventStreamed ==
    ASSUME ScanInv, SessionInv, NEW e \in Events, e.type # "FileFound", Emit(e),
           pc \notin {"done", "error"}, UNCHANGED <<consumer, received, results>>
    PROVE  /\ Streamed'
           /\ consumer # "gone" => Len(Story') > 0 /\ Story'[Len(Story')] = e
<1>1. Places
  BY DEF ScanInv
<1>2. CASE consumer # "gone"
  <2>1. consumer = "listening"
    BY <1>1, <1>2, StillListening
  <2>2. Streamed'
    BY <1>1, <2>1, OtherStreamed DEF SessionInv
  <2>3. Len(Story') = Len(Story) + 1 /\ Story'[Len(Story) + 1] = e /\ Len(Story) \in Nat
    BY <1>1, <2>1, StoryGrows, StoryTyped
  <2>. QED  BY <2>2, <2>3
<1>3. CASE consumer = "gone"
  BY <1>3 DEF Streamed
<1>. QED  BY <1>2, <1>3

\* A step that tells nothing.
LEMMA QuietStreamed ==
    ASSUME SessionInv, UNCHANGED <<Story, results, state>>,
           consumer' # "gone" => consumer # "gone",
           pc' \in {"return", "done"} => pc \in {"return", "done"}
    PROVE  SessionInv'
<1>1. Streamed'
  BY StillStreamed DEF SessionInv
<1>2. Closed'
  BY DEF SessionInv, Closed, OutcomeEvent
<1>. QED  BY <1>1, <1>2 DEF SessionInv

LEMMA SessionInitInv == Init => SessionInv
<1>. SUFFICES ASSUME Init  PROVE SessionInv
  OBVIOUS
<1>1. Story = <<>> /\ Len(Story) = 0 /\ Len(results) = 0 /\ pc = "open"
  BY DEF Init, Story
<1>2. UpTo(0) = {}
  BY DEF UpTo
<1>3. Rank(0) = 0
  BY <1>2, FS_EmptySet DEF Rank
<1>4. Streamed
  BY <1>1, <1>2, <1>3 DEF Streamed
<1>. QED  BY <1>1, <1>4 DEF SessionInv, Closed

\* Every step keeps the stream and the session together.
LEMMA SessionNextInv ==
    ASSUME ScanInv, SessionInv, [Next]_vars
    PROVE  SessionInv'
<1>. USE DEF session, job, other
<1>0. Len(results) \in Nat /\ scanned \in Nat /\ Places
  BY DEF ScanInv, Places, TypeOK
<1>1. CASE \/ OpenFails \/ Enumerate \/ SkipCarving \/ CheckCancel \/ Return
            \/ Join \/ Cancel \/ UNCHANGED vars
  <2>1. UNCHANGED <<queue, received, results, state>> /\ (consumer' # "gone" => consumer # "gone")
    BY <1>1 DEF OpenFails, Enumerate, SkipCarving, CheckCancel, Return, Join, Cancel, vars
  <2>2. pc' \in {"return", "done"} => pc \in {"return", "done"}
    BY <1>1 DEF OpenFails, Enumerate, SkipCarving, CheckCancel, Return, Join, Cancel, vars
  <2>3. Story' = Story
    BY <2>1 DEF Story
  <2>. QED  BY <2>1, <2>2, <2>3, QuietStreamed
<1>2. CASE Receive
  BY <1>0, <1>2, StoryMoves, QuietStreamed DEF Receive
<1>3. CASE HangUp
  BY <1>3 DEF HangUp, SessionInv, Streamed, Closed
<1>4. CASE Report("metadata") \/ Report("carving")
  BY <1>4, ReportStreamed DEF Phases
<1>5. ASSUME NEW e \in Events, e.type # "FileFound", Emit(e), UNCHANGED <<consumer, received, results>>,
             pc \notin {"return", "done", "error"}, pc' \notin {"return", "done"}
      PROVE  SessionInv'
  BY <1>5, EventStreamed DEF SessionInv, Closed
<1>6. CASE \/ Open \/ EnumerateFails \/ EndMetadata \/ StartCarving \/ CarveChunk \/ EndCarving
  <2>1. /\ UNCHANGED <<consumer, received, results>>
        /\ pc \notin {"return", "done", "error"} /\ pc' \notin {"return", "done"}
    BY <1>6 DEF Open, EnumerateFails, EndMetadata, StartCarving, CarveChunk, EndCarving
  <2>2. \/ Emit(Started("metadata")) \/ Emit(FailedIn("metadata")) \/ Emit(Completed("metadata"))
        \/ Emit(Started("carving")) \/ Emit(Progress(scanned + 1)) \/ Emit(Completed("carving"))
    BY <1>6 DEF Open, EnumerateFails, EndMetadata, StartCarving, CarveChunk, EndCarving
  <2>3. /\ Started("metadata") \in Events /\ FailedIn("metadata") \in Events
        /\ Completed("metadata") \in Events /\ Started("carving") \in Events
        /\ Progress(scanned + 1) \in Events /\ Completed("carving") \in Events
    BY <1>0, EventsTyped DEF Phases
  <2>. QED  BY <1>5, <2>1, <2>2, <2>3, EventFields
<1>7. ASSUME NEW e \in Events, e.type # "FileFound", Emit(e), UNCHANGED <<consumer, received, results>>,
             pc \notin {"done", "error"}, e = OutcomeEvent',
             state' \in {"Complete", "Cancelled", "Failed"}
      PROVE  SessionInv'
  BY <1>7, EventStreamed DEF SessionInv, Closed
<1>8. CASE CarveFails
  <2>1. FailedIn("carving") \in Events /\ FailedIn("carving").type # "FileFound"
    BY EventsTyped, EventFields DEF Phases
  <2>2. FailedIn("carving") = OutcomeEvent'
    BY <1>8 DEF CarveFails, OutcomeEvent
  <2>. QED  BY <1>7, <1>8, <2>1, <2>2 DEF CarveFails
<1>9. CASE FinishCancelled
  <2>1. Stopped \in Events /\ Stopped.type # "FileFound"
    BY EventsTyped, EventFields
  <2>2. Stopped = OutcomeEvent'
    BY <1>9 DEF FinishCancelled, OutcomeEvent
  <2>. QED  BY <1>7, <1>9, <2>1, <2>2 DEF FinishCancelled
<1>10. CASE FinishComplete
  <2>1. AllDone(Len(results)) \in Events /\ AllDone(Len(results)).type # "FileFound"
    BY <1>0, EventsTyped, EventFields
  <2>2. AllDone(Len(results)) = OutcomeEvent'
    BY <1>10 DEF FinishComplete, OutcomeEvent
  <2>. QED  BY <1>7, <1>10, <2>1, <2>2 DEF FinishComplete
<1>. QED  BY <1>1, <1>2, <1>3, <1>4, <1>6, <1>8, <1>9, <1>10 DEF Next, Scan, Ended

LEMMA SessionInvariant == Spec => []SessionInv
<1>1. ScanInv /\ SessionInv /\ [Next]_vars => SessionInv'
  BY SessionNextInv
<1>. QED  BY <1>1, SessionInitInv, ScanInvariant, PTL DEF Spec

\* What the counting of places says of the files of a whole stream.
LEMMA FilesInOrder ==
    ASSUME Places, Streamed, consumer = "joined"
    PROVE  FilesIn(received) = results
<1>1. /\ queue = <<>> /\ received \in Seq(Events) /\ results \in Seq(Files) /\ consumer # "gone"
  BY DEF Places, TypeOK
<1>2. Story = received
  BY <1>1 DEF Story
<1>. DEFINE N == Len(Story)
            places == {i \in DOMAIN received : received[i].type = "FileFound"}
            at(n) == CHOOSE i \in places : Cardinality({j \in places : j <= i}) = n
<1>3. N \in Nat /\ DOMAIN received = 1 .. N /\ places = UpTo(N)
  BY <1>1, <1>2 DEF UpTo
<1>4. ASSUME NEW i \in places  PROVE {j \in places : j <= i} = UpTo(i)
  BY <1>2, <1>3, <1>4 DEF UpTo
<1>5. ASSUME NEW n \in 1 .. Len(results)  PROVE received[at(n)].file = results[n]
  <2>1. PICK i \in places : Rank(i) = n
    BY <1>1, <1>3 DEF Streamed
  <2>2. Cardinality({j \in places : j <= i}) = n
    BY <1>4, <2>1 DEF Rank
  <2>3. at(n) \in places /\ Cardinality({j \in places : j <= at(n)}) = n
    BY <2>1, <2>2
  <2>. HIDE DEF at, places
  <2>4. Rank(at(n)) = n
    BY <1>4, <2>3 DEF Rank
  <2>. QED  BY <1>1, <1>2, <1>3, <2>3, <2>4 DEF Streamed
<1>6. Cardinality(places) = Len(results)
  BY <1>1, <1>3 DEF Streamed, Rank
<1>7. FilesIn(received) = [n \in 1 .. Cardinality(places) |-> received[at(n)].file]
  BY Zenon DEF FilesIn
<1>8. results = [n \in 1 .. Len(results) |-> results[n]]
  BY <1>1
<1>. HIDE DEF at, places
<1>. QED  BY <1>5, <1>6, <1>7, <1>8

\* The consumer that joined a scan has seen its session: every file, in
\* order and once, and last the outcome with the count.
THEOREM StreamIsTheSession == Spec => []StreamMatchesSession
<1>1. ASSUME ScanInv, SessionInv, consumer = "joined", pc = "done"
      PROVE  /\ FilesIn(received) = results
             /\ received # <<>>
             /\ Last(received) = OutcomeEvent
  <2>1. Places /\ queue = <<>> /\ received \in Seq(Events) /\ consumer # "gone"
    BY <1>1 DEF ScanInv, Places, TypeOK
  <2>2. Story = received
    BY <2>1 DEF Story
  <2>3. FilesIn(received) = results
    BY <1>1, <2>1, FilesInOrder DEF SessionInv
  <2>4. Len(received) > 0 /\ received[Len(received)] = OutcomeEvent
    BY <1>1, <2>1, <2>2 DEF SessionInv, Closed
  <2>. QED  BY <2>1, <2>3, <2>4 DEF Last
<1>2. ScanInv /\ SessionInv => StreamMatchesSession
  BY <1>1 DEF StreamMatchesSession, OutcomeEvent
<1>. QED  BY <1>2, ScanInvariant, SessionInvariant, PTL
=============================================================================
