---------------------------- MODULE DesktopProofs ----------------------------
(***************************************************************************)
(* Proofs about the window and the databases, for any number of images,    *)
(* databases, files, scans, commands in flight and restarts.               *)
(***************************************************************************)
EXTENDS Desktop, TLAPS

-----------------------------------------------------------------------------
(* The inductive invariant                                                 *)

\* The sessions there are: on the screen, kept for Save, on the way to a
\* database, in one, or reported as saved.
Kept == {s \in Sessions :
            \/ s = shown \/ s = last
            \/ \E call \in calls : call.cmd = "save" /\ call.session = s
            \/ \E d \in Dbs : \E id \in DOMAIN rows[d] : rows[d][id] = s
            \/ \E entry \in saved : entry[2] = s}

\* The scans under way.
Scanning == {call \in calls : call.cmd \in {"scan", "cli"}}

CallOK(call) ==
    \/ call.cmd = "scan" /\ call.image \in Images /\ call.id \in Ids /\ call.made \in Ids
    \/ /\ call.cmd = "cli" /\ call.image \in Images /\ call.db \in Dbs
       /\ call.id \in Ids /\ call.made \in Ids
    \/ call.cmd = "recover" /\ call.files # {} /\ {call.of} \X call.files \subseteq ticked
    \/ call.cmd = "save" /\ call.db \in Dbs /\ call.session \in Sessions
    \/ call.cmd = "list" /\ call.db \in Dbs
    \/ call.cmd = "load" /\ call.db \in Dbs /\ call.id \in DOMAIN rows[call.db]

Typed ==
    /\ TypeOK
    /\ rows \in [Dbs -> UNION {[I -> Sessions] : I \in SUBSET Ids}]
    /\ clock \in Nat /\ scans \in Nat /\ clock <= scans /\ scans <= MaxScans
    /\ \A call \in calls : CallOK(call)

\* What is ticked now was ticked in the table that is shown.
SelectedTicked == shown # None => {shown} \X selected \subseteq ticked

\* What is listed is there.
ListedThere == \A entry \in listed : entry[2] \in DOMAIN rows[entry[1]]

\* The clock has moved on from every id given out, and no id is given twice.
IdsApart ==
    /\ \A s \in Kept : s.id <= clock
    /\ \A s, t \in Kept : s.id = t.id => s = t
    /\ \A call \in Scanning : call.id <= clock
    /\ \A call \in Scanning, s \in Kept : call.id # s.id
    /\ \A c, e \in Scanning : c.id = e.id => c = e

WindowInv == Typed /\ SelectedTicked /\ ListedThere

-----------------------------------------------------------------------------
(* WindowInv is inductive                                                  *)

RowsType == [Dbs -> UNION {[I -> Sessions] : I \in SUBSET Ids}]

\* Databases only gain ids.
RowsGrow == /\ rows' \in RowsType
            /\ \A d \in Dbs : DOMAIN rows[d] \subseteq DOMAIN rows'[d]

LEMMA InitInv == Init => WindowInv
<1>. SUFFICES ASSUME Init PROVE WindowInv
  OBVIOUS
<1>. USE DesktopAssumption DEF Init, Created
<1>1. \A d \in Dbs : DOMAIN rows[d] = {} /\ rows[d] \in [{} -> Sessions]
  OBVIOUS
<1>2. rows \in [Dbs -> UNION {[I -> Sessions] : I \in SUBSET Ids}]
  BY <1>1
<1>3. TypeOK
  BY <1>1 DEF TypeOK
<1>. QED  BY <1>2, <1>3 DEF WindowInv, Typed, SelectedTicked, ListedThere

\* The upsert gives a database one id and takes none.
LEMMA SaveGrows ==
    ASSUME rows \in RowsType, NEW d \in Dbs, NEW s \in Sessions, Save(d, s)
    PROVE  /\ RowsGrow
           /\ DOMAIN rows'[d] = DOMAIN rows[d] \union {s.id}
           /\ rows'[d][s.id] = s
           /\ \A id \in DOMAIN rows[d] : id # s.id => rows'[d][id] = rows[d][id]
           /\ \A e \in Dbs : e # d => rows'[e] = rows[e]
<1>. DEFINE new == [id \in DOMAIN rows[d] \union {s.id} |-> IF id = s.id THEN s ELSE rows[d][id]]
<1>1. s.id \in Ids
  BY DEF Sessions
<1>2. PICK I \in SUBSET Ids : rows[d] \in [I -> Sessions]
  BY DEF RowsType
<1>3. new \in [I \union {s.id} -> Sessions] /\ I \union {s.id} \in SUBSET Ids
  BY <1>1, <1>2
<1>4. new \in UNION {[J -> Sessions] : J \in SUBSET Ids}
  BY <1>3
<1>5. rows' = [rows EXCEPT ![d] = new]
  BY DEF Save
<1>6. rows' \in RowsType
  BY <1>4, <1>5 DEF RowsType
<1>7. rows'[d] = new /\ \A e \in Dbs : e # d => rows'[e] = rows[e]
  BY <1>5 DEF RowsType
<1>. HIDE DEF new
<1>8. DOMAIN new = DOMAIN rows[d] \union {s.id}
  BY DEF new
<1>9. new[s.id] = s /\ \A id \in DOMAIN rows[d] : id # s.id => new[id] = rows[d][id]
  BY DEF new
<1>. QED  BY <1>6, <1>7, <1>8, <1>9 DEF RowsGrow

\* Commands stay in order when nothing is untucked and no session is lost.
LEMMA CallsStay ==
    ASSUME Typed, RowsGrow, calls' \subseteq calls, ticked \subseteq ticked'
    PROVE  \A call \in calls' : CallOK(call)'
  BY DEF Typed, RowsGrow, CallOK

LEMMA ListStays ==
    ASSUME WindowInv, RowsGrow, listed' = listed
    PROVE  ListedThere'
  BY DEF WindowInv, Typed, TypeOK, ListedThere, RowsGrow

\* A command is added that is in order.
LEMMA Invoked ==
    ASSUME WindowInv, NEW call, Invoke(call), CallOK(call), UNCHANGED <<window, rows>>
    PROVE  \A c \in calls' : CallOK(c)'
  BY DEF WindowInv, Typed, Invoke, CallOK, window

\* Nothing changes that the invariant speaks of, but what is invoked.
LEMMA QuietInv ==
    ASSUME WindowInv, UNCHANGED <<window, rows, saved>>,
           clock' \in Nat, scans' \in Nat, clock' <= scans', scans' <= MaxScans,
           \A c \in calls' : CallOK(c)'
    PROVE  WindowInv'
  BY DEF WindowInv, Typed, TypeOK, SelectedTicked, ListedThere, window

\* A scan begins under the next tick of the clock, or the same one.
LEMMA StartScanInv ==
    ASSUME WindowInv, StartScan, NEW image \in Images, NEW call, Invoke(call),
           \/ call = [cmd |-> "scan", image |-> image, id |-> clock', made |-> scans']
           \/ \E d \in Dbs :
                 call = [cmd |-> "cli", image |-> image, db |-> d, id |-> clock', made |-> scans']
    PROVE  WindowInv'
<1>. USE DesktopAssumption
<1>1. /\ clock \in Nat /\ scans \in Nat /\ clock <= scans /\ scans < MaxScans
      /\ scans' = scans + 1
      /\ clock' = clock + 1 \/ clock' = clock
  BY DEF StartScan, WindowInv, Typed
<1>2. clock' \in Ids /\ scans' \in Ids /\ clock' <= scans' /\ clock' \in Nat
      /\ scans' \in Nat /\ scans' <= MaxScans
  BY <1>1 DEF Ids
<1>3. CallOK(call)
  BY <1>2 DEF CallOK
<1>4. UNCHANGED <<window, rows, saved>>
  BY DEF StartScan
<1>5. \A c \in calls' : CallOK(c)'
  BY <1>3, <1>4, Invoked
<1>. QED  BY <1>2, <1>4, <1>5, QuietInv

\* A table is rendered: nothing in it is selected yet.
LEMMA RenderInv ==
    ASSUME WindowInv, NEW s \in Sessions, Render(s), calls' \subseteq calls,
           last' \in Sessions \union {None}, UNCHANGED <<path, db, listed, ticked, world>>
    PROVE  WindowInv'
<1>1. RowsGrow
  BY DEF WindowInv, Typed, RowsGrow, RowsType, world
<1>2. \A c \in calls' : CallOK(c)'
  BY <1>1, CallsStay DEF WindowInv
<1>3. ListedThere'
  BY <1>1, ListStays
<1>4. SelectedTicked'
  BY DEF Render, SelectedTicked
<1>5. TypeOK'
  BY DEF WindowInv, Typed, TypeOK, Render, world
<1>. QED  BY <1>2, <1>3, <1>4, <1>5 DEF WindowInv, Typed, world

\* A session is saved.
LEMMA SaveInv ==
    ASSUME WindowInv, NEW d \in Dbs, NEW s \in Sessions, Save(d, s), calls' \subseteq calls,
           UNCHANGED <<window, clock, scans, restarts>>
    PROVE  WindowInv'
<1>1. RowsGrow
  BY SaveGrows DEF WindowInv, Typed, RowsType
<1>2. \A c \in calls' : CallOK(c)'
  BY <1>1, CallsStay DEF WindowInv, window
<1>3. ListedThere'
  BY <1>1, ListStays DEF window
<1>4. \A e \in Dbs : \A id \in DOMAIN rows'[e] : rows'[e][id] \in Sessions /\ rows'[e][id].id = id
  <2>. SUFFICES ASSUME NEW e \in Dbs, NEW id \in DOMAIN rows'[e]
                PROVE  rows'[e][id] \in Sessions /\ rows'[e][id].id = id
    OBVIOUS
  <2>1. \A j \in DOMAIN rows[e] : rows[e][j] \in Sessions /\ rows[e][j].id = j
    BY DEF WindowInv, Typed, TypeOK
  <2>. QED  BY <2>1, SaveGrows DEF WindowInv, Typed, RowsType
<1>5. saved' \subseteq Dbs \X Sessions
  BY DEF Save, WindowInv, Typed, TypeOK
<1>6. TypeOK'
  BY <1>4, <1>5 DEF WindowInv, Typed, TypeOK, window
<1>7. SelectedTicked'
  BY DEF WindowInv, SelectedTicked, window
<1>. QED  BY <1>1, <1>2, <1>3, <1>6, <1>7 DEF WindowInv, Typed, RowsGrow, RowsType, window

LEMMA WindowNextInv ==
    ASSUME WindowInv, [Next]_vars
    PROVE  WindowInv'
<1>. USE DesktopAssumption
<1>1. ASSUME NEW p \in Images, TypePath(p)  PROVE WindowInv'
  BY <1>1 DEF TypePath, WindowInv, Typed, TypeOK, SelectedTicked, ListedThere, CallOK, world
<1>2. ASSUME NEW d \in Dbs, TypeDb(d)  PROVE WindowInv'
  BY <1>2 DEF TypeDb, WindowInv, Typed, TypeOK, SelectedTicked, ListedThere, CallOK, world
<1>3. ASSUME NEW f \in 0 .. MaxFiles - 1, Tick(f)  PROVE WindowInv'
  <2>1. /\ shown # None /\ f \in FilesOf(shown) /\ shown' = shown
        /\ \/ selected' = selected \ {f} /\ ticked' = ticked
           \/ selected' = selected \union {f} /\ ticked' = ticked \union {<<shown, f>>}
    BY <1>3 DEF Tick
  <2>2. UNCHANGED <<path, db, last, listed, calls, world>>
    BY <1>3 DEF Tick
  <2>3. RowsGrow
    BY <2>2 DEF WindowInv, Typed, RowsGrow, RowsType, world
  <2>4. \A c \in calls' : CallOK(c)'
    BY <2>1, <2>2, <2>3, CallsStay DEF WindowInv
  <2>5. SelectedTicked'
    BY <2>1 DEF WindowInv, SelectedTicked
  <2>6. TypeOK'
    BY <2>1, <2>2 DEF WindowInv, Typed, TypeOK, world
  <2>. QED  BY <2>2, <2>3, <2>4, <2>5, <2>6, ListStays DEF WindowInv, Typed, world
<1>4. CASE ClickScan
  <2>1. path \in Images
    BY <1>4 DEF ClickScan, WindowInv, Typed, TypeOK
  <2>. QED  BY <1>4, <2>1, StartScanInv DEF ClickScan
<1>5. ASSUME NEW image \in Images, NEW d \in Dbs, CliScan(image, d)  PROVE WindowInv'
  BY <1>5, StartScanInv DEF CliScan
<1>6. CASE ClickRecover
  <2>. DEFINE call == [cmd |-> "recover", image |-> path, of |-> shown,
                       files |-> FilesOf(shown) \intersect selected]
  <2>1. Invoke(call) /\ UNCHANGED <<window, world>> /\ shown # None /\ selected # {}
    BY <1>6 DEF ClickRecover
  <2>2. FilesOf(shown) \intersect selected = selected
    BY <2>1 DEF WindowInv, Typed, TypeOK
  <2>3. CallOK(call)
    BY <2>1, <2>2 DEF CallOK, WindowInv, SelectedTicked
  <2>. HIDE DEF call
  <2>4. \A c \in calls' : CallOK(c)'
    BY <2>1, <2>3, Invoked DEF world
  <2>. QED  BY <2>1, <2>4, QuietInv DEF WindowInv, Typed, world
<1>7. CASE ClickSave
  <2>. DEFINE call == [cmd |-> "save", db |-> db, session |-> last]
  <2>1. Invoke(call) /\ UNCHANGED <<window, world>> /\ last # None /\ db # None
    BY <1>7 DEF ClickSave
  <2>2. CallOK(call)
    BY <2>1 DEF CallOK, WindowInv, Typed, TypeOK
  <2>. HIDE DEF call
  <2>3. \A c \in calls' : CallOK(c)'
    BY <2>1, <2>2, Invoked DEF world
  <2>. QED  BY <2>1, <2>3, QuietInv DEF WindowInv, Typed, world
<1>8. CASE ClickList
  <2>. DEFINE call == [cmd |-> "list", db |-> db]
  <2>1. Invoke(call) /\ UNCHANGED <<window, world>> /\ db # None
    BY <1>8 DEF ClickList
  <2>2. CallOK(call)
    BY <2>1 DEF CallOK, WindowInv, Typed, TypeOK
  <2>. HIDE DEF call
  <2>3. \A c \in calls' : CallOK(c)'
    BY <2>1, <2>2, Invoked DEF world
  <2>. QED  BY <2>1, <2>3, QuietInv DEF WindowInv, Typed, world
<1>9. ASSUME NEW d \in Dbs, NEW id \in Ids, ClickLoad(d, id)  PROVE WindowInv'
  <2>. DEFINE call == [cmd |-> "load", db |-> d, id |-> id]
  <2>1. Invoke(call) /\ UNCHANGED <<window, world>> /\ <<d, id>> \in listed
    BY <1>9 DEF ClickLoad
  <2>2. id \in DOMAIN rows[d]
    BY <2>1 DEF WindowInv, ListedThere
  <2>3. CallOK(call)
    BY <2>2 DEF CallOK
  <2>. HIDE DEF call
  <2>4. \A c \in calls' : CallOK(c)'
    BY <2>1, <2>3, Invoked DEF world
  <2>. QED  BY <2>1, <2>4, QuietInv DEF WindowInv, Typed, world
<1>10. ASSUME NEW call \in calls, Answer(call)  PROVE WindowInv'
  <2>1. calls' \subseteq calls
    BY <1>10 DEF Answer
  <2>2. CallOK(call)
    BY DEF WindowInv, Typed
  <2>3. CASE ScanSucceeds(call)
    <3>1. PICK n \in 0 .. MaxFiles :
             LET s == [id |-> call.id, image |-> call.image, files |-> n, made |-> call.made]
             IN  last' = s /\ Render(s)
      BY <2>3 DEF ScanSucceeds
    <3>. DEFINE s == [id |-> call.id, image |-> call.image, files |-> n, made |-> call.made]
    <3>2. call.cmd = "scan" /\ UNCHANGED <<path, db, listed, ticked, world>>
      BY <2>3 DEF ScanSucceeds
    <3>3. s \in Sessions
      BY <2>2, <3>2 DEF CallOK, Sessions
    <3>4. last' = s /\ Render(s)
      BY <3>1
    <3>. HIDE DEF s
    <3>. QED  BY <2>1, <3>2, <3>3, <3>4, RenderInv
  <2>4. CASE CliScanSaves(call)
    <3>1. PICK n \in 0 .. MaxFiles :
             Save(call.db, [id |-> call.id, image |-> call.image, files |-> n, made |-> call.made])
      BY <2>4 DEF CliScanSaves
    <3>. DEFINE s == [id |-> call.id, image |-> call.image, files |-> n, made |-> call.made]
    <3>2. call.cmd = "cli" /\ UNCHANGED <<window, clock, scans, restarts>>
      BY <2>4 DEF CliScanSaves
    <3>3. s \in Sessions /\ call.db \in Dbs
      BY <2>2, <3>2 DEF CallOK, Sessions
    <3>4. Save(call.db, s)
      BY <3>1
    <3>. HIDE DEF s
    <3>. QED  BY <2>1, <3>2, <3>3, <3>4, SaveInv
  <2>5. CASE SaveSucceeds(call)
    <3>1. call.db \in Dbs /\ call.session \in Sessions
      BY <2>2, <2>5 DEF SaveSucceeds, CallOK
    <3>. QED  BY <2>1, <2>5, <3>1, SaveInv DEF SaveSucceeds
  <2>6. CASE ListSucceeds(call)
    <3>1. call.db \in Dbs /\ listed' = Summaries(call.db)
          /\ UNCHANGED <<path, db, shown, selected, last, ticked, world>>
      BY <2>2, <2>6 DEF ListSucceeds, CallOK
    <3>2. DOMAIN rows[call.db] \subseteq Ids
      BY <3>1 DEF WindowInv, Typed
    <3>3. listed' \subseteq Dbs \X Ids /\ \A entry \in listed' : entry[2] \in DOMAIN rows[entry[1]]
      BY <3>1, <3>2 DEF Summaries
    <3>4. ListedThere'
      BY <3>1, <3>3 DEF ListedThere, world
    <3>5. RowsGrow
      BY <3>1 DEF WindowInv, Typed, RowsGrow, RowsType, world
    <3>6. \A c \in calls' : CallOK(c)'
      BY <2>1, <3>1, <3>5, CallsStay DEF WindowInv
    <3>7. SelectedTicked'
      BY <3>1 DEF WindowInv, SelectedTicked
    <3>8. TypeOK'
      BY <3>1, <3>3 DEF WindowInv, Typed, TypeOK, world
    <3>. QED  BY <3>1, <3>4, <3>6, <3>7, <3>8 DEF WindowInv, Typed, world
  <2>7. CASE LoadSucceeds(call)
    <3>1. call.db \in Dbs /\ call.id \in DOMAIN rows[call.db]
      BY <2>2, <2>7 DEF LoadSucceeds, CallOK
    <3>2. rows[call.db][call.id] \in Sessions
      BY <3>1 DEF WindowInv, Typed, TypeOK
    <3>3. last' \in Sessions \union {None}
      BY <2>7 DEF LoadSucceeds, WindowInv, Typed, TypeOK
    <3>. QED  BY <2>1, <2>7, <3>2, <3>3, RenderInv DEF LoadSucceeds
  <2>8. CASE RecoverSucceeds(call) \/ Fails(call)
    <3>1. UNCHANGED <<window, world>>
      BY <2>8 DEF RecoverSucceeds, Fails
    <3>2. RowsGrow
      BY <3>1 DEF WindowInv, Typed, RowsGrow, RowsType, world
    <3>3. \A c \in calls' : CallOK(c)'
      BY <2>1, <3>1, <3>2, CallsStay DEF WindowInv, window
    <3>. QED  BY <3>1, <3>3, QuietInv DEF WindowInv, Typed, world
  <2>. QED  BY <1>10, <2>3, <2>4, <2>5, <2>6, <2>7, <2>8 DEF Answer
<1>11. CASE Restart
  <2>1. \A c \in calls' : c \in calls /\ c.cmd = "cli"
    BY <1>11 DEF Restart
  <2>2. \A c \in calls' : CallOK(c)'
    BY <1>11, <2>1 DEF Restart, WindowInv, Typed, CallOK
  <2>3. TypeOK'
    BY <1>11 DEF Restart, WindowInv, Typed, TypeOK
  <2>. QED  BY <1>11, <2>2, <2>3 DEF Restart, WindowInv, Typed, SelectedTicked, ListedThere
<1>12. CASE UNCHANGED vars
  <2>1. \A c \in calls' : CallOK(c)'
    BY <1>12 DEF vars, window, world, WindowInv, Typed, CallOK
  <2>. QED  BY <1>12, <2>1, QuietInv DEF WindowInv, Typed, vars, world
<1>. QED  BY <1>1, <1>2, <1>3, <1>4, <1>5, <1>6, <1>7, <1>8, <1>9, <1>10, <1>11, <1>12 DEF Next

THEOREM WindowInvariant == Spec => []WindowInv
  BY InitInv, WindowNextInv, PTL DEF Spec

\* Every variable keeps its type, and a session its id.
THEOREM WindowTypes == Spec => []TypeOK
<1>1. WindowInv => TypeOK
  BY DEF WindowInv, Typed
<1>. QED  BY <1>1, WindowInvariant, PTL

\* Recovery is asked only of files that were ticked in their own table.
THEOREM OnlyTickedAreRecovered == Spec => []RecoversOnlyTicked
<1>1. WindowInv => RecoversOnlyTicked
  BY DEF WindowInv, Typed, CallOK, RecoversOnlyTicked
<1>. QED  BY <1>1, WindowInvariant, PTL

\* A load is asked only of a session that is there.
THEOREM ListedAreThere == Spec => []ListedCanBeLoaded
<1>1. WindowInv => ListedCanBeLoaded
  BY DEF WindowInv, Typed, CallOK, ListedCanBeLoaded
<1>. QED  BY <1>1, WindowInvariant, PTL

-----------------------------------------------------------------------------
(* Scans that start in different milliseconds                              *)

\* Nothing kept is forgotten or mixed up.
KeepInv == WindowInv /\ IdsApart /\ SavedSessionsKept /\ ShownCanBeKept

LEMMA KeptTyped ==
    ASSUME WindowInv
    PROVE  /\ \A s \in Kept : s.id \in Nat
           /\ \A call \in Scanning : call.id \in Nat /\ CallOK(call)
<1>1. \A s \in Kept : s.id \in Ids
  BY DEF Kept, Sessions
<1>2. \A call \in Scanning : CallOK(call)
  BY DEF Scanning, WindowInv, Typed
<1>3. \A call \in Scanning : call.id \in Ids
  BY <1>2 DEF Scanning, CallOK
<1>. QED  BY <1>1, <1>2, <1>3, DesktopAssumption DEF Ids

\* No session and no scan appears.
LEMMA ApartStays ==
    ASSUME WindowInv, IdsApart, Kept' \subseteq Kept, Scanning' \subseteq Scanning, clock' = clock
    PROVE  IdsApart'
  BY KeptTyped DEF IdsApart

\* A scan begins, under an id nobody has.
LEMMA ApartBegins ==
    ASSUME WindowInv, IdsApart, Kept' \subseteq Kept, NEW call,
           Scanning' \subseteq Scanning \union {call}, clock' = clock + 1, call.id = clock'
    PROVE  IdsApart'
<1>1. clock \in Nat
  BY DEF WindowInv, Typed
<1>2. \A s \in Kept : s.id \in Nat /\ s.id <= clock
  BY KeptTyped DEF IdsApart
<1>3. \A c \in Scanning : c.id \in Nat /\ c.id <= clock
  BY KeptTyped DEF IdsApart
<1>4. \A s \in Kept' : s.id <= clock'
  BY <1>1, <1>2
<1>5. \A c \in Scanning' : c.id <= clock'
  BY <1>1, <1>3
<1>6. \A c \in Scanning', s \in Kept' : c.id # s.id
  BY <1>1, <1>2 DEF IdsApart
<1>7. \A c, e \in Scanning' : c.id = e.id => c = e
  BY <1>1, <1>3 DEF IdsApart
<1>. QED  BY <1>4, <1>5, <1>6, <1>7 DEF IdsApart

\* A scan becomes the session of its id.
LEMMA ApartEnds ==
    ASSUME WindowInv, IdsApart, NEW s, NEW call \in Scanning, s.id = call.id,
           Kept' \subseteq Kept \union {s}, Scanning' \subseteq Scanning \ {call}, clock' = clock
    PROVE  IdsApart'
<1>1. \A t \in Kept' : t.id <= clock'
  BY DEF IdsApart
<1>2. \A t, u \in Kept' : t.id = u.id => t = u
  BY DEF IdsApart
<1>3. \A c \in Scanning' : c.id <= clock'
  BY DEF IdsApart
<1>4. \A c \in Scanning', t \in Kept' : c.id # t.id
  BY DEF IdsApart
<1>5. \A c, e \in Scanning' : c.id = e.id => c = e
  BY DEF IdsApart
<1>. QED  BY <1>1, <1>2, <1>3, <1>4, <1>5 DEF IdsApart

\* A save takes no other session from a database.
LEMMA SaveKeeps ==
    ASSUME WindowInv, SavedSessionsKept, ShownCanBeKept, NEW d \in Dbs, NEW s \in Sessions,
           Save(d, s), UNCHANGED <<shown, last>>, calls' \subseteq calls,
           \A t \in Kept : t.id = s.id => t = s
    PROVE  SavedSessionsKept' /\ ShownCanBeKept' /\ Kept' \subseteq Kept \union {s}
<1>1. /\ DOMAIN rows'[d] = DOMAIN rows[d] \union {s.id}
      /\ rows'[d][s.id] = s
      /\ \A id \in DOMAIN rows[d] : id # s.id => rows'[d][id] = rows[d][id]
      /\ \A e \in Dbs : e # d => rows'[e] = rows[e]
  BY SaveGrows DEF WindowInv, Typed, RowsType
<1>2. saved' = saved \union {<<d, s>>} /\ saved \subseteq Dbs \X Sessions
  BY DEF Save, WindowInv, Typed, TypeOK
<1>3. SavedSessionsKept'
  <2>. SUFFICES ASSUME NEW entry \in saved'
                PROVE  /\ entry[2].id \in DOMAIN rows'[entry[1]]
                       /\ rows'[entry[1]][entry[2].id] = entry[2]
    BY DEF SavedSessionsKept
  <2>1. CASE entry = <<d, s>>
    BY <1>1, <2>1
  <2>2. CASE entry \in saved
    <3>1. entry[1] \in Dbs /\ entry[2] \in Sessions
      BY <1>2, <2>2
    <3>2. entry[2].id \in DOMAIN rows[entry[1]] /\ rows[entry[1]][entry[2].id] = entry[2]
      BY <2>2 DEF SavedSessionsKept
    <3>3. entry[2] \in Kept
      BY <2>2, <3>1 DEF Kept
    <3>4. entry[2].id = s.id => entry[2] = s
      BY <3>3
    <3>. QED  BY <1>1, <3>1, <3>2, <3>4
  <2>. QED  BY <1>2, <2>1, <2>2
<1>4. ShownCanBeKept'
  <2>1. CASE shown \in {None, last}
    BY <2>1 DEF ShownCanBeKept
  <2>2. CASE shown \notin {None, last}
    <3>1. PICK e \in Dbs : shown.id \in DOMAIN rows[e] /\ rows[e][shown.id] = shown
      BY <2>2 DEF ShownCanBeKept
    <3>2. shown \in Kept
      BY <2>2 DEF Kept, WindowInv, Typed, TypeOK
    <3>3. shown.id = s.id => shown = s
      BY <3>2
    <3>4. shown.id \in DOMAIN rows'[e] /\ rows'[e][shown.id] = shown
      BY <1>1, <3>1, <3>3
    <3>. QED  BY <3>4 DEF ShownCanBeKept
  <2>. QED  BY <2>1, <2>2
<1>5. Kept' \subseteq Kept \union {s}
  <2>. SUFFICES ASSUME NEW t \in Kept', t # s  PROVE t \in Kept
    OBVIOUS
  <2>1. \/ t = shown \/ t = last
        \/ \E call \in calls : call.cmd = "save" /\ call.session = t
        \/ \E e \in Dbs : \E id \in DOMAIN rows'[e] : rows'[e][id] = t
        \/ \E entry \in saved' : entry[2] = t
    BY DEF Kept
  <2>2. t \in Sessions
    BY DEF Kept
  <2>3. ASSUME NEW e \in Dbs, NEW id \in DOMAIN rows'[e], rows'[e][id] = t
        PROVE  id \in DOMAIN rows[e] /\ rows[e][id] = t
    BY <1>1, <2>3
  <2>4. ASSUME NEW entry \in saved', entry[2] = t
        PROVE  entry \in saved
    BY <1>2, <2>4
  <2>. QED  BY <2>1, <2>2, <2>3, <2>4 DEF Kept
<1>. QED  BY <1>3, <1>4, <1>5

\* Nothing is shown, kept or scanned that was not.
LEMMA SameKept ==
    ASSUME KeepInv, UNCHANGED <<shown, last, rows, saved, clock>>,
           Scanning' \subseteq Scanning,
           \A c \in calls' : c.cmd = "save" => c \in calls \/ c.session = last
    PROVE  IdsApart' /\ SavedSessionsKept' /\ ShownCanBeKept'
<1>1. Kept' \subseteq Kept
  BY DEF Kept
<1>2. IdsApart'
  BY <1>1, ApartStays DEF KeepInv
<1>. QED  BY <1>2 DEF KeepInv, SavedSessionsKept, ShownCanBeKept

\* A command other than a scan is invoked.
LEMMA OtherInvoked ==
    ASSUME KeepInv, NEW call, Invoke(call), call.cmd \in {"recover", "save", "list", "load"},
           call.cmd = "save" => call.session = last, UNCHANGED <<window, world>>
    PROVE  IdsApart' /\ SavedSessionsKept' /\ ShownCanBeKept'
<1>1. Scanning' \subseteq Scanning
  BY DEF Scanning, Invoke
<1>2. \A c \in calls' : c.cmd = "save" => c \in calls \/ c.session = last
  BY DEF Invoke
<1>. QED  BY <1>1, <1>2, SameKept DEF window, world

LEMMA ScanInvoked ==
    ASSUME KeepInv, ~ SameMillisecond, StartScan, NEW call, Invoke(call),
           call.cmd \in {"scan", "cli"}, call.id = clock'
    PROVE  IdsApart' /\ SavedSessionsKept' /\ ShownCanBeKept'
<1>1. clock' = clock + 1 /\ UNCHANGED <<window, rows, saved>>
  BY DEF StartScan
<1>2. Scanning' \subseteq Scanning \union {call}
  BY DEF Scanning, Invoke
<1>3. Kept' \subseteq Kept
  BY <1>1 DEF Kept, Invoke, window
<1>4. IdsApart'
  BY <1>1, <1>2, <1>3, ApartBegins DEF KeepInv
<1>. QED  BY <1>1, <1>4 DEF KeepInv, SavedSessionsKept, ShownCanBeKept, window

LEMMA KeepNextInv ==
    ASSUME KeepInv, ~ SameMillisecond, [Next]_vars
    PROVE  KeepInv'
<1>0. WindowInv'
  BY WindowNextInv DEF KeepInv
<1>. SUFFICES IdsApart' /\ SavedSessionsKept' /\ ShownCanBeKept'
  BY <1>0 DEF KeepInv
<1>1. CASE \/ \E p \in Images : TypePath(p)
           \/ \E d \in Dbs : TypeDb(d)
           \/ \E f \in 0 .. MaxFiles - 1 : Tick(f)
           \/ UNCHANGED vars
  <2>1. UNCHANGED <<shown, last, calls, world>>
    BY <1>1 DEF TypePath, TypeDb, Tick, vars, window
  <2>. QED  BY <2>1, SameKept DEF Scanning, world
<1>2. CASE ClickScan
  BY <1>2, ScanInvoked DEF ClickScan
<1>3. ASSUME NEW image \in Images, NEW d \in Dbs, CliScan(image, d)
      PROVE  IdsApart' /\ SavedSessionsKept' /\ ShownCanBeKept'
  BY <1>3, ScanInvoked DEF CliScan
<1>4. CASE ClickRecover
  BY <1>4, OtherInvoked DEF ClickRecover
<1>5. CASE ClickSave
  BY <1>5, OtherInvoked DEF ClickSave
<1>6. CASE ClickList
  BY <1>6, OtherInvoked DEF ClickList
<1>7. ASSUME NEW d \in Dbs, NEW id \in Ids, ClickLoad(d, id)
      PROVE  IdsApart' /\ SavedSessionsKept' /\ ShownCanBeKept'
  BY <1>7, OtherInvoked DEF ClickLoad
<1>8. ASSUME NEW call \in calls, Answer(call)
      PROVE  IdsApart' /\ SavedSessionsKept' /\ ShownCanBeKept'
  <2>1. calls' = calls \ {call} /\ CallOK(call) /\ Scanning' = Scanning \ {call}
    BY <1>8 DEF Answer, KeepInv, WindowInv, Typed, Scanning
  <2>2. CASE ScanSucceeds(call)
    <3>1. PICK n \in 0 .. MaxFiles :
             LET s == [id |-> call.id, image |-> call.image, files |-> n, made |-> call.made]
             IN  last' = s /\ Render(s)
      BY <2>2 DEF ScanSucceeds
    <3>. DEFINE s == [id |-> call.id, image |-> call.image, files |-> n, made |-> call.made]
    <3>2. last' = s /\ shown' = s /\ s.id = call.id
      BY <3>1 DEF Render
    <3>3. call.cmd = "scan" /\ UNCHANGED world
      BY <2>2 DEF ScanSucceeds
    <3>. HIDE DEF s
    <3>4. call \in Scanning
      BY <3>3 DEF Scanning
    <3>5. Kept' \subseteq Kept \union {s}
      BY <2>1, <3>2, <3>3 DEF Kept, world
    <3>6. IdsApart'
      BY <2>1, <3>2, <3>3, <3>4, <3>5, ApartEnds DEF KeepInv, world
    <3>. QED  BY <3>2, <3>3, <3>6 DEF KeepInv, SavedSessionsKept, ShownCanBeKept, world
  <2>3. CASE CliScanSaves(call)
    <3>1. PICK n \in 0 .. MaxFiles :
             Save(call.db, [id |-> call.id, image |-> call.image, files |-> n, made |-> call.made])
      BY <2>3 DEF CliScanSaves
    <3>. DEFINE s == [id |-> call.id, image |-> call.image, files |-> n, made |-> call.made]
    <3>2. call.cmd = "cli" /\ UNCHANGED <<window, clock, scans, restarts>>
      BY <2>3 DEF CliScanSaves
    <3>3. s \in Sessions /\ call.db \in Dbs /\ s.id = call.id
      BY <2>1, <3>2 DEF CallOK, Sessions
    <3>4. Save(call.db, s)
      BY <3>1
    <3>. HIDE DEF s
    <3>5. call \in Scanning
      BY <3>2 DEF Scanning
    <3>6. \A t \in Kept : t.id # s.id
      BY <3>3, <3>5 DEF KeepInv, IdsApart
    <3>7. SavedSessionsKept' /\ ShownCanBeKept' /\ Kept' \subseteq Kept \union {s}
      BY <2>1, <3>2, <3>3, <3>4, <3>6, SaveKeeps DEF KeepInv, window
    <3>8. IdsApart'
      BY <2>1, <3>2, <3>3, <3>5, <3>7, ApartEnds DEF KeepInv
    <3>. QED  BY <3>7, <3>8
  <2>4. CASE SaveSucceeds(call)
    <3>1. /\ call.cmd = "save" /\ Save(call.db, call.session)
          /\ UNCHANGED <<window, clock, scans, restarts>>
      BY <2>4 DEF SaveSucceeds
    <3>2. call.db \in Dbs /\ call.session \in Sessions
      BY <2>1, <3>1 DEF CallOK
    <3>3. call.session \in Kept
      BY <3>1, <3>2 DEF Kept
    <3>4. \A t \in Kept : t.id = call.session.id => t = call.session
      BY <3>3 DEF KeepInv, IdsApart
    <3>5. SavedSessionsKept' /\ ShownCanBeKept' /\ Kept' \subseteq Kept \union {call.session}
      BY <2>1, <3>1, <3>2, <3>4, SaveKeeps DEF KeepInv, window
    <3>6. IdsApart'
      BY <2>1, <3>1, <3>3, <3>5, ApartStays DEF KeepInv
    <3>. QED  BY <3>5, <3>6
  <2>5. CASE LoadSucceeds(call)
    <3>1. /\ call.cmd = "load" /\ call.id \in DOMAIN rows[call.db]
          /\ shown' = rows[call.db][call.id] /\ UNCHANGED <<last, world>>
      BY <2>5 DEF LoadSucceeds, Render
    <3>2. call.db \in Dbs
      BY <2>1, <3>1 DEF CallOK
    <3>3. shown' \in Sessions /\ shown'.id = call.id
      BY <3>1, <3>2 DEF KeepInv, WindowInv, Typed, TypeOK
    <3>4. shown' \in Kept
      BY <3>1, <3>2, <3>3 DEF Kept
    <3>5. Kept' \subseteq Kept
      BY <2>1, <3>1, <3>4 DEF Kept, world
    <3>6. IdsApart'
      BY <2>1, <3>1, <3>5, ApartStays DEF KeepInv, world
    <3>. QED  BY <3>1, <3>2, <3>3, <3>6 DEF KeepInv, SavedSessionsKept, ShownCanBeKept, world
  <2>6. CASE ListSucceeds(call) \/ RecoverSucceeds(call) \/ Fails(call)
    <3>1. UNCHANGED <<shown, last, world>>
      BY <2>6 DEF ListSucceeds, RecoverSucceeds, Fails, window
    <3>. QED  BY <2>1, <3>1, SameKept DEF world
  <2>. QED  BY <1>8, <2>2, <2>3, <2>4, <2>5, <2>6 DEF Answer
<1>9. CASE Restart
  <2>1. /\ shown' = None /\ last' = None /\ calls' \subseteq calls
        /\ UNCHANGED <<rows, clock, saved>>
    BY <1>9 DEF Restart
  <2>2. Kept' \subseteq Kept
    <3>1. None \notin Kept'
      BY DesktopAssumption DEF Kept, Sessions
    <3>. QED  BY <2>1, <3>1 DEF Kept
  <2>3. IdsApart'
    BY <2>1, <2>2, ApartStays DEF KeepInv, Scanning
  <2>. QED  BY <2>1, <2>3 DEF KeepInv, SavedSessionsKept, ShownCanBeKept
<1>. QED  BY <1>1, <1>2, <1>3, <1>4, <1>5, <1>6, <1>7, <1>8, <1>9 DEF Next

LEMMA KeepInvariant ==
    ASSUME ~ SameMillisecond
    PROVE  Spec => []KeepInv
<1>1. Init => KeepInv
  <2>. SUFFICES ASSUME Init  PROVE KeepInv
    OBVIOUS
  <2>1. WindowInv
    BY InitInv
  <2>2. Kept = {}
    BY DesktopAssumption DEF Init, Created, Kept
  <2>. QED  BY <2>1, <2>2 DEF KeepInv, IdsApart, Scanning, SavedSessionsKept,
                                    ShownCanBeKept, Init
<1>2. KeepInv /\ [Next]_vars => KeepInv'
  BY KeepNextInv
<1>. QED  BY <1>1, <1>2, PTL DEF Spec

\* If no two scans start in one millisecond, what was reported saved stays as
\* it was.
THEOREM SavedAreKept ==
    ASSUME ~ SameMillisecond
    PROVE  Spec => []SavedSessionsKept
<1>1. KeepInv => SavedSessionsKept
  BY DEF KeepInv
<1>. QED  BY <1>1, KeepInvariant, PTL

\* If no two scans start in one millisecond, the session on the screen is the
\* one Save would store, or is in a database.
THEOREM ShownIsKept ==
    ASSUME ~ SameMillisecond
    PROVE  Spec => []ShownCanBeKept
<1>1. KeepInv => ShownCanBeKept
  BY DEF KeepInv
<1>. QED  BY <1>1, KeepInvariant, PTL
=============================================================================
