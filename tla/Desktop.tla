------------------------------- MODULE Desktop -------------------------------
(***************************************************************************)
(* The desktop window (desktop/frontend/index.html) over the commands it   *)
(* invokes (desktop/src-tauri/src/lib.rs, restora-api), the sessions they  *)
(* make, and the databases that keep them (SessionStore), which session-   *)
(* scan of the CLI writes too.  Every handler awaits its command, so the   *)
(* user goes on clicking and the answers come back in any order; closing   *)
(* the window forgets everything that is not in a database.                *)
(*                                                                         *)
(* A session is its id, its image and how many files it lists, numbered    *)
(* from 0 in every session; made tells apart sessions of the same id.      *)
(***************************************************************************)
EXTENDS Naturals, FiniteSets, TLC

CONSTANTS Images,          \* the image paths a user may type
          Dbs,             \* the database paths
          MaxFiles,        \* bound: files a scan may list
          MaxScans,        \* bound: scans ever started
          MaxCalls,        \* bound: commands in flight at a time
          MaxRestarts,     \* bound: times the window is closed and reopened
          SameMillisecond, \* may two scans start in the same millisecond?
          None             \* no path, no session: empty or undefined

Ids == 0 .. MaxScans
Sessions == [id : Ids, image : Images, files : 0 .. MaxFiles, made : Ids]

ASSUME DesktopAssumption ==
    /\ None \notin Images \union Dbs \union Sessions
    /\ MaxFiles \in Nat /\ MaxScans \in Nat
    /\ MaxCalls \in Nat /\ MaxRestarts \in Nat
    /\ SameMillisecond \in BOOLEAN

FilesOf(s) == 0 .. s.files - 1

VARIABLES path,      \* the image path input, None when empty
          db,        \* the database path input
          shown,     \* the session renderResults last rendered, or None
          selected,  \* selectedIds
          last,      \* window.__lastSession, None while undefined
          listed,    \* what the list's Load buttons hold: <<db, id>>
          calls,     \* the commands in flight
          rows,      \* the databases: db -> id -> session
          clock,     \* the millisecond of the last scan's start
          scans,     \* scans started
          restarts,  \* restarts so far
          saved,     \* history: <<db, session>> that save reported as saved
          ticked     \* history: <<session, file>> ticked in the window's life

window == <<path, db, shown, selected, last, listed, ticked>>
world == <<rows, clock, scans, restarts, saved>>
vars == <<window, calls, world>>

\* What opening a database that is not there makes of it: no sessions.
Created == [d \in Dbs |-> [id \in {} |-> None]]

Init == /\ path = None /\ db = None
        /\ shown = None /\ selected = {} /\ last = None
        /\ listed = {} /\ ticked = {}
        /\ calls = {}
        /\ rows = Created
        /\ clock = 0 /\ scans = 0 /\ restarts = 0
        /\ saved = {}

-----------------------------------------------------------------------------
(* The user types, ticks and clicks.                                       *)

Invoke(call) == /\ Cardinality(calls) < MaxCalls
                /\ calls' = calls \union {call}

TypePath(p) ==
    /\ path' = p
    /\ UNCHANGED <<db, shown, selected, last, listed, ticked, calls, world>>

TypeDb(d) ==
    /\ db' = d
    /\ UNCHANGED <<path, shown, selected, last, listed, ticked, calls, world>>

\* A row's checkbox changes.
Tick(f) ==
    /\ shown # None /\ f \in FilesOf(shown)
    /\ IF f \in selected
       THEN selected' = selected \ {f} /\ UNCHANGED ticked
       ELSE selected' = selected \union {f} /\ ticked' = ticked \union {<<shown, f>>}
    /\ UNCHANGED <<path, db, shown, last, listed, calls, world>>

\* A scan takes its id from the clock as it starts.
StartScan ==
    /\ scans < MaxScans
    /\ scans' = scans + 1
    /\ \/ clock' = clock + 1
       \/ SameMillisecond /\ clock > 0 /\ UNCHANGED clock
    /\ UNCHANGED <<window, rows, restarts, saved>>

\* quickScanBtn and deepScanBtn.
ClickScan ==
    /\ path # None
    /\ StartScan
    /\ Invoke([cmd |-> "scan", image |-> path, id |-> clock', made |-> scans'])

\* session-scan in a process of its own.
CliScan(image, d) ==
    /\ StartScan
    /\ Invoke([cmd |-> "cli", image |-> image, db |-> d, id |-> clock', made |-> scans'])

\* recoverBtn: the ticked files, and the path in the input.
ClickRecover ==
    /\ shown # None /\ selected # {}
    /\ Invoke([cmd |-> "recover", image |-> path, of |-> shown,
               files |-> FilesOf(shown) \intersect selected])
    /\ UNCHANGED <<window, world>>

\* saveSessionBtn.
ClickSave ==
    /\ last # None /\ db # None
    /\ Invoke([cmd |-> "save", db |-> db, session |-> last])
    /\ UNCHANGED <<window, world>>

\* listSessionsBtn.
ClickList ==
    /\ db # None
    /\ Invoke([cmd |-> "list", db |-> db])
    /\ UNCHANGED <<window, world>>

\* Slip: the button looks in the database the input names now.
ClickLoadFromInput(d, id) ==
    /\ <<d, id>> \in listed /\ db # None
    /\ Invoke([cmd |-> "load", db |-> db, id |-> id])
    /\ UNCHANGED <<window, world>>

\* A Load button of the list, made with the path the list came from.
ClickLoad(d, id) ==
    /\ <<d, id>> \in listed
    /\ Invoke([cmd |-> "load", db |-> d, id |-> id])
    /\ UNCHANGED <<window, world>>

-----------------------------------------------------------------------------
(* Commands are answered.                                                  *)

\* Slip: the selection outlives its table.
RenderKeepingSelection(s) == shown' = s /\ UNCHANGED selected

\* renderResults: a new table with nothing selected.
Render(s) == shown' = s /\ selected' = {}

\* Slip: a save replaces what the database holds.
SaveOverAll(d, s) ==
    /\ rows' = [rows EXCEPT ![d] = s.id :> s]
    /\ saved' = saved \union {<<d, s>>}

\* The upsert of save, one statement.
Save(d, s) ==
    /\ rows' = [rows EXCEPT ![d] = [id \in DOMAIN rows[d] \union {s.id} |->
                                       IF id = s.id THEN s ELSE rows[d][id]]]
    /\ saved' = saved \union {<<d, s>>}

\* Slip: only the first scan is kept for Save.
ScanKeepsFirst(call) ==
    /\ call.cmd = "scan"
    /\ \E n \in 0 .. MaxFiles :
          LET s == [id |-> call.id, image |-> call.image, files |-> n, made |-> call.made]
          IN  last' = (IF last = None THEN s ELSE last) /\ Render(s)
    /\ UNCHANGED <<path, db, listed, ticked, world>>

ScanSucceeds(call) ==
    /\ call.cmd = "scan"
    /\ \E n \in 0 .. MaxFiles :
          LET s == [id |-> call.id, image |-> call.image, files |-> n, made |-> call.made]
          IN  last' = s /\ Render(s)
    /\ UNCHANGED <<path, db, listed, ticked, world>>

CliScanSaves(call) ==
    /\ call.cmd = "cli"
    /\ \E n \in 0 .. MaxFiles :
          Save(call.db, [id |-> call.id, image |-> call.image, files |-> n, made |-> call.made])
    /\ UNCHANGED <<window, clock, scans, restarts>>

SaveSucceeds(call) ==
    /\ call.cmd = "save"
    /\ Save(call.db, call.session)
    /\ UNCHANGED <<window, clock, scans, restarts>>

\* list_summaries: every session of the database.
Summaries(d) == {<<d, id>> : id \in DOMAIN rows[d]}

\* The list is replaced by that of the database it was asked of.
ListSucceeds(call) ==
    /\ call.cmd = "list"
    /\ listed' = Summaries(call.db)
    /\ UNCHANGED <<path, db, shown, selected, last, ticked, world>>

\* Shows the loaded session; the path and the last scan stay as they are.
LoadSucceeds(call) ==
    /\ call.cmd = "load" /\ call.id \in DOMAIN rows[call.db]
    /\ Render(rows[call.db][call.id])
    /\ UNCHANGED <<path, db, last, listed, ticked, world>>

RecoverSucceeds(call) ==
    /\ call.cmd = "recover"
    /\ UNCHANGED <<window, world>>

\* Any command may fail: the status line says so, and that is all.
Fails(call) == UNCHANGED <<window, world>>

Answer(call) ==
    /\ calls' = calls \ {call}
    /\ \/ ScanSucceeds(call) \/ CliScanSaves(call) \/ SaveSucceeds(call)
       \/ ListSucceeds(call) \/ LoadSucceeds(call) \/ RecoverSucceeds(call)
       \/ Fails(call)

\* The app closes with its commands, done or not, and is opened again.
Restart ==
    /\ restarts < MaxRestarts
    /\ restarts' = restarts + 1
    /\ path' = None /\ db' = None
    /\ shown' = None /\ selected' = {} /\ last' = None
    /\ listed' = {} /\ ticked' = {}
    /\ calls' = {call \in calls : call.cmd = "cli"}
    /\ UNCHANGED <<rows, clock, scans, saved>>

Next == \/ \E p \in Images : TypePath(p)
        \/ \E d \in Dbs : TypeDb(d)
        \/ \E f \in 0 .. MaxFiles - 1 : Tick(f)
        \/ ClickScan
        \/ \E image \in Images, d \in Dbs : CliScan(image, d)
        \/ ClickRecover \/ ClickSave \/ ClickList
        \/ \E d \in Dbs, id \in Ids : ClickLoad(d, id)
        \/ \E call \in calls : Answer(call)
        \/ Restart

Spec == Init /\ [][Next]_vars

-----------------------------------------------------------------------------
TypeOK ==
    /\ path \in Images \union {None} /\ db \in Dbs \union {None}
    /\ shown \in Sessions \union {None} /\ last \in Sessions \union {None}
    /\ \A d \in Dbs : \A id \in DOMAIN rows[d] :
          rows[d][id] \in Sessions /\ rows[d][id].id = id
    /\ listed \subseteq Dbs \X Ids
    /\ selected \subseteq IF shown = None THEN {} ELSE FilesOf(shown)
    /\ saved \subseteq Dbs \X Sessions

\* Recovery is asked only of files the user ticked in the table they belong
\* to: file ids start again from 0 in every session, so a selection that
\* outlived its table would name files nobody chose.
RecoversOnlyTicked ==
    \A call \in calls : call.cmd = "recover" =>
        call.files # {} /\ {call.of} \X call.files \subseteq ticked

\* A listed session can be loaded, whatever the user typed and saved since
\* the list was asked for: its button looks where the list came from.
ListedCanBeLoaded ==
    \A call \in calls : call.cmd = "load" => call.id \in DOMAIN rows[call.db]

\* What was reported saved stays in its database as it was, through later
\* saves of other sessions by this window or another process, and restarts:
\* "nobody wants to lose results because the app closed" (session_store.rs).
SavedSessionsKept ==
    \A entry \in saved :
        LET d == entry[1]
            s == entry[2]
        IN  s.id \in DOMAIN rows[d] /\ rows[d][s.id] = s

\* The session on the screen is never one that is lost when the window closes
\* without a way to keep it: Save would store it, though Save knows only the
\* last scan, or a database holds it, in whatever order scans, loads and saves
\* are answered.
ShownCanBeKept ==
    \/ shown \in {None, last}
    \/ \E d \in Dbs : shown.id \in DOMAIN rows[d] /\ rows[d][shown.id] = shown

\* Files are recovered from the image they were found on, as the CLI's
\* session-recover does by opening session.image_path, since "everything
\* needed is carried in each file's RecoveryLocator" (recovery_job.rs).
RecoversFromOwnImage ==
    \A call \in calls : call.cmd = "recover" => call.image = call.of.image
=============================================================================
