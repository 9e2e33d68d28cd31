----------------------------- MODULE AppLifecycle -----------------------------
(***************************************************************************)
(* The application from one start to the next, and what becomes of the      *)
(* calls in between.                                                        *)
(*                                                                         *)
(*   state.rs, db/mod.rs          the start: quarantine, migration, sweep   *)
(*   commands/orphan_reconcile.rs  ... orphaned recordings and directories  *)
(*   app_window.rs                the close button, the menu, the tray      *)
(*   updater.rs, app_startup.rs   an update that installs itself when idle  *)
(*   commands/admin.rs            the wipe                                  *)
(*                                                                         *)
(* A recording and a pipeline are a step at their beginning and at their    *)
(* end here; CaptureSession and PipelineTasks have what lies between.       *)
(***************************************************************************)
EXTENDS Naturals, FiniteSets

CONSTANTS
    AppCalls,
    MaxStarts,  \* bound: starts of the application
    NoOne

ASSUME AppAssumption == NoOne \notin AppCalls /\ MaxStarts \in Nat \ {0}

VARIABLES
    phase,      \* of the process: "down", the steps of the start, "up"
    base,       \* app.db: its health, and call -> the status of its row
    aside,      \* calls with a row in an app.db.corrupt-* file
    folder,     \* call -> what its directory holds
    open,       \* whether the pool is open
    held,       \* the call of the recording session
    begins,     \* the call that start_recording begins, under the lock of the session
    ending,     \* the calls whose session stop_recording and the quit have taken
    working,    \* calls whose task runs
    todo,       \* what the present step of the start still has to look at
    window,     \* the main window; "asked": the menu or the tray told it to close
    leaving,    \* where graceful_shutdown is
    update,     \* whether the updater is past its question
    wiping,     \* where wipe_all_data is
    launches,   \* starts of the application
    used,       \* history: calls begun; an id is never used again
    removed,    \* history: calls that the user deleted or wiped
    emptied,    \* history: whether a damaged database was replaced
    left,       \* history: calls for which a write or a removal failed
    late        \* history: the call recorded since the updater asked; the one it cut

runVars == <<open, held, begins, ending, working, window, leaving, update, wiping>>
dataVars == <<base, aside, folder>>
pastVars == <<launches, used, removed, emptied, left>>
appVars == <<phase, dataVars, runVars, todo, pastVars, late>>

NoStop == [user |-> NoOne, quit |-> NoOne]
NoUpdate == [recorded |-> {}, cut |-> {}]

AppTypeOK ==
    /\ phase \in {"down", "opening", "sweeping", "orphans", "strays", "up"}
    /\ base.health \in {"sound", "damaged"}
    /\ base.row \in [AppCalls -> {"none", "recording", "processing", "ready", "failed"}]
    /\ folder \in [AppCalls -> {"nothing", "chunks", "short", "long"}]
    /\ aside \cup working \cup todo \cup used \cup removed \subseteq AppCalls
    /\ held \in AppCalls \cup {NoOne} /\ begins \in AppCalls \cup {NoOne}
    /\ window \in {"shown", "asked", "gone"}
    /\ leaving \in {"no", "take", "stop", "drain"} /\ update \in {"no", "applying"}

\* The process is gone, and with it all it held in memory.
Gone ==
    /\ phase' = "down" /\ open' = FALSE
    /\ held' = NoOne /\ begins' = NoOne /\ ending' = NoStop
    /\ working' = {} /\ todo' = {} /\ window' = "shown" /\ leaving' = "no"
    /\ update' = "no" /\ wiping' = "no"

AppInit ==
    /\ phase = "down" /\ open = FALSE
    /\ base = [health |-> "sound", row |-> [c \in AppCalls |-> "none"]]
    /\ aside = {} /\ folder = [c \in AppCalls |-> "nothing"]
    /\ held = NoOne /\ begins = NoOne /\ ending = NoStop
    /\ working = {} /\ todo = {} /\ window = "shown" /\ leaving = "no"
    /\ update = "no" /\ wiping = "no"
    /\ launches = 0 /\ used = {} /\ removed = {} /\ emptied = FALSE /\ left = {} /\ late = NoUpdate

Row(c) == base.row[c]
SetRow(c, status) == base' = [base EXCEPT !.row[c] = status]
SetDisk(c, holds) == folder' = [folder EXCEPT ![c] = holds]
-----------------------------------------------------------------------------
(* The start *)

InStart == UNCHANGED <<runVars, launches, used, removed>>

Launch ==
    /\ phase = "down" /\ launches < MaxStarts
    /\ phase' = "opening" /\ launches' = launches + 1
    /\ left' = {} /\ late' = NoUpdate
    /\ UNCHANGED <<dataVars, runVars, todo, used, removed, emptied>>

\* The directory of another build, a database of a newer one, a query that
\* fails: the application does not start and leaves all as it was.
StartRefused ==
    /\ phase \in {"opening", "sweeping"} /\ Gone
    /\ UNCHANGED <<dataVars, pastVars, late>>

\* quarantine_corrupt_db: the file and its WAL are renamed.  When that fails the
\* start goes on with the damaged file.
Quarantine ==
    /\ phase = "opening" /\ base.health = "damaged"
    /\ phase' = "sweeping"
    /\ \/ /\ aside' = aside \cup {c \in AppCalls : Row(c) # "none"}
          /\ base' = [health |-> "sound", row |-> [c \in AppCalls |-> "none"]]
          /\ emptied' = TRUE
       \/ UNCHANGED <<aside, base, emptied>>
    /\ UNCHANGED <<folder, todo, left, late>> /\ InStart

OpenDatabase ==
    /\ phase = "opening" /\ base.health = "sound"
    /\ phase' = "sweeping"
    /\ UNCHANGED <<dataVars, todo, emptied, left, late>> /\ InStart

\* sweep_stale_calls, and the list of orphaned recordings.
SweepStale ==
    /\ phase = "sweeping" /\ phase' = "orphans"
    /\ base' = [base EXCEPT !.row = [c \in AppCalls |-> IF @[c] = "processing" THEN "failed"
                                                         ELSE @[c]]]
    /\ todo' = {c \in AppCalls : Row(c) = "recording"}
    /\ UNCHANGED <<aside, folder, emptied, left, late>> /\ InStart

\* Mutant: the length is compared the other way round.
KeepsOrphanShort(c) == folder[c] # "long"

\* wav_duration_secs of the WAV in the directory itself.
KeepsOrphan(c) == folder[c] = "long"

\* reconcile_orphan_recordings; a write that fails leaves that one alone.
ReconcileOrphan(c) ==
    /\ phase = "orphans" /\ c \in todo /\ todo' = todo \ {c}
    /\ \/ KeepsOrphan(c) /\ SetRow(c, "failed") /\ UNCHANGED <<folder, left>>
       \/ /\ ~KeepsOrphan(c) /\ SetRow(c, "none")
          /\ \/ SetDisk(c, "nothing")
             \/ UNCHANGED folder
          /\ UNCHANGED left
       \/ UNCHANGED <<base, folder>> /\ left' = left \cup {c}
    /\ UNCHANGED <<phase, aside, emptied, late>> /\ InStart

HasDir(c) == folder[c] # "nothing"

\* remove_orphan_call_dirs: the directories without a row.
Strays == {c \in AppCalls : HasDir(c) /\ Row(c) = "none"}

\* Or the rows cannot be read, and nothing is removed.
LookForStrays ==
    /\ phase = "orphans" /\ todo = {}
    /\ \/ phase' = "strays" /\ todo' = Strays /\ UNCHANGED left
       \/ phase' = "strays" /\ todo' = {} /\ left' = left \cup Strays
    /\ UNCHANGED <<dataVars, emptied, late>> /\ InStart

RemoveStray(c) ==
    /\ phase = "strays" /\ c \in todo /\ todo' = todo \ {c}
    /\ \/ SetDisk(c, "nothing") /\ UNCHANGED left
       \/ left' = left \cup {c} /\ UNCHANGED folder
    /\ UNCHANGED <<phase, base, aside, emptied, late>> /\ InStart

Started ==
    /\ phase = "strays" /\ todo = {}
    /\ phase' = "up" /\ open' = TRUE
    /\ UNCHANGED <<dataVars, held, begins, ending, working, todo, window, leaving,
                   update, wiping, pastVars, late>>

StartUp ==
    \/ Launch \/ StartRefused \/ Quarantine \/ OpenDatabase \/ SweepStale \/ LookForStrays
    \/ \E c \in AppCalls : ReconcileOrphan(c) \/ RemoveStray(c)
    \/ Started
-----------------------------------------------------------------------------
(* What goes on meanwhile *)

InApp == UNCHANGED <<phase, aside, todo, launches, emptied>>
NoExit == UNCHANGED <<window, leaving, update, wiping>>

\* start_recording: the row first ...
InsertRow(c) ==
    /\ phase = "up" /\ open /\ held = NoOne /\ begins = NoOne /\ c \notin used
    /\ SetRow(c, "recording") /\ begins' = c /\ used' = used \cup {c}
    /\ InApp /\ NoExit
    /\ UNCHANGED <<folder, open, held, ending, working, removed, left, late>>

\* ... then the directory, for chunks or for one file, and the sidecar.  A sidecar
\* that does not start fails the row, a directory that cannot be made does not.
BeginSession ==
    /\ begins # NoOne /\ begins' = NoOne
    /\ \/ /\ \E holds \in {"chunks", "short"} : SetDisk(begins, holds)
          /\ held' = begins /\ UNCHANGED <<base, left>>
          /\ late' = IF update = "applying" THEN [late EXCEPT !.recorded = @ \cup {begins}]
                     ELSE late
       \/ /\ open /\ SetRow(begins, "failed")
          /\ \E holds \in {"chunks", "nothing"} : SetDisk(begins, holds)
          /\ UNCHANGED <<held, left, late>>
       \/ left' = left \cup {begins} /\ UNCHANGED <<base, folder, held, late>>
    /\ InApp /\ NoExit
    /\ UNCHANGED <<open, ending, working, used, removed>>

\* The sidecar writes on, also where a wipe has been.
RecordOn ==
    /\ held # NoOne /\ folder[held] \in {"short", "nothing"}
    /\ SetDisk(held, IF folder[held] = "short" THEN "long" ELSE "chunks")
    /\ InApp /\ NoExit
    /\ UNCHANGED <<base, open, held, begins, ending, working, used, removed, left,
                   late>>

\* stop_recording takes the session first ...
TakeHeld ==
    /\ held # NoOne /\ ending.user = NoOne
    /\ ending' = [ending EXCEPT !.user = held] /\ held' = NoOne
    /\ late' = NoUpdate
    /\ InApp /\ NoExit
    /\ UNCHANGED <<base, folder, open, begins, working, used, removed, left>>

\* ... and ends the row when the sidecar has stopped: short ones are discarded.
EndHeld ==
    LET c == ending.user IN
    /\ c # NoOne /\ ending' = [ending EXCEPT !.user = NoOne]
    /\ IF ~open THEN UNCHANGED <<base, folder, working>> /\ left' = left \cup {c}
       ELSE \/ /\ folder[c] # "long"
               /\ SetRow(c, "none") /\ UNCHANGED working
               /\ \/ SetDisk(c, "nothing") /\ UNCHANGED left
                  \/ UNCHANGED folder /\ left' = left \cup {c}
            \/ /\ SetRow(c, "processing") /\ working' = working \cup {c}
               /\ UNCHANGED <<folder, left>>
    /\ InApp /\ NoExit
    /\ UNCHANGED <<open, held, begins, used, removed, late>>

\* auto_recover_interrupted_calls, or the user: once more, if there is sound.
TaskBegins(c) ==
    /\ phase = "up" /\ open /\ Row(c) = "failed" /\ HasDir(c) /\ c \notin working
    /\ SetRow(c, "processing") /\ working' = working \cup {c}
    /\ InApp /\ NoExit
    /\ UNCHANGED <<folder, open, held, begins, ending, used, removed, left, late>>

\* The pipeline merges the chunks on its way.
TaskEnds(c) ==
    /\ c \in working
    /\ working' = working \ {c}
    /\ IF ~open THEN UNCHANGED <<base, folder>>
       ELSE /\ \E status \in {"ready", "failed"} : SetRow(c, status)
            /\ folder' \in {folder, [folder EXCEPT ![c] = IF @ = "chunks" THEN "long" ELSE @]}
    /\ InApp /\ NoExit
    /\ UNCHANGED <<open, held, begins, ending, used, removed, left, late>>

\* The directory may stay behind.
DeleteRow(c) ==
    /\ phase = "up" /\ open /\ Row(c) \in {"ready", "failed"} /\ c \notin working
    /\ SetRow(c, "none") /\ removed' = removed \cup {c}
    /\ \/ SetDisk(c, "nothing") /\ UNCHANGED left
       \/ UNCHANGED folder /\ left' = left \cup {c}
    /\ InApp /\ NoExit
    /\ UNCHANGED <<open, held, begins, ending, working, used, late>>

\* wipe_all_data: the pool, the calls, the files of the database.
WipeCloses ==
    /\ phase = "up" /\ open /\ wiping = "no"
    /\ open' = FALSE /\ wiping' = "calls" /\ removed' = used
    /\ InApp /\ UNCHANGED <<window, leaving, update>>
    /\ UNCHANGED <<base, folder, held, begins, ending, working, used, left, late>>

WipeCalls ==
    /\ wiping = "calls" /\ wiping' = "base"
    /\ \/ folder' = [c \in AppCalls |-> "nothing"] /\ UNCHANGED left
       \/ UNCHANGED folder /\ left' = left \cup {c \in AppCalls : HasDir(c)}
    /\ InApp /\ UNCHANGED <<window, leaving, update>>
    /\ UNCHANGED <<base, open, held, begins, ending, working, used, removed, late>>

WipeBase ==
    /\ wiping = "base" /\ wiping' = "done"
    /\ base' = [health |-> "sound", row |-> [c \in AppCalls |-> "none"]]
    /\ InApp /\ UNCHANGED <<window, leaving, update>>
    /\ UNCHANGED <<folder, open, held, begins, ending, working, used, removed, left,
                   late>>
-----------------------------------------------------------------------------
(* The end *)

OnlyExit == UNCHANGED <<phase, dataVars, open, begins, todo, wiping, pastVars>>
Exit == Gone /\ UNCHANGED <<dataVars, pastVars, late>>
WindowGoes(to) ==
    /\ window' = to /\ OnlyExit /\ UNCHANGED <<late, held, ending, working, leaving, update>>

\* The menu and the tray: the flag, then the window is shown and told to close; when
\* it is gone they leave at once.
PressQuit ==
    \/ phase = "up" /\ window = "shown" /\ WindowGoes("asked")
    \/ phase = "up" /\ window = "gone" /\ Exit

\* CloseRequested with the flag set (without it the window only hides).  With no
\* session the window closes; the process ends with it, or lives on for the
\* widget's window and the tray.
CloseRequested ==
    /\ phase = "up" /\ window = "asked" /\ begins = NoOne
    /\ \/ /\ held # NoOne /\ leaving' = IF leaving = "no" THEN "take" ELSE leaving
          /\ window' = "shown"
          /\ OnlyExit /\ UNCHANGED <<late, held, ending, working, update>>
       \/ held = NoOne /\ Exit
       \/ held = NoOne /\ WindowGoes("gone")

Leaves(to) ==
    /\ leaving' = to
    /\ UNCHANGED <<phase, aside, folder, open, begins, working, todo, window, update, wiping,
                   launches, used, removed, emptied>>

\* graceful_shutdown: the session, if a stop has not taken it meanwhile ...
TakeLast ==
    /\ leaving = "take" /\ begins = NoOne
    /\ Leaves(IF held = NoOne THEN "drain" ELSE "stop")
    /\ ending' = [ending EXCEPT !.quit = held] /\ held' = NoOne
    /\ late' = NoUpdate /\ UNCHANGED <<base, left>>

\* ... its row stays as it is, unless the sidecar fails to stop ...
StopLast ==
    /\ leaving = "stop" /\ Leaves("drain")
    /\ ending' = [ending EXCEPT !.quit = NoOne] /\ left' = left \cup {ending.quit}
    /\ \/ UNCHANGED base
       \/ open /\ SetRow(ending.quit, "failed")
    /\ UNCHANGED <<held, late>>

\* ... then it waits eight seconds for each of the tasks, done or not.
DrainTasks == leaving = "drain" /\ Exit

\* The process is killed, maybe while it writes the database.
Crash ==
    /\ phase # "down" /\ Gone
    /\ base' \in {base, [base EXCEPT !.health = "damaged"]}
    /\ UNCHANGED <<aside, folder, pastVars, late>>
-----------------------------------------------------------------------------
(* Updates *)

UpdateGoes(at) ==
    /\ update' = at /\ late' = NoUpdate /\ OnlyExit
    /\ UNCHANGED <<held, ending, working, window, leaving>>

\* is_safe_to_restart, with the lock of the session; the quit has emptied the
\* registry of the tasks that it waits for.
SafeToRestart == begins = NoOne /\ held = NoOne /\ (working = {} \/ leaving = "drain")

\* A mandatory update, asked for once; the download comes after the answer.
InstallWhenIdle == phase = "up" /\ update = "no" /\ SafeToRestart /\ UpdateGoes("applying")

UpdateFails == update = "applying" /\ UpdateGoes("no")

RestartUpdated ==
    /\ update = "applying" /\ Gone
    /\ late' = IF held # NoOne THEN [late EXCEPT !.cut = {held}] ELSE late
    /\ UNCHANGED <<dataVars, pastVars>>

\* apply_update, an update the user asked for, does not ask.
ApplyUpdate == phase = "up" /\ Exit
-----------------------------------------------------------------------------
AppNext ==
    \/ StartUp
    \/ \E c \in AppCalls : InsertRow(c) \/ TaskBegins(c) \/ TaskEnds(c) \/ DeleteRow(c)
    \/ BeginSession \/ RecordOn \/ TakeHeld \/ EndHeld
    \/ WipeCloses \/ WipeCalls \/ WipeBase
    \/ PressQuit \/ CloseRequested
    \/ TakeLast \/ StopLast \/ DrainTasks \/ Crash
    \/ InstallWhenIdle \/ UpdateFails \/ RestartUpdated \/ ApplyUpdate

AppSpec == AppInit /\ [][AppNext]_appVars
-----------------------------------------------------------------------------
(* Properties *)

\* However the application ends and starts, a call with half a minute of sound in
\* its directory stays until the user deletes it: its row is in the database, or
\* in the copy that was put aside; and unless a damaged database was replaced (the
\* same start then takes the directories of its calls for strays) so is its sound.
LongCallKept(c) ==
    c \in used \ removed /\ folder[c] = "long" => Row(c) # "none" \/ c \in aside
RowHasSound ==
    \A c \in used \ removed :
        /\ LongCallKept(c)
        /\ Row(c) \in {"processing", "ready"} /\ ~emptied => HasDir(c)

\* Once it has started, no row tells of work that nobody does, and no directory is
\* without a row, except where a write or a removal failed.
SettledAfterStart ==
    phase = "up" /\ open => \A c \in AppCalls \ left :
        /\ Row(c) = "recording" => c \in {held, begins, ending.user, ending.quit}
        /\ Row(c) = "processing" => c \in working
        /\ HasDir(c) => Row(c) # "none"

\* An update that installs itself cuts off no recording that was there when it
\* asked (one whose session comes while it downloads it does).
UpdateWaits == late.cut \subseteq late.recorded

StartsClean == AppTypeOK /\ RowHasSound /\ SettledAfterStart /\ UpdateWaits
=============================================================================
