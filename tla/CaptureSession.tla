---------------------------- MODULE CaptureSession ----------------------------
(***************************************************************************)
(* The recording session of the application and the commands on it.        *)
(*                                                                         *)
(*   commands/recording.rs     start, stop, pause, resume, their order     *)
(*   commands/silence.rs       the automatic stop                          *)
(*   audio/macos.rs            the sidecar's process, seen from the session *)
(*   db/calls/lifecycle.rs,                                                *)
(*   db/calls/pause.rs         the row of the recording                    *)
(*   audio/wav_trim.rs,                                                    *)
(*   pipeline/local_run.rs     the cut of the silent tail                  *)
(*                                                                         *)
(* A command is a sequence of critical sections on five mutexes of AppState *)
(* (session, the three handles of the orchestrator, silence watch) and     *)
(* statements on the database; between any two another command may run.    *)
(* When the watch decides is SilenceWatch's subject, when the orchestrator *)
(* rotates RotationWindow's.                                               *)
(***************************************************************************)
EXTENDS Naturals, FiniteSets

CONSTANTS
    Recs,       \* recordings
    Cmds,       \* bound: commands in flight at a time
    Nobody,
    MaxIssued,  \* bound: commands in all
    MinTicks,   \* MIN_RECORDING_SEC
    MaxNow      \* bound: the clock

ASSUME CaptureAssumption ==
    /\ Nobody \notin Recs \cup Cmds \cup Nat
    /\ {MaxIssued, MinTicks, MaxNow} \subseteq Nat

VARIABLES
    session,    \* AppState.recording
    lock,       \* the start that holds its mutex across awaits
    row,        \* calls.status
    pausedAt, pausedTotal, seconds,  \* calls.paused_at, paused_total_ms, duration_sec
    trimAt,     \* calls.silence_trim_ms
    device,     \* the sidecar of each recording
    orchSlot,   \* AppState.orchestrator and its two senders: whose they are
    watchSlot,  \* the recording whose silence watch runs
    cmd,        \* the commands: op, where it is, the recording and handles it
                \* took, its cut and (history) the audio captured up to the cut
    live,       \* update_duration_from_rotate: the value about to be written
    waits,      \* the orchestrator the finalize task waits for
    wav,        \* length of the audio on disk
    voiced,     \* history: what a recording held when it ended, up to the cut
    now, since, startedAt,
    issued,     \* bound: the commands so far
    overlapped, \* history: two of the commands and updates were in flight together
    fault       \* bound: the one fault so far, of a sidecar or of a write to
                \* the database or the file system

rowVars == <<row, pausedAt, pausedTotal, seconds, trimAt>>
slotVars == <<orchSlot, watchSlot>>
timeVars == <<now, since, startedAt>>
countVars == <<issued, overlapped>>
endVars == <<waits, voiced>>
captureVars == <<session, lock, rowVars, device, slotVars, cmd, live, endVars, wav, timeVars,
                 countVars, fault>>

Times == 0..MaxNow
NoCmd == [op |-> "none", at |-> "idle", rec |-> Nobody, held |-> Nobody, cut |-> Nobody,
          voice |-> 0]

CaptureTypeOK ==
    /\ session \in Recs \cup {Nobody} /\ lock \in Cmds \cup {Nobody}
    /\ row \in [Recs -> {"none", "recording", "processing", "failed", "deleted"}]
    /\ {pausedAt, trimAt, live} \subseteq [Recs -> Times \cup {Nobody}]
    /\ {pausedTotal, seconds, wav, voiced, since, startedAt} \subseteq [Recs -> Times]
    /\ device \in [Recs -> {"off", "on", "paused", "dead"}]
    /\ {orchSlot, watchSlot} \subseteq Recs \cup {Nobody}
    /\ cmd \in [Cmds -> [op : {"none", "start", "stop", "auto", "pause", "resume"},
                         at : {"idle", "audio", "spawnorch", "enter", "takeorch", "takewatch",
                               "device", "row", "write", "pauserow"},
                         rec : Recs \cup {Nobody}, held : Recs \cup {Nobody},
                         cut : Times \cup {Nobody}, voice : Times]]
    /\ waits \in [Recs -> Recs \cup {Nobody}]
    /\ now \in Times
    /\ issued \in 0..MaxIssued /\ overlapped \in BOOLEAN /\ fault \in {"none", "device", "write"}

CaptureInit ==
    /\ session = Nobody /\ lock = Nobody
    /\ row = [c \in Recs |-> "none"]
    /\ pausedAt = [c \in Recs |-> Nobody] /\ pausedTotal = [c \in Recs |-> 0]
    /\ seconds = [c \in Recs |-> 0] /\ trimAt = [c \in Recs |-> Nobody]
    /\ device = [c \in Recs |-> "off"]
    /\ orchSlot = Nobody /\ watchSlot = Nobody
    /\ cmd = [r \in Cmds |-> NoCmd]
    /\ live = [c \in Recs |-> Nobody]
    /\ waits = [c \in Recs |-> Nobody]
    /\ wav = [c \in Recs |-> 0] /\ voiced = [c \in Recs |-> 0]
    /\ now = 0 /\ since = [c \in Recs |-> 0] /\ startedAt = [c \in Recs |-> 0]
    /\ issued = 0 /\ overlapped = FALSE /\ fault = "none"

Idle == \A r \in Cmds : cmd[r] = NoCmd
AtRest == Idle /\ \A c \in Recs : live[c] = Nobody
Minus(a, b) == IF a > b THEN a - b ELSE 0       \* saturating_sub, max(0)
Least(a, b) == IF a < b THEN a ELSE b
Alive(c) == device[c] \in {"on", "paused"}

\* The session's mutex is free; whether a command begins now.
Unlocked == lock = Nobody
Begins(r) ==
    /\ cmd[r] = NoCmd
    /\ issued < MaxIssued /\ issued' = issued + 1
    /\ overlapped' = (overlapped \/ ~AtRest)

Fault(kind) == fault = "none" /\ fault' = kind
Failed == fault = "write"
Breaks(c) == IF Alive(c) THEN Fault("device") ELSE UNCHANGED fault

At(r, where) == cmd[r].at = where
Go(r, where) == cmd' = [cmd EXCEPT ![r].at = where]
Ends(r) == cmd' = [cmd EXCEPT ![r] = NoCmd]
-----------------------------------------------------------------------------
(* start_recording.  One that is refused, because a session exists, a        *)
(* permission is missing or the row is not inserted, changes nothing.        *)

\* The session's mutex stays locked from here to the sidecar's answer.  The
\* silence watch, if the setting wants one, is up before the sidecar; one whose
\* handles are overwritten ends, its sender is gone.
StartInsert(r, c) ==
    /\ Begins(r) /\ Unlocked /\ session = Nobody /\ row[c] = "none"
    /\ row' = [row EXCEPT ![c] = "recording"]
    /\ lock' = r
    /\ cmd' = [cmd EXCEPT ![r] = [NoCmd EXCEPT !.op = "start", !.at = "audio", !.rec = c]]
    /\ watchSlot' \in {c, watchSlot}
    /\ UNCHANGED <<session, pausedAt, pausedTotal, seconds, trimAt, device, orchSlot, live,
                   endVars, wav, timeVars, fault>>

\* chunks/0 cannot be created: the command returns, the row and the watch stay.
StartDirFails(r) ==
    /\ At(r, "audio")
    /\ lock' = Nobody /\ Fault("write")
    /\ Ends(r)
    /\ UNCHANGED <<session, rowVars, device, slotVars, live, endVars, wav, timeVars, countVars>>

StartOk(r) ==
    LET c == cmd[r].rec IN
    /\ At(r, "audio")
    /\ session' = c /\ lock' = Nobody
    /\ device' = [device EXCEPT ![c] = "on"]
    /\ startedAt' = [startedAt EXCEPT ![c] = now]
    /\ since' = [since EXCEPT ![c] = now]
    /\ Go(r, "spawnorch") \/ Ends(r)   \* in chunks or not
    /\ UNCHANGED <<rowVars, slotVars, live, endVars, wav, now, countVars, fault>>

\* Mutant: the child of a start that failed is kept.
StartFailsKeepsChild(r) ==
    LET c == cmd[r].rec IN
    /\ At(r, "audio")
    /\ row' = [row EXCEPT ![c] = "failed"]
    /\ device' = [device EXCEPT ![c] = "on"]
    /\ watchSlot' = Nobody /\ lock' = Nobody
    /\ Ends(r)
    /\ UNCHANGED <<session, pausedAt, pausedTotal, seconds, trimAt, orchSlot, live, endVars,
                   wav, timeVars, countVars, fault>>

\* No `started` in time, or an error: the child is dropped and exits; the row
\* is failed, if that write goes through, and the watch is ended.
StartFails(r) ==
    LET c == cmd[r].rec IN
    /\ At(r, "audio")
    /\ \/ row' = [row EXCEPT ![c] = "failed"] /\ Fault("device")
       \/ Fault("write") /\ UNCHANGED row
    /\ watchSlot' = Nobody /\ lock' = Nobody
    /\ Ends(r)
    /\ UNCHANGED <<session, pausedAt, pausedTotal, seconds, trimAt, device, orchSlot, live,
                   endVars, wav, timeVars, countVars>>

\* spawn_orchestrator, outside the session's mutex: the handles of whoever is
\* there are overwritten.
SpawnOrchestrator(r) ==
    /\ At(r, "spawnorch")
    /\ orchSlot' = cmd[r].rec
    /\ Ends(r)
    /\ UNCHANGED <<session, lock, rowVars, device, watchSlot, live, endVars, wav, timeVars,
                   countVars, fault>>
-----------------------------------------------------------------------------
(* stop_recording_inner, by hand and by the silence watch *)

\* The watch's decision, with a cut after the last resume: it spawns the
\* automatic stop and ends.
Decide(r, c) ==
    /\ Begins(r) /\ watchSlot = c /\ device[c] = "on"
    /\ \E t \in since[c]..now :
         cmd' = [cmd EXCEPT ![r] = [NoCmd EXCEPT !.op = "auto", !.at = "enter",
                                                 !.cut = t - startedAt[c],
                                                 !.voice = wav[c] - (now - t)]]
    /\ watchSlot' = Nobody
    /\ UNCHANGED <<session, lock, rowVars, device, orchSlot, live, endVars, wav, timeVars,
                   fault>>

\* auto_stop looks first: nothing is being recorded, or the setting was
\* changed to "never" meanwhile.
AutoStopVain(r) ==
    /\ At(r, "enter") /\ Unlocked
    /\ Ends(r)
    /\ UNCHANGED <<session, lock, rowVars, device, slotVars, live, endVars, wav, timeVars,
                   countVars, fault>>

\* Who takes the session: a stop by hand, or an automatic one that is allowed to.
Stopping(r) ==
    \/ /\ Begins(r) /\ Unlocked
       /\ cmd' = [cmd EXCEPT ![r] = [NoCmd EXCEPT !.op = "stop", !.at = "takeorch",
                                                 !.rec = session]]
    \/ /\ At(r, "enter") /\ Unlocked
       /\ cmd' = [cmd EXCEPT ![r].at = "takeorch", ![r].rec = session]
       /\ UNCHANGED countVars

\* Mutant: the session is looked at and stays until the sidecar has stopped.
TakeSessionLate(r) ==
    /\ session # Nobody /\ Stopping(r)
    /\ UNCHANGED <<session, lock, rowVars, device, slotVars, live, endVars, wav, timeVars, fault>>

\* guard.take()
TakeSession(r) ==
    /\ session # Nobody /\ Stopping(r)
    /\ session' = Nobody
    /\ UNCHANGED <<lock, rowVars, device, slotVars, live, endVars, wav, timeVars, fault>>

\* stop_tx, the handle and pause_tx, whoever's they are; the task they belong
\* to is told to end.
TakeOrchestrator(r) ==
    /\ At(r, "takeorch")
    /\ cmd' = [cmd EXCEPT ![r].at = "takewatch", ![r].held = orchSlot]
    /\ orchSlot' = Nobody
    /\ UNCHANGED <<session, lock, rowVars, device, watchSlot, live, endVars, wav, timeVars,
                   countVars, fault>>

\* stop_silence_watch
StopWatch(r) ==
    /\ At(r, "takewatch")
    /\ watchSlot' = Nobody
    /\ Go(r, "device")
    /\ UNCHANGED <<session, lock, rowVars, device, orchSlot, live, endVars, wav, timeVars,
                   countVars, fault>>

\* The dispatcher ends, with it the channel of the watch: the watch ends too.
DeviceEnds(c, how) ==
    /\ device' = [device EXCEPT ![c] = how]
    /\ since' = [since EXCEPT ![c] = 0]
    /\ watchSlot' = IF watchSlot = c THEN Nobody ELSE watchSlot

StopDevice(r) ==
    /\ At(r, "device") /\ Alive(cmd[r].rec)
    /\ DeviceEnds(cmd[r].rec, "off")
    /\ Go(r, "row")
    /\ UNCHANGED <<session, lock, rowVars, orchSlot, live, endVars, wav, now, startedAt,
                   countVars, fault>>

\* The command cannot be written, no `stopped` in time, `error`, or the
\* sidecar is dead: the session is dropped, its child exits, the row is failed.
StopDeviceFails(r) ==
    LET c == cmd[r].rec IN
    /\ At(r, "device")
    /\ DeviceEnds(c, "dead")
    /\ \/ /\ row' = [row EXCEPT ![c] = IF @ = "recording" THEN "failed" ELSE @]
          /\ Breaks(c)
       \/ Fault("write") /\ UNCHANGED row
    /\ Ends(r)
    /\ UNCHANGED <<session, lock, pausedAt, pausedTotal, seconds, trimAt, orchSlot, live,
                   endVars, wav, now, startedAt, countVars>>

Elapsed(c) == now - startedAt[c]

\* An open pause counts, although the row folds it only later.
PausedTicks(c) == pausedTotal[c] + (IF pausedAt[c] = Nobody THEN 0 ELSE now - pausedAt[c])

\* Mutant: a pause that is still open is not counted.
EffectiveTicksOpenPause(r) == Minus(Elapsed(cmd[r].rec), pausedTotal[cmd[r].rec])

EffectiveTicks(r) ==
    LET c == cmd[r].rec
        end == IF cmd[r].cut = Nobody THEN Elapsed(c) ELSE Least(cmd[r].cut, Elapsed(c))
    IN  Minus(end, PausedTicks(c))

\* is_accidental_tap: over wall-clock time, not over the shortened length.
IsAccidentalTap(r) == Minus(Elapsed(cmd[r].rec), PausedTicks(cmd[r].rec)) < MinTicks

\* Row first; the directory only when that went through.
DiscardTap(r) ==
    LET c == cmd[r].rec IN
    /\ At(r, "row") /\ IsAccidentalTap(r)
    /\ \/ /\ row' = [row EXCEPT ![c] = "deleted"]
          /\ wav' = [wav EXCEPT ![c] = 0]
          /\ voiced' = [voiced EXCEPT ![c] = wav[c]]
          /\ UNCHANGED fault
       \/ Fault("write") /\ UNCHANGED <<row, wav, voiced>>
    /\ Ends(r)
    /\ UNCHANGED <<session, lock, pausedAt, pausedTotal, seconds, trimAt, device, slotVars, live,
                   waits, timeVars, countVars>>

\* The cut is stored first (its loss is only logged), then finish_recording
\* folds an open pause and is gated on `recording`; the finalize task starts.
Finish(r) ==
    LET c == cmd[r].rec IN
    /\ At(r, "row") /\ ~IsAccidentalTap(r) /\ row[c] = "recording"
    /\ \/ cmd[r].cut = Nobody /\ UNCHANGED <<trimAt, fault>>
       \/ cmd[r].cut # Nobody /\ trimAt' = [trimAt EXCEPT ![c] = cmd[r].cut] /\ UNCHANGED fault
       \/ cmd[r].cut # Nobody /\ Fault("write") /\ UNCHANGED trimAt
    /\ row' = [row EXCEPT ![c] = "processing"]
    /\ seconds' = [seconds EXCEPT ![c] = EffectiveTicks(r)]
    /\ pausedTotal' = [pausedTotal EXCEPT ![c] = PausedTicks(c)]
    /\ pausedAt' = [pausedAt EXCEPT ![c] = Nobody]
    /\ waits' = [waits EXCEPT ![c] = cmd[r].held]
    /\ voiced' = [voiced EXCEPT ![c] = IF cmd[r].cut = Nobody THEN wav[c] ELSE cmd[r].voice]
    /\ Ends(r)
    /\ UNCHANGED <<session, lock, device, slotVars, live, wav, timeVars, countVars>>

\* The pause columns cannot be read or the row cannot be finished: the command
\* returns, the row stays.
FinishFails(r) ==
    /\ At(r, "row")
    /\ IF row[cmd[r].rec] = "recording" THEN Fault("write") ELSE UNCHANGED fault
    /\ Ends(r)
    /\ UNCHANGED <<session, lock, rowVars, device, slotVars, live, endVars, wav, timeVars,
                   countVars>>

\* trim_silence_tail, in the pipeline: the files are cut to the length in the
\* row, because the cut counts pauses and the files do not.
TrimTail(c) ==
    /\ row[c] = "processing" /\ trimAt[c] # Nobody
    /\ seconds[c] < wav[c] /\ seconds[c] > 0
    /\ wav' = [wav EXCEPT ![c] = seconds[c]]
    /\ UNCHANGED <<session, lock, rowVars, device, slotVars, cmd, live, endVars, timeVars,
                   countVars, fault>>
-----------------------------------------------------------------------------
(* pause_recording, resume_recording *)

PauseRead(r, o) ==
    /\ Begins(r) /\ Unlocked /\ session # Nobody
    /\ cmd' = [cmd EXCEPT ![r] = [NoCmd EXCEPT !.op = o, !.at = "write", !.rec = session]]
    /\ UNCHANGED <<session, lock, rowVars, device, slotVars, live, endVars, wav, timeVars, fault>>

\* The sidecar first, whichever session is there by now.
PauseDevice(r) ==
    /\ At(r, "write") /\ Unlocked /\ Go(r, "pauserow")
    /\ \/ session = Nobody /\ UNCHANGED <<device, since>>
       \/ /\ session # Nobody /\ Alive(session)
          /\ device' = [device EXCEPT ![session] = IF cmd[r].op = "pause" THEN "paused" ELSE "on"]
          /\ since' = [since EXCEPT ![session] = now]
    /\ UNCHANGED <<session, lock, rowVars, slotVars, live, endVars, wav, now, startedAt,
                   countVars, fault>>

\* The sidecar's stdin is gone: the command returns before the row is touched.
PauseRefused(r) ==
    /\ At(r, "write") /\ Unlocked /\ session # Nobody
    /\ Breaks(session)
    /\ Ends(r)
    /\ UNCHANGED <<session, lock, rowVars, device, slotVars, live, endVars, wav, timeVars,
                   countVars>>

\* pause_call: nothing the second time.
PauseRow(r) ==
    LET c == cmd[r].rec IN
    /\ At(r, "pauserow") /\ cmd[r].op = "pause"
    /\ \/ /\ pausedAt' = IF pausedAt[c] = Nobody /\ row[c] # "deleted"
                         THEN [pausedAt EXCEPT ![c] = now] ELSE pausedAt
          /\ UNCHANGED fault
       \/ Fault("write") /\ UNCHANGED pausedAt
    /\ Ends(r)
    /\ UNCHANGED <<session, lock, row, pausedTotal, seconds, trimAt, device, slotVars, live,
                   endVars, wav, timeVars, countVars>>

\* resume_call: folds the open pause.
ResumeRow(r) ==
    LET c == cmd[r].rec IN
    /\ At(r, "pauserow") /\ cmd[r].op = "resume"
    /\ \/ /\ pausedTotal' = [pausedTotal EXCEPT ![c] = PausedTicks(c)]
          /\ pausedAt' = [pausedAt EXCEPT ![c] = Nobody]
          /\ UNCHANGED fault
       \/ Fault("write") /\ UNCHANGED <<pausedAt, pausedTotal>>
    /\ Ends(r)
    /\ UNCHANGED <<session, lock, row, seconds, trimAt, device, slotVars, live, endVars, wav,
                   timeVars, countVars>>
-----------------------------------------------------------------------------
(* What happens meanwhile *)

DeviceDies(c) ==
    /\ Alive(c) /\ Fault("device")
    /\ DeviceEnds(c, "dead")
    /\ UNCHANGED <<session, lock, rowVars, orchSlot, cmd, live, endVars, wav, now, startedAt,
                   countVars>>

\* update_duration_from_rotate, at each rotation: read, then write.
LiveRead(c) ==
    /\ session = c /\ Unlocked /\ orchSlot = c /\ Alive(c) /\ live[c] = Nobody
    /\ live' = [live EXCEPT ![c] = Minus(Elapsed(c), pausedTotal[c])]
    /\ overlapped' = (overlapped \/ ~Idle)
    /\ UNCHANGED <<session, lock, rowVars, device, slotVars, cmd, endVars, wav, timeVars, issued,
                   fault>>

LiveWrite(c) ==
    /\ live[c] # Nobody
    /\ seconds' = [seconds EXCEPT ![c] = live[c]]
    /\ live' = [live EXCEPT ![c] = Nobody]
    /\ UNCHANGED <<session, lock, row, pausedAt, pausedTotal, trimAt, device, slotVars, cmd,
                   endVars, wav, timeVars, countVars, fault>>

\* Bound: a command takes no time on this clock.
Tick ==
    /\ AtRest /\ now < MaxNow
    /\ now' = now + 1
    /\ wav' = [c \in Recs |-> IF device[c] = "on" THEN wav[c] + 1 ELSE wav[c]]
    /\ UNCHANGED <<session, lock, rowVars, device, slotVars, cmd, live, endVars, since,
                   startedAt, countVars, fault>>

Handle(r) ==
    \/ StartDirFails(r) \/ StartOk(r) \/ StartFails(r) \/ SpawnOrchestrator(r)
    \/ AutoStopVain(r) \/ TakeOrchestrator(r) \/ StopWatch(r)
    \/ StopDevice(r) \/ StopDeviceFails(r) \/ DiscardTap(r) \/ Finish(r) \/ FinishFails(r)
    \/ PauseDevice(r) \/ PauseRefused(r) \/ PauseRow(r) \/ ResumeRow(r)

CaptureNext ==
    \/ \E r \in Cmds :
         \/ Handle(r) \/ TakeSession(r) \/ PauseRead(r, "pause") \/ PauseRead(r, "resume")
         \/ \E c \in Recs : StartInsert(r, c) \/ Decide(r, c)
    \/ \E c \in Recs : TrimTail(c) \/ DeviceDies(c) \/ LiveRead(c) \/ LiveWrite(c)
    \/ Tick

CaptureSpec == CaptureInit /\ [][CaptureNext]_captureVars
-----------------------------------------------------------------------------
(* Properties *)

\* No sidecar goes on recording when no session owns it: whatever fails in a
\* start or a stop, and whatever they race with, nothing is captured behind
\* the user's back.
NothingCapturesUnowned ==
    Idle => \A c \in Recs : device[c] \in {"on", "paused"} => session = c

\* A call is `failed` only when its sidecar failed: of two stops that come
\* together, by hand and automatic, the second never fails the first one's call.
FailedOnlyByFault == (\E c \in Recs : row[c] = "failed") => fault # "none"

\* A row says `recording` without a session only if a write failed: no
\* interleaving of commands leaves one behind.
StuckOnlyByFailedWrite ==
    Idle => \A c \in Recs : row[c] = "recording" /\ session # c => Failed

\* A recording that captured enough is never thrown away as an accidental tap,
\* paused or not, and however early the automatic stop puts the cut.
OnlyTapsDiscarded ==
    ~overlapped /\ ~Failed => \A c \in Recs : row[c] = "deleted" => voiced[c] < MinTicks

\* One command at a time and no failing write: what the row says of the pause
\* is what the sidecar does (the reason why the sidecar is told first).
PauseAgrees ==
    AtRest /\ ~overlapped /\ ~Failed /\ session # Nobody /\ Alive(session) =>
        (pausedAt[session] # Nobody <=> device[session] = "paused")

\* ... and the length in the row is that of the audio, up to the cut.
LengthIsCaptured ==
    AtRest /\ ~overlapped /\ ~Failed =>
        \A c \in Recs : row[c] = "processing" => seconds[c] = voiced[c]

\* The cut of the silent tail takes away nothing recorded before it.
CutKeepsVoice ==
    ~overlapped /\ ~Failed => \A c \in Recs : row[c] = "processing" => wav[c] >= voiced[c]

\* One command at a time: a stop waits for the orchestrator of its own
\* recording, or for none.
StopFindsItsOwn ==
    ~overlapped => \A c \in Recs : waits[c] \in {Nobody, c}

\* Whatever a session holds is its own, and it holds all there is: the sidecar
\* that records, and the orchestrator that its stop waits for.
SessionOwnsDevice == CaptureTypeOK /\ NothingCapturesUnowned /\ StopFindsItsOwn

\* The row tells what was captured: its status, its pause, its length, and the
\* place where the tail is cut.
RowTellsCapture ==
    StuckOnlyByFailedWrite /\ PauseAgrees /\ LengthIsCaptured /\ CutKeepsVoice

\* No recording is lost to the way it was stopped.
NothingKeptIsLost == FailedOnlyByFault /\ OnlyTapsDiscarded
=============================================================================
