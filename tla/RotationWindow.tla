---------------------------- MODULE RotationWindow ----------------------------
(***************************************************************************)
(* When the chunk orchestrator rotates: the window in which it looks for a *)
(* cut, shifted by the pauses, and the samples it still holds.             *)
(*                                                                         *)
(*   pipeline/chunk_orchestrator.rs   pause, samples, tick, rotated        *)
(*   audio/silence_detector.rs        push, find_cut                       *)
(*                                                                         *)
(* find_cut falls back to the quietest sample, so it finds a cut whenever  *)
(* it holds a sample of the window; where it is does not matter, because   *)
(* the sidecar cuts at the moment of the command (_cut_ms is unused).      *)
(***************************************************************************)
EXTENDS Naturals

CONSTANTS
    WindowStart, WindowEnd,  \* window_start_offset_ms, window_end_offset_ms
    Retention,               \* of the silence detector
    MaxPause,                \* bound: the ticks one chunk is paused
    MaxTime                  \* bound: the clock

ASSUME RotationAssumption ==
    /\ {WindowStart, WindowEnd, Retention, MaxPause, MaxTime} \subseteq Nat
    /\ 0 < WindowStart /\ WindowStart < WindowEnd

VARIABLES
    lastRms,        \* last_rms_ts_ms
    chunkStart, pausedInChunk, orchPaused, pauseAnchor,
    samples,        \* the time stamps the detector holds
    rotatePending,  \* a rotate command is out
    active,         \* history: ticks recorded in the open chunk
    lengths         \* history: ticks recorded in each closed chunk

rotationVars == <<lastRms, chunkStart, pausedInChunk, orchPaused, pauseAnchor, samples,
                  rotatePending, active, lengths>>

RotationInit ==
    /\ lastRms = 0 /\ chunkStart = 0
    /\ pausedInChunk = 0 /\ orchPaused = FALSE /\ pauseAnchor = 0
    /\ samples = {}
    /\ rotatePending = FALSE
    /\ active = 0 /\ lengths = {}

CappedPaused == IF pausedInChunk < WindowEnd THEN pausedInChunk ELSE WindowEnd
Ago(t) == IF lastRms > t THEN lastRms - t ELSE 0

\* Samples older than the retention go with the next push.
Push(t) == {s \in samples : s + Retention >= t} \cup {t}
FindCut(from, to) == \E s \in samples : from <= s /\ s <= to

\* What a tick of the orchestrator would do now.
WantsToRotate ==
    LET start == chunkStart + CappedPaused + WindowStart
        end == chunkStart + CappedPaused + WindowEnd
        searchEnd == IF end < lastRms THEN end ELSE lastRms
    IN  /\ ~rotatePending /\ ~orchPaused
        /\ Ago(chunkStart) >= CappedPaused + WindowStart
        /\ searchEnd > start
        /\ FindCut(start, searchEnd)

\* The rotate command is written, or the write fails and the next tick tries
\* again.
RotationTick == WantsToRotate /\ rotatePending' = TRUE
    /\ UNCHANGED <<lastRms, chunkStart, pausedInChunk, orchPaused, pauseAnchor, samples, active,
                   lengths>>

\* apply_rotated: the sidecar's length of the chunk counts its pauses.
Rotated ==
    /\ rotatePending /\ rotatePending' = FALSE
    /\ chunkStart' = lastRms
    /\ pausedInChunk' = 0
    /\ pauseAnchor' = IF orchPaused THEN lastRms ELSE pauseAnchor
    /\ lengths' = lengths \cup {active}
    /\ active' = 0
    /\ UNCHANGED <<lastRms, orchPaused, samples>>

\* Bound: no pause begins at the very tick that would rotate.
RotationPause ==
    /\ ~orchPaused /\ orchPaused' = TRUE /\ ~WantsToRotate
    /\ pauseAnchor' = lastRms
    /\ UNCHANGED <<lastRms, chunkStart, pausedInChunk, samples, rotatePending, active, lengths>>

\* Mutant: a resume does not add up the pauses of a chunk.
RotationResumeLast ==
    /\ orchPaused /\ orchPaused' = FALSE
    /\ pausedInChunk' = Ago(pauseAnchor)
    /\ UNCHANGED <<lastRms, chunkStart, pauseAnchor, samples, rotatePending, active, lengths>>

RotationResume ==
    /\ orchPaused /\ orchPaused' = FALSE
    /\ pausedInChunk' = pausedInChunk + Ago(pauseAnchor)
    /\ UNCHANGED <<lastRms, chunkStart, pauseAnchor, samples, rotatePending, active, lengths>>

\* A minute passes, and the tick of that minute has been.
Sample ==
    /\ lastRms < MaxTime /\ ~rotatePending /\ ~WantsToRotate
    /\ orchPaused => pausedInChunk + Ago(pauseAnchor) < MaxPause
    /\ lastRms' = lastRms + 1
    /\ samples' = IF orchPaused THEN samples ELSE Push(lastRms + 1)
    /\ active' = IF orchPaused THEN active ELSE active + 1
    /\ UNCHANGED <<chunkStart, pausedInChunk, orchPaused, pauseAnchor, rotatePending, lengths>>

RotationNext == RotationTick \/ Rotated \/ RotationPause \/ RotationResume \/ Sample

RotationSpec == RotationInit /\ [][RotationNext]_rotationVars
-----------------------------------------------------------------------------
(* Properties *)

\* A pause freezes the clock of the chunk: no chunk is closed before it holds
\* the audio that the window asks for, however it is paused.
NoShortChunk == \A n \in lengths : n >= WindowStart

\* A pause does not stop the rotation: the audio of an open chunk stays within
\* the window.
RotatesAfterPause == active <= WindowEnd

\* Every chunk is as long as the window says.
WindowKept == NoShortChunk /\ RotatesAfterPause
=============================================================================
