-------------------------- MODULE ChunkedRecording --------------------------
(***************************************************************************)
(* A recording cut into chunks while it is being made, and its stop.       *)
(*                                                                         *)
(*   sidecars/macos-audio              the capture process (its microphone *)
(*                                     leg), driven by stdin, stdout       *)
(*   audio/macos.rs                    session and event dispatcher        *)
(*   pipeline/chunk_orchestrator.rs    decides when to rotate, enqueues    *)
(*   pipeline/chunk_runner.rs          transcribes one closed chunk        *)
(*   commands/recording.rs             stop, the final chunk, the pipeline *)
(*   pipeline/local_run.rs             the gate before assembly            *)
(*                                                                         *)
(* Chunks are numbered as the orchestrator numbers them.  The sidecar does *)
(* not know the numbers: a `rotated` event carries none, and the two sides *)
(* agree only as long as they count the same events.  The time at which    *)
(* find_cut finds a cut, pauses and RMS samples are left out: a tick may   *)
(* find a cut at any time.                                                 *)
(***************************************************************************)
EXTENDS Naturals, Sequences, FiniteSets

CONSTANTS
    MaxChunk,   \* bound: the highest chunk index
    NoFile      \* the microphone leg has no file to write to

ASSUME ChunkAssumption == MaxChunk \in Nat \ {0} /\ NoFile \notin Nat

Chunks == 0..MaxChunk

VARIABLES
    alive,      \* the sidecar process runs
    mic,        \* the chunk its microphone leg writes
    files,      \* chunks with recorded audio on disk
    cmds,       \* its stdin: targets of rotations, StopCmd
    events,     \* its stdout
    terminal,   \* terminal_rx; once set the dispatcher is gone
    rotq,       \* number of events in the orchestrator's rotate channel
    session,    \* state.recording is Some
    orch,       \* where the orchestrator is
    idx,        \* its chunk_idx
    pending,    \* its rotate_pending
    stopSent,   \* the stop signal was sent to it
    quiet,      \* history: no rotation was on its way when the stop began
    drained,    \* handles drain_pending has let go of
    run,        \* run_chunk of each chunk
    row,        \* call_chunks.status
    stopPc,     \* where stop_recording and the task it spawns are
    transcript, \* chunks the assembled transcript was made from
    outcome     \* what became of the call

sidecarVars == <<alive, mic, files, cmds>>
orchVars == <<orch, idx, pending, drained>>
callVars == <<transcript, outcome, quiet>>
vars == <<alive, mic, files, cmds, events, terminal, rotq, session, orch, idx, pending,
          stopSent, quiet, drained, run, row, stopPc, transcript, outcome>>

StopCmd == 0        \* rotations go to chunk 1 and up

Terminals == {"stopped", "error"}
OrchPcs == {"loop", "rotating", "sweep", "drain", "done"}
RunPcs == {"none", "insert", "claim", "stt", "ok", "err"}
RowStatus == {"none", "pending", "processing", "done", "failed"}
StopPcs == {"idle", "signal", "write", "wait", "join", "final", "engine", "finalrun",
            "pipeline", "end"}

TypeOK ==
    /\ alive \in BOOLEAN
    /\ mic \in Chunks \cup {NoFile}
    /\ files \subseteq Chunks
    /\ cmds \in Seq(Chunks)
    /\ events \in Seq(Terminals \cup {"rotated", "rotate_error"})
    /\ terminal \in Terminals \cup {"none"}
    /\ rotq \in Nat
    /\ session \in BOOLEAN
    /\ orch \in OrchPcs
    /\ idx \in Chunks
    /\ pending \in BOOLEAN
    /\ stopSent \in BOOLEAN
    /\ quiet \in BOOLEAN
    /\ drained \in Chunks
    /\ run \in [Chunks -> RunPcs]
    /\ row \in [Chunks -> RowStatus]
    /\ stopPc \in StopPcs
    /\ transcript \subseteq Chunks
    /\ outcome \in {"none", "ready", "partial", "failed", "discarded"}

Init ==
    /\ alive = TRUE
    /\ mic = 0
    /\ files = {0}
    /\ cmds = <<>>
    /\ events = <<>>
    /\ terminal = "none"
    /\ rotq = 0
    /\ session = TRUE
    /\ orch = "loop"
    /\ idx = 0
    /\ pending = FALSE
    /\ stopSent = FALSE
    /\ quiet = TRUE
    /\ drained = 0
    /\ run = [k \in Chunks |-> "none"]
    /\ row = [k \in Chunks |-> "none"]
    /\ stopPc = "idle"
    /\ transcript = {}
    /\ outcome = "none"
-----------------------------------------------------------------------------
(* The sidecar *)

Emit(es) == events' = events \o es

\* Mutant: the failure of the system leg is reported instead of the rotation.
RotateOkUnlessSystemFails(n) ==
    /\ mic' = n
    /\ files' = files \cup {n}
    /\ \E es \in {<<"rotated">>, <<"rotate_error">>} : Emit(es)

\* CommandRouter.rotate, AudioRecorder.rotate: WAVWriter truncates the file it
\* opens.  A failing system leg does not stop the microphone's.
RotateOk(n) ==
    /\ mic' = n
    /\ files' = files \cup {n}
    /\ \E es \in {<<"rotated">>, <<"rotate_error", "rotated">>} : Emit(es)

\* Mutant: the failed rotation is announced like one that succeeded.
RotateFailsAnnounced ==
    /\ mic' \in {mic, NoFile}
    /\ Emit(<<"rotated">>)
    /\ UNCHANGED files

\* The current file does not close (it stays), or it closes and the next one
\* does not open (frames are dropped until the next rotation).
RotateFails ==
    /\ mic' \in {mic, NoFile}
    /\ Emit(<<"rotate_error">>)
    /\ UNCHANGED files

SidecarRotate ==
    /\ alive /\ cmds # <<>> /\ Head(cmds) # StopCmd
    /\ cmds' = Tail(cmds)
    /\ RotateOk(Head(cmds)) \/ RotateFails
    /\ UNCHANGED <<alive, terminal, rotq, session, orchVars, stopSent, run, row, stopPc, callVars>>

SidecarStop ==
    /\ alive /\ cmds # <<>> /\ Head(cmds) = StopCmd
    /\ cmds' = Tail(cmds)
    /\ mic' = NoFile
    /\ \E e \in Terminals : Emit(<<e>>)
    /\ UNCHANGED <<alive, files, terminal, rotq, session, orchVars, stopSent, run, row,
                   stopPc, callVars>>

\* The process ends by itself; the headers on disk were flushed.
SidecarDies ==
    /\ alive
    /\ alive' = FALSE
    /\ mic' = NoFile
    /\ cmds' = <<>>
    /\ Emit(<<"error">>)
    /\ UNCHANGED <<files, terminal, rotq, session, orchVars, stopSent, run, row, stopPc, callVars>>

\* run_dispatcher; it returns, dropping the channels, on a terminal event.
Dispatch ==
    LET e == Head(events) IN
    /\ terminal = "none" /\ events # <<>>
    /\ events' = Tail(events)
    /\ rotq' = IF e = "rotated" /\ orch # "done" THEN rotq + 1 ELSE rotq
    /\ terminal' = IF e \in Terminals THEN e ELSE terminal
    /\ UNCHANGED <<sidecarVars, session, orchVars, stopSent, run, row, stopPc, callVars>>
-----------------------------------------------------------------------------
(* The orchestrator *)

\* apply_rotated: the open chunk was closed; transcribe it in background.
ApplyRotated ==
    /\ rotq > 0
    /\ rotq' = rotq - 1
    /\ run' = [run EXCEPT ![idx] = "insert"]
    /\ idx' = idx + 1

OrchRotated ==
    /\ orch = "loop"
    /\ ApplyRotated
    /\ pending' = FALSE
    /\ UNCHANGED <<sidecarVars, events, terminal, session, orch, drained, stopSent, row,
                   stopPc, callVars>>

\* Mutant: a tick does not look at rotate_pending.
TickTwice ==
    /\ orch = "loop" /\ idx < MaxChunk
    /\ pending' = TRUE
    /\ orch' = "rotating"
    /\ UNCHANGED <<sidecarVars, events, terminal, rotq, session, idx, drained, stopSent, run,
                   row, stopPc, callVars>>

\* A tick finds a cut in the window.
Tick ==
    /\ orch = "loop" /\ ~pending /\ idx < MaxChunk
    /\ pending' = TRUE
    /\ orch' = "rotating"
    /\ UNCHANGED <<sidecarVars, events, terminal, rotq, session, idx, drained, stopSent, run,
                   row, stopPc, callVars>>

\* rotate_fn: the command is written if there still is a session and a sidecar.
WriteRotate ==
    /\ orch = "rotating"
    /\ orch' = "loop"
    /\ IF session /\ alive
       THEN cmds' = Append(cmds, idx + 1) /\ UNCHANGED pending
       ELSE pending' = FALSE /\ UNCHANGED cmds
    /\ UNCHANGED <<alive, mic, files, events, terminal, rotq, session, idx, drained, stopSent,
                   run, row, stopPc, callVars>>

\* The stop signal, or the dispatcher is gone and its channels are closed.
OrchBreaks ==
    /\ orch = "loop"
    /\ stopSent \/ terminal # "none"
    /\ orch' = "sweep"
    /\ UNCHANGED <<sidecarVars, events, terminal, rotq, session, idx, pending, drained, stopSent,
                   run, row, stopPc, callVars>>

\* Mutant: straight to the drain, as before TD-14.
NoSweep ==
    /\ orch = "sweep"
    /\ orch' = "drain"
    /\ UNCHANGED <<sidecarVars, events, terminal, rotq, session, idx, pending, drained, stopSent,
                   run, row, stopPc, callVars>>

\* Mutant: the sweep counts the closed chunk and does not enqueue it.
SweepCountsOnly ==
    /\ orch = "sweep"
    /\ \/ rotq > 0 /\ rotq' = rotq - 1 /\ idx' = idx + 1 /\ UNCHANGED <<orch, run>>
       \/ rotq = 0 /\ orch' = "drain" /\ UNCHANGED <<rotq, run, idx>>
    /\ UNCHANGED <<sidecarVars, events, terminal, session, pending, drained, stopSent, row,
                   stopPc, callVars>>

\* `while let Ok(event) = rotate_rx.try_recv()`; then the open chunk is final.
Sweep ==
    /\ orch = "sweep"
    /\ \/ ApplyRotated /\ UNCHANGED orch
       \/ rotq = 0 /\ orch' = "drain" /\ UNCHANGED <<rotq, run, idx>>
    /\ UNCHANGED <<sidecarVars, events, terminal, session, pending, drained, stopSent, row,
                   stopPc, callVars>>

\* drain_pending: in order, each for at most 300 s, long enough for the two
\* database writes before the transcription but not for the transcription.
Drain ==
    /\ orch = "drain"
    /\ \/ drained < idx /\ run[drained] \notin {"insert", "claim"}
          /\ drained' = drained + 1 /\ UNCHANGED orch
       \/ drained = idx /\ orch' = "done" /\ UNCHANGED drained
    /\ UNCHANGED <<sidecarVars, events, terminal, rotq, session, idx, pending, stopSent, run,
                   row, stopPc, callVars>>
-----------------------------------------------------------------------------
(* enqueue_fn and run_chunk *)

Runs(k, pc, status) ==
    /\ run' = [run EXCEPT ![k] = pc]
    /\ row' = [row EXCEPT ![k] = status]
    /\ UNCHANGED <<sidecarVars, events, terminal, rotq, session, orchVars, stopSent, stopPc, callVars>>

\* INSERT OR IGNORE
InsertChunk(k) ==
    /\ run[k] = "insert"
    /\ Runs(k, "claim", IF row[k] = "none" THEN "pending" ELSE row[k])

\* mark_chunk_processing, gated on pending.
ClaimChunk(k) ==
    /\ run[k] = "claim"
    /\ IF row[k] = "pending" THEN Runs(k, "stt", "processing") ELSE Runs(k, "err", row[k])

\* mark_chunk_done, gated on processing; mark_chunk_failed, not gated.
ChunkTranscribed(k) ==
    /\ run[k] = "stt"
    /\ IF row[k] = "processing" THEN Runs(k, "ok", "done") ELSE Runs(k, "err", row[k])

ChunkFails(k) == run[k] = "stt" /\ Runs(k, "err", "failed")

RunChunk(k) == InsertChunk(k) \/ ClaimChunk(k) \/ ChunkTranscribed(k) \/ ChunkFails(k)
-----------------------------------------------------------------------------
(* stop_recording_inner *)

\* A rotation the sidecar was told to make and the orchestrator cannot see yet.
RotationInFlight ==
    \/ \E i \in DOMAIN cmds : cmds[i] # StopCmd
    \/ \E i \in DOMAIN events : events[i] = "rotated"

StopGoes(pc) ==
    /\ stopPc' = pc
    /\ UNCHANGED <<sidecarVars, events, terminal, rotq, orchVars, run>>

TakeSession ==
    /\ stopPc = "idle"
    /\ session' = FALSE
    /\ quiet' = ~RotationInFlight
    /\ StopGoes("signal")
    /\ UNCHANGED <<stopSent, row, transcript, outcome>>

SignalOrchestrator ==
    /\ stopPc = "signal"
    /\ stopSent' = TRUE
    /\ StopGoes("write")
    /\ UNCHANGED <<session, row, callVars>>

WriteStop ==
    /\ stopPc = "write"
    /\ IF alive
       THEN cmds' = Append(cmds, StopCmd) /\ stopPc' = "wait" /\ UNCHANGED outcome
       ELSE outcome' = "failed" /\ stopPc' = "end" /\ UNCHANGED cmds
    /\ UNCHANGED <<alive, mic, files, events, terminal, rotq, session, orchVars, stopSent, run,
                   quiet, row, transcript>>

Stopped ==
    /\ stopPc = "wait" /\ terminal = "stopped"
    /\ StopGoes("join")
    /\ UNCHANGED <<session, stopSent, row, callVars>>

\* Under 30 s nothing was rotated: the call and its directory are removed.
DiscardShort ==
    /\ stopPc = "wait" /\ terminal = "stopped"
    /\ files = {0} /\ ~pending
    /\ files' = {}
    /\ row' = [k \in Chunks |-> "none"]
    /\ outcome' = "discarded"
    /\ stopPc' = "end"
    /\ UNCHANGED <<alive, mic, cmds, events, terminal, rotq, session, orchVars, stopSent, run,
                   quiet, transcript>>

\* An error, the death of the sidecar, or no answer in time: the call fails
\* and nobody waits for the orchestrator.
StopFails ==
    /\ stopPc = "wait" /\ terminal # "stopped"
    /\ outcome' = "failed"
    /\ StopGoes("end")
    /\ UNCHANGED <<session, stopSent, quiet, row, transcript>>
-----------------------------------------------------------------------------
(* spawn_finalize_and_pipeline *)

JoinOrchestrator ==
    /\ stopPc = "join" /\ orch = "done"
    /\ StopGoes("final")
    /\ UNCHANGED <<session, stopSent, row, callVars>>

\* process_final_chunk, plan_final_chunk
PlanFinal ==
    LET skip == row[idx] \in {"processing", "done"} \/ idx \notin files IN
    /\ stopPc = "final"
    /\ row' = IF skip THEN row ELSE [row EXCEPT ![idx] = "pending"]
    /\ StopGoes(IF skip THEN "pipeline" ELSE "engine")
    /\ UNCHANGED <<session, stopSent, callVars>>

\* Mutant: without an engine the task ends instead of going on.
EngineOrNothing ==
    /\ stopPc = "engine"
    /\ stopPc' = "finalrun"
    /\ \/ run' = [run EXCEPT ![idx] = "claim"]
       \/ UNCHANGED run
    /\ UNCHANGED <<sidecarVars, events, terminal, rotq, session, orchVars, stopSent, row, callVars>>

\* build_chunk_providers: without a ready engine the chunk stays pending.
FinalEngine ==
    /\ stopPc = "engine"
    /\ \/ run' = [run EXCEPT ![idx] = "claim"] /\ stopPc' = "finalrun"
       \/ UNCHANGED run /\ stopPc' = "pipeline"
    /\ UNCHANGED <<sidecarVars, events, terminal, rotq, session, orchVars, stopSent, row, callVars>>

FinalRan ==
    /\ stopPc = "finalrun" /\ run[idx] \in {"ok", "err"}
    /\ StopGoes("pipeline")
    /\ UNCHANGED <<session, stopSent, row, callVars>>

\* chunks_ready and load_chunked_transcripts.  With no rows the pipeline falls
\* back on the root WAV, which a chunked recording does not have.
Assemble ==
    LET done == {k \in Chunks : row[k] = "done"}
        rows == {k \in Chunks : row[k] # "none"} IN
    /\ stopPc = "pipeline"
    /\ transcript' = done
    /\ outcome' = IF done = {} THEN "failed" ELSE IF done = rows THEN "ready" ELSE "partial"
    /\ StopGoes("end")
    /\ UNCHANGED <<session, stopSent, quiet, row>>
-----------------------------------------------------------------------------
Sidecar == SidecarRotate \/ SidecarStop
Orchestrator == OrchRotated \/ WriteRotate \/ OrchBreaks \/ Sweep \/ Drain
Stop == SignalOrchestrator \/ WriteStop \/ Stopped \/ DiscardShort \/ StopFails
Finalize == JoinOrchestrator \/ PlanFinal \/ FinalEngine \/ FinalRan \/ Assemble

Next ==
    \/ Sidecar \/ SidecarDies \/ Dispatch
    \/ Orchestrator \/ Tick
    \/ \E k \in Chunks : RunChunk(k)
    \/ TakeSession \/ Stop \/ Finalize
    \/ stopPc = "end" /\ UNCHANGED vars

Spec == Init /\ [][Next]_vars

\* Each process goes on as long as it can; whisper-cli is killed after 20
\* minutes, so run_chunk ends.  A stop signal stays ready in `select!` between
\* one tick and the next, so ticks cannot starve it.  Nobody is obliged to
\* rotate or to stop.
Fairness ==
    /\ WF_vars(Sidecar) /\ WF_vars(Dispatch)
    /\ WF_vars(Orchestrator) /\ SF_vars(OrchBreaks) /\ WF_vars(Stop) /\ WF_vars(Finalize)
    /\ \A k \in Chunks : WF_vars(RunChunk(k))

FairSpec == Spec /\ Fairness
-----------------------------------------------------------------------------
(* Properties *)

\* A rotation never opens a chunk that already holds audio (it would truncate
\* it): between two rotations the orchestrator always learns of the first.
NoReopen == \A i \in DOMAIN cmds : cmds[i] # StopCmd => cmds[i] \notin files

\* Chunk indices agree: the last chunk the sidecar opened is the one the
\* orchestrator counts as open once it has read the events on their way.
IndicesAgree ==
    orch \in {"loop", "rotating", "sweep"} /\ outcome # "discarded" =>
       /\ idx + rotq + Cardinality({i \in DOMAIN events : events[i] = "rotated"})
            = Cardinality(files) - 1
       /\ files = 0 .. Cardinality(files) - 1

\* run_chunk never reads a file the sidecar is still writing.
TranscribesClosed == \A k \in Chunks : run[k] = "stt" => mic # k

\* A call that claims a complete transcript has every chunk with recorded
\* audio in it, events left unread at the stop included (the sweep of TD-14),
\* unless a rotation was still on its way from the sidecar.
TailIsKept == outcome = "ready" /\ quiet => files \subseteq transcript

\* The same without the exception, as the comment of the sweep has it: the
\* last seconds are never lost silently.
NoSilentLoss == outcome = "ready" => files \subseteq transcript

\* Whenever the stop comes, a transcript that claims to be complete lacks at
\* most the chunk opened last: one rotation at a time is on its way.
LosesAtMostTheTail ==
    outcome = "ready" => 0 .. Cardinality(files) - 2 \subseteq transcript

\* A microphone leg that lost its file gets another rotation to revive it
\* (AudioRecorder.rotate): the orchestrator may still ask for one, or the
\* answer to its last request is on its way.
MicLegRevivable ==
    session /\ alive /\ mic = NoFile /\ orch = "loop" =>
       ~pending \/ RotationInFlight \/ rotq > 0

\* A stop that was asked for comes to an end, whatever fails on the way: the
\* pipeline starts, or the call is failed or discarded.
StopEnds == stopPc # "idle" ~> stopPc = "end"
=============================================================================
