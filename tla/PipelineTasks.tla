--------------------------- MODULE PipelineTasks ---------------------------
(***************************************************************************)
(* The background work on a finished recording and the registry that is    *)
(* supposed to know about all of it.                                       *)
(*                                                                         *)
(*   services/pipeline_runner.rs   the registry `pipeline_tasks`, spawning,*)
(*                                 cancelling and aborting                 *)
(*   pipeline/mod.rs, local_run.rs what a task does to the call            *)
(*   commands/pipeline.rs, calls.rs, chunk_retry.rs, recording.rs          *)
(*                                 the commands that reach the registry    *)
(*                                                                         *)
(* A REQUEST is one invocation of a command (or the tail of                *)
(* stop_recording); it runs concurrently with the others and with the      *)
(* tasks, and is interrupted only where the Rust code awaits.  It spawns   *)
(* at most one TASK, which goes by the name of its request.  tokio's       *)
(* abort() takes effect at an await: an aborted task may still take steps  *)
(* until it is dropped.                                                    *)
(***************************************************************************)
CONSTANTS
    Calls,      \* call ids
    Reqs,       \* command invocations; each runs once
    Ops,        \* the commands users may issue
    Overlap,    \* TRUE: commands on one call may be in flight together
    None        \* no JoinHandle in the registry; nobody holds its mutex

AllOps == {"reprocess", "retry", "regen", "cancel", "delete"}

ASSUME RegistryAssumption == None \notin Reqs /\ Ops \subseteq AllOps

VARIABLES
    status,         \* calls.status; "absent" when there is no row
    progress,       \* calls whose pipeline_step/pct columns are set
    recapFailed,    \* calls with a recap_failed_reason
    chunks,         \* call_chunks: the rows written while recording, the final one
    dirs,           \* calls with a directory on disk
    audio,          \* ... with a root WAV in it
    transcripts,    \* ... with a transcript.md in it
    registry,       \* AppState.pipeline_tasks: call_id -> JoinHandle
    lock,           \* the request that holds the registry mutex across an await
    taskPc,         \* where the task of each request is
    aborted,        \* tasks on which abort() was called
    reqPc,          \* where each request is
    op, call,       \* ... what it does, to which call
    old,            \* ... the task it aborted
    part            \* ... the chunk it retries

rowVars == <<status, progress, recapFailed>>
diskVars == <<dirs, audio, transcripts>>
taskVars == <<taskPc, aborted>>
argVars == <<op, call, old, part>>
vars == <<status, progress, recapFailed, chunks, dirs, audio, transcripts, registry,
          lock, taskPc, aborted, reqPc, op, call, old, part>>
-----------------------------------------------------------------------------
(* Types *)

Status == {"absent", "processing", "ready", "failed"}
ChunkStatus == {"none", "open", "failed", "done"}
Parts == {"body", "tail"}       \* chunks closed while recording; the final chunk

\* A running task is past the registration barrier.
RunningPcs == {"pre", "transcribe", "merge", "recap", "ready", "fail",
               "regen", "regenrun", "cleanup"}
LivePcs == {"barrier"} \cup RunningPcs
TaskPcs == {"unborn", "ended"} \cup LivePcs

ReqPcs == {"idle", "final", "finalrun", "reset", "chunkrun", "resume", "check", "guard",
           "take", "await", "spawn", "insert", "send", "probe", "makeready", "makefailed",
           "rows", "dir", "done"}

TypeOK ==
    /\ status \in [Calls -> Status]
    /\ progress \subseteq Calls
    /\ recapFailed \subseteq Calls
    /\ chunks \in [Calls -> [Parts -> ChunkStatus]]
    /\ dirs \subseteq Calls
    /\ audio \subseteq Calls
    /\ transcripts \subseteq Calls
    /\ registry \in [Calls -> Reqs \cup {None}]
    /\ lock \in Reqs \cup {None}
    /\ taskPc \in [Reqs -> TaskPcs]
    /\ aborted \subseteq Reqs
    /\ reqPc \in [Reqs -> ReqPcs]
    /\ op \in [Reqs -> AllOps \cup {"initial"}]
    /\ call \in [Reqs -> Calls]
    /\ old \in [Reqs -> Reqs \cup {None}]
    /\ part \in [Reqs -> Parts]
-----------------------------------------------------------------------------
(* Helpers *)

Exists(c) == status[c] # "absent"
HasChunks(c) == \E p \in Parts : chunks[c][p] # "none"
AllChunksDone(c) == HasChunks(c) /\ \A p \in Parts : chunks[c][p] \in {"none", "done"}
AnyChunkDone(c) == \E p \in Parts : chunks[c][p] = "done"

Running(t) == taskPc[t] \in RunningPcs
Active(r) == reqPc[r] \notin {"idle", "done"}
LockFree == lock = None

Quiet ==
    /\ \A r \in Reqs : ~Active(r)
    /\ \A t \in Reqs : taskPc[t] \in {"unborn", "ended"}

Go(r, pc) == reqPc' = [reqPc EXCEPT ![r] = pc] /\ UNCHANGED argVars
Step(t, pc) == taskPc' = [taskPc EXCEPT ![t] = pc] /\ UNCHANGED aborted

\* UPDATE calls SET ... WHERE id = ? touches nothing when the row is gone.
Mark(S, c) == IF Exists(c) THEN S \cup {c} ELSE S
-----------------------------------------------------------------------------
(* Initial states: recordings that just stopped (with the tail of          *)
(* stop_recording in flight), processed calls and failed ones.             *)

Init ==
    /\ status \in [Calls -> {"processing", "ready", "failed"}]
    /\ transcripts \in SUBSET {c \in Calls : status[c] # "processing"}
    /\ {c \in Calls : status[c] = "ready"} \subseteq transcripts
    /\ recapFailed \in SUBSET {c \in Calls : status[c] = "ready"}
    /\ audio \in SUBSET Calls
    /\ transcripts \subseteq audio
    /\ \E body \in [Calls -> {"none", "failed", "done"}] :
         chunks = [c \in Calls |-> [p \in Parts |-> IF p = "body" THEN body[c] ELSE "none"]]
    /\ \A c \in audio \ transcripts : ~HasChunks(c)         \* full-file recordings
    /\ progress = {}
    /\ dirs = Calls
    /\ call \in [Reqs -> Calls]
    /\ \E stops \in SUBSET Reqs :
         /\ \A q, r \in stops : call[q] = call[r] => q = r
         /\ \A c \in Calls : status[c] = "processing" <=> \E r \in stops : call[r] = c
         /\ \A r \in Reqs \ stops : call[r] = CHOOSE c \in Calls : TRUE
         /\ reqPc = [r \in Reqs |-> IF r \notin stops THEN "idle"
                                    ELSE IF call[r] \in audio THEN "spawn" ELSE "final"]
    /\ op = [r \in Reqs |-> "initial"]
    /\ old = [r \in Reqs |-> None]
    /\ part = [r \in Reqs |-> "tail"]
    /\ registry = [c \in Calls |-> None]
    /\ lock = None
    /\ taskPc = [t \in Reqs |-> "unborn"]
    /\ aborted = {}
-----------------------------------------------------------------------------
(* Commands: where each one starts *)

\* Without Overlap a command on a call is issued only when the earlier ones
\* on that call have returned.
MayBegin(r, o, c) ==
    /\ reqPc[r] = "idle"
    /\ o \in Ops
    /\ Overlap \/ \A q \in Reqs : Active(q) => call[q] # c

Begin(r, o, c, pc, p) ==
    /\ MayBegin(r, o, c)
    /\ reqPc' = [reqPc EXCEPT ![r] = pc]
    /\ op' = [op EXCEPT ![r] = o]
    /\ call' = [call EXCEPT ![r] = c]
    /\ part' = [part EXCEPT ![r] = p]
    /\ UNCHANGED old

\* commands/pipeline.rs reprocess_call: merge chunks/ into the root WAVs if
\* there is no root WAV; a failing merge is swallowed.
BeginReprocess(r, c) ==
    /\ Begin(r, "reprocess", c, "reset", "body")
    /\ audio' \in {audio} \cup (IF c \in dirs THEN {audio \cup {c}} ELSE {})
    /\ UNCHANGED <<rowVars, chunks, dirs, transcripts, registry, lock, taskVars>>

\* ... then forget the chunk transcripts and the recap failure.
ResetForReprocess(r) ==
    /\ reqPc[r] = "reset"
    /\ chunks' = [chunks EXCEPT ![call[r]] = [p \in Parts |-> "none"]]
    /\ recapFailed' = recapFailed \ {call[r]}
    /\ Go(r, "check")
    /\ UNCHANGED <<status, progress, diskVars, registry, lock, taskVars>>

\* retry_chunk: only a failed chunk is retried; the work goes on in background.
BeginRetry(r, c, p) ==
    /\ Begin(r, "retry", c, "chunkrun", p)
    /\ chunks[c][p] = "failed"
    /\ chunks' = [chunks EXCEPT ![c][p] = "open"]
    /\ UNCHANGED <<rowVars, diskVars, registry, lock, taskVars>>

\* The end of run_chunk; the row may be gone (mark_chunk_done is then an Err).
ChunkEnds(c, p, outcome) ==
    chunks' = IF chunks[c][p] = "open" THEN [chunks EXCEPT ![c][p] = outcome] ELSE chunks

RetryEnds(r) ==
    /\ reqPc[r] = "chunkrun"
    /\ \E outcome \in {"done", "failed"} :
         /\ ChunkEnds(call[r], part[r], outcome)
         /\ Go(r, IF outcome = "done" /\ chunks[call[r]][part[r]] = "open"
                  THEN "resume" ELSE "done")
    /\ UNCHANGED <<rowVars, diskVars, registry, lock, taskVars>>

\* maybe_resume_pipeline_after_chunk
MaybeResume(r) ==
    LET c == call[r] IN
    /\ reqPc[r] = "resume"
    /\ Go(r, IF AllChunksDone(c) /\ Exists(c) /\ ~(status[c] = "ready" /\ c \notin recapFailed)
             THEN "check" ELSE "done")
    /\ UNCHANGED <<rowVars, chunks, diskVars, registry, lock, taskVars>>

BeginRegen(r, c) ==
    /\ Begin(r, "regen", c, "check", "body")
    /\ UNCHANGED <<rowVars, chunks, diskVars, registry, lock, taskVars>>

BeginCancel(r, c) ==
    /\ Begin(r, "cancel", c, "take", "body")
    /\ UNCHANGED <<rowVars, chunks, diskVars, registry, lock, taskVars>>

\* Mutant: delete_call as it was before it aborted the call's task.
BeginDeleteNoAbort(r, c) ==
    /\ Begin(r, "delete", c, "rows", "body")
    /\ UNCHANGED <<rowVars, chunks, diskVars, registry, lock, taskVars>>

BeginDelete(r, c) ==
    /\ Begin(r, "delete", c, "take", "body")
    /\ UNCHANGED <<rowVars, chunks, diskVars, registry, lock, taskVars>>

\* process_final_chunk: insert the open chunk's row and transcribe it, unless
\* its audio is gone; without an engine the row stays pending.
FinalChunk(r) ==
    LET c == call[r] IN
    /\ reqPc[r] = "final"
    /\ \/ /\ c \in dirs /\ Exists(c)
          /\ chunks' = [chunks EXCEPT ![c]["tail"] = IF @ = "none" THEN "open" ELSE @]
          /\ \E pc \in {"finalrun", "spawn"} : Go(r, pc)
       \/ /\ c \notin dirs \/ ~Exists(c)
          /\ UNCHANGED chunks
          /\ Go(r, "spawn")
    /\ UNCHANGED <<rowVars, diskVars, registry, lock, taskVars>>

FinalChunkEnds(r) ==
    /\ reqPc[r] = "finalrun"
    /\ \E outcome \in {"done", "failed"} : ChunkEnds(call[r], "tail", outcome)
    /\ Go(r, "spawn")
    /\ UNCHANGED <<rowVars, diskVars, registry, lock, taskVars>>
-----------------------------------------------------------------------------
(* PipelineRunner *)

\* Pre-flight of spawn_reprocess and spawn_regen: the row exists.
CheckRow(r) ==
    /\ reqPc[r] = "check"
    /\ Go(r, IF ~Exists(call[r]) THEN "done" ELSE IF op[r] = "regen" THEN "guard" ELSE "take")
    /\ UNCHANGED <<rowVars, chunks, diskVars, registry, lock, taskVars>>

\* Mutant: no contains_key check.
GuardMissing(r) ==
    /\ reqPc[r] = "guard"
    /\ Go(r, "spawn")
    /\ UNCHANGED <<rowVars, chunks, diskVars, registry, lock, taskVars>>

\* spawn_regen: contains_key; the mutex is released before the spawn.
Guard(r) ==
    /\ reqPc[r] = "guard"
    /\ LockFree
    /\ Go(r, IF registry[call[r]] = None THEN "spawn" ELSE "done")
    /\ UNCHANGED <<rowVars, chunks, diskVars, registry, lock, taskVars>>

\* What follows the removal of the old handle, if there was one.
AfterTake(o, found) ==
    IF o = "cancel" THEN (IF found THEN "probe" ELSE "done")
    ELSE IF o = "delete" THEN "rows" ELSE "spawn"

\* spawn_reprocess keeps the mutex in the `if let` scrutinee while it joins
\* the old task; cancel and abort_silently release it first.
JoinsUnderLock(o) == o \in {"reprocess", "retry"}

\* Remove the entry and abort what it names.
TakeOld(r) ==
    LET t == registry[call[r]] IN
    /\ reqPc[r] = "take"
    /\ LockFree
    /\ t # None
    /\ registry' = [registry EXCEPT ![call[r]] = None]
    /\ aborted' = aborted \cup {t}
    /\ old' = [old EXCEPT ![r] = t]
    /\ reqPc' = [reqPc EXCEPT ![r] = "await"]
    /\ lock' = IF JoinsUnderLock(op[r]) THEN r ELSE lock
    /\ UNCHANGED <<rowVars, chunks, diskVars, taskPc, op, call, part>>

TakeNothing(r) ==
    /\ reqPc[r] = "take"
    /\ LockFree
    /\ registry[call[r]] = None
    /\ Go(r, AfterTake(op[r], FALSE))
    /\ UNCHANGED <<rowVars, chunks, diskVars, registry, lock, taskVars>>

\* Mutant: abort() without waiting for the future to be dropped.
JoinedAtOnce(r) ==
    /\ reqPc[r] = "await"
    /\ Go(r, AfterTake(op[r], TRUE))
    /\ lock' = IF lock = r THEN None ELSE lock
    /\ UNCHANGED <<rowVars, chunks, diskVars, registry, taskVars>>

\* `let _ = old.await`: the old future has finished or has been dropped.
Joined(r) ==
    /\ reqPc[r] = "await"
    /\ taskPc[old[r]] = "ended"
    /\ Go(r, AfterTake(op[r], TRUE))
    /\ lock' = IF lock = r THEN None ELSE lock
    /\ UNCHANGED <<rowVars, chunks, diskVars, registry, taskVars>>

FirstStep(o) == IF o = "initial" THEN "transcribe" ELSE IF o = "regen" THEN "regen" ELSE "pre"

\* Mutant: the future starts working before its handle is inserted.
SpawnNoBarrier(r) ==
    /\ reqPc[r] = "spawn"
    /\ Step(r, FirstStep(op[r]))
    /\ Go(r, "insert")
    /\ UNCHANGED <<rowVars, chunks, diskVars, registry, lock>>

\* spawn_registered, in its three steps: the future is spawned and waits at
\* the barrier; its handle is inserted; the barrier is lifted.
Spawn(r) ==
    /\ reqPc[r] = "spawn"
    /\ Step(r, "barrier")
    /\ Go(r, "insert")
    /\ UNCHANGED <<rowVars, chunks, diskVars, registry, lock>>

Insert(r) ==
    /\ reqPc[r] = "insert"
    /\ LockFree
    /\ registry' = [registry EXCEPT ![call[r]] = r]
    /\ Go(r, "send")
    /\ UNCHANGED <<rowVars, chunks, diskVars, lock, taskVars>>

Send(r) ==
    /\ reqPc[r] = "send"
    /\ IF taskPc[r] = "barrier" THEN Step(r, FirstStep(op[r])) ELSE UNCHANGED taskVars
    /\ Go(r, "done")
    /\ UNCHANGED <<rowVars, chunks, diskVars, registry, lock>>

\* Mutant: a status no reader of the column knows.
MakeUnknown(c) ==
    /\ status' = IF Exists(c) THEN [status EXCEPT ![c] = "done"] ELSE status
    /\ progress' = progress \ {c}

\* mark_call_ready is not gated by the status.
MakeReady(c) ==
    /\ status' = IF Exists(c) THEN [status EXCEPT ![c] = "ready"] ELSE status
    /\ progress' = progress \ {c}

\* fail_recording_with_reason acts on active calls only.
MakeFailed(c) ==
    /\ status' = IF status[c] = "processing" THEN [status EXCEPT ![c] = "failed"] ELSE status
    /\ progress' = IF status[c] = "processing" THEN progress \ {c} ELSE progress

\* Mutant: a cancelled call is shown as ready whatever was made of it.
ProbeAssumesReady(r) ==
    /\ reqPc[r] = "probe"
    /\ Go(r, "makeready")
    /\ UNCHANGED <<rowVars, chunks, diskVars, registry, lock, taskVars>>

\* cancel: is transcript.md there?  Only then decide what to restore.
Probe(r) ==
    /\ reqPc[r] = "probe"
    /\ Go(r, IF call[r] \in transcripts THEN "makeready" ELSE "makefailed")
    /\ UNCHANGED <<rowVars, chunks, diskVars, registry, lock, taskVars>>

Restore(r) ==
    /\ \/ reqPc[r] = "makeready" /\ MakeReady(call[r])
       \/ reqPc[r] = "makefailed" /\ MakeFailed(call[r])
    /\ Go(r, "done")
    /\ UNCHANGED <<recapFailed, chunks, diskVars, registry, lock, taskVars>>

\* delete_call: one transaction on the rows, then the directory.
DeleteRows(r) ==
    LET c == call[r] IN
    /\ reqPc[r] = "rows"
    /\ status' = [status EXCEPT ![c] = "absent"]
    /\ progress' = progress \ {c}
    /\ recapFailed' = recapFailed \ {c}
    /\ chunks' = [chunks EXCEPT ![c] = [p \in Parts |-> "none"]]
    /\ Go(r, "dir")
    /\ UNCHANGED <<diskVars, registry, lock, taskVars>>

RemoveDir(r) ==
    LET c == call[r] IN
    /\ reqPc[r] = "dir"
    /\ dirs' = dirs \ {c}
    /\ audio' = audio \ {c}
    /\ transcripts' = transcripts \ {c}
    /\ Go(r, "done")
    /\ UNCHANGED <<rowVars, chunks, registry, lock, taskVars>>
-----------------------------------------------------------------------------
(* Tasks *)

\* pipeline::reprocess_call: two early errors leave the status alone ...
ReprocessGivesUp(t) ==
    /\ taskPc[t] = "pre"
    /\ ~Exists(call[t]) \/ call[t] \notin audio
    /\ Step(t, "cleanup")
    /\ UNCHANGED <<rowVars, chunks, diskVars, registry, lock, reqPc, argVars>>

\* ... the halt gate on unfinished chunks fails the call ...
ReprocessHalts(t) ==
    LET c == call[t] IN
    /\ taskPc[t] = "pre"
    /\ Exists(c) /\ c \in audio
    /\ HasChunks(c) /\ ~AllChunksDone(c)
    /\ MakeFailed(c)
    /\ recapFailed' = recapFailed \cup {c}
    /\ Step(t, "cleanup")
    /\ UNCHANGED <<chunks, diskVars, registry, lock, reqPc, argVars>>

\* ... else the call is back in processing.
ReprocessCall(t) ==
    LET c == call[t] IN
    /\ taskPc[t] = "pre"
    /\ Exists(c) /\ c \in audio
    /\ HasChunks(c) => AllChunksDone(c)
    /\ status' = [status EXCEPT ![c] = "processing"]
    /\ progress' = progress \ {c}
    /\ Step(t, "transcribe")
    /\ UNCHANGED <<recapFailed, chunks, diskVars, registry, lock, reqPc, argVars>>

\* prepare_local_run: the engine's readiness gate.
EngineNotReady(t) ==
    /\ taskPc[t] = "transcribe"
    /\ Step(t, "fail")
    /\ UNCHANGED <<rowVars, chunks, diskVars, registry, lock, reqPc, argVars>>

\* Each stage announces itself (set_call_progress, not gated by the status).
StageAnnounced(t) == progress' = Mark(progress, call[t])

\* transcribe_tracks, diarize_tracks: from the chunks if there are any (their
\* audio is merged into the root WAVs on the way), else from the root WAVs.
Transcribe(t) ==
    LET c == call[t] IN
    /\ taskPc[t] = "transcribe"
    /\ StageAnnounced(t)
    /\ audio' \in {audio} \cup (IF HasChunks(c) /\ c \in dirs THEN {audio \cup {c}} ELSE {})
    /\ Step(t, IF AnyChunkDone(c) \/ (~HasChunks(c) /\ c \in audio) THEN "merge" ELSE "fail")
    /\ UNCHANGED <<status, recapFailed, chunks, dirs, transcripts, registry, lock, reqPc, argVars>>

\* stage_merge_artifacts: create_dir_all, transcript.md.
MergeArtifacts(t) ==
    /\ taskPc[t] = "merge"
    /\ StageAnnounced(t)
    /\ dirs' = dirs \cup {call[t]}
    /\ transcripts' = transcripts \cup {call[t]}
    /\ Step(t, "recap")
    /\ UNCHANGED <<status, recapFailed, chunks, audio, registry, lock, reqPc, argVars>>

\* run_recap: a failing recap is recorded and does not fail the run.
Recap(t) ==
    /\ taskPc[t] = "recap"
    /\ StageAnnounced(t)
    /\ recapFailed' \in {recapFailed \ {call[t]}, Mark(recapFailed, call[t])}
    /\ Step(t, "ready")
    /\ UNCHANGED <<status, chunks, diskVars, registry, lock, reqPc, argVars>>

\* A stage returns Err: STT, diarization, a write, the LLM's readiness gate.
StageFails(t) ==
    /\ taskPc[t] \in {"transcribe", "merge", "recap"}
    /\ StageAnnounced(t)
    /\ Step(t, "fail")
    /\ UNCHANGED <<status, recapFailed, chunks, diskVars, registry, lock, reqPc, argVars>>

\* run: mark_call_ready ...
RunOk(t) ==
    /\ taskPc[t] = "ready"
    /\ MakeReady(call[t])
    /\ Step(t, "cleanup")
    /\ UNCHANGED <<recapFailed, chunks, diskVars, registry, lock, reqPc, argVars>>

\* Mutant: the failing write leaves run() at once, without failing the call.
ReadyWriteReturns(t) ==
    /\ taskPc[t] = "ready"
    /\ Step(t, "cleanup")
    /\ UNCHANGED <<rowVars, chunks, diskVars, registry, lock, reqPc, argVars>>

\* ... or the failure of that write, which becomes a failed run.
ReadyWriteFails(t) ==
    /\ taskPc[t] = "ready"
    /\ Step(t, "fail")
    /\ UNCHANGED <<rowVars, chunks, diskVars, registry, lock, reqPc, argVars>>

RunFailed(t) ==
    /\ taskPc[t] = "fail"
    /\ MakeFailed(call[t])
    /\ Step(t, "cleanup")
    /\ UNCHANGED <<recapFailed, chunks, diskVars, registry, lock, reqPc, argVars>>

\* regenerate_recap: clear the old failure, generate, record the outcome.
RegenStart(t) ==
    LET able == Exists(call[t]) /\ call[t] \in transcripts IN
    /\ taskPc[t] = "regen"
    /\ recapFailed' = IF able THEN recapFailed \ {call[t]} ELSE recapFailed
    /\ Step(t, IF able THEN "regenrun" ELSE "cleanup")
    /\ UNCHANGED <<status, progress, chunks, diskVars, registry, lock, reqPc, argVars>>

RegenEnds(t) ==
    /\ taskPc[t] = "regenrun"
    /\ recapFailed' \in {recapFailed \ {call[t]}, Mark(recapFailed, call[t])}
    /\ Step(t, "cleanup")
    /\ UNCHANGED <<status, progress, chunks, diskVars, registry, lock, reqPc, argVars>>

\* regenerate_title: the text must be there; what changes is the title alone.
RegenTitle(t) ==
    /\ taskPc[t] = "regen"
    /\ Step(t, "cleanup")
    /\ UNCHANGED <<rowVars, chunks, diskVars, registry, lock, reqPc, argVars>>

\* The tail of every task: remove the entry of ITS CALL from the registry,
\* whichever task the entry names.
Cleanup(t) ==
    /\ taskPc[t] = "cleanup"
    /\ LockFree
    /\ registry' = [registry EXCEPT ![call[t]] = None]
    /\ Step(t, "ended")
    /\ UNCHANGED <<rowVars, chunks, diskVars, lock, reqPc, argVars>>

\* Mutant: the wait for the registry mutex cannot be cancelled.
DropUnlessWaiting(t) ==
    /\ t \in aborted
    /\ taskPc[t] \in LivePcs \ {"cleanup"}
    /\ Step(t, "ended")
    /\ UNCHANGED <<rowVars, chunks, diskVars, registry, lock, reqPc, argVars>>

\* The runtime drops an aborted future at one of its awaits.
Drop(t) ==
    /\ t \in aborted
    /\ taskPc[t] \in LivePcs
    /\ Step(t, "ended")
    /\ UNCHANGED <<rowVars, chunks, diskVars, registry, lock, reqPc, argVars>>
-----------------------------------------------------------------------------
Issue(r) ==
    \E c \in Calls :
       \/ BeginReprocess(r, c) \/ BeginRegen(r, c)
       \/ BeginCancel(r, c) \/ BeginDelete(r, c)
       \/ \E p \in Parts : BeginRetry(r, c, p)

Handle(r) ==
    \/ ResetForReprocess(r) \/ RetryEnds(r) \/ MaybeResume(r)
    \/ FinalChunk(r) \/ FinalChunkEnds(r)
    \/ CheckRow(r) \/ Guard(r) \/ TakeOld(r) \/ TakeNothing(r) \/ Joined(r)
    \/ Spawn(r) \/ Insert(r) \/ Send(r)
    \/ Probe(r) \/ Restore(r) \/ DeleteRows(r) \/ RemoveDir(r)

\* run_local_inner
RunInner(t) ==
    \/ EngineNotReady(t) \/ Transcribe(t) \/ MergeArtifacts(t) \/ Recap(t) \/ StageFails(t)

\* The work of spawn_regen.  What panics is caught and ends as an error does.
Regenerates(t) == RegenStart(t) \/ RegenEnds(t) \/ RegenTitle(t)

Work(t) ==
    \/ ReprocessGivesUp(t) \/ ReprocessHalts(t) \/ ReprocessCall(t)
    \/ RunInner(t)
    \/ RunOk(t) \/ ReadyWriteFails(t) \/ RunFailed(t)
    \/ Regenerates(t) \/ Cleanup(t)

\* All requests were made and all work has ended.
Terminated == Quiet /\ (\A r \in Reqs : reqPc[r] = "done") /\ UNCHANGED vars

Next ==
    \/ \E r \in Reqs : Issue(r) \/ Handle(r) \/ Work(r) \/ Drop(r)
    \/ Terminated

Spec == Init /\ [][Next]_vars

\* Handlers and tasks are futures of a multi-threaded runtime: each is polled
\* again when it can go on, and an aborted future is dropped.  Nothing obliges
\* a user to issue a command.
Fairness == \A r \in Reqs : WF_vars(Handle(r)) /\ WF_vars(Work(r)) /\ WF_vars(Drop(r))

FairSpec == Spec /\ Fairness
-----------------------------------------------------------------------------
(* Properties *)

\* The registry never holds the handle of a task that is over or is being
\* aborted: a leaked handle would make spawn_regen answer
\* `call_already_processing` until the application restarts (the race the
\* registration barrier of spawn_registered closes).
NoStaleHandle ==
    \A c \in Calls : registry[c] # None =>
       /\ taskPc[registry[c]] \in LivePcs
       /\ registry[c] \notin aborted
       /\ call[registry[c]] = c

\* When cancel writes the restored status, when delete_call removes the rows
\* and the directory, and when spawn_reprocess starts the new run, the task
\* they aborted can no longer write to the call.
JoinedBeforeWrite ==
    \A r \in Reqs :
       reqPc[r] \in {"spawn", "insert", "probe", "makeready", "makefailed", "rows", "dir"}
         /\ old[r] # None
       => taskPc[old[r]] = "ended"

\* The registry is the source of truth for the work in progress
\* (get_active_pipeline_count): every task past the barrier that nobody has
\* aborted can be found, cancelled and counted through it.
RegistryTracksWork ==
    \A t \in Reqs : Running(t) /\ t \notin aborted => registry[call[t]] = t

\* A deleted call stays deleted: once everything has come to rest, no run has
\* recreated its directory behind delete_call (the reason for abort_silently).
NoGhostDirectory == Quiet => \A c \in Calls : ~Exists(c) => c \notin dirs

\* Once everything has come to rest no call claims to be in progress: the only
\* call left in `processing` is one with no root audio, whose reprocess gave up
\* before touching the status; and no progress bar is frozen on a settled call.
NothingLeftInProgress ==
    Quiet => \A c \in Calls :
       /\ status[c] = "processing" => c \notin audio
       /\ c \in progress => status[c] = "processing"

\* No command hangs: joining an aborted task under the registry mutex, which
\* the task itself needs in order to end normally, cannot deadlock.
CommandsReturn == \A r \in Reqs : Active(r) ~> ~Active(r)

\* One call as the list of calls shows it.
Lifecycle(c) ==
    INSTANCE CallLifecycle WITH
        stage <- IF Exists(c) THEN status[c] ELSE "deleted",
        text <- Exists(c) /\ c \in transcripts

\* Whatever commands and tasks do with it, each call keeps what CallLifecycle
\* promises.
KeepsPromise == [][\A c \in Calls : Lifecycle(c)!Step]_vars
=============================================================================
