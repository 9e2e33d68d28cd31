# A verification development of Wotold

Wotold is a desktop application (Tauri: Rust core, React UI, a Swift capture
sidecar) that records calls on the user's machine, transcribes them locally,
tells who spoke, writes a recap and answers questions about past calls. This
directory holds TLA+ modules of its core, the TLC configurations that check
them, and TLAPS proofs of the most important facts.

Paths below are relative to `src/apps/desktop/src-tauri/src/` unless they name
the sidecar (`src/apps/desktop/sidecars/macos-audio/`).

    tlc -workers 2 -config MCTasksSerial.cfg MCPipelineTasks.tla
    tlapm PipelineTasks_proofs.tla      (likewise ChunkedRecording_proofs,
                                         CrashRecovery_proofs, CaptureSession_proofs,
                                         Services_proofs, Content_proofs, Text_proofs)

`Services_proofs` and `Content_proofs` take about four minutes from nothing,
`Text_proofs` six, the others one or two.

## 1. The system

| component | code | state | operations | interacts with |
|---|---|---|---|---|
| recording commands | `commands/recording.rs` | `AppState.recording` (the session), handles of orchestrator and silence watch | start, pause, resume, stop; the tail of stop (final chunk, pipeline) | everything below |
| capture sidecar | `CommandRouter.swift`, `AudioRecorder.swift` | open WAV files, engine | start, rotate, pause, stop; may die | commands on stdin, events on stdout |
| session, dispatcher | `audio/macos.rs` | child process, terminal event | write a command, fan events out, terminal event | sidecar, orchestrator, silence watch |
| silence watch | `audio/silence_watch/`, `commands/silence.rs` | the current silent run | suggest a stop, stop automatically, place of the cut | dispatcher, stop |
| call detection | `audio/call_detect.rs`, `commands/call_detection.rs` | probe process, cooldown | enable, disable, suggest | session |
| chunk orchestrator, rotation window | `pipeline/chunk_orchestrator.rs`, `commands/chunked_setup.rs`, `audio/silence_detector.rs` | `chunk_idx`, `rotate_pending`, RMS samples, pauses | find a cut, rotate, count `rotated`, sweep and drain at the stop | session (mutex), chunk runner (spawned) |
| chunk runner, rows | `pipeline/chunk_runner.rs`, `db/chunks.rs` | `call_chunks.status` | pending, processing, done, failed | whisper sidecar, database |
| resource queue | `pipeline/resource_queue.rs` | semaphores, waiting list, busy | acquire, drop | every run of a model |
| sidecar runs | `local_engine/stt.rs`, `llm.rs`, `sidecar.rs`, `audio/permissions.rs` | private files, child process | write, run with a timeout, clean up | resource queue |
| task registry | `services/pipeline_runner.rs` | `pipeline_tasks: call_id -> JoinHandle` | spawn_initial, spawn_reprocess, spawn_regen, cancel, abort_silently | all commands on a call |
| pipeline run | `pipeline/mod.rs`, `local_run.rs`, `local_llm.rs` | `calls.status`, progress, artifacts on disk | transcribe, merge, recap, ready or failed | rows, files, engine |
| transcript | `pipeline/chunk_assembly.rs`, `speaker_reclustering.rs`, `diarize.rs`, `merge.rs`, `owner_identify.rs` | words, speakers and language of two tracks; `degraded_flags` | cut, cluster, diarize, unite | chunk rows, pipeline run |
| speakers, contacts | `db/calls/speakers.rs`, `suggestions.rs`, `db/voice_samples.rs`, `db/contacts.rs`, `pipeline/matching.rs`, `voice_backfill.rs` | `call_speakers`, `voice_samples`, `contacts` | suggest, bind, confirm, undo, learn, forget | pipeline run, UI |
| recap generation | `pipeline/local_orchestrator.rs`, `refine_chain.rs`, `recap.rs`, `chunker.rs`, `summary_validator.rs` | the six places a recap is written to, the banner | passes, validation, write; bulk regeneration | language model, registry |
| language model server | `pipeline/local_llm.rs`, `local_engine/llm_server.rs` | the resident process, its pidfile | start, replace, use, stop | settings, recap, assistant |
| provisioning, models | `local_engine/provisioning.rs`, `models.rs`, `model_integrity.rs` | model files, verdicts, locks | download, check, remove | readiness |
| audio files | `pipeline/audio_merger.rs`, `audio/wav_trim.rs` | root and chunk WAVs, `.merged` | promote, merge, trim | player, pipeline, recovery |
| call row | `db/calls/*.rs` | `calls` | status changes, pause bookkeeping, deletion | |
| application | `state.rs`, `app_startup.rs`, `app_window.rs`, `updater.rs`, `commands/admin.rs` | process, database file, directories | start (quarantine, sweep, orphans), quit, update, wipe | session, registry |
| crash recovery | `commands/recovery.rs`, `pipeline/chunk_recovery.rs` | `.auto-recover-tries` | rebuild rows from WAVs, transcribe, pipeline | registry, rows, files |
| parked calls, readiness | `commands/parked_resume.rs`, `local_engine/readiness.rs` | `.parked-resume-tries` | park when the engine is not ready, resume when it is | recovery, registry |
| assistant index | `assistant/indexer.rs`, `embed_cache.rs` | passages, vectors, state of the index, the copy in memory | index, remove, backfill | ready calls, embedder |
| assistant answers | `assistant/mod.rs`, `router.rs`, `retrieval.rs`, `fusion.rs`, `budget.rs`, `answer.rs` | chats, messages | ask, retrieve, budget, answer with sources | index, language model |
| the rest | settings, prompts, recording widget, UI, telemetry | | | |

What is hard here: commands, tasks and the tail of a stop run concurrently on
one call and meet in a registry that is read and written in separate critical
sections; `abort()` is asynchronous; the sidecar and the orchestrator agree on
an index they never exchange; the stop races rotations on their way; session,
orchestrator handles and database are five locks and no transaction; pauses
shift clocks that three components keep for themselves; a crash leaves rows,
files and tries behind, and three mechanisms take a call up again; processes,
private files and permits must go wherever a task is aborted; what a user
decided about a speaker must survive a run that was under way; an index written
in steps must tell when it is complete. `PROJECT.json` lists each hazard at its
line with the properties that catch it, or why none does.

What makes the components correct:

- registry: no stale handle, every running task is in it, nobody writes before
  the task it aborted has ended, no command hangs;
- call: nothing is left in progress, a deleted call stays deleted, `ready`
  means that there is a transcript;
- chunks: indices agree, no recorded file is truncated, no open file is read, a
  transcript that claims to be complete is, a stop ends;
- session: whatever captures is owned by the session, the row tells what was
  captured, no recording is lost to the way it was stopped;
- crash and start: no row is stuck, recoveries are bounded, no audio is deleted
  by a start, an interrupted or parked call is taken up again, a start leaves no
  row and no directory that nobody works on;
- services: a ready engine has good models, one process per resource, a stop or
  a suggestion is deserved, a chunk is as long as the window says, a recap is
  replaced as a whole or not at all;
- content: no word, no sound and no decision of the user is lost on the way, the
  index says what the call says, an answer shows only what was found.

## 2. Modules

A module of a component declares its constants with a named assumption, its
state, one action per step between two awaits, lock operations or statements,
and its properties. The composing modules are `MC*`.

| module | models | its code |
|---|---|---|
| `CallLifecycle` | what is promised of one call; abstract | the stages the list of calls shows |
| `PipelineTasks` | the registry, the commands on a call, the tasks | `services/pipeline_runner.rs`, `commands/pipeline.rs`, `commands/calls.rs`, `commands/chunk_retry.rs`, `pipeline/mod.rs`, `local_run.rs` |
| `ChunkedRecording` | sidecar, orchestrator, chunk runs and stop of one recording | `chunk_orchestrator.rs`, `chunked_setup.rs`, `recording.rs`, `audio/macos.rs`, `AudioRecorder.swift` |
| `CrashRecovery` | one call across crashes and restarts | `db/calls/sweep.rs`, `orphan_reconcile.rs`, `recovery.rs`, `chunk_recovery.rs`, `parked_resume.rs` |
| `ResourceQueue` | the turn-taking at one model | `resource_queue.rs`, `stt.rs`, `sidecar.rs`, `diarization.rs` |
| `CaptureSession` | start, pause, resume, stop and automatic stop on one session | `recording.rs`, `silence.rs`, `audio/macos.rs`, `db/calls/lifecycle.rs`, `pause.rs` |
| `ResidentServer` | the resident language model and a request to it | `local_llm.rs`, `llm_server.rs`, `commands/local_engine.rs` |
| `Provisioning` | models on disk: download, check, verdict, removal | `models.rs`, `provisioning.rs`, `model_integrity.rs`, `readiness.rs` |
| `SilenceWatch` | the automaton over samples, pauses and snoozes | `silence_watch/` |
| `RotationWindow` | when a chunk may be cut, with pauses | `chunk_orchestrator.rs`, `silence_detector.rs` |
| `CallDetect` | the probe for calls and its cooldown | `call_detect.rs` |
| `RecapGeneration` | passes, retries, the six writes, the banner, the bulk run | `local_orchestrator.rs`, `refine_chain.rs`, `recap.rs`, `recap_progress.rs` |
| `RecapText` | cutting a long transcript; removal of duplicates | `chunker.rs`, `summary_validator.rs` |
| `TranscriptAssembly` | words, speakers, languages of two tracks to one timeline | `chunk_assembly.rs`, `speaker_reclustering.rs`, `diarize.rs`, `merge.rs` |
| `Speakers` | speakers, contacts, samples: runs against commands | `matching.rs`, `voice_backfill.rs`, `db/calls/speakers.rs`, `db/voice_samples.rs` |
| `AudioFiles` | promotion, merge, sentinel, trim, deletion | `audio_merger.rs`, `wav_trim.rs` |
| `AssistantIndex` | passages, vectors, the state of the index, the cached copy | `indexer.rs`, `embed_cache.rs` |
| `AssistantAnswer` | one question, from its chat to the sources shown | `assistant/` but the index |
| `AppLifecycle` | start, quit, update and wipe around the calls | `state.rs`, `app_window.rs`, `updater.rs`, `admin.rs` |
| `SidecarRun` | one run of a process, from its files to its guards | `stt.rs`, `llm.rs`, `sidecar.rs`, `permissions.rs` |

### PipelineTasks: the registry and the tasks

One *request* is one invocation of a command, or the tail of `stop_recording`;
`reqPc[r]` is the await it is suspended at. It spawns at most one *task*, which
carries the name of its request; `taskPc[t]` is where its future is. The
registry is `registry[c]`; `lock` is the registry mutex while it is held across
an await (everywhere else a critical section is one step). `aborted` are the
tasks on which `abort()` was called: they may take further steps until `Drop`.
The file system of a call is three sets (`dirs`, `audio`, `transcripts`), the
`call_chunks` rows are two (those written while recording, and the final one).

| actions | code |
|---|---|
| `BeginReprocess`, `ResetForReprocess`, `BeginRegen`, `BeginCancel`, `BeginDelete`, `DeleteRows`, `RemoveDir` | the commands of `commands/pipeline.rs`, `commands/calls.rs` |
| `BeginRetry`, `RetryEnds`, `MaybeResume` | `commands/chunk_retry.rs` |
| `FinalChunk`, `FinalChunkEnds` | `process_final_chunk` |
| `CheckRow`, `Guard`, `TakeOld`, `TakeNothing`, `Joined`, `Probe`, `Restore` | `spawn_reprocess`, `spawn_regen`, `cancel`, `abort_silently` |
| `Spawn`, `Insert`, `Send`, `Cleanup` | `spawn_registered` and its wrapper |
| `Reprocess*`, `EngineNotReady`, `Transcribe`, `MergeArtifacts`, `Recap`, `StageFails`, `RunOk`, `ReadyWriteFails`, `RunFailed` | `pipeline::reprocess_call`, `run`, `run_local_inner` |
| `RegenStart`, `RegenEnds` | `regenerate_recap` |
| `Drop` | tokio, external |

`Overlap` says whether commands on one call may be in flight together. The UI
disables its buttons while a command runs, but the tail of a stop, the
resumption after a chunk retry and parked calls reach the registry without it.

### ChunkedRecording: sidecar, orchestrator and stop

`cmds` and `events` are the two pipes, `rotq` the orchestrator's channel,
`terminal` the one-shot terminal event after which the dispatcher is gone.
`orch` and `stopPc` are where the orchestrator and the stop (with the finalize
task) are; `idx` and `pending` are the orchestrator's own variables; `run[k]`
and `row[k]` are the task and the row of chunk `k`. A tick may find a cut at any
time: the window arithmetic and RMS samples only restrict when, and are
`RotationWindow`. `quiet` is a history variable: no rotation was on its way when
the stop began.

### CrashRecovery: one call across restarts

Rows, files and the two tries markers survive `Crash`; jobs, the live runs and
the registry do not. `Start`, `Sweep`, `Reconcile` are the start in its order (a
crash may come between any two), `AutoRecover` and `ParkedResume` what is
spawned after it. A job is a background task of the call and walks through
`drain` (after a stop), `reconstruct`, `claim`/`stt` per chunk (recovery),
`precheck` (reprocess), and the pipeline (`assert`, `gate`, `write`, `recap`,
`ready`). The engine is one bit, with `EngineReady` and `EngineLost` at any time.

### CallLifecycle: the promise, and its two implementations

`CrashRecovery` and `PipelineTasks` instantiate it with their status and their
transcript (`stage <- status`, `text <- md`; per call in `PipelineTasks`), and
`KeepsPromise` says that every step of theirs is a step of the abstract machine
or none: a call is ready only with a transcript, a transcript stays as long as
its call, a ready call fails only after it was taken up again, a deleted call
never returns.

### The session, the services and the content

`CaptureSession` has up to two commands in flight on one session; a command is
its sequence of critical sections on the session, the orchestrator's handles,
the silence watch and the row, each with its failure. `RotationWindow` and
`SilenceWatch` are the arithmetic on clocks that these commands influence; both
keep a history of what was heard or recorded, over which their properties are
stated, so that the state the code keeps cannot vouch for itself.

`RecapGeneration`, `Speakers`, `AssistantIndex` and `AudioFiles` each have a
writer in the background and the user (or a second writer) between any two of
its statements; a transaction is one step. `TranscriptAssembly`, `RecapText` and
`AssistantAnswer` carry the algorithms: one round of a loop of the code is one
step or one application of a recursive function, over inputs chosen from small
sets. Embeddings and what a model answers are open choices. A track of
`TranscriptAssembly` is the set of its words, which their times order; what
whisper may make of a chunk, or of a whole file, is the constant `Takes`.

`AppLifecycle` has a call as one row and one directory, and a recording or a
pipeline as a step at its beginning and one at its end; what it adds is the
process around them: a start step by step over a possibly damaged database, two
ways to quit, an update that installs itself, and the wipe.

### Composition

`MCChunkStop`, `MCSessions`, `MCServices` and `MCContent` put
components side by side in one run. The components of a run share no variable
and no lock, and every property is about one of them, so an interleaving of two
shows nothing that the two apart do not: a variable `focus` chooses one, the
others rest in one initial state. Components that do share state are one module:
session, watch, orchestrator handles and row in `CaptureSession`; sidecar,
orchestrator, runs and stop in `ChunkedRecording`; registry, tasks, rows and
files in `PipelineTasks`.

A module `X_proofs` extends `X` with its theorems. Three of them hold the theorems
of several modules, one section each: `Services_proofs` those of `SidecarRun`,
`Provisioning`, `CallDetect`, `RecapGeneration`, `AppLifecycle`, `ResourceQueue` and
`ResidentServer`; `Content_proofs` those of `RotationWindow`, `SilenceWatch`,
`AssistantIndex`, `Speakers` and `AudioFiles`; `Text_proofs` those of
`TranscriptAssembly`, `RecapText` and `AssistantAnswer`. `Induction` is what the
last two share.

## 3. Runs

| run | module | checks | instance | result |
|---|---|---|---|---|
| `tasks_serial` | `MCPipelineTasks` | `TypeOK`, `RegistryTracksWork`, `NoGhostDirectory`, `NothingLeftInProgress`, `CommandsReturn` | 1 call, 3 requests, all commands, no overlap | holds |
| `tasks_overlap` | `MCPipelineTasks` | `NoStaleHandle`, `JoinedBeforeWrite`, `KeepsPromise` | the same, overlapping, symmetric requests | holds |
| `tasks_clobber` | `MCPipelineTasks` | `RegistryTracksWork` | the same, overlapping | violated, finding 1 |
| `chunk_stop` | `MCChunkStop` | `TypeOK`, `NoReopen`, `IndicesAgree`, `TranscribesClosed`, `TailIsKept`, `LosesAtMostTheTail`, `StopEnds`; `QueueSafe`, `QueueMoves` | 4 chunks; 3 tasks in the queue, one of them blocking | holds |
| `chunk_race` | `MCChunkedRecording` | `NoSilentLoss` | 3 chunks | violated, finding 2 |
| `chunk_mic_lost` | `MCChunkedRecording` | `MicLegRevivable` | 3 chunks | violated, finding 3 |
| `recovery` | `MCCrashRecovery` | `TypeOK`, `NoStuckChunk`, `AutoRecoveryBounded`, `WholeRecordingKept`, `ChunkedParkedResumes`, `KeepsPromise` | 2 jobs, 3 chunks, 3 crashes, 2 engine changes, 2 tries each | holds |
| `recovery_orphan` | `MCCrashRecovery` | `LongRecordingKept` | 1 crash, 2 chunks | violated, finding 4 |
| `recovery_parked` | `MCCrashRecovery` | `ParkedResumes` | no crash, 2 chunks | violated, finding 5 |
| `sessions` | `MCSessions` | `SessionOwnsDevice`, `RowTellsCapture`, `NothingKeptIsLost`; `ServersRight` | 2 recordings, 2 commands at a time of 4; 2 starters, 2 presets, 2 servers | holds |
| `services` | `MCServices` | `EngineSound`; `StopIsDeserved`; `WindowKept`; `ProbeKept`; `RecapKept`; `SidecarsEnd`; `StartsClean` | see below | holds |
| `content` | `MCContent` | `TextKept`; `SpeakersKept`; `TranscriptTrue`; `AudioKept`; `IndexTrue`; `AnswerGrounded` | see below | holds |

A semicolon separates components. Where a component has one property, it is a
conjunction of named ones, each with its comment in the module; its type
invariant is one of them where the module states one. For each property
`PROJECT.json` names a mutant of the code (a dropped guard, a missing barrier, a
forgotten row) that makes the run find it violated.

What the last three passing runs show, in words:

- `sessions`: whatever fails in a start or a stop, and whatever it races with,
  nothing is captured that no session owns; two stops that come together, by
  hand and automatic, do not fail each other's call; a row says `recording`
  without a session only after a failed write; pause, length and cut in the row
  are those of the sound. Every live language model server is in the slot or in
  the hands of the start that waits for it, and answers with the model of the
  preset the request was made for.
- `services`: an engine that says it is ready has no bad file once the check of
  the start is through; an automatic stop has its full silence in every order of
  samples and controls, and its cut takes no voice; no chunk is shorter than the
  window, however it is paused, and none grows past it; the probe has one owner
  and keeps its cooldown; what the user sees of a recap is of one generation;
  processes, private files and permits go wherever a run is aborted; however the
  application ends and starts, a call of half a minute stays, and a start leaves
  no row and no directory that nobody works on.
- `content`: no turn is lost when a transcript is cut for the model, and
  duplicates go without meaning going; a decision about a speaker stands against
  a run that was under way; no word of a chunk is lost or moved by the assembly;
  the root WAV is the recording or is not there, with two mergers, a trim and a
  crash at any point; a ready call's index says what the call says; an answer
  shows only sources that were in its prompt.

Bounds. Calls meet only in the registry mutex, which is held across an await
only while an aborted task ends; one call therefore shows every race on a
registry entry, and three requests are one that spawned a task, one that
replaces it and one that comes between. The proofs of section 5 lift every safety
property of the registry to any number of calls and requests. Four chunks
allow a rotation before, during and after another one is on its way. Three
crashes allow one while recording, one in the recovery from it and one in the
recovery from that, with both tries used. The safety properties of `chunk_stop`,
`recovery`, `sessions` and `services` are proved without the bounds. `MaxAutoTries` and
`MaxParkedTries` are 2, and 3 in the code.

Two recordings are one and its successor, and a third start adds no race that a
session of another recording does not already have. `RotationWindow` runs at one
sample a minute with the code's window scaled to 9..11, and pauses one chunk for
at most 11 ticks, as long as the window is away (longer pauses: section 4).
`SilenceWatch` takes five samples or controls. The search
index has one call that is ready and one that is gone, and two tasks; the copy
of its vectors is checked with one task and one text (`search`), the chats
without a search (`chats`), a question that is searched for alone in its chat
(`ask`). A take of `TranscriptAssembly` has at most one word a track, which ends with its
chunk of two units: two chunks, cut in either, have words before, across and after
the cut and two words of one time on both tracks. In `Speakers` the setting for
automatic binding is on, which is the case
with more steps. `AppLifecycle` has two calls over two starts, one stop by the
user at a time and one graceful quit. `SidecarRun` has two runs of any kind. The
constants of the ranking, the budget and the chunker are smaller than in the
code, in the same order to each other.

The real system may stop at any point (nobody is obliged to record), so the
modules of the first three passing runs and of `recovery` have an explicit stuttering disjunct for
"everything has come to rest" and deadlock is checked there. The modules of
`sessions`, `services` and `content` come to rest at their bounds, in as many ways as they
have components; those three runs do not check deadlock.

Fairness. Request handlers, tasks, the dispatcher and the orchestrator are
futures of a multi-threaded runtime and are polled again when they can go on:
weak fairness of each. Aborted futures are dropped: weak fairness of `Drop`. A
whisper run is killed after 20 minutes, so the run of a chunk ends, and the one
that has a permit of the queue gives it back (`Advance`). The orchestrator's
choice of the stop branch has strong fairness, because ticks and rotations in
between disable it for a moment and a stop signal stays ready in `select!`. The
user restarts the application after a crash; nothing obliges a user to issue a
command, nor the engine to become ready.

## 4. What the runs found

1. *Registry* (`tasks_clobber`). Check and insertion are separate critical
   sections and the tail of a task removes whatever entry its call has: two
   commands in flight on one call leave a task the registry does not know.
2. *Stop against rotation* (`chunk_race`). The orchestrator is told to stop
   before the sidecar, so a rotation on its way is never counted; the call is
   ready without its last chunk. `LosesAtMostTheTail` holds: never more than it.
3. *Lost microphone file* (`chunk_mic_lost`). A rotation that closed a file and
   could not open the next one is answered with an event the orchestrator never
   sees; `rotate_pending` stays set and no later rotation reopens the file.
4. *Interrupted chunked recording* (`recovery_orphan`). The start measures the
   root WAV, which such a recording does not have, and deletes it.
5. *Parked full-file recording* (`recovery_parked`). Its recovery needs chunk
   WAVs, which it does not have; tries are spent on nothing.

Met while modelling, without a run of their own. The modules contain these
behaviours; where a property would fail on one, its statement names the exception
(`overlapped`, `missed`, `torn`, `blurred`, `left`, `loose`, ...).

*Recovery.* A try is spent when the engine is not ready at a start
(`recovery.rs:302`, described in `parked_resume.rs:5-9`); an interrupted
full-file recording gets a reason and is therefore not a candidate of the
automatic recovery that `sweep.rs:23-27` describes; recovered calls stay `failed`
until they are ready, the doc of `recover_chunked_call` notwithstanding; the doc
of `ensure_all_chunks_done` (`pipeline/mod.rs:222-224`) names a call site that now
uses the milder `chunks_ready`; `run_recap` can fail the call when the model went
away before it (`local_run.rs:533-539`) although its doc says a recap never does;
a final chunk left `pending` without an engine cannot be retried
(`chunk_retry.rs:47`); a chunk that ends after the drain's timeout is done in the
database and absent from the transcript.

*Capture.* After a pause longer than the window the cap of the window lies before
the oldest sample the detector keeps, and the chunk is not rotated again
(`chunk_orchestrator.rs:247-254` promises that it is). A failing
`ensure_chunk_dir` leaves a row `recording` until the next start. The comment at
`orphan_reconcile.rs:129` says that `start_recording` makes the directory before
the row; it does the reverse (`recording.rs:103-138`).

*Application.* The quarantine of a damaged database empties it, and the same
start removes the directories of all its calls. An update that has found the
application idle installs itself although a recording began while it downloaded;
the question does not see a stop in progress, and `apply_update` does not ask.
`graceful_shutdown` stops the capture and leaves the row `recording`, so that the
next start treats a chunked recording that was quit as in finding 4. A second
quit during the first finds no session and exits in the middle of the stop. The
wipe closes the pool under tasks and recordings that go on.

*Sidecars.* A write of a private file that fails half-way leaves the file. A
stream that closes without a terminal event lets go of a process that may live.
An exit by a signal counts as success. `one_shot` has no guard.

*Speakers.* A confirmed row survives a reprocessing in which its tag may be
another voice, and the backfill learns that voice. A suggestion of an earlier run
stays when the new one has none. Consent may be withdrawn between the backfill's
read and its write. Deleting a contact leaves its rows confirmed without one.

*Transcript.* Identification of the owner compares tags of one chunk with tags of
the call; microphone and system speakers of a chunk share a key; a failing
recognition of a chunk's system track leaves no flag.

*Audio.* A first chunk that cannot be read keeps the whole track from being
merged. A promotion that fails for one track is not made up for, because the
sentinel is shared. A merge for the player that ends late replaces a trimmed root.

*Assistant.* Two index tasks on one call may leave the older text. A task cut off
by the exit is not redone when the call has an entry already (the comment in
`commands/speakers.rs` expects it). Edits of titles and names do not re-index. An
item without an end counts as open-ended, so that later windows of its call are
dropped as overlapping (`budget.rs:71-76`). A search by words alone applies the
period after the limit. Adjacent windows share a turn, so the next one is always
dropped.

*Recap.* The verification of quotes cuts a long quote to its beginning after the
literal comparison failed.

## 5. Proofs

All theorems hold for every value of the constants that satisfies the named
assumption of the module. The assumptions say only that a null value is none of
the values it stands beside, that bounds are numbers, and what the constants of
the code are to each other:

| assumption | besides null values and numbers |
|---|---|
| `RegistryAssumption`, `ChunkAssumption`, `RecoveryAssumption`, `JobAssumption`, `AudioAssumption` | nothing |
| `QueueAssumption` | the blocking tasks are tasks |
| `CaptureAssumption`, `ServerAssumption`, `AppAssumption`, `DetectAssumption` | nothing; there is a preset, a start, a cooldown |
| `ProvisionAssumption` | no preset has the shared model for its own |
| `RecapAssumption` | the registered task is not one of the bulk runs |
| `SilenceAssumption` | the question comes before the stop |
| `RotationAssumption` | the window begins after the start and before its end |
| `IndexAssumption` | finitely many calls and at least one; the start's task is none of `spawn_index` |
| `TranscriptAssumption` | a take is a finite set of words that begin within the chunk and last, no text twice at one time; a chunk has a length, a cut is not at 0 |
| `TextAssumption` | blocks have a length, sizes and limits are not 0; the texts of items are finite sets of words |
| `AskAssumption` | limits are not 0; finitely many calls; a call's turns and rows are sequences, its turns begin at a time, its rows are of it and are a recap or items |
| `SpeakersAssumption` | contacts, tags and the owner are distinct; a contact that may be bound unasked (2 samples) needs no more samples than it may have (5) |

| module | theorem | states |
|---|---|---|
| `PipelineTasks_proofs` | `TypeCorrect` | `Spec => []TypeOK` |
| | `NoStaleHandleHolds` | `Spec => []NoStaleHandle` |
| | `JoinedBeforeWriteHolds` | `Spec => []JoinedBeforeWrite` |
| | `RegistryTracksWorkHolds` | `~Overlap => (Spec => []RegistryTracksWork)` |
| | `CallsKeepPromise` | `Spec => KeepsPromise` (implements `CallLifecycle`) |
| | `NoGhostDirectoryHolds` | `~Overlap => (Spec => []NoGhostDirectory)` |
| | `NothingLeftInProgressHolds` | `~Overlap => (Spec => []NothingLeftInProgress)` |
| `ChunkedRecording_proofs` | `TypeCorrect` | `Spec => []TypeOK` |
| | `NoReopenHolds` | `Spec => []NoReopen` |
| | `IndicesAgreeHold` | `Spec => []IndicesAgree` |
| | `TranscribesClosedHolds` | `Spec => []TranscribesClosed` |
| | `LosesAtMostTheTailHolds` | `Spec => []LosesAtMostTheTail` |
| | `TailIsKeptHolds` | `Spec => []TailIsKept` |
| `CrashRecovery_proofs` | `AutoRecoveryBoundedHolds` | `Spec => []AutoRecoveryBounded` |
| | `RecoveryTypeCorrect` | `Spec => []TypeOK` |
| | `NoStuckChunkHolds` | `Spec => []NoStuckChunk` |
| | `KeepsPromiseHolds` | `Spec => KeepsPromise` (implements `CallLifecycle`) |
| | `WholeRecordingKeptHolds` | `Spec => WholeRecordingKept` (an action property) |
| `CaptureSession_proofs` | `SessionOwnsDeviceHolds` | `CaptureSpec => []SessionOwnsDevice` |
| | `RowTellsCaptureHolds` | `CaptureSpec => []RowTellsCapture` |
| | `NothingKeptIsLostHolds` | `CaptureSpec => []NothingKeptIsLost` |
| `Services_proofs` | `QueueSafeHolds` | `QueueSpec => []QueueSafe` |
| | `ServersRightHolds` | `ServerSpec => []ServersRight` |
| | `SidecarsEndHolds` | `SidecarSpec => []SidecarsEnd` |
| | `EngineSoundHolds` | `ProvisionSpec => []EngineSound` |
| | `ProbeKeptHolds` | `DetectSpec => []ProbeKept` |
| | `RecapKeptHolds` | `RecapSpec => []RecapKept` |
| | `StartsCleanHolds` | `AppSpec => []StartsClean` |
| `Content_proofs` | `WindowKeptHolds` | `MaxPause <= WindowEnd => (RotationSpec => []WindowKept)` |
| | `StopIsDeservedHolds` | `SilenceSpec => []StopIsDeserved` |
| | `IndexTrueHolds` | `IndexSpec => []IndexTrue` |
| | `SpeakersKeptHolds` | `SpeakersSpec => []SpeakersKept` |
| | `AudioKeptHolds` | `AudioSpec => []AudioKept` |
| `Text_proofs` | `TranscriptTrueHolds` | `AsmSpec => []TranscriptTrue` |
| | `TextKeptHolds` | `TextSpec => []TextKept` |
| | `AnswerGroundedHolds` | `AskSpec => []AnswerGrounded` |
| | `OneFused` | two lists of passages have exactly one `Fused` list |

No property is inductive as it stands. Each proof has an inductive invariant that
is a conjunction of named parts, which TLC checked on the instance of the run
before it was proved; it holds initially, every action keeps it (one lemma per
action or group of actions), and the property follows from it.

*Registry.* `NoStaleHandle` needs to know that a task between spawn and
insertion is still at the barrier and not aborted (its handle is known to nobody),
that a request before its spawn has no task, and that an entry names a task of
its own call (`HandleInv`). `JoinedBeforeWrite` needs that a joined task has ended,
that `ended` is final, and that a request that aborted something waits for that
very task (`JoinInv`). `RegistryTracksWork` needs, without overlap, that of the
requests on one call at most one is active and that a request which is about to
spawn has found or made the entry of its call empty with no task running unaborted
(`SerialInv`). `NoGhostDirectory` adds what a deletion has reached: a deleted call
is at rest, its directory the deletion's business until it is removed (`GhostInv`).
`NothingLeftInProgress` adds who owes a row in `processing` its end (`SettleInv`:
`OpFits`, `ProgressIsProcessing`, `RunsProcess`, `WillBeSettled`).

*The promise.* `CallsKeepPromise` and `KeepsPromiseHolds` are refinements: the
initial states map to `CallLifecycle`'s, and each action is a step of it on the
call concerned, or none. What they need is where a transcript is when a step
relies on it (`TextInv`; `PromiseInv`: a job past the gate has one).

*Chunks.* The six theorems of `ChunkedRecording_proofs` share one inductive
invariant, `Ind`: `NoReopen` needs that a command in the pipe names the successor
of the open chunk, which needs that no other rotation is on its way (`Commands`,
`OneOut`), which is what `rotate_pending` is for; the indices agree because of
`Agreed` (the chunks on disk are `0..Hi`, where `Hi` counts a rotation the
orchestrator has not read). Closed chunks are the ones below `idx`, and the open
one only after both the orchestrator and the sidecar have ended (`StopOrder`,
`RunsBehind`). The two properties of the transcript add that the drain leaves no
counted chunk without a row (`Gathered`) and that after a stop which met no
rotation on its way none comes later (`QuietStop`). The lemmas `Emitted`,
`Rotated`, `SaidStop`, `Died`, `Dispatched`, `WroteRotate` and `WroteStop` say what
each action does to the two queues, so that the preservation proofs never look
inside a sequence.

*Recovery.* `AutoRecoveryBounded` follows from `launched <= autoTries`
(`TriesCoverLaunches`): the marker is written before the launch and nothing
lowers it. `RecoveryTypeCorrect` needs that a set of chunks has a last one
(`LastChunkExists`, from the well-foundedness of the numbers), and treats flags
and the other variables apart. `NoStuckChunk` is inductive only as `ChunkInv`: a
row in `processing` has a live run or a job at that chunk (`RowsAttended`), a job
that owns the registry entry is in the pipeline (`OwnerInPipeline`), and while the
call is recorded no job is about (`AloneWhileRecorded`); a crash empties all
three at once, and the sweep comes before anything is taken up.
`WholeRecordingKept` is a property of steps: only `StopShort` and `Reconcile` delete
without the user, and both ask for the length of the root file.

*Queue.* `QueueInv`: who holds the permit is exactly who was granted it and has
not returned it, the queue of the semaphore holds exactly the tasks that wait in
it and each once, a blocking run keeps the permit until the computation ends,
whatever is aborted. The steps that hand the permit on share the lemma
`HandOnKeeps`.

*Session.* `CaptureInv` has seven parts. Whoever may touch a recording holds it:
the session, the start under the lock, or the one stop that took it (`CmdInv`,
`HoldInv`); from that, whatever captures is owned. A call fails only after a fault,
and a row stays `recording` only with a holder or after a failed write (`BlameInv`).
While commands never overlapped one at a time is under way and finds its own
orchestrator and watch (`SerialInv`); if nothing failed either, the numbers fit:
sound, pauses, cut and the length in the row are related at every await of every
command (`LengthInv`, over the clocks of `TimeInv`).

*Language model server.* `ResidentInv`: a live server is in the slot or in the
hands of a start, which has one only while it waits for it or is about to store it
(`HandsInv`); the pidfile names it unless two starts overlapped (`FileInv`); a
process keeps the preset it was spawned for, because what nobody has spawned yet is
in no slot, hand or request (`ModelInv`).

*Sidecar runs.* `SidecarInv` speaks of one run at a time, because a run reaches
another only by the permit: guards are dropped in the reverse order of their making
(`UnwindsInOrder`), so a child that may live has its guard (`ChildGuarded`), a
private file its own (`FilesGuarded`), and the permit is with a run between
its acquisition and its return (`HoldsPermit`).

*Provisioning.* `ProvisionInv`: a model is written under its lock only
(`FetchesLocked`), what was loaded and checked is good (`LoadedIsGood`), `ensure`
tells the truth about every model it has passed (`EnsureAnswers`, `EnsureAtWork`),
and a bad file is found by the check of the start or has been found (`BadIsFound`).

*Call detection.* `DetectInv`: the child is in its slot while a probe lives
(`ChildKept`, `NoOrphanProbe`), and the moment remembered is the last suggestion's
(`LastRemembered`), from which one suggestion per cooldown follows.

*Recap.* `RecapInv`: no generation is two writers', and a call that is not `torn`
(by the bulk run beside its pipeline) has one at a time (`GensApart`, `OneWriter`);
its parts before the one at hand are of the new generation, the rest of one old
(`HalfWritten`), and what is written was not blank (`ArtOfGens`). Tickers, the banner
and the bulk run's list follow the writer.

*Application.* `AppInv`: nobody works before the application is up (`Asleep`); one
call at a time is begun or recorded and those that end are others
(`SessionsApart`); each has its row and its directory until a wipe takes them
(`SessionsKept`, `WipeIsTold`); and the start has a list of what is still to be settled,
at each of its steps (`StartGoesOn`), so that nothing is left when it is through.

*Window and silence.* `WindowKept` is proved under `MaxPause <= WindowEnd`, the
case in which the code keeps its promise: after a longer pause the cap of the
window lies before the oldest sample (section 4). The argument is `PausesAdd` (what
the orchestrator counts as paused, with the pause in course, is what the chunk did
not record) and `RotatesInTime` (while nothing is on its way the chunk has not yet
reached the end of its window). `SilenceInv` relates each clock of the automaton to
the history of samples: there was no voice since `silence_started` and none but
a voice shorter than the hysteresis since `voice_since` (`SilenceBegan`,
`VoiceBegan`), a pause on record stands in the history (`PauseHeard`); the
properties are about the history alone.

*Index.* `IndexInv` has five parts. No id is given twice, so what a task has read of
a passage is still true of the passage with this id, if there is one (`IdsFresh`,
`BatchesKnown`): a vector written late goes to its own text or nowhere. The entry of
a call names its passage or is 0, and only while the stamp is blurred may it be 0
beside a passage (`EntryTells`). Whoever works on a call that is there and not
missed works alone, and with its last version (`WorkKnown`). The argument about the
copy is the long one: for every stamp that was read there were rows, vectors and a
next id it tells of, and since then new rows have new ids and a vector has gone only
with its row (`StampRead`, `CopyTold`, lemma `VectorsStay`). If the stamp is the same
now, no row is newer than its second part says, so the rows there are were there
then; they are as many, so they are the same (`CopyTrue`); and so with the vectors.
The cardinalities are compared through a bijection of calls and rows
(`StampCounts`), for which the calls must be finitely many.

*Speakers.* `SpeakersInv` adds to the property that a run has its call and works on
tags it has heard (`RunShape`), and what the clean-up has reached before its last
statement (`RowsCleaned`). That nothing dangles rests on what each write checks
again and not on what a run read: a sample is written in the transaction that finds
the contact, a suggestion behind its foreign key, a contact takes its rows'
references and its samples with it. `Evict` leaves at most `MaxSamples` samples
because the worst of those it keeps has all the others above it (`FewAreKept`); that
it and the two deletions leave only samples that were there is a lemma about
picking places of a sequence (`NthThere`, `PickedIs`).

*Audio.* `AudioInv` says that there are files as a capture left them (`CaptureLeft`:
every chunk has a microphone's file, what breaks a chunk breaks it on both tracks),
of which the directory still tells: a track is either `Whole`, with chunk 0 in its
place, a root file being one that was merged and the sentinel being set, or
`AsOlder`, with chunk 0 as the root file and no merge that passed over it. A merger
has promoted before it copies (`Settled`), and its temporary file is what was
recorded (`MergerStands`). That a copy of all chunks is what was recorded
(`CopiesRecorded`) is an induction over the chunks (`InOrderGrows`, `JoinedIs`).

*Transcript.* `AsmInv`: while the call is recorded the rows of the chunks are what was
said (`RowsFit`); then the two tracks are (`TracksFit`: each word of a track is a word
said before the cut, each of those has one, and no two segments differ only in their
tags); then the timeline is (`MergedFits`). That two chunks cannot bring the same word
is because the time of a word tells its chunk (`ChunkOfWord`). Every change of tags,
the clustering, the diarization and the owner's, replaces a segment by one that says
the same word (`RetaggedFit`), so it keeps the invariant whatever it decides. The
collapse of repetitions is an induction over the segments: each that is not a loop is
covered by one that begins no later and ends no earlier (`SegmentAdded`,
`SanitizedStands`), and loops are counted in words and not in segments because no word
has two (`EachSaidOnce`). `TagsFit` says whose tags are on a track after each step.

*Text of the recap.* `PackInv` says of the chunk in the making what the property says
of a finished one (`CurrentGoesOn`), so that closing it changes nothing, and that its
parts lie one behind the other up to the block before the next (`InRow`): then the
overlap, a tail of it, ends with the block before the new one (`OverlapIs`). A chunk
with two new blocks is no larger than promised because the estimate rounds down once
for two (`DivGrows`); a transcript that is short as a whole is never more than its
length (`ShortIsOne`, `SumsAdd`).

*Answers.* `AskInv` says of each question what it has reached (`AskStands`): its
period is set before the search, hits are of the period, the prompt is what was
assembled of them until cards are added, and sources are set only with a prompt that
shows them; and of the chats (`ChatsStand`) that a question which was posed stands in
its chat. A call that is deleted or indexed again changes `live` only, and no part of
the invariant needs a hit to be live. That the prompt is sound, and whatever is left
out has its reason, is an induction over the hits: a fragment in the prompt stays
there and room only shrinks, so a reason to leave a hit out remains one (`Taken`,
`Excused`, `AssembledIs`). Cards make room only by dropping from the end, which keeps
a prompt sound and not `NothingLeftOut`, so that is said of the prompt before
them. Fusion compares shares of one common multiple of all places (`PlacesAre`), so
they fall strictly and a division never makes two equal (`SharesFall`, `FusedFair`);
`OneFused` and `OneForSummary` show that the choices the model writes there are none.
Windows cover the turns because each begins in the one before or right after it, and
later than it (`Covered`, `ChainCovers`, `CoverHolds`).

*Induction.* The theorems of the library that take the formula as a parameter
cannot be used. Where a proof needs induction over numbers, the set of the numbers
with the property is a set: `SetInduction` and `NatsHaveLeast` (`Induction`)
state induction and the least element for a set, from the well-foundedness of `<`;
they also reach recursive functions (`Joined`, `UpTo`, `Sanitized`).
`RecursionExists` builds, for any step that stays in a set, a function which a
recursive definition describes, and `RecursionStays` bounds its values; with them the
functions of `AssistantAnswer` are known to be there.

Only model-checked: the liveness properties (`CommandsReturn`, `StopEnds`,
`QueueMoves`, `ChunkedParkedResumes`), because TLAPS has no support here for
fairness and ENABLED. Every invariant of a passing run is a theorem.

## 6. Not modelled

Settings (single keys, read where a module takes them as an input), prompts,
grammars and wording, titles and paging, React views, the recording widget and
window geometry, identifiers of contacts, telemetry, levels and the stall
watchdog of the sidecar, the start of its capture engine. The arithmetic of
embeddings and of similarity of texts (any grouping, any ranking may come out).
WAV headers and samples: a file is the chunks whose sound it holds. `identify.rs`,
`llm_hint.rs`, `merge_signals.rs` and `insert_speaker_suggestions` have no caller.

Timeouts are nondeterministic. SQLite statements are atomic and a transaction is
one step; a failing write is modelled where the code reacts to it. The start-up
sweep's three statements are one step (a crash between them is repaired by the
next start, which runs all three again). The checks of a promotion and its rename
are one step. The pidfile of the resident server can always be written. The limit
of recoveries per start needs more calls than one. Of a degraded flag it is
modelled which failures set it, not that the column is read and written back. In
`TranscriptAssembly` times are not negative, words of one track that begin together may
come out in either order, and the language a chunk pins for the
next is left out. In `AppLifecycle` a hidden window is a closed one.

## 7. What is left

1. Two calls in one registry together with the queue of the engine: the order in
   which calls are served.
2. The two hazards without a property in `PROJECT.json`.
