---------------------------- MODULE CrashRecovery ----------------------------
(***************************************************************************)
(* One call across crashes and restarts of the application, and the three  *)
(* ways its processing is taken up again.                                  *)
(*                                                                         *)
(*   state.rs, db/calls/sweep.rs         what a start does to stale rows   *)
(*   commands/orphan_reconcile.rs        interrupted recordings            *)
(*   commands/recovery.rs                recovery after a crash            *)
(*   commands/parked_resume.rs           calls parked without an engine    *)
(*   pipeline/chunk_recovery.rs,                                           *)
(*   pipeline/recovery_flow.rs           rows from the WAVs on disk, STT   *)
(*   pipeline/mod.rs, local_run.rs       the pipeline each of them ends in *)
(*                                                                         *)
(* The rows of the database and the files outlive a crash; jobs do not.    *)
(* Calls do not interact here (PipelineTasks has the registry), so one is  *)
(* enough.  The microphone leg stands for both.                            *)
(***************************************************************************)
EXTENDS Naturals, FiniteSets

CONSTANTS
    Jobs,           \* bound: background tasks of the call at a time
    None,
    MaxChunk,       \* bound: the highest chunk index
    MaxCrashes,     \* bound: crashes and forced quits
    MaxFlips,       \* bound: times the engine gains or loses a module
    MaxAutoTries,   \* AUTO_RECOVER_MAX_TRIES
    MaxParkedTries  \* PARKED_RESUME_MAX_TRIES

ASSUME RecoveryAssumption ==
    /\ None \notin Jobs
    /\ {MaxChunk, MaxCrashes, MaxFlips} \subseteq Nat
    /\ {MaxAutoTries, MaxParkedTries} \subseteq Nat \ {0}

Chunks == 0..MaxChunk

VARIABLES
    boot,        \* where a start of the application is
    autoDue,     \* auto_recover_interrupted_calls has not run since the start
    resumeDue,   \* recompute_and_resume is due
    engine,      \* all modules the engine needs are on disk
    status,      \* calls.status; "deleted" without a row
    reason,      \* calls.failed_reason
    long,        \* 30 s were recorded
    root,        \* mic.wav in the call directory
    wavs,        \* chunks/<k>/mic.wav
    md,          \* transcript.md
    autoTries,   \* .auto-recover-tries
    parkedTries, \* .parked-resume-tries
    row,         \* call_chunks.status
    live,        \* the recording session's run of each chunk
    pc,          \* where each background task is
    todo,        \* chunks it still has to transcribe
    good,        \* it transcribed one
    owner,       \* the task registered in pipeline_tasks
    launched,    \* history: automatic recoveries that started
    crashes, flips

bootVars == <<boot, autoDue, resumeDue>>
callVars == <<status, reason>>
diskVars == <<long, root, wavs, md>>
triesVars == <<autoTries, parkedTries, launched>>
jobVars == <<pc, todo, good, owner>>
bounds == <<crashes, flips>>
vars == <<bootVars, engine, callVars, diskVars, triesVars, row, live, jobVars, bounds>>

RowStatus == {"none", "pending", "processing", "done", "failed"}
Pcs == {"free", "drain", "reconstruct", "claim", "stt", "precheck", "assert", "gate",
        "write", "recap", "ready"}

TypeOK ==
    /\ boot \in {"down", "sweep", "reconcile", "up"}
    /\ autoDue \in BOOLEAN /\ resumeDue \in BOOLEAN /\ engine \in BOOLEAN
    /\ long \in BOOLEAN /\ root \in BOOLEAN /\ md \in BOOLEAN
    /\ status \in {"none", "recording", "processing", "ready", "failed", "deleted"}
    /\ reason \in {"null", "interrupted", "not_ready", "other"}
    /\ wavs \subseteq Chunks
    /\ autoTries \in 0..MaxAutoTries
    /\ parkedTries \in 0..MaxParkedTries
    /\ row \in [Chunks -> RowStatus]
    /\ live \in [Chunks -> {"none", "claim", "stt"}]
    /\ pc \in [Jobs -> Pcs]
    /\ todo \in [Jobs -> SUBSET Chunks]
    /\ good \in [Jobs -> BOOLEAN]
    /\ owner \in Jobs \cup {None}
    /\ launched \in Nat
    /\ crashes \in 0..MaxCrashes
    /\ flips \in 0..MaxFlips

Init ==
    /\ boot = "up" /\ autoDue = FALSE /\ resumeDue = FALSE
    /\ engine \in BOOLEAN
    /\ status = "none" /\ reason = "null"
    /\ long = FALSE /\ root = FALSE /\ wavs = {} /\ md = FALSE
    /\ autoTries = 0 /\ parkedTries = 0 /\ launched = 0
    /\ row = [k \in Chunks |-> "none"]
    /\ live = [k \in Chunks |-> "none"]
    /\ pc = [j \in Jobs |-> "free"]
    /\ todo = [j \in Jobs |-> {}]
    /\ good = [j \in Jobs |-> FALSE]
    /\ owner = None
    /\ crashes = 0 /\ flips = 0

HasAudio == root \/ wavs # {}
LastChunk == CHOOSE k \in wavs : \A i \in wavs : i <= k
-----------------------------------------------------------------------------
(* The recording *)

\* prepare_chunked_setup: in chunks if the engine is ready and the setting is
\* not off; otherwise one file in the call directory.
Record ==
    /\ boot = "up" /\ status = "none"
    /\ status' = "recording"
    /\ \/ engine /\ wavs' = {0} /\ UNCHANGED root
       \/ root' = TRUE /\ UNCHANGED wavs
    /\ UNCHANGED <<bootVars, engine, reason, long, md, triesVars, row, live, jobVars, bounds>>

Grow ==
    /\ status = "recording" /\ boot = "up" /\ ~long
    /\ long' = TRUE
    /\ UNCHANGED <<bootVars, engine, callVars, root, wavs, md, triesVars, row, live, jobVars, bounds>>

Rotate ==
    /\ status = "recording" /\ boot = "up" /\ long
    /\ wavs # {} /\ LastChunk < MaxChunk
    /\ wavs' = wavs \cup {LastChunk + 1}
    /\ row' = [row EXCEPT ![LastChunk] = "pending"]
    /\ live' = [live EXCEPT ![LastChunk] = "claim"]
    /\ UNCHANGED <<bootVars, engine, callVars, long, root, md, triesVars, jobVars, bounds>>

LiveChunk(k) ==
    /\ \/ /\ live[k] = "claim" /\ row[k] = "pending"
          /\ row' = [row EXCEPT ![k] = "processing"]
          /\ live' = [live EXCEPT ![k] = "stt"]
       \/ /\ live[k] = "claim" /\ row[k] # "pending"
          /\ live' = [live EXCEPT ![k] = "none"]
          /\ UNCHANGED row
       \/ /\ live[k] = "stt"
          /\ \/ row[k] = "processing" /\ row' = [row EXCEPT ![k] = "done"]
             \/ row[k] # "processing" /\ UNCHANGED row
             \/ row' = [row EXCEPT ![k] = "failed"]
          /\ live' = [live EXCEPT ![k] = "none"]
    /\ UNCHANGED <<bootVars, engine, callVars, diskVars, triesVars, jobVars, bounds>>

\* The call, its rows and its directory.
DeleteCall ==
    /\ status' = "deleted"
    /\ root' = FALSE /\ wavs' = {} /\ md' = FALSE
    /\ row' = [k \in Chunks |-> "none"]

StopShort ==
    /\ status = "recording" /\ boot = "up" /\ ~long
    /\ DeleteCall
    /\ UNCHANGED <<bootVars, engine, reason, long, triesVars, live, jobVars, bounds>>

\* stop_recording_inner and process_final_chunk: the final chunk is run if the
\* engine is ready; a background task goes on with the pipeline.
Stop(j) ==
    /\ status = "recording" /\ boot = "up" /\ long
    /\ status' = "processing"
    /\ pc' = [pc EXCEPT ![j] = "drain"]
    /\ IF wavs = {} THEN UNCHANGED <<row, live>>
       ELSE /\ row' = [row EXCEPT ![LastChunk] = "pending"]
            /\ live' = [live EXCEPT ![LastChunk] = IF engine THEN "claim" ELSE "none"]
    /\ UNCHANGED <<bootVars, engine, reason, diskVars, triesVars, todo, good, owner, bounds>>

\* The sidecar does not answer: fail_recording without a reason.
StopFails ==
    /\ status = "recording" /\ boot = "up"
    /\ status' = "failed"
    /\ UNCHANGED <<bootVars, engine, reason, diskVars, triesVars, row, live, jobVars, bounds>>
-----------------------------------------------------------------------------
(* A crash, and the start after it *)

Crash ==
    /\ boot # "down" /\ status # "none" /\ crashes < MaxCrashes
    /\ boot' = "down"
    /\ autoDue' = FALSE /\ resumeDue' = FALSE
    /\ live' = [k \in Chunks |-> "none"]
    /\ pc' = [j \in Jobs |-> "free"]
    /\ todo' = [j \in Jobs |-> {}]
    /\ good' = [j \in Jobs |-> FALSE]
    /\ owner' = None
    /\ crashes' = crashes + 1
    /\ UNCHANGED <<engine, callVars, diskVars, triesVars, row, flips>>

Start ==
    /\ boot = "down"
    /\ boot' = "sweep"
    /\ UNCHANGED <<autoDue, resumeDue, engine, callVars, diskVars, triesVars, row, live, jobVars, bounds>>

\* Mutant: the rows of the chunks are not swept.
SweepCallsOnly ==
    /\ boot = "sweep" /\ boot' = "reconcile"
    /\ status' = IF status = "processing" THEN "failed" ELSE status
    /\ UNCHANGED <<autoDue, resumeDue, engine, reason, diskVars, triesVars, row, live, jobVars, bounds>>

\* sweep_stale_calls: `processing` calls, their `processing` chunks, and the
\* `pending` chunks of every call that is not recording.
Sweep ==
    /\ boot = "sweep" /\ boot' = "reconcile"
    /\ status' = IF status = "processing" THEN "failed" ELSE status
    /\ row' = [k \in Chunks |->
                 IF row[k] = "processing" \/ (row[k] = "pending" /\ status # "recording")
                 THEN "failed" ELSE row[k]]
    /\ UNCHANGED <<autoDue, resumeDue, engine, reason, diskVars, triesVars, live, jobVars, bounds>>

\* Mutant: the length is that of the header, zero in an interrupted file.
ReconcileByHeader ==
    /\ boot = "reconcile" /\ boot' = "up"
    /\ autoDue' = TRUE /\ resumeDue' = TRUE
    /\ IF status = "recording" THEN DeleteCall /\ UNCHANGED reason
       ELSE UNCHANGED <<callVars, root, wavs, md, row>>
    /\ UNCHANGED <<engine, long, triesVars, live, jobVars, bounds>>

\* reconcile_orphan_recordings judges an interrupted recording by the length
\* of the mic.wav in the call directory.  Background tasks follow.
Reconcile ==
    /\ boot = "reconcile" /\ boot' = "up"
    /\ autoDue' = TRUE /\ resumeDue' = TRUE
    /\ \/ /\ status = "recording" /\ root /\ long
          /\ status' = "failed" /\ reason' = "interrupted"
          /\ UNCHANGED <<root, wavs, md, row>>
       \/ /\ status = "recording" /\ ~(root /\ long)
          /\ DeleteCall /\ UNCHANGED reason
       \/ status # "recording" /\ UNCHANGED <<callVars, root, wavs, md, row>>
    /\ UNCHANGED <<engine, long, triesVars, live, jobVars, bounds>>
-----------------------------------------------------------------------------
(* What takes a call up again *)

StartJob(j, at) ==
    /\ pc[j] = "free"
    /\ pc' = [pc EXCEPT ![j] = at]
    /\ todo' = [todo EXCEPT ![j] = {}]
    /\ good' = [good EXCEPT ![j] = FALSE]

\* spawn_reprocess
Reprocess(j) ==
    /\ pc[j] = "free" \/ j = owner
    /\ pc' = [i \in Jobs |-> IF i = j THEN "precheck" ELSE IF i = owner THEN "free" ELSE pc[i]]
    /\ owner' = j
    /\ UNCHANGED <<todo, good>>

\* Mutant: the tries already spent are not looked at.
AutoCandidateUncounted == status = "failed" /\ reason = "null" /\ ~md /\ HasAudio

AutoCandidate ==
    status = "failed" /\ reason = "null" /\ ~md /\ HasAudio /\ autoTries < MaxAutoTries

\* Mutant: the marker is not written before the recovery is started.
AutoRecoverUnmarked ==
    /\ boot = "up" /\ autoDue
    /\ autoDue' = FALSE
    /\ IF AutoCandidate /\ engine
       THEN /\ launched' = launched + 1
            /\ \E j \in Jobs : StartJob(j, "reconstruct")
       ELSE UNCHANGED <<launched, pc, todo, good>>
    /\ UNCHANGED <<boot, resumeDue, engine, callVars, diskVars, autoTries, parkedTries, row,
                   live, owner, bounds>>

\* auto_recover_interrupted_calls: the try is counted first, then
\* spawn_recover_chunked refuses to start without an engine.
AutoRecover ==
    /\ boot = "up" /\ autoDue
    /\ autoDue' = FALSE
    /\ autoTries' = IF AutoCandidate THEN autoTries + 1 ELSE autoTries
    /\ IF AutoCandidate /\ engine
       THEN /\ launched' = launched + 1
            /\ \E j \in Jobs : StartJob(j, "reconstruct")
       ELSE UNCHANGED <<launched, pc, todo, good>>
    /\ UNCHANGED <<boot, resumeDue, engine, callVars, diskVars, parkedTries, row, live, owner,
                   bounds>>

Parked == status = "failed" /\ reason = "not_ready"

ParkedCandidate == Parked /\ HasAudio /\ parkedTries < MaxParkedTries

\* Mutant: a call without a transcript is reprocessed like one with it.
ParkedReprocess ==
    /\ boot = "up" /\ resumeDue
    /\ resumeDue' = FALSE
    /\ IF engine /\ ParkedCandidate
       THEN /\ parkedTries' = parkedTries + 1
            /\ \E j \in Jobs : Reprocess(j)
       ELSE UNCHANGED <<parkedTries, jobVars>>
    /\ UNCHANGED <<boot, autoDue, engine, callVars, diskVars, autoTries, launched, row, live, bounds>>

\* recompute_and_resume, resume_parked_calls: with a transcript the call is
\* reprocessed (spawn_reprocess aborts the registered task), else recovered.
ParkedResume ==
    /\ boot = "up" /\ resumeDue
    /\ resumeDue' = FALSE
    /\ \/ /\ ~(engine /\ ParkedCandidate)
          /\ UNCHANGED <<parkedTries, jobVars>>
       \/ /\ engine /\ ParkedCandidate
          /\ parkedTries' = parkedTries + 1
          /\ \E j \in Jobs : IF md THEN Reprocess(j)
                                   ELSE StartJob(j, "reconstruct") /\ UNCHANGED owner
    /\ UNCHANGED <<boot, autoDue, engine, callVars, diskVars, autoTries, launched, row, live, bounds>>

\* A module is downloaded, or the size of the engine goes back to one whose
\* models are there.
EngineReady ==
    /\ boot = "up" /\ flips < MaxFlips /\ ~engine
    /\ engine' = TRUE /\ resumeDue' = TRUE /\ flips' = flips + 1
    /\ UNCHANGED <<boot, autoDue, callVars, diskVars, triesVars, row, live, jobVars, crashes>>

\* A model is deleted, found tampered with, or a bigger size is chosen.
EngineLost ==
    /\ flips < MaxFlips /\ engine
    /\ engine' = FALSE /\ flips' = flips + 1
    /\ UNCHANGED <<bootVars, callVars, diskVars, triesVars, row, live, jobVars, crashes>>

\* The user asks for the modules, and nothing is missing.
AskAgain ==
    /\ boot = "up" /\ engine /\ Parked /\ ~resumeDue
    /\ resumeDue' = TRUE
    /\ UNCHANGED <<boot, autoDue, engine, callVars, diskVars, triesVars, row, live, jobVars, bounds>>
-----------------------------------------------------------------------------
(* The background tasks *)

JobKeeps == UNCHANGED <<bootVars, engine, triesVars, live, bounds, long, wavs>>

Pipeline == {"precheck", "assert", "gate", "write", "recap", "ready"}

\* The end of a registered task clears the registry.
Goto(j, p) ==
    /\ pc' = [pc EXCEPT ![j] = p]
    /\ owner' = IF p = "free" /\ pc[j] \in Pipeline THEN None
                ELSE IF p \in Pipeline /\ pc[j] \notin Pipeline THEN j ELSE owner

Step(j, from, to) ==
    /\ pc[j] = from
    /\ Goto(j, to)
    /\ JobKeeps

\* fail_recording_with_reason, gated on an active call; run ends.
FailCall(j, from, why) ==
    /\ Step(j, from, "free")
    /\ IF status \in {"recording", "processing"}
       THEN status' = "failed" /\ reason' = why
       ELSE UNCHANGED callVars

\* The stop waits for the runs of the session, each closed chunk with a
\* timeout, the final one without.
Drained(j) ==
    /\ Step(j, "drain", "assert")
    /\ \A k \in wavs : live[k] = "none" \/ (live[k] = "stt" /\ k # LastChunk)
    /\ UNCHANGED <<callVars, root, md, row, todo, good>>

\* reconstruct_chunk_rows: rows are built from the chunks on disk; without any
\* there is nothing to recover.  A transcribed chunk keeps its row.
Reconstruct(j) ==
    LET missing == {k \in wavs : row[k] # "done"} IN
    /\ Step(j, "reconstruct",
            IF wavs = {} THEN "free" ELSE IF missing = {} THEN "assert" ELSE "claim")
    /\ row' = [k \in Chunks |-> IF k \in missing THEN "pending" ELSE row[k]]
    /\ todo' = [todo EXCEPT ![j] = missing]
    /\ UNCHANGED <<callVars, root, md, good>>

Next1(S) == CHOOSE k \in S : \A i \in S : k <= i

\* A chunk is settled; run_recovery_flow goes on with the next one, and at the
\* end with spawn_initial if any was transcribed.
ChunkSettled(j, from, ok) ==
    LET rest == todo[j] \ {Next1(todo[j])} IN
    /\ Step(j, from, IF rest # {} THEN "claim" ELSE IF good[j] \/ ok THEN "assert" ELSE "free")
    /\ todo' = [todo EXCEPT ![j] = rest]
    /\ good' = [good EXCEPT ![j] = @ \/ ok]
    /\ UNCHANGED <<callVars, root, md>>

Claim(j) ==
    LET k == Next1(todo[j]) IN
    IF row[k] = "pending"
    THEN /\ Step(j, "claim", "stt")
         /\ row' = [row EXCEPT ![k] = "processing"]
         /\ UNCHANGED <<callVars, root, md, todo, good>>
    ELSE ChunkSettled(j, "claim", FALSE) /\ UNCHANGED row

\* mark_chunk_done is gated on `processing`, mark_chunk_failed is not.
Transcribe(j) ==
    LET k == Next1(todo[j]) IN
    \/ /\ ChunkSettled(j, "stt", row[k] = "processing")
       /\ row' = IF row[k] = "processing" THEN [row EXCEPT ![k] = "done"] ELSE row
    \/ /\ ChunkSettled(j, "stt", FALSE)
       /\ row' = [row EXCEPT ![k] = "failed"]

RowsNotDone == {k \in Chunks : row[k] \notin {"none", "done"}}

\* reprocess_call: the WAVs of the call directory, all chunks, then `processing`.
Precheck(j) ==
    /\ UNCHANGED <<root, md, row, todo, good>>
    /\ \/ ~root /\ Step(j, "precheck", "free") /\ UNCHANGED callVars
       \/ root /\ RowsNotDone # {} /\ FailCall(j, "precheck", "other")
       \/ /\ root /\ RowsNotDone = {} /\ Step(j, "precheck", "assert")
          /\ status' = "processing" /\ reason' = "null"

\* readiness::assert_ready
AssertReady(j) ==
    /\ UNCHANGED <<root, md, row, todo, good>>
    /\ IF engine THEN Step(j, "assert", "gate") /\ UNCHANGED callVars
                 ELSE FailCall(j, "assert", "not_ready")

\* transcribe_tracks: the chunks are merged into mic.wav whatever their state;
\* some transcribed chunk is enough.  Without rows the whole file is
\* transcribed, which may fail.
Gate(j) ==
    LET rows == {k \in Chunks : row[k] # "none"} IN
    /\ UNCHANGED <<md, row, todo, good>>
    /\ root' = (root \/ rows # {})
    /\ \/ rows # {} /\ rows # RowsNotDone /\ Step(j, "gate", "write") /\ UNCHANGED callVars
       \/ rows # {} /\ rows = RowsNotDone /\ FailCall(j, "gate", "other")
       \/ rows = {} /\ root /\ Step(j, "gate", "write") /\ UNCHANGED callVars
       \/ rows = {} /\ FailCall(j, "gate", "other")

\* Mutant: the transcript is left to the recap.
WriteNothing(j) ==
    /\ Step(j, "write", "recap")
    /\ UNCHANGED <<callVars, root, md, row, todo, good>>

\* recognize_speakers: transcript.md.
Write(j) ==
    /\ Step(j, "write", "recap")
    /\ md' = TRUE
    /\ UNCHANGED <<callVars, root, row, todo, good>>

\* run_recap: a recap that fails does not fail the call, unless the model went
\* away before it.
Recap(j) ==
    /\ UNCHANGED <<root, md, row, todo, good>>
    /\ IF engine THEN Step(j, "recap", "ready") /\ UNCHANGED callVars
                 ELSE FailCall(j, "recap", "not_ready")

MarkReady(j) ==
    /\ Step(j, "ready", "free")
    /\ status' = "ready" /\ reason' = "null"
    /\ UNCHANGED <<root, md, row, todo, good>>

Job(j) ==
    \/ Drained(j) \/ Reconstruct(j) \/ (pc[j] = "claim" /\ Claim(j))
    \/ (pc[j] = "stt" /\ Transcribe(j)) \/ Precheck(j) \/ AssertReady(j) \/ Gate(j)
    \/ Write(j) \/ Recap(j) \/ MarkReady(j)

Settled ==
    /\ boot = "up" /\ ~autoDue /\ ~resumeDue
    /\ status \in {"ready", "failed", "deleted"}
    /\ \A j \in Jobs : pc[j] = "free"

Next ==
    \/ Record \/ Grow \/ Rotate \/ StopShort \/ StopFails
    \/ \E j \in Jobs : Stop(j) \/ Job(j)
    \/ \E k \in Chunks : LiveChunk(k)
    \/ Crash \/ Start \/ Sweep \/ Reconcile
    \/ AutoRecover \/ ParkedResume \/ EngineReady \/ EngineLost \/ AskAgain
    \/ Settled /\ UNCHANGED vars

Spec == Init /\ [][Next]_vars

\* The user starts the application again, its start goes through, and its
\* tasks go on as long as it runs.
Fairness ==
    /\ WF_vars(Start) /\ WF_vars(Sweep) /\ WF_vars(Reconcile)
    /\ WF_vars(AutoRecover) /\ WF_vars(ParkedResume)
    /\ \A k \in Chunks : WF_vars(LiveChunk(k))
    /\ \A j \in Jobs : WF_vars(Job(j))

FairSpec == Spec /\ Fairness
-----------------------------------------------------------------------------
(* Properties *)

\* No row stays `processing` while nobody transcribes its chunk: retry_chunk
\* takes only failed ones, and the assembly would skip it for ever.
NoStuckChunk ==
    boot = "up" => \A k \in Chunks : row[k] = "processing" =>
        live[k] = "stt" \/ \E j \in Jobs : pc[j] = "stt" /\ k = Next1(todo[j])

\* A call cannot keep the application recovering it for ever: however often it
\* crashes on the way, automatic recoveries are counted before they start.
AutoRecoveryBounded == launched <= MaxAutoTries

\* Nothing but the user's own stop deletes a call of 30 s or more that is
\* recorded in one file, or was stopped.
WholeRecordingKept ==
    [][long /\ (root \/ status # "recording") /\ status # "deleted" => status' # "deleted"]_vars

\* A start of the application never deletes a call of 30 s or more
\* (state.rs: under 30 s it is deleted, from 30 s on it is failed).
LongRecordingKept == [][long /\ status # "deleted" => status' # "deleted"]_vars

\* The call as the list of calls shows it.
Lifecycle == INSTANCE CallLifecycle WITH stage <- status, text <- md

\* Across crashes, restarts and three ways of being taken up again the call
\* keeps what CallLifecycle promises: it is ready only with a transcript, never
\* loses the transcript it has, and never comes back once deleted.
KeepsPromise == Lifecycle!Spec

\* A task works on the audio of the call, or on what was made of it.
Working == \E j \in Jobs : pc[j] \in {"claim", "stt"} \cup (Pipeline \ {"precheck"})

\* Parked in chunks, without a transcript, and the modules are there now: the
\* call is worked on, unless the modules or the application go away again.
ChunkedParkedResumes ==
    boot = "up" /\ engine /\ resumeDue /\ ParkedCandidate /\ ~md /\ wavs # {}
        ~> Working \/ ~engine \/ boot # "up"

\* The same for every parked call with audio (list_parked_calls: it must come
\* up by itself after the download).
ParkedResumes ==
    boot = "up" /\ engine /\ resumeDue /\ ParkedCandidate
        ~> Working \/ ~engine \/ boot # "up"
=============================================================================
