---------------------------- MODULE CallLifecycle ----------------------------
(***************************************************************************)
(* What the application promises of one call, without tasks, files, rows,  *)
(* crashes or engines: a call is recorded, worked on as often as somebody  *)
(* or something takes it up, and is ready only when it has a transcript.   *)
(* A transcript stays as long as its call; a deleted call never returns.   *)
(* CrashRecovery and PipelineTasks are shown to implement this module.     *)
(***************************************************************************)
VARIABLES
    stage,  \* what the list of calls shows
    text    \* a transcript is there

vars == <<stage, text>>

Stages == {"none", "recording", "processing", "ready", "failed", "deleted"}

Init == stage = "none" /\ text = FALSE

\* A call that was stopped or interrupted, and is neither gone nor new.
Kept == stage \in {"processing", "ready", "failed"}

Capture == stage = "none" /\ stage' = "recording" /\ UNCHANGED text

EndCapture ==
    /\ stage = "recording"
    /\ stage' \in {"processing", "failed"}
    /\ UNCHANGED text

TakeUp == Kept /\ stage' = "processing" /\ UNCHANGED text

Transcribe == Kept /\ text' = TRUE /\ UNCHANGED stage

Complete == Kept /\ text /\ stage' = "ready" /\ UNCHANGED text

\* A ready call fails only after it was taken up again.
GiveUp == stage = "processing" /\ stage' = "failed" /\ UNCHANGED text

Delete == stage # "none" /\ stage' = "deleted" /\ text' = FALSE

Next ==
    Capture \/ EndCapture \/ TakeUp \/ Transcribe \/ Complete \/ GiveUp \/ Delete

Spec == Init /\ [][Next]_vars

\* What one step may do to a call that is met later in its life.
Step == [Next]_vars
=============================================================================
