----------------------------- MODULE MCChunkStop -----------------------------
(* The recording in chunks and, apart from it, the queue its transcriptions  *)
(* stand in.  The two share no variable: run_chunk waits in the queue inside *)
(* its step "stt", and the queue does not look at chunks.  `focus` chooses   *)
(* one, the other stays where it begins.                                     *)
EXTENDS ChunkedRecording, ResourceQueue

VARIABLE focus

allVars == <<focus, vars, queueVars>>

StopInit == focus \in {"chunks", "queue"} /\ Init /\ QueueInit

OfChunks(A) == focus = "chunks" /\ A /\ UNCHANGED <<focus, queueVars>>
OfQueue(A) == focus = "queue" /\ A /\ UNCHANGED <<focus, vars>>

\* Every task of the queue has been served, and none is left in it.
QueueOver == (\A t \in Tasks : step[t] = "done") /\ UNCHANGED queueVars

StopNext == OfChunks(Next) \/ OfQueue(QueueNext) \/ OfQueue(QueueOver)

\* ChunkedRecording!Fairness and ResourceQueue!QueueFairness, each in its focus.
StopFairness ==
    /\ WF_allVars(OfChunks(Sidecar)) /\ WF_allVars(OfChunks(Dispatch))
    /\ WF_allVars(OfChunks(Orchestrator)) /\ SF_allVars(OfChunks(OrchBreaks))
    /\ WF_allVars(OfChunks(Stop)) /\ WF_allVars(OfChunks(Finalize))
    /\ \A k \in Chunks : WF_allVars(OfChunks(RunChunk(k)))
    /\ \A t \in Tasks : WF_allVars(OfQueue(Advance(t)))

StopSpec == StopInit /\ [][StopNext]_allVars /\ StopFairness
=============================================================================
