------------------------ MODULE PipelineTasks_proofs ------------------------
(* Machine-checked invariants of PipelineTasks, for any calls and commands. *)
EXTENDS PipelineTasks, TLAPS

USE DEF Status, ChunkStatus, Parts, RunningPcs, LivePcs, TaskPcs, ReqPcs, AllOps

(***************************************************************************)
(* Type correctness.                                                       *)
(***************************************************************************)
LEMMA TypeInit == ASSUME RegistryAssumption, Init PROVE TypeOK
BY DEF Init, TypeOK, RegistryAssumption

LEMMA TypeIssue ==
    ASSUME TypeOK, NEW r \in Reqs, Issue(r), RegistryAssumption PROVE TypeOK'
<1> USE DEF TypeOK, RegistryAssumption, MayBegin, Begin, rowVars, diskVars, taskVars
<1>1. PICK c \in Calls : \/ BeginReprocess(r, c) \/ BeginRegen(r, c)
                         \/ BeginCancel(r, c) \/ BeginDelete(r, c)
                         \/ \E p \in Parts : BeginRetry(r, c, p)
    BY DEF Issue
<1>2. CASE BeginReprocess(r, c)
    BY <1>2 DEF BeginReprocess
<1>3. CASE BeginRegen(r, c)
    BY <1>3 DEF BeginRegen
<1>4. CASE BeginCancel(r, c)
    BY <1>4 DEF BeginCancel
<1>5. CASE BeginDelete(r, c)
    BY <1>5 DEF BeginDelete
<1>6. CASE \E p \in Parts : BeginRetry(r, c, p)
    BY <1>6 DEF BeginRetry
<1>7. QED
    BY <1>1, <1>2, <1>3, <1>4, <1>5, <1>6

LEMMA TypeHandle ==
    ASSUME TypeOK, NEW r \in Reqs, Handle(r), RegistryAssumption PROVE TypeOK'
<1> USE DEF TypeOK, RegistryAssumption, Go, Step, rowVars, diskVars, taskVars, argVars
<1>1. CASE ResetForReprocess(r)
    BY <1>1 DEF ResetForReprocess
<1>2. CASE RetryEnds(r)
    BY <1>2 DEF RetryEnds, ChunkEnds
<1>3. CASE MaybeResume(r)
    BY <1>3 DEF MaybeResume
<1>4. CASE FinalChunk(r)
  <2>1. chunks' \in [Calls -> [Parts -> ChunkStatus]]
    BY <1>4, SMTT(30) DEF FinalChunk
  <2>2. reqPc' \in [Reqs -> ReqPcs] /\ UNCHANGED argVars
    BY <1>4 DEF FinalChunk
  <2>3. UNCHANGED <<rowVars, diskVars, registry, lock, taskVars>>
    BY <1>4 DEF FinalChunk
  <2>4. QED
    BY <2>1, <2>2, <2>3
<1>5. CASE FinalChunkEnds(r)
    BY <1>5 DEF FinalChunkEnds, ChunkEnds
<1>6. CASE CheckRow(r)
    BY <1>6 DEF CheckRow
<1>7. CASE Guard(r)
    BY <1>7 DEF Guard
<1>8. CASE TakeOld(r)
    BY <1>8 DEF TakeOld
<1>9. CASE TakeNothing(r)
    BY <1>9 DEF TakeNothing, AfterTake
<1>10. CASE Joined(r)
    BY <1>10 DEF Joined, AfterTake
<1>11. CASE Spawn(r)
    BY <1>11 DEF Spawn
<1>12. CASE Insert(r)
    BY <1>12 DEF Insert
<1>13. CASE Send(r)
    BY <1>13 DEF Send, FirstStep
<1>14. CASE Probe(r)
    BY <1>14 DEF Probe
<1>15. CASE Restore(r)
    BY <1>15, ZenonT(40) DEF Restore, MakeReady, MakeFailed
<1>16. CASE DeleteRows(r)
    BY <1>16 DEF DeleteRows
<1>17. CASE RemoveDir(r)
    BY <1>17 DEF RemoveDir
<1>18. QED
    BY <1>1, <1>2, <1>3, <1>4, <1>5, <1>6, <1>7, <1>8, <1>9, <1>10, <1>11,
       <1>12, <1>13, <1>14, <1>15, <1>16, <1>17 DEF Handle

LEMMA TypeWork ==
    ASSUME TypeOK, NEW t \in Reqs, Work(t), RegistryAssumption PROVE TypeOK'
<1> USE DEF TypeOK, RegistryAssumption, Go, Step, rowVars, diskVars, taskVars, argVars
<1>1. CASE ReprocessGivesUp(t)
    BY <1>1 DEF ReprocessGivesUp
<1>2. CASE ReprocessHalts(t)
    BY <1>2 DEF ReprocessHalts, MakeFailed
<1>3. CASE ReprocessCall(t)
    BY <1>3 DEF ReprocessCall
<1>4. CASE EngineNotReady(t)
    BY <1>4 DEF EngineNotReady
<1>5. CASE Transcribe(t)
    BY <1>5 DEF Transcribe, StageAnnounced, Mark
<1>6. CASE MergeArtifacts(t)
    BY <1>6 DEF MergeArtifacts, StageAnnounced, Mark
<1>7. CASE Recap(t)
    BY <1>7 DEF Recap, StageAnnounced, Mark
<1>8. CASE StageFails(t)
    BY <1>8 DEF StageFails, StageAnnounced, Mark
<1>9. CASE RunOk(t)
    BY <1>9 DEF RunOk, MakeReady
<1>10. CASE ReadyWriteFails(t)
    BY <1>10 DEF ReadyWriteFails
<1>11. CASE RunFailed(t)
    BY <1>11 DEF RunFailed, MakeFailed
<1>12. CASE RegenStart(t)
    BY <1>12 DEF RegenStart
<1>13. CASE RegenEnds(t)
    BY <1>13 DEF RegenEnds, Mark
<1>14. CASE Cleanup(t)
    BY <1>14 DEF Cleanup
<1>15. CASE RegenTitle(t)
    BY <1>15 DEF RegenTitle
<1>16. QED
    BY <1>1, <1>2, <1>3, <1>4, <1>5, <1>6, <1>7, <1>8, <1>9, <1>10, <1>11,
       <1>12, <1>13, <1>14, <1>15 DEF Work, RunInner, Regenerates

\* Every column, file, handle and program counter stays in its domain.
THEOREM TypeCorrect == Spec => []TypeOK
<1> USE RegistryAssumption
<1>1. Init => TypeOK
    BY TypeInit
<1>2. TypeOK /\ [Next]_vars => TypeOK'
  <2> SUFFICES ASSUME TypeOK, [Next]_vars PROVE TypeOK'
    OBVIOUS
  <2>1. CASE \E r \in Reqs : Issue(r)
    BY <2>1, TypeIssue
  <2>2. CASE \E r \in Reqs : Handle(r)
    BY <2>2, TypeHandle
  <2>3. CASE \E t \in Reqs : Work(t)
    BY <2>3, TypeWork
  <2>4. CASE \E t \in Reqs : Drop(t)
    BY <2>4 DEF Drop, TypeOK, Step, rowVars, diskVars, taskVars, argVars
  <2>5. CASE UNCHANGED vars
    BY <2>5 DEF TypeOK, vars
  <2>6. QED
    BY <2>1, <2>2, <2>3, <2>4, <2>5 DEF Next, Terminated
<1>3. QED
    BY <1>1, <1>2, PTL DEF Spec
-----------------------------------------------------------------------------
(***************************************************************************)
(* The steps as the registry sees them.  Most handlers move one request    *)
(* and most work moves one task, touching neither the registry nor the set *)
(* of aborted tasks; the rest are treated one by one.                      *)
(***************************************************************************)
QuietIssue(r) ==
    /\ reqPc[r] = "idle"
    /\ \E c \in Calls, pc \in {"reset", "check", "take", "chunkrun"} :
         /\ Overlap \/ \A q \in Reqs : Active(q) => call[q] # c
         /\ reqPc' = [reqPc EXCEPT ![r] = pc]
         /\ call' = [call EXCEPT ![r] = c]
    /\ UNCHANGED <<old, registry, taskPc, aborted>>

\* Where a cancel or a delete_call has no task to wait for any more.
SettlePcs == {"probe", "makeready", "makefailed", "rows", "dir"}

\* A request gets ready to spawn only from the tail of stop_recording or when
\* it has seen that its call has no entry.
QuietHandle(r) ==
    /\ reqPc[r] \notin {"idle", "await", "insert", "send", "done"}
    /\ \E pc \in ReqPcs \ {"idle", "await", "insert", "send"} :
         /\ reqPc' = [reqPc EXCEPT ![r] = pc]
         /\ pc \in {"final", "finalrun", "spawn"} =>
              reqPc[r] \in {"final", "finalrun"} \/ registry[call[r]] = None
         /\ pc \in SettlePcs => reqPc[r] \in SettlePcs \/ registry[call[r]] = None
    /\ UNCHANGED <<call, old, registry, taskPc, aborted>>

QuietWork(t) ==
    /\ taskPc[t] \in RunningPcs
    /\ \E pc \in RunningPcs : taskPc' = [taskPc EXCEPT ![t] = pc]
    /\ UNCHANGED <<reqPc, call, old, registry, aborted>>

\* The remaining steps, restricted to the variables the invariants speak of.
TakeStep(r) ==
    /\ reqPc[r] = "take" /\ registry[call[r]] # None
    /\ registry' = [registry EXCEPT ![call[r]] = None]
    /\ aborted' = aborted \cup {registry[call[r]]}
    /\ old' = [old EXCEPT ![r] = registry[call[r]]]
    /\ reqPc' = [reqPc EXCEPT ![r] = "await"]
    /\ UNCHANGED <<call, taskPc>>

JoinStep(r) ==
    /\ reqPc[r] = "await" /\ taskPc[old[r]] = "ended"
    /\ \E pc \in {"probe", "done", "rows", "spawn"} : reqPc' = [reqPc EXCEPT ![r] = pc]
    /\ UNCHANGED <<call, old, registry, taskPc, aborted>>

SpawnStep(r) ==
    /\ reqPc[r] = "spawn"
    /\ reqPc' = [reqPc EXCEPT ![r] = "insert"]
    /\ taskPc' = [taskPc EXCEPT ![r] = "barrier"]
    /\ UNCHANGED <<call, old, registry, aborted>>

InsertStep(r) ==
    /\ reqPc[r] = "insert"
    /\ reqPc' = [reqPc EXCEPT ![r] = "send"]
    /\ registry' = [registry EXCEPT ![call[r]] = r]
    /\ UNCHANGED <<call, old, taskPc, aborted>>

SendStep(r) ==
    /\ reqPc[r] = "send"
    /\ reqPc' = [reqPc EXCEPT ![r] = "done"]
    /\ \E pc \in RunningPcs :
         taskPc' = IF taskPc[r] = "barrier" THEN [taskPc EXCEPT ![r] = pc] ELSE taskPc
    /\ UNCHANGED <<call, old, registry, aborted>>

CleanupStep(t) ==
    /\ taskPc[t] = "cleanup"
    /\ registry' = [registry EXCEPT ![call[t]] = None]
    /\ taskPc' = [taskPc EXCEPT ![t] = "ended"]
    /\ UNCHANGED <<reqPc, call, old, aborted>>

DropStep(t) ==
    /\ t \in aborted /\ taskPc[t] \in LivePcs
    /\ taskPc' = [taskPc EXCEPT ![t] = "ended"]
    /\ UNCHANGED <<reqPc, call, old, registry, aborted>>

\* ... and their types.
CoreTypes ==
    /\ registry \in [Calls -> Reqs \cup {None}]
    /\ taskPc \in [Reqs -> TaskPcs]
    /\ aborted \subseteq Reqs
    /\ reqPc \in [Reqs -> ReqPcs]
    /\ call \in [Reqs -> Calls]
    /\ old \in [Reqs -> Reqs \cup {None}]

LEMMA IssueIsQuiet ==
    ASSUME NEW r \in Reqs, Issue(r) PROVE QuietIssue(r)
<1> USE DEF QuietIssue, Begin, MayBegin, taskVars
<1>1. PICK c \in Calls : \/ BeginReprocess(r, c) \/ BeginRegen(r, c)
                         \/ BeginCancel(r, c) \/ BeginDelete(r, c)
                         \/ \E p \in Parts : BeginRetry(r, c, p)
    BY DEF Issue
<1>2. CASE BeginReprocess(r, c)
    BY <1>2 DEF BeginReprocess
<1>3. CASE BeginRegen(r, c)
    BY <1>3 DEF BeginRegen
<1>4. CASE BeginCancel(r, c)
    BY <1>4 DEF BeginCancel
<1>5. CASE BeginDelete(r, c)
    BY <1>5 DEF BeginDelete
<1>6. CASE \E p \in Parts : BeginRetry(r, c, p)
    BY <1>6 DEF BeginRetry
<1>7. QED
    BY <1>1, <1>2, <1>3, <1>4, <1>5, <1>6

LEMMA HandleIsQuiet ==
    ASSUME NEW r \in Reqs, Handle(r)
    PROVE  \/ QuietHandle(r) \/ TakeStep(r) \/ JoinStep(r)
           \/ SpawnStep(r) \/ InsertStep(r) \/ SendStep(r)
<1> USE DEF Go, argVars, taskVars
<1>1. CASE ResetForReprocess(r) \/ RetryEnds(r) \/ MaybeResume(r)
    BY <1>1 DEF QuietHandle, SettlePcs, ResetForReprocess, RetryEnds, MaybeResume
<1>2. CASE FinalChunk(r) \/ FinalChunkEnds(r)
    BY <1>2 DEF QuietHandle, SettlePcs, FinalChunk, FinalChunkEnds
<1>3. CASE CheckRow(r) \/ Guard(r)
    BY <1>3 DEF QuietHandle, SettlePcs, CheckRow, Guard
<1>4. CASE TakeNothing(r)
    BY <1>4 DEF QuietHandle, SettlePcs, TakeNothing, AfterTake
<1>5. CASE Probe(r) \/ Restore(r) \/ DeleteRows(r) \/ RemoveDir(r)
    BY <1>5 DEF QuietHandle, SettlePcs, Probe, Restore, DeleteRows, RemoveDir
<1>6. CASE TakeOld(r)
    BY <1>6 DEF TakeOld, TakeStep
<1>7. CASE Joined(r)
  <2>1. AfterTake(op[r], TRUE) \in {"probe", "done", "rows", "spawn"}
    BY DEF AfterTake
  <2>2. QED
    BY <1>7, <2>1 DEF Joined, JoinStep
<1>8. CASE Spawn(r)
    BY <1>8 DEF Spawn, SpawnStep, Step
<1>9. CASE Insert(r)
    BY <1>9 DEF Insert, InsertStep
<1>10. CASE Send(r)
  <2>1. FirstStep(op[r]) \in RunningPcs
    BY DEF FirstStep
  <2>2. QED
    BY <1>10, <2>1 DEF Send, SendStep, Step
<1>11. QED
    BY <1>1, <1>2, <1>3, <1>4, <1>5, <1>6, <1>7, <1>8, <1>9, <1>10 DEF Handle

LEMMA WorkIsQuiet ==
    ASSUME NEW t \in Reqs, Work(t) PROVE QuietWork(t) \/ CleanupStep(t)
<1> USE DEF QuietWork, Step, argVars
<1>1. CASE ReprocessGivesUp(t) \/ ReprocessHalts(t) \/ ReprocessCall(t)
    BY <1>1 DEF ReprocessGivesUp, ReprocessHalts, ReprocessCall
<1>2. CASE EngineNotReady(t) \/ Transcribe(t) \/ MergeArtifacts(t)
    BY <1>2 DEF EngineNotReady, Transcribe, MergeArtifacts
<1>3. CASE Recap(t) \/ StageFails(t) \/ RunOk(t) \/ ReadyWriteFails(t) \/ RunFailed(t)
    BY <1>3 DEF Recap, StageFails, RunOk, ReadyWriteFails, RunFailed
<1>4. CASE Regenerates(t)
    BY <1>4 DEF Regenerates, RegenStart, RegenEnds, RegenTitle
<1>5. CASE Cleanup(t)
    BY <1>5 DEF Cleanup, CleanupStep
<1>6. QED
    BY <1>1, <1>2, <1>3, <1>4, <1>5 DEF Work, RunInner

\* Next, split for the invariants below.
LEMMA Steps ==
    ASSUME [Next]_vars
    PROVE  \/ \E r \in Reqs : QuietIssue(r)
           \/ \E r \in Reqs : QuietHandle(r)
           \/ \E r \in Reqs : TakeStep(r)
           \/ \E r \in Reqs : JoinStep(r)
           \/ \E r \in Reqs : SpawnStep(r)
           \/ \E r \in Reqs : InsertStep(r)
           \/ \E r \in Reqs : SendStep(r)
           \/ \E t \in Reqs : QuietWork(t)
           \/ \E t \in Reqs : CleanupStep(t)
           \/ \E t \in Reqs : DropStep(t)
           \/ UNCHANGED <<reqPc, call, old, registry, taskPc, aborted>>
<1>1. ASSUME NEW t \in Reqs, Drop(t) PROVE DropStep(t)
    BY <1>1 DEF Drop, DropStep, Step, argVars
<1>2. CASE UNCHANGED vars
    BY <1>2 DEF vars
<1>3. QED
    BY <1>1, <1>2, IssueIsQuiet, HandleIsQuiet, WorkIsQuiet DEF Next, Terminated
-----------------------------------------------------------------------------
(***************************************************************************)
(* No stale handle.  The property is not inductive: it needs to know where *)
(* the task of a request is while the request is on its way to inserting   *)
(* the handle, which is what the registration barrier is about.            *)
(***************************************************************************)
HandleInv ==
    /\ NoStaleHandle
    /\ \A c \in Calls : registry[c] # None => reqPc[registry[c]] \in {"send", "done"}
    /\ \A r \in Reqs : reqPc[r] \notin {"insert", "send", "done"} => taskPc[r] = "unborn"
    /\ \A r \in Reqs : reqPc[r] = "insert" => taskPc[r] = "barrier" /\ r \notin aborted
    /\ \A r \in Reqs : taskPc[r] = "unborn" => r \notin aborted

LEMMA HandleInvInit ==
    ASSUME RegistryAssumption, Init PROVE HandleInv
BY DEF Init, HandleInv, NoStaleHandle, RegistryAssumption

LEMMA HandleInvNext ==
    ASSUME RegistryAssumption, TypeOK, HandleInv, [Next]_vars PROVE HandleInv'
<1>0. CoreTypes
    BY DEF CoreTypes, TypeOK
<1> USE <1>0 DEF HandleInv, NoStaleHandle, CoreTypes, RegistryAssumption
<1>1. CASE \E r \in Reqs : QuietIssue(r)
    BY <1>1 DEF QuietIssue
<1>2. CASE \E r \in Reqs : QuietHandle(r)
    BY <1>2 DEF QuietHandle
<1>3. CASE \E r \in Reqs : TakeStep(r)
    BY <1>3 DEF TakeStep
<1>4. CASE \E r \in Reqs : JoinStep(r)
    BY <1>4 DEF JoinStep
<1>5. CASE \E r \in Reqs : SpawnStep(r)
    BY <1>5 DEF SpawnStep
<1>6. CASE \E r \in Reqs : InsertStep(r)
    BY <1>6 DEF InsertStep
<1>7. CASE \E r \in Reqs : SendStep(r)
    BY <1>7 DEF SendStep
<1>8. CASE \E t \in Reqs : QuietWork(t)
    BY <1>8 DEF QuietWork
<1>9. CASE \E t \in Reqs : CleanupStep(t)
    BY <1>9 DEF CleanupStep
<1>10. CASE \E t \in Reqs : DropStep(t)
    BY <1>10 DEF DropStep
<1>11. CASE UNCHANGED <<reqPc, call, old, registry, taskPc, aborted>>
    BY <1>11
<1>12. QED
    BY Steps, <1>1, <1>2, <1>3, <1>4, <1>5, <1>6, <1>7, <1>8, <1>9, <1>10, <1>11

\* Whatever the commands and however they overlap, an entry of the registry
\* names a live, unaborted task of the call it is filed under.
THEOREM NoStaleHandleHolds == Spec => []NoStaleHandle
<1> USE RegistryAssumption
<1>1. Init => HandleInv
    BY HandleInvInit
<1>2. TypeOK /\ HandleInv /\ [Next]_vars => HandleInv'
    BY HandleInvNext
<1>3. HandleInv => NoStaleHandle
    BY DEF HandleInv
<1>4. QED
    BY <1>1, <1>2, <1>3, TypeCorrect, PTL DEF Spec
-----------------------------------------------------------------------------
(***************************************************************************)
(* Writes after the join.  A request has waited for the task it aborted    *)
(* everywhere but at the await itself, and an ended task never moves again *)
(* because only an unborn one is ever spawned.                             *)
(***************************************************************************)
JoinInv ==
    \A r \in Reqs : old[r] # None /\ reqPc[r] # "await" => taskPc[old[r]] = "ended"

LEMMA JoinInvInit == ASSUME Init PROVE JoinInv
BY DEF Init, JoinInv

LEMMA JoinInvNext ==
    ASSUME RegistryAssumption, TypeOK, HandleInv, JoinInv, [Next]_vars PROVE JoinInv'
<1>0. CoreTypes
    BY DEF CoreTypes, TypeOK
<1> USE <1>0 DEF JoinInv, CoreTypes, RegistryAssumption
<1>1. CASE \E r \in Reqs : QuietIssue(r)
    BY <1>1 DEF QuietIssue
<1>2. CASE \E r \in Reqs : QuietHandle(r)
    BY <1>2 DEF QuietHandle
<1>3. CASE \E r \in Reqs : TakeStep(r)
    BY <1>3 DEF TakeStep
<1>4. CASE \E r \in Reqs : JoinStep(r)
    BY <1>4 DEF JoinStep
<1>5. CASE \E r \in Reqs : SpawnStep(r)
    BY <1>5 DEF SpawnStep, HandleInv
<1>6. CASE \E r \in Reqs : InsertStep(r)
    BY <1>6 DEF InsertStep
<1>7. CASE \E r \in Reqs : SendStep(r)
    BY <1>7 DEF SendStep
<1>8. CASE \E t \in Reqs : QuietWork(t)
    BY <1>8 DEF QuietWork
<1>9. CASE \E t \in Reqs : CleanupStep(t)
    BY <1>9 DEF CleanupStep
<1>10. CASE \E t \in Reqs : DropStep(t)
    BY <1>10 DEF DropStep
<1>11. CASE UNCHANGED <<reqPc, call, old, registry, taskPc, aborted>>
    BY <1>11
<1>12. QED
    BY Steps, <1>1, <1>2, <1>3, <1>4, <1>5, <1>6, <1>7, <1>8, <1>9, <1>10, <1>11

\* cancel, delete_call and spawn_reprocess write to the call, or start its new
\* run, only after the task they aborted has ended.
THEOREM JoinedBeforeWriteHolds == Spec => []JoinedBeforeWrite
<1> USE RegistryAssumption
<1>1. Init => HandleInv /\ JoinInv
    BY HandleInvInit, JoinInvInit
<1>2. TypeOK /\ HandleInv /\ JoinInv /\ [Next]_vars => HandleInv' /\ JoinInv'
    BY HandleInvNext, JoinInvNext
<1>3. JoinInv => JoinedBeforeWrite
    BY DEF JoinInv, JoinedBeforeWrite
<1>4. QED
    BY <1>1, <1>2, <1>3, TypeCorrect, PTL DEF Spec
-----------------------------------------------------------------------------
(***************************************************************************)
(* The registry as the source of truth, when the commands on one call do   *)
(* not overlap.  An aborted task that still runs is being joined by the    *)
(* one request active on its call, and a request on its way to spawning    *)
(* has an empty entry to fill: these two facts are what keeps Insert and   *)
(* Cleanup from overwriting or removing the handle of another task.        *)
(***************************************************************************)
OneRequestPerCall ==
    \A q, r \in Reqs : Active(q) /\ Active(r) /\ call[q] = call[r] => q = r

EmptyBeforeInsert ==
    \A r \in Reqs :
       reqPc[r] \in {"final", "finalrun", "await", "spawn", "insert"} => registry[call[r]] = None

AbortedIsJoined ==
    \A t \in aborted : taskPc[t] \in LivePcs =>
       \E r \in Reqs : reqPc[r] = "await" /\ old[r] = t /\ call[r] = call[t]

LiveIsRegistered ==
    \A t \in Reqs : taskPc[t] \in LivePcs /\ t \notin aborted /\ reqPc[t] # "insert"
       => registry[call[t]] = t

SerialInv == OneRequestPerCall /\ EmptyBeforeInsert /\ AbortedIsJoined /\ LiveIsRegistered

LEMMA SerialInvInit == ASSUME Init PROVE SerialInv
BY DEF Init, SerialInv, OneRequestPerCall, EmptyBeforeInsert, AbortedIsJoined,
       LiveIsRegistered, Active

LEMMA SerialInvNext ==
    ASSUME RegistryAssumption, ~Overlap, TypeOK, HandleInv, JoinInv, SerialInv, [Next]_vars
    PROVE  SerialInv'
<1>0. CoreTypes
    BY DEF CoreTypes, TypeOK
<1> USE <1>0 DEF HandleInv, NoStaleHandle, JoinInv, SerialInv, OneRequestPerCall,
                 EmptyBeforeInsert, AbortedIsJoined, LiveIsRegistered, Active, CoreTypes,
                 RegistryAssumption
<1>1. CASE \E r \in Reqs : QuietIssue(r)
    BY <1>1 DEF QuietIssue
<1>2. CASE \E r \in Reqs : QuietHandle(r)
    BY <1>2 DEF QuietHandle
<1>3. CASE \E r \in Reqs : TakeStep(r)
  <2> PICK r \in Reqs : TakeStep(r)
    BY <1>3
  <2>1. OneRequestPerCall'
    BY DEF TakeStep
  <2>2. EmptyBeforeInsert'
    BY DEF TakeStep
  <2>3. AbortedIsJoined'
    BY DEF TakeStep
  <2>4. LiveIsRegistered'
    BY DEF TakeStep
  <2>5. QED
    BY <2>1, <2>2, <2>3, <2>4
<1>4. CASE \E r \in Reqs : JoinStep(r)
  <2> PICK r \in Reqs : JoinStep(r)
    BY <1>4
  <2>1. OneRequestPerCall'
    BY DEF JoinStep
  <2>2. EmptyBeforeInsert'
    BY DEF JoinStep
  <2>3. AbortedIsJoined'
    <3> SUFFICES ASSUME NEW t \in aborted, taskPc[t] \in LivePcs
                 PROVE  \E q \in Reqs : reqPc'[q] = "await" /\ old[q] = t /\ call[q] = call[t]
      BY DEF JoinStep
    <3>1. PICK q \in Reqs : reqPc[q] = "await" /\ old[q] = t /\ call[q] = call[t]
      OBVIOUS
    <3>2. q # r
      BY <3>1 DEF JoinStep
    <3>3. QED
      BY <3>1, <3>2 DEF JoinStep
  <2>4. LiveIsRegistered'
    BY DEF JoinStep
  <2>5. QED
    BY <2>1, <2>2, <2>3, <2>4
<1>5. CASE \E r \in Reqs : SpawnStep(r)
  <2> PICK r \in Reqs : SpawnStep(r)
    BY <1>5
  <2>1. OneRequestPerCall'
    BY DEF SpawnStep
  <2>2. EmptyBeforeInsert'
    BY DEF SpawnStep
  <2>3. AbortedIsJoined'
    <3> SUFFICES ASSUME NEW t \in aborted, taskPc'[t] \in LivePcs
                 PROVE  \E q \in Reqs : /\ reqPc'[q] = "await"
                                        /\ old'[q] = t
                                        /\ call'[q] = call'[t]
      BY DEF SpawnStep
    <3>1. taskPc[r] = "unborn" /\ r \notin aborted /\ t # r
      BY DEF SpawnStep
    <3>2. PICK q \in Reqs : reqPc[q] = "await" /\ old[q] = t /\ call[q] = call[t]
      BY <3>1 DEF SpawnStep
    <3>3. q # r
      BY <3>2 DEF SpawnStep
    <3>4. QED
      BY <3>2, <3>3 DEF SpawnStep
  <2>4. LiveIsRegistered'
    BY DEF SpawnStep
  <2>5. QED
    BY <2>1, <2>2, <2>3, <2>4
<1>6. CASE \E r \in Reqs : InsertStep(r)
  <2> PICK r \in Reqs : InsertStep(r)
    BY <1>6
  <2>1. OneRequestPerCall'
    BY DEF InsertStep
  <2>2. EmptyBeforeInsert'
    <3> SUFFICES ASSUME NEW q \in Reqs,
                        reqPc'[q] \in {"final", "finalrun", "await", "spawn", "insert"}
                 PROVE  registry'[call'[q]] = None
      BY DEF InsertStep
    <3>1. q # r /\ reqPc[q] = reqPc'[q]
      BY DEF InsertStep
    <3>2. call[q] # call[r]
      <4>1. reqPc[r] \notin {"idle", "done"} /\ reqPc[q] \notin {"idle", "done"}
        BY <3>1 DEF InsertStep
      <4>2. QED
        BY <3>1, <4>1
    <3>3. registry[call[q]] = None
      BY <3>1 DEF InsertStep
    <3>4. call' = call /\ registry' = [registry EXCEPT ![call[r]] = r] /\ call[q] \in Calls
      BY DEF InsertStep
    <3>5. QED
      BY <3>2, <3>3, <3>4
  <2>3. AbortedIsJoined'
    <3> SUFFICES ASSUME NEW t \in aborted, taskPc[t] \in LivePcs
                 PROVE  \E q \in Reqs : /\ reqPc'[q] = "await"
                                        /\ old'[q] = t
                                        /\ call'[q] = call'[t]
      BY DEF InsertStep
    <3>1. PICK q \in Reqs : reqPc[q] = "await" /\ old[q] = t /\ call[q] = call[t]
      OBVIOUS
    <3>2. q # r
      BY <3>1 DEF InsertStep
    <3>3. QED
      BY <3>1, <3>2 DEF InsertStep
  <2>4. LiveIsRegistered'
    BY DEF InsertStep
  <2>5. QED
    BY <2>1, <2>2, <2>3, <2>4
<1>7. CASE \E r \in Reqs : SendStep(r)
    BY <1>7 DEF SendStep
<1>8. CASE \E t \in Reqs : QuietWork(t)
    BY <1>8 DEF QuietWork
<1>9. CASE \E t \in Reqs : CleanupStep(t)
    BY <1>9 DEF CleanupStep
<1>10. CASE \E t \in Reqs : DropStep(t)
    BY <1>10 DEF DropStep
<1>11. CASE UNCHANGED <<reqPc, call, old, registry, taskPc, aborted>>
    BY <1>11
<1>12. QED
    BY Steps, <1>1, <1>2, <1>3, <1>4, <1>5, <1>6, <1>7, <1>8, <1>9, <1>10, <1>11

\* As long as commands on one call do not overlap, every task at work can be
\* found, counted and cancelled through the registry.
THEOREM RegistryTracksWorkHolds == ~Overlap => (Spec => []RegistryTracksWork)
<1> SUFFICES ASSUME ~Overlap PROVE Spec => []RegistryTracksWork
    OBVIOUS
<1> USE RegistryAssumption
<1>1. Init => HandleInv /\ JoinInv /\ SerialInv
    BY HandleInvInit, JoinInvInit, SerialInvInit
<1>2. TypeOK /\ HandleInv /\ JoinInv /\ SerialInv /\ [Next]_vars
        => HandleInv' /\ JoinInv' /\ SerialInv'
    BY HandleInvNext, JoinInvNext, SerialInvNext
<1>3. HandleInv /\ SerialInv => RegistryTracksWork
    BY DEF HandleInv, SerialInv, LiveIsRegistered, RegistryTracksWork, Running
<1>4. QED
    BY <1>1, <1>2, <1>3, TypeCorrect, PTL DEF Spec
-----------------------------------------------------------------------------
(***************************************************************************)
(* The call as CallLifecycle sees it.  A task that is past the writing of  *)
(* the transcript, and a cancel that has seen it, find it as long as the   *)
(* row is there; only delete_call takes a transcript away, and the row has *)
(* left before.  A row that left never returns.                            *)
(***************************************************************************)
HasText(c) == Exists(c) => c \in transcripts

TextInv ==
    /\ \A t \in Reqs : taskPc[t] \in {"recap", "ready"} => HasText(call[t])
    /\ \A r \in Reqs : reqPc[r] = "makeready" => HasText(call[r])
    /\ \A r \in Reqs : reqPc[r] = "dir" => ~Exists(call[r])

LEMMA TextInit == ASSUME Init PROVE TextInv
BY DEF Init, TextInv

\* A step that writes neither statuses nor transcripts is a stutter of every call.
LEMMA SameLifecycle ==
    ASSUME UNCHANGED <<status, transcripts>> PROVE \A c \in Calls : Lifecycle(c)!Step
BY DEF Lifecycle!Step, Lifecycle!vars, Exists

\* ... and keeps the invariant unless it moves a task or a request where the
\* transcript counts.
LEMMA SameText ==
    ASSUME TypeOK, TextInv, UNCHANGED <<status, transcripts, call>>,
           \A t \in Reqs : taskPc'[t] \in {"recap", "ready"} => taskPc[t] \in {"recap", "ready"},
           \A r \in Reqs : reqPc'[r] \in {"makeready", "dir"} => reqPc'[r] = reqPc[r]
    PROVE  TextInv'
BY DEF TextInv, HasText, Exists

LEMMA IssueKeepsText ==
    ASSUME TypeOK, HandleInv, TextInv, NEW r \in Reqs, Issue(r)
    PROVE  TextInv' /\ \A c \in Calls : Lifecycle(c)!Step
<1>1. UNCHANGED <<status, transcripts, taskPc>>
    BY DEF Issue, BeginReprocess, BeginRegen, BeginCancel, BeginDelete, BeginRetry,
           rowVars, diskVars, taskVars
<1>2. QuietIssue(r)
    BY IssueIsQuiet
<1>3. TextInv'
    BY <1>1, <1>2 DEF QuietIssue, TextInv, HasText, Exists, HandleInv, TypeOK
<1>4. QED
    BY <1>1, <1>3, SameLifecycle

LEMMA HandleKeepsText ==
    ASSUME TypeOK, TextInv, NEW r \in Reqs, Handle(r)
    PROVE  TextInv' /\ \A c \in Calls : Lifecycle(c)!Step
<1> USE DEF Go, argVars, rowVars, diskVars, taskVars
<1>1. CASE ResetForReprocess(r) \/ RetryEnds(r) \/ MaybeResume(r)
    BY <1>1, SameLifecycle, SameText
       DEF ResetForReprocess, RetryEnds, MaybeResume, TypeOK
<1>2. CASE FinalChunk(r) \/ FinalChunkEnds(r) \/ CheckRow(r) \/ Guard(r)
    BY <1>2, SameLifecycle, SameText DEF FinalChunk, FinalChunkEnds, CheckRow, Guard, TypeOK
<1>3. CASE TakeOld(r) \/ TakeNothing(r) \/ Joined(r)
    BY <1>3, SameLifecycle, SameText DEF TakeOld, TakeNothing, Joined, AfterTake, TypeOK
<1>4. CASE Spawn(r) \/ Insert(r) \/ Send(r)
    BY <1>4, SameLifecycle, SameText DEF Spawn, Insert, Send, FirstStep, Step, TypeOK
<1>5. CASE Probe(r)
  <2>1. UNCHANGED <<status, transcripts, taskPc, call>>
    BY <1>5 DEF Probe
  <2>2. TextInv'
    BY <1>5, <2>1 DEF Probe, TextInv, HasText, Exists, TypeOK
  <2>3. QED
    BY <2>1, <2>2, SameLifecycle
<1>6. CASE Restore(r)
  <2>1. UNCHANGED <<transcripts, taskPc, call>> /\ reqPc' = [reqPc EXCEPT ![r] = "done"]
    BY <1>6 DEF Restore
  <2>2. CASE reqPc[r] = "makeready" /\ MakeReady(call[r])
    <3>1. TextInv'
      BY <2>1, <2>2 DEF MakeReady, TextInv, HasText, Exists, TypeOK
    <3>2. \A c \in Calls : Lifecycle(c)!Step
      BY <2>1, <2>2 DEF MakeReady, TextInv, HasText, Exists, TypeOK, Lifecycle!Step,
         Lifecycle!vars, Lifecycle!Next, Lifecycle!Complete, Lifecycle!Kept
    <3>3. QED
      BY <3>1, <3>2
  <2>3. CASE reqPc[r] = "makefailed" /\ MakeFailed(call[r])
    <3>1. TextInv'
      BY <2>1, <2>3 DEF MakeFailed, TextInv, HasText, Exists, TypeOK
    <3>2. \A c \in Calls : Lifecycle(c)!Step
      BY <2>1, <2>3 DEF MakeFailed, Exists, TypeOK, Lifecycle!Step,
         Lifecycle!vars, Lifecycle!Next, Lifecycle!GiveUp
    <3>3. QED
      BY <3>1, <3>2
  <2>4. QED
    BY <1>6, <2>2, <2>3 DEF Restore
<1>7. CASE DeleteRows(r)
  <2>1. TextInv'
    BY <1>7 DEF DeleteRows, TextInv, HasText, Exists, TypeOK
  <2>2. \A c \in Calls : Lifecycle(c)!Step
    BY <1>7 DEF DeleteRows, Exists, TypeOK, Lifecycle!Step,
       Lifecycle!vars, Lifecycle!Next, Lifecycle!Delete
  <2>3. QED
    BY <2>1, <2>2
<1>8. CASE RemoveDir(r)
  <2>1. TextInv'
    BY <1>8 DEF RemoveDir, TextInv, HasText, Exists, TypeOK
  <2>2. \A c \in Calls : Lifecycle(c)!Step
    BY <1>8 DEF RemoveDir, TextInv, Exists, TypeOK, Lifecycle!Step, Lifecycle!vars
  <2>3. QED
    BY <2>1, <2>2
<1>9. QED
    BY <1>1, <1>2, <1>3, <1>4, <1>5, <1>6, <1>7, <1>8 DEF Handle

LEMMA WorkKeepsText ==
    ASSUME TypeOK, TextInv, NEW t \in Reqs, Work(t)
    PROVE  TextInv' /\ \A c \in Calls : Lifecycle(c)!Step
<1> USE DEF Step, argVars, rowVars, diskVars, taskVars
<1>1. CASE ReprocessGivesUp(t) \/ EngineNotReady(t) \/ ReadyWriteFails(t) \/ Cleanup(t)
    BY <1>1, SameLifecycle, SameText
       DEF ReprocessGivesUp, EngineNotReady, ReadyWriteFails, Cleanup, TypeOK
<1>2. CASE Transcribe(t) \/ StageFails(t) \/ Regenerates(t)
    BY <1>2, SameLifecycle, SameText
       DEF Transcribe, StageFails, Regenerates, RegenStart, RegenEnds, RegenTitle, TypeOK
<1>3. CASE ReprocessHalts(t) \/ RunFailed(t)
  <2>1. /\ MakeFailed(call[t]) /\ UNCHANGED <<transcripts, call, reqPc>>
        /\ taskPc' = [taskPc EXCEPT ![t] = "cleanup"]
    BY <1>3 DEF ReprocessHalts, RunFailed
  <2>2. TextInv'
    BY <2>1 DEF MakeFailed, TextInv, HasText, Exists, TypeOK
  <2>3. \A c \in Calls : Lifecycle(c)!Step
    BY <2>1 DEF MakeFailed, Exists, TypeOK, Lifecycle!Step,
       Lifecycle!vars, Lifecycle!Next, Lifecycle!GiveUp
  <2>4. QED
    BY <2>2, <2>3
<1>4. CASE ReprocessCall(t)
  <2>1. TextInv'
    BY <1>4 DEF ReprocessCall, TextInv, HasText, Exists, TypeOK
  <2>2. \A c \in Calls : Lifecycle(c)!Step
    BY <1>4 DEF ReprocessCall, Exists, TypeOK, Lifecycle!Step,
       Lifecycle!vars, Lifecycle!Next, Lifecycle!TakeUp, Lifecycle!Kept
  <2>3. QED
    BY <2>1, <2>2
<1>5. CASE MergeArtifacts(t)
  <2>1. TextInv'
    BY <1>5 DEF MergeArtifacts, TextInv, HasText, Exists, TypeOK
  <2>2. \A c \in Calls : Lifecycle(c)!Step
    BY <1>5 DEF MergeArtifacts, Exists, TypeOK, Lifecycle!Step,
       Lifecycle!vars, Lifecycle!Next, Lifecycle!Transcribe, Lifecycle!Kept
  <2>3. QED
    BY <2>1, <2>2
<1>6. CASE Recap(t)
  <2>1. UNCHANGED <<status, transcripts, call, reqPc>>
    BY <1>6 DEF Recap
  <2>2. QED
    BY <1>6, <2>1, SameLifecycle, SameText DEF Recap, TypeOK
<1>7. CASE RunOk(t)
  <2>1. TextInv'
    BY <1>7 DEF RunOk, MakeReady, TextInv, HasText, Exists, TypeOK
  <2>2. \A c \in Calls : Lifecycle(c)!Step
    BY <1>7 DEF RunOk, MakeReady, TextInv, HasText, Exists, TypeOK, Lifecycle!Step,
       Lifecycle!vars, Lifecycle!Next, Lifecycle!Complete, Lifecycle!Kept
  <2>3. QED
    BY <2>1, <2>2
<1>8. QED
    BY <1>1, <1>2, <1>3, <1>4, <1>5, <1>6, <1>7 DEF Work, RunInner

LEMMA NextKeepsText ==
    ASSUME TypeOK, HandleInv, TextInv, [Next]_vars
    PROVE  TextInv' /\ \A c \in Calls : Lifecycle(c)!Step
<1>1. ASSUME NEW t \in Reqs, Drop(t)
      PROVE  TextInv' /\ \A c \in Calls : Lifecycle(c)!Step
    BY <1>1, SameLifecycle, SameText DEF Drop, Step, TypeOK, rowVars, diskVars, argVars
<1>2. CASE UNCHANGED vars
  <2>1. UNCHANGED <<status, transcripts, call, taskPc, reqPc>>
    BY <1>2 DEF vars
  <2>2. QED
    BY <2>1, SameLifecycle, SameText
<1>3. QED
    BY <1>1, <1>2, IssueKeepsText, HandleKeepsText, WorkKeepsText DEF Next, Terminated

\* However commands and tasks interleave, every call lives as CallLifecycle
\* allows: ready only with a transcript, which stays as long as the call does,
\* failed only out of processing, and deleted for good.
THEOREM CallsKeepPromise == Spec => KeepsPromise
<1> USE RegistryAssumption
<1>1. Init => HandleInv /\ TextInv
    BY HandleInvInit, TextInit
<1>2. TypeOK /\ HandleInv /\ TextInv /\ [Next]_vars => HandleInv' /\ TextInv'
    BY HandleInvNext, NextKeepsText
<1>3. TypeOK /\ HandleInv /\ TextInv /\ [Next]_vars
        => [\A c \in Calls : Lifecycle(c)!Step]_vars
    BY NextKeepsText
<1>4. QED
    BY <1>1, <1>2, <1>3, TypeCorrect, PTL DEF Spec, KeepsPromise
-----------------------------------------------------------------------------
(***************************************************************************)
(* One task at a time.  When commands on a call do not overlap, a command  *)
(* that has taken the old task, or found none, has the call to itself      *)
(* until it returns, and no two tasks of one call are ever alive.          *)
(***************************************************************************)
AlonePcs == {"final", "finalrun", "spawn"} \cup SettlePcs

EmptyAfterTake == \A r \in Reqs : reqPc[r] \in SettlePcs => registry[call[r]] = None

LEMMA EmptyAfterTakeInit == ASSUME Init PROVE EmptyAfterTake
BY DEF Init, EmptyAfterTake, SettlePcs

LEMMA EmptyAfterTakeNext ==
    ASSUME RegistryAssumption, ~Overlap, TypeOK, SerialInv, EmptyAfterTake, [Next]_vars
    PROVE  EmptyAfterTake'
<1>0. CoreTypes /\ OneRequestPerCall /\ EmptyBeforeInsert
    BY DEF CoreTypes, TypeOK, SerialInv
<1> USE <1>0 DEF SettlePcs, EmptyAfterTake, CoreTypes, RegistryAssumption
<1>1. CASE \E r \in Reqs : QuietIssue(r)
    BY <1>1 DEF QuietIssue
<1>2. CASE \E r \in Reqs : QuietHandle(r)
    BY <1>2 DEF QuietHandle
<1>3. CASE \E r \in Reqs : TakeStep(r)
    BY <1>3 DEF TakeStep
<1>4. CASE \E r \in Reqs : JoinStep(r)
    BY <1>4 DEF JoinStep, EmptyBeforeInsert
<1>5. CASE \E r \in Reqs : SpawnStep(r)
    BY <1>5 DEF SpawnStep
<1>6. CASE \E r \in Reqs : InsertStep(r)
    BY <1>6 DEF InsertStep, OneRequestPerCall, Active
<1>7. CASE \E r \in Reqs : SendStep(r)
    BY <1>7 DEF SendStep
<1>8. CASE \E t \in Reqs : QuietWork(t)
    BY <1>8 DEF QuietWork
<1>9. CASE \E t \in Reqs : CleanupStep(t)
    BY <1>9 DEF CleanupStep
<1>10. CASE \E t \in Reqs : DropStep(t)
    BY <1>10 DEF DropStep
<1>11. CASE UNCHANGED <<reqPc, call, old, registry, taskPc, aborted>>
    BY <1>11
<1>12. QED
    BY Steps, <1>1, <1>2, <1>3, <1>4, <1>5, <1>6, <1>7, <1>8, <1>9, <1>10, <1>11

\* The call of such a command has no live task.
LEMMA Alone ==
    ASSUME RegistryAssumption, TypeOK, SerialInv, EmptyAfterTake,
           NEW r \in Reqs, reqPc[r] \in AlonePcs,
           NEW t \in Reqs, call[t] = call[r]
    PROVE  taskPc[t] \notin LivePcs
<1> SUFFICES ASSUME taskPc[t] \in LivePcs PROVE FALSE
    OBVIOUS
<1> USE DEF AlonePcs, SettlePcs, Active
<1>1. registry[call[t]] = None /\ registry[call[t]] # t
    BY DEF EmptyAfterTake, SerialInv, EmptyBeforeInsert, RegistryAssumption
<1>2. CASE t \in aborted
  <2>1. PICK q \in Reqs : reqPc[q] = "await" /\ old[q] = t /\ call[q] = call[t]
    BY <1>2 DEF SerialInv, AbortedIsJoined
  <2>2. q = r
    BY <2>1 DEF SerialInv, OneRequestPerCall
  <2>3. QED
    BY <2>1, <2>2
<1>3. CASE t \notin aborted
  <2>1. reqPc[t] = "insert"
    BY <1>1, <1>3 DEF SerialInv, LiveIsRegistered
  <2>2. t = r
    BY <2>1 DEF SerialInv, OneRequestPerCall
  <2>3. QED
    BY <2>1, <2>2
<1>4. QED
    BY <1>2, <1>3

\* Two live tasks of one call are one task.
LEMMA OneTaskPerCall ==
    ASSUME RegistryAssumption, TypeOK, HandleInv, SerialInv,
           NEW s \in Reqs, taskPc[s] \in LivePcs,
           NEW t \in Reqs, taskPc[t] \in LivePcs, call[s] = call[t]
    PROVE  s = t
<1>1. ASSUME NEW u \in Reqs, u \in aborted, taskPc[u] \in LivePcs, call[u] = call[s]
      PROVE  \E q \in Reqs : reqPc[q] = "await" /\ old[q] = u /\ call[q] = call[s]
    BY <1>1 DEF SerialInv, AbortedIsJoined
<1>2. \A u \in Reqs : u \notin aborted /\ taskPc[u] \in LivePcs /\ call[u] = call[s]
        => reqPc[u] = "insert" \/ registry[call[s]] = u
    BY DEF SerialInv, LiveIsRegistered
<1>3. \A q \in Reqs : reqPc[q] \in {"await", "insert"} /\ call[q] = call[s]
        => registry[call[s]] = None
    BY DEF SerialInv, EmptyBeforeInsert
<1>4. \A p, q \in Reqs : /\ reqPc[p] \in {"await", "insert"} /\ call[p] = call[s]
                         /\ reqPc[q] \in {"await", "insert"} /\ call[q] = call[s]
        => p = q
    BY DEF SerialInv, OneRequestPerCall, Active
<1>5. None \notin Reqs
    BY DEF RegistryAssumption
<1>6. CASE s \in aborted
  <2>1. PICK q \in Reqs : reqPc[q] = "await" /\ old[q] = s /\ call[q] = call[s]
    BY <1>1, <1>6
  <2>2. CASE t \in aborted
    BY <1>1, <1>4, <2>1, <2>2
  <2>3. CASE t \notin aborted
    BY <1>2, <1>3, <1>4, <1>5, <2>1, <2>3
  <2>4. QED
    BY <2>2, <2>3
<1>7. CASE s \notin aborted
  <2>1. CASE t \in aborted
    <3>1. PICK q \in Reqs : reqPc[q] = "await" /\ old[q] = t /\ call[q] = call[s]
      BY <1>1, <2>1
    <3>2. QED
      BY <1>2, <1>3, <1>4, <1>5, <1>7, <3>1
  <2>2. CASE t \notin aborted
    BY <1>2, <1>3, <1>4, <1>5, <1>7, <2>2
  <2>3. QED
    BY <2>1, <2>2
<1>8. QED
    BY <1>6, <1>7
-----------------------------------------------------------------------------
(***************************************************************************)
(* No ghost directories.  Nothing works on a call whose row is gone: the   *)
(* task was joined before the rows went, a later command stops at the      *)
(* check of the row, and nobody else had got past it.  So the only         *)
(* directory such a call may still have is the one delete_call is about    *)
(* to remove, and nothing creates it again.                                *)
(***************************************************************************)
DeletedIsAtRest ==
    \A r \in Reqs : ~Exists(call[r]) =>
       /\ taskPc[r] \notin LivePcs
       /\ reqPc[r] \in {"idle", "done", "reset", "chunkrun", "resume", "check", "take",
                        "rows", "dir"}
       /\ reqPc[r] = "take" => op[r] \in {"cancel", "delete"}

DirIsRemoved ==
    \A c \in Calls : ~Exists(c) /\ c \in dirs => \E r \in Reqs : reqPc[r] = "dir" /\ call[r] = c

GhostInv == DeletedIsAtRest /\ DirIsRemoved

LEMMA GhostInit == ASSUME Init PROVE GhostInv
BY SMTT(30) DEF Init, GhostInv, DeletedIsAtRest, DirIsRemoved, Exists

\* Steps that leave the rows, the directories and the requests at "dir" alone.
LEMMA SameDirs ==
    ASSUME DirIsRemoved, \A c \in Calls : Exists(c)' = Exists(c),
           \A c \in Calls : c \in dirs' /\ ~Exists(c) => c \in dirs,
           \A r \in Reqs : reqPc[r] = "dir" => reqPc'[r] = "dir" /\ call'[r] = call[r]
    PROVE  DirIsRemoved'
BY DEF DirIsRemoved

LEMMA IssueKeepsGhost ==
    ASSUME TypeOK, HandleInv, GhostInv, NEW r \in Reqs, Issue(r) PROVE GhostInv'
<1> USE DEF TypeOK, GhostInv, Begin, MayBegin
<1>1. UNCHANGED <<status, taskPc, dirs>> /\ \A c \in Calls : Exists(c)' = Exists(c)
    BY DEF Issue, BeginReprocess, BeginRegen, BeginCancel, BeginDelete, BeginRetry,
           rowVars, diskVars, taskVars, Exists
<1>2. PICK c \in Calls, pc \in {"reset", "chunkrun", "check", "take"} :
         /\ reqPc[r] = "idle"
         /\ reqPc' = [reqPc EXCEPT ![r] = pc]
         /\ call' = [call EXCEPT ![r] = c]
         /\ \E o \in AllOps : op' = [op EXCEPT ![r] = o] /\ (pc = "take" => o \in {"cancel", "delete"})
    BY DEF Issue, BeginReprocess, BeginRegen, BeginCancel, BeginDelete, BeginRetry
<1>3. taskPc[r] = "unborn"
    BY <1>2 DEF HandleInv
<1>4. DeletedIsAtRest'
    BY <1>1, <1>2, <1>3 DEF DeletedIsAtRest, Exists
<1>5. DirIsRemoved'
    BY <1>1, <1>2, SameDirs
<1>6. QED
    BY <1>4, <1>5

LEMMA HandleKeepsGhost ==
    ASSUME RegistryAssumption, TypeOK, HandleInv, SerialInv, EmptyAfterTake, GhostInv,
           NEW r \in Reqs, Handle(r)
    PROVE  GhostInv'
<1> USE DEF TypeOK, Go, argVars, rowVars, diskVars, taskVars
<1>0. GhostInv /\ DeletedIsAtRest /\ DirIsRemoved
    BY DEF GhostInv
<1>1. CASE ResetForReprocess(r) \/ RetryEnds(r) \/ MaybeResume(r)
  <2>1. UNCHANGED <<status, dirs, taskPc, call, op>>
    BY <1>1 DEF ResetForReprocess, RetryEnds, MaybeResume
  <2>2. DeletedIsAtRest'
    BY <1>0, <1>1, <2>1
       DEF ResetForReprocess, RetryEnds, MaybeResume, DeletedIsAtRest, Exists
  <2>3. DirIsRemoved'
    BY <1>0, <1>1, <2>1, SameDirs DEF ResetForReprocess, RetryEnds, MaybeResume, Exists
  <2>4. QED
    BY <2>2, <2>3 DEF GhostInv
<1>2. CASE FinalChunk(r) \/ FinalChunkEnds(r) \/ CheckRow(r) \/ Guard(r)
  <2>1. UNCHANGED <<status, dirs, taskPc, call, op>>
    BY <1>2 DEF FinalChunk, FinalChunkEnds, CheckRow, Guard
  <2>2. DeletedIsAtRest'
    BY <1>0, <1>2, <2>1, SMTT(30)
       DEF FinalChunk, FinalChunkEnds, CheckRow, Guard, DeletedIsAtRest, Exists
  <2>3. DirIsRemoved'
    BY <1>0, <1>2, <2>1, SameDirs DEF FinalChunk, FinalChunkEnds, CheckRow, Guard, Exists
  <2>4. QED
    BY <2>2, <2>3 DEF GhostInv
<1>3. CASE TakeOld(r)
  <2>1. UNCHANGED <<status, dirs, taskPc, call, op>>
    BY <1>3 DEF TakeOld
  <2>2. Exists(call[r])
    BY <1>0, <1>3 DEF TakeOld, HandleInv, NoStaleHandle, DeletedIsAtRest
  <2>3. DeletedIsAtRest'
    BY <1>0, <1>3, <2>1, <2>2 DEF TakeOld, DeletedIsAtRest, Exists
  <2>4. DirIsRemoved'
    BY <1>0, <1>3, <2>1, SameDirs DEF TakeOld, Exists
  <2>5. QED
    BY <2>3, <2>4 DEF GhostInv
<1>4. CASE TakeNothing(r) \/ Joined(r)
  <2>1. UNCHANGED <<status, dirs, taskPc, call, op>>
    BY <1>4 DEF TakeNothing, Joined
  <2>2. DeletedIsAtRest'
    BY <1>0, <1>4, <2>1 DEF TakeNothing, Joined, AfterTake, DeletedIsAtRest, Exists
  <2>3. DirIsRemoved'
    BY <1>0, <1>4, <2>1, SameDirs, ZenonT(40) DEF TakeNothing, Joined, Exists
  <2>4. QED
    BY <2>2, <2>3 DEF GhostInv
<1>5. CASE Spawn(r) \/ Insert(r) \/ Send(r)
  <2>1. UNCHANGED <<status, dirs, call, op>>
    BY <1>5 DEF Spawn, Insert, Send
  <2>2. DeletedIsAtRest'
    BY <1>0, <1>5, <2>1 DEF Spawn, Insert, Send, Step, FirstStep, DeletedIsAtRest, Exists
  <2>3. DirIsRemoved'
    BY <1>0, <1>5, <2>1, SameDirs DEF Spawn, Insert, Send, Exists
  <2>4. QED
    BY <2>2, <2>3 DEF GhostInv
<1>6. CASE Probe(r) \/ Restore(r)
  <2>1. UNCHANGED <<dirs, taskPc, call, op>> /\ \A c \in Calls : Exists(c)' = Exists(c)
    BY <1>6 DEF Probe, Restore, MakeReady, MakeFailed, Exists
  <2>2. reqPc[r] \in {"probe", "makeready", "makefailed"}
    BY <1>6 DEF Probe, Restore
  <2>3. DeletedIsAtRest'
    BY <1>0, <1>6, <2>1, <2>2 DEF Probe, Restore, DeletedIsAtRest
  <2>4. DirIsRemoved'
    BY <1>0, <1>6, <2>1, <2>2, SameDirs DEF Probe, Restore
  <2>5. QED
    BY <2>3, <2>4 DEF GhostInv
<1>7. CASE DeleteRows(r)
  <2>1. /\ reqPc[r] = "rows" /\ reqPc' = [reqPc EXCEPT ![r] = "dir"]
        /\ status' = [status EXCEPT ![call[r]] = "absent"]
        /\ UNCHANGED <<dirs, taskPc, call, op>>
    BY <1>7 DEF DeleteRows
  <2>2. \A t \in Reqs : call[t] = call[r] => taskPc[t] \notin LivePcs
    BY <2>1, Alone DEF AlonePcs, SettlePcs
  <2>3. \A q \in Reqs : call[q] = call[r] => q = r \/ reqPc[q] \in {"idle", "done"}
    BY <2>1 DEF SerialInv, OneRequestPerCall, Active
  <2>4. DeletedIsAtRest'
    <3> SUFFICES ASSUME NEW q \in Reqs, status'[call[q]] = "absent"
                 PROVE  /\ taskPc[q] \notin LivePcs
                        /\ reqPc'[q] \in {"idle", "done", "reset", "chunkrun", "resume",
                                          "check", "take", "rows", "dir"}
                        /\ reqPc'[q] = "take" => op[q] \in {"cancel", "delete"}
      BY <2>1 DEF DeletedIsAtRest, Exists
    <3>1. CASE call[q] = call[r]
      BY <2>1, <2>2, <2>3, <3>1
    <3>2. CASE call[q] # call[r]
      BY <1>0, <2>1, <3>2 DEF DeletedIsAtRest, Exists
    <3>3. QED
      BY <3>1, <3>2
  <2>5. DirIsRemoved'
    BY <1>0, <2>1 DEF DirIsRemoved, Exists
  <2>6. QED
    BY <2>4, <2>5 DEF GhostInv
<1>8. CASE RemoveDir(r)
  <2>1. /\ reqPc[r] = "dir" /\ reqPc' = [reqPc EXCEPT ![r] = "done"]
        /\ dirs' = dirs \ {call[r]} /\ UNCHANGED <<status, taskPc, call, op>>
    BY <1>8 DEF RemoveDir
  <2>2. DeletedIsAtRest'
    BY <1>0, <2>1 DEF DeletedIsAtRest, Exists
  <2>3. DirIsRemoved'
    BY <1>0, <2>1 DEF DirIsRemoved, Exists
  <2>4. QED
    BY <2>2, <2>3 DEF GhostInv
<1>9. QED
    BY <1>1, <1>2, <1>3, <1>4, <1>5, <1>6, <1>7, <1>8 DEF Handle

\* A task moves itself, no request, and neither deletes a row nor brings one back.
LEMMA WorkTouchesTask ==
    ASSUME TypeOK, NEW t \in Reqs, Work(t) \/ Drop(t)
    PROVE  /\ UNCHANGED <<reqPc, call, op>>
           /\ \A c \in Calls : Exists(c)' = Exists(c)
           /\ taskPc[t] \in LivePcs
           /\ \E pc \in TaskPcs : taskPc' = [taskPc EXCEPT ![t] = pc]
<1>1. UNCHANGED <<reqPc, call, op>> /\ \A c \in Calls : Exists(c)' = Exists(c)
    BY DEF TypeOK, Work, ReprocessGivesUp, ReprocessHalts, ReprocessCall, RunInner,
           EngineNotReady, Transcribe, MergeArtifacts, Recap, StageFails, RunOk,
           ReadyWriteFails, RunFailed, Regenerates, RegenStart, RegenEnds, RegenTitle,
           Cleanup, Drop, MakeReady, MakeFailed, rowVars, argVars, Exists
<1>2. /\ taskPc[t] \in LivePcs
      /\ \E pc \in TaskPcs : taskPc' = [taskPc EXCEPT ![t] = pc]
    BY WorkIsQuiet DEF QuietWork, CleanupStep, Drop, Step
<1>3. QED
    BY <1>1, <1>2

LEMMA WorkKeepsGhost ==
    ASSUME TypeOK, GhostInv, NEW t \in Reqs, Work(t) \/ Drop(t) PROVE GhostInv'
<1>1. /\ UNCHANGED <<reqPc, call, op>> /\ \A c \in Calls : Exists(c)' = Exists(c)
      /\ taskPc[t] \in LivePcs
      /\ \E pc \in TaskPcs : taskPc' = [taskPc EXCEPT ![t] = pc]
    BY WorkTouchesTask
<1>2. dirs' \in {dirs, dirs \cup {call[t]}}
    BY DEF Work, ReprocessGivesUp, ReprocessHalts, ReprocessCall, RunInner,
           EngineNotReady, Transcribe, MergeArtifacts, Recap, StageFails, RunOk,
           ReadyWriteFails, RunFailed, Regenerates, RegenStart, RegenEnds, RegenTitle,
           Cleanup, Drop, diskVars
<1>3. Exists(call[t])
    BY <1>1 DEF GhostInv, DeletedIsAtRest
<1>4. DeletedIsAtRest'
    BY <1>1, <1>3 DEF TypeOK, GhostInv, DeletedIsAtRest
<1>5. DirIsRemoved'
    BY <1>1, <1>2, <1>3, SameDirs DEF GhostInv
<1>6. QED
    BY <1>4, <1>5 DEF GhostInv

LEMMA GhostNext ==
    ASSUME RegistryAssumption, TypeOK, HandleInv, SerialInv, EmptyAfterTake, GhostInv,
           [Next]_vars
    PROVE  GhostInv'
<1>1. CASE UNCHANGED vars
  <2>1. UNCHANGED <<status, dirs, taskPc, reqPc, call, op>>
    BY <1>1 DEF vars
  <2>2. QED
    BY <2>1 DEF GhostInv, DeletedIsAtRest, DirIsRemoved, Exists
<1>2. QED
    BY <1>1, IssueKeepsGhost, HandleKeepsGhost, WorkKeepsGhost DEF Next, Terminated

\* As long as commands on one call do not overlap, a deleted call leaves no
\* directory behind: no run recreates it behind delete_call.
THEOREM NoGhostDirectoryHolds == ~Overlap => (Spec => []NoGhostDirectory)
<1> SUFFICES ASSUME ~Overlap PROVE Spec => []NoGhostDirectory
    OBVIOUS
<1> USE RegistryAssumption
<1> DEFINE Inv == HandleInv /\ JoinInv /\ SerialInv /\ EmptyAfterTake /\ GhostInv
<1>1. Init => Inv
    BY HandleInvInit, JoinInvInit, SerialInvInit, EmptyAfterTakeInit, GhostInit
<1>2. TypeOK /\ Inv /\ [Next]_vars => Inv'
    BY HandleInvNext, JoinInvNext, SerialInvNext, EmptyAfterTakeNext, GhostNext
<1>3. Inv => NoGhostDirectory
    BY DEF GhostInv, DirIsRemoved, NoGhostDirectory, Quiet, Active
<1>4. QED
    BY <1>1, <1>2, <1>3, TypeCorrect, PTL DEF Spec
-----------------------------------------------------------------------------
(***************************************************************************)
(* Nothing is left in progress.  Progress is shown only of a call in       *)
(* processing; a call is in processing as long as a run works on it or its *)
(* first run is on the way; and a call in processing whose audio is there  *)
(* has somebody who will settle it: a run, or the command that aborted it. *)
(***************************************************************************)
OpFits ==
    \A r \in Reqs :
       /\ reqPc[r] \in {"final", "finalrun"} => op[r] = "initial"
       /\ reqPc[r] \in {"reset", "chunkrun", "resume", "check", "guard", "take", "await"}
            => op[r] # "initial"
       /\ reqPc[r] \in {"take", "await"} => op[r] # "regen"

ProgressIsProcessing == \A c \in progress : status[c] = "processing"

RunPcs == {"transcribe", "merge", "recap", "ready", "fail"}

Processes(r) ==
    \/ taskPc[r] \in RunPcs
    \/ op[r] = "initial" /\ (reqPc[r] \in {"final", "finalrun", "spawn"} \/ taskPc[r] = "barrier")

RunsProcess == \A r \in Reqs : Processes(r) => status[call[r]] = "processing"

WillSettle(r) ==
    \/ taskPc[r] \in RunPcs \cup {"pre"}
    \/ taskPc[r] = "barrier" /\ op[r] # "regen"
    \/ reqPc[r] \in {"final", "finalrun", "await", "probe", "makeready", "makefailed", "rows"}
    \/ reqPc[r] = "spawn" /\ op[r] # "regen"
    \/ reqPc[r] \in {"reset", "check", "take"} /\ op[r] = "reprocess"

Unsettled(c) == status[c] = "processing" /\ c \in audio

WillBeSettled == \A c \in Calls : Unsettled(c) => \E r \in Reqs : call[r] = c /\ WillSettle(r)

SettleInv == OpFits /\ ProgressIsProcessing /\ RunsProcess /\ WillBeSettled

LEMMA SettleInit == ASSUME Init PROVE SettleInv
<1>1. OpFits /\ ProgressIsProcessing
    BY DEF Init, OpFits, ProgressIsProcessing
<1>2. RunsProcess
    BY DEF Init, RunsProcess, Processes, RunPcs
<1>3. WillBeSettled
    BY DEF Init, WillBeSettled, WillSettle, Unsettled, RunPcs
<1>4. QED
    BY <1>1, <1>2, <1>3 DEF SettleInv

LEMMA OpFitsNext ==
    ASSUME TypeOK, OpFits, [Next]_vars PROVE OpFits'
<1> USE DEF TypeOK, OpFits
<1>1. ASSUME NEW r \in Reqs, Issue(r) PROVE OpFits'
  <2>1. PICK pc \in {"reset", "chunkrun", "check", "take"}, o \in AllOps :
           /\ reqPc' = [reqPc EXCEPT ![r] = pc]
           /\ op' = [op EXCEPT ![r] = o]
           /\ pc = "take" => o # "regen"
    BY <1>1 DEF Issue, Begin, MayBegin, BeginReprocess, BeginRegen, BeginCancel,
       BeginDelete, BeginRetry
  <2>2. QED
    BY <2>1
<1>2. ASSUME NEW r \in Reqs, Handle(r) PROVE OpFits'
  <2> USE <1>2 DEF Go, argVars
  <2>1. op' = op
    BY DEF Handle, ResetForReprocess, RetryEnds, MaybeResume, FinalChunk, FinalChunkEnds,
       CheckRow, Guard, TakeOld, TakeNothing, Joined, Spawn, Insert, Send, Probe, Restore,
       DeleteRows, RemoveDir
  <2>2. PICK pc \in ReqPcs :
           /\ reqPc' = [reqPc EXCEPT ![r] = pc]
           /\ pc \in {"final", "finalrun"} => op[r] = "initial"
           /\ pc \in {"reset", "chunkrun", "resume", "check", "guard", "take", "await"}
                => op[r] # "initial"
           /\ pc \in {"take", "await"} => op[r] # "regen"
    BY DEF Handle, ResetForReprocess, RetryEnds, MaybeResume, FinalChunk, FinalChunkEnds,
       CheckRow, Guard, TakeOld, TakeNothing, AfterTake, Joined, Spawn, Insert, Send, Probe,
       Restore, DeleteRows, RemoveDir
  <2>3. QED
    BY <2>1, <2>2
<1>3. ASSUME NEW t \in Reqs, Work(t) \/ Drop(t) PROVE OpFits'
  <2>1. UNCHANGED <<reqPc, op>>
    BY <1>3, WorkTouchesTask
  <2>2. QED
    BY <2>1
<1>4. CASE UNCHANGED vars
    BY <1>4 DEF vars
<1>5. QED
    BY <1>1, <1>2, <1>3, <1>4 DEF Next, Terminated

\* What the two writers of a settled status do to a call.
Settles(c) == MakeReady(c) \/ MakeFailed(c)

\* A task leaves statuses alone, or starts a run, or settles its call and is done.
LEMMA WorkOnRow ==
    ASSUME TypeOK, NEW t \in Reqs, Work(t) \/ Drop(t)
    PROVE  \/ /\ status' = status
              /\ \/ progress' = progress
                 \/ taskPc[t] \in RunPcs /\ progress' = Mark(progress, call[t])
              /\ taskPc'[t] \in RunPcs => taskPc[t] \in RunPcs
           \/ /\ taskPc[t] = "pre" /\ taskPc' = [taskPc EXCEPT ![t] = "transcribe"]
              /\ status' = [status EXCEPT ![call[t]] = "processing"]
              /\ progress' = progress \ {call[t]}
           \/ /\ taskPc[t] \in {"pre", "ready", "fail"}
              /\ taskPc' = [taskPc EXCEPT ![t] = "cleanup"]
              /\ Settles(call[t])
<1> USE DEF Step, StageAnnounced, rowVars, RunPcs, TypeOK
<1>1. CASE ReprocessGivesUp(t) \/ EngineNotReady(t) \/ ReadyWriteFails(t) \/ Regenerates(t)
              \/ Cleanup(t) \/ Drop(t)
    BY <1>1 DEF ReprocessGivesUp, EngineNotReady, ReadyWriteFails, Regenerates, RegenStart,
       RegenEnds, RegenTitle, Cleanup, Drop
<1>2. CASE Transcribe(t) \/ MergeArtifacts(t) \/ Recap(t) \/ StageFails(t)
    BY <1>2 DEF Transcribe, MergeArtifacts, Recap, StageFails
<1>3. CASE ReprocessHalts(t) \/ RunOk(t) \/ RunFailed(t)
    BY <1>3 DEF ReprocessHalts, RunOk, RunFailed, Settles
<1>4. CASE ReprocessCall(t)
    BY <1>4 DEF ReprocessCall
<1>5. QED
    BY <1>1, <1>2, <1>3, <1>4 DEF Work, RunInner

\* A request leaves statuses alone, or settles its call, or deletes it.
LEMMA HandleOnRow ==
    ASSUME NEW r \in Reqs, Handle(r)
    PROVE  \/ UNCHANGED <<status, progress>>
           \/ /\ reqPc[r] \in {"makeready", "makefailed"} /\ Settles(call[r])
              /\ reqPc' = [reqPc EXCEPT ![r] = "done"]
              /\ UNCHANGED <<taskPc, op, call>>
           \/ /\ reqPc[r] = "rows"
              /\ status' = [status EXCEPT ![call[r]] = "absent"]
              /\ progress' = progress \ {call[r]}
              /\ reqPc' = [reqPc EXCEPT ![r] = "dir"]
              /\ UNCHANGED <<taskPc, op, call>>
<1> USE DEF Go, rowVars, taskVars, argVars
<1>1. CASE Restore(r)
    BY <1>1 DEF Restore, Settles
<1>2. CASE DeleteRows(r)
    BY <1>2 DEF DeleteRows
<1>3. CASE ~Restore(r) /\ ~DeleteRows(r)
    BY <1>3 DEF Handle, ResetForReprocess, RetryEnds, MaybeResume, FinalChunk, FinalChunkEnds,
       CheckRow, Guard, TakeOld, TakeNothing, Joined, Spawn, Insert, Send, Probe, RemoveDir
<1>4. QED
    BY <1>1, <1>2, <1>3

LEMMA IssueLeavesRow ==
    ASSUME NEW r \in Reqs, Issue(r) PROVE UNCHANGED <<status, progress, taskPc>>
BY DEF Issue, BeginReprocess, BeginRegen, BeginCancel, BeginDelete, BeginRetry,
       rowVars, taskVars

\* What settling a call does to the two columns.
LEMMA Settled ==
    ASSUME TypeOK, NEW c \in Calls, Settles(c)
    PROVE  /\ \A d \in Calls \ {c} : status'[d] = status[d]
           /\ status'[c] # "processing"
           /\ progress' \in SUBSET progress
           /\ status'[c] # status[c] => c \notin progress'
BY DEF Settles, MakeReady, MakeFailed, Exists, TypeOK

LEMMA ProgressNext ==
    ASSUME TypeOK, SettleInv, [Next]_vars PROVE ProgressIsProcessing'
<1> USE DEF SettleInv, ProgressIsProcessing, TypeOK
<1>1. ASSUME NEW r \in Reqs, Issue(r) PROVE ProgressIsProcessing'
    BY <1>1, IssueLeavesRow
<1>2. ASSUME NEW r \in Reqs, Handle(r) PROVE ProgressIsProcessing'
  <2>1. CASE UNCHANGED <<status, progress>>
    BY <2>1
  <2>2. CASE Settles(call[r])
    BY <2>2, Settled
  <2>3. CASE /\ status' = [status EXCEPT ![call[r]] = "absent"]
             /\ progress' = progress \ {call[r]}
    BY <2>3
  <2>4. QED
    BY <1>2, <2>1, <2>2, <2>3, HandleOnRow
<1>3. ASSUME NEW t \in Reqs, Work(t) \/ Drop(t) PROVE ProgressIsProcessing'
  <2>1. CASE /\ status' = status
             /\ \/ progress' = progress
                \/ taskPc[t] \in RunPcs /\ progress' = Mark(progress, call[t])
    BY <2>1 DEF RunsProcess, Processes, Mark
  <2>2. CASE /\ status' = [status EXCEPT ![call[t]] = "processing"]
             /\ progress' = progress \ {call[t]}
    BY <2>2
  <2>3. CASE Settles(call[t])
    BY <2>3, Settled
  <2>4. QED
    BY <1>3, <2>1, <2>2, <2>3, WorkOnRow
<1>4. CASE UNCHANGED vars
  <2>1. UNCHANGED <<status, progress>>
    BY <1>4 DEF vars
  <2>2. QED
    BY <2>1
<1>5. QED
    BY <1>1, <1>2, <1>3, <1>4 DEF Next, Terminated

\* Whoever settles or deletes a call is the only one a run of it could be.
LEMMA SettlesAlone ==
    ASSUME RegistryAssumption, TypeOK, HandleInv, SerialInv, EmptyAfterTake,
           NEW r \in Reqs, taskPc[r] \in RunPcs \cup {"pre"} \/ reqPc[r] \in SettlePcs,
           NEW q \in Reqs \ {r}, call[q] = call[r]
    PROVE  ~Processes(q)
<1>1. CASE taskPc[r] \in RunPcs \cup {"pre"}
  <2>1. taskPc[r] \in LivePcs
    BY <1>1 DEF RunPcs
  <2>2. taskPc[q] \notin LivePcs
    BY <2>1, OneTaskPerCall
  <2>3. reqPc[q] \notin {"final", "finalrun", "spawn"}
    BY <2>1, Alone DEF AlonePcs
  <2>4. QED
    BY <2>2, <2>3 DEF Processes, RunPcs
<1>2. CASE reqPc[r] \in SettlePcs
  <2>1. taskPc[q] \notin LivePcs
    BY <1>2, Alone DEF AlonePcs
  <2>2. reqPc[q] \in {"idle", "done"}
    BY <1>2 DEF SettlePcs, SerialInv, OneRequestPerCall, Active
  <2>3. QED
    BY <2>1, <2>2 DEF Processes, RunPcs
<1>3. QED
    BY <1>1, <1>2

LEMMA HandleBringsNoRun ==
    ASSUME TypeOK, OpFits, NEW r \in Reqs, Handle(r)
    PROVE  /\ Processes(r)' => Processes(r)
           /\ \A q \in Reqs \ {r} : Processes(q)' = Processes(q)
           /\ call' = call
<1> USE DEF Go, Step, taskVars, argVars, TypeOK, Processes, RunPcs
<1>1. CASE Spawn(r)
    BY <1>1 DEF Spawn
<1>2. CASE Send(r)
    BY <1>2 DEF Send, FirstStep
<1>3. CASE Insert(r) \/ Probe(r) \/ Restore(r) \/ DeleteRows(r) \/ RemoveDir(r)
    BY <1>3 DEF Insert, Probe, Restore, DeleteRows, RemoveDir
<1>4. CASE ResetForReprocess(r) \/ RetryEnds(r) \/ MaybeResume(r) \/ CheckRow(r) \/ Guard(r)
    BY <1>4 DEF ResetForReprocess, RetryEnds, MaybeResume, CheckRow, Guard, OpFits
<1>5. CASE FinalChunk(r) \/ FinalChunkEnds(r)
    BY <1>5 DEF FinalChunk, FinalChunkEnds, OpFits
<1>6. CASE TakeOld(r) \/ TakeNothing(r) \/ Joined(r)
    BY <1>6 DEF TakeOld, TakeNothing, Joined, AfterTake, OpFits
<1>7. QED
    BY <1>1, <1>2, <1>3, <1>4, <1>5, <1>6 DEF Handle

LEMMA RunsProcessNext ==
    ASSUME RegistryAssumption, TypeOK, HandleInv, SerialInv, EmptyAfterTake, SettleInv,
           [Next]_vars
    PROVE  RunsProcess'
<1>0. RunsProcess /\ OpFits
    BY DEF SettleInv
<1>1. ASSUME NEW r \in Reqs, Issue(r) PROVE RunsProcess'
  <2>1. UNCHANGED <<status, taskPc>> /\ QuietIssue(r)
    BY <1>1, IssueLeavesRow, IssueIsQuiet
  <2>2. PICK o \in AllOps : op' = [op EXCEPT ![r] = o] /\ o # "initial"
    BY <1>1 DEF Issue, Begin, BeginReprocess, BeginRegen, BeginCancel, BeginDelete, BeginRetry
  <2>3. taskPc[r] = "unborn"
    BY <2>1 DEF QuietIssue, HandleInv
  <2>4. QED
    BY <1>0, <2>1, <2>2, <2>3 DEF QuietIssue, RunsProcess, Processes, RunPcs, TypeOK
<1>2. ASSUME NEW r \in Reqs, Handle(r) PROVE RunsProcess'
  <2>1. /\ Processes(r)' => Processes(r)
        /\ \A q \in Reqs \ {r} : Processes(q)' = Processes(q)
        /\ call' = call
    BY <1>0, <1>2, HandleBringsNoRun
  <2>2. CASE UNCHANGED <<status, progress>>
    BY <1>0, <2>1, <2>2 DEF RunsProcess
  <2>3. CASE /\ reqPc[r] \in SettlePcs
             /\ reqPc' = [reqPc EXCEPT ![r] = "done"] \/ reqPc' = [reqPc EXCEPT ![r] = "dir"]
             /\ taskPc' = taskPc
             /\ \A d \in Calls \ {call[r]} : status'[d] = status[d]
    <3>1. taskPc[r] = "unborn"
      BY <2>3 DEF HandleInv, SettlePcs
    <3>2. ~Processes(r)'
      BY <2>3, <3>1 DEF Processes, RunPcs, TypeOK
    <3>3. \A q \in Reqs \ {r} : Processes(q) => call[q] # call[r]
      BY <2>3, SettlesAlone
    <3>4. QED
      BY <1>0, <2>1, <2>3, <3>2, <3>3 DEF RunsProcess, TypeOK
  <2>4. call[r] \in Calls
    BY DEF TypeOK
  <2>5. CASE Settles(call[r]) /\ reqPc[r] \in {"makeready", "makefailed"}
               /\ reqPc' = [reqPc EXCEPT ![r] = "done"] /\ UNCHANGED <<taskPc, op, call>>
    BY <2>3, <2>4, <2>5, Settled DEF SettlePcs
  <2>6. CASE /\ reqPc[r] = "rows"
             /\ status' = [status EXCEPT ![call[r]] = "absent"]
             /\ reqPc' = [reqPc EXCEPT ![r] = "dir"]
             /\ UNCHANGED <<taskPc, op, call>>
    BY <2>3, <2>6 DEF SettlePcs, TypeOK
  <2>7. QED
    BY <1>2, <2>2, <2>5, <2>6, HandleOnRow
<1>3. ASSUME NEW t \in Reqs, Work(t) \/ Drop(t) PROVE RunsProcess'
  <2>1. /\ UNCHANGED <<reqPc, call, op>> /\ taskPc[t] \in LivePcs
        /\ \E pc \in TaskPcs : taskPc' = [taskPc EXCEPT ![t] = pc] /\ pc # "barrier"
    BY <1>3, WorkTouchesTask, WorkIsQuiet DEF QuietWork, CleanupStep, Drop, Step
  <2>2. reqPc[t] \notin {"final", "finalrun", "spawn"}
    BY <2>1 DEF HandleInv
  <2>3. \A q \in Reqs \ {t} : Processes(q)' = Processes(q)
    BY <2>1 DEF Processes, TypeOK
  <2>4. CASE status' = status /\ (taskPc'[t] \in RunPcs => taskPc[t] \in RunPcs)
    BY <1>0, <2>1, <2>2, <2>3, <2>4 DEF RunsProcess, Processes, TypeOK
  <2>5. CASE status' = [status EXCEPT ![call[t]] = "processing"]
    BY <1>0, <2>1, <2>3, <2>5 DEF RunsProcess, TypeOK
  <2>6. CASE /\ taskPc[t] \in {"pre", "ready", "fail"}
             /\ taskPc' = [taskPc EXCEPT ![t] = "cleanup"] /\ Settles(call[t])
    <3>1. \A d \in Calls \ {call[t]} : status'[d] = status[d]
      BY <2>6, Settled DEF TypeOK
    <3>2. ~Processes(t)'
      BY <2>1, <2>2, <2>6 DEF Processes, RunPcs, TypeOK
    <3>3. \A q \in Reqs \ {t} : Processes(q) => call[q] # call[t]
      BY <2>6, SettlesAlone DEF RunPcs
    <3>4. QED
      BY <1>0, <2>1, <2>3, <3>1, <3>2, <3>3 DEF RunsProcess, TypeOK
  <2>7. QED
    BY <1>3, <2>4, <2>5, <2>6, WorkOnRow
<1>4. CASE UNCHANGED vars
  <2>1. UNCHANGED <<status, taskPc, reqPc, op, call>>
    BY <1>4 DEF vars
  <2>2. QED
    BY <1>0, <2>1 DEF RunsProcess, Processes
<1>5. QED
    BY <1>1, <1>2, <1>3, <1>4 DEF Next, Terminated
-----------------------------------------------------------------------------
\* Whoever settles a call passes that on when it moves.
LEMMA SettlerMoves ==
    ASSUME WillBeSettled, NEW r \in Reqs, NEW d \in Calls, call'[r] = d,
           \A q \in Reqs \ {r} : WillSettle(q) => WillSettle(q)' /\ call'[q] = call[q],
           \A c \in Calls \ {d} : Unsettled(c)' => Unsettled(c),
           WillSettle(r) => call[r] = d,
           Unsettled(d)' => WillSettle(r)' \/ (~WillSettle(r) /\ Unsettled(d))
    PROVE  WillBeSettled'
<1> SUFFICES ASSUME NEW c \in Calls, Unsettled(c)'
             PROVE  \E q \in Reqs : call'[q] = c /\ WillSettle(q)'
    BY DEF WillBeSettled
<1>1. CASE c = d /\ WillSettle(r)'
    BY <1>1
<1>2. CASE ~(c = d /\ WillSettle(r)')
  <2>1. Unsettled(c) /\ (c = d => ~WillSettle(r))
    BY <1>2
  <2>2. PICK q \in Reqs : call[q] = c /\ WillSettle(q)
    BY <2>1 DEF WillBeSettled
  <2>3. q # r
    BY <2>1, <2>2
  <2>4. QED
    BY <2>2, <2>3
<1>3. QED
    BY <1>1, <1>2

LEMMA IssueKeepsSettlers ==
    ASSUME TypeOK, HandleInv, SettleInv, NEW r \in Reqs, Issue(r) PROVE WillBeSettled'
<1>1. UNCHANGED <<status, progress, taskPc>> /\ taskPc[r] = "unborn"
    BY IssueLeavesRow, IssueIsQuiet DEF QuietIssue, HandleInv
<1>2. PICK c \in Calls, pc \in {"reset", "chunkrun", "check", "take"}, o \in AllOps :
         /\ reqPc[r] = "idle"
         /\ reqPc' = [reqPc EXCEPT ![r] = pc]
         /\ call' = [call EXCEPT ![r] = c]
         /\ op' = [op EXCEPT ![r] = o]
         /\ audio' = audio \/ (pc = "reset" /\ o = "reprocess" /\ audio' = audio \cup {c})
    BY DEF Issue, Begin, MayBegin, BeginReprocess, BeginRegen, BeginCancel, BeginDelete,
       BeginRetry, diskVars
<1>3. ~WillSettle(r)
    BY <1>1, <1>2 DEF WillSettle, RunPcs
<1>4. \A q \in Reqs \ {r} : (WillSettle(q)' <=> WillSettle(q)) /\ call'[q] = call[q]
    BY <1>1, <1>2 DEF WillSettle, TypeOK
<1>5. call'[r] = c
    BY <1>2 DEF TypeOK
<1>6. \A d \in Calls \ {c} : Unsettled(d)' => Unsettled(d)
    BY <1>1, <1>2 DEF Unsettled
<1>7. Unsettled(c)' => WillSettle(r)' \/ Unsettled(c)
    BY <1>1, <1>2 DEF Unsettled, WillSettle, TypeOK
<1>8. WillBeSettled
    BY DEF SettleInv
<1>9. QED
    BY <1>3, <1>4, <1>5, <1>6, <1>7, <1>8, SettlerMoves

LEMMA HandleKeepsSettlers ==
    ASSUME TypeOK, HandleInv, SettleInv, NEW r \in Reqs, Handle(r) PROVE WillBeSettled'
<1> USE DEF TypeOK, Go, Step, rowVars, diskVars, taskVars, argVars
<1>1. OpFits /\ WillBeSettled
    BY DEF SettleInv
<1>2. call' = call /\ op' = op
    BY DEF Handle, ResetForReprocess, RetryEnds, MaybeResume, FinalChunk, FinalChunkEnds,
       CheckRow, Guard, TakeOld, TakeNothing, Joined, Spawn, Insert, Send, Probe, Restore,
       DeleteRows, RemoveDir
<1>3. \A q \in Reqs \ {r} : reqPc'[q] = reqPc[q] /\ taskPc'[q] = taskPc[q]
    BY HandleIsQuiet DEF QuietHandle, TakeStep, JoinStep, SpawnStep, InsertStep, SendStep
<1>4. \A q \in Reqs \ {r} : WillSettle(q) => WillSettle(q)'
    BY <1>2, <1>3 DEF WillSettle
<1>5. \A c \in Calls : Unsettled(c)' => Unsettled(c)
    BY ZenonT(40) DEF Handle, ResetForReprocess, RetryEnds, MaybeResume, FinalChunk, FinalChunkEnds,
       CheckRow, Guard, TakeOld, TakeNothing, Joined, Spawn, Insert, Send, Probe, Restore,
       DeleteRows, RemoveDir, MakeReady, MakeFailed, Unsettled
<1>6. reqPc[r] \notin {"insert", "send", "done"} => taskPc[r] = "unborn"
    BY DEF HandleInv
<1>7. WillSettle(r) /\ Unsettled(call[r])' => WillSettle(r)'
  <2>1. CASE ResetForReprocess(r) \/ RetryEnds(r) \/ MaybeResume(r) \/ Guard(r)
    BY <1>2, <1>6, <2>1
       DEF ResetForReprocess, RetryEnds, MaybeResume, Guard, WillSettle, RunPcs
  <2>2. CASE FinalChunk(r) \/ FinalChunkEnds(r)
    BY <1>1, <1>2, <2>2 DEF FinalChunk, FinalChunkEnds, WillSettle, OpFits
  <2>3. CASE CheckRow(r)
    BY <1>2, <1>6, <2>3 DEF CheckRow, WillSettle, RunPcs, Unsettled, Exists
  <2>4. CASE TakeOld(r)
    BY <1>2, <2>4 DEF TakeOld, WillSettle
  <2>5. CASE TakeNothing(r) \/ Joined(r)
    BY <1>1, <1>2, <1>6, <2>5
       DEF TakeNothing, Joined, AfterTake, WillSettle, RunPcs, OpFits
  <2>6. CASE Spawn(r)
    BY <1>2, <1>6, <2>6 DEF Spawn, WillSettle, RunPcs
  <2>7. CASE Insert(r) \/ Send(r)
    BY <1>2, <2>7 DEF Insert, Send, FirstStep, WillSettle, RunPcs
  <2>8. CASE Probe(r)
    BY <2>8 DEF Probe, WillSettle
  <2>9. CASE Restore(r) \/ DeleteRows(r)
    BY <2>9 DEF Restore, MakeReady, MakeFailed, DeleteRows, Exists, Unsettled
  <2>10. CASE RemoveDir(r)
    BY <1>6, <2>10 DEF RemoveDir, WillSettle, RunPcs
  <2>11. QED
    BY <2>1, <2>2, <2>3, <2>4, <2>5, <2>6, <2>7, <2>8, <2>9, <2>10 DEF Handle
<1>8. call[r] \in Calls
    OBVIOUS
<1>9. QED
    BY <1>1, <1>2, <1>4, <1>5, <1>7, <1>8, SettlerMoves

LEMMA WorkKeepsSettlers ==
    ASSUME TypeOK, HandleInv, SerialInv, SettleInv, NEW t \in Reqs, Work(t) \/ Drop(t)
    PROVE  WillBeSettled'
<1> USE DEF TypeOK, Step, rowVars, diskVars, taskVars, argVars
<1>1. WillBeSettled
    BY DEF SettleInv
<1>2. /\ UNCHANGED <<reqPc, call, op>> /\ taskPc[t] \in LivePcs
      /\ \E pc \in TaskPcs : taskPc' = [taskPc EXCEPT ![t] = pc]
    BY WorkTouchesTask
<1>3. \A q \in Reqs \ {t} : WillSettle(q) => WillSettle(q)'
    BY <1>2 DEF WillSettle
<1>4. reqPc[t] \in {"insert", "send", "done"}
    BY <1>2 DEF HandleInv
<1>5. CASE Work(t)
  <2>1. \A c \in Calls \ {call[t]} : Unsettled(c)' => Unsettled(c)
    BY <1>5 DEF Work, ReprocessGivesUp, ReprocessHalts, ReprocessCall, RunInner,
       EngineNotReady, Transcribe, MergeArtifacts, Recap, StageFails, RunOk,
       ReadyWriteFails, RunFailed, Regenerates, RegenStart, RegenEnds, RegenTitle,
       Cleanup, MakeReady, MakeFailed, Unsettled
  <2>2. Unsettled(call[t])' => WillSettle(t)' \/ (~WillSettle(t) /\ Unsettled(call[t]))
    <3>1. CASE ReprocessGivesUp(t)
      BY <3>1 DEF ReprocessGivesUp, Unsettled, Exists
    <3>2. CASE ReprocessHalts(t) \/ RunOk(t) \/ RunFailed(t)
      BY <3>2 DEF ReprocessHalts, RunOk, RunFailed, MakeReady, MakeFailed, Exists, Unsettled
    <3>3. CASE ReprocessCall(t)
      BY <3>3 DEF ReprocessCall, WillSettle, RunPcs
    <3>4. CASE RunInner(t)
      BY <3>4 DEF RunInner, EngineNotReady, Transcribe, MergeArtifacts, Recap, StageFails,
         WillSettle, RunPcs
    <3>5. CASE ReadyWriteFails(t)
      BY <3>5 DEF ReadyWriteFails, WillSettle, RunPcs
    <3>6. CASE Regenerates(t) \/ Cleanup(t)
      <4>1. UNCHANGED <<status, audio>> /\ taskPc[t] \in {"regen", "regenrun", "cleanup"}
        BY <3>6 DEF Regenerates, RegenStart, RegenEnds, RegenTitle, Cleanup
      <4>2. ~WillSettle(t)
        BY <1>4, <4>1 DEF WillSettle, RunPcs
      <4>3. Unsettled(call[t])' => Unsettled(call[t])
        BY <1>2, <4>1 DEF Unsettled
      <4>4. QED
        BY <4>2, <4>3
    <3>7. QED
      BY <1>5, <3>1, <3>2, <3>3, <3>4, <3>5, <3>6 DEF Work
  <2>3. call[t] \in Calls
    OBVIOUS
  <2>4. QED
    BY <1>1, <1>2, <1>3, <2>1, <2>2, <2>3, SettlerMoves
<1>6. CASE Drop(t)
  <2>1. PICK r \in Reqs : reqPc[r] = "await" /\ call[r] = call[t]
    BY <1>6 DEF Drop, SerialInv, AbortedIsJoined
  <2>2. r # t /\ WillSettle(r)
    BY <1>4, <2>1 DEF WillSettle
  <2>3. \A c \in Calls : Unsettled(c)' = Unsettled(c)
    BY <1>6 DEF Drop, Unsettled
  <2>4. SUFFICES ASSUME NEW c \in Calls, Unsettled(c)
                 PROVE  \E q \in Reqs : call[q] = c /\ WillSettle(q)'
    BY <1>2, <2>3 DEF WillBeSettled
  <2>5. PICK q \in Reqs : call[q] = c /\ WillSettle(q)
    BY <1>1, <2>4 DEF WillBeSettled
  <2>6. CASE q = t
    BY <1>3, <2>1, <2>2, <2>5, <2>6
  <2>7. CASE q # t
    BY <1>3, <2>5, <2>7
  <2>8. QED
    BY <2>6, <2>7
<1>7. QED
    BY <1>5, <1>6

LEMMA SettleNext ==
    ASSUME RegistryAssumption, TypeOK, HandleInv, SerialInv, EmptyAfterTake, SettleInv,
           [Next]_vars
    PROVE  SettleInv'
<1>1. OpFits' /\ ProgressIsProcessing' /\ RunsProcess'
    BY OpFitsNext, ProgressNext, RunsProcessNext DEF SettleInv
<1>2. CASE UNCHANGED vars
  <2>1. UNCHANGED <<status, audio, taskPc, reqPc, op, call>>
    BY <1>2 DEF vars
  <2>2. WillBeSettled'
    BY <2>1 DEF SettleInv, WillBeSettled, WillSettle, Unsettled
  <2>3. QED
    BY <1>1, <2>2 DEF SettleInv
<1>3. QED
    BY <1>1, <1>2, IssueKeepsSettlers, HandleKeepsSettlers, WorkKeepsSettlers
       DEF Next, Terminated, SettleInv

\* As long as commands on one call do not overlap, a call is left in processing
\* only without audio, and no progress is shown of a settled one, once
\* everything is at rest.
THEOREM NothingLeftInProgressHolds == ~Overlap => (Spec => []NothingLeftInProgress)
<1> SUFFICES ASSUME ~Overlap PROVE Spec => []NothingLeftInProgress
    OBVIOUS
<1> USE RegistryAssumption
<1> DEFINE Inv == HandleInv /\ JoinInv /\ SerialInv /\ EmptyAfterTake /\ SettleInv
<1>1. Init => Inv
    BY HandleInvInit, JoinInvInit, SerialInvInit, EmptyAfterTakeInit, SettleInit
<1>2. TypeOK /\ Inv /\ [Next]_vars => Inv'
    BY HandleInvNext, JoinInvNext, SerialInvNext, EmptyAfterTakeNext, SettleNext
<1>3. Inv => NothingLeftInProgress
  <2> SUFFICES ASSUME SettleInv, Quiet, NEW c \in Calls
               PROVE  /\ status[c] = "processing" => c \notin audio
                      /\ c \in progress => status[c] = "processing"
    BY DEF NothingLeftInProgress
  <2>1. \A r \in Reqs : ~WillSettle(r)
    BY DEF Quiet, Active, WillSettle, RunPcs
  <2>2. QED
    BY <2>1 DEF SettleInv, ProgressIsProcessing, WillBeSettled, Unsettled
<1>4. QED
    BY <1>1, <1>2, <1>3, TypeCorrect, PTL DEF Spec
=============================================================================
