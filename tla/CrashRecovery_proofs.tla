------------------------- MODULE CrashRecovery_proofs -------------------------
(***************************************************************************)
(* For any limits, any number of crashes, chunks and background tasks: the  *)
(* anti-loop guarantee of automatic recovery, whose marker file is written  *)
(* before each recovery; type correctness; no chunk is ever stuck; the call *)
(* implements CallLifecycle; and no start or crash costs a whole recording. *)
(***************************************************************************)
EXTENDS CrashRecovery, TLAPS, WellFoundedInduction

\* The tries counted on disk never lag behind the recoveries that started.
TriesCoverLaunches ==
    /\ launched \in Nat
    /\ autoTries \in 0..MaxAutoTries
    /\ launched <= autoTries

\* The limit is a number.
LEMMA LimitIsNat == MaxAutoTries \in Nat
BY RecoveryAssumption DEF RecoveryAssumption

\* So are the other bounds.
LEMMA BoundsAreNat ==
    /\ MaxChunk \in Nat /\ MaxCrashes \in Nat /\ MaxFlips \in Nat
    /\ MaxParkedTries \in Nat
BY RecoveryAssumption DEF RecoveryAssumption

\* auto_recover_interrupted_calls writes the marker before it starts.
LEMMA AutoRecoverCounts ==
    ASSUME TriesCoverLaunches, AutoRecover
    PROVE  TriesCoverLaunches'
<1>1. CASE AutoCandidate
  <2>1. autoTries < MaxAutoTries /\ autoTries' = autoTries + 1
    BY <1>1 DEF AutoCandidate, AutoRecover
  <2>2. launched' = launched + 1 \/ launched' = launched
    BY DEF AutoRecover
  <2> QED  BY <2>1, <2>2, LimitIsNat DEF TriesCoverLaunches
<1>2. CASE ~AutoCandidate
  <2>1. autoTries' = autoTries /\ launched' = launched
    BY <1>2 DEF AutoRecover
  <2> QED  BY <2>1 DEF TriesCoverLaunches
<1> QED  BY <1>1, <1>2

\* What records, stops, crashes and starts leaves the markers alone.
LEMMA SessionKeepsTries ==
    ASSUME \/ Record \/ Grow \/ Rotate \/ StopShort \/ StopFails
           \/ \E j \in Jobs : Stop(j)
           \/ \E k \in Chunks : LiveChunk(k)
           \/ Crash \/ Start \/ Sweep \/ Reconcile
           \/ EngineReady \/ EngineLost \/ AskAgain
    PROVE  UNCHANGED <<autoTries, launched>>
BY DEF Record, Grow, Rotate, StopShort, StopFails, Stop, LiveChunk, Crash, Start, Sweep,
       Reconcile, EngineReady, EngineLost, AskAgain, triesVars

\* A background task leaves the start, the engine, the markers and the chunks on
\* disk alone,
LEMMA JobKept == ASSUME NEW j \in Jobs, Job(j)  PROVE JobKeeps
<1> USE DEF Step
<1>1. ASSUME NEW from, NEW why, FailCall(j, from, why)  PROVE JobKeeps
  BY <1>1 DEF FailCall
<1>2. ASSUME NEW from, NEW ok, ChunkSettled(j, from, ok)  PROVE JobKeeps
  BY <1>2 DEF ChunkSettled
<1>3. CASE Drained(j) \/ Reconstruct(j) \/ Write(j) \/ MarkReady(j)
  BY <1>3 DEF Drained, Reconstruct, Write, MarkReady
<1>4. CASE Claim(j) \/ Transcribe(j)
  BY <1>2, <1>4 DEF Claim, Transcribe
<1>5. CASE Precheck(j) \/ AssertReady(j) \/ Gate(j) \/ Recap(j)
  BY <1>1, <1>5 DEF Precheck, AssertReady, Gate, Recap
<1> QED  BY <1>3, <1>4, <1>5 DEF Job

\* ... so the tries too.
LEMMA JobKeepsTries ==
    ASSUME NEW j \in Jobs, Job(j)
    PROVE  UNCHANGED <<autoTries, launched>>
BY JobKept DEF JobKeeps, triesVars

\* The three facts of the invariance proof.
LEMMA TriesInit == Init => TriesCoverLaunches
BY LimitIsNat DEF Init, TriesCoverLaunches

LEMMA TriesNext == TriesCoverLaunches /\ [Next]_vars => TriesCoverLaunches'
<1> SUFFICES ASSUME TriesCoverLaunches, [Next]_vars  PROVE TriesCoverLaunches'
  OBVIOUS
<1>1. UNCHANGED <<autoTries, launched>> => TriesCoverLaunches'
  BY DEF TriesCoverLaunches
<1>2. CASE AutoRecover
  BY <1>2, AutoRecoverCounts
<1>3. CASE ParkedResume
  BY <1>3, <1>1 DEF ParkedResume
<1>4. CASE \E j \in Jobs : Job(j)
  BY <1>4, <1>1, JobKeepsTries
<1>5. CASE \/ Record \/ Grow \/ Rotate \/ StopShort \/ StopFails
           \/ \E j \in Jobs : Stop(j)
           \/ \E k \in Chunks : LiveChunk(k)
           \/ Crash \/ Start \/ Sweep \/ Reconcile
           \/ EngineReady \/ EngineLost \/ AskAgain
  BY <1>5, <1>1, SessionKeepsTries
<1>6. CASE UNCHANGED vars
  BY <1>6, <1>1 DEF vars, triesVars
<1> QED  BY <1>2, <1>3, <1>4, <1>5, <1>6 DEF Next

\* A call is recovered automatically at most MaxAutoTries times, whatever
\* crashes in between (AUTO_RECOVER_MAX_TRIES and its marker file).
THEOREM AutoRecoveryBoundedHolds == Spec => []AutoRecoveryBounded
<1>1. TriesCoverLaunches => AutoRecoveryBounded
  BY LimitIsNat DEF TriesCoverLaunches, AutoRecoveryBounded
<1> QED  BY <1>1, TriesInit, TriesNext, PTL DEF Spec
-----------------------------------------------------------------------------
(***************************************************************************)
(* Type correctness.  The one fact that is not read off an action is that  *)
(* the last chunk on disk exists when there is one.                        *)
(***************************************************************************)
LEMMA LastChunkExists ==
    ASSUME wavs \subseteq Chunks, wavs # {}
    PROVE  LastChunk \in wavs
<1> DEFINE below == {n \in Nat : \E k \in wavs : n = MaxChunk - k}
<1>1. MaxChunk \in Nat
  BY RecoveryAssumption DEF RecoveryAssumption
<1>2. below # {} /\ below \subseteq Nat
  <2>1. PICK k \in wavs : TRUE
    OBVIOUS
  <2>2. MaxChunk - k \in Nat
    BY <1>1, <2>1 DEF Chunks
  <2> QED  BY <2>1, <2>2
<1>3. PICK n \in below : \A m \in below : ~ (<<m, n>> \in OpToRel(<, Nat))
  <2> HIDE DEF below
  <2> QED  BY <1>2, WFMin, NatLessThanWellFounded
<1>4. \A m \in below : n <= m
  <2> TAKE m \in below
  <2>1. m \in Nat /\ n \in Nat
    BY <1>2
  <2>2. ~ (m < n)
    BY <1>3, <2>1 DEF OpToRel
  <2> QED  BY <2>1, <2>2
<1>5. PICK k \in wavs : n = MaxChunk - k
  OBVIOUS
<1>6. \A i \in wavs : i <= k
  <2> TAKE i \in wavs
  <2>1. MaxChunk - i \in below
    BY <1>1 DEF Chunks
  <2> QED  BY <1>1, <1>4, <1>5, <2>1 DEF Chunks
<1> QED  BY <1>5, <1>6 DEF LastChunk

\* The two halves of TypeOK: flags, and everything else.
FlagTypes ==
    /\ autoDue \in BOOLEAN /\ resumeDue \in BOOLEAN /\ engine \in BOOLEAN
    /\ long \in BOOLEAN /\ root \in BOOLEAN /\ md \in BOOLEAN

DataTypes ==
    /\ boot \in {"down", "sweep", "reconcile", "up"}
    /\ status \in {"none", "recording", "processing", "ready", "failed", "deleted"}
    /\ reason \in {"null", "interrupted", "not_ready", "other"}
    /\ wavs \subseteq Chunks
    /\ autoTries \in 0..MaxAutoTries
    /\ parkedTries \in 0..MaxParkedTries
    /\ row \in [Chunks -> RowStatus]
    /\ live \in [Chunks -> {"none", "claim", "stt"}]
    /\ pc \in [Jobs -> Pcs]
    /\ todo \in [Jobs -> SUBSET Chunks]
    /\ good \in [Jobs -> BOOLEAN]
    /\ owner \in Jobs \cup {None}
    /\ launched \in Nat
    /\ crashes \in 0..MaxCrashes
    /\ flips \in 0..MaxFlips

LEMMA TypeHalves == TypeOK <=> FlagTypes /\ DataTypes
BY Zenon DEF TypeOK, FlagTypes, DataTypes

LEMMA RecoveryTypeInit == Init => TypeOK
<1> SUFFICES ASSUME Init  PROVE FlagTypes /\ DataTypes
  BY TypeHalves
<1>1. FlagTypes
  BY Zenon DEF Init, FlagTypes
<1>2. DataTypes
  BY LimitIsNat, BoundsAreNat DEF Init, DataTypes, RowStatus, Pcs, Chunks
<1> QED  BY <1>1, <1>2

LEMMA TypeRecording ==
    ASSUME DataTypes,
           Record \/ Grow \/ Rotate \/ StopShort \/ StopFails \/ (\E j \in Jobs : Stop(j))
    PROVE  DataTypes'
<1> USE DEF DataTypes, bootVars, callVars, diskVars, triesVars, jobVars, bounds
<1>1. CASE Record
  <2>1. wavs' = {0} \/ wavs' = wavs
    BY Zenon, <1>1 DEF Record
  <2>2. wavs' \subseteq Chunks
    <3>1. wavs \subseteq Chunks
      OBVIOUS
    <3>2. {0} \subseteq Chunks
      BY BoundsAreNat DEF Chunks
    <3> QED  BY Zenon, <2>1, <3>1, <3>2
  <2>3. status' = "recording" /\ UNCHANGED <<boot, reason, triesVars, row, live, jobVars, bounds>>
    BY Zenon, <1>1 DEF Record
  <2> QED  BY <2>2, <2>3
<1>2. CASE Grow
  BY <1>2 DEF Grow
<1>3. CASE Rotate
  <2>1. LastChunk \in Chunks /\ LastChunk < MaxChunk
    BY <1>3, LastChunkExists DEF Rotate
  <2>2. wavs' \subseteq Chunks
    BY <1>3, <2>1, BoundsAreNat DEF Rotate, Chunks
  <2>3. row' \in [Chunks -> RowStatus]
    BY <1>3 DEF Rotate, RowStatus
  <2>4. live' \in [Chunks -> {"none", "claim", "stt"}]
    BY <1>3 DEF Rotate
  <2>5. UNCHANGED <<bootVars, engine, callVars, long, root, md, triesVars, jobVars, bounds>>
    BY <1>3 DEF Rotate
  <2> QED  BY <2>2, <2>3, <2>4, <2>5
<1>4. CASE StopShort
  BY <1>4 DEF StopShort, DeleteCall, RowStatus
<1>5. CASE StopFails
  BY <1>5 DEF StopFails
<1>6. CASE \E j \in Jobs : Stop(j)
  <2> PICK j \in Jobs : Stop(j)
    BY <1>6
  <2>1. pc' \in [Jobs -> Pcs]
    BY DEF Stop, Pcs
  <2>2. row' \in [Chunks -> RowStatus] /\ live' \in [Chunks -> {"none", "claim", "stt"}]
    <3>1. CASE wavs = {}
      BY <3>1 DEF Stop
    <3>2. CASE wavs # {}
      BY <3>2 DEF Stop, RowStatus
    <3> QED  BY <3>1, <3>2
  <2>3. /\ status' = "processing"
        /\ UNCHANGED <<bootVars, engine, reason, diskVars, triesVars, todo, good, owner, bounds>>
    BY DEF Stop
  <2> QED  BY <2>1, <2>2, <2>3
<1> QED  BY <1>1, <1>2, <1>3, <1>4, <1>5, <1>6

LEMMA TypeSessionChunk ==
    ASSUME DataTypes, NEW k \in Chunks, LiveChunk(k)  PROVE DataTypes'
BY DEF LiveChunk, DataTypes, RowStatus, bootVars, callVars, diskVars, triesVars, jobVars, bounds

LEMMA TypeStart ==
    ASSUME DataTypes,
           Crash \/ Start \/ Sweep \/ Reconcile \/ EngineReady \/ EngineLost \/ AskAgain
    PROVE  DataTypes'
<1> USE BoundsAreNat DEF DataTypes, bootVars, callVars, diskVars, triesVars, jobVars, bounds
<1>1. CASE Crash
  BY <1>1 DEF Crash, Pcs
<1>2. CASE Start
  BY <1>2 DEF Start
<1>3. CASE Sweep
  BY <1>3 DEF Sweep, RowStatus
<1>4. CASE Reconcile
  BY <1>4 DEF Reconcile, DeleteCall, RowStatus
<1>5. CASE EngineReady
  BY <1>5 DEF EngineReady
<1>6. CASE EngineLost
  BY <1>6 DEF EngineLost
<1>7. CASE AskAgain
  BY <1>7 DEF AskAgain
<1> QED  BY <1>1, <1>2, <1>3, <1>4, <1>5, <1>6, <1>7

LEMMA TypeTakenUp ==
    ASSUME DataTypes, AutoRecover \/ ParkedResume  PROVE DataTypes'
<1> USE LimitIsNat, BoundsAreNat DEF DataTypes, callVars, diskVars
<1>1. ASSUME NEW j \in Jobs, StartJob(j, "reconstruct")
      PROVE  /\ pc' \in [Jobs -> Pcs]
             /\ todo' \in [Jobs -> SUBSET Chunks]
             /\ good' \in [Jobs -> BOOLEAN]
  BY <1>1 DEF StartJob, Pcs
<1>2. ASSUME NEW j \in Jobs, Reprocess(j)
      PROVE  pc' \in [Jobs -> Pcs] /\ owner' \in Jobs \cup {None} /\ UNCHANGED <<todo, good>>
  BY <1>2 DEF Reprocess, Pcs
<1>3. CASE AutoRecover
  <2>1. autoTries' \in 0..MaxAutoTries
    BY <1>3 DEF AutoRecover, AutoCandidate
  <2>2. /\ launched' \in Nat
        /\ pc' \in [Jobs -> Pcs]
        /\ todo' \in [Jobs -> SUBSET Chunks]
        /\ good' \in [Jobs -> BOOLEAN]
    BY <1>1, <1>3 DEF AutoRecover
  <2>3. /\ autoDue' = FALSE
        /\ UNCHANGED <<boot, resumeDue, engine, callVars, diskVars, parkedTries, row, live,
                       owner, bounds>>
    BY <1>3 DEF AutoRecover
  <2> QED  BY <2>1, <2>2, <2>3 DEF bounds
<1>4. CASE ParkedResume
  <2>1. parkedTries' \in 0..MaxParkedTries
    BY <1>4 DEF ParkedResume, ParkedCandidate
  <2>2. /\ pc' \in [Jobs -> Pcs] /\ owner' \in Jobs \cup {None}
        /\ todo' \in [Jobs -> SUBSET Chunks]
        /\ good' \in [Jobs -> BOOLEAN]
    BY <1>1, <1>2, <1>4 DEF ParkedResume, jobVars
  <2>3. /\ resumeDue' = FALSE
        /\ UNCHANGED <<boot, autoDue, engine, callVars, diskVars, autoTries, launched, row,
                       live, bounds>>
    BY <1>4 DEF ParkedResume
  <2> QED  BY <2>1, <2>2, <2>3 DEF bounds
<1> QED  BY <1>3, <1>4

\* Every step of a background task moves its own counter and, at most, the
\* registered task.
LEMMA TypeStep ==
    ASSUME DataTypes, NEW j \in Jobs, NEW from, NEW to \in Pcs, Step(j, from, to)
    PROVE  /\ pc' \in [Jobs -> Pcs]
           /\ owner' \in Jobs \cup {None}
           /\ JobKeeps
BY DEF DataTypes, Step, Goto

LEMMA TypeJob ==
    ASSUME DataTypes, NEW j \in Jobs, Job(j)  PROVE DataTypes'
<1> USE DEF DataTypes, JobKeeps, bootVars, callVars, triesVars, bounds
<1>1. {"free", "assert", "gate", "write", "recap", "ready", "claim", "stt"} \subseteq Pcs
  BY DEF Pcs
<1>2. ASSUME NEW from, NEW why \in {"other", "not_ready"}, FailCall(j, from, why)
      PROVE  /\ pc' \in [Jobs -> Pcs] /\ owner' \in Jobs \cup {None} /\ JobKeeps
             /\ status' \in {"none", "recording", "processing", "ready", "failed", "deleted"}
             /\ reason' \in {"null", "interrupted", "not_ready", "other"}
  <2>1. Step(j, from, "free")
    BY <1>2 DEF FailCall
  <2>2. pc' \in [Jobs -> Pcs] /\ owner' \in Jobs \cup {None} /\ JobKeeps
    BY <1>1, <2>1, TypeStep
  <2>3. (status' = "failed" /\ reason' = why) \/ UNCHANGED callVars
    BY <1>2 DEF FailCall
  <2> QED  BY <2>2, <2>3
<1>3. ASSUME NEW from, NEW ok \in BOOLEAN, ChunkSettled(j, from, ok)
      PROVE  /\ pc' \in [Jobs -> Pcs] /\ owner' \in Jobs \cup {None} /\ JobKeeps
             /\ todo' \in [Jobs -> SUBSET Chunks] /\ good' \in [Jobs -> BOOLEAN]
             /\ UNCHANGED <<callVars, root, md>>
  <2> DEFINE rest == todo[j] \ {Next1(todo[j])}
             to == IF rest # {} THEN "claim" ELSE IF good[j] \/ ok THEN "assert" ELSE "free"
  <2>1. Step(j, from, to) /\ to \in Pcs
    BY <1>1, <1>3 DEF ChunkSettled
  <2>2. pc' \in [Jobs -> Pcs] /\ owner' \in Jobs \cup {None} /\ JobKeeps
    <3> HIDE DEF to
    <3> QED  BY <2>1, TypeStep
  <2>3. rest \subseteq Chunks /\ (good[j] \/ ok) \in BOOLEAN
    OBVIOUS
  <2>4. todo' \in [Jobs -> SUBSET Chunks]
    BY <1>3, <2>3 DEF ChunkSettled
  <2>5. good' \in [Jobs -> BOOLEAN]
    BY <1>3 DEF ChunkSettled
  <2>6. UNCHANGED <<callVars, root, md>>
    BY <1>3 DEF ChunkSettled
  <2> QED  BY <2>2, <2>4, <2>5, <2>6
<1>4. CASE Drained(j)
  BY <1>1, <1>4, TypeStep DEF Drained
<1>5. CASE Reconstruct(j)
  <2> DEFINE missing == {k \in wavs : row[k] # "done"}
             to == IF wavs = {} THEN "free" ELSE IF missing = {} THEN "assert" ELSE "claim"
  <2>1. Step(j, "reconstruct", to) /\ to \in Pcs
    BY <1>1, <1>5 DEF Reconstruct
  <2>2. pc' \in [Jobs -> Pcs] /\ owner' \in Jobs \cup {None} /\ JobKeeps
    <3> HIDE DEF to
    <3> QED  BY <2>1, TypeStep
  <2>3. todo' \in [Jobs -> SUBSET Chunks]
    BY <1>5 DEF Reconstruct
  <2>4. row' \in [Chunks -> RowStatus]
    BY <1>5 DEF Reconstruct, RowStatus
  <2>5. UNCHANGED <<callVars, root, md, good>>
    BY <1>5 DEF Reconstruct
  <2> QED  BY <2>2, <2>3, <2>4, <2>5
<1>6. CASE Claim(j)
  <2>1. CASE row[Next1(todo[j])] = "pending"
    <3>1. Step(j, "claim", "stt") /\ UNCHANGED <<callVars, root, md, todo, good>>
      BY <1>6, <2>1 DEF Claim
    <3>2. pc' \in [Jobs -> Pcs] /\ owner' \in Jobs \cup {None} /\ JobKeeps
      BY <1>1, <3>1, TypeStep
    <3>3. row' \in [Chunks -> RowStatus]
      BY <1>6, <2>1 DEF Claim, RowStatus
    <3> QED  BY <3>1, <3>2, <3>3
  <2>2. CASE row[Next1(todo[j])] # "pending"
    BY <1>3, <1>6, <2>2 DEF Claim
  <2> QED  BY <2>1, <2>2
<1>7. CASE Transcribe(j)
  <2>1. \E ok \in BOOLEAN : ChunkSettled(j, "stt", ok)
    BY <1>7 DEF Transcribe
  <2>2. \/ row' = row
        \/ \E s \in {"done", "failed"} : row' = [row EXCEPT ![Next1(todo[j])] = s]
    BY Zenon, <1>7 DEF Transcribe
  <2>3. row' \in [Chunks -> RowStatus]
    BY <2>2 DEF RowStatus
  <2> QED  BY <1>3, <2>1, <2>3
<1>8. CASE Precheck(j)
  <2>1. CASE Step(j, "precheck", "free") /\ UNCHANGED callVars
    BY <1>1, <1>8, <2>1, TypeStep DEF Precheck
  <2>2. CASE FailCall(j, "precheck", "other")
    BY <1>2, <1>8, <2>2 DEF Precheck
  <2>3. CASE Step(j, "precheck", "assert") /\ status' = "processing" /\ reason' = "null"
    BY <1>1, <1>8, <2>3, TypeStep DEF Precheck
  <2> QED  BY <1>8, <2>1, <2>2, <2>3 DEF Precheck
<1>9. CASE AssertReady(j)
  <2>1. CASE engine
    BY <1>1, <1>9, <2>1, TypeStep DEF AssertReady
  <2>2. CASE ~engine
    BY <1>2, <1>9, <2>2 DEF AssertReady
  <2> QED  BY <2>1, <2>2
<1>10. CASE Gate(j)
  <2>1. UNCHANGED <<md, row, todo, good>> /\ root' \in BOOLEAN
    BY <1>10 DEF Gate
  <2>2. CASE Step(j, "gate", "write") /\ UNCHANGED callVars
    BY <1>1, <2>1, <2>2, TypeStep
  <2>3. CASE FailCall(j, "gate", "other")
    BY <1>2, <2>1, <2>3
  <2> QED  BY <1>10, <2>2, <2>3 DEF Gate
<1>11. CASE Write(j)
  BY <1>1, <1>11, TypeStep DEF Write
<1>12. CASE Recap(j)
  <2>1. CASE engine
    BY <1>1, <1>12, <2>1, TypeStep DEF Recap
  <2>2. CASE ~engine
    BY <1>2, <1>12, <2>2 DEF Recap
  <2> QED  BY <2>1, <2>2
<1>13. CASE MarkReady(j)
  BY <1>1, <1>13, TypeStep DEF MarkReady
<1> QED  BY <1>4, <1>5, <1>6, <1>7, <1>8, <1>9, <1>10, <1>11, <1>12, <1>13 DEF Job

\* What a step of a background task does to the flags.
LEMMA JobRoot == ASSUME NEW j \in Jobs, Job(j), root \in BOOLEAN  PROVE root' \in BOOLEAN
<1>1. CASE Gate(j)
  BY Zenon, <1>1 DEF Gate
<1>2. CASE Claim(j) \/ Transcribe(j)
  BY Zenon, <1>2 DEF Claim, Transcribe, ChunkSettled
<1>3. CASE \/ Drained(j) \/ Reconstruct(j) \/ Write(j) \/ MarkReady(j)
           \/ Precheck(j) \/ AssertReady(j) \/ Recap(j)
  BY Zenon, <1>3 DEF Drained, Reconstruct, Write, MarkReady, Precheck, AssertReady, Recap
<1> QED  BY <1>1, <1>2, <1>3 DEF Job

LEMMA JobText == ASSUME NEW j \in Jobs, Job(j), md \in BOOLEAN  PROVE md' \in BOOLEAN
<1>1. CASE Claim(j) \/ Transcribe(j)
  BY Zenon, <1>1 DEF Claim, Transcribe, ChunkSettled
<1>2. CASE \/ Drained(j) \/ Reconstruct(j) \/ Write(j) \/ MarkReady(j) \/ Gate(j)
           \/ Precheck(j) \/ AssertReady(j) \/ Recap(j)
  BY Zenon, <1>2
  DEF Drained, Reconstruct, Write, MarkReady, Gate, Precheck, AssertReady, Recap
<1> QED  BY <1>1, <1>2 DEF Job

\* No action sets a flag to anything but a truth value.
LEMMA FlagsNext ==
    ASSUME FlagTypes, [Next]_vars  PROVE FlagTypes'
<1> USE DEF FlagTypes, bootVars, callVars, diskVars, triesVars, jobVars, bounds
<1>1. CASE Record \/ Grow \/ Rotate \/ StopShort \/ StopFails \/ (\E j \in Jobs : Stop(j))
  BY Zenon, <1>1 DEF Record, Grow, Rotate, StopShort, StopFails, Stop, DeleteCall
<1>2. CASE \E k \in Chunks : LiveChunk(k)
  BY Zenon, <1>2 DEF LiveChunk
<1>3. CASE Crash \/ Start \/ Sweep
  BY Zenon, <1>3 DEF Crash, Start, Sweep
<1>4. CASE Reconcile
  BY Zenon, <1>4 DEF Reconcile, DeleteCall
<1>5. CASE EngineReady \/ EngineLost \/ AskAgain
  BY Zenon, <1>5 DEF EngineReady, EngineLost, AskAgain
<1>6. CASE AutoRecover \/ ParkedResume
  BY Zenon, <1>6 DEF AutoRecover, ParkedResume
<1>7. ASSUME NEW j \in Jobs, Job(j)  PROVE FlagTypes'
  <2>1. JobKeeps => /\ autoDue' \in BOOLEAN /\ resumeDue' \in BOOLEAN
                    /\ engine' \in BOOLEAN /\ long' \in BOOLEAN
    BY Zenon DEF JobKeeps
  <2>2. JobKeeps
    BY Zenon, <1>7, JobKept
  <2>3. root' \in BOOLEAN
    BY Zenon, <1>7, JobRoot
  <2>4. md' \in BOOLEAN
    BY Zenon, <1>7, JobText
  <2> QED  BY <2>1, <2>2, <2>3, <2>4
<1>8. CASE UNCHANGED vars
  BY Zenon, <1>8 DEF vars
<1> QED  BY <1>1, <1>2, <1>3, <1>4, <1>5, <1>6, <1>7, <1>8 DEF Next

LEMMA RecoveryTypeNext == TypeOK /\ [Next]_vars => TypeOK'
<1> SUFFICES ASSUME FlagTypes, DataTypes, [Next]_vars  PROVE FlagTypes' /\ DataTypes'
  BY TypeHalves, PTL
<1>1. ASSUME UNCHANGED vars  PROVE DataTypes'
  <2>1. UNCHANGED <<boot, callVars, wavs, triesVars, row, live, jobVars, bounds>>
    BY Zenon, <1>1 DEF vars, bootVars, diskVars
  <2> QED  BY <2>1 DEF DataTypes, callVars, triesVars, jobVars, bounds
<1>2. DataTypes'
  BY <1>1, TypeRecording, TypeSessionChunk, TypeStart, TypeTakenUp, TypeJob DEF Next
<1> QED  BY <1>2, FlagsNext

\* Columns, files, markers, background tasks and the history counters stay in
\* their domains, for any limits, chunks and number of tasks.
THEOREM RecoveryTypeCorrect == Spec => []TypeOK
BY RecoveryTypeInit, RecoveryTypeNext, PTL DEF Spec
-----------------------------------------------------------------------------
(***************************************************************************)
(* No chunk is stuck.  A `processing` row is attended: by the session's    *)
(* run of the chunk, or by the task that has it in hand.  Two facts keep a *)
(* task from being taken away from its chunk: the registered task, which   *)
(* spawn_reprocess aborts, is past the transcription, and no task is there *)
(* while the call is recorded.                                             *)
(***************************************************************************)
Attended(k) == live[k] = "stt" \/ \E j \in Jobs : pc[j] = "stt" /\ k = Next1(todo[j])

Swept == {"reconcile", "up"}

RowsAttended == boot \in Swept => \A k \in Chunks : row[k] = "processing" => Attended(k)

OwnerInPipeline == owner # None => pc[owner] \in Pipeline

AloneWhileRecorded == status \in {"none", "recording"} => \A j \in Jobs : pc[j] = "free"

ChunkInv == RowsAttended /\ OwnerInPipeline /\ AloneWhileRecorded

LEMMA NoneIsNoJob == None \notin Jobs
BY RecoveryAssumption DEF RecoveryAssumption

LEMMA ChunkInvInit == Init => ChunkInv
BY DEF Init, ChunkInv, RowsAttended, OwnerInPipeline, AloneWhileRecorded

\* What a step must keep for the rows that are `processing` after it.
LEMMA StillAttended ==
    ASSUME RowsAttended,
           boot' \in Swept => boot \in Swept,
           \A k \in Chunks : row'[k] = "processing" =>
              Attended(k)' \/ (row[k] = "processing" /\ (live[k] = "stt" => live'[k] = "stt")),
           \A j \in Jobs : pc[j] = "stt" /\ row'[Next1(todo[j])] = "processing" =>
              pc'[j] = "stt" /\ todo'[j] = todo[j]
    PROVE  RowsAttended'
BY DEF RowsAttended, Attended

\* Steps of the session, of a start and of the engine: no task moves.
LEMMA SessionKeepsChunks ==
    ASSUME DataTypes, ChunkInv,
           \/ Record \/ Grow \/ Rotate \/ StopShort \/ StopFails
           \/ \E k \in Chunks : LiveChunk(k)
           \/ EngineReady \/ EngineLost \/ AskAgain
           \/ Reconcile
    PROVE  ChunkInv'
<1> USE DEF DataTypes, ChunkInv
<1>1. /\ UNCHANGED <<pc, todo, owner>>
      /\ boot' \in Swept => boot \in Swept
      /\ status' = status \/ status' \notin {"none", "recording"} \/ status = "none"
  BY DEF Record, Grow, Rotate, StopShort, StopFails, LiveChunk, EngineReady, EngineLost,
         AskAgain, Reconcile, DeleteCall, jobVars, bootVars, callVars, Swept
<1>2. OwnerInPipeline' /\ AloneWhileRecorded'
  BY <1>1 DEF OwnerInPipeline, AloneWhileRecorded
<1>3. \A k \in Chunks : row'[k] = "processing" =>
         \/ live'[k] = "stt"
         \/ row[k] = "processing" /\ (live[k] = "stt" => live'[k] = "stt")
  <2>1. CASE \/ Record \/ Grow \/ StopFails \/ EngineReady \/ EngineLost \/ AskAgain
             \/ StopShort \/ Reconcile
    BY <2>1 DEF Record, Grow, StopFails, EngineReady, EngineLost, AskAgain, StopShort,
                Reconcile, DeleteCall
  <2>2. CASE Rotate
    <3>1. /\ row' = [row EXCEPT ![LastChunk] = "pending"]
          /\ live' = [live EXCEPT ![LastChunk] = "claim"]
      BY <2>2 DEF Rotate
    <3> QED  BY <3>1
  <2>3. ASSUME NEW c \in Chunks, LiveChunk(c)
        PROVE  \A k \in Chunks : row'[k] = "processing" =>
                  \/ live'[k] = "stt"
                  \/ row[k] = "processing" /\ (live[k] = "stt" => live'[k] = "stt")
    BY <2>3 DEF LiveChunk
  <2> QED  BY <2>1, <2>2, <2>3
<1>4. RowsAttended'
  BY <1>1, <1>3, StillAttended DEF Attended
<1> QED  BY <1>2, <1>4

\* A crash ends all tasks; until the sweep nothing is promised, and the sweep
\* leaves no row `processing`.
LEMMA RestartKeepsChunks ==
    ASSUME DataTypes, ChunkInv, Crash \/ Start \/ Sweep
    PROVE  ChunkInv'
<1> USE DEF DataTypes, ChunkInv, OwnerInPipeline, AloneWhileRecorded
<1>1. CASE Crash
  BY <1>1 DEF Crash, RowsAttended, Swept
<1>2. CASE Start
  BY <1>2 DEF Start, RowsAttended, Swept, jobVars, callVars
<1>3. CASE Sweep
  <2>1. RowsAttended'
    BY <1>3 DEF Sweep, RowsAttended
  <2>2. OwnerInPipeline' /\ AloneWhileRecorded'
    BY <1>3 DEF Sweep, jobVars
  <2> QED  BY <2>1, <2>2
<1> QED  BY <1>1, <1>2, <1>3

\* The stop makes the last chunk `pending` and is the first task there is.
LEMMA StopKeepsChunks ==
    ASSUME DataTypes, ChunkInv, NEW j \in Jobs, Stop(j)
    PROVE  ChunkInv'
<1> USE DEF DataTypes, ChunkInv
<1>1. \A i \in Jobs : pc[i] = "free"
  BY DEF Stop, AloneWhileRecorded
<1>2. /\ boot' = boot /\ todo' = todo /\ owner' = owner /\ status' = "processing"
      /\ pc' = [pc EXCEPT ![j] = "drain"]
  BY DEF Stop, bootVars
<1>3. owner = None
  BY <1>1 DEF OwnerInPipeline, Pipeline
<1>4. \A k \in Chunks : row'[k] = "processing" => row[k] = "processing" /\ live'[k] = live[k]
  <2>1. CASE wavs = {}
    BY <2>1 DEF Stop
  <2>2. CASE wavs # {}
    <3>1. /\ row' = [row EXCEPT ![LastChunk] = "pending"]
          /\ \E s \in {"claim", "none"} : live' = [live EXCEPT ![LastChunk] = s]
      BY <2>2 DEF Stop
    <3> QED  BY <3>1
  <2> QED  BY <2>1, <2>2
<1>5. RowsAttended'
  BY <1>1, <1>2, <1>4, StillAttended
<1>6. OwnerInPipeline' /\ AloneWhileRecorded'
  BY <1>2, <1>3 DEF OwnerInPipeline, AloneWhileRecorded
<1> QED  BY <1>5, <1>6

\* A new task takes a free place, a reprocess the registered task's too.
LEMMA TakenUpKeepsChunks ==
    ASSUME DataTypes, ChunkInv, AutoRecover \/ ParkedResume
    PROVE  ChunkInv'
<1> USE NoneIsNoJob DEF DataTypes, ChunkInv
<1>1. UNCHANGED <<boot, status, row, live>>
  BY DEF AutoRecover, ParkedResume, callVars
<1>2. CASE UNCHANGED <<pc, todo, owner>>
  BY <1>1, <1>2 DEF RowsAttended, Attended, OwnerInPipeline, AloneWhileRecorded
<1>3. ASSUME NEW j \in Jobs, StartJob(j, "reconstruct"), owner' = owner, status = "failed"
      PROVE  ChunkInv'
  <2>1. /\ pc[j] = "free" /\ pc' = [pc EXCEPT ![j] = "reconstruct"]
        /\ todo' = [todo EXCEPT ![j] = {}]
    BY <1>3 DEF StartJob
  <2>2. RowsAttended'
    BY <1>1, <2>1, StillAttended
  <2>3. OwnerInPipeline' /\ AloneWhileRecorded'
    BY <1>1, <1>3, <2>1 DEF OwnerInPipeline, AloneWhileRecorded, Pipeline
  <2> QED  BY <2>2, <2>3
<1>4. ASSUME NEW j \in Jobs, Reprocess(j), status = "failed"
      PROVE  ChunkInv'
  <2>1. /\ pc[j] = "free" \/ j = owner
        /\ pc' = [i \in Jobs |-> IF i = j THEN "precheck"
                                 ELSE IF i = owner THEN "free" ELSE pc[i]]
        /\ owner' = j /\ todo' = todo
    BY <1>4 DEF Reprocess
  <2>2. \A i \in Jobs : pc[i] = "stt" => i # j /\ i # owner
    BY <2>1 DEF OwnerInPipeline, Pipeline
  <2>3. RowsAttended'
    BY <1>1, <2>1, <2>2, StillAttended
  <2>4. OwnerInPipeline' /\ AloneWhileRecorded'
    BY <1>1, <1>4, <2>1 DEF OwnerInPipeline, AloneWhileRecorded, Pipeline
  <2> QED  BY <2>3, <2>4
<1>5. CASE AutoRecover
  <2>1. \/ UNCHANGED <<pc, todo, owner>>
        \/ status = "failed" /\ owner' = owner /\ \E j \in Jobs : StartJob(j, "reconstruct")
    BY <1>5 DEF AutoRecover, AutoCandidate
  <2> QED  BY <1>2, <1>3, <2>1
<1>6. CASE ParkedResume
  <2>1. \/ UNCHANGED <<pc, todo, owner>>
        \/ /\ status = "failed"
           /\ \E j \in Jobs : Reprocess(j) \/ (StartJob(j, "reconstruct") /\ owner' = owner)
    BY <1>6 DEF ParkedResume, ParkedCandidate, Parked, jobVars
  <2> QED  BY <1>2, <1>3, <1>4, <2>1
<1> QED  BY <1>5, <1>6

\* The registry follows the tasks: one that enters the pipeline is registered,
\* one that ends in it clears the entry.
LEMMA StepKeepsOwner ==
    ASSUME DataTypes, OwnerInPipeline, NEW j \in Jobs, NEW from, NEW to, Step(j, from, to),
           from \notin Pipeline \/ to \in Pipeline \cup {"free"}
    PROVE  /\ OwnerInPipeline' /\ pc[j] = from /\ pc' = [pc EXCEPT ![j] = to]
           /\ boot' = boot /\ live' = live
<1>1. /\ pc[j] = from /\ pc' = [pc EXCEPT ![j] = to] /\ boot' = boot /\ live' = live
      /\ owner' = IF to = "free" /\ pc[j] \in Pipeline THEN None
                  ELSE IF to \in Pipeline /\ pc[j] \notin Pipeline THEN j ELSE owner
  BY DEF Step, Goto, JobKeeps, bootVars
<1>2. CASE to = "free" /\ pc[j] \in Pipeline
  BY <1>1, <1>2 DEF OwnerInPipeline
<1>3. CASE to \in Pipeline /\ pc[j] \notin Pipeline
  BY <1>1, <1>3 DEF OwnerInPipeline, DataTypes, Pipeline
<1>4. CASE /\ ~ (to = "free" /\ pc[j] \in Pipeline)
           /\ ~ (to \in Pipeline /\ pc[j] \notin Pipeline)
  <2>1. owner' = owner
    BY <1>1, <1>4
  <2>2. owner = j => to \in Pipeline
    BY <1>1, <1>4, NoneIsNoJob DEF OwnerInPipeline
  <2> QED  BY <1>1, <2>1, <2>2 DEF OwnerInPipeline, DataTypes
<1> QED  BY <1>1, <1>2, <1>3, <1>4

\* A step that is not about the chunk in hand.
LEMMA PlainJobStep ==
    ASSUME DataTypes, ChunkInv, NEW j \in Jobs, NEW from \in Pcs \ {"free", "stt"}, NEW to,
           Step(j, from, to), from \notin Pipeline \/ to \in Pipeline \cup {"free"},
           status' = status \/ status' \in {"failed", "processing", "ready"},
           \A k \in Chunks : row'[k] = "processing" => row[k] = "processing",
           \A i \in Jobs \ {j} : todo'[i] = todo[i]
    PROVE  ChunkInv'
<1> USE DEF DataTypes, ChunkInv
<1>1. /\ OwnerInPipeline' /\ pc[j] = from /\ pc' = [pc EXCEPT ![j] = to]
      /\ boot' = boot /\ live' = live
  BY StepKeepsOwner
<1>2. AloneWhileRecorded'
  BY <1>1 DEF AloneWhileRecorded
<1>3. RowsAttended'
  BY <1>1, StillAttended
<1> QED  BY <1>1, <1>2, <1>3

\* A task ends with its chunk: the row is no longer `processing`.
LEMMA TranscribeKeepsChunks ==
    ASSUME DataTypes, ChunkInv, NEW j \in Jobs, pc[j] = "stt", Transcribe(j)
    PROVE  ChunkInv'
<1> USE DEF DataTypes, ChunkInv
<1> DEFINE k == Next1(todo[j])
<1>1. PICK ok \in BOOLEAN : ChunkSettled(j, "stt", ok)
  BY DEF Transcribe
<1>2. /\ status' = status
      /\ \E to : Step(j, "stt", to)
      /\ \E set : todo' = [todo EXCEPT ![j] = set]
  BY <1>1 DEF ChunkSettled, callVars
<1>3. PICK to : Step(j, "stt", to)
  BY <1>2
<1>4. OwnerInPipeline' /\ pc' = [pc EXCEPT ![j] = to] /\ boot' = boot /\ live' = live
  BY <1>3, StepKeepsOwner DEF Pipeline
<1>5. \/ row' = row /\ row[k] # "processing"
      \/ \E s \in {"done", "failed"} : row' = [row EXCEPT ![k] = s]
  BY Zenon DEF Transcribe
<1> HIDE DEF k
<1>6. \A c \in Chunks : row'[c] = "processing" => row[c] = "processing" /\ c # k
  BY <1>5
<1>7. \A i \in Jobs \ {j} : pc'[i] = pc[i] /\ todo'[i] = todo[i]
  BY <1>2, <1>4
<1>8. RowsAttended'
  <2> SUFFICES ASSUME boot' \in Swept, NEW c \in Chunks, row'[c] = "processing"
               PROVE  Attended(c)'
    BY DEF RowsAttended
  <2>1. Attended(c) /\ c # k
    BY <1>4, <1>6 DEF RowsAttended
  <2>2. live[c] = "stt" \/ \E i \in Jobs \ {j} : pc[i] = "stt" /\ c = Next1(todo[i])
    BY <2>1 DEF Attended, k
  <2> QED  BY <1>4, <1>7, <2>2 DEF Attended
<1>9. AloneWhileRecorded'
  BY <1>2 DEF AloneWhileRecorded
<1> QED  BY <1>4, <1>8, <1>9

LEMMA ClaimKeepsChunks ==
    ASSUME DataTypes, ChunkInv, NEW j \in Jobs, pc[j] = "claim", Claim(j)
    PROVE  ChunkInv'
<1> USE DEF DataTypes, ChunkInv
<1> DEFINE k == Next1(todo[j])
<1>1. CASE row[k] = "pending"
  <2>1. /\ Step(j, "claim", "stt") /\ row' = [row EXCEPT ![k] = "processing"]
        /\ status' = status /\ todo' = todo
    BY <1>1 DEF Claim, callVars
  <2>2. OwnerInPipeline' /\ pc' = [pc EXCEPT ![j] = "stt"] /\ boot' = boot /\ live' = live
    BY <2>1, StepKeepsOwner DEF Pipeline
  <2>3. RowsAttended'
    <3> SUFFICES ASSUME boot' \in Swept, NEW c \in Chunks, row'[c] = "processing"
                 PROVE  Attended(c)'
      BY DEF RowsAttended
    <3>1. CASE c = k
      BY <2>1, <2>2, <3>1 DEF Attended
    <3>2. CASE c # k
      <4>1. row[c] = "processing"
        BY <2>1, <3>2
      <4>2. Attended(c)
        BY <2>2, <4>1 DEF RowsAttended
      <4>3. \A i \in Jobs : pc[i] = "stt" => pc'[i] = "stt"
        BY <2>2
      <4> QED  BY <2>1, <2>2, <4>2, <4>3 DEF Attended
    <3> QED  BY <3>1, <3>2
  <2>4. AloneWhileRecorded'
    BY <2>1 DEF AloneWhileRecorded
  <2> QED  BY <2>2, <2>3, <2>4
<1>2. CASE row[k] # "pending"
  <2>1. ChunkSettled(j, "claim", FALSE) /\ row' = row
    BY <1>2 DEF Claim
  <2>2. /\ status' = status
        /\ \E to : Step(j, "claim", to)
        /\ \A i \in Jobs \ {j} : todo'[i] = todo[i]
    BY <2>1 DEF ChunkSettled, callVars
  <2> QED  BY <2>1, <2>2, PlainJobStep DEF Pcs, Pipeline
<1> QED  BY <1>1, <1>2

LEMMA JobKeepsChunks ==
    ASSUME DataTypes, ChunkInv, NEW j \in Jobs, Job(j)
    PROVE  ChunkInv'
<1> USE DEF DataTypes
<1>1. ASSUME NEW from \in Pcs \ {"free", "stt"}, NEW why, FailCall(j, from, why),
             UNCHANGED <<row, todo>>
      PROVE  ChunkInv'
  <2>1. Step(j, from, "free") /\ (status' = status \/ status' = "failed")
    BY <1>1 DEF FailCall, callVars
  <2> QED  BY <1>1, <2>1, PlainJobStep
<1>2. ASSUME NEW from \in Pcs \ {"free", "stt"}, NEW to \in Pipeline \cup {"free"},
             Step(j, from, to),
             status' = status \/ status' \in {"failed", "processing", "ready"},
             UNCHANGED <<row, todo>>
      PROVE  ChunkInv'
  BY <1>2, PlainJobStep
<1> USE DEF callVars
<1>3. CASE Drained(j) \/ Write(j) \/ MarkReady(j)
  BY <1>2, <1>3 DEF Drained, Write, MarkReady, Pcs, Pipeline
<1>4. CASE Reconstruct(j)
  <2>1. /\ \E to : Step(j, "reconstruct", to)
        /\ status' = status
        /\ \A i \in Jobs \ {j} : todo'[i] = todo[i]
    BY <1>4 DEF Reconstruct
  <2>2. \A k \in Chunks : row'[k] = "processing" => row[k] = "processing"
    BY <1>4 DEF Reconstruct
  <2> QED  BY <2>1, <2>2, PlainJobStep DEF Pcs, Pipeline
<1>5. CASE pc[j] = "claim" /\ Claim(j)
  BY <1>5, ClaimKeepsChunks
<1>6. CASE pc[j] = "stt" /\ Transcribe(j)
  BY <1>6, TranscribeKeepsChunks
<1>7. CASE Precheck(j)
  BY <1>1, <1>2, <1>7 DEF Precheck, Pcs, Pipeline
<1>8. CASE AssertReady(j) \/ Recap(j)
  BY <1>1, <1>2, <1>8 DEF AssertReady, Recap, Pcs, Pipeline
<1>9. CASE Gate(j)
  BY <1>1, <1>2, <1>9 DEF Gate, Pcs, Pipeline
<1> QED  BY <1>3, <1>4, <1>5, <1>6, <1>7, <1>8, <1>9 DEF Job

LEMMA ChunkInvNext == TypeOK /\ ChunkInv /\ [Next]_vars => ChunkInv'
<1> SUFFICES ASSUME DataTypes, ChunkInv, [Next]_vars  PROVE ChunkInv'
  BY TypeHalves
<1>1. ASSUME UNCHANGED vars  PROVE ChunkInv'
  <2>1. UNCHANGED <<boot, status, row, live, pc, todo, owner>>
    BY Zenon, <1>1 DEF vars, bootVars, callVars, jobVars
  <2> QED  BY <2>1 DEF ChunkInv, RowsAttended, Attended, OwnerInPipeline, AloneWhileRecorded
<1> QED
  BY <1>1, SessionKeepsChunks, RestartKeepsChunks, StopKeepsChunks, TakenUpKeepsChunks,
     JobKeepsChunks DEF Next

\* While the application runs, every chunk that is marked as being transcribed
\* is: whatever crashed before, whoever took the call up again, and however the
\* tasks of one call overlap (sweep_stale_calls, mark_chunk_done's gate).
THEOREM NoStuckChunkHolds == Spec => []NoStuckChunk
<1>1. ChunkInv => NoStuckChunk
  BY DEF ChunkInv, RowsAttended, Attended, Swept, NoStuckChunk
<1> QED  BY <1>1, ChunkInvInit, ChunkInvNext, RecoveryTypeCorrect, PTL DEF Spec
-----------------------------------------------------------------------------
(***************************************************************************)
(* The call implements CallLifecycle.  A task has a call that was stopped  *)
(* or interrupted and not deleted, so what it writes there is allowed; and *)
(* past the step that writes the transcript there is one, so the call may  *)
(* become ready.                                                           *)
(***************************************************************************)
KeptStages == {"processing", "ready", "failed"}

JobsOnKept == \A j \in Jobs : pc[j] # "free" => status \in KeptStages

TextBeforeReady == \A j \in Jobs : pc[j] \in {"recap", "ready"} => md

PromiseInv == JobsOnKept /\ TextBeforeReady

LEMMA PromiseInit == Init => PromiseInv
BY DEF Init, PromiseInv, JobsOnKept, TextBeforeReady

\* The recording, a crash and the start after it: no task is there when a call
\* is deleted or its transcript goes.
LEMMA SessionKeepsPromise ==
    ASSUME PromiseInv, DataTypes,
           \/ Record \/ Grow \/ Rotate \/ StopShort \/ StopFails
           \/ \E k \in Chunks : LiveChunk(k)
           \/ Crash \/ Start \/ Sweep \/ Reconcile
           \/ EngineReady \/ EngineLost \/ AskAgain
    PROVE  PromiseInv'
<1>1. \/ UNCHANGED pc /\ UNCHANGED md /\ UNCHANGED status
      \/ UNCHANGED pc /\ UNCHANGED md /\ status' \in KeptStages
      \/ UNCHANGED pc /\ status \in {"none", "recording"}
      \/ \A j \in Jobs : pc'[j] = "free"
  BY DEF Record, Grow, Rotate, StopShort, StopFails, LiveChunk, DeleteCall, Crash, Start, Sweep,
         Reconcile, EngineReady, EngineLost, AskAgain, callVars, diskVars, jobVars, KeptStages,
         DataTypes
<1>2. CASE UNCHANGED pc /\ status \in {"none", "recording"}
  BY <1>2 DEF PromiseInv, JobsOnKept, TextBeforeReady, KeptStages, DataTypes
<1> QED  BY <1>1, <1>2 DEF PromiseInv, JobsOnKept, TextBeforeReady, KeptStages

\* A stop hands the call over to a task; two later starts take up a failed one.
LEMMA TakenUpKeepsPromise ==
    ASSUME PromiseInv, DataTypes,
           AutoRecover \/ ParkedResume \/ \E j \in Jobs : Stop(j)
    PROVE  PromiseInv'
<1>1. UNCHANGED md /\ \A i \in Jobs : pc'[i] \in {pc[i], "free", "drain", "reconstruct", "precheck"}
  BY DEF AutoRecover, ParkedResume, Stop, StartJob, Reprocess, diskVars, jobVars, DataTypes
<1>2. status' \in KeptStages \/ UNCHANGED <<pc, status>>
  BY DEF AutoRecover, ParkedResume, Stop, AutoCandidate, ParkedCandidate, Parked, callVars,
         jobVars, KeptStages
<1> QED  BY <1>1, <1>2 DEF PromiseInv, JobsOnKept, TextBeforeReady

\* What one step of a task does to where it is, to the row and to the transcript.
LEMMA JobMovesOn ==
    ASSUME NEW j \in Jobs, Job(j), PromiseInv, DataTypes
    PROVE  /\ \E p \in Pcs :
                 /\ pc' = [pc EXCEPT ![j] = p]
                 /\ p = "recap" => md'
                 /\ p = "ready" => md
           /\ pc[j] # "free"
           /\ status' \in KeptStages
           /\ UNCHANGED md \/ (md' /\ UNCHANGED status)
           /\ \/ UNCHANGED status
              \/ status = "processing" /\ status' = "failed"
              \/ status' = "processing"
              \/ status' = "ready" /\ md
<1> USE DEF Step, Goto, Pcs, JobsOnKept, KeptStages, PromiseInv
<1>1. CASE Drained(j) \/ Reconstruct(j)
  BY <1>1 DEF Drained, Reconstruct, callVars
<1>2. ASSUME NEW from \in {"claim", "stt"}, NEW ok, ChunkSettled(j, from, ok)
      PROVE  /\ pc[j] = from /\ UNCHANGED <<status, md>>
             /\ \E p \in {"claim", "assert", "free"} : pc' = [pc EXCEPT ![j] = p]
  BY <1>2 DEF ChunkSettled, callVars
<1>3. CASE pc[j] = "claim" /\ Claim(j)
  <2>1. CASE row[Next1(todo[j])] = "pending"
    BY <1>3, <2>1 DEF Claim, callVars
  <2>2. CASE ChunkSettled(j, "claim", FALSE)
    BY <1>2, <2>2
  <2> QED  BY <1>3, <2>1, <2>2 DEF Claim
<1>4. CASE pc[j] = "stt" /\ Transcribe(j)
  <2>1. PICK ok : ChunkSettled(j, "stt", ok)
    BY <1>4 DEF Transcribe
  <2> QED  BY <1>2, <2>1
<1>5. ASSUME NEW from \in Pcs \ {"free"}, NEW why, FailCall(j, from, why)
      PROVE  /\ pc[j] = from /\ pc' = [pc EXCEPT ![j] = "free"]
             /\ UNCHANGED status \/ (status = "processing" /\ status' = "failed")
  BY <1>5 DEF FailCall, callVars
<1>6. CASE Precheck(j)
  <2>1. CASE FailCall(j, "precheck", "other")
    BY <1>5, <1>6, <2>1 DEF Precheck
  <2>2. CASE ~FailCall(j, "precheck", "other")
    BY <1>6, <2>2 DEF Precheck, callVars
  <2> QED  BY <2>1, <2>2
<1>7. CASE AssertReady(j)
  <2>1. CASE FailCall(j, "assert", "not_ready")
    BY <1>5, <1>7, <2>1 DEF AssertReady
  <2>2. CASE ~FailCall(j, "assert", "not_ready")
    BY <1>7, <2>2 DEF AssertReady, callVars
  <2> QED  BY <2>1, <2>2
<1>8. CASE Gate(j)
  <2>1. CASE FailCall(j, "gate", "other")
    BY <1>5, <1>8, <2>1 DEF Gate
  <2>2. CASE ~FailCall(j, "gate", "other")
    BY <1>8, <2>2 DEF Gate, callVars
  <2> QED  BY <2>1, <2>2
<1>9. CASE Write(j)
  BY <1>9 DEF Write, callVars
<1>10. CASE Recap(j)
  <2>1. CASE FailCall(j, "recap", "not_ready")
    BY <1>5, <1>10, <2>1 DEF Recap
  <2>2. CASE ~FailCall(j, "recap", "not_ready")
    BY <1>10, <2>2 DEF Recap, callVars, TextBeforeReady
  <2> QED  BY <2>1, <2>2
<1>11. CASE MarkReady(j)
  BY <1>11 DEF MarkReady, TextBeforeReady
<1> QED
  BY <1>1, <1>3, <1>4, <1>6, <1>7, <1>8, <1>9, <1>10, <1>11 DEF Job

\* A task keeps the invariant: it goes to `recap` when the transcript is there.
LEMMA JobKeepsPromise ==
    ASSUME PromiseInv, DataTypes, NEW j \in Jobs, Job(j)
    PROVE  PromiseInv'
<1>1. PICK p \in Pcs : /\ pc' = [pc EXCEPT ![j] = p]
                       /\ p = "recap" => md'
                       /\ p = "ready" => md
  BY JobMovesOn
<1>2. \A i \in Jobs : pc'[i] = IF i = j THEN p ELSE pc[i]
  BY <1>1 DEF DataTypes
<1>3. UNCHANGED md \/ md'
  BY JobMovesOn
<1>4. status' \in KeptStages
  BY JobMovesOn
<1>5. TextBeforeReady'
  BY <1>1, <1>2, <1>3 DEF PromiseInv, TextBeforeReady
<1> QED  BY <1>4, <1>5 DEF PromiseInv, JobsOnKept

LEMMA PromiseNext == TypeOK /\ PromiseInv /\ [Next]_vars => PromiseInv'
<1> SUFFICES ASSUME DataTypes, PromiseInv, [Next]_vars  PROVE PromiseInv'
  BY TypeHalves
<1>1. CASE UNCHANGED vars
  <2>1. UNCHANGED <<status, md, pc>>
    BY Zenon, <1>1 DEF vars, callVars, diskVars, jobVars
  <2> QED  BY <2>1 DEF PromiseInv, JobsOnKept, TextBeforeReady
<1>2. ASSUME Settled /\ UNCHANGED vars  PROVE PromiseInv'
  BY <1>1, <1>2
<1> QED
  BY <1>1, <1>2, SessionKeepsPromise, TakenUpKeepsPromise, JobKeepsPromise DEF Next

\* The abstract step that is taken, or none, by each group of actions.
LEMMA SessionIsStep ==
    ASSUME \/ Record \/ Grow \/ Rotate \/ StopShort \/ StopFails
           \/ \E k \in Chunks : LiveChunk(k)
           \/ Crash \/ Start \/ Sweep \/ Reconcile
           \/ EngineReady \/ EngineLost \/ AskAgain
    PROVE  [Lifecycle!Next]_(Lifecycle!vars)
<1> USE DEF Lifecycle!Next, Lifecycle!vars
<1>1. CASE Record
  BY <1>1 DEF Record, Lifecycle!Capture
<1>2. CASE StopShort
  BY <1>2 DEF StopShort, DeleteCall, Lifecycle!Delete
<1>3. CASE StopFails
  BY <1>3 DEF StopFails, diskVars, Lifecycle!EndCapture
<1>4. CASE Sweep
  BY <1>4 DEF Sweep, diskVars, Lifecycle!GiveUp
<1>5. CASE Reconcile
  BY <1>5 DEF Reconcile, DeleteCall, callVars, Lifecycle!EndCapture, Lifecycle!Delete
<1>6. CASE \/ Grow \/ Rotate \/ \E k \in Chunks : LiveChunk(k)
           \/ Crash \/ Start \/ EngineReady \/ EngineLost \/ AskAgain
  BY <1>6 DEF Grow, Rotate, LiveChunk, Crash, Start, EngineReady, EngineLost, AskAgain,
              callVars, diskVars
<1> QED  BY <1>1, <1>2, <1>3, <1>4, <1>5, <1>6

LEMMA TakenUpIsStep ==
    ASSUME AutoRecover \/ ParkedResume \/ \E j \in Jobs : Stop(j)
    PROVE  [Lifecycle!Next]_(Lifecycle!vars)
BY DEF AutoRecover, ParkedResume, Stop, callVars, diskVars, Lifecycle!Next, Lifecycle!vars,
       Lifecycle!EndCapture

\* A task makes the call `processing` or `failed`, writes the transcript, or makes
\* the call with a transcript `ready`.
LEMMA JobIsStep ==
    ASSUME PromiseInv, DataTypes, NEW j \in Jobs, Job(j)
    PROVE  [Lifecycle!Next]_(Lifecycle!vars)
<1>1. Lifecycle!Kept
  BY JobMovesOn DEF PromiseInv, JobsOnKept, KeptStages, Lifecycle!Kept
<1>2. CASE UNCHANGED status /\ (UNCHANGED md \/ md')
  BY <1>1, <1>2 DEF Lifecycle!Next, Lifecycle!vars, Lifecycle!Transcribe
<1>3. CASE UNCHANGED md
  BY <1>1, <1>3, JobMovesOn
     DEF Lifecycle!Next, Lifecycle!vars, Lifecycle!TakeUp, Lifecycle!GiveUp, Lifecycle!Complete
<1> QED  BY <1>2, <1>3, JobMovesOn

LEMMA StepIsStep ==
    TypeOK /\ PromiseInv /\ [Next]_vars => [Lifecycle!Next]_(Lifecycle!vars)
<1> SUFFICES ASSUME DataTypes, PromiseInv, [Next]_vars  PROVE [Lifecycle!Next]_(Lifecycle!vars)
  BY TypeHalves
<1>1. CASE UNCHANGED vars
  <2>1. UNCHANGED <<status, md>>
    BY Zenon, <1>1 DEF vars, callVars, diskVars
  <2> QED  BY <2>1 DEF Lifecycle!vars
<1>2. ASSUME Settled /\ UNCHANGED vars  PROVE [Lifecycle!Next]_(Lifecycle!vars)
  BY <1>1, <1>2
<1> QED  BY <1>1, <1>2, SessionIsStep, TakenUpIsStep, JobIsStep DEF Next

\* Across any number of crashes, restarts and recoveries, and with any tasks at
\* work on it, the call lives as CallLifecycle allows (sweep_stale_calls,
\* reconcile_orphan_recordings, recover_chunked_call, run_local_inner).
THEOREM KeepsPromiseHolds == Spec => KeepsPromise
<1>1. Init => Lifecycle!Init
  BY DEF Init, Lifecycle!Init
<1> QED
  BY <1>1, PromiseInit, PromiseNext, StepIsStep, RecoveryTypeCorrect, PTL
  DEF Spec, KeepsPromise, Lifecycle!Spec
-----------------------------------------------------------------------------
\* Who deletes a call: the stop of a short recording, and the start that finds a
\* recording whose root file is missing or short.
LEMMA OnlyTheseDelete ==
    ASSUME TypeOK, PromiseInv, [Next]_vars, status # "deleted", status' = "deleted"
    PROVE  StopShort \/ Reconcile
<1>1. ASSUME NEW j \in Jobs, Job(j)  PROVE FALSE
  <2>1. status' \in KeptStages
    BY <1>1, JobMovesOn, TypeHalves
  <2> QED  BY <2>1 DEF KeptStages
<1>2. CASE UNCHANGED vars
  <2>1. UNCHANGED status
    BY Zenon, <1>2 DEF vars, callVars
  <2> QED  BY <2>1
<1>3. CASE \/ Record \/ Grow \/ Rotate \/ StopFails \/ Crash \/ Start \/ Sweep
           \/ AutoRecover \/ ParkedResume \/ EngineReady \/ EngineLost \/ AskAgain
           \/ (\E j \in Jobs : Stop(j)) \/ (\E k \in Chunks : LiveChunk(k))
  BY <1>3 DEF Record, Grow, Rotate, StopFails, Crash, Start, Sweep, AutoRecover, ParkedResume,
              EngineReady, EngineLost, AskAgain, Stop, LiveChunk, callVars
<1>4. ASSUME Settled /\ UNCHANGED vars  PROVE StopShort \/ Reconcile
  BY <1>2, <1>4
<1> QED  BY <1>1, <1>2, <1>3, <1>4 DEF Next

\* A call that was recorded in one file, or stopped, and is 30 s or longer is
\* deleted by nothing but the user, whatever crashes when
\* (stop_recording_inner, reconcile_orphan_recordings).
THEOREM WholeRecordingKeptHolds == Spec => WholeRecordingKept
<1>1. TypeOK /\ PromiseInv /\ [Next]_vars
        => [long /\ (root \/ status # "recording") /\ status # "deleted"
              => status' # "deleted"]_vars
  <2> SUFFICES ASSUME TypeOK, PromiseInv, Next, long, root \/ status # "recording",
                      status # "deleted", status' = "deleted"
               PROVE  FALSE
    OBVIOUS
  <2>1. StopShort \/ Reconcile
    BY OnlyTheseDelete
  <2>2. CASE StopShort
    BY <2>2 DEF StopShort
  <2>3. CASE Reconcile
    BY <2>3 DEF Reconcile, DeleteCall, callVars
  <2> QED  BY <2>1, <2>2, <2>3
<1> QED
  BY <1>1, PromiseInit, PromiseNext, RecoveryTypeCorrect, PTL DEF Spec, WholeRecordingKept
=============================================================================
