---------------------------- MODULE Content_proofs ----------------------------
(***************************************************************************)
(* What the recordings, their speakers and the search index hold, for any  *)
(* number of samples, chunks, contacts and calls.                          *)
(*                                                                         *)
(* The modules have no variable in common: each section stands by itself.   *)
(***************************************************************************)
EXTENDS SilenceWatch, RotationWindow, AssistantIndex, Speakers, AudioFiles, Induction,
        SequenceTheorems, FiniteSetTheorems, TLAPS

(***************************************************************************)
(* RotationWindow: the minutes of audio in a chunk.                        *)
(***************************************************************************)
\* The clock of the open chunk: what was recorded and what was paused make up the
\* time since it began.
WindowShape ==
    /\ lastRms \in Nat /\ chunkStart \in Nat /\ pausedInChunk \in Nat
    /\ pauseAnchor \in Nat /\ active \in Nat
    /\ orchPaused \in BOOLEAN /\ rotatePending \in BOOLEAN

PausesAdd ==
    /\ orchPaused => pauseAnchor <= lastRms
                     /\ active + pausedInChunk + (lastRms - pauseAnchor) = lastRms - chunkStart
                     /\ pausedInChunk + (lastRms - pauseAnchor) <= MaxPause
    /\ ~orchPaused => active + pausedInChunk = lastRms - chunkStart /\ pausedInChunk <= MaxPause

\* A chunk with a minute more than the window's start holds is being closed, or wants to be:
\* the minute just heard is a sample to cut at.
RotatesInTime ==
    /\ active <= WindowStart + 1
    /\ active = WindowStart + 1 => rotatePending \/ (~orchPaused /\ lastRms \in samples)
    /\ rotatePending => active >= WindowStart

RotationInv == WindowShape /\ PausesAdd /\ RotatesInTime /\ NoShortChunk

\* With no pause beyond the cap the window starts WindowStart minutes of audio into the chunk.
LEMMA WindowsInNat ==
    /\ WindowStart \in Nat /\ WindowEnd \in Nat /\ MaxPause \in Nat
    /\ 0 < WindowStart /\ WindowStart < WindowEnd
BY RotationAssumption

LEMMA WantsInWindow ==
    ASSUME MaxPause <= WindowEnd, RotationInv
    PROVE  /\ WantsToRotate => active >= WindowStart
           /\ active = WindowStart + 1 /\ ~rotatePending => WantsToRotate
<1> USE WindowsInNat
<1>1. /\ lastRms \in Nat /\ chunkStart \in Nat /\ pausedInChunk \in Nat
      /\ pauseAnchor \in Nat /\ active \in Nat /\ pausedInChunk <= WindowEnd
    BY DEF RotationInv, WindowShape, PausesAdd
<1>2. CappedPaused = pausedInChunk
    BY <1>1 DEF CappedPaused
<1>3. ASSUME WantsToRotate PROVE active >= WindowStart
  <2>1. ~orchPaused /\ Ago(chunkStart) >= pausedInChunk + WindowStart
    BY <1>2, <1>3 DEF WantsToRotate
  <2>2. lastRms - chunkStart >= pausedInChunk + WindowStart
    BY <1>1, <2>1 DEF Ago
  <2>3. QED
    BY <1>1, <2>1, <2>2 DEF RotationInv, PausesAdd
<1>4. ASSUME active = WindowStart + 1, ~rotatePending PROVE WantsToRotate
  <2>1. ~orchPaused /\ lastRms \in samples
    BY <1>4 DEF RotationInv, RotatesInTime
  <2>2. lastRms - chunkStart = WindowStart + 1 + pausedInChunk
    BY <1>1, <1>4, <2>1 DEF RotationInv, PausesAdd
  <2>3. Ago(chunkStart) >= pausedInChunk + WindowStart
    BY <1>1, <2>2 DEF Ago
  <2>4. lastRms <= chunkStart + pausedInChunk + WindowEnd
        /\ lastRms > chunkStart + pausedInChunk + WindowStart
    BY <1>1, <2>2
  <2>5. FindCut(chunkStart + pausedInChunk + WindowStart, lastRms)
    BY <1>1, <2>1, <2>4 DEF FindCut
  <2>6. QED
    BY <1>1, <1>2, <1>4, <2>1, <2>3, <2>4, <2>5 DEF WantsToRotate
<1>5. QED
    BY <1>3, <1>4

LEMMA RotationInvInit == RotationInit => RotationInv
<1> SUFFICES ASSUME RotationInit PROVE RotationInv
    OBVIOUS
<1> USE WindowsInNat DEF RotationInit
<1>1. WindowShape
    BY DEF WindowShape
<1>2. ~orchPaused
    OBVIOUS
<1>3. active + pausedInChunk = lastRms - chunkStart /\ pausedInChunk <= MaxPause
    OBVIOUS
<1>4. PausesAdd
    BY <1>2, <1>3 DEF PausesAdd
<1>5. RotatesInTime /\ NoShortChunk
    BY DEF RotatesInTime, NoShortChunk
<1>6. QED
    BY <1>1, <1>4, <1>5 DEF RotationInv

LEMMA RotationInvNext ==
    ASSUME MaxPause <= WindowEnd, RotationInv, [RotationNext]_rotationVars
    PROVE  RotationInv'
<1> USE WindowsInNat DEF RotationInv, WindowShape
<1>1. CASE RotationTick
    BY <1>1, WantsInWindow DEF RotationTick, PausesAdd, RotatesInTime, NoShortChunk
<1>2. CASE Rotated
  <2>1. WindowShape' /\ PausesAdd'
    <3>1. /\ chunkStart' = lastRms /\ lastRms' = lastRms /\ active' = 0 /\ pausedInChunk' = 0
          /\ orchPaused' = orchPaused /\ rotatePending' = FALSE
          /\ orchPaused => pauseAnchor' = lastRms
          /\ pauseAnchor' \in Nat
        BY <1>2 DEF Rotated
    <3>2. WindowShape'
        BY <3>1
    <3>3. active' + pausedInChunk' = lastRms' - chunkStart' /\ pausedInChunk' <= MaxPause
        BY <3>1
    <3>4. ASSUME orchPaused'
          PROVE  /\ pauseAnchor' <= lastRms'
                 /\ active' + pausedInChunk' + (lastRms' - pauseAnchor') = lastRms' - chunkStart'
                 /\ pausedInChunk' + (lastRms' - pauseAnchor') <= MaxPause
        <4>1. pauseAnchor' = lastRms'
            BY <3>1, <3>4
        <4>2. QED
            BY <3>1, <3>2, <4>1
    <3>5. PausesAdd'
        BY <3>3, <3>4 DEF PausesAdd
    <3>6. QED
        BY <3>2, <3>5
  <2>2. RotatesInTime'
    BY <1>2 DEF Rotated, RotatesInTime
  <2>3. NoShortChunk'
    BY <1>2 DEF Rotated, RotatesInTime, NoShortChunk
  <2>4. QED
    BY <2>1, <2>2, <2>3
<1>3. CASE RotationPause
  <2>1. WindowShape' /\ PausesAdd' /\ NoShortChunk'
    BY <1>3 DEF RotationPause, PausesAdd, NoShortChunk
  <2>2. active = WindowStart + 1 => rotatePending
    BY <1>3, WantsInWindow DEF RotationPause
  <2>3. RotatesInTime'
    BY <1>3, <2>2 DEF RotationPause, RotatesInTime
  <2>4. QED
    BY <2>1, <2>3
<1>4. CASE RotationResume
  <2>1. Ago(pauseAnchor) = lastRms - pauseAnchor
    BY <1>4 DEF RotationResume, Ago, PausesAdd
  <2>2. WindowShape' /\ PausesAdd' /\ NoShortChunk'
    <3>1. PICK p \in Nat : p = pausedInChunk + (lastRms - pauseAnchor)
        BY <1>4 DEF RotationResume, PausesAdd
    <3>2. /\ pausedInChunk' = p /\ orchPaused' = FALSE
          /\ UNCHANGED <<lastRms, chunkStart, pauseAnchor, rotatePending, active, lengths>>
        BY <1>4, <2>1, <3>1 DEF RotationResume
    <3>3. WindowShape' /\ NoShortChunk'
        BY <3>1, <3>2 DEF NoShortChunk
    <3>4. active + p = lastRms - chunkStart /\ p <= MaxPause
        BY <1>4, <3>1 DEF RotationResume, PausesAdd
    <3>5. PausesAdd'
        BY <3>2, <3>4 DEF PausesAdd
    <3>6. QED
        BY <3>3, <3>5
  <2>3. RotatesInTime'
    BY <1>4 DEF RotationResume, RotatesInTime
  <2>4. QED
    BY <2>2, <2>3
<1>5. CASE Sample
  <2>1. orchPaused => Ago(pauseAnchor) = lastRms - pauseAnchor
    BY DEF Ago, PausesAdd
  <2>2. WindowShape' /\ PausesAdd' /\ NoShortChunk'
    BY <1>5, <2>1 DEF Sample, PausesAdd, NoShortChunk
  <2>3. active # WindowStart + 1
    BY <1>5, WantsInWindow DEF Sample
  <2>4. ~orchPaused => lastRms' \in samples'
    BY <1>5 DEF Sample, Push
  <2>5. RotatesInTime'
    BY <1>5, <2>3, <2>4 DEF Sample, RotatesInTime
  <2>6. QED
    BY <2>2, <2>5
<1>6. CASE UNCHANGED rotationVars
    BY <1>6 DEF rotationVars, PausesAdd, RotatesInTime, NoShortChunk
<1>7. QED
    BY <1>1, <1>2, <1>3, <1>4, <1>5, <1>6 DEF RotationNext

\* However a chunk is paused, it is closed within the window of audio that it asks for, for
\* any window and retention: unless it is paused for longer than the window's end, where
\* the code stops counting.
THEOREM WindowKeptHolds ==
    MaxPause <= WindowEnd => (RotationSpec => []WindowKept)
<1> SUFFICES ASSUME MaxPause <= WindowEnd PROVE RotationSpec => []WindowKept
    OBVIOUS
<1>1. RotationSpec => []RotationInv
    BY RotationInvInit, RotationInvNext, PTL DEF RotationSpec
<1>2. RotationInv => WindowKept
    BY WindowsInNat DEF RotationInv, WindowShape, RotatesInTime, WindowKept,
                              RotatesAfterPause
<1>3. QED
    BY <1>1, <1>2, PTL

(***************************************************************************)
(* SilenceWatch: what was heard tells when the run of silence began.        *)
(***************************************************************************)
HeardSamples == [kind : {"sample"}, ts : Nat, loud : BOOLEAN]
Events == HeardSamples \cup [kind : Controls]
Times == Nat \cup {Unset}

SilenceShape ==
    /\ heard \in Seq(Events) /\ watchState \in {"off", "running", "ended"}
    /\ cfg \in [suggest : {Unset, SuggestAfter}, stop : {Unset, AutoStopAfter}]
    /\ silenceStarted \in Times /\ voiceSince \in Times
    /\ suggested \in BOOLEAN /\ watchPaused \in BOOLEAN
    /\ prompts \subseteq DOMAIN heard

\* The samples are in the order of their time, and one of them is the last.
SamplesInOrder ==
    /\ \A i, j \in DOMAIN heard :
          i < j /\ IsSample(heard[i]) /\ IsSample(heard[j]) => heard[i].ts < heard[j].ts
    /\ \/ \A i \in DOMAIN heard : ~IsSample(heard[i])
       \/ \E m \in DOMAIN heard :
             /\ IsSample(heard[m])
             /\ \A i \in DOMAIN heard : IsSample(heard[i]) => heard[i].ts <= heard[m].ts

PauseHeard ==
    /\ watchPaused <=> PausedAt(Len(heard))
    /\ watchPaused => silenceStarted = Unset /\ voiceSince = Unset

\* The run began at a silent sample, and nothing since then would have ended it.
SilenceBegan ==
    silenceStarted # Unset =>
        /\ \E s \in DOMAIN heard :
              /\ IsSample(heard[s]) /\ ~heard[s].loud /\ heard[s].ts = silenceStarted
              /\ \A k \in s..Len(heard) : ~Resets(k)
        /\ \A i \in DOMAIN heard : Stretch(i, Len(heard)) =>
              voiceSince # Unset /\ voiceSince <= heard[i].ts

VoiceBegan ==
    voiceSince # Unset =>
        \E i \in DOMAIN heard : Stretch(i, Len(heard)) /\ heard[i].ts = voiceSince

\* A suggestion can come again only after the run has ended.
PromptsOver ==
    ~suggested => \A i \in prompts : \E k \in i..Len(heard) : Resets(k)

SilenceInv ==
    /\ SilenceShape /\ SamplesInOrder /\ PauseHeard /\ SilenceBegan /\ VoiceBegan /\ PromptsOver
    /\ OnePromptPerRun /\ StopsAfterFullSilence /\ CutLiesInSilence
    /\ watchState # "ended" => decision = Unset

LEMMA ThresholdsInNat ==
    /\ SuggestAfter \in Nat /\ AutoStopAfter \in Nat /\ Hysteresis \in Nat /\ TailPad \in Nat
    /\ Unset \notin Nat
BY SilenceAssumption

\* What one more event does to what is said about those heard.
LEMMA HeardGrows ==
    ASSUME heard \in Seq(Events), NEW e \in Events, heard' = Append(heard, e),
           NEW n \in Nat, n = Len(heard)
    PROVE  /\ heard' \in Seq(Events) /\ Len(heard') = n + 1 /\ DOMAIN heard = 1..n
           /\ DOMAIN heard' = 1..n + 1
           /\ heard'[n + 1] = e /\ \A k \in 1..n : heard'[k] = heard[k] /\ heard[k] \in Events
<1>1. /\ DOMAIN heard = 1..n
      /\ heard' \in Seq(Events) /\ Len(heard') = n + 1 /\ heard'[n + 1] = e
      /\ \A k \in 1..n : heard'[k] = heard[k]
    OBVIOUS
<1>2. DOMAIN heard' = 1..n + 1
    BY <1>1
<1>3. QED
    BY <1>1, <1>2

LEMMA StretchGrows ==
    ASSUME heard \in Seq(Events), NEW e \in Events, heard' = Append(heard, e),
           NEW n \in Nat, n = Len(heard)
    PROVE  /\ \A i, j \in 1..n : Stretch(i, j)' <=> Stretch(i, j)
           /\ \A i \in 1..n : Stretch(i, n + 1)' <=> Stretch(i, n) /\ IsSample(e) /\ e.loud
           /\ Stretch(n + 1, n + 1)' <=> IsSample(e) /\ e.loud
<1>1. /\ heard'[n + 1] = e
      /\ \A k \in 1..n : heard'[k] = heard[k]
    BY HeardGrows
<1>2. ASSUME NEW i \in 1..n, NEW j \in 1..n
      PROVE  Stretch(i, j)' <=> Stretch(i, j)
  <2>1. \A k \in i..j : heard'[k] = heard[k]
    BY <1>1
  <2>2. QED
    BY <2>1 DEF Stretch
<1>3. ASSUME NEW i \in 1..n
      PROVE  Stretch(i, n + 1)' <=> Stretch(i, n) /\ IsSample(e) /\ e.loud
  <2>1. i..n + 1 = (i..n) \cup {n + 1} /\ \A k \in i..n : heard'[k] = heard[k]
    BY <1>1
  <2>2. QED
    BY <1>1, <2>1 DEF Stretch
<1>4. Stretch(n + 1, n + 1)' <=> IsSample(e) /\ e.loud
  <2>1. n + 1..n + 1 = {n + 1}
    OBVIOUS
  <2>2. QED
    BY <1>1, <2>1 DEF Stretch
<1>5. QED
    BY <1>2, <1>3, <1>4

LEMMA ResetsStay ==
    ASSUME heard \in Seq(Events), NEW e \in Events, heard' = Append(heard, e),
           NEW n \in Nat, n = Len(heard), NEW k \in 1..n
    PROVE  Resets(k)' <=> Resets(k)
<1>1. heard'[k] = heard[k] /\ \A i \in 1..k : heard'[i] = heard[i]
    BY HeardGrows
<1>2. \A i \in 1..k : Stretch(i, k)' <=> Stretch(i, k)
    BY StretchGrows
<1>3. QED
    BY <1>1, <1>2 DEF Resets

LEMMA PausedGrows ==
    ASSUME heard \in Seq(Events), NEW e \in Events, heard' = Append(heard, e),
           NEW n \in Nat, n = Len(heard)
    PROVE  PausedAt(n + 1)' <=> e.kind = "pause" \/ (e.kind # "resume" /\ PausedAt(n))
<1>1. /\ heard'[n + 1] = e
      /\ \A k \in 1..n : heard'[k] = heard[k]
    BY HeardGrows
<1>2. ASSUME e.kind = "pause" PROVE PausedAt(n + 1)'
  <2>1. n + 1..n + 1 = {n + 1} /\ n + 1 \in 1..n + 1
    OBVIOUS
  <2>2. QED
    BY <1>1, <1>2, <2>1 DEF PausedAt
<1>3. ASSUME e.kind # "resume", PausedAt(n) PROVE PausedAt(n + 1)'
  <2>1. PICK i \in 1..n : heard[i].kind = "pause" /\ \A k \in i..n : heard[k].kind # "resume"
    BY <1>3 DEF PausedAt
  <2>2. i..n + 1 = (i..n) \cup {n + 1} /\ i \in 1..n + 1 /\ \A k \in i..n : k \in 1..n
    OBVIOUS
  <2>3. heard'[i].kind = "pause" /\ \A k \in i..n + 1 : heard'[k].kind # "resume"
    BY <1>1, <1>3, <2>1, <2>2
  <2>4. QED
    BY <2>2, <2>3 DEF PausedAt
<1>4. ASSUME PausedAt(n + 1)' PROVE e.kind = "pause" \/ (e.kind # "resume" /\ PausedAt(n))
  <2>1. PICK i \in 1..n + 1 :
           heard'[i].kind = "pause" /\ \A k \in i..n + 1 : heard'[k].kind # "resume"
    BY <1>4 DEF PausedAt
  <2>2. CASE i = n + 1
    BY <1>1, <2>1, <2>2
  <2>3. CASE i \in 1..n
    <3>1. \A k \in i..n : k \in 1..n /\ k \in i..n + 1
        BY <2>3
    <3>2. heard[i].kind = "pause" /\ \A k \in i..n : heard[k].kind # "resume"
        BY <1>1, <2>1, <2>3, <3>1
    <3>3. e.kind # "resume"
        BY <1>1, <2>1, <2>3
    <3>4. QED
        BY <2>3, <3>2, <3>3 DEF PausedAt
  <2>4. QED
    BY <2>2, <2>3
<1>5. QED
    BY <1>2, <1>3, <1>4

LEMMA SilenceInvInit == SilenceInit => SilenceInv
<1> SUFFICES ASSUME SilenceInit PROVE SilenceInv
    OBVIOUS
<1> USE ThresholdsInNat DEF SilenceInit
<1>1. heard = <<>> /\ Len(heard) = 0 /\ DOMAIN heard = {} /\ heard \in Seq(Events)
    OBVIOUS
<1>2. SilenceShape
    BY <1>1 DEF SilenceShape, Times
<1>3. SamplesInOrder
    BY <1>1 DEF SamplesInOrder
<1>4. ~PausedAt(0)
    BY DEF PausedAt
<1>5. PauseHeard
    BY <1>1, <1>4 DEF PauseHeard
<1>6. SilenceBegan /\ VoiceBegan /\ PromptsOver /\ OnePromptPerRun
    BY DEF SilenceBegan, VoiceBegan, PromptsOver, OnePromptPerRun
<1>7. StopsAfterFullSilence /\ CutLiesInSilence
    BY DEF StopsAfterFullSilence, CutLiesInSilence
<1>8. QED
    BY <1>2, <1>3, <1>5, <1>6, <1>7 DEF SilenceInv

\* A step that hears nothing keeps what is said of what was heard.
LEMMA NothingHeardKeeps ==
    ASSUME SilenceInv, watchState' \in {"off", "running", "ended"},
           cfg' \in [suggest : {Unset, SuggestAfter}, stop : {Unset, AutoStopAfter}],
           UNCHANGED <<silenceStarted, voiceSince, suggested, watchPaused, decision, prompts,
                       heard>>,
           watchState = "ended" => watchState' = "ended"
    PROVE  SilenceInv'
<1>1. \A i, j : (Stretch(i, j)' <=> Stretch(i, j))
    BY DEF Stretch
<1>2. \A k : (Resets(k)' <=> Resets(k))
    BY <1>1 DEF Resets
<1>3. \A k : (PausedAt(k)' <=> PausedAt(k))
    BY DEF PausedAt
<1>4. \A i, j : (QuietFor(i, j)' <=> QuietFor(i, j))
    BY <1>2 DEF QuietFor
<1>5. SilenceShape' /\ SamplesInOrder'
    BY DEF SilenceInv, SilenceShape, SamplesInOrder
<1>6. PauseHeard'
    BY <1>3 DEF SilenceInv, PauseHeard
<1>7. SilenceBegan' /\ VoiceBegan'
    BY <1>1, <1>2 DEF SilenceInv, SilenceBegan, VoiceBegan
<1>8. PromptsOver' /\ OnePromptPerRun'
    BY <1>2 DEF SilenceInv, PromptsOver, OnePromptPerRun
<1>9. StopsAfterFullSilence'
    BY <1>3, <1>4 DEF SilenceInv, StopsAfterFullSilence
<1>10. CutLiesInSilence'
    BY <1>2 DEF SilenceInv, CutLiesInSilence
<1>11. QED
    BY <1>5, <1>6, <1>7, <1>8, <1>9, <1>10 DEF SilenceInv

\* Suggestions that were there stay apart when one more event is heard.
LEMMA PromptsStayApart ==
    ASSUME SilenceInv, NEW e \in Events, heard' = Append(heard, e),
           NEW n \in Nat, n = Len(heard)
    PROVE  /\ \A i, j \in prompts : i < j => \E k \in i..j : Resets(k)'
           /\ ~suggested => \A i \in prompts : \E k \in i..n : Resets(k)'
<1>1. prompts \subseteq 1..n /\ heard \in Seq(Events)
    BY DEF SilenceInv, SilenceShape
<1>2. ASSUME NEW i \in prompts, NEW j \in prompts, i < j PROVE \E k \in i..j : Resets(k)'
  <2>1. PICK k \in i..j : Resets(k)
    BY <1>2 DEF SilenceInv, OnePromptPerRun
  <2>2. k \in 1..n
    BY <1>1, <2>1
  <2>3. QED
    BY <1>1, <2>1, <2>2, ResetsStay
<1>3. ASSUME ~suggested, NEW i \in prompts PROVE \E k \in i..n : Resets(k)'
  <2>1. PICK k \in i..n : Resets(k)
    BY <1>3 DEF SilenceInv, PromptsOver
  <2>2. k \in 1..n
    BY <1>1, <2>1
  <2>3. QED
    BY <1>1, <2>1, <2>2, ResetsStay
<1>4. QED
    BY <1>2, <1>3

LEMMA ControlKeeps ==
    ASSUME SilenceInv, NEW kind \in Controls, Control(kind), ResetRun,
           UNCHANGED <<cfg, watchState, decision, prompts>>,
           watchPaused' = IF kind = "snooze" THEN watchPaused ELSE kind = "pause"
    PROVE  SilenceInv'
<1> USE ThresholdsInNat
<1> DEFINE e == [kind |-> kind]
<1>1. PICK n \in Nat : n = Len(heard)
    BY DEF SilenceInv, SilenceShape
<1>2. /\ heard \in Seq(Events) /\ e \in Events /\ heard' = Append(heard, e)
      /\ watchState = "running" /\ e.kind = kind /\ ~IsSample(e)
    BY DEF SilenceInv, SilenceShape, Control, Events, Controls, IsSample
<1>3. /\ heard' \in Seq(Events) /\ Len(heard') = n + 1 /\ DOMAIN heard' = 1..n + 1
      /\ DOMAIN heard = 1..n /\ heard'[n + 1] = e
      /\ \A k \in 1..n : heard'[k] = heard[k]
    BY <1>1, <1>2, HeardGrows
<1> HIDE DEF e
<1>4. SilenceShape'
  <2>1. watchPaused' \in BOOLEAN
    BY DEF SilenceInv, SilenceShape
  <2>2. silenceStarted' \in Times /\ voiceSince' \in Times /\ suggested' \in BOOLEAN
    BY DEF ResetRun, Times
  <2>3. QED
    BY <1>1, <1>3, <2>1, <2>2 DEF SilenceInv, SilenceShape
<1>5. SamplesInOrder'
    BY <1>1, <1>2, <1>3 DEF SilenceInv, SamplesInOrder
<1>6. PauseHeard'
  <2>1. PausedAt(n + 1)' <=> kind = "pause" \/ (kind # "resume" /\ PausedAt(n))
    BY <1>1, <1>2, PausedGrows
  <2>2. watchPaused <=> PausedAt(n)
    BY <1>1 DEF SilenceInv, PauseHeard
  <2>3. watchPaused' <=> PausedAt(n + 1)'
    BY <2>1, <2>2 DEF Controls
  <2>4. QED
    BY <1>3, <2>3 DEF PauseHeard, ResetRun
<1>7. SilenceBegan' /\ VoiceBegan'
    BY DEF SilenceBegan, VoiceBegan, ResetRun
<1>8. PromptsOver' /\ OnePromptPerRun'
  <2>1. Resets(n + 1)'
    BY <1>2, <1>3 DEF Resets
  <2>2. \A i \in prompts : n + 1 \in i..n + 1
    BY <1>1 DEF SilenceInv, SilenceShape
  <2>3. PromptsOver'
    BY <1>3, <2>1, <2>2 DEF PromptsOver
  <2>4. OnePromptPerRun'
    BY <1>1, <1>2, PromptsStayApart DEF OnePromptPerRun
  <2>5. QED
    BY <2>3, <2>4
<1>9. decision' = Unset
    BY <1>2 DEF SilenceInv
<1>10. StopsAfterFullSilence' /\ CutLiesInSilence'
    BY <1>9 DEF StopsAfterFullSilence, CutLiesInSilence
<1>11. QED
    BY <1>4, <1>5, <1>6, <1>7, <1>8, <1>9, <1>10 DEF SilenceInv

LEMMA SamplesAreLate ==
    ASSUME SilenceInv, NEW ts \in Nat, ts > LastTs
    PROVE  \A i \in DOMAIN heard : IsSample(heard[i]) => heard[i].ts < ts
<1> DEFINE S == {heard[i].ts : i \in {j \in DOMAIN heard : IsSample(heard[j])}}
<1>1. \A i \in DOMAIN heard : IsSample(heard[i]) => heard[i].ts \in Nat
  <2>1. \A i \in DOMAIN heard : heard[i] \in Events
    BY DEF SilenceInv, SilenceShape
  <2>2. QED
    BY <2>1 DEF Events, HeardSamples, Controls, IsSample
<1>2. CASE \A i \in DOMAIN heard : ~IsSample(heard[i])
    BY <1>2
<1>3. CASE \E m \in DOMAIN heard :
             /\ IsSample(heard[m])
             /\ \A i \in DOMAIN heard : IsSample(heard[i]) => heard[i].ts <= heard[m].ts
  <2>1. \E t \in S : \A u \in S : u <= t
    BY <1>3
  <2>2. S # {} /\ \A i \in DOMAIN heard : IsSample(heard[i]) => heard[i].ts \in S
    BY <1>3
  <2>3. LastTs = CHOOSE t \in S : \A u \in S : u <= t
    BY <2>2 DEF LastTs
  <2>4. PICK last \in S : last = LastTs /\ \A u \in S : u <= last
    BY <2>1, <2>3
  <2>5. last \in Nat /\ ts > last
    BY <1>1, <2>4
  <2>6. ASSUME NEW i \in DOMAIN heard, IsSample(heard[i]) PROVE heard[i].ts < ts
    <3>1. heard[i].ts \in Nat /\ heard[i].ts <= last
        BY <1>1, <2>2, <2>4, <2>6
    <3>2. QED
        BY <2>5, <3>1
  <2>7. QED
    BY <2>6
<1>4. QED
    BY <1>2, <1>3 DEF SilenceInv, SamplesInOrder

\* A sample that is heard comes after all the others.
LEMMA SampleIsHeard ==
    ASSUME SilenceInv, NEW ts \in Nat, NEW n \in Nat, n = Len(heard), ts > LastTs,
           NEW e \in HeardSamples, e.ts = ts, heard' = Append(heard, e)
    PROVE  /\ e \in Events /\ IsSample(e) /\ heard \in Seq(Events)
           /\ heard' \in Seq(Events) /\ Len(heard') = n + 1 /\ DOMAIN heard' = 1..n + 1
           /\ DOMAIN heard = 1..n /\ heard'[n + 1] = e
           /\ \A k \in 1..n : heard'[k] = heard[k]
           /\ \A k \in 1..n : IsSample(heard[k]) => heard[k].ts \in Nat /\ heard[k].ts < ts
           /\ SamplesInOrder'
<1>1. e \in Events /\ IsSample(e) /\ heard \in Seq(Events)
    BY DEF Events, HeardSamples, IsSample, SilenceInv, SilenceShape
<1>2. /\ heard' \in Seq(Events) /\ Len(heard') = n + 1 /\ DOMAIN heard' = 1..n + 1
      /\ DOMAIN heard = 1..n /\ heard'[n + 1] = e
      /\ \A k \in 1..n : heard'[k] = heard[k] /\ heard[k] \in Events
    BY <1>1, HeardGrows
<1>3. \A k \in 1..n : IsSample(heard[k]) => heard[k].ts \in Nat
    BY <1>2 DEF Events, HeardSamples, Controls, IsSample
<1>4. \A k \in 1..n : IsSample(heard[k]) => heard[k].ts < ts
    BY <1>2, SamplesAreLate
<1>5. SamplesInOrder'
  <2>1. ASSUME NEW i \in 1..n + 1, NEW j \in 1..n + 1, i < j,
               IsSample(heard'[i]), IsSample(heard'[j])
        PROVE  heard'[i].ts < heard'[j].ts
    <3>1. i \in 1..n
        BY <2>1
    <3>2. CASE j = n + 1
        BY <1>2, <1>4, <2>1, <3>1, <3>2
    <3>3. CASE j \in 1..n
        BY <1>2, <2>1, <3>1, <3>3 DEF SilenceInv, SamplesInOrder
    <3>4. QED
        BY <2>1, <3>2, <3>3
  <2>2. \A i \in 1..n + 1 : IsSample(heard'[i]) => heard'[i].ts <= heard'[n + 1].ts
    <3>1. heard'[n + 1].ts = ts
        BY <1>2
    <3>2. QED
        BY <1>2, <1>3, <1>4, <3>1
  <2>3. n + 1 \in 1..n + 1 /\ IsSample(heard'[n + 1])
    BY <1>1, <1>2
  <2>4. QED
    BY <1>2, <2>1, <2>2, <2>3 DEF SamplesInOrder
<1>6. QED
    BY <1>1, <1>2, <1>3, <1>4, <1>5

LEMMA IgnoredSampleKeeps ==
    ASSUME SilenceInv, NEW ts \in Nat, IgnoredSample(ts)
    PROVE  SilenceInv'
<1> USE ThresholdsInNat
<1>1. ts > LastTs /\ watchState = "running" /\ decision = Unset
    BY DEF IgnoredSample, Heard, SilenceInv
<1>2. PICK n \in Nat : n = Len(heard)
    BY DEF SilenceInv, SilenceShape
<1>3. PICK e \in HeardSamples : e.ts = ts /\ e.kind = "sample" /\ heard' = Append(heard, e)
    BY DEF IgnoredSample, Heard, HeardSamples
<1>4. /\ e \in Events /\ heard \in Seq(Events)
      /\ heard' \in Seq(Events) /\ Len(heard') = n + 1 /\ DOMAIN heard' = 1..n + 1
      /\ DOMAIN heard = 1..n /\ SamplesInOrder'
    BY <1>1, <1>2, <1>3, SampleIsHeard
<1>5. /\ watchPaused /\ silenceStarted = Unset /\ voiceSince = Unset
      /\ UNCHANGED <<cfg, watchState, silenceStarted, voiceSince, suggested, watchPaused,
                     decision, prompts>>
    BY DEF IgnoredSample, SilenceInv, PauseHeard
<1>6. SilenceShape'
    BY <1>4, <1>5 DEF SilenceInv, SilenceShape
<1>7. PauseHeard'
  <2>1. PausedAt(n) /\ e.kind = "sample"
    BY <1>2, <1>3, <1>5 DEF SilenceInv, PauseHeard
  <2>2. PausedAt(n + 1)'
    BY <1>2, <1>3, <1>4, <2>1, PausedGrows
  <2>3. QED
    BY <1>4, <1>5, <2>2 DEF PauseHeard
<1>8. SilenceBegan' /\ VoiceBegan'
    BY <1>5 DEF SilenceBegan, VoiceBegan
<1>9. PromptsOver'
  <2>1. ~suggested => \A i \in prompts : \E k \in i..n : Resets(k)'
    BY <1>2, <1>3, <1>4, PromptsStayApart
  <2>2. \A i \in prompts : \A k \in i..n : k \in i..n + 1
    BY <1>4 DEF SilenceInv, SilenceShape
  <2>3. QED
    BY <1>4, <1>5, <2>1, <2>2 DEF PromptsOver
<1>10. OnePromptPerRun'
    BY <1>2, <1>3, <1>4, <1>5, PromptsStayApart DEF OnePromptPerRun
<1>11. StopsAfterFullSilence' /\ CutLiesInSilence'
    BY <1>1, <1>5 DEF StopsAfterFullSilence, CutLiesInSilence
<1>12. QED
    BY <1>1, <1>4, <1>5, <1>6, <1>7, <1>8, <1>9, <1>10, <1>11 DEF SilenceInv

LEMMA LoudSampleKeeps ==
    ASSUME SilenceInv, NEW ts \in Nat, LoudSample(ts)
    PROVE  SilenceInv'
<1> USE ThresholdsInNat
<1>1. ts > LastTs /\ watchState = "running" /\ decision = Unset /\ ~watchPaused
    BY DEF LoudSample, Heard, SilenceInv
<1>2. PICK n \in Nat : n = Len(heard)
    BY DEF SilenceInv, SilenceShape
<1>3. PICK e \in HeardSamples :
         e.ts = ts /\ e.kind = "sample" /\ e.loud /\ heard' = Append(heard, e)
    BY DEF LoudSample, Heard, HeardSamples
<1>4. /\ e \in Events /\ IsSample(e) /\ heard \in Seq(Events)
      /\ heard' \in Seq(Events) /\ Len(heard') = n + 1 /\ DOMAIN heard' = 1..n + 1
      /\ DOMAIN heard = 1..n /\ SamplesInOrder' /\ heard'[n + 1] = e
      /\ \A k \in 1..n : heard'[k] = heard[k]
      /\ \A k \in 1..n : IsSample(heard[k]) => heard[k].ts \in Nat /\ heard[k].ts < ts
    BY <1>1, <1>2, <1>3, SampleIsHeard
<1>5. /\ \A i, j \in 1..n : Stretch(i, j)' <=> Stretch(i, j)
      /\ \A i \in 1..n : Stretch(i, n + 1)' <=> Stretch(i, n)
      /\ Stretch(n + 1, n + 1)'
    BY <1>2, <1>3, <1>4, StretchGrows
<1>6. PICK since \in Nat : since = IF voiceSince = Unset THEN ts ELSE voiceSince
    BY DEF SilenceInv, SilenceShape, Times
\* The stretch of sound that goes on has begun at a sample that was heard.
<1>7. since <= ts /\ \E i \in 1..n + 1 : Stretch(i, n + 1)' /\ heard'[i].ts = since
  <2>1. CASE voiceSince = Unset
    BY <1>3, <1>4, <1>5, <1>6, <2>1
  <2>2. CASE voiceSince # Unset
    <3>1. PICK i \in 1..n : Stretch(i, n) /\ heard[i].ts = since
        BY <1>2, <1>4, <1>6, <2>2 DEF SilenceInv, VoiceBegan
    <3>2. IsSample(heard[i])
        BY <3>1 DEF Stretch
    <3>3. QED
        BY <1>4, <1>5, <3>1, <3>2
  <2>3. QED
    BY <2>1, <2>2
<1>8. UNCHANGED <<cfg, watchState, watchPaused, decision, prompts>>
    BY DEF LoudSample
<1>9. PauseHeard'
  <2>1. ~PausedAt(n)
    BY <1>1, <1>2 DEF SilenceInv, PauseHeard
  <2>2. ~PausedAt(n + 1)'
    BY <1>2, <1>3, <1>4, <2>1, PausedGrows
  <2>3. QED
    BY <1>1, <1>4, <1>8, <2>2 DEF PauseHeard
<1>10. OnePromptPerRun'
    BY <1>2, <1>3, <1>4, <1>8, PromptsStayApart DEF OnePromptPerRun
<1>11. StopsAfterFullSilence' /\ CutLiesInSilence' /\ decision' = Unset
    BY <1>1, <1>8 DEF StopsAfterFullSilence, CutLiesInSilence
<1>12. prompts \subseteq 1..n
    BY <1>4 DEF SilenceInv, SilenceShape
<1>13. CASE ts - since >= Hysteresis
  <2>1. ResetRun
    BY <1>6, <1>13 DEF LoudSample
  <2>2. SilenceShape'
    <3>1. silenceStarted' \in Times /\ voiceSince' \in Times /\ suggested' \in BOOLEAN
        BY <2>1 DEF ResetRun, Times
    <3>2. QED
        BY <1>4, <1>8, <3>1 DEF SilenceInv, SilenceShape
  <2>3. Resets(n + 1)'
    BY <1>3, <1>4, <1>7, <1>13 DEF Resets
  <2>4. PromptsOver'
    BY <1>4, <1>8, <1>12, <2>3 DEF PromptsOver
  <2>5. SilenceBegan' /\ VoiceBegan'
    BY <2>1 DEF ResetRun, SilenceBegan, VoiceBegan
  <2>6. QED
    BY <1>1, <1>4, <1>8, <1>9, <1>10, <1>11, <2>2, <2>4, <2>5 DEF SilenceInv
<1>14. CASE ~(ts - since >= Hysteresis)
  <2>1. voiceSince' = since /\ UNCHANGED <<silenceStarted, suggested>>
    BY <1>6, <1>14 DEF LoudSample
  <2>2. SilenceShape'
    BY <1>4, <1>8, <2>1 DEF SilenceInv, SilenceShape, Times
  <2>3. VoiceBegan'
    BY <1>4, <1>7, <2>1 DEF VoiceBegan
  <2>4. PromptsOver'
    <3>1. ~suggested => \A i \in prompts : \E k \in i..n : Resets(k)'
        BY <1>2, <1>3, <1>4, PromptsStayApart
    <3>2. \A i \in prompts : \A k \in i..n : k \in i..n + 1
        BY <1>12
    <3>3. QED
        BY <1>4, <1>8, <2>1, <3>1, <3>2 DEF PromptsOver
  <2>5. SilenceBegan'
    <3> SUFFICES ASSUME silenceStarted # Unset
                 PROVE  SilenceBegan'
        BY <2>1 DEF SilenceBegan
    <3>1. ASSUME NEW i \in 1..n + 1, Stretch(i, n + 1)'
          PROVE  since <= heard'[i].ts /\ heard'[i].ts \in Nat
        <4>1. CASE i = n + 1
            BY <1>3, <1>4, <1>7, <4>1
        <4>2. CASE i \in 1..n
            <5>1. Stretch(i, n) /\ IsSample(heard[i])
                BY <1>5, <3>1, <4>2 DEF Stretch
            <5>2. voiceSince # Unset /\ voiceSince <= heard[i].ts
                BY <1>2, <1>4, <4>2, <5>1 DEF SilenceInv, SilenceBegan
            <5>3. QED
                BY <1>4, <1>6, <4>2, <5>1, <5>2
        <4>3. QED
            BY <3>1, <4>1, <4>2
    <3>2. ~Resets(n + 1)'
        <4>1. heard'[n + 1].kind \notin Controls /\ heard'[n + 1].ts = ts
            BY <1>3, <1>4 DEF Controls
        <4>2. ASSUME NEW i \in 1..n + 1, Stretch(i, n + 1)'
              PROVE  ~(ts - heard'[i].ts >= Hysteresis)
            BY <1>14, <3>1, <4>2
        <4>3. QED
            BY <4>1, <4>2 DEF Resets
    <3>3. PICK s \in 1..n :
             /\ IsSample(heard[s]) /\ ~heard[s].loud /\ heard[s].ts = silenceStarted
             /\ \A k \in s..n : ~Resets(k)
        BY <1>2, <1>4 DEF SilenceInv, SilenceBegan
    <3>4. \A k \in s..n + 1 : ~Resets(k)'
        <4>1. \A k \in s..n : k \in 1..n /\ ~Resets(k)'
            BY <1>2, <1>3, <1>4, <3>3, ResetsStay, SMTT(30)
        <4>2. QED
            BY <3>2, <4>1
    <3>5. s \in 1..n + 1 /\ heard'[s] = heard[s]
        BY <1>4
    <3>6. QED
        BY <1>4, <1>6, <2>1, <3>1, <3>3, <3>4, <3>5 DEF SilenceBegan
  <2>6. QED
    BY <1>1, <1>4, <1>8, <1>9, <1>10, <1>11, <2>2, <2>3, <2>4, <2>5 DEF SilenceInv
<1>15. QED
    BY <1>13, <1>14

LEMMA SilentSampleKeeps ==
    ASSUME SilenceInv, NEW ts \in Nat, SilentSample(ts)
    PROVE  SilenceInv'
<1> USE ThresholdsInNat
<1>1. ts > LastTs /\ watchState = "running" /\ decision = Unset /\ ~watchPaused
    BY DEF SilentSample, Heard, SilenceInv
<1>2. PICK n \in Nat : n = Len(heard)
    BY DEF SilenceInv, SilenceShape
<1>3. PICK e \in HeardSamples :
         e.ts = ts /\ e.kind = "sample" /\ ~e.loud /\ heard' = Append(heard, e)
    BY DEF SilentSample, Heard, HeardSamples
<1>4. /\ e \in Events /\ IsSample(e) /\ heard \in Seq(Events)
      /\ heard' \in Seq(Events) /\ Len(heard') = n + 1 /\ DOMAIN heard' = 1..n + 1
      /\ DOMAIN heard = 1..n /\ SamplesInOrder' /\ heard'[n + 1] = e
      /\ \A k \in 1..n : heard'[k] = heard[k]
      /\ \A k \in 1..n : IsSample(heard[k]) => heard[k].ts \in Nat /\ heard[k].ts < ts
    BY <1>1, <1>2, <1>3, SampleIsHeard
\* A silent sample ends no run.
<1>5. ~Resets(n + 1)' /\ \A i \in 1..n + 1 : ~Stretch(i, n + 1)'
  <2>1. \A i \in 1..n + 1 : ~Stretch(i, n + 1)'
    <3>1. ASSUME NEW i \in 1..n + 1, Stretch(i, n + 1)' PROVE FALSE
        <4>1. n + 1 \in i..n + 1
            OBVIOUS
        <4>2. heard'[n + 1].loud
            BY <3>1, <4>1 DEF Stretch
        <4>3. QED
            BY <1>3, <1>4, <4>2
    <3>2. QED
        BY <3>1
  <2>2. QED
    BY <1>3, <1>4, <2>1 DEF Resets, Controls
<1>6. PICK started \in Nat :
         started = IF silenceStarted = Unset THEN ts ELSE silenceStarted
    BY DEF SilenceInv, SilenceShape, Times
<1>7. /\ silenceStarted' = started /\ voiceSince' = Unset
      /\ UNCHANGED <<cfg, watchPaused>>
    BY <1>6 DEF SilentSample
<1>8. PICK s \in 1..n + 1 :
         /\ IsSample(heard'[s]) /\ ~heard'[s].loud /\ heard'[s].ts = started
         /\ \A k \in s..n + 1 : ~Resets(k)'
  <2>1. CASE silenceStarted = Unset
    <3>1. n + 1..n + 1 = {n + 1} /\ n + 1 \in 1..n + 1
        OBVIOUS
    <3>2. QED
        BY <1>3, <1>4, <1>5, <1>6, <2>1, <3>1
  <2>2. CASE silenceStarted # Unset
    <3>1. PICK s \in 1..n :
             /\ IsSample(heard[s]) /\ ~heard[s].loud /\ heard[s].ts = silenceStarted
             /\ \A k \in s..n : ~Resets(k)
        BY <1>2, <1>4, <2>2 DEF SilenceInv, SilenceBegan
    <3>2. \A k \in s..n : k \in 1..n /\ ~Resets(k)'
        BY <1>2, <1>3, <1>4, <3>1, ResetsStay
    <3>3. s \in 1..n + 1 /\ heard'[s] = heard[s] /\ \A k \in s..n + 1 : ~Resets(k)'
        BY <1>4, <1>5, <3>2
    <3>4. QED
        BY <1>6, <2>2, <3>1, <3>3
  <2>3. QED
    BY <2>1, <2>2
<1>9. SilenceBegan' /\ VoiceBegan'
    BY <1>4, <1>5, <1>7, <1>8 DEF SilenceBegan, VoiceBegan
<1>10. ~PausedAt(n + 1)' /\ PauseHeard'
  <2>1. ~PausedAt(n)
    BY <1>1, <1>2 DEF SilenceInv, PauseHeard
  <2>2. ~PausedAt(n + 1)'
    BY <1>2, <1>3, <1>4, <2>1, PausedGrows
  <2>3. QED
    BY <1>1, <1>4, <1>7, <2>2 DEF PauseHeard
<1>11. /\ \A i, j \in prompts : i < j => \E k \in i..j : Resets(k)'
       /\ ~suggested => \A i \in prompts : \E k \in i..n : Resets(k)'
       /\ prompts \subseteq 1..n
    BY <1>2, <1>3, <1>4, PromptsStayApart DEF SilenceInv, SilenceShape
<1>12. \A i \in prompts : \A k \in i..n : k \in i..n + 1
    BY <1>11
<1>13. CASE cfg.stop # Unset /\ ts - started >= cfg.stop
  <2>1. /\ decision' = [trim |-> TrimAt(started, ts), at |-> ts] /\ watchState' = "ended"
        /\ UNCHANGED <<suggested, prompts>>
    BY <1>6, <1>13 DEF SilentSample
  <2>2. cfg.stop = AutoStopAfter
    BY <1>13 DEF SilenceInv, SilenceShape
  <2>3. SilenceShape'
    BY <1>4, <1>7, <1>11, <2>1 DEF SilenceInv, SilenceShape, Times
  <2>4. PromptsOver' /\ OnePromptPerRun'
    BY <1>4, <1>11, <1>12, <2>1 DEF PromptsOver, OnePromptPerRun
  <2>5. StopsAfterFullSilence'
    <3>1. QuietFor(s, n + 1)'
        BY <1>3, <1>4, <1>8 DEF QuietFor
    <3>2. heard'[n + 1].ts - heard'[s].ts >= AutoStopAfter
        BY <1>3, <1>4, <1>8, <1>13, <2>2
    <3>3. QED
        BY <1>4, <1>10, <3>1, <3>2 DEF StopsAfterFullSilence
  <2>6. CutLiesInSilence'
    <3>1. PICK cut \in Nat : cut = TrimAt(started, ts)
        BY <1>6 DEF TrimAt
    <3>2. decision'.trim = cut /\ decision'.at = ts
        BY <2>1, <3>1
    <3>3. started <= cut /\ cut <= ts /\ ts - cut >= AutoStopAfter - TailPad
        BY <1>6, <1>13, <2>2, <3>1 DEF TrimAt
    <3>4. ASSUME NEW j \in 1..n + 1, IsSample(heard'[j]), Resets(j)'
          PROVE  heard'[j].ts <= cut
        <4>1. j < s
            BY <1>8, <3>4
        <4>2. heard'[j].ts < heard'[s].ts
            BY <1>4, <1>8, <3>4, <4>1 DEF SamplesInOrder
        <4>3. j \in 1..n
            BY <4>1
        <4>4. heard'[j].ts \in Nat
            BY <1>4, <3>4, <4>3
        <4>5. QED
            BY <1>8, <3>3, <4>2, <4>4
    <3>5. QED
        BY <1>4, <3>2, <3>3, <3>4 DEF CutLiesInSilence
  <2>7. QED
    BY <1>4, <1>9, <1>10, <2>1, <2>3, <2>4, <2>5, <2>6 DEF SilenceInv
<1>14. CASE ~(cfg.stop # Unset /\ ts - started >= cfg.stop)
  <2>1. /\ UNCHANGED <<decision, watchState>>
        /\ suggested' = (suggested \/ Suggests(started, ts))
        /\ prompts' = IF Suggests(started, ts) THEN prompts \cup {n + 1} ELSE prompts
    BY <1>2, <1>6, <1>14 DEF SilentSample
  <2>2. SilenceShape'
    <3>1. suggested' \in BOOLEAN
        BY <2>1
    <3>2. prompts' \subseteq 1..n + 1
        BY <1>11, <2>1
    <3>3. QED
        BY <1>1, <1>4, <1>7, <2>1, <3>1, <3>2 DEF SilenceInv, SilenceShape, Times
  <2>3. PromptsOver' /\ OnePromptPerRun'
    <3>1. CASE Suggests(started, ts)
        <4>1. suggested' /\ ~suggested /\ prompts' = prompts \cup {n + 1}
            BY <2>1, <3>1 DEF Suggests
        <4>2. \A i \in prompts : \E k \in i..n + 1 : Resets(k)'
            BY <1>11, <1>12, <4>1
        <4>3. \A i, j \in prompts' : i < j => i \in prompts /\ (j \in prompts \/ j = n + 1)
            BY <1>11, <4>1
        <4>4. QED
            BY <1>11, <4>1, <4>2, <4>3 DEF PromptsOver, OnePromptPerRun
    <3>2. CASE ~Suggests(started, ts)
        BY <1>4, <1>11, <1>12, <2>1, <3>2 DEF PromptsOver, OnePromptPerRun
    <3>3. QED
        BY <3>1, <3>2
  <2>4. StopsAfterFullSilence' /\ CutLiesInSilence'
    BY <1>1, <2>1 DEF StopsAfterFullSilence, CutLiesInSilence
  <2>5. QED
    BY <1>1, <1>4, <1>9, <1>10, <2>1, <2>2, <2>3, <2>4 DEF SilenceInv
<1>15. QED
    BY <1>13, <1>14

LEMMA SilenceInvNext == SilenceInv /\ [SilenceNext]_silenceVars => SilenceInv'
<1> SUFFICES ASSUME SilenceInv, [SilenceNext]_silenceVars PROVE SilenceInv'
    OBVIOUS
<1> USE ThresholdsInNat
<1>1. CASE SpawnSilenceWatch
  <2>1. cfg' \in [suggest : {Unset, SuggestAfter}, stop : {Unset, AutoStopAfter}]
    BY <1>1 DEF SpawnSilenceWatch, LoadSilenceConfig
  <2>2. QED
    BY <1>1, <2>1, NothingHeardKeeps DEF SpawnSilenceWatch
<1>2. CASE OnPause
    BY <1>2, ControlKeeps DEF OnPause, Controls
<1>3. CASE OnResume
    BY <1>3, ControlKeeps DEF OnResume, Controls
<1>4. CASE Snooze
    BY <1>4, ControlKeeps DEF Snooze, Controls
<1>5. CASE WatchEnds
    BY <1>5, NothingHeardKeeps DEF WatchEnds, SilenceInv, SilenceShape
<1>6. CASE \E ts \in 0..MaxTs : IgnoredSample(ts) \/ LoudSample(ts) \/ SilentSample(ts)
  <2>1. PICK ts \in Nat : IgnoredSample(ts) \/ LoudSample(ts) \/ SilentSample(ts)
    BY <1>6
  <2>2. QED
    BY <2>1, IgnoredSampleKeeps, LoudSampleKeeps, SilentSampleKeeps
<1>7. CASE UNCHANGED silenceVars
    BY <1>7, NothingHeardKeeps DEF silenceVars, SilenceInv, SilenceShape
<1>8. QED
    BY <1>1, <1>2, <1>3, <1>4, <1>5, <1>6, <1>7 DEF SilenceNext

\* A recording is stopped only after a whole interval of silence that nothing broke, its cut
\* lies in that silence, and one silence has one suggestion: for any thresholds, any number of
\* samples and controls, and whatever is lost of them.
THEOREM StopIsDeservedHolds == SilenceSpec => []StopIsDeserved
<1>1. SilenceSpec => []SilenceInv
    BY SilenceInvInit, SilenceInvNext, PTL DEF SilenceSpec
<1>2. SilenceInv => StopIsDeserved
    BY DEF SilenceInv, StopIsDeserved
<1>3. QED
    BY <1>1, <1>2, PTL
-----------------------------------------------------------------------------
(***************************************************************************)
(* AssistantIndex: passages, vectors, the state of the index, the copy.    *)
(***************************************************************************)
PassageRows == [id : Nat, of : Nat]
WorkSteps == {"idle", "start", "read", "write", "embed", "upsert", "next", "vectors", "fill"}
WorkRecs == [at : WorkSteps, call : IndexedCalls, seen : Nat, batch : SUBSET PassageRows]

IndexShape ==
    /\ archive \in [IndexedCalls -> {"ready", "busy", "gone"}]
    /\ content \in [IndexedCalls -> Nat]
    /\ passages \in [IndexedCalls -> PassageRows]
    /\ entry \in [IndexedCalls -> Nat]
    /\ vectors \in SUBSET PassageRows /\ embedCache.rows \in SUBSET PassageRows
    /\ nextId \in Nat \ {0}
    /\ tasks \in [Workers -> WorkRecs]
    /\ todo \subseteq IndexedCalls
    /\ oldModel \in BOOLEAN /\ blurred \in BOOLEAN

\* No id is given twice, so what was read of a passage is still true of the
\* passage with this id, if there is one.
IdsFresh ==
    /\ \A c \in IndexedCalls : passages[c] # NoPassage =>
          passages[c].id # 0 /\ passages[c].id < nextId
    /\ \A c, d \in IndexedCalls : passages[c].id = passages[d].id =>
          c = d \/ passages[c] = NoPassage
Known(v) == v.id # 0 /\ v.id < nextId /\ \A row \in Rows : row.id = v.id => row = v
BatchesKnown == \A w \in Workers : \A v \in tasks[w].batch : Known(v)

\* The state of the index tells which passages there are, or that they are to
\* be made anew.
EntryTells ==
    \A c \in IndexedCalls :
        entry[c] \in {0, passages[c].id} /\ (~blurred => entry[c] = passages[c].id)

\* Who works on a call that is there: one, who has read its last version, or the
\* call is among the missed.  The start works only on calls without an entry.
WorkKnown ==
    \A c \in IndexedCalls : archive[c] # "gone" /\ c \notin missed =>
        /\ \A w, v \in WorksOn(c) : w = v
        /\ \A w \in WorksOn(c) : tasks[w].at = "write" => tasks[w].seen = content[c]
        /\ "startup" \in WorksOn(c) => entry[c] = 0

\* What has happened since a stamp was read of these rows and vectors: new rows
\* have new ids, and a vector is there as long as its row.
StampIs(stamp, had, vecs, top) ==
    /\ IsFiniteSet(had) /\ vecs \subseteq had /\ top <= nextId
    /\ \A row \in had : row.id < top
    /\ stamp[1] = Cardinality(had) /\ stamp[2] < top /\ stamp[3] = Cardinality(vecs)
Since(had, vecs, top) ==
    /\ \A row \in Rows : row \in had \/ row.id >= top
    /\ \A v \in vecs : v \in vectors \/ v \notin Rows
StampRead ==
    ~blurred /\ searching # NoStamp =>
        \E had, vecs \in SUBSET PassageRows, top \in Nat :
            StampIs(searching, had, vecs, top) /\ Since(had, vecs, top)
CopyTold ==
    /\ \A v \in embedCache.rows : Known(v)
    /\ ~blurred /\ embedCache # NoCache =>
        \E had, vecs \in SUBSET PassageRows, top \in Nat :
            /\ StampIs(embedCache.stamp, had, vecs, top) /\ Since(had, vecs, top)
            /\ \A v \in vecs : v \in embedCache.rows \/ v \notin Rows
            /\ \A v \in embedCache.rows : v \in vectors \/ v \notin Rows

LEMMA IndexConstants ==
    /\ SomeCall \in IndexedCalls /\ IsFiniteSet(IndexedCalls)
    /\ "startup" \in Workers /\ IndexJobs \subseteq Workers /\ "startup" \notin IndexJobs
    /\ \A c \in IndexedCalls : AtRest(c) \in WorkRecs /\ AtRest(c).at = "idle"
          /\ AtRest(c).call = c /\ AtRest(c).batch = {}
    /\ NoPassage \in PassageRows /\ NoPassage.id = 0
<1>1. SomeCall \in IndexedCalls
    BY IndexAssumption DEF SomeCall
<1>2. \A c \in IndexedCalls : AtRest(c) \in WorkRecs
    BY DEF AtRest, WorkRecs, WorkSteps
<1>3. QED
    BY <1>1, <1>2, IndexAssumption DEF Workers, AtRest, NoPassage, PassageRows

LEMMA ReadTasks ==
    ASSUME IndexShape, NEW w \in Workers, ReadCall(w)
    PROVE  /\ tasks' \in [Workers -> WorkRecs]
           /\ tasks'[w].at = "write" /\ tasks'[w].call = tasks[w].call
           /\ tasks'[w].seen = content[tasks[w].call] /\ tasks'[w].batch = tasks[w].batch
           /\ \A v \in Workers \ {w} : tasks'[v] = tasks[v]
<1>1. tasks[w] \in WorkRecs /\ content[tasks[w].call] \in Nat
    BY DEF IndexShape, WorkRecs
<1>2. QED
    BY <1>1 DEF ReadCall, IndexShape, WorkRecs, WorkSteps

LEMMA CarriedTasks ==
    ASSUME IndexShape, NEW w \in Workers, NEW at \in WorkSteps, Carried(w, at)
    PROVE  /\ tasks' \in [Workers -> WorkRecs]
           /\ tasks'[w].at = at /\ tasks'[w].call = tasks[w].call
           /\ tasks'[w].seen = 0 /\ tasks'[w].batch = tasks[w].batch
           /\ \A v \in Workers \ {w} : tasks'[v] = tasks[v]
<1>1. tasks[w] \in WorkRecs
    BY DEF IndexShape
<1>2. QED
    BY <1>1 DEF Carried, IndexShape, WorkRecs

LEMMA RestTasks ==
    ASSUME IndexShape, NEW w \in Workers, Rests(w)
    PROVE  /\ tasks' \in [Workers -> WorkRecs]
           /\ tasks'[w].at = "idle" /\ tasks'[w].batch = {}
           /\ \A v \in Workers \ {w} : tasks'[v] = tasks[v]
BY IndexConstants DEF Rests, IndexShape

LEMMA StartupTasks ==
    ASSUME IndexShape, NEW at \in WorkSteps, Startup(at)
    PROVE  /\ tasks' \in [Workers -> WorkRecs]
           /\ tasks'["startup"].at = at /\ tasks'["startup"].batch = tasks["startup"].batch
           /\ \A v \in Workers \ {"startup"} : tasks'[v] = tasks[v]
<1>1. "startup" \in Workers /\ tasks["startup"] \in WorkRecs
    BY IndexConstants DEF IndexShape
<1>2. QED
    BY <1>1 DEF Startup, IndexShape, WorkRecs

LEMMA BatchTasks ==
    ASSUME IndexShape, NEW w \in Workers, NEW at \in WorkSteps, NEW b \in SUBSET PassageRows,
           tasks' = [tasks EXCEPT ![w].at = at, ![w].batch = b]
    PROVE  /\ tasks' \in [Workers -> WorkRecs]
           /\ tasks'[w].at = at /\ tasks'[w].batch = b
           /\ \A v \in Workers \ {w} : tasks'[v] = tasks[v]
<1>1. tasks[w] \in WorkRecs
    BY DEF IndexShape
<1>2. QED
    BY <1>1 DEF IndexShape, WorkRecs

\* A task that begins to work on a call.
Begins(j, c) ==
    /\ tasks' \in [Workers -> WorkRecs]
    /\ tasks'[j].at = "read" /\ tasks'[j].call = c /\ tasks'[j].batch = {}
    /\ \A v \in Workers \ {j} : tasks'[v] = tasks[v]

LEMMA SpawnTasks ==
    ASSUME IndexShape, NEW c \in IndexedCalls, SpawnIndex(c)
    PROVE  /\ \E j \in IndexJobs : tasks[j].at = "idle" /\ Begins(j, c)
           /\ missed' = IF WorksOn(c) = {} THEN missed ELSE missed \cup {c}
<1>1. PICK j \in IndexJobs :
           /\ tasks[j].at = "idle"
           /\ tasks' = [tasks EXCEPT ![j] = [AtRest(c) EXCEPT !.at = "read"]]
    BY DEF SpawnIndex
<1>2. j \in Workers
    BY IndexConstants
<1>3. [AtRest(c) EXCEPT !.at = "read"] \in WorkRecs
    BY DEF AtRest, WorkRecs, WorkSteps
<1>4. Begins(j, c)
    BY <1>1, <1>2, <1>3 DEF Begins, IndexShape, AtRest
<1>5. QED
    BY <1>1, <1>4 DEF SpawnIndex

LEMMA WithoutShape ==
    ASSUME IndexShape, NEW c \in IndexedCalls, WithoutPassage(c)
    PROVE  /\ passages' \in [IndexedCalls -> PassageRows] /\ passages'[c] = NoPassage
           /\ \A d \in IndexedCalls \ {c} : passages'[d] = passages[d]
           /\ entry' \in [IndexedCalls -> Nat] /\ entry'[c] = 0
           /\ \A d \in IndexedCalls \ {c} : entry'[d] = entry[d]
           /\ vectors' = {v \in vectors : v.id # passages[c].id}
BY IndexConstants DEF IndexShape, WithoutPassage

LEMMA WriteShape ==
    ASSUME IndexShape, NEW w \in Workers, NEW c \in IndexedCalls, c = tasks[w].call,
           WritePassages(w)
    PROVE  /\ passages' \in [IndexedCalls -> PassageRows]
           /\ passages'[c] = [id |-> nextId, of |-> tasks[w].seen]
           /\ \A d \in IndexedCalls \ {c} : passages'[d] = passages[d]
           /\ entry' \in [IndexedCalls -> Nat] /\ entry'[c] = nextId
           /\ \A d \in IndexedCalls \ {c} : entry'[d] = entry[d]
           /\ vectors' = {v \in vectors : v.id # passages[c].id}
           /\ nextId' = nextId + 1 /\ Carried(w, "embed")
           /\ archive[c] # "gone" /\ tasks[w].at = "write"
           /\ missed' = IF WorksOn(c) = {w} /\ tasks[w].seen = content[c] THEN missed \ {c}
                        ELSE missed
<1>1. tasks[w].seen \in Nat
    BY DEF IndexShape, WorkRecs
<1>2. [id |-> nextId, of |-> tasks[w].seen] \in PassageRows
    BY <1>1 DEF IndexShape, PassageRows
<1>3. passages' = [passages EXCEPT ![c] = [id |-> nextId, of |-> tasks[w].seen]]
    BY DEF WritePassages, FreshId
<1>4. entry' = [entry EXCEPT ![c] = nextId]
    BY DEF WritePassages
<1>5. QED
    BY <1>1, <1>2, <1>3, <1>4 DEF IndexShape, WritePassages

LEMMA RowsAre ==
    ASSUME IndexShape
    PROVE  /\ Rows \subseteq PassageRows
           /\ \A c \in IndexedCalls : passages[c] = NoPassage \/ passages[c] \in Rows
           /\ \A row \in Rows : row # NoPassage /\ \E c \in IndexedCalls : row = passages[c]
BY DEF Rows, IndexShape

LEMMA IndexShapeInit == IndexInit /\ CacheInit => IndexShape
<1> SUFFICES ASSUME IndexInit, CacheInit PROVE IndexShape
    OBVIOUS
<1>1. \A w \in Workers :
          (IF w = "startup" THEN [AtRest(SomeCall) EXCEPT !.at = "start"] ELSE AtRest(SomeCall))
             \in WorkRecs
    BY IndexConstants DEF AtRest, WorkRecs, WorkSteps
<1>2. tasks \in [Workers -> WorkRecs]
    BY <1>1 DEF IndexInit
<1>3. passages \in [IndexedCalls -> PassageRows]
    BY IndexConstants DEF IndexInit
<1>4. embedCache.rows = {}
    BY DEF CacheInit, NoCache
<1>5. /\ archive \in [IndexedCalls -> {"ready", "busy", "gone"}]
      /\ content \in [IndexedCalls -> Nat] /\ entry \in [IndexedCalls -> Nat]
    BY DEF IndexInit
<1>6. vectors = {} /\ nextId = 1 /\ todo = {} /\ oldModel \in BOOLEAN /\ blurred \in BOOLEAN
    BY DEF IndexInit
<1>7. QED
    BY <1>2, <1>3, <1>4, <1>5, <1>6 DEF IndexShape

LEMMA UpsertedShape ==
    ASSUME IndexShape, NEW b \in SUBSET PassageRows
    PROVE  Upserted(b) \in SUBSET PassageRows
BY DEF Upserted, IndexShape

LEMMA IndexShapeStep ==
    ASSUME IndexShape, [SearchNext]_<<indexVars, cacheVars>>
    PROVE  IndexShape'
<1>0. \A w \in Workers : tasks[w] \in WorkRecs /\ tasks[w].call \in IndexedCalls
                         /\ tasks[w].batch \in SUBSET PassageRows /\ tasks[w].seen \in Nat
    BY DEF IndexShape, WorkRecs
<1>1. ASSUME NEW c \in IndexedCalls, Edit(c) \/ RunEnds(c), UNCHANGED cacheVars PROVE IndexShape'
  <2>1. tasks' \in [Workers -> WorkRecs]
    BY <1>1, SpawnTasks DEF Edit, RunEnds, Begins
  <2>2. /\ archive' \in [IndexedCalls -> {"ready", "busy", "gone"}]
        /\ content' \in [IndexedCalls -> Nat]
    BY <1>1 DEF Edit, RunEnds, IndexShape
  <2>3. QED
    BY <1>1, <2>1, <2>2 DEF Edit, RunEnds, IndexShape, cacheVars
<1>2. ASSUME NEW c \in IndexedCalls, Reprocess(c) \/ DeleteIndexed(c), UNCHANGED cacheVars
      PROVE  IndexShape'
  <2>1. /\ passages' \in [IndexedCalls -> PassageRows] /\ entry' \in [IndexedCalls -> Nat]
        /\ vectors' \in SUBSET PassageRows
    BY <1>2, WithoutShape DEF Reprocess, DeleteIndexed, IndexShape
  <2>2. QED
    BY <1>2, <2>1 DEF Reprocess, DeleteIndexed, IndexShape, cacheVars
<1>3. ASSUME NEW w \in Workers, ReadCall(w), UNCHANGED cacheVars PROVE IndexShape'
    BY <1>3, ReadTasks DEF ReadCall, IndexShape, cacheVars
<1>4. ASSUME NEW w \in Workers, WritePassages(w), UNCHANGED cacheVars PROVE IndexShape'
  <2>1. PICK c \in IndexedCalls : c = tasks[w].call
    BY <1>0
  <2>2. tasks' \in [Workers -> WorkRecs]
    BY <1>4, <2>1, WriteShape, CarriedTasks DEF WorkSteps
  <2>3. /\ passages' \in [IndexedCalls -> PassageRows] /\ entry' \in [IndexedCalls -> Nat]
        /\ vectors' \in SUBSET PassageRows /\ nextId' \in Nat \ {0}
    <3>1. /\ passages' \in [IndexedCalls -> PassageRows] /\ entry' \in [IndexedCalls -> Nat]
          /\ vectors' = {v \in vectors : v.id # passages[c].id} /\ nextId' = nextId + 1
        BY <1>4, <2>1, WriteShape
    <3>2. QED
        BY <3>1 DEF IndexShape
  <2>4. UNCHANGED <<archive, content, todo, oldModel, blurred, embedCache>>
    BY <1>4 DEF WritePassages, cacheVars
  <2>5. QED
    BY <2>2, <2>3, <2>4 DEF IndexShape
<1>5. ASSUME NEW w \in Workers, IndexFails(w), UNCHANGED cacheVars PROVE IndexShape'
  <2>1. tasks' \in [Workers -> WorkRecs]
    BY <1>5, CarriedTasks, RestTasks DEF IndexFails, WorkSteps
  <2>2. entry' \in [IndexedCalls -> Nat]
    <3>1. entry' = entry \/ entry' = [entry EXCEPT ![tasks[w].call] = 0]
        BY <1>5 DEF IndexFails
    <3>2. QED
        BY <1>0, <3>1 DEF IndexShape
  <2>3. blurred' \in BOOLEAN
    BY <1>5 DEF IndexFails, IndexShape
  <2>4. QED
    BY <1>5, <2>1, <2>2, <2>3 DEF IndexFails, IndexShape, cacheVars
<1>6. ASSUME NEW w \in Workers, ListForEmbedding(w), UNCHANGED cacheVars PROVE IndexShape'
  <2>1. {passages[tasks[w].call]} \ {NoPassage} \in SUBSET PassageRows
    BY <1>0 DEF IndexShape
  <2>2. tasks' \in [Workers -> WorkRecs]
    <3>1. ASSUME NEW b \in SUBSET PassageRows,
                 tasks' = [tasks EXCEPT ![w].at = "upsert", ![w].batch = b]
          PROVE  tasks' \in [Workers -> WorkRecs]
        BY <3>1, BatchTasks DEF WorkSteps
    <3>2. Carried(w, "next") => tasks' \in [Workers -> WorkRecs]
        BY CarriedTasks DEF WorkSteps
    <3>3. Rests(w) => tasks' \in [Workers -> WorkRecs]
        BY RestTasks
    <3>4. QED
        BY <1>6, <2>1, <3>1, <3>2, <3>3 DEF ListForEmbedding
  <2>3. QED
    BY <1>6, <2>2 DEF ListForEmbedding, IndexShape, cacheVars
<1>7. ASSUME NEW w \in Workers, Upsert(w), UNCHANGED cacheVars PROVE IndexShape'
  <2>1. tasks' \in [Workers -> WorkRecs]
    <3>1. w = "startup" => tasks' = [tasks EXCEPT ![w].at = "next", ![w].batch = {}]
        BY <1>7 DEF Upsert
    <3>2. w # "startup" => Rests(w)
        BY <1>7 DEF Upsert
    <3>3. w = "startup" => tasks' \in [Workers -> WorkRecs]
        BY <3>1, BatchTasks, {} \in SUBSET PassageRows DEF WorkSteps
    <3>4. QED
        BY <3>2, <3>3, RestTasks
  <2>2. vectors' \in SUBSET PassageRows
    BY <1>0, <1>7, UpsertedShape DEF Upsert
  <2>3. QED
    BY <1>7, <2>1, <2>2 DEF Upsert, IndexShape, cacheVars
<1>8. ASSUME ListPending, UNCHANGED cacheVars PROVE IndexShape'
    BY <1>8, StartupTasks DEF ListPending, IndexShape, cacheVars, WorkSteps, Pending
<1>9. ASSUME NextPending, UNCHANGED cacheVars PROVE IndexShape'
  <2>1. PICK c \in todo :
           /\ todo' = todo \ {c}
           /\ \/ tasks' = [tasks EXCEPT !["startup"] = [AtRest(c) EXCEPT !.at = "read"]]
              \/ UNCHANGED tasks
    BY <1>9 DEF NextPending
  <2>2. [AtRest(c) EXCEPT !.at = "read"] \in WorkRecs
    BY DEF AtRest, WorkRecs, WorkSteps, IndexShape
  <2>3. tasks' \in [Workers -> WorkRecs]
    BY <2>1, <2>2 DEF IndexShape
  <2>4. QED
    BY <1>9, <2>1, <2>3 DEF NextPending, IndexShape, cacheVars
<1>10. ASSUME EnsureModel, UNCHANGED cacheVars PROVE IndexShape'
  <2>1. tasks' \in [Workers -> WorkRecs]
    BY <1>10, StartupTasks, RestTasks, IndexConstants DEF EnsureModel, WorkSteps
  <2>2. vectors' \in SUBSET PassageRows
    BY <1>10 DEF EnsureModel, IndexShape
  <2>3. oldModel' \in BOOLEAN
    BY <1>10 DEF EnsureModel, IndexShape
  <2>4. blurred' \in BOOLEAN
    BY <1>10 DEF EnsureModel, IndexShape
  <2>5. QED
    BY <1>10, <2>1, <2>2, <2>3, <2>4 DEF EnsureModel, IndexShape, cacheVars
<1>11. ASSUME ListMissing, UNCHANGED cacheVars PROVE IndexShape'
  <2>1. Unembedded \in SUBSET PassageRows
    BY RowsAre DEF Unembedded
  <2>2. tasks' \in [Workers -> WorkRecs]
    BY <1>11, <2>1, BatchTasks, RestTasks, IndexConstants DEF ListMissing, WorkSteps
  <2>3. QED
    BY <1>11, <2>2 DEF ListMissing, IndexShape, cacheVars
<1>12. ASSUME FillMissing, UNCHANGED cacheVars PROVE IndexShape'
  <2>1. "startup" \in Workers /\ tasks["startup"] \in WorkRecs
    BY <1>0, IndexConstants
  <2>2. [tasks["startup"] EXCEPT !.at = "vectors", !.batch = {}] \in WorkRecs
    BY <2>1 DEF WorkRecs, WorkSteps
  <2>3. tasks' \in [Workers -> WorkRecs]
    BY <1>12, <2>1, <2>2, IndexConstants DEF FillMissing, IndexShape
  <2>4. vectors' \in SUBSET PassageRows
    BY <1>0, <1>12, <2>1, UpsertedShape DEF FillMissing
  <2>5. QED
    BY <1>12, <2>3, <2>4 DEF FillMissing, IndexShape, cacheVars
<1>13. ASSUME Restart, embedCache' = NoCache PROVE IndexShape'
  <2>1. \A w \in Workers :
          (IF w = "startup" THEN [AtRest(SomeCall) EXCEPT !.at = "start"] ELSE AtRest(SomeCall))
             \in WorkRecs
    BY IndexConstants DEF AtRest, WorkRecs, WorkSteps
  <2>2. tasks' \in [Workers -> WorkRecs]
    BY <1>13, <2>1 DEF Restart
  <2>3. embedCache'.rows = {} /\ blurred' \in BOOLEAN
    BY <1>13 DEF NoCache, Restart
  <2>4. QED
    BY <1>13, <2>2, <2>3 DEF Restart, IndexShape
<1>14. CASE ReadStamp
    BY <1>14 DEF ReadStamp, IndexShape, indexVars
<1>15. CASE LoadVectors
  <2>1. embedCache'.rows \in SUBSET PassageRows
    BY <1>15 DEF LoadVectors, IndexShape
  <2>2. QED
    BY <1>15, <2>1 DEF LoadVectors, IndexShape, indexVars
<1>16. CASE UNCHANGED <<indexVars, cacheVars>>
    BY <1>16 DEF IndexShape, indexVars, cacheVars
<1>17. QED
    BY <1>1, <1>2, <1>3, <1>4, <1>5, <1>6, <1>7, <1>8, <1>9, <1>10, <1>11, <1>12, <1>13, <1>14,
       <1>15, <1>16 DEF SearchNext, IndexNext

(* What a step does to the passages and their vectors. *)
RowGoes(c) ==
    /\ \A d \in IndexedCalls \ {c} : passages'[d] = passages[d]
    /\ vectors' = {v \in vectors : v.id # passages[c].id}

RowsStep ==
    \/ UNCHANGED <<passages, nextId, vectors>>
    \/ UNCHANGED <<passages, nextId>> /\ vectors' = {} /\ (vectors # {} => blurred')
    \/ UNCHANGED <<passages, nextId>> /\ \E w \in Workers : vectors' = Upserted(tasks[w].batch)
    \/ \E c \in IndexedCalls :
           /\ RowGoes(c)
           /\ \/ nextId' = nextId /\ passages'[c] = NoPassage
              \/ nextId' = nextId + 1 /\ passages'[c].id = nextId /\ passages'[c] # NoPassage

LEMMA RowsStepIs ==
    ASSUME IndexShape, [SearchNext]_<<indexVars, cacheVars>>
    PROVE  RowsStep
<1>1. ASSUME NEW c \in IndexedCalls, Edit(c) \/ RunEnds(c) PROVE RowsStep
    BY <1>1 DEF Edit, RunEnds, RowsStep
<1>2. ASSUME NEW c \in IndexedCalls, Reprocess(c) \/ DeleteIndexed(c) PROVE RowsStep
    BY <1>2, WithoutShape DEF Reprocess, DeleteIndexed, RowsStep, RowGoes
<1>3. ASSUME NEW w \in Workers, ReadCall(w) \/ IndexFails(w) \/ ListForEmbedding(w) PROVE RowsStep
    BY <1>3 DEF ReadCall, IndexFails, ListForEmbedding, RowsStep
<1>4. ASSUME NEW w \in Workers, WritePassages(w) PROVE RowsStep
  <2>1. PICK c \in IndexedCalls : c = tasks[w].call
    BY DEF IndexShape, WorkRecs
  <2>2. nextId' = nextId + 1 /\ RowGoes(c)
    BY <1>4, <2>1, WriteShape DEF RowGoes
  <2>3. passages'[c].id = nextId
    <3>1. passages'[c] = [id |-> nextId, of |-> tasks[w].seen]
        BY <1>4, <2>1, WriteShape
    <3>2. QED
        BY <3>1
  <2>4. passages'[c] # NoPassage
    BY <2>3, IndexConstants DEF IndexShape
  <2>5. QED
    BY <2>2, <2>3, <2>4 DEF RowsStep
<1>5. ASSUME NEW w \in Workers, Upsert(w) PROVE RowsStep
    BY <1>5 DEF Upsert, RowsStep
<1>6. ASSUME ListPending \/ NextPending \/ ListMissing PROVE RowsStep
    BY <1>6 DEF ListPending, NextPending, ListMissing, RowsStep
<1>7. ASSUME EnsureModel PROVE RowsStep
    BY <1>7 DEF EnsureModel, RowsStep
<1>8. ASSUME FillMissing PROVE RowsStep
    BY <1>8, IndexConstants DEF FillMissing, RowsStep
<1>9. ASSUME Restart \/ ReadStamp \/ LoadVectors PROVE RowsStep
    BY <1>9 DEF Restart, ReadStamp, LoadVectors, indexVars, RowsStep
<1>10. ASSUME UNCHANGED <<indexVars, cacheVars>> PROVE RowsStep
    BY <1>10 DEF indexVars, RowsStep
<1>11. QED
    BY <1>1, <1>2, <1>3, <1>4, <1>5, <1>6, <1>7, <1>8, <1>9, <1>10 DEF SearchNext, IndexNext

IdsInv == IdsFresh /\ VectorsOfTheirText /\ BatchesKnown

LEMMA RowsKnown == ASSUME IndexShape, IdsFresh PROVE \A row \in Rows : Known(row)
BY RowsAre, IndexConstants DEF IdsFresh, Known, IndexShape

\* A row that is new has a new id, so what is known stays true.
LEMMA NewRowsAreNew ==
    ASSUME IndexShape, IndexShape', IdsFresh, RowsStep
    PROVE  /\ nextId <= nextId' /\ \A row \in Rows' : row \in Rows \/ row.id >= nextId
           /\ \A v \in PassageRows : Known(v) => Known(v)'
           /\ IdsFresh'
<1>1. nextId \in Nat /\ nextId' \in Nat /\ nextId <= nextId'
    BY DEF RowsStep, IndexShape
<1>2. ASSUME NEW row \in Rows' PROVE row \in Rows \/ row.id >= nextId
  <2>1. PICK d \in IndexedCalls : row = passages'[d] /\ row # NoPassage
    BY RowsAre DEF Rows
  <2>2. CASE passages'[d] = passages[d]
    BY <2>1, <2>2 DEF Rows
  <2>3. CASE passages'[d] # passages[d]
    BY <1>1, <2>1, <2>3 DEF RowsStep, RowGoes, IndexShape
  <2>4. QED
    BY <2>2, <2>3
<1>3. ASSUME NEW v \in PassageRows, Known(v) PROVE Known(v)'
  <2>1. v.id \in Nat /\ v.id # 0 /\ v.id < nextId'
    BY <1>1, <1>3 DEF Known, PassageRows
  <2>2. ASSUME NEW row \in Rows', row.id = v.id PROVE row = v
    BY <1>1, <1>2, <1>3, <2>1, <2>2 DEF Known
  <2>3. QED
    BY <2>1, <2>2 DEF Known
<1>4. IdsFresh'
  <2>1. CASE UNCHANGED <<passages, nextId>>
    BY <2>1 DEF IdsFresh
  <2>2. ASSUME NEW c \in IndexedCalls, RowGoes(c),
               \/ nextId' = nextId /\ passages'[c] = NoPassage
               \/ nextId' = nextId + 1 /\ passages'[c].id = nextId /\ passages'[c] # NoPassage
        PROVE  IdsFresh'
    <3>1. \A d \in IndexedCalls : passages'[d] # NoPassage =>
              passages'[d].id # 0 /\ passages'[d].id < nextId'
        BY <1>1, <2>2, IndexConstants DEF IdsFresh, RowGoes, IndexShape, PassageRows
    <3>2. ASSUME NEW d \in IndexedCalls, NEW e \in IndexedCalls, d # e,
                 passages'[d].id = passages'[e].id
          PROVE  passages'[d] = NoPassage
      <4>1. \A x \in IndexedCalls \ {c} : passages'[x] = passages[x]
        BY <2>2 DEF RowGoes
      <4>2. passages'[d] # NoPassage /\ passages'[e] # NoPassage => passages'[d] = NoPassage
        BY <1>1, <2>2, <3>2, <4>1 DEF IdsFresh, IndexShape, PassageRows
      <4>3. passages'[e] = NoPassage => passages'[d] = NoPassage
        BY <3>1, <3>2, IndexConstants
      <4>4. QED
        BY <4>2, <4>3
    <3>3. QED
        BY <3>1, <3>2 DEF IdsFresh
  <2>3. QED
    BY <2>1, <2>2 DEF RowsStep
<1>5. QED
    BY <1>1, <1>2, <1>3, <1>4

\* What a task carries was read of the passages.
LEMMA BatchesRead ==
    ASSUME IndexShape, [SearchNext]_<<indexVars, cacheVars>>
    PROVE  \A w \in Workers : tasks'[w].batch \subseteq tasks[w].batch \cup Rows
<1> DEFINE Read == \A w \in Workers : tasks'[w].batch \subseteq tasks[w].batch \cup Rows
<1>1. ASSUME NEW c \in IndexedCalls, Edit(c) \/ RunEnds(c) PROVE Read
    BY <1>1, SpawnTasks, IndexConstants DEF Edit, RunEnds, Begins
<1>2. ASSUME NEW c \in IndexedCalls, Reprocess(c) \/ DeleteIndexed(c) PROVE Read
    BY <1>2 DEF Reprocess, DeleteIndexed
<1>3. ASSUME NEW w \in Workers, ReadCall(w) PROVE Read
    BY <1>3, ReadTasks
<1>4. ASSUME NEW w \in Workers, WritePassages(w) PROVE Read
  <2>1. Carried(w, "embed")
    BY <1>4 DEF WritePassages
  <2>2. QED
    BY <2>1, CarriedTasks DEF WorkSteps
<1>5. ASSUME NEW w \in Workers, IndexFails(w) PROVE Read
  <2>1. Carried(w, "next") \/ Rests(w)
    BY <1>5 DEF IndexFails
  <2>2. QED
    BY <2>1, CarriedTasks, RestTasks DEF WorkSteps
<1>6. ASSUME NEW w \in Workers, ListForEmbedding(w) PROVE Read
  <2>1. {passages[tasks[w].call]} \ {NoPassage} \in SUBSET Rows
    BY RowsAre DEF IndexShape, WorkRecs
  <2>2. \/ tasks' = [tasks EXCEPT ![w].at = "upsert",
                                  ![w].batch = {passages[tasks[w].call]} \ {NoPassage}]
        \/ Carried(w, "next") \/ Rests(w)
    BY <1>6 DEF ListForEmbedding
  <2>3. ASSUME NEW b \in SUBSET Rows, tasks' = [tasks EXCEPT ![w].at = "upsert", ![w].batch = b]
        PROVE  Read
    <3>1. b \in SUBSET PassageRows /\ "upsert" \in WorkSteps
        BY RowsAre DEF WorkSteps
    <3>2. tasks'[w].batch = b /\ \A v \in Workers \ {w} : tasks'[v] = tasks[v]
        BY <2>3, <3>1, BatchTasks, ZenonT(40)
    <3>3. QED
        BY <3>2
  <2>4. Carried(w, "next") \/ Rests(w) => Read
    BY CarriedTasks, RestTasks DEF WorkSteps
  <2>5. QED
    BY <2>1, <2>2, <2>3, <2>4
<1>7. ASSUME NEW w \in Workers, Upsert(w) PROVE Read
  <2>1. tasks' = [tasks EXCEPT ![w].at = "next", ![w].batch = {}] \/ Rests(w)
    BY <1>7 DEF Upsert
  <2>2. tasks' = [tasks EXCEPT ![w].at = "next", ![w].batch = {}] => Read
    BY BatchTasks, {} \in SUBSET PassageRows, ZenonT(40) DEF WorkSteps
  <2>3. QED
    BY <2>1, <2>2, RestTasks
<1>8. ASSUME ListPending PROVE Read
    BY <1>8, StartupTasks DEF ListPending, WorkSteps
<1>9. ASSUME NextPending PROVE Read
  <2>1. PICK c \in IndexedCalls :
           \/ tasks' = [tasks EXCEPT !["startup"] = [AtRest(c) EXCEPT !.at = "read"]]
           \/ UNCHANGED tasks
    BY <1>9 DEF NextPending, IndexShape
  <2>2. [AtRest(c) EXCEPT !.at = "read"].batch = {}
    BY DEF AtRest
  <2>3. QED
    BY <2>1, <2>2 DEF IndexShape
<1>10. ASSUME EnsureModel PROVE Read
  <2>1. Startup("vectors") \/ Rests("startup")
    BY <1>10 DEF EnsureModel
  <2>2. QED
    BY <2>1, StartupTasks, RestTasks, IndexConstants DEF WorkSteps
<1>11. ASSUME ListMissing PROVE Read
  <2>1. Unembedded \in SUBSET Rows
    BY DEF Unembedded
  <2>2. \/ tasks' = [tasks EXCEPT !["startup"].at = "fill", !["startup"].batch = Unembedded]
        \/ Rests("startup")
    BY <1>11 DEF ListMissing
  <2>3. ASSUME NEW b \in SUBSET Rows,
               tasks' = [tasks EXCEPT !["startup"].at = "fill", !["startup"].batch = b]
        PROVE  Read
    <3>1. b \in SUBSET PassageRows /\ "fill" \in WorkSteps /\ "startup" \in Workers
        BY RowsAre, IndexConstants DEF WorkSteps
    <3>2. /\ tasks'["startup"].batch = b
          /\ \A v \in Workers \ {"startup"} : tasks'[v] = tasks[v]
        BY <2>3, <3>1 DEF IndexShape, WorkRecs
    <3>3. QED
        BY <3>2
  <2>4. QED
    BY <2>1, <2>2, <2>3, RestTasks, IndexConstants, ZenonT(40)
<1>12. ASSUME FillMissing PROVE Read
  <2>1. tasks["startup"] \in WorkRecs /\ "startup" \in Workers
    BY IndexConstants DEF IndexShape
  <2>2. [tasks["startup"] EXCEPT !.at = "vectors", !.batch = {}].batch = {}
    BY <2>1 DEF WorkRecs
  <2>3. AtRest(SomeCall).batch = {}
    BY IndexConstants
  <2>4. PICK x : x.batch = {} /\ tasks' = [tasks EXCEPT !["startup"] = x]
    BY <1>12, <2>2, <2>3 DEF FillMissing
  <2>5. QED
    BY <2>1, <2>4 DEF IndexShape
<1>13. ASSUME Restart PROVE Read
  <2>1. \A w \in Workers :
          (IF w = "startup" THEN [AtRest(SomeCall) EXCEPT !.at = "start"] ELSE AtRest(SomeCall))
             .batch = {}
    BY DEF AtRest
  <2>2. QED
    BY <1>13, <2>1 DEF Restart
<1>14. ASSUME ReadStamp \/ LoadVectors \/ UNCHANGED <<indexVars, cacheVars>> PROVE Read
    BY <1>14 DEF ReadStamp, LoadVectors, indexVars
<1>15. QED
    BY <1>1, <1>2, <1>3, <1>4, <1>5, <1>6, <1>7, <1>8, <1>9, <1>10, <1>11, <1>12, <1>13, <1>14
       DEF SearchNext, IndexNext

LEMMA IdsInit == IndexInit => IdsInv
<1> SUFFICES ASSUME IndexInit PROVE IdsInv
    OBVIOUS
<1>1. \A c \in IndexedCalls : passages[c] = NoPassage
    BY DEF IndexInit
<1>2. \A w \in Workers : tasks[w].batch = {}
  <2>1. \A w \in Workers :
          (IF w = "startup" THEN [AtRest(SomeCall) EXCEPT !.at = "start"] ELSE AtRest(SomeCall))
             .batch = {}
    BY DEF AtRest
  <2>2. QED
    BY <2>1 DEF IndexInit
<1>3. vectors = {}
    BY DEF IndexInit
<1>4. QED
    BY <1>1, <1>2, <1>3 DEF IdsInv, IdsFresh, VectorsOfTheirText, BatchesKnown

LEMMA IdsStep ==
    ASSUME IndexShape, IndexShape', IdsInv, [SearchNext]_<<indexVars, cacheVars>>
    PROVE  IdsInv'
<1>1. RowsStep
    BY RowsStepIs
<1>2. IdsFresh' /\ \A v \in PassageRows : Known(v) => Known(v)'
    BY <1>1, NewRowsAreNew DEF IdsInv
<1>3. BatchesKnown'
  <2> SUFFICES ASSUME NEW w \in Workers, NEW v \in tasks'[w].batch PROVE Known(v)'
    BY DEF BatchesKnown
  <2>1. v \in tasks[w].batch \cup Rows
    BY BatchesRead
  <2>2. Known(v) /\ v \in PassageRows
    BY <2>1, RowsKnown, RowsAre DEF IdsInv, BatchesKnown, IndexShape, WorkRecs
  <2>3. QED
    BY <1>2, <2>2
<1>4. VectorsOfTheirText'
  <2> SUFFICES ASSUME NEW v \in vectors' PROVE v \in Rows'
    BY DEF VectorsOfTheirText
  <2>1. UNCHANGED passages => Rows' = Rows
    BY DEF Rows
  <2>2. CASE UNCHANGED <<passages, nextId, vectors>>
    BY <2>1, <2>2 DEF IdsInv, VectorsOfTheirText
  <2>3. CASE vectors' = {}
    BY <2>3
  <2>4. ASSUME UNCHANGED passages, NEW w \in Workers, vectors' = Upserted(tasks[w].batch)
        PROVE  v \in Rows'
    <3>1. CASE v \in vectors
        BY <2>1, <2>4, <3>1 DEF IdsInv, VectorsOfTheirText
    <3>2. CASE v \notin vectors
      <4>1. v \in tasks[w].batch /\ \E r \in Rows : r.id = v.id
        BY <2>4, <3>2 DEF Upserted
      <4>2. v \in Rows
        BY <4>1 DEF IdsInv, BatchesKnown, Known
      <4>3. QED
        BY <2>1, <2>4, <4>2
    <3>3. QED
        BY <3>1, <3>2
  <2>5. ASSUME NEW c \in IndexedCalls, RowGoes(c) PROVE v \in Rows'
    <3>1. v \in vectors /\ v.id # passages[c].id
        BY <2>5 DEF RowGoes
    <3>2. PICK d \in IndexedCalls : v = passages[d] /\ v # NoPassage
        BY <3>1, RowsAre DEF IdsInv, VectorsOfTheirText
    <3>3. passages'[d] = v
        BY <2>5, <3>1, <3>2 DEF RowGoes
    <3>4. QED
        BY <3>2, <3>3 DEF Rows
  <2>6. QED
    BY <1>1, <2>2, <2>3, <2>4, <2>5 DEF RowsStep
<1>5. QED
    BY <1>2, <1>3, <1>4 DEF IdsInv

LEMMA EntryTellsStep ==
    ASSUME IndexShape, IndexShape', IdsFresh, EntryTells, [SearchNext]_<<indexVars, cacheVars>>
    PROVE  EntryTells'
<1>0. \A w \in Workers : tasks[w].call \in IndexedCalls
    BY DEF IndexShape, WorkRecs
<1>1. CASE UNCHANGED <<entry, passages, blurred>>
    BY <1>1 DEF EntryTells
<1>2. ASSUME NEW c \in IndexedCalls, Edit(c) \/ RunEnds(c) PROVE EntryTells'
    BY <1>1, <1>2 DEF Edit, RunEnds
<1>3. ASSUME NEW c \in IndexedCalls, Reprocess(c) \/ DeleteIndexed(c) PROVE EntryTells'
  <2>1. WithoutPassage(c) /\ blurred' = blurred
    BY <1>3 DEF Reprocess, DeleteIndexed
  <2>2. QED
    BY <2>1, WithoutShape, IndexConstants DEF EntryTells
<1>4. ASSUME NEW w \in Workers, ReadCall(w) \/ ListForEmbedding(w) \/ Upsert(w) PROVE EntryTells'
    BY <1>1, <1>4 DEF ReadCall, ListForEmbedding, Upsert
<1>5. ASSUME NEW w \in Workers, WritePassages(w) PROVE EntryTells'
  <2>1. PICK c \in IndexedCalls : c = tasks[w].call
    BY <1>0
  <2>2. passages'[c].id = nextId
    <3>1. passages'[c] = [id |-> nextId, of |-> tasks[w].seen]
        BY <1>5, <2>1, WriteShape
    <3>2. QED
        BY <3>1
  <2>3. \A d \in IndexedCalls \ {c} : passages'[d] = passages[d]
    BY <1>5, <2>1, WriteShape
  <2>4. entry'[c] = nextId /\ \A d \in IndexedCalls \ {c} : entry'[d] = entry[d]
    BY <1>5, <2>1, WriteShape
  <2>5. blurred' = blurred
    BY <1>5 DEF WritePassages
  <2>6. QED
    BY <2>2, <2>3, <2>4, <2>5 DEF EntryTells
<1>6. ASSUME NEW w \in Workers, IndexFails(w) PROVE EntryTells'
  <2>1. CASE w = "startup"
    BY <1>1, <1>6, <2>1 DEF IndexFails
  <2>2. CASE w # "startup"
    <3>1. PICK c \in IndexedCalls : c = tasks[w].call
        BY <1>0
    <3>2. /\ entry' = [entry EXCEPT ![c] = 0] /\ passages' = passages
          /\ blurred' = (blurred \/ entry[c] # 0)
        BY <1>6, <2>2, <3>1 DEF IndexFails
    <3>3. \A d \in IndexedCalls : entry'[d] = IF d = c THEN 0 ELSE entry[d]
        BY <3>2 DEF IndexShape
    <3>4. \A d \in IndexedCalls : entry'[d] \in {0, passages'[d].id}
        BY <3>2, <3>3 DEF EntryTells
    <3>5. ~blurred' => ~blurred /\ entry[c] = 0
        BY <3>2
    <3>6. \A d \in IndexedCalls : ~blurred' => entry'[d] = passages'[d].id
        BY <3>2, <3>3, <3>5 DEF EntryTells
    <3>7. QED
        BY <3>4, <3>6 DEF EntryTells
  <2>3. QED
    BY <2>1, <2>2
<1>7. ASSUME ListPending \/ NextPending \/ ListMissing \/ FillMissing PROVE EntryTells'
    BY <1>1, <1>7 DEF ListPending, NextPending, ListMissing, FillMissing
<1>8. ASSUME EnsureModel PROVE EntryTells'
  <2>1. UNCHANGED <<entry, passages>>
    BY <1>8 DEF EnsureModel
  <2>2. ASSUME blurred PROVE blurred'
    BY <1>8, <2>2 DEF EnsureModel
  <2>3. QED
    BY <2>1, <2>2 DEF EntryTells
<1>9. ASSUME Restart PROVE EntryTells'
  <2>1. UNCHANGED <<entry, passages>>
    BY <1>9 DEF Restart
  <2>2. ~blurred' => \A c \in IndexedCalls : passages[c] = NoPassage \/ entry[c] # 0
    BY <1>9 DEF Restart
  <2>3. \A c \in IndexedCalls : passages[c] = NoPassage => entry[c] = passages[c].id
    BY IndexConstants DEF EntryTells
  <2>4. \A c \in IndexedCalls : ~blurred' => entry[c] = passages[c].id
    BY <2>2, <2>3 DEF EntryTells
  <2>5. QED
    BY <2>1, <2>4 DEF EntryTells
<1>10. ASSUME ReadStamp \/ LoadVectors \/ UNCHANGED <<indexVars, cacheVars>> PROVE EntryTells'
    BY <1>1, <1>10 DEF ReadStamp, LoadVectors, indexVars
<1>11. QED
    BY <1>1, <1>2, <1>3, <1>4, <1>5, <1>6, <1>7, <1>8, <1>9, <1>10 DEF SearchNext, IndexNext

(* Who works on a call. *)
WorkInv == WorkKnown /\ IndexFresh

Works(w) == tasks[w].at \in {"read", "write"}

\* A step that leaves alone who works on what.
LEMMA SameWork ==
    ASSUME UNCHANGED <<archive, content, passages, entry, missed>>, WorkInv,
           \A w \in Workers : tasks'[w] = tasks[w] \/ (~Works(w) /\ ~Works(w)')
    PROVE  WorkInv'
<1>1. \A c \in IndexedCalls : WorksOn(c)' = WorksOn(c)
    BY DEF WorksOn, Works
<1>2. \A c \in IndexedCalls : \A w \in WorksOn(c) : tasks'[w] = tasks[w]
    BY DEF WorksOn, Works
<1>3. WorkKnown'
  <2> SUFFICES ASSUME NEW c \in IndexedCalls, archive[c] # "gone", c \notin missed
               PROVE  /\ \A w, v \in WorksOn(c) : w = v
                      /\ \A w \in WorksOn(c) :
                             tasks'[w].at = "write" => tasks'[w].seen = content[c]
                      /\ "startup" \in WorksOn(c) => entry[c] = 0
    BY <1>1 DEF WorkKnown
  <2>1. QED
    BY <1>2 DEF WorkInv, WorkKnown
<1>4. IndexFresh'
    BY <1>1 DEF WorkInv, IndexFresh
<1>5. QED
    BY <1>3, <1>4 DEF WorkInv

\* A task begins to work on a call that nobody works on, or the call is missed.
LEMMA WorkBegins ==
    ASSUME IndexShape, WorkInv, NEW c \in IndexedCalls, NEW j \in Workers,
           ~Works(j), Begins(j, c),
           j = "startup" => entry[c] = 0,
           missed' = IF WorksOn(c) = {} THEN missed ELSE missed \cup {c},
           UNCHANGED <<passages, entry>>,
           \A d \in IndexedCalls \ {c} : content'[d] = content[d] /\ archive'[d] = archive[d]
    PROVE  WorkInv'
<1>1. WorksOn(c)' = WorksOn(c) \cup {j}
    BY DEF Begins, WorksOn, Works
<1>2. \A d \in IndexedCalls \ {c} : WorksOn(d)' = WorksOn(d)
    BY DEF Begins, WorksOn, Works
<1>3. \A d \in IndexedCalls \ {c} : d \in missed <=> d \in missed'
    OBVIOUS
<1>4. c \notin missed' => WorksOn(c) = {} /\ c \notin missed
    OBVIOUS
<1>5. WorkKnown'
  <2> SUFFICES ASSUME NEW d \in IndexedCalls, archive'[d] # "gone", d \notin missed'
               PROVE  /\ \A w, v \in WorksOn(d)' : w = v
                      /\ \A w \in WorksOn(d)' :
                             tasks'[w].at = "write" => tasks'[w].seen = content'[d]
                      /\ "startup" \in WorksOn(d)' => entry'[d] = 0
    BY DEF WorkKnown
  <2>1. CASE d = c
    <3>1. WorksOn(d)' = {j}
        BY <1>1, <1>4, <2>1
    <3>2. tasks'[j].at = "read"
        BY DEF Begins
    <3>3. QED
        BY <2>1, <3>1, <3>2
  <2>2. CASE d # c
    <3>1. \A w \in WorksOn(d) : tasks'[w] = tasks[w]
        BY DEF Begins, WorksOn, Works
    <3>2. archive[d] # "gone" /\ d \notin missed
        BY <1>3, <2>2
    <3>3. /\ \A w, v \in WorksOn(d) : w = v
          /\ \A w \in WorksOn(d) : tasks[w].at = "write" => tasks[w].seen = content[d]
          /\ "startup" \in WorksOn(d) => entry[d] = 0
        BY <3>2 DEF WorkInv, WorkKnown
    <3>4. WorksOn(d)' = WorksOn(d) /\ content'[d] = content[d] /\ entry'[d] = entry[d]
        BY <1>2, <2>2
    <3>5. QED
        BY <3>1, <3>3, <3>4
  <2>3. QED
    BY <2>1, <2>2
<1>6. IndexFresh'
  <2> SUFFICES ASSUME NEW d \in IndexedCalls, archive'[d] = "ready", entry'[d] # 0,
                      WorksOn(d)' = {}, d \notin missed'
               PROVE  passages'[d].of = content'[d]
    BY DEF IndexFresh
  <2>1. d # c
    BY <1>1
  <2>2. QED
    BY <1>2, <1>3, <2>1 DEF WorkInv, IndexFresh
<1>7. QED
    BY <1>5, <1>6 DEF WorkInv

LEMMA WorkStep ==
    ASSUME IndexShape, IndexShape', EntryTells, WorkInv, [SearchNext]_<<indexVars, cacheVars>>
    PROVE  WorkInv'
<1>0. \A w \in Workers : tasks[w] \in WorkRecs /\ tasks[w].call \in IndexedCalls
    BY DEF IndexShape, WorkRecs
<1>1. ASSUME NEW c \in IndexedCalls, Edit(c) \/ RunEnds(c) PROVE WorkInv'
  <2>1. SpawnIndex(c) /\ UNCHANGED <<passages, entry>>
    BY <1>1 DEF Edit, RunEnds
  <2>2. \A d \in IndexedCalls \ {c} : content'[d] = content[d] /\ archive'[d] = archive[d]
    BY <1>1 DEF Edit, RunEnds, IndexShape
  <2>3. PICK j \in IndexJobs : tasks[j].at = "idle" /\ Begins(j, c)
    BY <2>1, SpawnTasks
  <2>4. missed' = IF WorksOn(c) = {} THEN missed ELSE missed \cup {c}
    BY <2>1, SpawnTasks
  <2>5. j \in Workers /\ j # "startup" /\ ~Works(j)
    BY <2>3, IndexConstants DEF Works
  <2>6. QED
    BY <2>1, <2>2, <2>3, <2>4, <2>5, WorkBegins
<1>2. ASSUME NEW c \in IndexedCalls, Reprocess(c) PROVE WorkInv'
  <2>1. /\ archive' = [archive EXCEPT ![c] = "busy"] /\ archive[c] = "ready"
        /\ UNCHANGED <<content, tasks, missed>> /\ WithoutPassage(c)
    BY <1>2 DEF Reprocess
  <2>2. \A d \in IndexedCalls : WorksOn(d)' = WorksOn(d)
    BY <2>1 DEF WorksOn
  <2>3. /\ entry'[c] = 0 /\ archive'[c] = "busy"
        /\ \A d \in IndexedCalls \ {c} : entry'[d] = entry[d] /\ archive'[d] = archive[d]
    BY <2>1, WithoutShape DEF IndexShape
  <2>4. \A d \in IndexedCalls \ {c} : passages'[d] = passages[d]
    BY <2>1, WithoutShape
  <2>5. WorkKnown'
    BY <2>1, <2>2, <2>3 DEF WorkKnown, WorkInv
  <2>6. IndexFresh'
    BY <2>1, <2>2, <2>3, <2>4 DEF IndexFresh, WorkInv
  <2>7. QED
    BY <2>5, <2>6 DEF WorkInv
<1>3. ASSUME NEW c \in IndexedCalls, DeleteIndexed(c) PROVE WorkInv'
  <2>1. /\ archive' = [archive EXCEPT ![c] = "gone"] /\ content' = [content EXCEPT ![c] = 1]
        /\ missed' = missed \ {c} /\ UNCHANGED tasks /\ WithoutPassage(c)
    BY <1>3 DEF DeleteIndexed
  <2>2. \A d \in IndexedCalls : WorksOn(d)' = WorksOn(d)
    BY <2>1 DEF WorksOn
  <2>3. archive'[c] = "gone"
    BY <2>1 DEF IndexShape
  <2>4. \A d \in IndexedCalls \ {c} : archive'[d] = archive[d] /\ content'[d] = content[d]
    BY <2>1 DEF IndexShape
  <2>5. \A d \in IndexedCalls \ {c} : entry'[d] = entry[d]
    BY <2>1, WithoutShape
  <2>6. \A d \in IndexedCalls \ {c} : passages'[d] = passages[d]
    BY <2>1, WithoutShape
  <2>7. WorkKnown'
    BY <2>1, <2>2, <2>3, <2>4, <2>5 DEF WorkKnown, WorkInv
  <2>8. IndexFresh'
    BY <2>1, <2>2, <2>3, <2>4, <2>5, <2>6 DEF IndexFresh, WorkInv
  <2>9. QED
    BY <2>7, <2>8 DEF WorkInv
<1>4. ASSUME NEW w \in Workers, ReadCall(w) PROVE WorkInv'
  <2>1. /\ Works(w) /\ tasks'[w].at = "write" /\ tasks'[w].call = tasks[w].call
        /\ tasks'[w].seen = content[tasks[w].call]
        /\ \A v \in Workers \ {w} : tasks'[v] = tasks[v]
    BY <1>4, ReadTasks DEF ReadCall, Works
  <2>2. UNCHANGED <<archive, content, passages, entry, missed>>
    BY <1>4 DEF ReadCall
  <2>3. \A d \in IndexedCalls : WorksOn(d)' = WorksOn(d)
    BY <2>1 DEF WorksOn, Works
  <2>4. WorkKnown'
    <3> SUFFICES ASSUME NEW d \in IndexedCalls, archive[d] # "gone", d \notin missed
                 PROVE  /\ \A u, v \in WorksOn(d) : u = v
                        /\ \A u \in WorksOn(d) :
                               tasks'[u].at = "write" => tasks'[u].seen = content[d]
                        /\ "startup" \in WorksOn(d) => entry[d] = 0
        BY <2>2, <2>3 DEF WorkKnown
    <3>1. ASSUME NEW u \in WorksOn(d), tasks'[u].at = "write" PROVE tasks'[u].seen = content[d]
      <4>1. CASE u = w
        BY <2>1, <4>1 DEF WorksOn
      <4>2. CASE u # w
        BY <2>1, <3>1, <4>2 DEF WorksOn, WorkInv, WorkKnown
      <4>3. QED
        BY <4>1, <4>2
    <3>2. QED
        BY <3>1 DEF WorkInv, WorkKnown
  <2>5. IndexFresh'
    BY <2>2, <2>3 DEF WorkInv, IndexFresh
  <2>6. QED
    BY <2>4, <2>5 DEF WorkInv
<1>5. ASSUME NEW w \in Workers, WritePassages(w) PROVE WorkInv'
  <2>1. PICK c \in IndexedCalls : c = tasks[w].call
    BY <1>0
  <2>2. /\ passages'[c] = [id |-> nextId, of |-> tasks[w].seen] /\ entry'[c] = nextId
        /\ archive[c] # "gone" /\ tasks[w].at = "write" /\ Carried(w, "embed")
        /\ missed' = IF WorksOn(c) = {w} /\ tasks[w].seen = content[c] THEN missed \ {c}
                     ELSE missed
    BY <1>5, <2>1, WriteShape
  <2>3. \A d \in IndexedCalls \ {c} : passages'[d] = passages[d]
    BY <1>5, <2>1, WriteShape
  <2>4. \A d \in IndexedCalls \ {c} : entry'[d] = entry[d]
    BY <1>5, <2>1, WriteShape
  <2>5. UNCHANGED <<archive, content>>
    BY <1>5 DEF WritePassages
  <2>6. tasks'[w].at = "embed" /\ \A v \in Workers \ {w} : tasks'[v] = tasks[v]
    BY <2>2, CarriedTasks DEF WorkSteps
  <2>7. WorksOn(c)' = WorksOn(c) \ {w} /\ w \in WorksOn(c)
    BY <2>1, <2>2, <2>6 DEF WorksOn
  <2>8. \A d \in IndexedCalls \ {c} : WorksOn(d)' = WorksOn(d)
    BY <2>1, <2>6 DEF WorksOn
  <2>9. \A d \in IndexedCalls : \A v \in WorksOn(d)' : tasks'[v] = tasks[v]
    BY <2>6 DEF WorksOn
  <2>10. \A d \in IndexedCalls \ {c} : d \in missed <=> d \in missed'
    BY <2>2
  <2>11. c \notin missed' => WorksOn(c) = {w} /\ tasks[w].seen = content[c]
    <3>1. CASE c \in missed
        BY <2>2, <3>1
    <3>2. CASE c \notin missed
        BY <2>2, <2>7, <3>2 DEF WorkInv, WorkKnown
    <3>3. QED
        BY <3>1, <3>2
  <2>12. WorkKnown'
    <3> SUFFICES ASSUME NEW d \in IndexedCalls, archive'[d] # "gone", d \notin missed'
                 PROVE  /\ \A u, v \in WorksOn(d)' : u = v
                        /\ \A u \in WorksOn(d)' :
                               tasks'[u].at = "write" => tasks'[u].seen = content'[d]
                        /\ "startup" \in WorksOn(d)' => entry'[d] = 0
        BY DEF WorkKnown
    <3>1. CASE d = c
        BY <2>7, <2>11, <3>1
    <3>2. CASE d # c
      <4>1. archive[d] # "gone" /\ d \notin missed /\ WorksOn(d)' = WorksOn(d)
            /\ entry'[d] = entry[d] /\ content'[d] = content[d]
        BY <2>4, <2>5, <2>8, <2>10, <3>2
      <4>2. QED
        BY <2>9, <4>1 DEF WorkInv, WorkKnown
    <3>3. QED
        BY <3>1, <3>2
  <2>13. IndexFresh'
    <3> SUFFICES ASSUME NEW d \in IndexedCalls, archive'[d] = "ready", entry'[d] # 0,
                        WorksOn(d)' = {}, d \notin missed'
                 PROVE  passages'[d].of = content'[d]
        BY DEF IndexFresh
    <3>1. CASE d = c
      <4>1. passages'[d].of = tasks[w].seen
        BY <2>2, <3>1
      <4>2. QED
        BY <2>5, <2>11, <3>1, <4>1
    <3>2. CASE d # c
      <4>1. archive[d] = "ready" /\ d \notin missed /\ WorksOn(d) = {} /\ entry[d] # 0
            /\ content'[d] = content[d]
        BY <2>4, <2>5, <2>8, <2>10, <3>2
      <4>2. passages'[d] = passages[d]
        BY <2>3, <3>2
      <4>3. QED
        BY <4>1, <4>2 DEF WorkInv, IndexFresh
    <3>3. QED
        BY <3>1, <3>2
  <2>14. QED
    BY <2>12, <2>13 DEF WorkInv
<1>6. ASSUME NEW w \in Workers, IndexFails(w) PROVE WorkInv'
  <2>1. PICK c \in IndexedCalls : c = tasks[w].call
    BY <1>0
  <2>2. UNCHANGED <<archive, content, passages, missed>> /\ w \in WorksOn(c)
    BY <1>6, <2>1 DEF IndexFails, WorksOn
  <2>3. ~Works(w)' /\ \A v \in Workers \ {w} : tasks'[v] = tasks[v]
    <3>1. Carried(w, "next") \/ Rests(w)
        BY <1>6 DEF IndexFails
    <3>2. QED
        BY <3>1, CarriedTasks, RestTasks DEF WorkSteps, Works
  <2>4. /\ \A d \in IndexedCalls \ {c} : entry'[d] = entry[d]
        /\ entry'[c] = 0 \/ (w = "startup" /\ entry'[c] = entry[c])
    <3>1. CASE w = "startup"
        BY <1>6, <2>1, <3>1 DEF IndexFails
    <3>2. CASE w # "startup"
      <4>1. entry' = [entry EXCEPT ![c] = 0]
        BY <1>6, <2>1, <3>2 DEF IndexFails
      <4>2. QED
        BY <4>1 DEF IndexShape
    <3>3. QED
        BY <3>1, <3>2
  <2>5. /\ \A d \in IndexedCalls \ {c} : WorksOn(d)' = WorksOn(d)
        /\ WorksOn(c)' \subseteq WorksOn(c)
    BY <2>1, <2>3 DEF WorksOn, Works
  <2>6. \A d \in IndexedCalls : \A v \in WorksOn(d)' : tasks'[v] = tasks[v]
    BY <2>3 DEF WorksOn, Works
  <2>7. archive[c] # "gone" /\ c \notin missed => entry'[c] = 0
    BY <2>2, <2>4 DEF WorkInv, WorkKnown
  <2>8. WorkKnown'
    <3> SUFFICES ASSUME NEW d \in IndexedCalls, archive[d] # "gone", d \notin missed
                 PROVE  /\ \A u, v \in WorksOn(d)' : u = v
                        /\ \A u \in WorksOn(d)' :
                               tasks'[u].at = "write" => tasks'[u].seen = content[d]
                        /\ "startup" \in WorksOn(d)' => entry'[d] = 0
        BY <2>2 DEF WorkKnown
    <3>1. WorksOn(d)' \subseteq WorksOn(d)
        BY <2>5
    <3>2. entry[d] = 0 => entry'[d] = 0
        BY <2>4
    <3>3. QED
        BY <2>6, <3>1, <3>2 DEF WorkInv, WorkKnown
  <2>9. IndexFresh'
    <3> SUFFICES ASSUME NEW d \in IndexedCalls, archive[d] = "ready", entry'[d] # 0,
                        WorksOn(d)' = {}, d \notin missed
                 PROVE  passages[d].of = content[d]
        BY <2>2 DEF IndexFresh
    <3>1. d # c
        BY <2>7
    <3>2. QED
        BY <2>4, <2>5, <3>1 DEF WorkInv, IndexFresh
  <2>10. QED
    BY <2>8, <2>9 DEF WorkInv
<1>7. ASSUME NEW w \in Workers, ListForEmbedding(w) PROVE WorkInv'
  <2>1. ~Works(w) /\ UNCHANGED <<archive, content, passages, entry, missed>>
    BY <1>7 DEF ListForEmbedding, Works
  <2>2. ~Works(w)' /\ \A v \in Workers \ {w} : tasks'[v] = tasks[v]
    <3>1. {passages[tasks[w].call]} \ {NoPassage} \in SUBSET PassageRows
        BY <1>0 DEF IndexShape
    <3>2. ASSUME NEW b \in SUBSET PassageRows,
                 tasks' = [tasks EXCEPT ![w].at = "upsert", ![w].batch = b]
          PROVE  ~Works(w)' /\ \A v \in Workers \ {w} : tasks'[v] = tasks[v]
        BY <3>2, BatchTasks DEF WorkSteps, Works
    <3>3. Carried(w, "next") => ~Works(w)' /\ \A v \in Workers \ {w} : tasks'[v] = tasks[v]
        BY CarriedTasks DEF WorkSteps, Works
    <3>4. Rests(w) => ~Works(w)' /\ \A v \in Workers \ {w} : tasks'[v] = tasks[v]
        BY RestTasks DEF Works
    <3>5. QED
        BY <1>7, <3>1, <3>2, <3>3, <3>4 DEF ListForEmbedding
  <2>3. QED
    BY <2>1, <2>2, SameWork
<1>8. ASSUME NEW w \in Workers, Upsert(w) PROVE WorkInv'
  <2>1. ~Works(w) /\ UNCHANGED <<archive, content, passages, entry, missed>>
    BY <1>8 DEF Upsert, Works
  <2>2. ~Works(w)' /\ \A v \in Workers \ {w} : tasks'[v] = tasks[v]
    <3>1. tasks' = [tasks EXCEPT ![w].at = "next", ![w].batch = {}] \/ Rests(w)
        BY <1>8 DEF Upsert
    <3>2. tasks' = [tasks EXCEPT ![w].at = "next", ![w].batch = {}] =>
              ~Works(w)' /\ \A v \in Workers \ {w} : tasks'[v] = tasks[v]
        BY BatchTasks, {} \in SUBSET PassageRows DEF WorkSteps, Works
    <3>3. Rests(w) => ~Works(w)' /\ \A v \in Workers \ {w} : tasks'[v] = tasks[v]
        BY RestTasks DEF Works
    <3>4. QED
        BY <3>1, <3>2, <3>3
  <2>3. QED
    BY <2>1, <2>2, SameWork
<1>9. ASSUME ListPending PROVE WorkInv'
  <2>1. ~Works("startup") /\ UNCHANGED <<archive, content, passages, entry, missed>>
    BY <1>9 DEF ListPending, Works
  <2>2. ~Works("startup")' /\ \A v \in Workers \ {"startup"} : tasks'[v] = tasks[v]
    BY <1>9, StartupTasks DEF ListPending, WorkSteps, Works
  <2>3. QED
    BY <2>1, <2>2, SameWork, IndexConstants
<1>10. ASSUME NextPending PROVE WorkInv'
  <2>1. UNCHANGED <<archive, content, passages, entry>> /\ tasks["startup"].at = "next"
    BY <1>10 DEF NextPending
  <2>2. CASE UNCHANGED <<tasks, missed>>
    BY <2>1, <2>2, SameWork
  <2>3. ASSUME NEW c \in todo, c \in Pending,
               tasks' = [tasks EXCEPT !["startup"] = [AtRest(c) EXCEPT !.at = "read"]],
               missed' = IF WorksOn(c) = {} THEN missed ELSE missed \cup {c}
        PROVE  WorkInv'
    <3>1. c \in IndexedCalls /\ entry[c] = 0 /\ "startup" \in Workers
        BY <2>3, IndexConstants DEF Pending
    <3>2. [AtRest(c) EXCEPT !.at = "read"] \in WorkRecs
        BY <3>1 DEF AtRest, WorkRecs, WorkSteps
    <3>3. Begins("startup", c)
        BY <2>3, <3>1, <3>2 DEF Begins, IndexShape, AtRest
    <3>4. ~Works("startup")
        BY <2>1 DEF Works
    <3>5. \A d \in IndexedCalls \ {c} : content'[d] = content[d] /\ archive'[d] = archive[d]
        BY <2>1
    <3>6. QED
        BY <2>1, <2>3, <3>1, <3>3, <3>4, <3>5, WorkBegins
  <2>4. QED
    BY <1>10, <2>2, <2>3 DEF NextPending
<1>11. ASSUME EnsureModel PROVE WorkInv'
  <2>1. ~Works("startup") /\ UNCHANGED <<archive, content, passages, entry, missed>>
    BY <1>11 DEF EnsureModel, Works
  <2>2. Startup("vectors") \/ Rests("startup")
    BY <1>11 DEF EnsureModel
  <2>3. ~Works("startup")' /\ \A v \in Workers \ {"startup"} : tasks'[v] = tasks[v]
    BY <2>2, StartupTasks, RestTasks, IndexConstants DEF WorkSteps, Works
  <2>4. QED
    BY <2>1, <2>3, SameWork, IndexConstants
<1>12. ASSUME ListMissing PROVE WorkInv'
  <2>1. ~Works("startup") /\ UNCHANGED <<archive, content, passages, entry, missed>>
    BY <1>12 DEF ListMissing, Works
  <2>2. Unembedded \in SUBSET PassageRows
    BY RowsAre DEF Unembedded
  <2>3. ~Works("startup")' /\ \A v \in Workers \ {"startup"} : tasks'[v] = tasks[v]
    BY <1>12, <2>2, BatchTasks, RestTasks, IndexConstants DEF ListMissing, WorkSteps, Works
  <2>4. QED
    BY <2>1, <2>3, SameWork, IndexConstants
<1>13. ASSUME FillMissing PROVE WorkInv'
  <2>1. ~Works("startup") /\ UNCHANGED <<archive, content, passages, entry, missed>>
    BY <1>13 DEF FillMissing, Works
  <2>2. tasks["startup"] \in WorkRecs /\ "startup" \in Workers
    BY <1>0, IndexConstants
  <2>3. [tasks["startup"] EXCEPT !.at = "vectors", !.batch = {}].at = "vectors"
    BY <2>2 DEF WorkRecs
  <2>4. AtRest(SomeCall).at = "idle"
    BY IndexConstants
  <2>5. \E x : ~(x.at \in {"read", "write"}) /\ tasks' = [tasks EXCEPT !["startup"] = x]
    <3>1. [tasks["startup"] EXCEPT !.at = "vectors", !.batch = {}].at \notin {"read", "write"}
        BY <2>3
    <3>2. AtRest(SomeCall).at \notin {"read", "write"}
        BY <2>4
    <3>3. QED
        BY <1>13, <3>1, <3>2 DEF FillMissing
  <2>6. ~Works("startup")' /\ \A v \in Workers \ {"startup"} : tasks'[v] = tasks[v]
    BY <2>2, <2>5 DEF IndexShape, Works
  <2>7. QED
    BY <2>1, <2>6, SameWork, IndexConstants
<1>14. ASSUME Restart PROVE WorkInv'
  <2>1. \A w \in Workers : ~Works(w)'
    <3>1. \A w \in Workers :
            (IF w = "startup" THEN [AtRest(SomeCall) EXCEPT !.at = "start"]
             ELSE AtRest(SomeCall)).at \notin {"read", "write"}
        BY DEF AtRest
    <3>2. QED
        BY <1>14, <3>1 DEF Restart, Works
  <2>2. \A c \in IndexedCalls : WorksOn(c)' = {}
    BY <2>1 DEF WorksOn, Works
  <2>3. UNCHANGED <<archive, content, passages, entry>>
    BY <1>14 DEF Restart
  <2>4. \A c \in IndexedCalls : c \notin missed' => c \notin missed /\ WorksOn(c) = {}
    BY <1>14 DEF Restart
  <2>5. WorkKnown'
    BY <2>2 DEF WorkKnown
  <2>6. IndexFresh'
    BY <2>3, <2>4 DEF WorkInv, IndexFresh
  <2>7. QED
    BY <2>5, <2>6 DEF WorkInv
<1>15. ASSUME ReadStamp \/ LoadVectors \/ UNCHANGED <<indexVars, cacheVars>> PROVE WorkInv'
  <2>1. UNCHANGED <<archive, content, passages, entry, missed, tasks>>
    BY <1>15 DEF ReadStamp, LoadVectors, indexVars
  <2>2. QED
    BY <2>1, SameWork
<1>16. QED
    BY <1>1, <1>2, <1>3, <1>4, <1>5, <1>6, <1>7, <1>8, <1>9, <1>10, <1>11, <1>12, <1>13, <1>14,
       <1>15 DEF SearchNext, IndexNext

LEMMA EntryTellsInit == IndexInit => EntryTells
BY IndexConstants DEF IndexInit, EntryTells

LEMMA WorkInit == IndexInit => WorkInv
<1> SUFFICES ASSUME IndexInit PROVE WorkInv
    OBVIOUS
<1>1. \A w \in Workers : tasks[w].at \notin {"read", "write"}
  <2>1. \A w \in Workers :
          (IF w = "startup" THEN [AtRest(SomeCall) EXCEPT !.at = "start"]
           ELSE AtRest(SomeCall)).at \notin {"read", "write"}
    BY DEF AtRest
  <2>2. QED
    BY <2>1 DEF IndexInit
<1>2. \A c \in IndexedCalls : WorksOn(c) = {} /\ entry[c] = 0
    BY <1>1 DEF WorksOn, IndexInit
<1>3. QED
    BY <1>2 DEF WorkInv, WorkKnown, IndexFresh

(* The stamp, and what has happened since it was read. *)
LEMMA LargestIs ==
    ASSUME NEW S, S \subseteq Nat, S # {}, NEW top \in Nat, \A e \in S : e < top
    PROVE  Max(S) \in S /\ \A e \in S : e <= Max(S)
<1> DEFINE Left == {top - e : e \in S}
<1>1. Left \subseteq Nat /\ Left # {}
  <2>1. \A e \in S : top - e \in Nat
    OBVIOUS
  <2>2. QED
    BY <2>1
<1>2. PICK x \in Left : \A y \in Left : x <= y
    BY <1>1, NatsHaveLeast
<1>3. PICK m \in S : x = top - m
    OBVIOUS
<1>4. \A e \in S : m >= e
  <2>1. SUFFICES ASSUME NEW e \in S PROVE m >= e
    OBVIOUS
  <2>2. top - e \in Left
    OBVIOUS
  <2>3. top - m <= top - e
    BY <1>2, <1>3, <2>2
  <2>4. e \in Nat /\ m \in Nat
    OBVIOUS
  <2>5. QED
    BY <2>3, <2>4
<1>5. Max(S) \in S /\ \A e \in S : Max(S) >= e
    BY <1>4 DEF Max
<1>6. QED
    BY <1>5

\* As long as the state of the index tells which passages there are, the stamp
\* counts them, and no passage is newer than it says.
LEMMA StampCounts ==
    ASSUME IndexShape, IdsFresh, EntryTells, ~blurred
    PROVE  /\ IsFiniteSet(Rows) /\ Stamp[1] = Cardinality(Rows)
           /\ Stamp[2] \in Nat /\ Stamp[2] < nextId /\ \A row \in Rows : row.id <= Stamp[2]
           /\ Stamp[3] = Cardinality(vectors)
<1> DEFINE Within == {c \in IndexedCalls : entry[c] # 0}
           Entries == {entry[c] : c \in IndexedCalls}
           f == [c \in Within |-> passages[c]]
<1>1. \A c \in IndexedCalls : entry[c] = passages[c].id
    BY DEF EntryTells
<1>2. \A c \in IndexedCalls : c \in Within <=> passages[c] # NoPassage
    BY <1>1, IndexConstants DEF IdsFresh
<1>3. IsFiniteSet(Within)
    BY IndexConstants, FS_Subset
<1>4. f \in Bijection(Within, Rows)
  <2>1. f \in [Within -> Rows]
    BY <1>2, RowsAre
  <2>2. ASSUME NEW c \in Within, NEW d \in Within, f[c] = f[d] PROVE c = d
    <3>1. passages[c].id = passages[d].id /\ passages[c] # NoPassage
        BY <1>2, <2>2
    <3>2. QED
        BY <3>1 DEF IdsFresh
  <2>3. ASSUME NEW row \in Rows PROVE \E c \in Within : f[c] = row
    BY <1>2, <2>3, RowsAre
  <2>4. QED
    BY <2>1, <2>2, <2>3 DEF Injection, Surjection, Bijection, IsInjective
<1>5. IsFiniteSet(Rows) /\ Cardinality(Rows) = Cardinality(Within)
    BY <1>3, <1>4, FS_Bijection DEF ExistsBijection
<1>6. Max(Entries) \in Entries /\ \A e \in Entries : e <= Max(Entries)
  <2>1. Entries \subseteq Nat /\ Entries # {}
    BY IndexConstants DEF IndexShape
  <2>2. nextId \in Nat /\ 0 < nextId
    BY DEF IndexShape
  <2>3. \A c \in IndexedCalls : entry[c] < nextId
    BY <1>1, <2>2, IndexConstants DEF IdsFresh
  <2>4. \A e \in Entries : e < nextId
    BY <2>3
  <2>5. QED
    BY <2>1, <2>2, <2>4, LargestIs
<1>7. Max(Entries) \in Nat /\ Max(Entries) < nextId
  <2>1. PICK c \in IndexedCalls : Max(Entries) = entry[c]
    BY <1>6
  <2>2. entry[c] < nextId
    BY <1>1, IndexConstants DEF IdsFresh, IndexShape
  <2>3. QED
    BY <2>1, <2>2 DEF IndexShape
<1>8. \A row \in Rows : row.id <= Max(Entries)
  <2>1. SUFFICES ASSUME NEW row \in Rows PROVE row.id <= Max(Entries)
    OBVIOUS
  <2>2. PICK c \in IndexedCalls : row = passages[c]
    BY RowsAre
  <2>3. row.id \in Entries
    BY <1>1, <2>2
  <2>4. QED
    BY <1>6, <2>3
<1>9. Stamp = <<Cardinality(Within), Max(Entries), Cardinality(vectors)>>
    BY DEF Stamp
<1>10. QED
    BY <1>5, <1>7, <1>8, <1>9

\* As long as the stamp cannot come back, a vector goes only with its row.
LEMMA VectorsStay ==
    ASSUME IndexShape, IndexShape', IdsInv, RowsStep, ~blurred'
    PROVE  /\ \A v \in vectors : v \in vectors' \/ v \notin Rows'
           /\ \A v \in PassageRows : v.id < nextId /\ v \notin Rows => v \notin Rows'
<1>1. \A v \in PassageRows : v.id < nextId /\ v \notin Rows => v \notin Rows'
  <2>1. SUFFICES ASSUME NEW v \in PassageRows, v.id < nextId, v \notin Rows, v \in Rows'
                 PROVE  FALSE
    OBVIOUS
  <2>2. v.id >= nextId
    BY <2>1, NewRowsAreNew DEF IdsInv
  <2>3. QED
    BY <2>1, <2>2 DEF PassageRows, IndexShape
<1>2. ASSUME NEW v \in vectors, v \notin vectors' PROVE v \notin Rows'
  <2>1. PICK d \in IndexedCalls : v = passages[d] /\ v # NoPassage
    BY RowsAre DEF IdsInv, VectorsOfTheirText
  <2>2. v.id \in Nat /\ v.id # 0 /\ v.id < nextId
    BY <2>1 DEF IdsInv, IdsFresh, IndexShape, PassageRows
  <2>3. ASSUME NEW w \in Workers, vectors' = Upserted(tasks[w].batch) PROVE FALSE
    <3>1. PICK row \in tasks[w].batch : v.id = row.id
        BY <1>2, <2>3 DEF Upserted
    <3>2. v = row
        BY <3>1 DEF IdsInv, BatchesKnown, Known, VectorsOfTheirText
    <3>3. v \in vectors'
        BY <2>3, <3>2 DEF Upserted
    <3>4. QED
        BY <1>2, <3>3
  <2>4. ASSUME NEW c \in IndexedCalls, RowGoes(c),
               \/ nextId' = nextId /\ passages'[c] = NoPassage
               \/ nextId' = nextId + 1 /\ passages'[c].id = nextId /\ passages'[c] # NoPassage
        PROVE  v \notin Rows'
    <3>1. v.id = passages[c].id
        BY <1>2, <2>4 DEF RowGoes
    <3>2. d = c
        BY <2>1, <3>1 DEF IdsInv, IdsFresh
    <3>3. v # passages'[c]
        BY <2>1, <2>2, <2>4 DEF IndexShape
    <3>4. \A e \in IndexedCalls \ {c} : v # passages'[e]
      <4>1. SUFFICES ASSUME NEW e \in IndexedCalls \ {c}, v = passages[e] PROVE FALSE
        BY <2>4 DEF RowGoes
      <4>2. passages[e].id = passages[c].id /\ passages[e] # NoPassage
        BY <2>1, <3>1, <4>1
      <4>3. QED
        BY <4>2 DEF IdsInv, IdsFresh
    <3>5. QED
        BY <3>3, <3>4 DEF Rows
  <2>5. CASE vectors' = {} /\ (vectors # {} => blurred')
    BY <2>5
  <2>6. QED
    BY <1>2, <2>3, <2>4, <2>5 DEF RowsStep
<1>3. QED
    BY <1>1, <1>2

LEMMA SinceStays ==
    ASSUME IndexShape, IndexShape', IdsInv, RowsStep, ~blurred',
           NEW stamp, NEW had \in SUBSET PassageRows, NEW vecs \in SUBSET PassageRows,
           NEW top \in Nat, StampIs(stamp, had, vecs, top), Since(had, vecs, top)
    PROVE  StampIs(stamp, had, vecs, top)' /\ Since(had, vecs, top)'
<1>1. nextId \in Nat /\ nextId' \in Nat /\ nextId <= nextId' /\ top <= nextId
    BY NewRowsAreNew DEF IdsInv, IndexShape, StampIs
<1>2. StampIs(stamp, had, vecs, top)'
    BY <1>1 DEF StampIs
<1>3. ASSUME NEW row \in Rows' PROVE row \in had \/ row.id >= top
  <2>1. row \in PassageRows /\ (row \in Rows \/ row.id >= nextId)
    BY NewRowsAreNew DEF IdsInv, Rows, IndexShape
  <2>2. row.id >= nextId => row.id >= top
    BY <1>1, <2>1 DEF PassageRows
  <2>3. QED
    BY <2>1, <2>2 DEF Since
<1>4. ASSUME NEW v \in vecs PROVE v \in vectors' \/ v \notin Rows'
  <2>1. v.id < nextId /\ v \in PassageRows
    BY <1>1 DEF StampIs, PassageRows
  <2>2. v \in vectors \/ v \notin Rows
    BY DEF Since
  <2>3. QED
    BY <2>1, <2>2, VectorsStay
<1>5. Since(had, vecs, top)'
    BY <1>3, <1>4 DEF Since
<1>6. QED
    BY <1>2, <1>5

CopyInv == StampRead /\ CopyTold

\* Apart from the end of the application, which empties the copy, a step reads
\* the stamp, or reads the vectors, or leaves both alone.
LEMMA CopyDrifts ==
    ASSUME IndexShape, IndexShape', IdsInv, CopyInv, RowsStep, UNCHANGED cacheVars,
           blurred => blurred'
    PROVE  CopyInv'
<1>1. StampRead'
  <2> SUFFICES ASSUME ~blurred', searching # NoStamp
               PROVE  \E had, vecs \in SUBSET PassageRows, top \in Nat :
                          StampIs(searching, had, vecs, top)' /\ Since(had, vecs, top)'
    BY DEF StampRead, cacheVars, StampIs
  <2>1. PICK had \in SUBSET PassageRows, vecs \in SUBSET PassageRows, top \in Nat :
            StampIs(searching, had, vecs, top) /\ Since(had, vecs, top)
    BY DEF CopyInv, StampRead
  <2>2. QED
    BY <2>1, SinceStays DEF StampIs, cacheVars
<1>2. \A v \in embedCache'.rows : Known(v)'
  <2>1. \A v \in embedCache.rows : v \in PassageRows /\ Known(v)
    BY DEF CopyInv, CopyTold, IndexShape
  <2>2. QED
    BY <2>1, NewRowsAreNew DEF IdsInv, cacheVars
<1>3. ASSUME ~blurred', embedCache # NoCache
      PROVE  \E had, vecs \in SUBSET PassageRows, top \in Nat :
                 /\ StampIs(embedCache.stamp, had, vecs, top)' /\ Since(had, vecs, top)'
                 /\ \A v \in vecs : v \in embedCache.rows \/ v \notin Rows'
                 /\ \A v \in embedCache.rows : v \in vectors' \/ v \notin Rows'
  <2>1. PICK had \in SUBSET PassageRows, vecs \in SUBSET PassageRows, top \in Nat :
            /\ StampIs(embedCache.stamp, had, vecs, top) /\ Since(had, vecs, top)
            /\ \A v \in vecs : v \in embedCache.rows \/ v \notin Rows
            /\ \A v \in embedCache.rows : v \in vectors \/ v \notin Rows
    BY <1>3 DEF CopyInv, CopyTold
  <2>2. StampIs(embedCache.stamp, had, vecs, top)' /\ Since(had, vecs, top)'
    BY <1>3, <2>1, SinceStays DEF StampIs, cacheVars
  <2>3. \A v \in vecs : v \in PassageRows /\ v.id < nextId
    BY <2>1 DEF StampIs, IndexShape, PassageRows
  <2>4. \A v \in embedCache.rows : v \in PassageRows /\ v.id < nextId
    BY DEF CopyInv, CopyTold, Known, IndexShape
  <2>5. \A v \in PassageRows : v.id < nextId /\ v \notin Rows => v \notin Rows'
    BY <1>3, VectorsStay
  <2>6. \A v \in vectors : v \in vectors' \/ v \notin Rows'
    BY <1>3, VectorsStay
  <2>7. \A v \in vecs : v \in embedCache.rows \/ v \notin Rows'
    BY <2>1, <2>3, <2>5
  <2>8. \A v \in embedCache.rows : v \in vectors' \/ v \notin Rows'
    BY <2>1, <2>4, <2>5, <2>6
  <2>9. QED
    BY <2>2, <2>7, <2>8
<1>4. CopyTold'
    BY <1>2, <1>3 DEF CopyTold, cacheVars, StampIs
<1>5. QED
    BY <1>1, <1>4 DEF CopyInv

LEMMA CopyReads ==
    ASSUME IndexShape, IdsInv, EntryTells, CopyInv, ReadStamp
    PROVE  CopyInv'
<1>1. UNCHANGED <<blurred, passages, vectors, nextId, embedCache>> /\ searching' = Stamp
    BY DEF ReadStamp, indexVars
<1>2. CopyTold'
    BY <1>1 DEF CopyInv, CopyTold, StampIs, Since, Known, Rows
<1>3. ASSUME ~blurred
      PROVE  /\ Rows \in SUBSET PassageRows /\ vectors \in SUBSET PassageRows /\ nextId \in Nat
             /\ StampIs(Stamp, Rows, vectors, nextId) /\ Since(Rows, vectors, nextId)
  <2>1. Rows \in SUBSET PassageRows /\ vectors \in SUBSET PassageRows /\ nextId \in Nat
    BY RowsAre DEF IndexShape
  <2>2. \A row \in Rows : row.id < nextId
    BY RowsKnown DEF Known, IdsInv
  <2>3. StampIs(Stamp, Rows, vectors, nextId)
    BY <1>3, <2>1, <2>2, StampCounts DEF StampIs, IdsInv, VectorsOfTheirText
  <2>4. QED
    BY <2>1, <2>3 DEF Since
<1>4. StampRead'
  <2> SUFFICES ASSUME ~blurred
               PROVE  \E had, vecs \in SUBSET PassageRows, top \in Nat :
                          StampIs(Stamp, had, vecs, top) /\ Since(had, vecs, top)
    BY <1>1 DEF StampRead, StampIs, Since, Rows
  <2>1. QED
    BY <1>3
<1>5. QED
    BY <1>2, <1>4 DEF CopyInv

LEMMA CopyLoads ==
    ASSUME IndexShape, IdsInv, CopyInv, LoadVectors
    PROVE  CopyInv'
<1>1. UNCHANGED <<blurred, passages, vectors, nextId>> /\ searching # NoStamp
      /\ searching' = NoStamp
    BY DEF LoadVectors, indexVars
<1>2. StampRead'
    BY <1>1 DEF StampRead
<1>3. CASE embedCache' = embedCache
    BY <1>1, <1>2, <1>3 DEF CopyInv, CopyTold, StampIs, Since, Known, Rows
<1>4. CASE embedCache' = [stamp |-> searching, rows |-> vectors]
  <2>1. embedCache'.stamp = searching /\ embedCache'.rows = vectors
    BY <1>4
  <2>2. \A v \in vectors : Known(v)
    BY RowsKnown DEF IdsInv, VectorsOfTheirText
  <2>3. ASSUME ~blurred
        PROVE  \E had, vecs \in SUBSET PassageRows, top \in Nat :
                   /\ StampIs(searching, had, vecs, top) /\ Since(had, vecs, top)
                   /\ \A v \in vecs : v \in vectors \/ v \notin Rows
                   /\ \A v \in vectors : v \in vectors \/ v \notin Rows
    <3>1. PICK had \in SUBSET PassageRows, vecs \in SUBSET PassageRows, top \in Nat :
              StampIs(searching, had, vecs, top) /\ Since(had, vecs, top)
        BY <1>1, <2>3 DEF CopyInv, StampRead
    <3>2. \A v \in vecs : v \in vectors \/ v \notin Rows
        BY <3>1 DEF Since
    <3>3. QED
        BY <3>1, <3>2
  <2>4. CopyTold'
    BY <1>1, <2>1, <2>2, <2>3 DEF CopyTold, StampIs, Since, Known, Rows
  <2>5. QED
    BY <1>2, <2>4 DEF CopyInv
<1>5. QED
    BY <1>3, <1>4 DEF LoadVectors

LEMMA CopyInit == CacheInit => CopyInv
BY DEF CacheInit, NoCache, CopyInv, StampRead, CopyTold

LEMMA CopyStep ==
    ASSUME IndexShape, IndexShape', IdsInv, EntryTells, CopyInv,
           [SearchNext]_<<indexVars, cacheVars>>
    PROVE  CopyInv'
<1>1. RowsStep
    BY RowsStepIs
<1>2. CASE Restart /\ embedCache' = NoCache /\ searching' = NoStamp
    BY <1>2 DEF NoCache, CopyInv, StampRead, CopyTold
<1>3. CASE IndexNext /\ UNCHANGED cacheVars
  <2>1. ASSUME blurred PROVE blurred'
    <3>1. ASSUME NEW w \in Workers, IndexFails(w) PROVE blurred'
        BY <2>1, <3>1 DEF IndexFails
    <3>2. EnsureModel => blurred'
        BY <2>1 DEF EnsureModel
    <3>3. CASE UNCHANGED blurred
        BY <2>1, <3>3
    <3>4. \/ \E w \in Workers : IndexFails(w)
          \/ EnsureModel
          \/ UNCHANGED blurred
        BY <1>3 DEF IndexNext, Edit, Reprocess, RunEnds, DeleteIndexed, ReadCall, WritePassages,
                    ListForEmbedding, Upsert, ListPending, NextPending, ListMissing, FillMissing
    <3>5. QED
        BY <3>1, <3>2, <3>3, <3>4
  <2>2. QED
    BY <1>1, <1>3, <2>1, CopyDrifts
<1>4. CASE ReadStamp
    BY <1>4, CopyReads
<1>5. CASE LoadVectors
    BY <1>5, CopyLoads
<1>6. CASE UNCHANGED <<indexVars, cacheVars>>
  <2>1. UNCHANGED blurred /\ UNCHANGED cacheVars
    BY <1>6 DEF indexVars
  <2>2. QED
    BY <1>1, <2>1, CopyDrifts
<1>7. QED
    BY <1>2, <1>3, <1>4, <1>5, <1>6 DEF SearchNext

LEMMA CopyTrue ==
    ASSUME IndexShape, IdsInv, EntryTells, CopyInv
    PROVE  CacheTrue
<1> SUFFICES ASSUME ~blurred, embedCache # NoCache, embedCache.stamp = Stamp
             PROVE  /\ vectors \subseteq embedCache.rows
                    /\ \A v \in embedCache.rows \ vectors : \A row \in Rows : row.id # v.id
    BY DEF CacheTrue
<1>1. PICK had \in SUBSET PassageRows, vecs \in SUBSET PassageRows, top \in Nat :
          /\ StampIs(Stamp, had, vecs, top) /\ Since(had, vecs, top)
          /\ \A v \in vecs : v \in embedCache.rows \/ v \notin Rows
          /\ \A v \in embedCache.rows : v \in vectors \/ v \notin Rows
    BY DEF CopyInv, CopyTold
<1>2. /\ IsFiniteSet(Rows) /\ Stamp[1] = Cardinality(Rows)
      /\ Stamp[2] \in Nat /\ \A row \in Rows : row.id <= Stamp[2]
      /\ Stamp[3] = Cardinality(vectors)
    BY StampCounts DEF IdsInv
<1>3. Rows = had
  <2>1. ASSUME NEW row \in Rows PROVE row \in had
    <3>1. row.id <= Stamp[2] /\ Stamp[2] < top /\ row.id \in Nat
        BY <1>1, <1>2, RowsAre DEF StampIs, PassageRows
    <3>2. ~(row.id >= top)
        BY <1>2, <3>1
    <3>3. QED
        BY <1>1, <3>2 DEF Since
  <2>2. IsFiniteSet(had) /\ Cardinality(had) = Cardinality(Rows)
    BY <1>1, <1>2 DEF StampIs
  <2>3. QED
    BY <2>1, <2>2, FS_Subset
<1>4. vecs = vectors
  <2>1. IsFiniteSet(vectors)
    BY <1>2, FS_Subset DEF IdsInv, VectorsOfTheirText
  <2>2. vecs \subseteq vectors
    BY <1>1, <1>3 DEF StampIs, Since
  <2>3. Cardinality(vecs) = Cardinality(vectors)
    BY <1>1, <1>2 DEF StampIs
  <2>4. QED
    BY <2>1, <2>2, <2>3, FS_Subset
<1>5. vectors \subseteq embedCache.rows
    BY <1>1, <1>4 DEF IdsInv, VectorsOfTheirText
<1>6. ASSUME NEW v \in embedCache.rows \ vectors, NEW row \in Rows, row.id = v.id PROVE FALSE
  <2>1. row = v
    BY <1>6 DEF CopyInv, CopyTold, Known
  <2>2. QED
    BY <1>1, <1>6, <2>1
<1>7. QED
    BY <1>5, <1>6

IndexInv == IndexShape /\ IdsInv /\ EntryTells /\ WorkInv /\ CopyInv

LEMMA IndexInvInductive == IndexSpec => []IndexInv
<1>1. IndexInit /\ CacheInit => IndexInv
    BY IndexShapeInit, IdsInit, EntryTellsInit, WorkInit, CopyInit DEF IndexInv
<1>2. IndexInv /\ [SearchNext]_<<indexVars, cacheVars>> => IndexInv'
  <2> SUFFICES ASSUME IndexInv, [SearchNext]_<<indexVars, cacheVars>> PROVE IndexInv'
    OBVIOUS
  <2>1. IndexShape'
    BY IndexShapeStep DEF IndexInv
  <2>2. IdsInv'
    BY <2>1, IdsStep DEF IndexInv
  <2>3. EntryTells'
    BY <2>1, EntryTellsStep DEF IndexInv, IdsInv
  <2>4. WorkInv'
    BY <2>1, WorkStep DEF IndexInv
  <2>5. CopyInv'
    BY <2>1, CopyStep DEF IndexInv
  <2>6. QED
    BY <2>1, <2>2, <2>3, <2>4, <2>5 DEF IndexInv
<1>3. QED
    BY <1>1, <1>2, PTL DEF IndexSpec

\* A vector belongs to a passage that is there and was made from its text; a
\* search whose stamp has not changed misses no vector and finds none of a
\* passage that has another text now; and a ready call that nobody works on and
\* the next start would leave alone is indexed as it is: for any number of calls
\* and of tasks of spawn_index, whatever fails and whenever the application ends
\* (index_call, spawn_index, backfill, embed_backfill, EmbedCache::snapshot).
THEOREM IndexTrueHolds == IndexSpec => []IndexTrue
<1>1. IndexInv => IndexTrue
    BY CopyTrue DEF IndexInv, IdsInv, WorkInv, IndexTrue
<1>2. QED
    BY <1>1, IndexInvInductive, PTL
-----------------------------------------------------------------------------
(***************************************************************************)
(* Speakers: rows, contacts and samples of a call.                         *)
(***************************************************************************)
SampleRecs == [voice : AnyVoice, here : BOOLEAN, quality : Nat]
IsRun(r) ==
    r = [step |-> r.step, heard |-> r.heard, reconciled |-> r.reconciled, todo |-> r.todo,
         tag |-> r.tag, learn |-> r.learn, quality |-> r.quality, known |-> r.known]

SpeakersShape ==
    /\ callThere \in BOOLEAN
    /\ speakers \in [AllTags -> SpeakerRows \cup {Nobody}]
    /\ voiceSamples \in [Contacts -> Seq(SampleRecs)]
    /\ person \in [Persons -> {"future", "there", "deleted"}]
    /\ consent \subseteq Contacts
    /\ decided \in [AllTags -> Contacts \cup {Nobody, "undone"}]

\* A run has a call, and works on what it has heard.
RunShape ==
    /\ IsRun(speakerRun)
    /\ speakerRun.step = "none" => ~speakerRun.reconciled
    /\ speakerRun.step # "none" =>
          /\ callThere
          /\ DOMAIN speakerRun.heard \subseteq AllTags
          /\ \A t \in DOMAIN speakerRun.heard : speakerRun.heard[t] \in AnyVoice
          /\ speakerRun.todo \subseteq DOMAIN speakerRun.heard
    /\ speakerRun.step \in {"backfill", "learn", "suggest"} =>
          speakerRun.tag \in DOMAIN speakerRun.heard
    /\ speakerRun.step = "learn" => speakerRun.learn \in Contacts /\ speakerRun.quality \in Nat

\* The rows that follow the transcript, from the clean-up on.
RowsCleaned ==
    speakerRun.reconciled /\ speakerRun.step \notin {"owner", "prune"} =>
        \A t \in SpeakerTags :
            /\ t \notin SpokenTags /\ speakers[t] # Nobody =>
                  speakers[t].confirmed \/ decided[t] = "undone"
            /\ t \in SpokenTags /\ speakerRun.step # "ensure" => speakers[t] # Nobody

SpeakersInv == SpeakersShape /\ RunShape /\ RowsCleaned /\ DecisionStands /\ NoDangling

(* The elements of a sequence at some of its places. *)
LEMMA NthThere ==
    ASSUME NEW K, IsFiniteSet(K), K \subseteq Nat, NEW m \in Nat, m < Cardinality(K)
    PROVE  \E i \in K : Cardinality({j \in K : j < i}) = m
<1> DEFINE Below(i) == {j \in K : j < i}
           T == {n \in Nat : n < Cardinality(K) => \E i \in K : Cardinality(Below(i)) = n}
<1>0. Cardinality(K) \in Nat
    BY FS_CardinalityType
<1>1. 0 \in T
  <2> SUFFICES ASSUME 0 < Cardinality(K) PROVE \E i \in K : Cardinality(Below(i)) = 0
    OBVIOUS
  <2>1. K # {}
    BY FS_EmptySet
  <2>2. PICK i \in K : \A j \in K : i <= j
    BY <2>1, NatsHaveLeast
  <2>3. Below(i) = {}
    <3>1. \A j \in K : i \in Nat /\ j \in Nat /\ i <= j
        BY <2>2
    <3>2. \A j \in K : ~(j < i)
        BY <3>1
    <3>3. QED
        BY <3>2
  <2>4. QED
    BY <2>3, FS_EmptySet
<1>2. ASSUME NEW n \in Nat, n \in T PROVE n + 1 \in T
  <2> SUFFICES ASSUME n + 1 < Cardinality(K)
               PROVE  \E i \in K : Cardinality(Below(i)) = n + 1
    OBVIOUS
  <2>1. PICK i \in K : Cardinality(Below(i)) = n
    BY <1>0, <1>2
  <2>2. IsFiniteSet(Below(i)) /\ i \notin Below(i) /\ i \in Nat
    BY FS_Subset
  <2>3. /\ IsFiniteSet(Below(i) \cup {i})
        /\ Cardinality(Below(i) \cup {i}) = n + 1
    BY <2>1, <2>2, FS_AddElement
  <2>4. Below(i) \cup {i} # K
    BY <1>0, <2>3
  <2>5. PICK k \in K \ (Below(i) \cup {i}) : \A j \in K \ (Below(i) \cup {i}) : k <= j
    <3>1. K \ (Below(i) \cup {i}) # {}
        BY <2>4
    <3>2. QED
        BY <3>1, NatsHaveLeast
  <2>6. Below(k) = Below(i) \cup {i}
    <3>1. ASSUME NEW j \in K, j < k PROVE j \in Below(i) \cup {i}
        BY <2>5, <3>1
    <3>2. i < k
        BY <2>5, <2>2
    <3>3. ASSUME NEW j \in Below(i) \cup {i} PROVE j < k
        BY <2>2, <3>2, <3>3
    <3>4. QED
        BY <3>1, <3>3
  <2>7. QED
    BY <2>3, <2>6
<1>3. m \in T
  <2> HIDE DEF T
  <2>1. QED
    BY <1>1, <1>2, SetInduction
<1>4. QED
    BY <1>3

LEMMA PickedIs ==
    ASSUME NEW X, NEW s \in Seq(X), NEW places \in SUBSET (DOMAIN s)
    PROVE  /\ IsFiniteSet(places) /\ Cardinality(places) <= Len(s)
           /\ Picked(s, places) \in Seq(X) /\ Len(Picked(s, places)) = Cardinality(places)
           /\ \A x \in Range(Picked(s, places)) : \E i \in places : x = s[i]
<1>1. DOMAIN s = 1..Len(s) /\ Len(s) \in Nat
    OBVIOUS
<1>2. IsFiniteSet(1..Len(s)) /\ Cardinality(1..Len(s)) = Len(s)
  <2>1. 1 \in Int /\ Len(s) \in Int
    BY <1>1
  <2>2. /\ IsFiniteSet(1..Len(s))
        /\ Cardinality(1..Len(s)) = IF 1 > Len(s) THEN 0 ELSE Len(s) - 1 + 1
    BY <2>1, FS_Interval
  <2>3. QED
    BY <1>1, <2>2
<1>3. IsFiniteSet(places) /\ Cardinality(places) <= Len(s) /\ Cardinality(places) \in Nat
    BY <1>1, <1>2, FS_Subset, FS_CardinalityType
<1> DEFINE place(n) == CHOOSE i \in places : Cardinality({j \in places : j < i}) = n - 1
<1>4. ASSUME NEW n \in 1..Cardinality(places) PROVE place(n) \in places
  <2>1. \E i \in places : Cardinality({j \in places : j < i}) = n - 1
    <3>1. places \subseteq Nat
        BY <1>1
    <3>2. n - 1 \in Nat /\ n - 1 < Cardinality(places)
        BY <1>3
    <3>3. QED
        BY <1>3, <3>1, <3>2, NthThere
  <2>2. QED
    BY <2>1
<1>5. Picked(s, places) = [n \in 1..Cardinality(places) |-> s[place(n)]]
    BY DEF Picked
<1> HIDE DEF place
<1>6. \A n \in 1..Cardinality(places) : place(n) \in places /\ s[place(n)] \in X
  <2>1. \A i \in places : s[i] \in X
    BY <1>1
  <2>2. QED
    BY <1>4, <2>1
<1>7. Picked(s, places) \in Seq(X)
    BY <1>3, <1>5, <1>6
<1>8. Len(Picked(s, places)) = Cardinality(places)
    BY <1>3, <1>5, <1>7
<1>9. \A x \in Range(Picked(s, places)) : \E i \in places : x = s[i]
    BY <1>5, <1>6 DEF Range
<1>10. QED
    BY <1>3, <1>7, <1>8, <1>9

\* Of the kept ones all but the worst are better than the worst.
LEMMA FewAreKept ==
    ASSUME NEW s \in Seq(SampleRecs), NEW few,
           few = {i \in DOMAIN s : Cardinality({j \in DOMAIN s : Better(s, j, i)}) < MaxSamples}
    PROVE  Cardinality(few) <= MaxSamples
<1>0. MaxSamples \in Nat
    BY SpeakersAssumption
<1>1. few \subseteq DOMAIN s /\ DOMAIN s = 1..Len(s) /\ Len(s) \in Nat
    OBVIOUS
<1>2. IsFiniteSet(DOMAIN s) /\ IsFiniteSet(few)
  <2>1. IsFiniteSet(DOMAIN s)
    <3>1. DOMAIN s \in SUBSET (DOMAIN s)
        OBVIOUS
    <3>2. QED
        BY <3>1, PickedIs
  <2>2. QED
    BY <1>1, <2>1, FS_Subset
<1>3. \A i \in DOMAIN s : s[i].quality \in Nat /\ i \in Nat
  <2>1. \A i \in DOMAIN s : s[i] \in SampleRecs /\ i \in Nat
    BY <1>1
  <2>2. QED
    BY <2>1 DEF SampleRecs
<1>4. CASE few = {}
  <2>1. Cardinality(few) = 0
    BY <1>4, FS_EmptySet
  <2>2. QED
    BY <1>0, <2>1
<1>5. CASE few # {}
  <2> DEFINE Q == {s[i].quality : i \in few}
  <2>1. PICK q \in Q : \A r \in Q : q <= r
    <3>1. Q \subseteq Nat /\ Q # {}
        BY <1>1, <1>3, <1>5
    <3>2. QED
        BY <3>1, NatsHaveLeast
  <2> DEFINE W == {i \in few : s[i].quality = q}
  <2>2. PICK w \in W : \A i \in W : w <= i
    <3>1. W \subseteq Nat /\ W # {}
        BY <1>1, <1>3, <2>1
    <3>2. QED
        BY <3>1, NatsHaveLeast
  <2> DEFINE Ahead == {j \in DOMAIN s : Better(s, j, w)}
  <2>3. w \in few /\ s[w].quality = q /\ w \in DOMAIN s /\ Cardinality(Ahead) < MaxSamples
    BY <1>1, <2>2
  <2>4. ASSUME NEW i \in few \ {w} PROVE i \in Ahead
    <3>1. s[i].quality \in Q /\ i \in DOMAIN s
        BY <1>1
    <3>2. q <= s[i].quality
        BY <2>1, <3>1
    <3>3. CASE s[i].quality = q
      <4>1. w <= i /\ w # i /\ i \in Nat /\ w \in Nat
        BY <1>3, <2>2, <2>3, <3>1, <3>3
      <4>2. QED
        BY <2>3, <3>1, <3>3, <4>1 DEF Better
    <3>4. CASE s[i].quality # q
      <4>1. s[i].quality > q
        BY <1>3, <2>3, <3>1, <3>2, <3>4
      <4>2. QED
        BY <2>3, <3>1, <4>1 DEF Better
    <3>5. QED
        BY <3>3, <3>4
  <2>5. IsFiniteSet(Ahead) /\ Cardinality(Ahead) \in Nat
    BY <1>2, FS_Subset, FS_CardinalityType
  <2>6. IsFiniteSet(few \ {w}) /\ Cardinality(few \ {w}) = Cardinality(few) - 1
        /\ Cardinality(few) \in Nat
    BY <1>2, <2>3, FS_RemoveElement, FS_CardinalityType
  <2>7. Cardinality(few \ {w}) <= Cardinality(Ahead)
    BY <2>4, <2>5, FS_Subset
  <2>8. QED
    BY <1>0, <2>3, <2>5, <2>6, <2>7
<1>6. QED
    BY <1>4, <1>5

LEMMA EvictKeeps ==
    ASSUME NEW s \in Seq(SampleRecs)
    PROVE  /\ Evict(s) \in Seq(SampleRecs) /\ Len(Evict(s)) <= MaxSamples
           /\ \A x \in Range(Evict(s)) : x \in Range(s)
<1> DEFINE few == {i \in DOMAIN s :
                       Cardinality({j \in DOMAIN s : Better(s, j, i)}) < MaxSamples}
<1>1. Evict(s) = Picked(s, few) /\ few \in SUBSET (DOMAIN s)
    BY DEF Evict
<1>2. Cardinality(few) <= MaxSamples
    BY FewAreKept
<1> HIDE DEF few
<1>3. /\ Picked(s, few) \in Seq(SampleRecs) /\ Len(Picked(s, few)) = Cardinality(few)
      /\ \A x \in Range(Picked(s, few)) : \E i \in few : x = s[i]
    BY <1>1, PickedIs
<1>4. \A x \in Range(Picked(s, few)) : x \in Range(s)
    BY <1>1, <1>3 DEF Range
<1>5. QED
    BY <1>1, <1>2, <1>3, <1>4

LEMMA OthersAre ==
    ASSUME NEW s \in Seq(SampleRecs)
    PROVE  /\ FromOthers(s) \in Seq(SampleRecs) /\ Len(FromOthers(s)) <= Len(s)
           /\ \A x \in Range(FromOthers(s)) : x \in Range(s) /\ ~x.here
<1> DEFINE places == {i \in DOMAIN s : ~s[i].here}
<1>1. FromOthers(s) = Picked(s, places) /\ places \in SUBSET (DOMAIN s)
    BY DEF FromOthers
<1>2. \A i \in places : s[i] \in Range(s) /\ ~s[i].here
    BY DEF Range
<1> HIDE DEF places
<1>3. QED
    BY <1>1, <1>2, PickedIs

LEMMA WithoutOne ==
    ASSUME NEW s \in Seq(SampleRecs), NEW i \in DOMAIN s
    PROVE  LET r == Picked(s, DOMAIN s \ {i})
           IN  r \in Seq(SampleRecs) /\ Len(r) <= Len(s) /\ \A x \in Range(r) : x \in Range(s)
<1>1. DOMAIN s \ {i} \in SUBSET (DOMAIN s)
    OBVIOUS
<1>2. \A j \in DOMAIN s : s[j] \in Range(s)
    BY DEF Range
<1>3. /\ Picked(s, DOMAIN s \ {i}) \in Seq(SampleRecs)
      /\ Len(Picked(s, DOMAIN s \ {i})) <= Len(s)
    BY <1>1, PickedIs
<1>4. \A x \in Range(Picked(s, DOMAIN s \ {i})) : \E j \in DOMAIN s \ {i} : x = s[j]
    BY <1>1, PickedIs
<1>5. QED
    BY <1>2, <1>3, <1>4

LEMMA SpeakerConstants ==
    /\ OwnerTag \notin SpeakerTags /\ Me \notin Persons /\ Nobody \notin Contacts
    /\ "undone" \notin Contacts /\ Nobody \notin SpeakerRows
    /\ Anonymous \in SpeakerRows
    /\ [Anonymous EXCEPT !.contact = Me, !.confirmed = TRUE] \in SpeakerRows
    /\ SpeakerTags \subseteq AllTags /\ OwnerTag \in AllTags /\ Persons \subseteq Contacts
    /\ Me \in Contacts /\ MaxSamples \in Nat \ {0}
<1>1. Anonymous \in SpeakerRows
    BY DEF Anonymous, SpeakerRows, AnyVoice
<1>2. [Anonymous EXCEPT !.contact = Me, !.confirmed = TRUE] \in SpeakerRows
    BY DEF Anonymous, SpeakerRows, AnyVoice, Contacts
<1>3. QED
    BY <1>1, <1>2, SpeakersAssumption DEF AllTags, Contacts

\* What a row may name.
RowStands(row) ==
    row # Nobody =>
        /\ callThere
        /\ row.contact # Nobody => Exists(row.contact)
        /\ row.suggestion # Nobody => Exists(row.suggestion)

\* What a contact may have.
SamplesStand(k, s) ==
    /\ s # <<>> => Exists(k)
    /\ Len(s) <= MaxSamples
    /\ \A x \in Range(s) : x.here => callThere

LEMMA DanglingIs ==
    NoDangling <=> /\ \A t \in AllTags : RowStands(speakers[t])
                   /\ \A k \in Contacts : SamplesStand(k, voiceSamples[k])
BY DEF NoDangling, RowStands, SamplesStand

\* A row that nobody confirmed may change; of a confirmed one contact and
\* confirmation stay.
LEMMA RowsKeep ==
    ASSUME SpeakersInv, OnlyRows, speakers' \in [AllTags -> SpeakerRows \cup {Nobody}],
           \A t \in AllTags : RowStands(speakers'[t]),
           \A t \in SpeakerTags : speakers[t] # Nobody /\ speakers[t].confirmed =>
               /\ speakers'[t] # Nobody /\ speakers'[t].confirmed
               /\ speakers'[t].contact = speakers[t].contact
               /\ speakers'[t].auto = speakers[t].auto
    PROVE  SpeakersShape' /\ DecisionStands' /\ NoDangling'
<1>1. UNCHANGED <<callThere, voiceSamples, person, consent, decided>>
    BY DEF OnlyRows
<1>2. SpeakersShape'
    BY <1>1 DEF SpeakersInv, SpeakersShape
<1>3. DecisionStands'
    BY <1>1 DEF SpeakersInv, DecisionStands
<1>4. \A k \in Contacts : Exists(k)' = Exists(k)
    BY <1>1 DEF Exists
<1>5. \A t \in AllTags : RowStands(speakers[t])'
    BY <1>1, <1>4 DEF RowStands, Exists
<1>6. \A k \in Contacts : SamplesStand(k, voiceSamples[k])'
    BY <1>1, <1>4, DanglingIs DEF SpeakersInv, SamplesStand
<1>7. NoDangling'
    BY <1>5, <1>6 DEF NoDangling, RowStands, SamplesStand
<1>8. QED
    BY <1>2, <1>3, <1>7

LEMMA RowFacts ==
    ASSUME SpeakersInv, NEW t \in AllTags
    PROVE  /\ speakers[t] = Nobody \/ speakers[t] \in SpeakerRows
           /\ RowStands(speakers[t])
BY DanglingIs DEF SpeakersInv, SpeakersShape

\* A step of the run that changes no row.
LEMMA SameRows ==
    ASSUME SpeakersInv, OnlyRows, UNCHANGED speakers
    PROVE  SpeakersShape' /\ DecisionStands' /\ NoDangling'
<1>1. \A t \in AllTags : RowStands(speakers'[t])
    BY RowFacts
<1>2. QED
    BY <1>1, RowsKeep, SpeakerConstants DEF SpeakersInv, SpeakersShape

(* The steps of a run. *)
LEMMA StartSpeakersKeeps ==
    ASSUME SpeakersInv, NEW spoken \in SUBSET SpeakerTags, NEW v \in [spoken -> Voices],
           StartSpeakers([t \in spoken \cup {OwnerTag} |-> IF t = OwnerTag THEN MyVoice ELSE v[t]])
    PROVE  SpeakersInv'
<1> DEFINE said == [t \in spoken \cup {OwnerTag} |-> IF t = OwnerTag THEN MyVoice ELSE v[t]]
<1>1. DOMAIN said \subseteq AllTags /\ \A t \in DOMAIN said : said[t] \in AnyVoice
    BY SpeakerConstants DEF AnyVoice
<1>2. /\ speakerRun' = [NoRun EXCEPT !.step = "owner", !.heard = said, !.reconciled = TRUE]
      /\ UNCHANGED <<callThere, speakers, voiceSamples, person, consent>> /\ callThere
      /\ decided' = [t \in AllTags |-> IF decided[t] = "undone" THEN Nobody ELSE decided[t]]
    BY DEF StartSpeakers
<1> HIDE DEF said
<1>3. IsRun(speakerRun)' /\ speakerRun'.step = "owner" /\ speakerRun'.heard = said
      /\ speakerRun'.todo = {}
    BY <1>2 DEF IsRun, NoRun
<1>4. RunShape'
    BY <1>1, <1>2, <1>3 DEF RunShape
<1>5. RowsCleaned'
    BY <1>3 DEF RowsCleaned
<1>6. decided' \in [AllTags -> Contacts \cup {Nobody, "undone"}]
    BY <1>2 DEF SpeakersInv, SpeakersShape
<1>7. SpeakersShape'
    BY <1>2, <1>6 DEF SpeakersInv, SpeakersShape
<1>8. \A t \in SpeakerTags : decided'[t] \in Contacts => decided[t] = decided'[t]
    BY <1>2, SpeakerConstants
<1>9. DecisionStands'
    BY <1>2, <1>8 DEF SpeakersInv, DecisionStands
<1>10. NoDangling'
    BY <1>2 DEF SpeakersInv, NoDangling, Exists
<1>11. QED
    BY <1>4, <1>5, <1>7, <1>9, <1>10 DEF SpeakersInv

LEMMA BindOwnerKeeps == ASSUME SpeakersInv, BindOwner PROVE SpeakersInv'
<1> DEFINE own == [Anonymous EXCEPT !.contact = Me, !.confirmed = TRUE]
<1>1. own \in SpeakerRows /\ own.contact = Me /\ own.suggestion = Nobody
    BY SpeakerConstants DEF Anonymous
<1>2. speakers' = [speakers EXCEPT ![OwnerTag] = own] /\ OnlyRows
    BY DEF BindOwner
<1> HIDE DEF own
<1>3. /\ speakerRun.step = "owner" /\ IsRun(speakerRun)' /\ speakerRun'.step = "prune"
      /\ speakerRun'.heard = speakerRun.heard /\ speakerRun'.todo = speakerRun.todo
    BY DEF BindOwner, Goes, SpeakersInv, RunShape, IsRun
<1>4. RunShape'
    BY <1>2, <1>3 DEF SpeakersInv, RunShape, OnlyRows
<1>5. RowsCleaned'
    BY <1>3 DEF RowsCleaned
<1>6. speakers' \in [AllTags -> SpeakerRows \cup {Nobody}]
    BY <1>1, <1>2 DEF SpeakersInv, SpeakersShape
<1>7. speakers'[OwnerTag] = own /\ \A t \in AllTags \ {OwnerTag} : speakers'[t] = speakers[t]
    BY <1>2, SpeakerConstants DEF SpeakersInv, SpeakersShape
<1>8. RowStands(own)
    BY <1>1, <1>3 DEF RowStands, Exists, SpeakersInv, RunShape
<1>9. \A t \in AllTags : RowStands(speakers'[t])
    BY <1>7, <1>8, RowFacts
<1>10. \A t \in SpeakerTags : speakers'[t] = speakers[t]
    BY <1>7, SpeakerConstants
<1>11. SpeakersShape' /\ DecisionStands' /\ NoDangling'
    BY <1>2, <1>6, <1>9, <1>10, RowsKeep
<1>12. QED
    BY <1>4, <1>5, <1>11 DEF SpeakersInv

LEMMA PruneKeeps == ASSUME SpeakersInv, Prune PROVE SpeakersInv'
<1>1. /\ speakers' = [t \in AllTags |-> IF t \in Pruned THEN Nobody ELSE speakers[t]]
      /\ OnlyRows /\ speakerRun.step = "prune"
    BY DEF Prune
<1>2. /\ IsRun(speakerRun)' /\ speakerRun'.heard = speakerRun.heard
      /\ speakerRun'.todo = speakerRun.todo /\ speakerRun'.reconciled = speakerRun.reconciled
      /\ speakerRun'.step = IF SpokenTags = {} THEN "extract" ELSE "ensure"
    BY DEF Prune, Goes, SpeakersInv, RunShape, IsRun
<1>3. RunShape'
    BY <1>1, <1>2 DEF SpeakersInv, RunShape, OnlyRows
<1>4. \A t \in AllTags : speakers'[t] = Nobody \/ speakers'[t] = speakers[t]
    BY <1>1
<1>5. speakers' \in [AllTags -> SpeakerRows \cup {Nobody}]
    BY <1>1, RowFacts DEF SpeakersInv, SpeakersShape
<1>6. \A t \in AllTags : RowStands(speakers'[t])
    BY <1>4, RowFacts DEF RowStands
<1>7. \A t \in SpeakerTags : speakers[t] # Nobody /\ speakers[t].confirmed =>
          speakers'[t] = speakers[t]
    BY <1>1, SpeakerConstants DEF Pruned
<1>8. SpeakersShape' /\ DecisionStands' /\ NoDangling'
    BY <1>1, <1>5, <1>6, <1>7, RowsKeep
<1>9. RowsCleaned'
  <2>1. SpokenTags' = SpokenTags
    BY <1>2 DEF SpokenTags
  <2>2. \A t \in SpeakerTags : t \notin SpokenTags /\ speakers'[t] # Nobody =>
            speakers'[t].confirmed
    BY <1>1, SpeakerConstants DEF Pruned
  <2>3. QED
    BY <1>2, <2>1, <2>2 DEF RowsCleaned
<1>10. QED
    BY <1>3, <1>8, <1>9 DEF SpeakersInv

LEMMA EnsurePresentKeeps == ASSUME SpeakersInv, EnsurePresent PROVE SpeakersInv'
<1>1. /\ speakers' = [t \in AllTags |-> IF t \in SpokenTags /\ speakers[t] = Nobody
                                        THEN Anonymous ELSE speakers[t]]
      /\ OnlyRows /\ speakerRun.step = "ensure"
    BY DEF EnsurePresent
<1>2. /\ IsRun(speakerRun)' /\ speakerRun'.heard = speakerRun.heard
      /\ speakerRun'.todo = speakerRun.todo /\ speakerRun'.reconciled = speakerRun.reconciled
      /\ speakerRun'.step = "extract"
    BY DEF EnsurePresent, Goes, SpeakersInv, RunShape, IsRun
<1>3. RunShape'
    BY <1>1, <1>2 DEF SpeakersInv, RunShape, OnlyRows
<1>4. \A t \in AllTags : speakers'[t] = Anonymous \/ speakers'[t] = speakers[t]
    BY <1>1
<1>5. speakers' \in [AllTags -> SpeakerRows \cup {Nobody}]
    BY <1>1, SpeakerConstants DEF SpeakersInv, SpeakersShape
<1>6. RowStands(Anonymous)
    BY <1>1 DEF RowStands, Anonymous, SpeakersInv, RunShape
<1>7. \A t \in AllTags : RowStands(speakers'[t])
    BY <1>4, <1>6, RowFacts
<1>8. \A t \in SpeakerTags : speakers[t] # Nobody => speakers'[t] = speakers[t]
    BY <1>1, SpeakerConstants
<1>9. SpeakersShape' /\ DecisionStands' /\ NoDangling'
    BY <1>1, <1>5, <1>7, <1>8, RowsKeep
<1>10. RowsCleaned'
  <2>1. SpokenTags' = SpokenTags
    BY <1>2 DEF SpokenTags
  <2>2. \A t \in SpeakerTags : t \in SpokenTags => speakers'[t] # Nobody
    BY <1>1, SpeakerConstants
  <2>3. \A t \in SpeakerTags : t \notin SpokenTags => speakers'[t] = speakers[t]
    BY <1>1, SpeakerConstants
  <2>4. decided' = decided
    BY <1>1 DEF OnlyRows
  <2>5. QED
    BY <1>1, <1>2, <2>1, <2>2, <2>3, <2>4 DEF RowsCleaned, SpeakersInv
<1>11. QED
    BY <1>3, <1>9, <1>10 DEF SpeakersInv

LEMMA ReconcileFailsKeeps == ASSUME SpeakersInv, ReconcileFails PROVE SpeakersInv'
<1>1. UNCHANGED speakers /\ OnlyRows /\ speakerRun.step \in {"owner", "prune", "ensure"}
    BY DEF ReconcileFails
<1>2. /\ IsRun(speakerRun)' /\ speakerRun'.heard = speakerRun.heard
      /\ speakerRun'.todo = speakerRun.todo /\ speakerRun'.reconciled = FALSE
    BY DEF ReconcileFails, SpeakersInv, RunShape, IsRun
<1>3. speakerRun'.step \in {"prune", "ensure", "extract"}
    BY DEF ReconcileFails, SpeakersInv, RunShape, IsRun
<1>4. RunShape'
    BY <1>1, <1>2, <1>3 DEF SpeakersInv, RunShape, OnlyRows
<1>5. QED
    BY <1>1, <1>2, <1>4, SameRows DEF SpeakersInv, RowsCleaned

\* Past the clean-up a step of the run has the rows that follow the transcript.
LEMMA CleanedStays ==
    ASSUME SpeakersInv, speakerRun.step \notin {"owner", "prune", "ensure"},
           speakerRun'.heard = speakerRun.heard, speakerRun'.reconciled = speakerRun.reconciled,
           \A t \in SpeakerTags :
               /\ speakers[t] # Nobody => speakers'[t] # Nobody
               /\ speakers'[t] # Nobody => speakers[t] # Nobody
               /\ speakers[t] # Nobody /\ speakers[t].confirmed => speakers'[t].confirmed
               /\ speakers[t] # Nobody /\ decided[t] = "undone" =>
                     decided'[t] = "undone" \/ speakers'[t].confirmed
    PROVE  RowsCleaned'
<1>1. SpokenTags' = SpokenTags
    BY DEF SpokenTags
<1>2. QED
    BY <1>1 DEF SpeakersInv, RowsCleaned

LEMMA ExtractClustersKeeps == ASSUME SpeakersInv, ExtractClusters PROVE SpeakersInv'
<1>1. UNCHANGED speakers /\ OnlyRows /\ speakerRun.step = "extract"
    BY DEF ExtractClusters
<1>2. PICK wanted \in SUBSET DOMAIN speakerRun.heard :
          speakerRun' = [speakerRun EXCEPT !.todo = wanted,
                            !.known = IF wanted = {} THEN @ ELSE Consenting,
                            !.step = IF wanted = {} THEN "bind" ELSE "cluster"]
    BY DEF ExtractClusters
<1>3. /\ IsRun(speakerRun)' /\ speakerRun'.heard = speakerRun.heard
      /\ speakerRun'.todo = wanted /\ speakerRun'.reconciled = speakerRun.reconciled
      /\ speakerRun'.step = IF wanted = {} THEN "bind" ELSE "cluster"
    BY <1>2 DEF SpeakersInv, RunShape, IsRun
<1>4. RunShape'
    BY <1>1, <1>3 DEF SpeakersInv, RunShape, OnlyRows
<1>5. RowsCleaned'
    BY <1>1, <1>3, CleanedStays DEF OnlyRows
<1>6. QED
    BY <1>1, <1>4, <1>5, SameRows DEF SpeakersInv

LEMMA ReadBackfillKeeps == ASSUME SpeakersInv, ReadBackfill PROVE SpeakersInv'
<1>1. UNCHANGED speakers /\ OnlyRows /\ speakerRun.step = "backfill"
    BY DEF ReadBackfill
<1> DEFINE row == speakers[speakerRun.tag]
           learns == row # Nobody /\ row.confirmed /\ row.contact \in consent
<1>2. speakerRun' = [speakerRun EXCEPT !.step = IF learns THEN "learn" ELSE "suggest",
                        !.learn = IF learns THEN row.contact ELSE Nobody,
                        !.quality = IF learns THEN QualityOf(row) ELSE 0]
    BY DEF ReadBackfill
<1>3. row = Nobody \/ row \in SpeakerRows
    BY <1>1, RowFacts DEF SpeakersInv, RunShape
<1>4. learns => row.contact \in Contacts /\ QualityOf(row) \in Nat
    BY <1>3 DEF SpeakersInv, SpeakersShape, SpeakerRows, QualityOf, Unscored, Weak, Strong
<1> HIDE DEF row, learns
<1>5. /\ IsRun(speakerRun)' /\ speakerRun'.heard = speakerRun.heard
      /\ speakerRun'.todo = speakerRun.todo /\ speakerRun'.reconciled = speakerRun.reconciled
      /\ speakerRun'.tag = speakerRun.tag
      /\ speakerRun'.step = IF learns THEN "learn" ELSE "suggest"
      /\ speakerRun'.learn = IF learns THEN row.contact ELSE Nobody
      /\ speakerRun'.quality = IF learns THEN QualityOf(row) ELSE 0
    BY <1>2 DEF SpeakersInv, RunShape, IsRun
<1>6. RunShape'
    BY <1>1, <1>4, <1>5 DEF SpeakersInv, RunShape, OnlyRows
<1>7. RowsCleaned'
    BY <1>1, <1>5, CleanedStays DEF OnlyRows
<1>8. QED
    BY <1>1, <1>6, <1>7, SameRows DEF SpeakersInv

LEMMA NoCandidateKeeps == ASSUME SpeakersInv, NoCandidate PROVE SpeakersInv'
<1>1. UNCHANGED speakers /\ OnlyRows /\ speakerRun.step = "suggest"
    BY DEF NoCandidate
<1>2. /\ IsRun(speakerRun)' /\ speakerRun'.heard = speakerRun.heard
      /\ speakerRun'.todo = speakerRun.todo /\ speakerRun'.reconciled = speakerRun.reconciled
      /\ speakerRun'.step \in {"bind", "cluster"}
    BY DEF NoCandidate, NextTag, SpeakersInv, RunShape, IsRun
<1>3. RunShape'
    BY <1>1, <1>2 DEF SpeakersInv, RunShape, OnlyRows
<1>4. RowsCleaned'
    BY <1>1, <1>2, CleanedStays DEF OnlyRows
<1>5. QED
    BY <1>1, <1>3, <1>4, SameRows DEF SpeakersInv

LEMMA CutRunKeeps == ASSUME SpeakersInv, CutRun PROVE SpeakersInv'
<1>1. UNCHANGED speakers /\ OnlyRows /\ speakerRun' = NoRun
    BY DEF CutRun
<1>2. IsRun(speakerRun)' /\ speakerRun'.step = "none" /\ ~speakerRun'.reconciled
    BY <1>1 DEF IsRun, NoRun
<1>3. RunShape' /\ RowsCleaned'
    BY <1>2 DEF RunShape, RowsCleaned
<1>4. QED
    BY <1>1, <1>3, SameRows DEF SpeakersInv

\* One row changes in what a run may change of it.
LEMMA RowChanges ==
    ASSUME SpeakersInv, OnlyRows, NEW t \in AllTags, NEW row, row \in SpeakerRows, RowStands(row),
           speakers' = [speakers EXCEPT ![t] = row], speakers[t] # Nobody,
           row.contact = speakers[t].contact, row.confirmed = speakers[t].confirmed,
           row.auto = speakers[t].auto
    PROVE  /\ SpeakersShape' /\ DecisionStands' /\ NoDangling'
           /\ \A u \in AllTags : (speakers[u] # Nobody <=> speakers'[u] # Nobody)
           /\ \A u \in AllTags : speakers[u] # Nobody =>
                  speakers'[u].confirmed = speakers[u].confirmed
<1>1. speakers'[t] = row /\ \A u \in AllTags \ {t} : speakers'[u] = speakers[u]
    BY DEF SpeakersInv, SpeakersShape
<1>2. row # Nobody
    BY SpeakerConstants
<1>3. speakers' \in [AllTags -> SpeakerRows \cup {Nobody}]
    BY DEF SpeakersInv, SpeakersShape
<1>4. \A u \in AllTags : RowStands(speakers'[u])
    BY <1>1, RowFacts
<1>5. \A u \in SpeakerTags : speakers[u] # Nobody /\ speakers[u].confirmed =>
          /\ speakers'[u] # Nobody /\ speakers'[u].confirmed
          /\ speakers'[u].contact = speakers[u].contact
          /\ speakers'[u].auto = speakers[u].auto
    BY <1>1, <1>2, SpeakerConstants
<1>6. SpeakersShape' /\ DecisionStands' /\ NoDangling'
    BY <1>3, <1>4, <1>5, RowsKeep
<1>7. QED
    BY <1>1, <1>2, <1>6

LEMMA SetClusterKeeps == ASSUME SpeakersInv, NEW t \in AllTags, SetCluster(t) PROVE SpeakersInv'
<1>1. /\ OnlyRows /\ speakerRun.step = "cluster" /\ t \in speakerRun.todo
      /\ speakerRun' = [speakerRun EXCEPT !.step = "backfill", !.tag = t, !.todo = @ \ {t}]
    BY DEF SetCluster
<1>2. t \in DOMAIN speakerRun.heard /\ speakerRun.heard[t] \in AnyVoice
    BY <1>1 DEF SpeakersInv, RunShape
<1>3. /\ IsRun(speakerRun)' /\ speakerRun'.heard = speakerRun.heard
      /\ speakerRun'.todo = speakerRun.todo \ {t} /\ speakerRun'.reconciled = speakerRun.reconciled
      /\ speakerRun'.tag = t /\ speakerRun'.step = "backfill"
    BY <1>1 DEF SpeakersInv, RunShape, IsRun
<1>4. RunShape'
    BY <1>1, <1>2, <1>3 DEF SpeakersInv, RunShape, OnlyRows
<1>5. CASE speakers[t] = Nobody
  <2>1. UNCHANGED speakers
    BY <1>5 DEF SetCluster
  <2>2. RowsCleaned'
    BY <1>1, <1>3, <2>1, CleanedStays DEF OnlyRows
  <2>3. QED
    BY <1>1, <1>4, <2>1, <2>2, SameRows DEF SpeakersInv
<1>6. CASE speakers[t] # Nobody
  <2>1. speakers[t] \in SpeakerRows /\ RowStands(speakers[t])
    BY <1>6, RowFacts
  <2>2. PICK row : row = [speakers[t] EXCEPT !.voice = speakerRun.heard[t]]
    OBVIOUS
  <2>3. /\ row \in SpeakerRows /\ row.contact = speakers[t].contact
        /\ row.confirmed = speakers[t].confirmed /\ row.auto = speakers[t].auto
        /\ row.suggestion = speakers[t].suggestion
    BY <1>2, <2>1, <2>2 DEF SpeakerRows
  <2>4. speakers' = [speakers EXCEPT ![t] = row]
    BY <1>6, <2>2 DEF SetCluster
  <2>5. RowStands(row)
    BY <1>6, <2>1, <2>3 DEF RowStands
  <2>6. /\ SpeakersShape' /\ DecisionStands' /\ NoDangling'
        /\ \A u \in AllTags : (speakers[u] # Nobody <=> speakers'[u] # Nobody)
        /\ \A u \in AllTags : speakers[u] # Nobody =>
               speakers'[u].confirmed = speakers[u].confirmed
    BY <1>1, <1>6, <2>3, <2>4, <2>5, RowChanges
  <2>7. RowsCleaned'
    BY <1>1, <1>3, <2>6, CleanedStays, SpeakerConstants DEF OnlyRows
  <2>8. QED
    BY <1>4, <2>6, <2>7 DEF SpeakersInv
<1>7. QED
    BY <1>5, <1>6

LEMMA SuggestContactKeeps ==
    ASSUME SpeakersInv, NEW k \in Persons, NEW score \in {Weak, Strong}, SuggestContact(k, score)
    PROVE  SpeakersInv'
<1>1. /\ OnlyRows /\ speakerRun.step = "suggest" /\ speakerRun.tag # OwnerTag
      /\ speakerRun' = [speakerRun EXCEPT !.step = NextTag, !.tag = Nobody]
    BY DEF SuggestContact
<1>2. PICK t \in AllTags : t = speakerRun.tag
    BY <1>1 DEF SpeakersInv, RunShape
<1>3. /\ IsRun(speakerRun)' /\ speakerRun'.heard = speakerRun.heard
      /\ speakerRun'.todo = speakerRun.todo /\ speakerRun'.reconciled = speakerRun.reconciled
      /\ speakerRun'.step \in {"bind", "cluster"}
    BY <1>1 DEF NextTag, SpeakersInv, RunShape, IsRun
<1>4. RunShape'
    BY <1>1, <1>3 DEF SpeakersInv, RunShape, OnlyRows
<1>5. CASE speakers[t] = Nobody \/ ~Exists(k)
  <2>1. UNCHANGED speakers
    BY <1>2, <1>5 DEF SuggestContact
  <2>2. RowsCleaned'
    BY <1>1, <1>3, <2>1, CleanedStays DEF OnlyRows
  <2>3. QED
    BY <1>1, <1>4, <2>1, <2>2, SameRows DEF SpeakersInv
<1>6. CASE speakers[t] # Nobody /\ Exists(k)
  <2>1. speakers[t] \in SpeakerRows /\ RowStands(speakers[t])
    BY <1>6, RowFacts
  <2>2. PICK row : row = [speakers[t] EXCEPT !.suggestion = k, !.score = score]
    OBVIOUS
  <2>3. /\ row \in SpeakerRows /\ row.contact = speakers[t].contact
        /\ row.confirmed = speakers[t].confirmed /\ row.auto = speakers[t].auto
        /\ row.suggestion = k
    BY <2>1, <2>2 DEF SpeakerRows
  <2>4. speakers' = [speakers EXCEPT ![t] = row]
    BY <1>2, <1>6, <2>2 DEF SuggestContact
  <2>5. RowStands(row)
    BY <1>6, <2>1, <2>3 DEF RowStands
  <2>6. /\ SpeakersShape' /\ DecisionStands' /\ NoDangling'
        /\ \A u \in AllTags : (speakers[u] # Nobody <=> speakers'[u] # Nobody)
        /\ \A u \in AllTags : speakers[u] # Nobody =>
               speakers'[u].confirmed = speakers[u].confirmed
    BY <1>1, <1>6, <2>3, <2>4, <2>5, RowChanges
  <2>7. RowsCleaned'
    BY <1>1, <1>3, <2>6, CleanedStays, SpeakerConstants DEF OnlyRows
  <2>8. QED
    BY <1>4, <2>6, <2>7 DEF SpeakersInv
<1>7. QED
    BY <1>5, <1>6

LEMMA AutoBindKeeps == ASSUME SpeakersInv, AutoBind PROVE SpeakersInv'
<1>1. OnlyRows /\ speakerRun' = NoRun
    BY DEF AutoBind
<1>2. IsRun(speakerRun)' /\ speakerRun'.step = "none" /\ ~speakerRun'.reconciled
    BY <1>1 DEF IsRun, NoRun
<1>3. RunShape' /\ RowsCleaned'
    BY <1>2 DEF RunShape, RowsCleaned
<1> DEFINE Bound(t) == [speakers[t] EXCEPT !.contact = speakers[t].suggestion,
                                            !.confirmed = TRUE, !.auto = TRUE]
<1>4. ASSUME NEW t \in AllTags, MayBind(t)
      PROVE  /\ Bound(t) \in SpeakerRows /\ Bound(t).contact = speakers[t].suggestion
             /\ Bound(t).suggestion = speakers[t].suggestion
             /\ speakers[t] # Nobody /\ ~speakers[t].confirmed
  <2>1. speakers[t] # Nobody /\ speakers[t] \in SpeakerRows /\ ~speakers[t].confirmed
    BY <1>4, RowFacts DEF MayBind
  <2>2. speakers[t].suggestion \in Contacts \cup {Nobody}
    BY <2>1, SpeakerConstants DEF SpeakerRows
  <2>3. QED
    BY <2>1, <2>2 DEF SpeakerRows
<1>5. speakers' = [t \in AllTags |-> IF autoBind /\ MayBind(t) THEN Bound(t) ELSE speakers[t]]
    BY DEF AutoBind
<1> HIDE DEF Bound
<1>6. speakers' \in [AllTags -> SpeakerRows \cup {Nobody}]
    BY <1>4, <1>5, RowFacts
<1>7. ASSUME NEW t \in AllTags PROVE RowStands(speakers'[t])
  <2>1. MayBind(t) => RowStands(Bound(t))
    BY <1>4, RowFacts DEF RowStands
  <2>2. QED
    BY <1>5, <2>1, RowFacts
<1>8. \A t \in SpeakerTags : speakers[t] # Nobody /\ speakers[t].confirmed =>
          speakers'[t] = speakers[t]
    BY <1>4, <1>5, SpeakerConstants
<1>9. SpeakersShape' /\ DecisionStands' /\ NoDangling'
    BY <1>1, <1>6, <1>7, <1>8, RowsKeep
<1>10. QED
    BY <1>3, <1>9 DEF SpeakersInv

LEMMA BackfillKeeps == ASSUME SpeakersInv, Backfill PROVE SpeakersInv'
<1>1. /\ speakerRun.step = "learn"
      /\ speakerRun' = [speakerRun EXCEPT !.step = "suggest", !.learn = Nobody, !.quality = 0]
      /\ UNCHANGED <<callThere, speakers, person, consent, decided>>
    BY DEF Backfill
<1>2. PICK k \in Contacts : k = speakerRun.learn
    BY <1>1 DEF SpeakersInv, RunShape
<1>3. PICK new : new = FromHere(speakerRun.heard[speakerRun.tag], speakerRun.quality)
    OBVIOUS
<1>4. new \in SampleRecs
    BY <1>1, <1>3 DEF FromHere, SampleRecs, SpeakersInv, RunShape
<1>5. /\ IsRun(speakerRun)' /\ speakerRun'.heard = speakerRun.heard
      /\ speakerRun'.todo = speakerRun.todo /\ speakerRun'.reconciled = speakerRun.reconciled
      /\ speakerRun'.tag = speakerRun.tag /\ speakerRun'.step = "suggest"
    BY <1>1 DEF SpeakersInv, RunShape, IsRun
<1>6. RunShape'
    BY <1>1, <1>5 DEF SpeakersInv, RunShape
<1>7. RowsCleaned'
    BY <1>1, <1>5, CleanedStays
<1>8. callThere
    BY <1>1 DEF SpeakersInv, RunShape
<1>9. /\ voiceSamples' \in [Contacts -> Seq(SampleRecs)]
      /\ \A c \in Contacts : SamplesStand(c, voiceSamples'[c])
  <2>1. CASE ~Exists(k)
    <3>1. voiceSamples' = voiceSamples
        BY <1>2, <2>1 DEF Backfill
    <3>2. QED
        BY <3>1, DanglingIs DEF SpeakersInv, SpeakersShape
  <2>2. CASE Exists(k)
    <3>1. voiceSamples[k] \in Seq(SampleRecs)
        BY DEF SpeakersInv, SpeakersShape
    <3>2. FromOthers(voiceSamples[k]) \in Seq(SampleRecs)
        BY <3>1, OthersAre
    <3>3. PICK s : s = Append(FromOthers(voiceSamples[k]), new)
        OBVIOUS
    <3>4. s \in Seq(SampleRecs)
        BY <1>4, <3>2, <3>3
    <3>5. Evict(s) \in Seq(SampleRecs) /\ Len(Evict(s)) <= MaxSamples
        BY <3>4, EvictKeeps
    <3>6. voiceSamples' = [voiceSamples EXCEPT ![k] = Evict(s)]
        BY <1>2, <1>3, <2>2, <3>3 DEF Backfill
    <3>7. SamplesStand(k, Evict(s))
        BY <1>8, <2>2, <3>5 DEF SamplesStand
    <3>8. QED
        BY <3>5, <3>6, <3>7, DanglingIs DEF SpeakersInv, SpeakersShape
  <2>3. QED
    BY <2>1, <2>2
<1>10. SpeakersShape'
    BY <1>1, <1>9 DEF SpeakersInv, SpeakersShape
<1>11. DecisionStands'
    BY <1>1 DEF SpeakersInv, DecisionStands
<1>12. NoDangling'
    BY <1>1, <1>9 DEF SpeakersInv, NoDangling, SamplesStand, Exists
<1>13. QED
    BY <1>6, <1>7, <1>10, <1>11, <1>12 DEF SpeakersInv

(* The user's commands. *)
LEMMA RunStays ==
    ASSUME SpeakersInv, UNCHANGED <<speakerRun, callThere>>
    PROVE  RunShape' /\ SpokenTags' = SpokenTags
BY DEF SpeakersInv, RunShape, IsRun, SpokenTags

\* The user's word on one tag: the row is confirmed, or the decision undone.
LEMMA CleanedByWord ==
    ASSUME SpeakersInv, UNCHANGED speakerRun, NEW t \in AllTags, speakers'[t] # Nobody,
           speakers[t] # Nobody, speakers'[t].confirmed \/ decided'[t] = "undone",
           \A u \in AllTags \ {t} : speakers'[u] = speakers[u] /\ decided'[u] = decided[u]
    PROVE  RowsCleaned'
<1>1. SpokenTags' = SpokenTags
    BY DEF SpokenTags
<1>2. QED
    BY <1>1, SpeakerConstants DEF SpeakersInv, RowsCleaned

LEMMA ConfirmSpeakerKeeps ==
    ASSUME SpeakersInv, NEW t \in AllTags, NEW k \in Contacts, ConfirmSpeaker(t, k)
    PROVE  SpeakersInv'
<1>1. /\ speakers[t] # Nobody /\ Exists(k) /\ decided' = [decided EXCEPT ![t] = k]
      /\ UNCHANGED <<callThere, person, consent, speakerRun>>
    BY DEF ConfirmSpeaker
<1>2. speakers[t] \in SpeakerRows /\ RowStands(speakers[t]) /\ callThere
    BY <1>1, RowFacts DEF RowStands
<1>3. PICK row : row = [speakers[t] EXCEPT !.contact = k, !.confirmed = TRUE, !.auto = FALSE]
    OBVIOUS
<1>4. row \in SpeakerRows /\ row.contact = k /\ row.confirmed /\ ~row.auto
      /\ row.suggestion = speakers[t].suggestion
    BY <1>2, <1>3 DEF SpeakerRows
<1>5. speakers' = [speakers EXCEPT ![t] = row]
    BY <1>3 DEF ConfirmSpeaker, SpeakersInv, SpeakersShape
<1>6. /\ speakers'[t] = row /\ decided'[t] = k /\ row # Nobody
      /\ \A u \in AllTags \ {t} : speakers'[u] = speakers[u] /\ decided'[u] = decided[u]
    BY <1>1, <1>4, <1>5, SpeakerConstants DEF SpeakersInv, SpeakersShape
<1>7. RunShape' /\ RowsCleaned'
    BY <1>1, <1>4, <1>6, RunStays, CleanedByWord
<1>8. /\ voiceSamples' \in [Contacts -> Seq(SampleRecs)]
      /\ \A c \in Contacts : SamplesStand(c, voiceSamples'[c])
  <2>1. CASE voiceSamples' = voiceSamples
    BY <2>1, DanglingIs DEF SpeakersInv, SpeakersShape
  <2>2. CASE voiceSamples' # voiceSamples
    <3>1. PICK new : new = FromHere(speakers[t].voice, QualityOf(speakers[t]))
        OBVIOUS
    <3>2. new \in SampleRecs
      <4>1. speakers[t].voice \in AnyVoice /\ QualityOf(speakers[t]) \in Nat
        BY <1>2 DEF SpeakerRows, QualityOf, Unscored, Weak, Strong
      <4>2. QED
        BY <3>1, <4>1 DEF FromHere, SampleRecs
    <3>3. PICK s : s = Append(voiceSamples[k], new)
        OBVIOUS
    <3>4. s \in Seq(SampleRecs)
        BY <3>2, <3>3 DEF SpeakersInv, SpeakersShape
    <3>5. Evict(s) \in Seq(SampleRecs) /\ Len(Evict(s)) <= MaxSamples
        BY <3>4, EvictKeeps
    <3>6. voiceSamples' = [voiceSamples EXCEPT ![k] = Evict(s)]
        BY <2>2, <3>1, <3>3 DEF ConfirmSpeaker
    <3>7. SamplesStand(k, Evict(s))
        BY <1>1, <1>2, <3>5 DEF SamplesStand
    <3>8. QED
        BY <3>5, <3>6, <3>7, DanglingIs DEF SpeakersInv, SpeakersShape
  <2>3. QED
    BY <2>1, <2>2
<1>9. SpeakersShape'
  <2>1. /\ speakers' \in [AllTags -> SpeakerRows \cup {Nobody}]
        /\ decided' \in [AllTags -> Contacts \cup {Nobody, "undone"}]
    BY <1>1, <1>4, <1>5 DEF SpeakersInv, SpeakersShape
  <2>2. QED
    BY <1>1, <1>8, <2>1 DEF SpeakersInv, SpeakersShape
<1>10. DecisionStands'
    BY <1>4, <1>6, SpeakerConstants DEF SpeakersInv, DecisionStands
<1>11. NoDangling'
  <2>1. \A u \in AllTags : RowStands(speakers'[u])
    <3>1. RowStands(row)
        BY <1>1, <1>2, <1>4 DEF RowStands
    <3>2. QED
        BY <1>6, <3>1, RowFacts
  <2>2. QED
    BY <1>1, <1>8, <2>1 DEF NoDangling, RowStands, SamplesStand, Exists
<1>12. QED
    BY <1>7, <1>9, <1>10, <1>11 DEF SpeakersInv

LEMMA UnbindSpeakerKeeps ==
    ASSUME SpeakersInv, NEW t \in AllTags, UnbindSpeaker(t)
    PROVE  SpeakersInv'
<1>1. /\ speakers[t] # Nobody /\ decided' = [decided EXCEPT ![t] = "undone"]
      /\ UNCHANGED <<callThere, voiceSamples, person, consent, speakerRun>>
    BY DEF UnbindSpeaker
<1>2. speakers[t] \in SpeakerRows /\ RowStands(speakers[t]) /\ callThere
    BY <1>1, RowFacts DEF RowStands
<1>3. PICK row : row = [speakers[t] EXCEPT !.contact = Nobody, !.confirmed = FALSE, !.auto = FALSE]
    OBVIOUS
<1>4. row \in SpeakerRows /\ row.contact = Nobody /\ row.suggestion = speakers[t].suggestion
    BY <1>2, <1>3 DEF SpeakerRows
<1>5. speakers' = [speakers EXCEPT ![t] = row]
    BY <1>3 DEF UnbindSpeaker, SpeakersInv, SpeakersShape
<1>6. /\ speakers'[t] = row /\ decided'[t] = "undone" /\ row # Nobody
      /\ \A u \in AllTags \ {t} : speakers'[u] = speakers[u] /\ decided'[u] = decided[u]
    BY <1>1, <1>4, <1>5, SpeakerConstants DEF SpeakersInv, SpeakersShape
<1>7. RunShape' /\ RowsCleaned'
    BY <1>1, <1>6, RunStays, CleanedByWord
<1>8. SpeakersShape'
  <2>1. /\ speakers' \in [AllTags -> SpeakerRows \cup {Nobody}]
        /\ decided' \in [AllTags -> Contacts \cup {Nobody, "undone"}]
    BY <1>1, <1>4, <1>5 DEF SpeakersInv, SpeakersShape
  <2>2. QED
    BY <1>1, <2>1 DEF SpeakersInv, SpeakersShape
<1>9. DecisionStands'
    BY <1>6, SpeakerConstants DEF SpeakersInv, DecisionStands
<1>10. NoDangling'
  <2>1. \A u \in AllTags : RowStands(speakers'[u])
    <3>1. RowStands(row)
        BY <1>1, <1>2, <1>4 DEF RowStands
    <3>2. QED
        BY <1>6, <3>1, RowFacts
  <2>2. \A c : Exists(c)' = Exists(c)
    BY <1>1 DEF Exists
  <2>3. \A u \in AllTags : RowStands(speakers[u])'
    BY <1>1, <2>1, <2>2 DEF RowStands, Exists
  <2>4. \A c \in Contacts : SamplesStand(c, voiceSamples[c])'
    BY <1>1, <2>2, DanglingIs DEF SpeakersInv, SamplesStand
  <2>5. QED
    BY <2>3, <2>4 DEF NoDangling, RowStands, SamplesStand
<1>11. QED
    BY <1>7, <1>8, <1>9, <1>10 DEF SpeakersInv

LEMMA CreateContactKeeps ==
    ASSUME SpeakersInv, NEW k \in Persons, CreateContact(k)
    PROVE  SpeakersInv'
<1>1. /\ person' = [person EXCEPT ![k] = "there"]
      /\ UNCHANGED <<callThere, speakers, voiceSamples, consent, speakerRun, decided>>
    BY DEF CreateContact
<1>2. \A c : Exists(c) => Exists(c)'
    BY <1>1 DEF Exists, SpeakersInv, SpeakersShape
<1>3. RunShape' /\ SpokenTags' = SpokenTags
    BY <1>1, RunStays
<1>4. RowsCleaned' /\ DecisionStands'
    BY <1>1, <1>3 DEF SpeakersInv, RowsCleaned, DecisionStands
<1>5. SpeakersShape'
    BY <1>1 DEF SpeakersInv, SpeakersShape
<1>6. NoDangling'
    BY <1>1, <1>2 DEF SpeakersInv, NoDangling
<1>7. QED
    BY <1>3, <1>4, <1>5, <1>6 DEF SpeakersInv

LEMMA UpdateContactKeeps ==
    ASSUME SpeakersInv, NEW k \in Contacts, UpdateContact(k)
    PROVE  SpeakersInv'
<1>1. UNCHANGED <<callThere, speakers, voiceSamples, person, speakerRun, decided>>
      /\ consent' \subseteq Contacts
    BY DEF UpdateContact, SpeakersInv, SpeakersShape
<1>2. RunShape' /\ SpokenTags' = SpokenTags
    BY <1>1, RunStays
<1>3. RowsCleaned' /\ DecisionStands'
    BY <1>1, <1>2 DEF SpeakersInv, RowsCleaned, DecisionStands
<1>4. SpeakersShape' /\ NoDangling'
    BY <1>1 DEF SpeakersInv, SpeakersShape, NoDangling, Exists
<1>5. QED
    BY <1>2, <1>3, <1>4 DEF SpeakersInv

LEMMA DeleteContactKeeps ==
    ASSUME SpeakersInv, NEW k \in Persons, DeleteContact(k)
    PROVE  SpeakersInv'
<1>1. /\ person' = [person EXCEPT ![k] = "deleted"] /\ consent' = consent \ {k}
      /\ voiceSamples' = [voiceSamples EXCEPT ![k] = <<>>]
      /\ speakers' = [t \in AllTags |-> WithoutContact(speakers[t], k)]
      /\ decided' = [t \in AllTags |-> IF decided[t] = k THEN Nobody ELSE decided[t]]
      /\ UNCHANGED <<callThere, speakerRun>>
    BY DEF DeleteContact
<1>2. \A c : Exists(c) /\ c # k => Exists(c)'
    BY <1>1 DEF Exists, SpeakersInv, SpeakersShape
<1>3. ASSUME NEW t \in AllTags, speakers[t] # Nobody
      PROVE  /\ speakers'[t] \in SpeakerRows
             /\ speakers'[t].contact = IF speakers[t].contact = k THEN Nobody
                                       ELSE speakers[t].contact
             /\ speakers'[t].suggestion = IF speakers[t].suggestion = k THEN Nobody
                                          ELSE speakers[t].suggestion
             /\ speakers'[t].confirmed = speakers[t].confirmed
             /\ speakers'[t].auto = speakers[t].auto
  <2>1. speakers[t] \in SpeakerRows
    BY <1>3, RowFacts
  <2>2. speakers'[t] = [speakers[t] EXCEPT !.contact = IF @ = k THEN Nobody ELSE @,
                                           !.suggestion = IF @ = k THEN Nobody ELSE @]
    BY <1>1, <1>3 DEF WithoutContact
  <2>3. QED
    BY <2>1, <2>2 DEF SpeakerRows
<1>4. \A t \in AllTags : speakers[t] = Nobody => speakers'[t] = Nobody
    BY <1>1 DEF WithoutContact
<1>5. \A t \in AllTags : speakers'[t] # Nobody <=> speakers[t] # Nobody
    BY <1>3, <1>4, SpeakerConstants
<1>6. RunShape' /\ SpokenTags' = SpokenTags
    BY <1>1, RunStays
<1>7. RowsCleaned'
  <2>1. \A t \in AllTags : decided[t] = "undone" => decided'[t] = "undone"
    BY <1>1, SpeakerConstants
  <2>2. QED
    BY <1>1, <1>3, <1>5, <1>6, <2>1, SpeakerConstants DEF SpeakersInv, RowsCleaned
<1>8. DecisionStands'
  <2> SUFFICES ASSUME NEW t \in SpeakerTags, decided'[t] \in Contacts
               PROVE  /\ speakers'[t] # Nobody
                      /\ speakers'[t].contact = decided'[t] /\ speakers'[t].confirmed
                      /\ ~speakers'[t].auto
    BY DEF DecisionStands
  <2>1. decided[t] # k /\ decided'[t] = decided[t] /\ t \in AllTags
    BY <1>1, SpeakerConstants
  <2>2. /\ speakers[t] # Nobody /\ speakers[t].contact = decided[t]
        /\ speakers[t].confirmed /\ ~speakers[t].auto
    BY <2>1 DEF SpeakersInv, DecisionStands
  <2>3. QED
    BY <1>3, <1>5, <2>1, <2>2
<1>9. SpeakersShape'
  <2>1. speakers' \in [AllTags -> SpeakerRows \cup {Nobody}]
    <3>1. \A t \in AllTags : WithoutContact(speakers[t], k) \in SpeakerRows \cup {Nobody}
        BY <1>1, <1>3, <1>4
    <3>2. QED
        BY <1>1, <3>1
  <2>2. voiceSamples' \in [Contacts -> Seq(SampleRecs)]
    <3>1. <<>> \in Seq(SampleRecs)
        OBVIOUS
    <3>2. QED
        BY <1>1, <3>1 DEF SpeakersInv, SpeakersShape
  <2>3. decided' \in [AllTags -> Contacts \cup {Nobody, "undone"}]
    BY <1>1 DEF SpeakersInv, SpeakersShape
  <2>4. QED
    BY <1>1, <2>1, <2>2, <2>3 DEF SpeakersInv, SpeakersShape
<1>10. NoDangling'
  <2>1. ASSUME NEW t \in AllTags, speakers'[t] # Nobody
        PROVE  /\ callThere
               /\ \A c : c # Nobody /\ c \in {speakers'[t].contact, speakers'[t].suggestion}
                          => Exists(c)'
    <3>1. speakers[t] # Nobody /\ RowStands(speakers[t])
        BY <1>5, <2>1, RowFacts
    <3>2. \A c : c # Nobody /\ c \in {speakers'[t].contact, speakers'[t].suggestion}
               => Exists(c) /\ c # k
        BY <1>3, <3>1 DEF RowStands
    <3>3. QED
        BY <1>2, <3>1, <3>2 DEF RowStands
  <2>2. ASSUME NEW c \in Contacts
        PROVE  /\ voiceSamples'[c] # <<>> => Exists(c)'
               /\ Len(voiceSamples'[c]) <= MaxSamples
               /\ \A s \in Range(voiceSamples'[c]) : s.here => callThere
    <3>1. CASE c = k
      <4>1. voiceSamples'[c] = <<>>
        BY <1>1, <3>1, SpeakerConstants DEF SpeakersInv, SpeakersShape
      <4>2. QED
        BY <4>1, SpeakerConstants DEF Range
    <3>2. CASE c # k
      <4>1. voiceSamples'[c] = voiceSamples[c]
        BY <1>1, <3>2 DEF SpeakersInv, SpeakersShape
      <4>2. SamplesStand(c, voiceSamples[c])
        BY DanglingIs DEF SpeakersInv
      <4>3. QED
        BY <1>2, <3>2, <4>1, <4>2 DEF SamplesStand
    <3>3. QED
        BY <3>1, <3>2
  <2>3. ASSUME NEW t \in AllTags, (speakers[t])' # Nobody
        PROVE  RowStands(speakers[t])'
    BY <1>1, <2>1, <2>3 DEF RowStands, Exists
  <2>4. \A t \in AllTags : RowStands(speakers[t])'
    BY <2>3 DEF RowStands
  <2>5. \A c \in Contacts : SamplesStand(c, voiceSamples[c])'
    BY <1>1, <2>2 DEF SamplesStand, Exists
  <2>6. QED
    BY <2>4, <2>5 DEF NoDangling, RowStands, SamplesStand
<1>11. QED
    BY <1>6, <1>7, <1>8, <1>9, <1>10 DEF SpeakersInv

LEMMA DeleteSampleKeeps ==
    ASSUME SpeakersInv, NEW k \in Contacts, NEW i, DeleteSample(k, i)
    PROVE  SpeakersInv'
<1>1. UNCHANGED <<callThere, speakers, person, consent, speakerRun, decided>>
    BY DEF DeleteSample
<1>2. PICK s : s = Picked(voiceSamples[k], DOMAIN voiceSamples[k] \ {i})
    OBVIOUS
<1>3. voiceSamples' = [voiceSamples EXCEPT ![k] = s]
    BY <1>2 DEF DeleteSample
<1>4. voiceSamples[k] \in Seq(SampleRecs) /\ i \in DOMAIN voiceSamples[k]
    BY DEF DeleteSample, SpeakersInv, SpeakersShape
<1>5. /\ s \in Seq(SampleRecs) /\ Len(s) <= Len(voiceSamples[k])
      /\ \A x \in Range(s) : x \in Range(voiceSamples[k])
    BY <1>2, <1>4, WithoutOne
<1>6. SamplesStand(k, voiceSamples[k]) /\ voiceSamples[k] # <<>>
    BY <1>4, DanglingIs DEF SpeakersInv
<1>7. SamplesStand(k, s)
  <2>1. Len(s) \in Nat /\ Len(voiceSamples[k]) \in Nat /\ MaxSamples \in Nat
    BY <1>4, <1>5, SpeakerConstants
  <2>2. QED
    BY <1>5, <1>6, <2>1 DEF SamplesStand
<1>8. \A c \in Contacts : SamplesStand(c, voiceSamples'[c])
    BY <1>3, <1>7, DanglingIs DEF SpeakersInv, SpeakersShape
<1>9. RunShape' /\ SpokenTags' = SpokenTags
    BY <1>1, RunStays
<1>10. RowsCleaned' /\ DecisionStands'
    BY <1>1, <1>9 DEF SpeakersInv, RowsCleaned, DecisionStands
<1>11. SpeakersShape'
    BY <1>1, <1>3, <1>5 DEF SpeakersInv, SpeakersShape
<1>12. NoDangling'
    BY <1>1, <1>8 DEF SpeakersInv, NoDangling, SamplesStand, Exists
<1>13. QED
    BY <1>9, <1>10, <1>11, <1>12 DEF SpeakersInv

LEMMA DeleteCallKeeps == ASSUME SpeakersInv, DeleteCall PROVE SpeakersInv'
<1>1. /\ callThere' = FALSE /\ speakerRun' = NoRun
      /\ speakers' = [t \in AllTags |-> Nobody] /\ decided' = [t \in AllTags |-> Nobody]
      /\ voiceSamples' = [k \in Contacts |-> FromOthers(voiceSamples[k])]
      /\ UNCHANGED <<person, consent>>
    BY DEF DeleteCall
<1>2. IsRun(speakerRun)' /\ speakerRun'.step = "none" /\ ~speakerRun'.reconciled
    BY <1>1 DEF IsRun, NoRun
<1>3. RunShape' /\ RowsCleaned'
    BY <1>2 DEF RunShape, RowsCleaned
<1>4. ASSUME NEW k \in Contacts
      PROVE  /\ voiceSamples'[k] \in Seq(SampleRecs) /\ Len(voiceSamples'[k]) <= MaxSamples
             /\ voiceSamples'[k] # <<>> => Exists(k)
             /\ \A x \in Range(voiceSamples'[k]) : ~x.here
  <2>1. voiceSamples[k] \in Seq(SampleRecs) /\ voiceSamples'[k] = FromOthers(voiceSamples[k])
    BY <1>1 DEF SpeakersInv, SpeakersShape
  <2>2. /\ FromOthers(voiceSamples[k]) \in Seq(SampleRecs)
        /\ Len(FromOthers(voiceSamples[k])) <= Len(voiceSamples[k])
        /\ \A x \in Range(FromOthers(voiceSamples[k])) : ~x.here
    BY <2>1, OthersAre
  <2>3. SamplesStand(k, voiceSamples[k])
    BY DanglingIs DEF SpeakersInv
  <2>4. Len(voiceSamples'[k]) <= MaxSamples
    BY <2>1, <2>2, <2>3, SpeakerConstants DEF SamplesStand
  <2>5. voiceSamples[k] = <<>> => voiceSamples'[k] = <<>>
    BY <2>1, <2>2
  <2>6. QED
    BY <2>1, <2>2, <2>3, <2>4, <2>5 DEF SamplesStand
<1>5. SpeakersShape'
    BY <1>1, <1>4 DEF SpeakersInv, SpeakersShape
<1>6. DecisionStands'
    BY <1>1, SpeakerConstants DEF DecisionStands
<1>7. NoDangling'
    BY <1>1, <1>4 DEF NoDangling, Exists
<1>8. QED
    BY <1>3, <1>5, <1>6, <1>7 DEF SpeakersInv

LEMMA SpeakersInvInit == SpeakersInit => SpeakersInv
<1> SUFFICES ASSUME SpeakersInit PROVE SpeakersInv
    OBVIOUS
<1>1. /\ callThere = TRUE /\ speakers = [t \in AllTags |-> Nobody] /\ speakerRun = NoRun
      /\ decided = [t \in AllTags |-> Nobody]
    BY DEF SpeakersInit
<1>2. PICK v \in Voices, n \in [Persons -> {0, EnoughSamples}] :
          voiceSamples = [k \in Contacts |-> IF k = Me THEN <<>>
                                             ELSE [i \in 1..n[k] |-> Elsewhere(v)]]
    BY DEF SpeakersInit
<1>3. PICK there \in SUBSET Persons :
          /\ person = [k \in Persons |-> IF k \in there THEN "there" ELSE "future"]
          /\ \A k \in Persons \ there : voiceSamples[k] = <<>>
          /\ consent = there
    BY DEF SpeakersInit
<1>4. ASSUME NEW k \in Contacts
      PROVE  /\ voiceSamples[k] \in Seq(SampleRecs) /\ Len(voiceSamples[k]) <= MaxSamples
             /\ \A x \in Range(voiceSamples[k]) : ~x.here
  <2>1. Elsewhere(v) \in SampleRecs /\ ~Elsewhere(v).here
    BY DEF Elsewhere, SampleRecs, AnyVoice, Unscored
  <2>2. CASE k = Me
    <3>1. voiceSamples[k] = <<>>
        BY <1>2, <2>2
    <3>2. QED
        BY <3>1, SpeakerConstants DEF Range
  <2>3. CASE k # Me
    <3>1. k \in Persons /\ voiceSamples[k] = [i \in 1..n[k] |-> Elsewhere(v)]
        BY <1>2, <2>3 DEF Contacts
    <3>2. n[k] \in Nat /\ n[k] <= MaxSamples
        BY <3>1, SpeakersAssumption
    <3>3. PICK s : s = [i \in 1..n[k] |-> Elsewhere(v)]
        OBVIOUS
    <3>4. s \in Seq(SampleRecs) /\ Len(s) = n[k]
        BY <2>1, <3>2, <3>3
    <3>5. \A x \in Range(s) : ~x.here
        BY <2>1, <3>3 DEF Range
    <3>6. QED
        BY <3>1, <3>2, <3>3, <3>4, <3>5
  <2>4. QED
    BY <2>2, <2>3
<1>5. SpeakersShape
  <2>1. voiceSamples \in [Contacts -> Seq(SampleRecs)]
    BY <1>2, <1>4
  <2>2. person \in [Persons -> {"future", "there", "deleted"}] /\ consent \subseteq Contacts
    BY <1>3, SpeakerConstants
  <2>3. QED
    BY <1>1, <2>1, <2>2 DEF SpeakersShape
<1>6. RunShape /\ RowsCleaned
    BY <1>1 DEF RunShape, RowsCleaned, NoRun, IsRun
<1>7. DecisionStands
    BY <1>1, SpeakerConstants DEF DecisionStands
<1>8. NoDangling
  <2>1. \A k \in Contacts : voiceSamples[k] # <<>> => Exists(k)
    BY <1>3 DEF Exists, Contacts
  <2>2. QED
    BY <1>1, <1>4, <2>1 DEF NoDangling
<1>9. QED
    BY <1>5, <1>6, <1>7, <1>8 DEF SpeakersInv

LEMMA SpeakersInvStep == SpeakersInv /\ [SpeakersNext]_speakerVars => SpeakersInv'
<1> SUFFICES ASSUME SpeakersInv, [SpeakersNext]_speakerVars PROVE SpeakersInv'
    OBVIOUS
<1>1. CASE BindOwner \/ Prune \/ EnsurePresent \/ ReconcileFails \/ AutoBind \/ CutRun
    BY <1>1, BindOwnerKeeps, PruneKeeps, EnsurePresentKeeps, ReconcileFailsKeeps, AutoBindKeeps,
       CutRunKeeps
<1>2. CASE RunClusters
    BY <1>2, ExtractClustersKeeps, SetClusterKeeps, ReadBackfillKeeps, BackfillKeeps,
       SuggestContactKeeps, NoCandidateKeeps DEF RunClusters
<1>3. ASSUME NEW k \in Persons, CreateContact(k) \/ DeleteContact(k) PROVE SpeakersInv'
    BY <1>3, CreateContactKeeps, DeleteContactKeeps
<1>4. ASSUME NEW t \in AllTags, NEW k \in Contacts, ConfirmSpeaker(t, k) PROVE SpeakersInv'
    BY <1>4, ConfirmSpeakerKeeps
<1>5. ASSUME NEW t \in AllTags, UnbindSpeaker(t) PROVE SpeakersInv'
    BY <1>5, UnbindSpeakerKeeps
<1>6. ASSUME NEW k \in Contacts, UpdateContact(k) PROVE SpeakersInv'
    BY <1>6, UpdateContactKeeps
<1>7. ASSUME NEW k \in Contacts, NEW i \in 1..MaxSamples, DeleteSample(k, i) PROVE SpeakersInv'
    BY <1>7, DeleteSampleKeeps
<1>8. CASE DeleteCall
    BY <1>8, DeleteCallKeeps
<1>9. ASSUME NEW spoken \in SUBSET SpeakerTags, NEW v \in [spoken -> Voices],
             StartSpeakers([t \in spoken \cup {OwnerTag} |->
                               IF t = OwnerTag THEN MyVoice ELSE v[t]])
      PROVE  SpeakersInv'
    BY <1>9, StartSpeakersKeeps
<1>10. CASE UNCHANGED speakerVars
    BY <1>10 DEF speakerVars, SpeakersInv, SpeakersShape, RunShape, IsRun, RowsCleaned,
                 DecisionStands, NoDangling, SpokenTags, Exists
<1>11. QED
    BY <1>1, <1>2, <1>3, <1>4, <1>5, <1>6, <1>7, <1>8, <1>9, <1>10 DEF SpeakersNext

\* What the user decided of a speaker stands until the user undoes it, after a run in
\* which nothing failed the rows are those of the transcript, and nothing names a
\* contact or a call that is gone: for any contacts, tags, voices, runs and commands,
\* and wherever a run is cut off (local_run, voice_backfill, matching and the commands).
THEOREM SpeakersKeptHolds == SpeakersSpec => []SpeakersKept
<1>1. SpeakersInv => SpeakersKept
    BY DEF SpeakersInv, SpeakersKept, RowsCleaned, RowsFollowTranscript
<1>2. QED
    BY <1>1, SpeakersInvInit, SpeakersInvStep, PTL DEF SpeakersSpec
-----------------------------------------------------------------------------
(***************************************************************************)
(* AudioFiles: the files of the chunks and what is merged from them.       *)
(***************************************************************************)
IsMerger(r) == r = [at |-> r.at, track |-> r.track, tmp |-> r.tmp, trims |-> r.trims]

\* What a capture leaves: every chunk has a microphone, and what breaks a chunk
\* breaks both its tracks.
CaptureLeft(files) ==
    /\ \A t \in AudioTracks : files[t] = [c \in Indices |-> files[t][c]]
    /\ \A t \in AudioTracks, c \in Indices :
           \/ files[t][c] = NoFile
           \/ \E q \in {"good", "torn", "bad"} : files[t][c] = File(<<c>>, q)
    /\ \A c \in Indices : files["mic"][c] # NoFile
    /\ \A c \in Indices : files["system"][c] \in {NoFile, files["mic"][c]}

\* Chunk 0 is in its place, and a root file is a merged one.
Whole(files, t) ==
    /\ chunkWav[t][0] = files[t][0]
    /\ rootWav[t] # NoFile =>
           /\ sentinel
           /\ \/ rootWav[t] = File(recorded[t], "good")
              \/ keep # 0 /\ rootWav[t] = File(SubSeq(recorded[t], 1, keep), "good")

\* Chunk 0 is the root file, and no merge has passed it over.
AsOlder(files, t) ==
    /\ chunkWav[t][0] = NoFile /\ files[t][0] # NoFile /\ rootWav[t] = files[t][0]
    /\ sentinel => Listed(t) = {} /\ rootWav[t].quality # "bad"

ChunksStand(files, older) ==
    IF callDir
    THEN \A t \in AudioTracks :
             /\ \A c \in Indices \ {0} : chunkWav[t][c] = files[t][c]
             /\ Whole(files, t) \/ (older /\ AsOlder(files, t))
             /\ older /\ TopChunk = 0 => chunkWav[t][0] = NoFile
    ELSE /\ ~sentinel
         /\ \A t \in AudioTracks :
                rootWav[t] = NoFile /\ \A c \in Indices : chunkWav[t][c] = NoFile

\* A merger has promoted what was to be promoted before it copies, and copies
\* what was recorded.
Settled(files, t) ==
    callDir /\ files[t][0] # NoFile /\ chunkWav[t][0] = NoFile => Listed(t) = {}
MergerStands(files, r) ==
    /\ IsMerger(r) /\ r.track \in AudioTracks
    /\ r.at \in {"promote system", "list", "mark", "rename"} => Settled(files, "mic")
    /\ r.at \in {"list", "mark", "rename"} => Settled(files, "system")
    /\ r.at \in {"mark", "rename"} =>
           /\ r.tmp = recorded[r.track]
           /\ callDir => /\ chunkWav[r.track][0] = files[r.track][0]
                         /\ r.at = "rename" => sentinel
                         /\ \A t \in AudioTracks :
                               files[t][0] # NoFile /\ chunkWav[t][0] = NoFile =>
                                   rootWav[t].quality # "bad"
    /\ r.at \in {"measure", "trim"} => keep # 0
    /\ r.at = "trim" =>
           /\ r.tmp = SubSeq(recorded[r.track], 1, keep)
           /\ callDir => sentinel /\ chunkWav[r.track][0] = files[r.track][0]

AudioInvOf(files, older) ==
    /\ CaptureLeft(files) /\ older \in BOOLEAN
    /\ callDir \in BOOLEAN /\ sentinel \in BOOLEAN /\ keep \in Nat
    /\ rootWav = [t \in AudioTracks |-> rootWav[t]]
    /\ chunkWav = [t \in AudioTracks |-> [c \in Indices |-> chunkWav[t][c]]]
    /\ mergers = [m \in Mergers |-> mergers[m]]
    /\ \A t \in AudioTracks : recorded[t] = Recorded(files[t])
    /\ ChunksStand(files, older)
    /\ \A m \in Mergers : MergerStands(files, mergers[m])

AudioInv == \E files, older : AudioInvOf(files, older)

(* What is put together of the chunks. *)
LEMMA InOrderIs ==
    ASSUME NEW S, S \subseteq Nat, IsFiniteSet(S)
    PROVE  /\ InOrder(S) \in Seq(Nat) /\ Len(InOrder(S)) = Cardinality(S)
           /\ Range(InOrder(S)) \subseteq S
<1>1. Cardinality(S) \in Nat
    BY FS_CardinalityType
<1>2. ASSUME NEW n \in 1..Cardinality(S)
      PROVE  (CHOOSE c \in S : Cardinality({d \in S : d < c}) = n - 1) \in S
  <2>1. n - 1 \in Nat /\ n - 1 < Cardinality(S)
    BY <1>1
  <2>2. \E c \in S : Cardinality({d \in S : d < c}) = n - 1
    BY <2>1, NthThere
  <2>3. QED
    BY <2>2
<1>3. InOrder(S) \in [1..Cardinality(S) -> S]
    BY <1>2 DEF InOrder
<1>4. InOrder(S) \in [1..Cardinality(S) -> Nat]
    BY <1>3
<1>5. QED
    BY <1>1, <1>3, <1>4 DEF Range

LEMMA InOrderGrows ==
    ASSUME NEW S, S \subseteq Nat, IsFiniteSet(S), NEW c \in Nat, \A d \in S : d < c
    PROVE  InOrder(S \cup {c}) = InOrder(S) \o <<c>>
<1> DEFINE Nth(n, K) == {e \in K : Cardinality({d \in K : d < e}) = n - 1}
           T == S \cup {c}
<1>1. c \notin S /\ Cardinality(S) \in Nat /\ Cardinality(T) = Cardinality(S) + 1
      /\ IsFiniteSet(T) /\ T \subseteq Nat
    <2>1. c \notin S
        OBVIOUS
    <2>2. QED
        BY <2>1, FS_CardinalityType, FS_AddElement
<1>2. {d \in T : d < c} = S
    <2>1. ~(c < c)
        OBVIOUS
    <2>2. QED
        BY <2>1
<1>3. ASSUME NEW e \in S
      PROVE  /\ {d \in T : d < e} = {d \in S : d < e}
             /\ Cardinality({d \in S : d < e}) < Cardinality(S)
    <2>1. ~(c < e) /\ ~(e < e)
        OBVIOUS
    <2>2. {d \in T : d < e} = {d \in S : d < e}
        BY <2>1
    <2>3. {d \in S : d < e} \in SUBSET S /\ {d \in S : d < e} # S
        BY <2>1
    <2>4. Cardinality({d \in S : d < e}) < Cardinality(S)
        <3>1. PICK K : K = {d \in S : d < e}
            OBVIOUS
        <3>2. /\ IsFiniteSet(K) /\ Cardinality(K) <= Cardinality(S)
              /\ Cardinality(S) # Cardinality(K)
            BY <2>3, <3>1, FS_Subset
        <3>3. Cardinality(K) \in Nat /\ Cardinality(S) \in Nat
            BY <3>2, FS_CardinalityType
        <3>4. QED
            BY <3>1, <3>2, <3>3
    <2>5. QED
        BY <2>2, <2>4
<1>4. ASSUME NEW n \in 1..Cardinality(S) PROVE InOrder(T)[n] = InOrder(S)[n]
    <2>1. n # Cardinality(S) + 1 /\ n \in 1..Cardinality(T)
        BY <1>1
    <2>2. Nth(n, T) = Nth(n, S)
        <3>1. c \notin Nth(n, T)
            BY <1>1, <1>2, <2>1
        <3>2. \A e \in S : e \in Nth(n, T) <=> e \in Nth(n, S)
            BY <1>3
        <3>3. QED
            BY <3>1, <3>2
    <2>3. /\ InOrder(T)[n] = CHOOSE e : e \in Nth(n, T)
          /\ InOrder(S)[n] = CHOOSE e : e \in Nth(n, S)
        BY <2>1 DEF InOrder
    <2>4. QED
        BY <2>2, <2>3
<1>5. InOrder(T)[Cardinality(S) + 1] = c
    <2> DEFINE n == Cardinality(S) + 1
    <2>1. n \in 1..Cardinality(T) /\ n - 1 = Cardinality(S)
        BY <1>1
    <2>2. c \in T /\ Cardinality({d \in T : d < c}) = n - 1
        BY <1>2, <2>1
    <2>3. ASSUME NEW e \in T, Cardinality({d \in T : d < e}) = n - 1 PROVE e = c
        BY <1>1, <1>3, <2>1, <2>3
    <2>4. (CHOOSE e \in T : Cardinality({d \in T : d < e}) = n - 1) = c
        BY <2>2, <2>3
    <2>5. QED
        BY <2>1, <2>4 DEF InOrder
<1>6. /\ InOrder(S) \in Seq(Nat) /\ Len(InOrder(S)) = Cardinality(S)
      /\ InOrder(T) \in Seq(Nat) /\ Len(InOrder(T)) = Cardinality(S) + 1
    BY <1>1, InOrderIs
<1>7. QED
    <2> HIDE DEF T
    <2> DEFINE a == InOrder(T)
               b == InOrder(S) \o <<c>>
    <2>1. b \in Seq(Nat) /\ Len(b) = Cardinality(S) + 1 /\ a \in Seq(Nat)
        BY <1>1, <1>6
    <2>2. \A n \in 1..Cardinality(S) + 1 : a[n] = b[n]
        BY <1>1, <1>4, <1>5, <1>6
    <2>3. a = b
        <3> HIDE DEF a, b
        <3>1. Len(a) = Len(b)
            BY <1>6, <2>1 DEF a
        <3>2. QED
            BY <1>1, <2>1, <2>2, <3>1
    <2>4. QED
        BY <2>3 DEF T

LEMMA JoinedIs ==
    ASSUME NEW f, \A c \in Indices : \/ f[c] = NoFile
                                     \/ \E q \in {"good", "torn", "bad"} : f[c] = File(<<c>>, q)
    PROVE  Joined(f) = Recorded(f)
<1> DEFINE S == {c \in Indices : IsThere(f[c]) /\ f[c].quality # "bad"}
           Up(n) == {c \in S : c < n}
           g == [n \in 0..TopChunk + 1 |-> InOrder(Up(n))]
<1>1. TopChunk \in Nat /\ S \subseteq Nat /\ \A n : Up(n) \subseteq Nat /\ IsFiniteSet(Up(n))
  <2>1. TopChunk \in Nat /\ IsFiniteSet(Indices) /\ Indices \subseteq Nat
    BY AudioAssumption, FS_Interval DEF Indices
  <2>2. QED
    BY <2>1, FS_Subset
<1>2. ASSUME NEW n \in Indices PROVE InOrder(Up(n + 1)) = InOrder(Up(n)) \o Sound(f[n])
  <2>1. n \in Nat /\ InOrder(Up(n)) \in Seq(Nat)
    BY <1>1, InOrderIs DEF Indices
  <2>2. CASE n \in S
    <3>1. Sound(f[n]) = <<n>>
        <4>1. f[n] # NoFile /\ f[n].quality # "bad"
            BY <2>2 DEF IsThere
        <4>2. PICK q : f[n] = File(<<n>>, q)
            BY <4>1
        <4>3. QED
            BY <4>1, <4>2 DEF Sound, File
    <3>2. Up(n + 1) = Up(n) \cup {n}
        BY <1>1, <2>1, <2>2
    <3>3. QED
        BY <1>1, <2>1, <3>1, <3>2, InOrderGrows
  <2>3. CASE n \notin S
    <3>1. Sound(f[n]) = <<>>
        BY <2>3 DEF Sound, File, NoFile, IsThere
    <3>2. Up(n + 1) = Up(n)
        BY <1>1, <2>1, <2>3
    <3>3. \A s \in Seq(Nat) : s \o <<>> = s
        BY ConcatEmptySeq
    <3>4. QED
        BY <2>1, <3>1, <3>2, <3>3
  <2>4. QED
    BY <2>2, <2>3
<1>3. InOrder(Up(0)) = <<>>
  <2>1. Up(0) = {}
    BY <1>1
  <2>2. Len(InOrder(Up(0))) = 0 /\ InOrder(Up(0)) \in Seq(Nat)
    BY <1>1, <2>1, InOrderIs, FS_EmptySet
  <2>3. QED
    BY <2>2
<1>4. g = [n \in 0..TopChunk + 1 |-> IF n = 0 THEN <<>> ELSE g[n - 1] \o Sound(f[n - 1])]
  <2>1. ASSUME NEW n \in 0..TopChunk + 1, n # 0
        PROVE  InOrder(Up(n)) = InOrder(Up(n - 1)) \o Sound(f[n - 1])
    <3>1. n - 1 \in Indices /\ (n - 1) + 1 = n
        BY <1>1, <2>1 DEF Indices
    <3>2. QED
        BY <1>2, <3>1
  <2>2. \A n \in 0..TopChunk + 1 : n # 0 => n - 1 \in 0..TopChunk + 1
    BY <1>1
  <2>3. QED
    BY <1>3, <2>1, <2>2
<1>5. PICK u : /\ u = [n \in 0..TopChunk + 1 |->
                          IF n = 0 THEN <<>> ELSE u[n - 1] \o Sound(f[n - 1])]
               /\ Joined(f) = u[TopChunk + 1]
  <2> HIDE DEF g
  <2>1. \E u : u = [n \in 0..TopChunk + 1 |->
                       IF n = 0 THEN <<>> ELSE u[n - 1] \o Sound(f[n - 1])]
    BY <1>4
  <2>2. QED
    BY <2>1 DEF Joined
<1>6. \A n \in 0..TopChunk + 1 : u[n] = g[n]
  <2> HIDE DEF g
  <2> DEFINE T == {n \in Nat : n \in 0..TopChunk + 1 => u[n] = g[n]}
  <2>1. 0 \in T
    BY <1>1, <1>4, <1>5
  <2>2. ASSUME NEW n \in Nat, n \in T PROVE n + 1 \in T
    <3> SUFFICES ASSUME n + 1 \in 0..TopChunk + 1 PROVE u[n + 1] = g[n + 1]
        OBVIOUS
    <3>1. n \in 0..TopChunk + 1 /\ n + 1 # 0 /\ (n + 1) - 1 = n
        BY <1>1
    <3>2. u[n + 1] = u[n] \o Sound(f[n]) /\ g[n + 1] = g[n] \o Sound(f[n])
        BY <1>4, <1>5, <3>1
    <3>3. QED
        BY <2>2, <3>1, <3>2
  <2>3. Nat \subseteq T
    <3> HIDE DEF T
    <3>1. QED
        BY <2>1, <2>2, SetInduction
  <2>4. QED
    BY <1>1, <2>3
<1>7. Up(TopChunk + 1) = S
    BY <1>1 DEF Indices
<1>8. QED
    BY <1>1, <1>5, <1>6, <1>7 DEF Recorded

LEMMA RecordedFacts ==
    ASSUME NEW files, CaptureLeft(files), NEW t \in AudioTracks
    PROVE  /\ Joined(files[t]) = Recorded(files[t])
           /\ Recorded(files[t]) \in Seq(Nat)
           /\ \A c \in Range(Recorded(files[t])) :
                  c \in Indices /\ files[t][c] # NoFile /\ files[t][c].holds = <<c>>
           /\ /\ files[t][0] # NoFile /\ files[t][0].quality # "bad"
              /\ \A c \in Indices \ {0} : files[t][c] = NoFile
              => Recorded(files[t]) = <<0>>
<1> DEFINE S == {c \in Indices : IsThere(files[t][c]) /\ files[t][c].quality # "bad"}
<1>1. TopChunk \in Nat /\ 0 \in Indices /\ S \subseteq Nat /\ IsFiniteSet(S)
  <2>1. TopChunk \in Nat /\ IsFiniteSet(Indices) /\ Indices \subseteq Nat /\ 0 \in Indices
    BY AudioAssumption, FS_Interval DEF Indices
  <2>2. QED
    BY <2>1, FS_Subset
<1>2. \A c \in Indices : \/ files[t][c] = NoFile
                         \/ \E q \in {"good", "torn", "bad"} : files[t][c] = File(<<c>>, q)
    BY DEF CaptureLeft
<1>3. Joined(files[t]) = Recorded(files[t])
    BY <1>2, JoinedIs
<1>4. Recorded(files[t]) \in Seq(Nat) /\ Range(Recorded(files[t])) \subseteq S
    BY <1>1, InOrderIs DEF Recorded
<1>5. ASSUME NEW c \in S
      PROVE  c \in Indices /\ files[t][c] # NoFile /\ files[t][c].holds = <<c>>
  <2>1. c \in Indices /\ files[t][c] # NoFile
    BY DEF IsThere
  <2>2. PICK q : files[t][c] = File(<<c>>, q)
    BY <1>2, <2>1
  <2>3. QED
    BY <2>1, <2>2 DEF File
<1>6. ASSUME files[t][0] # NoFile, files[t][0].quality # "bad",
             \A c \in Indices \ {0} : files[t][c] = NoFile
      PROVE  Recorded(files[t]) = <<0>>
  <2>1. S = {} \cup {0}
    BY <1>1, <1>6 DEF IsThere
  <2>2. InOrder({}) = <<>>
    <3>1. InOrder({}) \in Seq(Nat) /\ Len(InOrder({})) = 0
        BY InOrderIs, FS_EmptySet
    <3>2. QED
        BY <3>1
  <2>3. InOrder({} \cup {0}) = <<>> \o <<0>>
    <3>1. {} \subseteq Nat /\ IsFiniteSet({}) /\ 0 \in Nat /\ \A d \in {} : d < 0
        BY FS_EmptySet
    <3>2. QED
        BY <2>2, <3>1, InOrderGrows
  <2>4. QED
    BY <2>1, <2>3 DEF Recorded
<1>7. QED
    BY <1>3, <1>4, <1>5, <1>6

\* The files as the property sees them.
LEMMA AudioIsKept ==
    ASSUME NEW files, NEW older, AudioInvOf(files, older)
    PROVE  AudioKept
<1>0. 0 \in Indices
    BY AudioAssumption DEF Indices
<1>1. ASSUME NEW t \in AudioTracks, callDir, NEW c \in Range(recorded[t])
      PROVE  c \in Range(rootWav[t].holds) \/ \E i \in Indices : c \in Range(chunkWav[t][i].holds)
  <2>1. c \in Indices /\ files[t][c] # NoFile /\ files[t][c].holds = <<c>>
    BY <1>1, RecordedFacts DEF AudioInvOf
  <2>2. c \in Range(files[t][c].holds)
    BY <2>1 DEF Range
  <2>3. chunkWav[t][c] = files[t][c] \/ (c = 0 /\ rootWav[t] = files[t][c])
    BY <1>1, <2>1 DEF AudioInvOf, ChunksStand, Whole, AsOlder
  <2>4. QED
    BY <2>1, <2>2, <2>3
<1>2. ASSUME NEW t \in AudioTracks, ~callDir PROVE ~IsThere(rootWav[t]) /\ Listed(t) = {}
    BY <1>2 DEF AudioInvOf, ChunksStand, IsThere, Listed
<1>3. ASSUME NEW t \in AudioTracks, sentinel, IsThere(rootWav[t])
      PROVE  \/ rootWav[t].holds = recorded[t]
             \/ keep # 0 /\ rootWav[t].holds = SubSeq(recorded[t], 1, keep)
  <2>1. callDir /\ rootWav[t] # NoFile
    BY <1>3 DEF AudioInvOf, ChunksStand, IsThere
  <2>2. CASE Whole(files, t)
    BY <2>1, <2>2 DEF Whole, File
  <2>3. CASE AsOlder(files, t)
    <3>1. /\ rootWav[t] = files[t][0] /\ files[t][0] # NoFile /\ files[t][0].quality # "bad"
          /\ Listed(t) = {}
        BY <1>3, <2>3 DEF AsOlder
    <3>2. \A c \in Indices \ {0} : files[t][c] = NoFile
        BY <2>1, <3>1 DEF AudioInvOf, ChunksStand, Listed, IsThere
    <3>3. recorded[t] = <<0>>
        BY <3>1, <3>2, RecordedFacts DEF AudioInvOf
    <3>4. rootWav[t].holds = <<0>>
        <4>1. PICK q : files[t][0] = File(<<0>>, q)
            BY <1>0, <3>1 DEF AudioInvOf, CaptureLeft
        <4>2. QED
            BY <3>1, <4>1 DEF File
    <3>5. QED
        BY <3>3, <3>4
  <2>4. QED
    BY <2>1, <2>2, <2>3 DEF AudioInvOf, ChunksStand
<1>4. QED
    BY <1>1, <1>2, <1>3 DEF AudioKept, RootIsTheRecording, SoundIsKept

LEMMA AudioInvInit == AudioInit => AudioInv
<1> SUFFICES ASSUME AudioInit PROVE AudioInv
    OBVIOUS
<1>0. 0 \in Indices /\ keep \in Nat
    BY AudioAssumption DEF Indices, AudioInit
<1>1. PICK lacks \in SUBSET Indices, broken \in Indices, how \in {"good", "torn", "bad"},
           older \in BOOLEAN :
        LET files == [t \in AudioTracks |-> [c \in Indices |->
                          IF t = "system" /\ c \in lacks THEN NoFile
                          ELSE File(<<c>>, IF c = broken THEN how ELSE "good")]]
        IN  /\ recorded = [t \in AudioTracks |-> Recorded(files[t])]
            /\ rootWav = [t \in AudioTracks |-> IF older THEN files[t][0] ELSE NoFile]
            /\ chunkWav = IF older THEN [t \in AudioTracks |-> [files[t] EXCEPT ![0] = NoFile]]
                          ELSE files
    BY DEF AudioInit
<1>2. PICK files : files = [t \in AudioTracks |-> [c \in Indices |->
                                IF t = "system" /\ c \in lacks THEN NoFile
                                ELSE File(<<c>>, IF c = broken THEN how ELSE "good")]]
    OBVIOUS
<1>3. /\ recorded = [t \in AudioTracks |-> Recorded(files[t])]
      /\ rootWav = [t \in AudioTracks |-> IF older THEN files[t][0] ELSE NoFile]
      /\ chunkWav = IF older THEN [t \in AudioTracks |-> [files[t] EXCEPT ![0] = NoFile]]
                    ELSE files
    BY <1>1, <1>2
<1>4. \A t \in AudioTracks, c \in Indices :
          files[t][c] = IF t = "system" /\ c \in lacks THEN NoFile
                        ELSE File(<<c>>, IF c = broken THEN how ELSE "good")
    BY <1>2
<1>5. CaptureLeft(files)
  <2>1. \A t \in AudioTracks : files[t] = [c \in Indices |-> files[t][c]]
    BY <1>2
  <2>2. \A c \in Indices, q \in {"good", "torn", "bad"} : File(<<c>>, q) # NoFile
    BY DEF File, NoFile
  <2>3. ASSUME NEW t \in AudioTracks, NEW c \in Indices
        PROVE  \/ files[t][c] = NoFile
               \/ \E q \in {"good", "torn", "bad"} : files[t][c] = File(<<c>>, q)
    BY <1>4
  <2>4. \A c \in Indices : files["mic"][c] = File(<<c>>, IF c = broken THEN how ELSE "good")
    BY <1>4 DEF AudioTracks
  <2>5. \A c \in Indices : files["system"][c] \in {NoFile, files["mic"][c]}
    BY <1>4 DEF AudioTracks
  <2>6. \A c \in Indices : files["mic"][c] # NoFile
    BY <2>2, <2>4
  <2>7. QED
    BY <2>1, <2>3, <2>5, <2>6 DEF CaptureLeft
<1>6. /\ rootWav = [t \in AudioTracks |-> rootWav[t]]
      /\ chunkWav = [t \in AudioTracks |-> [c \in Indices |-> chunkWav[t][c]]]
      /\ \A t \in AudioTracks : recorded[t] = Recorded(files[t])
  <2>1. \A t \in AudioTracks : chunkWav[t] = IF older THEN [files[t] EXCEPT ![0] = NoFile]
                                            ELSE files[t]
    BY <1>3
  <2>2. \A t \in AudioTracks : chunkWav[t] = [c \in Indices |-> chunkWav[t][c]]
    BY <1>5, <2>1 DEF CaptureLeft
  <2>3. chunkWav = [t \in AudioTracks |-> chunkWav[t]]
    BY <1>2, <1>3
  <2>4. QED
    BY <1>3, <2>2, <2>3
<1>7. /\ callDir = TRUE /\ sentinel = FALSE /\ mergers = [m \in Mergers |-> Resting]
      /\ mergers = [m \in Mergers |-> mergers[m]]
    BY DEF AudioInit
<1>8. ChunksStand(files, older)
  <2> SUFFICES ASSUME NEW t \in AudioTracks
               PROVE  /\ \A c \in Indices \ {0} : chunkWav[t][c] = files[t][c]
                      /\ Whole(files, t) \/ (older /\ AsOlder(files, t))
                      /\ older /\ TopChunk = 0 => chunkWav[t][0] = NoFile
    BY <1>7 DEF ChunksStand
  <2>1. CASE ~older
    BY <1>3, <2>1 DEF Whole
  <2>2. CASE older
    <3>1. chunkWav[t] = [files[t] EXCEPT ![0] = NoFile] /\ rootWav[t] = files[t][0]
        BY <1>3, <2>2
    <3>2. chunkWav[t][0] = NoFile /\ \A c \in Indices \ {0} : chunkWav[t][c] = files[t][c]
        BY <1>0, <1>5, <3>1 DEF CaptureLeft
    <3>3. QED
        BY <1>7, <2>2, <3>1, <3>2 DEF Whole, AsOlder
  <2>3. QED
    BY <2>1, <2>2
<1>9. \A m \in Mergers : MergerStands(files, mergers[m])
    BY <1>7 DEF MergerStands, IsMerger, Resting, AudioTracks
<1>10. AudioInvOf(files, older)
    BY <1>0, <1>1, <1>5, <1>6, <1>7, <1>8, <1>9 DEF AudioInvOf
<1>11. QED
    BY <1>10 DEF AudioInv

(* The steps of the mergers. *)
LEMMA OneMerger ==
    ASSUME NEW files, NEW m \in Mergers, NEW r,
           mergers = [n \in Mergers |-> mergers[n]], mergers' = [mergers EXCEPT ![m] = r],
           \A n \in Mergers : MergerStands(files, mergers[n]),
           \A q : MergerStands(files, q) => MergerStands(files, q)',
           MergerStands(files, r)'
    PROVE  /\ (\A n \in Mergers : MergerStands(files, mergers[n]))'
           /\ mergers' = [n \in Mergers |-> mergers'[n]]
<1>1. ASSUME NEW n \in Mergers PROVE MergerStands(files, mergers[n])'
  <2>1. PICK q : q = mergers'[n]
    OBVIOUS
  <2>2. q = IF n = m THEN r ELSE mergers[n]
    BY <2>1
  <2>3. MergerStands(files, q)'
    BY <2>2
  <2>4. QED
    BY <2>1, <2>3 DEF MergerStands, IsMerger
<1>2. QED
    BY <1>1

LEMMA SameFiles ==
    ASSUME NEW files, NEW older,
           UNCHANGED <<callDir, rootWav, chunkWav, sentinel, keep, recorded>>
    PROVE  /\ ChunksStand(files, older) => ChunksStand(files, older)'
           /\ \A q : MergerStands(files, q) => MergerStands(files, q)'
<1>1. \A t \in AudioTracks : Listed(t)' = Listed(t)
    BY DEF Listed
<1>2. /\ Settled(files, "mic") => Settled(files, "mic")'
      /\ Settled(files, "system") => Settled(files, "system")'
    BY <1>1 DEF Settled, AudioTracks
<1>3. ChunksStand(files, older) => ChunksStand(files, older)'
    BY <1>1 DEF ChunksStand, Whole, AsOlder
<1>4. ASSUME NEW q, MergerStands(files, q) PROVE MergerStands(files, q)'
    BY <1>2, <1>4 DEF MergerStands
<1>5. QED
    BY <1>3, <1>4

\* A merger in another place.
LEMMA AtPut ==
    ASSUME NEW r, IsMerger(r), NEW at, NEW s, s = [r EXCEPT !.at = at]
    PROVE  s = [at |-> at, track |-> r.track, tmp |-> r.tmp, trims |-> r.trims]
<1>1. r \in [at : {r.at, at}, track : {r.track}, tmp : {r.tmp}, trims : {r.trims}]
  <2>1. PICK a, b, c, d : r = [at |-> a, track |-> b, tmp |-> c, trims |-> d]
    BY DEF IsMerger
  <2>2. QED
    BY <2>1
<1>2. s \in [at : {r.at, at}, track : {r.track}, tmp : {r.tmp}, trims : {r.trims}]
    BY <1>1
<1>3. s.at = at /\ s.track = r.track /\ s.tmp = r.tmp /\ s.trims = r.trims
    BY <1>1
<1>4. QED
    BY <1>2, <1>3

LEMMA AtTrimsPut ==
    ASSUME NEW r, IsMerger(r), NEW at, NEW trims, NEW s, s = [r EXCEPT !.at = at, !.trims = trims]
    PROVE  s = [at |-> at, track |-> r.track, tmp |-> r.tmp, trims |-> trims]
<1>1. r \in [at : {r.at, at}, track : {r.track}, tmp : {r.tmp}, trims : {r.trims, trims}]
  <2>1. PICK a, b, c, d : r = [at |-> a, track |-> b, tmp |-> c, trims |-> d]
    BY DEF IsMerger
  <2>2. QED
    BY <2>1
<1>2. s \in [at : {r.at, at}, track : {r.track}, tmp : {r.tmp}, trims : {r.trims, trims}]
    BY <1>1
<1>3. s.at = at /\ s.track = r.track /\ s.tmp = r.tmp /\ s.trims = trims
    BY <1>1
<1>4. QED
    BY <1>2, <1>3

LEMMA AtTrackPut ==
    ASSUME NEW r, IsMerger(r), NEW at, NEW track, NEW s, s = [r EXCEPT !.at = at, !.track = track]
    PROVE  s = [at |-> at, track |-> track, tmp |-> r.tmp, trims |-> r.trims]
<1>1. r \in [at : {r.at, at}, track : {r.track, track}, tmp : {r.tmp}, trims : {r.trims}]
  <2>1. PICK a, b, c, d : r = [at |-> a, track |-> b, tmp |-> c, trims |-> d]
    BY DEF IsMerger
  <2>2. QED
    BY <2>1
<1>2. s \in [at : {r.at, at}, track : {r.track, track}, tmp : {r.tmp}, trims : {r.trims}]
    BY <1>1
<1>3. s.at = at /\ s.track = track /\ s.tmp = r.tmp /\ s.trims = r.trims
    BY <1>1
<1>4. QED
    BY <1>2, <1>3

LEMMA AtTmpPut ==
    ASSUME NEW r, IsMerger(r), NEW at, NEW tmp, NEW s, s = [r EXCEPT !.at = at, !.tmp = tmp]
    PROVE  s = [at |-> at, track |-> r.track, tmp |-> tmp, trims |-> r.trims]
<1>1. r \in [at : {r.at, at}, track : {r.track}, tmp : {r.tmp, tmp}, trims : {r.trims}]
  <2>1. PICK a, b, c, d : r = [at |-> a, track |-> b, tmp |-> c, trims |-> d]
    BY DEF IsMerger
  <2>2. QED
    BY <2>1
<1>2. s \in [at : {r.at, at}, track : {r.track}, tmp : {r.tmp, tmp}, trims : {r.trims}]
    BY <1>1
<1>3. s.at = at /\ s.track = r.track /\ s.tmp = tmp /\ s.trims = r.trims
    BY <1>1
<1>4. QED
    BY <1>2, <1>3

LEMMA AtTrackTmpPut ==
    ASSUME NEW r, IsMerger(r), NEW at, NEW track, NEW tmp, NEW s,
           s = [r EXCEPT !.at = at, !.track = track, !.tmp = tmp]
    PROVE  s = [at |-> at, track |-> track, tmp |-> tmp, trims |-> r.trims]
<1>1. r \in [at : {r.at, at}, track : {r.track, track}, tmp : {r.tmp, tmp}, trims : {r.trims}]
  <2>1. PICK a, b, c, d : r = [at |-> a, track |-> b, tmp |-> c, trims |-> d]
    BY DEF IsMerger
  <2>2. QED
    BY <2>1
<1>2. s \in [at : {r.at, at}, track : {r.track, track}, tmp : {r.tmp, tmp}, trims : {r.trims}]
    BY <1>1
<1>3. s.at = at /\ s.track = track /\ s.tmp = tmp /\ s.trims = r.trims
    BY <1>1
<1>4. QED
    BY <1>2, <1>3

LEMMA OnlyMerger ==
    ASSUME NEW files, NEW older, AudioInvOf(files, older),
           UNCHANGED <<callDir, rootWav, chunkWav, sentinel, keep, recorded>>,
           NEW m \in Mergers, NEW r, MergerStands(files, r), mergers' = [mergers EXCEPT ![m] = r]
    PROVE  AudioInvOf(files, older)'
<1>1. /\ ChunksStand(files, older)'
      /\ \A q : MergerStands(files, q) => MergerStands(files, q)'
    BY SameFiles DEF AudioInvOf
<1>2. MergerStands(files, r)'
    BY <1>1
<1>3. /\ (\A n \in Mergers : MergerStands(files, mergers[n]))'
      /\ mergers' = [n \in Mergers |-> mergers'[n]]
    BY <1>1, <1>2, OneMerger DEF AudioInvOf
<1>4. QED
    BY <1>1, <1>3 DEF AudioInvOf

LEMMA MergerFacts ==
    ASSUME NEW files, NEW older, AudioInvOf(files, older), NEW m \in Mergers
    PROVE  /\ MergerStands(files, mergers[m]) /\ IsMerger(mergers[m])
           /\ mergers[m].track \in AudioTracks
BY DEF AudioInvOf, MergerStands

LEMMA StartsKeep ==
    ASSUME NEW files, NEW older, AudioInvOf(files, older),
           \/ \E t \in AudioTracks : PlayerMerges(t)
           \/ \E trims \in BOOLEAN : RunMerges(trims)
           \/ RunTrims
    PROVE  AudioInvOf(files, older)'
<1>1. ASSUME NEW t \in AudioTracks, PlayerMerges(t) PROVE AudioInvOf(files, older)'
  <2>1. PICK r : r = [mergers["player"] EXCEPT !.at = "promote mic"]
    OBVIOUS
  <2>2. "player" \in Mergers /\ mergers' = [mergers EXCEPT !["player"] = r]
    BY <1>1, <2>1 DEF PlayerMerges, Becomes, Mergers
  <2>3. IsMerger(r) /\ r.track \in AudioTracks /\ r.at = "promote mic"
    <3>1. r = [at |-> "promote mic", track |-> mergers["player"].track,
               tmp |-> mergers["player"].tmp, trims |-> mergers["player"].trims]
        BY <2>1, <2>2, MergerFacts, AtPut
    <3>2. QED
        BY <2>2, <3>1, MergerFacts DEF IsMerger
  <2>4. MergerStands(files, r)
    BY <2>3 DEF MergerStands
  <2>5. QED
    BY <1>1, <2>2, <2>4, OnlyMerger DEF PlayerMerges
<1>2. ASSUME NEW trims \in BOOLEAN, RunMerges(trims) PROVE AudioInvOf(files, older)'
  <2>1. PICK r : r = [mergers["run"] EXCEPT !.at = "promote mic", !.trims = trims]
    OBVIOUS
  <2>2. "run" \in Mergers /\ mergers' = [mergers EXCEPT !["run"] = r]
    BY <1>2, <2>1 DEF RunMerges, Mergers, AudioInvOf
  <2>3. IsMerger(r) /\ r.track \in AudioTracks /\ r.at = "promote mic"
    <3>1. r = [at |-> "promote mic", track |-> mergers["run"].track,
               tmp |-> mergers["run"].tmp, trims |-> trims]
        BY <2>1, <2>2, MergerFacts, AtTrimsPut
    <3>2. QED
        BY <2>2, <3>1, MergerFacts DEF IsMerger
  <2>4. MergerStands(files, r)
    BY <2>3 DEF MergerStands
  <2>5. QED
    BY <1>2, <2>2, <2>4, OnlyMerger DEF RunMerges
<1>3. CASE RunTrims
  <2>1. PICK r : r = [mergers["run"] EXCEPT !.at = "measure", !.trims = TRUE]
    OBVIOUS
  <2>2. "run" \in Mergers /\ mergers' = [mergers EXCEPT !["run"] = r] /\ keep # 0
    BY <1>3, <2>1 DEF RunTrims, Mergers, AudioInvOf
  <2>3. IsMerger(r) /\ r.track \in AudioTracks /\ r.at = "measure"
    <3>1. r = [at |-> "measure", track |-> mergers["run"].track,
               tmp |-> mergers["run"].tmp, trims |-> TRUE]
        BY <2>1, <2>2, MergerFacts, AtTrimsPut
    <3>2. QED
        BY <2>2, <3>1, MergerFacts DEF IsMerger
  <2>4. MergerStands(files, r)
    BY <2>2, <2>3 DEF MergerStands
  <2>5. QED
    BY <1>3, <2>2, <2>4, OnlyMerger DEF RunTrims
<1>4. QED
    BY <1>1, <1>2, <1>3

\* A promotion puts the root file in the place of chunk 0; after it, or without
\* one to do, there is nothing to promote.
LEMMA PromotedKeeps ==
    ASSUME NEW files, NEW older, AudioInvOf(files, older), NEW t \in AudioTracks, Promoted(t),
           UNCHANGED <<callDir, sentinel, keep, recorded>>
    PROVE  /\ ChunksStand(files, older)' /\ Settled(files, t)'
           /\ \A q : MergerStands(files, q) => MergerStands(files, q)'
           /\ rootWav' = [u \in AudioTracks |-> rootWav'[u]]
           /\ chunkWav' = [u \in AudioTracks |-> [c \in Indices |-> chunkWav'[u][c]]]
<1>0. 0 \in Indices
    BY AudioAssumption DEF Indices
<1>1. CASE PromotesRoot(t)
  <2>1. /\ chunkWav' = [chunkWav EXCEPT ![t][0] = rootWav[t]]
        /\ rootWav' = [rootWav EXCEPT ![t] = NoFile]
    BY <1>1 DEF Promoted
  <2>2. /\ ~sentinel /\ chunkWav[t][0] = NoFile /\ rootWav[t] # NoFile /\ Listed(t) # {}
    BY <1>1 DEF PromotesRoot, IsThere
  <2>3. callDir /\ older /\ rootWav[t] = files[t][0] /\ files[t][0] # NoFile
    BY <2>2 DEF AudioInvOf, ChunksStand, Whole, AsOlder
  <2>4. TopChunk # 0
    <3>1. PICK c \in Indices : chunkWav[t][c] # NoFile
        BY <2>2 DEF Listed, IsThere
    <3>2. c # 0
        BY <2>2, <3>1
    <3>3. QED
        BY <3>1, <3>2, AudioAssumption DEF Indices
  <2>5. /\ chunkWav'[t][0] = files[t][0] /\ rootWav'[t] = NoFile
        /\ \A c \in Indices \ {0} : chunkWav'[t][c] = chunkWav[t][c]
        /\ \A u \in AudioTracks \ {t} : chunkWav'[u] = chunkWav[u] /\ rootWav'[u] = rootWav[u]
    BY <1>0, <2>1, <2>3 DEF AudioInvOf
  <2>6. /\ rootWav' = [u \in AudioTracks |-> rootWav'[u]]
        /\ chunkWav' = [u \in AudioTracks |-> [c \in Indices |-> chunkWav'[u][c]]]
    BY <2>1 DEF AudioInvOf
  <2>7. Settled(files, t)'
    BY <2>3, <2>5 DEF Settled
  <2>8. ChunksStand(files, older)'
    <3>1. \A u \in AudioTracks : \A c \in Indices \ {0} : chunkWav'[u][c] = files[u][c]
        BY <2>3, <2>5 DEF AudioInvOf, ChunksStand
    <3>2. ASSUME NEW u \in AudioTracks \ {t}
          PROVE  Whole(files, u)' \/ (older /\ AsOlder(files, u)')
        <4>1. /\ chunkWav'[u] = chunkWav[u] /\ rootWav'[u] = rootWav[u]
              /\ sentinel' = sentinel /\ keep' = keep /\ recorded' = recorded
            BY <2>5
        <4>2. Listed(u)' = Listed(u)
            BY <4>1 DEF Listed
        <4>3. Whole(files, u) \/ (older /\ AsOlder(files, u))
            BY <2>3 DEF AudioInvOf, ChunksStand
        <4>4. Whole(files, u) => Whole(files, u)'
            BY <4>1 DEF Whole
        <4>5. AsOlder(files, u) => AsOlder(files, u)'
            BY <4>1, <4>2 DEF AsOlder
        <4>6. QED
            BY <4>3, <4>4, <4>5
    <3>3. Whole(files, t)'
        BY <2>5 DEF Whole
    <3>4. QED
        BY <2>3, <2>4, <3>1, <3>2, <3>3 DEF ChunksStand
  <2>9. ASSUME NEW q, MergerStands(files, q) PROVE MergerStands(files, q)'
    <3>1. \A u \in AudioTracks : Settled(files, u) => Settled(files, u)'
        BY <2>5, <2>7 DEF Settled, Listed
    <3>2. \A u \in AudioTracks : chunkWav[u][0] = files[u][0] => chunkWav'[u][0] = files[u][0]
        BY <2>5
    <3>3. \A u \in AudioTracks : files[u][0] # NoFile /\ chunkWav'[u][0] = NoFile =>
              chunkWav[u][0] = NoFile /\ rootWav'[u] = rootWav[u]
        BY <2>3, <2>5
    <3>4. {"mic", "system"} \subseteq AudioTracks /\ IsMerger(q) /\ q.track \in AudioTracks
        BY <2>9 DEF AudioTracks, MergerStands
    <3>5. Settled(files, "mic") => Settled(files, "mic")'
        BY <3>1, <3>4
    <3>6. Settled(files, "system") => Settled(files, "system")'
        BY <3>1, <3>4
    <3>7. QED
        BY <2>9, <3>2, <3>3, <3>4, <3>5, <3>6 DEF MergerStands
  <2>10. QED
    BY <2>6, <2>7, <2>8, <2>9
<1>2. CASE ~PromotesRoot(t)
  <2>1. UNCHANGED <<callDir, rootWav, chunkWav, sentinel, keep, recorded>>
    BY <1>2 DEF Promoted
  <2>2. /\ ChunksStand(files, older)'
        /\ \A q : MergerStands(files, q) => MergerStands(files, q)'
    BY <2>1, SameFiles DEF AudioInvOf
  <2>3. Settled(files, t)
    <3> SUFFICES ASSUME callDir, files[t][0] # NoFile, chunkWav[t][0] = NoFile
                 PROVE  Listed(t) = {}
        BY DEF Settled
    <3>1. AsOlder(files, t)
        BY DEF AudioInvOf, ChunksStand, Whole
    <3>2. QED
        BY <1>2, <3>1 DEF AsOlder, PromotesRoot, IsThere
  <2>4. Settled(files, t)'
    BY <2>1, <2>3 DEF Settled, Listed
  <2>5. QED
    BY <2>1, <2>2, <2>4 DEF AudioInvOf
<1>3. QED
    BY <1>1, <1>2

LEMMA PromotionsKeep ==
    ASSUME NEW files, NEW older, AudioInvOf(files, older),
           \/ RecoveryPromotes
           \/ \E m \in Mergers : PromoteMic(m) \/ PromoteSystem(m) \/ PromoteLate(m)
    PROVE  AudioInvOf(files, older)'
<1>0. {"mic", "system"} = AudioTracks
    BY DEF AudioTracks
<1>1. ASSUME NEW t \in AudioTracks, Promoted(t),
             UNCHANGED <<callDir, sentinel, keep, recorded, mergers>>
      PROVE  AudioInvOf(files, older)'
  <2>1. ASSUME NEW m \in Mergers PROVE MergerStands(files, mergers[m])'
    <3>1. PICK q : q = mergers[m]
        OBVIOUS
    <3>2. MergerStands(files, q)'
        BY <1>1, <3>1, PromotedKeeps, MergerFacts
    <3>3. QED
        BY <1>1, <3>1, <3>2 DEF MergerStands, IsMerger
  <2>2. QED
    BY <1>1, <2>1, PromotedKeeps DEF AudioInvOf
<1>2. CASE RecoveryPromotes
    BY <1>1, <1>2 DEF RecoveryPromotes
<1>3. ASSUME NEW m \in Mergers, PromoteLate(m) PROVE AudioInvOf(files, older)'
    BY <1>1, <1>3, MergerFacts DEF PromoteLate
<1>4. ASSUME NEW m \in Mergers, PromoteMic(m) PROVE AudioInvOf(files, older)'
  <2>1. PICK r : r = [mergers[m] EXCEPT !.at = "promote system"]
    OBVIOUS
  <2>2. /\ mergers' = [mergers EXCEPT ![m] = r] /\ Promoted("mic") /\ "mic" \in AudioTracks
        /\ UNCHANGED <<callDir, sentinel, keep, recorded>>
    BY <1>0, <1>4, <2>1 DEF PromoteMic, Becomes
  <2>3. IsMerger(r) /\ r.track \in AudioTracks /\ r.at = "promote system"
    <3>1. r = [at |-> "promote system", track |-> mergers[m].track,
               tmp |-> mergers[m].tmp, trims |-> mergers[m].trims]
        BY <2>1, MergerFacts, AtPut
    <3>2. QED
        BY <3>1, MergerFacts DEF IsMerger
  <2>4. /\ ChunksStand(files, older)' /\ Settled(files, "mic")'
        /\ \A q : MergerStands(files, q) => MergerStands(files, q)'
        /\ rootWav' = [u \in AudioTracks |-> rootWav'[u]]
        /\ chunkWav' = [u \in AudioTracks |-> [c \in Indices |-> chunkWav'[u][c]]]
    BY <2>2, PromotedKeeps
  <2>5. MergerStands(files, r)'
    BY <2>3, <2>4 DEF MergerStands
  <2>6. /\ (\A n \in Mergers : MergerStands(files, mergers[n]))'
        /\ mergers' = [n \in Mergers |-> mergers'[n]]
    BY <2>2, <2>4, <2>5, OneMerger DEF AudioInvOf
  <2>7. QED
    BY <2>2, <2>4, <2>6 DEF AudioInvOf
<1>5. ASSUME NEW m \in Mergers, PromoteSystem(m) PROVE AudioInvOf(files, older)'
  <2>1. PICK r : r = [mergers[m] EXCEPT !.at = "list", !.track = "mic"]
    OBVIOUS
  <2>2. /\ mergers' = [mergers EXCEPT ![m] = r] /\ Promoted("system")
        /\ "system" \in AudioTracks /\ "mic" \in AudioTracks
        /\ UNCHANGED <<callDir, sentinel, keep, recorded>> /\ mergers[m].at = "promote system"
    BY <1>0, <1>5, <2>1 DEF PromoteSystem, AudioInvOf
  <2>3. IsMerger(r) /\ r.track \in AudioTracks /\ r.at = "list"
    <3>1. PICK s : s = mergers[m] /\ IsMerger(s)
        BY MergerFacts
    <3>2. r = [s EXCEPT !.at = "list", !.track = "mic"]
        BY <2>1, <3>1
    <3>3. r = [at |-> "list", track |-> "mic", tmp |-> s.tmp, trims |-> s.trims]
        BY <3>1, <3>2, AtTrackPut
    <3>4. QED
        BY <2>2, <3>3 DEF IsMerger
  <2>4. /\ ChunksStand(files, older)' /\ Settled(files, "system")'
        /\ \A q : MergerStands(files, q) => MergerStands(files, q)'
        /\ rootWav' = [u \in AudioTracks |-> rootWav'[u]]
        /\ chunkWav' = [u \in AudioTracks |-> [c \in Indices |-> chunkWav'[u][c]]]
    BY <2>2, PromotedKeeps
  <2>5. Settled(files, "mic")'
    <3>1. PICK q : q = mergers[m]
        OBVIOUS
    <3>2. MergerStands(files, q)' /\ q.at = "promote system"
        BY <2>2, <2>4, <3>1, MergerFacts
    <3>3. QED
        BY <3>2 DEF MergerStands
  <2>6. MergerStands(files, r)'
    BY <2>3, <2>4, <2>5 DEF MergerStands
  <2>7. /\ (\A n \in Mergers : MergerStands(files, mergers[n]))'
        /\ mergers' = [n \in Mergers |-> mergers'[n]]
    BY <2>2, <2>4, <2>6, OneMerger DEF AudioInvOf
  <2>8. QED
    BY <2>2, <2>4, <2>7 DEF AudioInvOf
<1>6. QED
    BY <1>2, <1>3, <1>4, <1>5

\* Where a merger goes from a track, and a trim from another.
LEMMA FollowingStands ==
    ASSUME NEW files, NEW older, AudioInvOf(files, older), NEW m \in Mergers
    PROVE  /\ Settled(files, "mic") /\ Settled(files, "system") =>
                  MergerStands(files, Following(m))
           /\ keep # 0 => MergerStands(files, TrimNext(m))
<1>0. {"mic", "system"} = AudioTracks
    BY DEF AudioTracks
<1>1. MergerStands(files, Resting)
    BY <1>0 DEF MergerStands, Resting, IsMerger
<1>2. ASSUME NEW at \in {"list", "measure"}, NEW track \in AudioTracks, NEW r,
             r = [mergers[m] EXCEPT !.at = at, !.track = track, !.tmp = <<>>]
      PROVE  IsMerger(r) /\ r.track \in AudioTracks /\ r.at = at
  <2>1. PICK s : s = mergers[m] /\ IsMerger(s)
    BY MergerFacts
  <2>2. r = [s EXCEPT !.at = at, !.track = track, !.tmp = <<>>]
    BY <1>2, <2>1
  <2>3. r = [at |-> at, track |-> track, tmp |-> <<>>, trims |-> s.trims]
    BY <2>1, <2>2, AtTrackTmpPut
  <2>4. QED
    BY <2>3 DEF IsMerger
<1>3. ASSUME Settled(files, "mic"), Settled(files, "system")
      PROVE  MergerStands(files, Following(m))
  <2>1. PICK r : r = Following(m)
    OBVIOUS
  <2>2. CASE mergers[m].track = "mic"
    <3>1. r = [mergers[m] EXCEPT !.at = "list", !.track = "system", !.tmp = <<>>]
        BY <2>1, <2>2 DEF Following
    <3>2. IsMerger(r) /\ r.track \in AudioTracks /\ r.at = "list"
        BY <1>0, <1>2, <3>1
    <3>3. QED
        BY <1>3, <2>1, <3>2 DEF MergerStands
  <2>3. CASE mergers[m].track # "mic" /\ mergers[m].trims /\ keep # 0
    <3>1. r = [mergers[m] EXCEPT !.at = "measure", !.track = "mic", !.tmp = <<>>]
        BY <2>1, <2>3 DEF Following
    <3>2. IsMerger(r) /\ r.track \in AudioTracks /\ r.at = "measure"
        BY <1>0, <1>2, <3>1
    <3>3. QED
        BY <2>1, <2>3, <3>2 DEF MergerStands
  <2>4. CASE mergers[m].track # "mic" /\ ~(mergers[m].trims /\ keep # 0)
    BY <1>1, <2>4 DEF Following
  <2>5. QED
    BY <2>2, <2>3, <2>4
<1>4. ASSUME keep # 0 PROVE MergerStands(files, TrimNext(m))
  <2>1. PICK r : r = TrimNext(m)
    OBVIOUS
  <2>2. CASE mergers[m].track = "mic"
    <3>1. r = [mergers[m] EXCEPT !.at = "measure", !.track = "system", !.tmp = <<>>]
        BY <2>1, <2>2 DEF TrimNext
    <3>2. IsMerger(r) /\ r.track \in AudioTracks /\ r.at = "measure"
        BY <1>0, <1>2, <3>1
    <3>3. QED
        BY <1>4, <2>1, <3>2 DEF MergerStands
  <2>3. CASE mergers[m].track # "mic"
    BY <1>1, <2>3 DEF TrimNext
  <2>4. QED
    BY <2>2, <2>3
<1>5. QED
    BY <1>3, <1>4

\* A merge that finds all of its track in place copies what was recorded of it,
\* and has not passed over a root file that cannot be read.
LEMMA CopiesRecorded ==
    ASSUME NEW files, NEW older, AudioInvOf(files, older), NEW t \in AudioTracks,
           callDir, Mergeable(t), Settled(files, "mic"), Settled(files, "system")
    PROVE  /\ Copied(t) = recorded[t] /\ chunkWav[t][0] = files[t][0]
           /\ \A u \in AudioTracks : files[u][0] # NoFile /\ chunkWav[u][0] = NoFile =>
                  rootWav[u].quality # "bad"
<1>0. {"mic", "system"} = AudioTracks /\ "mic" # "system" /\ 0 \in Indices
    BY AudioAssumption DEF AudioTracks, Indices
<1>1. \A u \in AudioTracks : Settled(files, u)
    BY <1>0
<1>2. Listed(t) # {} /\ chunkWav[t][FirstOf(Listed(t))].quality # "bad"
    BY DEF Mergeable
<1>3. chunkWav[t][0] = files[t][0]
    BY <1>1, <1>2 DEF AudioInvOf, ChunksStand, Whole, AsOlder, Settled
<1>4. chunkWav[t] = files[t]
  <2>1. \A c \in Indices : chunkWav[t][c] = files[t][c]
    BY <1>3 DEF AudioInvOf, ChunksStand
  <2>2. /\ chunkWav[t] = [c \in Indices |-> chunkWav[t][c]]
        /\ files[t] = [c \in Indices |-> files[t][c]]
    BY DEF AudioInvOf, CaptureLeft
  <2>3. QED
    BY <2>1, <2>2
<1>5. Copied(t) = recorded[t]
    BY <1>4, RecordedFacts DEF AudioInvOf, Copied
<1>6. ASSUME NEW u \in AudioTracks, files[u][0] # NoFile, chunkWav[u][0] = NoFile
      PROVE  rootWav[u].quality # "bad"
  <2>1. AsOlder(files, u) /\ older /\ Listed(u) = {} /\ rootWav[u] = files[u][0]
    BY <1>1, <1>6 DEF AudioInvOf, ChunksStand, Whole, AsOlder, Settled
  <2>2. u # t
    BY <1>2, <2>1
  <2>3. CASE u = "mic"
    <3>1. \A c \in Indices \ {0} : FALSE
        <4>1. \A c \in Indices \ {0} : files[u][c] = NoFile
            BY <2>1 DEF AudioInvOf, ChunksStand, Listed, IsThere
        <4>2. QED
            BY <2>3, <4>1 DEF AudioInvOf, CaptureLeft
    <3>2. TopChunk = 0
        BY <3>1, AudioAssumption DEF Indices
    <3>3. chunkWav[t][0] = NoFile
        BY <2>1, <3>2 DEF AudioInvOf, ChunksStand
    <3>4. Listed(t) = {}
        BY <3>1, <3>3 DEF Listed, IsThere
    <3>5. QED
        BY <1>2, <3>4
  <2>4. CASE u = "system"
    <3>1. t = "mic"
        BY <1>0, <2>2, <2>4
    <3>2. chunkWav[t][0] = files[u][0]
        BY <1>0, <1>3, <1>6, <2>4, <3>1 DEF AudioInvOf, CaptureLeft
    <3>3. 0 \in Listed(t) /\ \A c \in Listed(t) : 0 <= c /\ c \in Nat
        BY <1>0, <1>6, <3>2, AudioAssumption DEF Listed, IsThere, Indices
    <3>4. FirstOf(Listed(t)) = 0
        BY <3>3 DEF FirstOf
    <3>5. QED
        BY <1>2, <2>1, <3>2, <3>4
  <2>5. QED
    BY <1>0, <2>3, <2>4
<1>7. QED
    BY <1>3, <1>5, <1>6

LEMMA CopyChunksKeeps ==
    ASSUME NEW files, NEW older, AudioInvOf(files, older), NEW m \in Mergers, CopyChunks(m)
    PROVE  AudioInvOf(files, older)'
<1>1. /\ mergers[m].at = "list" /\ MergerStands(files, mergers[m])
      /\ UNCHANGED <<callDir, rootWav, chunkWav, sentinel, keep, recorded>>
    BY MergerFacts DEF CopyChunks
<1>2. Settled(files, "mic") /\ Settled(files, "system")
    BY <1>1 DEF MergerStands
<1> DEFINE t == mergers[m].track
<1>3. CASE callDir /\ ~PromotesRoot(t) /\ Mergeable(t)
  <2>1. PICK r : r = [mergers[m] EXCEPT !.at = "mark", !.tmp = Copied(t)]
    OBVIOUS
  <2>2. mergers' = [mergers EXCEPT ![m] = r]
    BY <1>3, <2>1 DEF CopyChunks, AudioInvOf
  <2>3. IsMerger(r) /\ r.at = "mark" /\ r.track = t /\ r.tmp = Copied(t) /\ t \in AudioTracks
    <3>1. PICK s : s = mergers[m] /\ IsMerger(s) /\ s.track \in AudioTracks
        BY MergerFacts
    <3>2. PICK copy : copy = Copied(t)
        OBVIOUS
    <3>3. r = [at |-> "mark", track |-> s.track, tmp |-> copy, trims |-> s.trims]
        BY <2>1, <3>1, <3>2, AtTmpPut
    <3>4. QED
        BY <3>1, <3>2, <3>3 DEF IsMerger
  <2>4. /\ Copied(t) = recorded[t] /\ chunkWav[t][0] = files[t][0]
        /\ \A u \in AudioTracks : files[u][0] # NoFile /\ chunkWav[u][0] = NoFile =>
               rootWav[u].quality # "bad"
    BY <1>2, <1>3, <2>3, CopiesRecorded
  <2>5. MergerStands(files, r)
    <3> HIDE DEF t
    <3>1. QED
        BY <1>2, <2>3, <2>4 DEF MergerStands
  <2>6. QED
    BY <1>1, <2>2, <2>5, OnlyMerger
<1>4. CASE ~(callDir /\ ~PromotesRoot(t) /\ Mergeable(t))
  <2>1. PICK r : r = Following(m)
    OBVIOUS
  <2>2. mergers' = [mergers EXCEPT ![m] = r]
    BY <1>4, <2>1 DEF CopyChunks
  <2>3. MergerStands(files, r)
    BY <1>2, <2>1, FollowingStands
  <2>4. QED
    BY <1>1, <2>2, <2>3, OnlyMerger
<1>5. QED
    BY <1>3, <1>4

LEMMA MarkMergedKeeps ==
    ASSUME NEW files, NEW older, AudioInvOf(files, older), NEW m \in Mergers, MarkMerged(m)
    PROVE  AudioInvOf(files, older)'
<1>1. /\ mergers[m].at = "mark" /\ MergerStands(files, mergers[m]) /\ sentinel' = callDir
      /\ UNCHANGED <<callDir, rootWav, chunkWav, keep, recorded>>
    BY MergerFacts DEF MarkMerged
<1>2. PICK s : s = mergers[m] /\ MergerStands(files, s) /\ s.at = "mark"
    BY <1>1
<1>3. \A u \in AudioTracks : callDir /\ files[u][0] # NoFile /\ chunkWav[u][0] = NoFile =>
          Listed(u) = {} /\ rootWav[u].quality # "bad"
  <2>1. Settled(files, "mic") /\ Settled(files, "system")
    BY <1>2 DEF MergerStands
  <2>2. \A u \in AudioTracks : Settled(files, u)
    BY <2>1 DEF AudioTracks
  <2>3. QED
    BY <1>2, <2>2 DEF MergerStands, Settled
<1>4. \A u \in AudioTracks : Listed(u)' = Listed(u)
    BY <1>1 DEF Listed
<1>5. ChunksStand(files, older)'
  <2>1. CASE callDir
    <3>1. \A u \in AudioTracks : Whole(files, u) => Whole(files, u)'
        BY <1>1, <2>1 DEF Whole
    <3>2. \A u \in AudioTracks : AsOlder(files, u) => AsOlder(files, u)'
        BY <1>1, <1>3, <1>4, <2>1 DEF AsOlder
    <3>3. QED
        BY <1>1, <2>1, <3>1, <3>2 DEF AudioInvOf, ChunksStand
  <2>2. CASE ~callDir
    BY <1>1, <2>2 DEF AudioInvOf, ChunksStand
  <2>3. QED
    BY <2>1, <2>2
<1>6. ASSUME NEW q, MergerStands(files, q) PROVE MergerStands(files, q)'
  <2>1. /\ Settled(files, "mic") => Settled(files, "mic")'
        /\ Settled(files, "system") => Settled(files, "system")'
    BY <1>1, <1>4 DEF Settled, AudioTracks
  <2>2. QED
    BY <1>1, <1>6, <2>1 DEF MergerStands
<1>7. PICK r : r = [s EXCEPT !.at = "rename"]
    OBVIOUS
<1>8. mergers' = [mergers EXCEPT ![m] = r]
    BY <1>2, <1>7 DEF MarkMerged, Becomes
<1>9. IsMerger(r) /\ r.at = "rename" /\ r.track = s.track /\ r.tmp = s.tmp
  <2>1. IsMerger(s)
    BY <1>2 DEF MergerStands
  <2>2. r = [at |-> "rename", track |-> s.track, tmp |-> s.tmp, trims |-> s.trims]
    BY <1>7, <2>1, AtPut
  <2>3. QED
    BY <2>2 DEF IsMerger
<1>10. MergerStands(files, r)'
  <2>1. MergerStands(files, s)'
    BY <1>2, <1>6
  <2>2. callDir' => sentinel'
    BY <1>1
  <2>3. QED
    BY <1>2, <1>9, <2>1, <2>2 DEF MergerStands
<1>11. /\ (\A n \in Mergers : MergerStands(files, mergers[n]))'
       /\ mergers' = [n \in Mergers |-> mergers'[n]]
    BY <1>6, <1>8, <1>10, OneMerger DEF AudioInvOf
<1>12. QED
    BY <1>1, <1>5, <1>11 DEF AudioInvOf

\* A file that takes the place of a root file.
LEMMA RootPut ==
    ASSUME NEW files, NEW older, AudioInvOf(files, older), NEW t \in AudioTracks, NEW file,
           callDir, sentinel, chunkWav[t][0] = files[t][0],
           \/ file = File(recorded[t], "good")
           \/ keep # 0 /\ file = File(SubSeq(recorded[t], 1, keep), "good"),
           rootWav' = [rootWav EXCEPT ![t] = file],
           UNCHANGED <<callDir, chunkWav, sentinel, keep, recorded>>
    PROVE  /\ ChunksStand(files, older)' /\ rootWav' = [u \in AudioTracks |-> rootWav'[u]]
           /\ \A q : MergerStands(files, q) => MergerStands(files, q)'
<1>1. /\ rootWav'[t] = file /\ file.quality = "good"
      /\ \A u \in AudioTracks \ {t} : rootWav'[u] = rootWav[u]
      /\ rootWav' = [u \in AudioTracks |-> rootWav'[u]]
  <2>1. file.quality = "good"
    BY DEF File
  <2>2. rootWav = [u \in AudioTracks |-> rootWav[u]]
    BY DEF AudioInvOf
  <2>3. QED
    BY <2>1, <2>2
<1>2. \A u \in AudioTracks : Listed(u)' = Listed(u)
    BY DEF Listed
<1>3. Whole(files, t)'
    BY <1>1 DEF Whole
<1>4. \A u \in AudioTracks \ {t} : /\ Whole(files, u) => Whole(files, u)'
                                   /\ AsOlder(files, u) => AsOlder(files, u)'
    BY <1>1, <1>2 DEF Whole, AsOlder
<1>5. ChunksStand(files, older)'
    BY <1>3, <1>4 DEF AudioInvOf, ChunksStand
<1>6. ASSUME NEW q, MergerStands(files, q) PROVE MergerStands(files, q)'
  <2>1. /\ Settled(files, "mic") => Settled(files, "mic")'
        /\ Settled(files, "system") => Settled(files, "system")'
    BY <1>2 DEF Settled, AudioTracks
  <2>2. \A u \in AudioTracks : rootWav[u].quality # "bad" => rootWav'[u].quality # "bad"
    BY <1>1
  <2>3. QED
    BY <1>6, <2>1, <2>2 DEF MergerStands
<1>7. QED
    BY <1>1, <1>5, <1>6

LEMMA RenamesKeep ==
    ASSUME NEW files, NEW older, AudioInvOf(files, older), NEW m \in Mergers,
           RenameMerged(m) \/ RenameTrimmed(m)
    PROVE  AudioInvOf(files, older)'
<1>1. PICK s : s = mergers[m] /\ MergerStands(files, s) /\ s.track \in AudioTracks
    BY MergerFacts
<1>2. /\ UNCHANGED <<callDir, chunkWav, sentinel, keep, recorded>>
      /\ rootWav' = IF callDir THEN [rootWav EXCEPT ![s.track] = File(s.tmp, "good")] ELSE rootWav
    BY <1>1 DEF RenameMerged, RenameTrimmed
<1>3. PICK r : mergers' = [mergers EXCEPT ![m] = r] /\ MergerStands(files, r)
  <2>1. CASE RenameMerged(m)
    <3>1. s.at = "rename" /\ mergers' = [mergers EXCEPT ![m] = Following(m)]
        BY <1>1, <2>1 DEF RenameMerged
    <3>2. Settled(files, "mic") /\ Settled(files, "system")
        BY <1>1, <3>1 DEF MergerStands
    <3>3. QED
        BY <3>1, <3>2, FollowingStands
  <2>2. CASE RenameTrimmed(m)
    <3>1. s.at = "trim" /\ mergers' = [mergers EXCEPT ![m] = TrimNext(m)]
        BY <1>1, <2>2 DEF RenameTrimmed
    <3>2. keep # 0
        BY <1>1, <3>1 DEF MergerStands
    <3>3. QED
        BY <3>1, <3>2, FollowingStands
  <2>3. QED
    BY <2>1, <2>2
<1>4. CASE callDir
  <2>1. /\ sentinel /\ chunkWav[s.track][0] = files[s.track][0]
        /\ \/ s.tmp = recorded[s.track]
           \/ keep # 0 /\ s.tmp = SubSeq(recorded[s.track], 1, keep)
    <3>1. s.at \in {"rename", "trim"}
        BY <1>1 DEF RenameMerged, RenameTrimmed
    <3>2. QED
        BY <1>1, <1>4, <3>1 DEF MergerStands
  <2>2. PICK file : file = File(s.tmp, "good")
    OBVIOUS
  <2>3. /\ ChunksStand(files, older)' /\ rootWav' = [u \in AudioTracks |-> rootWav'[u]]
        /\ \A q : MergerStands(files, q) => MergerStands(files, q)'
    BY <1>1, <1>2, <1>4, <2>1, <2>2, RootPut
  <2>4. /\ (\A n \in Mergers : MergerStands(files, mergers[n]))'
        /\ mergers' = [n \in Mergers |-> mergers'[n]]
    BY <1>3, <2>3, OneMerger DEF AudioInvOf
  <2>5. QED
    BY <1>2, <2>3, <2>4 DEF AudioInvOf
<1>5. CASE ~callDir
    BY <1>2, <1>3, <1>5, OnlyMerger
<1>6. QED
    BY <1>4, <1>5

LEMMA ReadPrefixKeeps ==
    ASSUME NEW files, NEW older, AudioInvOf(files, older), NEW m \in Mergers, ReadPrefix(m)
    PROVE  AudioInvOf(files, older)'
<1>1. PICK s : s = mergers[m] /\ MergerStands(files, s) /\ s.track \in AudioTracks
    BY MergerFacts
<1>2. PICK file : file = rootWav[s.track]
    OBVIOUS
<1>3. /\ UNCHANGED <<callDir, rootWav, chunkWav, sentinel, keep, recorded>>
      /\ s.at = "measure" /\ keep # 0 /\ IsMerger(s)
    BY <1>1 DEF ReadPrefix, MergerStands
<1>4. CASE IsThere(file) /\ file.quality = "good" /\ Len(file.holds) > keep
  <2>1. PICK r : r = [s EXCEPT !.at = "trim", !.tmp = SubSeq(file.holds, 1, keep)]
    OBVIOUS
  <2>2. mergers' = [mergers EXCEPT ![m] = r]
    BY <1>1, <1>2, <1>4, <2>1 DEF ReadPrefix, AudioInvOf
  <2>3. /\ IsMerger(r) /\ r.at = "trim" /\ r.track = s.track
        /\ r.tmp = SubSeq(file.holds, 1, keep)
    <3>1. PICK cut : cut = SubSeq(file.holds, 1, keep)
        OBVIOUS
    <3>2. r = [at |-> "trim", track |-> s.track, tmp |-> cut, trims |-> s.trims]
        BY <1>3, <2>1, <3>1, AtTmpPut
    <3>3. QED
        BY <3>1, <3>2 DEF IsMerger
  <2>4. callDir /\ file # NoFile /\ keep \in Nat
    BY <1>1, <1>2, <1>4 DEF AudioInvOf, ChunksStand, IsThere
  <2>5. ~AsOlder(files, s.track)
    <3> SUFFICES ASSUME AsOlder(files, s.track) PROVE FALSE
        OBVIOUS
    <3>1. PICK q : file = File(<<0>>, q)
        <4>1. 0 \in Indices
            BY AudioAssumption DEF Indices
        <4>2. QED
            BY <1>1, <1>2, <4>1 DEF AsOlder, AudioInvOf, CaptureLeft
    <3>2. Len(file.holds) = 1
        BY <3>1 DEF File
    <3>3. QED
        BY <1>3, <1>4, <2>4, <3>2
  <2>6. Whole(files, s.track)
    BY <1>1, <2>4, <2>5 DEF AudioInvOf, ChunksStand
  <2>7. sentinel /\ chunkWav[s.track][0] = files[s.track][0] /\ file.holds = recorded[s.track]
    <3>1. /\ sentinel /\ chunkWav[s.track][0] = files[s.track][0]
          /\ \/ file.holds = recorded[s.track]
             \/ file.holds = SubSeq(recorded[s.track], 1, keep)
        BY <1>2, <2>4, <2>6 DEF Whole, File
    <3>2. recorded[s.track] \in Seq(Nat)
        BY <1>1, RecordedFacts DEF AudioInvOf
    <3>3. CASE file.holds = SubSeq(recorded[s.track], 1, keep)
        <4>1. Len(file.holds) <= keep
            BY <2>4, <3>2, <3>3
        <4>2. Len(file.holds) \in Nat
            BY <2>4, <3>2, <3>3
        <4>3. QED
            BY <1>4, <2>4, <4>1, <4>2
    <3>4. QED
        BY <3>1, <3>3
  <2>8. MergerStands(files, r)
    BY <1>1, <1>3, <2>3, <2>7 DEF MergerStands
  <2>9. QED
    BY <1>3, <2>2, <2>8, OnlyMerger
<1>5. CASE ~(IsThere(file) /\ file.quality = "good" /\ Len(file.holds) > keep)
  <2>1. PICK r : r = TrimNext(m)
    OBVIOUS
  <2>2. mergers' = [mergers EXCEPT ![m] = r]
    BY <1>1, <1>2, <1>5, <2>1 DEF ReadPrefix
  <2>3. MergerStands(files, r)
    BY <1>3, <2>1, FollowingStands
  <2>4. QED
    BY <1>3, <2>2, <2>3, OnlyMerger
<1>6. QED
    BY <1>4, <1>5

LEMMA AudioCrashKeeps ==
    ASSUME NEW files, NEW older, AudioInvOf(files, older), AudioCrash
    PROVE  AudioInvOf(files, older)'
<1>1. /\ mergers' = [m \in Mergers |-> Resting]
      /\ UNCHANGED <<callDir, rootWav, chunkWav, sentinel, keep, recorded>>
    BY DEF AudioCrash
<1>2. (\A m \in Mergers : MergerStands(files, mergers[m]))'
    BY <1>1 DEF MergerStands, IsMerger, Resting, AudioTracks
<1>3. ChunksStand(files, older)'
    BY <1>1, SameFiles DEF AudioInvOf
<1>4. mergers' = [m \in Mergers |-> mergers'[m]]
    BY <1>1
<1>5. QED
    BY <1>1, <1>2, <1>3, <1>4 DEF AudioInvOf

LEMMA DeleteAudioKeeps ==
    ASSUME NEW files, NEW older, AudioInvOf(files, older), DeleteAudio
    PROVE  AudioInvOf(files, older)'
<1>1. /\ callDir' = FALSE /\ sentinel' = FALSE
      /\ rootWav' = [t \in AudioTracks |-> NoFile]
      /\ chunkWav' = [t \in AudioTracks |-> [c \in Indices |-> NoFile]]
      /\ UNCHANGED <<keep, mergers, recorded>>
    BY DEF DeleteAudio
<1>2. ChunksStand(files, older)'
    BY <1>1 DEF ChunksStand
<1>3. ASSUME NEW m \in Mergers PROVE MergerStands(files, mergers[m])'
    BY <1>1, MergerFacts DEF MergerStands, IsMerger, Settled
<1>4. /\ rootWav' = [t \in AudioTracks |-> rootWav'[t]]
      /\ chunkWav' = [t \in AudioTracks |-> [c \in Indices |-> chunkWav'[t][c]]]
    BY <1>1
<1>5. QED
    BY <1>1, <1>2, <1>3, <1>4 DEF AudioInvOf

LEMMA AudioInvStep == AudioInv /\ [AudioNext]_audioVars => AudioInv'
<1> SUFFICES ASSUME NEW files, NEW older, AudioInvOf(files, older), [AudioNext]_audioVars
             PROVE  AudioInvOf(files, older)'
    BY DEF AudioInv
<1>1. CASE \/ \E t \in AudioTracks : PlayerMerges(t)
           \/ \E trims \in BOOLEAN : RunMerges(trims)
           \/ RunTrims
    BY <1>1, StartsKeep
<1>2. CASE \/ RecoveryPromotes
           \/ \E m \in Mergers : PromoteMic(m) \/ PromoteSystem(m) \/ PromoteLate(m)
    BY <1>2, PromotionsKeep
<1>3. ASSUME NEW m \in Mergers,
             \/ CopyChunks(m) \/ MarkMerged(m) \/ RenameMerged(m)
             \/ ReadPrefix(m) \/ RenameTrimmed(m)
      PROVE  AudioInvOf(files, older)'
    BY <1>3, CopyChunksKeeps, MarkMergedKeeps, RenamesKeep, ReadPrefixKeeps
<1>4. CASE AudioCrash \/ DeleteAudio
    BY <1>4, AudioCrashKeeps, DeleteAudioKeeps
<1>5. CASE UNCHANGED audioVars
  <2>1. UNCHANGED <<callDir, rootWav, chunkWav, sentinel, keep, recorded, mergers>>
    BY <1>5 DEF audioVars
  <2>2. /\ ChunksStand(files, older)'
        /\ \A q : MergerStands(files, q) => MergerStands(files, q)'
    BY <2>1, SameFiles DEF AudioInvOf
  <2>3. ASSUME NEW m \in Mergers PROVE MergerStands(files, mergers[m])'
    <3>1. PICK q : q = mergers[m]
        OBVIOUS
    <3>2. MergerStands(files, q)'
        BY <2>2, <3>1, MergerFacts
    <3>3. QED
        BY <2>1, <3>1, <3>2 DEF MergerStands, IsMerger
  <2>4. QED
    BY <2>1, <2>2, <2>3 DEF AudioInvOf
<1>6. QED
    BY <1>1, <1>2, <1>3, <1>4, <1>5 DEF AudioNext

\* A merged root file is what was recorded, or its beginning up to the cut, and no
\* sound is lost while the call is there: for any number of chunks, whichever of them
\* lack a track or are broken, whoever promotes, merges, trims or deletes at a time,
\* and wherever the application ends (audio_merger.rs, wav_trim.rs and their callers).
THEOREM AudioKeptHolds == AudioSpec => []AudioKept
<1>1. AudioInv => AudioKept
    BY AudioIsKept DEF AudioInv
<1>2. QED
    BY <1>1, AudioInvInit, AudioInvStep, PTL DEF AudioSpec
=============================================================================
