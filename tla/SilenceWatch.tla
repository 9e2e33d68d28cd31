----------------------------- MODULE SilenceWatch -----------------------------
(***************************************************************************)
(* The silence watch: when does a recording get a suggestion to stop, when *)
(* is it stopped automatically, and where is its silent tail cut off.      *)
(*                                                                         *)
(*   audio/silence_watch/mod.rs    the decision, on_sample and the resets  *)
(*   audio/silence_watch/task.rs   the loop over samples and controls      *)
(*   commands/silence.rs           settings, spawn, suggestion              *)
(*                                                                         *)
(* Samples carry their own time and some are dropped on the way; samples   *)
(* and controls come in two channels and are taken in any order.  heard is *)
(* what the loop took, in its order: the properties are stated over it and *)
(* not over the state the code keeps.                                       *)
(***************************************************************************)
EXTENDS Integers, Sequences, FiniteSets

CONSTANTS
    SuggestAfter, AutoStopAfter, Hysteresis, TailPad,
    MaxTs,      \* bound: the last sample
    MaxHeard,   \* bound: samples and controls taken
    Unset

ASSUME SilenceAssumption ==
    /\ {SuggestAfter, AutoStopAfter, Hysteresis, TailPad, MaxTs, MaxHeard} \subseteq Nat
    /\ SuggestAfter < AutoStopAfter
    /\ Unset \notin Nat

VARIABLES
    cfg,        \* suggest_after_ms and auto_stop_after_ms
    watchState, \* "off", "running", "ended"
    silenceStarted, voiceSince, suggested, watchPaused,
    decision,   \* the AutoStop event
    prompts,    \* positions in heard at which SuggestStop was emitted
    heard

silenceVars == <<cfg, watchState, silenceStarted, voiceSince, suggested, watchPaused, decision,
                 prompts, heard>>

Controls == {"pause", "resume", "snooze"}
IsSample(e) == e.kind = "sample"

SilenceInit ==
    /\ cfg = [suggest |-> Unset, stop |-> Unset]
    /\ watchState = "off"
    /\ silenceStarted = Unset /\ voiceSince = Unset
    /\ suggested = FALSE /\ watchPaused = FALSE
    /\ decision = Unset
    /\ prompts = {} /\ heard = <<>>

\* load_silence_config: only "0" and "false" switch the suggestion off, only
\* "never" the automatic stop; what is not in the list is the default.
LoadSilenceConfig(prompt, stop) ==
    [suggest |-> IF prompt = "off" THEN Unset ELSE SuggestAfter,
     stop |-> IF stop = "never" THEN Unset ELSE AutoStopAfter]

\* spawn_silence_watch: no task when there is nothing to watch for.
SpawnSilenceWatch ==
    /\ watchState = "off"
    /\ \E prompt \in {"unset", "off", "garbage"}, stop \in {"unset", "never", "garbage"} :
         LET c == LoadSilenceConfig(prompt, stop) IN
         /\ c.suggest # Unset \/ c.stop # Unset
         /\ cfg' = c
    /\ watchState' = "running"
    /\ UNCHANGED <<silenceStarted, voiceSince, suggested, watchPaused, decision, prompts, heard>>

LastTs ==
    LET ts == {heard[i].ts : i \in {j \in DOMAIN heard : IsSample(heard[j])}}
    IN  IF ts = {} THEN -1 ELSE CHOOSE t \in ts : \A u \in ts : u <= t

\* The next sample the loop gets; between it and the last one some were lost.
Heard(ts, isLoud) ==
    /\ watchState = "running" /\ Len(heard) < MaxHeard
    /\ ts > LastTs /\ ts <= LastTs + 2
    /\ heard' = Append(heard, [kind |-> "sample", ts |-> ts, loud |-> isLoud])

ResetRun == silenceStarted' = Unset /\ voiceSince' = Unset /\ suggested' = FALSE

\* on_sample on pause: nothing.
IgnoredSample(ts) ==
    /\ watchPaused
    /\ \E isLoud \in BOOLEAN : Heard(ts, isLoud)
    /\ UNCHANGED <<cfg, watchState, silenceStarted, voiceSince, suggested, watchPaused, decision,
                   prompts>>

\* Sound resets the run only when it lasts.
LoudSample(ts) ==
    /\ ~watchPaused /\ Heard(ts, TRUE)
    /\ LET since == IF voiceSince = Unset THEN ts ELSE voiceSince
       IN  IF ts - since >= Hysteresis
           THEN ResetRun
           ELSE voiceSince' = since /\ UNCHANGED <<silenceStarted, suggested>>
    /\ UNCHANGED <<cfg, watchState, watchPaused, decision, prompts>>

TrimAt(started, ts) == IF started + TailPad < ts THEN started + TailPad ELSE ts

Suggests(started, ts) == cfg.suggest # Unset /\ ~suggested /\ ts - started >= cfg.suggest

\* The stop is looked at first: one sample can cross both thresholds.
SilentSample(ts) ==
    /\ ~watchPaused /\ Heard(ts, FALSE)
    /\ voiceSince' = Unset
    /\ LET started == IF silenceStarted = Unset THEN ts ELSE silenceStarted
           stops == cfg.stop # Unset /\ ts - started >= cfg.stop
           suggests == Suggests(started, ts)
       IN  /\ silenceStarted' = started
           /\ IF stops
              THEN /\ decision' = [trim |-> TrimAt(started, ts), at |-> ts]
                   /\ watchState' = "ended"
                   /\ UNCHANGED <<suggested, prompts>>
              ELSE /\ suggested' = (suggested \/ suggests)
                   /\ prompts' = IF suggests THEN prompts \cup {Len(heard) + 1} ELSE prompts
                   /\ UNCHANGED <<decision, watchState>>
    /\ UNCHANGED <<cfg, watchPaused>>

Control(kind) ==
    /\ watchState = "running" /\ Len(heard) < MaxHeard
    /\ heard' = Append(heard, [kind |-> kind])

OnPause ==
    /\ Control("pause") /\ watchPaused' = TRUE /\ ResetRun
    /\ UNCHANGED <<cfg, watchState, decision, prompts>>

OnResume ==
    /\ Control("resume") /\ watchPaused' = FALSE /\ ResetRun
    /\ UNCHANGED <<cfg, watchState, decision, prompts>>

\* Mutant: "continue" only allows the suggestion to come again.
SnoozePromptOnly ==
    /\ Control("snooze") /\ suggested' = FALSE
    /\ UNCHANGED <<cfg, watchState, silenceStarted, voiceSince, watchPaused, decision, prompts>>

Snooze ==
    /\ Control("snooze") /\ ResetRun
    /\ UNCHANGED <<cfg, watchState, watchPaused, decision, prompts>>

\* The stop signal, or the dispatcher dropped the channel.
WatchEnds ==
    /\ watchState = "running" /\ watchState' = "ended"
    /\ UNCHANGED <<cfg, silenceStarted, voiceSince, suggested, watchPaused, decision, prompts,
                   heard>>

SilenceNext ==
    \/ SpawnSilenceWatch \/ OnPause \/ OnResume \/ Snooze \/ WatchEnds
    \/ \E ts \in 0..MaxTs : IgnoredSample(ts) \/ LoudSample(ts) \/ SilentSample(ts)

SilenceSpec == SilenceInit /\ [][SilenceNext]_silenceVars
-----------------------------------------------------------------------------
(* Properties, over what was heard *)

\* Positions after which the run starts anew: a control, or a sample that
\* completes a stretch of sound of the length of the hysteresis.
Stretch(i, j) == \A k \in i..j : IsSample(heard[k]) /\ heard[k].loud
Resets(j) ==
    \/ heard[j].kind \in Controls
    \/ \E i \in 1..j : Stretch(i, j) /\ heard[j].ts - heard[i].ts >= Hysteresis
PausedAt(j) ==
    \E i \in 1..j : /\ heard[i].kind = "pause"
                    /\ \A k \in i..j : heard[k].kind # "resume"
QuietFor(i, j) ==
    /\ IsSample(heard[i]) /\ ~heard[i].loud /\ IsSample(heard[j]) /\ ~heard[j].loud
    /\ \A k \in i..j : ~Resets(k)

\* A recording is stopped only after a whole interval of silence in which
\* nobody spoke, paused, resumed or pressed "continue", and never on pause:
\* "continue" puts the stop off by the full interval.
StopsAfterFullSilence ==
    decision # Unset =>
        LET n == Len(heard) IN
        /\ ~PausedAt(n)
        /\ \E i \in 1..n : QuietFor(i, n) /\ heard[n].ts - heard[i].ts >= AutoStopAfter

\* The cut lies in that silence: everything said before it is kept, and most
\* of the silence is not.
CutLiesInSilence ==
    decision # Unset =>
        /\ decision.trim <= decision.at
        /\ \A j \in DOMAIN heard : IsSample(heard[j]) /\ Resets(j) => heard[j].ts <= decision.trim
        /\ decision.at - decision.trim >= AutoStopAfter - TailPad

\* One suggestion for one silence: between two of them somebody spoke,
\* paused, resumed or pressed "continue".
OnePromptPerRun ==
    \A i, j \in prompts : i < j => \E k \in i..j : Resets(k)

\* An automatic stop is deserved, announced once, and costs no word.
StopIsDeserved == StopsAfterFullSilence /\ CutLiesInSilence /\ OnePromptPerRun
=============================================================================
