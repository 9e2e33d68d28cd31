------------------------------ MODULE CallDetect ------------------------------
(***************************************************************************)
(* The probe that notices that a call has begun and suggests to record it. *)
(*                                                                         *)
(*   audio/call_detect.rs         enable, disable, the dispatcher, cooldown *)
(*   commands/call_detection.rs   the commands                              *)
(*                                                                         *)
(* The mutex of the controller is held through the whole of an enable, the *)
(* wait for the acknowledgement included.  maybe_emit looks at the session *)
(* first and takes the controller's mutex afterwards; the event follows    *)
(* with no lock held.                                                       *)
(***************************************************************************)
EXTENDS Naturals, Sequences

CONSTANTS
    Apps,       \* bundle ids
    Cooldowns,  \* minutes that the settings offer
    MaxMinute,  \* bound: the clock
    Never

ASSUME DetectAssumption ==
    /\ Cooldowns \subseteq Nat /\ Cooldowns # {}
    /\ MaxMinute \in Nat /\ Never \notin Nat

VARIABLES
    probe,      \* the sidecar: "none", "starting", "running", "dead"
    childHeld,  \* inner.child is Some
    dispatcher, \* run_dispatcher runs
    cooldownMin, lastSuggested,  \* inner.cooldown_min, inner.cooldown
    recordingOn,\* AppState.recording is Some
    handling,   \* the suggestion between the two locks of maybe_emit
    minute,
    suggestions \* history: the minutes at which an application was suggested,
                \* since the probe was enabled

detectVars == <<probe, childHeld, dispatcher, cooldownMin, lastSuggested, recordingOn, handling,
                minute, suggestions>>

NoSuggestion == [a \in Apps |-> Never]

DetectInit ==
    /\ probe = "none" /\ childHeld = FALSE /\ dispatcher = FALSE
    /\ cooldownMin = CHOOSE c \in Cooldowns : TRUE
    /\ lastSuggested = NoSuggestion
    /\ recordingOn = FALSE /\ handling = Never
    /\ minute = 0
    /\ suggestions = [a \in Apps |-> <<>>]

\* enable with a child there: only the cooldown changes, dead or alive.
EnableAgain ==
    /\ childHeld /\ probe # "starting"
    /\ cooldownMin' \in Cooldowns
    /\ UNCHANGED <<probe, childHeld, dispatcher, lastSuggested, recordingOn, handling, minute,
                   suggestions>>

EnableBegins ==
    /\ ~childHeld /\ probe = "none"
    /\ probe' = "starting"
    /\ UNCHANGED <<childHeld, dispatcher, cooldownMin, lastSuggested, recordingOn, handling,
                   minute, suggestions>>

EnableAcked ==
    /\ probe = "starting" /\ probe' = "running"
    /\ childHeld' = TRUE /\ dispatcher' = TRUE
    /\ cooldownMin' \in Cooldowns
    /\ lastSuggested' = NoSuggestion
    /\ UNCHANGED <<recordingOn, handling, minute, suggestions>>

\* Mutant: a start that is not acknowledged keeps its child.
EnableFailsKeepsChild ==
    /\ probe = "starting" /\ probe' = "running"
    /\ childHeld' = FALSE
    /\ UNCHANGED <<dispatcher, cooldownMin, lastSuggested, recordingOn, handling, minute,
                   suggestions>>

\* No acknowledgement in time, or the sidecar exits: the child is dropped.
EnableFails ==
    /\ probe = "starting" /\ probe' = "none"
    /\ UNCHANGED <<childHeld, dispatcher, cooldownMin, lastSuggested, recordingOn, handling,
                   minute, suggestions>>

\* The aborted dispatcher takes the suggestion it was handling with it.
Disable ==
    /\ childHeld /\ probe # "starting"
    /\ childHeld' = FALSE /\ probe' = "none"
    /\ dispatcher' = FALSE /\ handling' = Never
    /\ lastSuggested' = NoSuggestion
    /\ suggestions' = [a \in Apps |-> <<>>]
    /\ UNCHANGED <<cooldownMin, recordingOn, minute>>

\* The dispatcher sees `Terminated` and returns; the child stays in inner.
ProbeDies ==
    /\ probe = "running" /\ probe' = "dead"
    /\ dispatcher' = FALSE
    /\ UNCHANGED <<childHeld, cooldownMin, lastSuggested, recordingOn, handling, minute,
                   suggestions>>

\* The first half of maybe_emit.
CallSuggested(a) ==
    /\ dispatcher /\ handling = Never /\ ~recordingOn
    /\ handling' = a
    /\ UNCHANGED <<probe, childHeld, dispatcher, cooldownMin, lastSuggested, recordingOn, minute,
                   suggestions>>

CooledDown(a) == lastSuggested[a] = Never \/ minute - lastSuggested[a] >= cooldownMin

\* should_emit and the event.
Suggest ==
    /\ dispatcher /\ handling # Never /\ probe # "starting"
    /\ handling' = Never
    /\ IF CooledDown(handling)
       THEN /\ lastSuggested' = [lastSuggested EXCEPT ![handling] = minute]
            /\ suggestions' = [suggestions EXCEPT ![handling] = Append(@, minute)]
       ELSE UNCHANGED <<lastSuggested, suggestions>>
    /\ UNCHANGED <<probe, childHeld, dispatcher, cooldownMin, recordingOn, minute>>

RecordingToggles ==
    /\ recordingOn' = ~recordingOn
    /\ UNCHANGED <<probe, childHeld, dispatcher, cooldownMin, lastSuggested, handling, minute,
                   suggestions>>

MinutePasses ==
    /\ minute < MaxMinute /\ minute' = minute + 1
    /\ UNCHANGED <<probe, childHeld, dispatcher, cooldownMin, lastSuggested, recordingOn,
                   handling, suggestions>>

DetectNext ==
    \/ EnableAgain \/ EnableBegins \/ EnableAcked \/ EnableFails \/ Disable \/ ProbeDies
    \/ \E a \in Apps : CallSuggested(a)
    \/ Suggest \/ RecordingToggles \/ MinutePasses

DetectSpec == DetectInit /\ [][DetectNext]_detectVars
-----------------------------------------------------------------------------
(* Properties *)

\* No probe listens on without a child by which it can be ended: a failed
\* enable and a disable leave no process behind, and no task that suggests.
NoOrphanProbe ==
    /\ probe = "running" => childHeld
    /\ dispatcher => probe = "running"

\* However often the cooldown is changed meanwhile, the same application is
\* not suggested twice within the shortest one while the probe stays enabled.
OnePerCooldown ==
    \A a \in Apps : \A i \in 2..Len(suggestions[a]) :
        \E c \in Cooldowns : suggestions[a][i] - suggestions[a][i - 1] >= c

\* The probe is somebody's, and keeps quiet for as long as it was told to.
ProbeKept == NoOrphanProbe /\ OnePerCooldown
=============================================================================
