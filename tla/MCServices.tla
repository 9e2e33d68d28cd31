------------------------------ MODULE MCServices ------------------------------
(* The services around a recording and a pipeline, and the application       *)
(* around them all from start to start (a recording or a pipeline is one     *)
(* step at its beginning and one at its end there).  They share no variable  *)
(* and no lock, so an interleaving of two of them is no more than each       *)
(* apart: `focus` chooses one, the others stay in one of their initial       *)
(* states.                                                                   *)
EXTENDS Provisioning, SilenceWatch, RotationWindow, CallDetect, RecapGeneration,
        SidecarRun, AppLifecycle, TLC

CONSTANTS
    p1, p2, own1        \* two presets, the first with a model of its own

OwnModels == p1 :> {own1} @@ p2 :> {}

VARIABLE focus

Services == {"models", "silence", "rotation", "detect", "recap", "sidecars", "app"}

Init ==
    /\ focus \in Services
    /\ focus # "models" => chosenPreset = p1 /\ legacy = "absent"
    /\ ProvisionInit /\ SilenceInit /\ RotationInit /\ DetectInit /\ RecapInit
    /\ SidecarInit /\ AppInit

NotModels == <<silenceVars, rotationVars, detectVars, recapVars, sidecarVars, appVars>>
NotSilence == <<provisionVars, rotationVars, detectVars, recapVars, sidecarVars, appVars>>
NotRotation == <<provisionVars, silenceVars, detectVars, recapVars, sidecarVars, appVars>>
NotDetect == <<provisionVars, silenceVars, rotationVars, recapVars, sidecarVars, appVars>>
NotRecap == <<provisionVars, silenceVars, rotationVars, detectVars, sidecarVars, appVars>>
NotSidecars == <<provisionVars, silenceVars, rotationVars, detectVars, recapVars, appVars>>
NotApp == <<provisionVars, silenceVars, rotationVars, detectVars, recapVars, sidecarVars>>

Next ==
    /\ UNCHANGED focus
    /\ \/ focus = "models" /\ ProvisionNext /\ UNCHANGED NotModels
       \/ focus = "silence" /\ SilenceNext /\ UNCHANGED NotSilence
       \/ focus = "rotation" /\ RotationNext /\ UNCHANGED NotRotation
       \/ focus = "detect" /\ DetectNext /\ UNCHANGED NotDetect
       \/ focus = "recap" /\ RecapNext /\ UNCHANGED NotRecap
       \/ focus = "sidecars" /\ SidecarNext /\ UNCHANGED NotSidecars
       \/ focus = "app" /\ AppNext /\ UNCHANGED NotApp

\* The two calls of the application, which nothing tells apart.
Symmetry == Permutations(AppCalls)
=============================================================================
