------------------------------ MODULE MCSessions ------------------------------
(* The two components that own processes of their own: the capture session  *)
(* and the language model server.  They share no variable and no lock, so   *)
(* an interleaving of the two is no more than the two apart: `focus` chooses *)
(* one, the other stays where it begins.                                     *)
EXTENDS CaptureSession, ResidentServer, TLC

VARIABLE focus

Init == focus \in {"capture", "server"} /\ CaptureInit /\ ServerInit

Next ==
    /\ UNCHANGED focus
    /\ \/ focus = "capture" /\ CaptureNext /\ UNCHANGED residentVars
       \/ focus = "server" /\ ServerNext /\ UNCHANGED captureVars

Symmetry ==
    UNION {Permutations(Recs), Permutations(Cmds), Permutations(Presets), Permutations(Starters)}
=============================================================================
