--------------------------- MODULE MCCrashRecovery ---------------------------
(* Small instances of CrashRecovery.                                        *)
EXTENDS CrashRecovery
=============================================================================
