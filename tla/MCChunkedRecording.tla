------------------------- MODULE MCChunkedRecording -------------------------
(* Small instances of ChunkedRecording.                                    *)
EXTENDS ChunkedRecording
=============================================================================
