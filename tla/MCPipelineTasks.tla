-------------------------- MODULE MCPipelineTasks --------------------------
(* Small instances of PipelineTasks: one call and three commands on it.     *)
EXTENDS PipelineTasks, TLC

CONSTANTS c1, r1, r2, r3

MCCalls == {c1}
MCReqs == {r1, r2, r3}
MCOps == AllOps

\* The commands are interchangeable (safety runs only).
Symmetry == Permutations(MCReqs)
=============================================================================
