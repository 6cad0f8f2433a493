----------------------------- MODULE MCContext -----------------------------
(***************************************************************************)
(* Context on a few processes.                                             *)
(***************************************************************************)
EXTENDS Context, TLC

\* The blocks are interchangeable, init's aside.
FreeBlocks == Permutations(Procs \ {init})
=============================================================================
