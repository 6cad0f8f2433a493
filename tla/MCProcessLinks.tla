--------------------------- MODULE MCProcessLinks ---------------------------
(***************************************************************************)
(* Process, the tree it implements and the pointers it is made of, on a    *)
(* few process control blocks.                                             *)
(***************************************************************************)
EXTENDS ProcessLinks, TLC

\* The blocks a process can be allocated in are interchangeable, init's aside.
FreeBlocks == Permutations(Procs \ {init})
=============================================================================
