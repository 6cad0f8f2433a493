----------------------------- MODULE MCProcess -----------------------------
(***************************************************************************)
(* Process, and the tree it implements, on a few process control blocks.   *)
(***************************************************************************)
EXTENDS ProcessTree, TLC

\* The blocks a process can be allocated in are interchangeable, init's aside.
FreeBlocks == Permutations(Procs \ {init})
=============================================================================
