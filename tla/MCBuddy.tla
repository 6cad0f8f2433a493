------------------------------ MODULE MCBuddy ------------------------------
(***************************************************************************)
(* Buddy on a region of 64 bytes whose ends are not aligned to its size.   *)
(***************************************************************************)
EXTENDS Buddy

PowersOfTwo == [o \in 0 .. MaxOrder |-> 2 ^ o]
=============================================================================
