---------------------------- MODULE MCOpenFiles ----------------------------
(***************************************************************************)
(* OpenFiles with two processes on an image of a few blocks.               *)
(***************************************************************************)
EXTENDS OpenFiles

Writes == {<<1>>}

Packed == {<<1>>}

\* The blocks that hold a struct File, and the names, are interchangeable.
BlockSymmetry == Permutations(FileBlocks) \cup Permutations(Names)
=============================================================================
