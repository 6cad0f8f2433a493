----------------------------- MODULE MCSimpleFS -----------------------------
(***************************************************************************)
(* SimpleFS on an image of a few blocks of two cells.                      *)
(***************************************************************************)
EXTENDS SimpleFS

Writes == {<<>>, <<1>>, <<2, 1, 2>>}

Packed == {<<>>, <<1>>, <<1, 2, 1, 2, 1>>}

NameSymmetry == Permutations(Names)
=============================================================================
