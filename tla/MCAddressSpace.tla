--------------------------- MODULE MCAddressSpace ---------------------------
(* An instance of AddressSpace for TLC: three processes, pages of the      *)
(* kernel, of programs and of the stack below three tables of their own,   *)
(* programs of one and of two segments, and one whose segments overlap.    *)
EXTENDS AddressSpace, FiniteSetsExt, TLC

CONSTANTS p1, p2, p3, v1, v2

MCProcs == {p1, p2, p3}
MCSymmetry == Permutations({p2, p3})

MCPrograms == {
    {0 :> v1},
    {0 :> v1, 1 :> v2},
    {0 :> v1, (0 :> v1) @@ (1 :> v2)}}

MCKernelSegs == {{26}}

\* Each object in turn is placed in the lowest block that is left.
MCPicks(objects, k) ==
    {FoldSet(LAMBDA x, at :
                at @@ (x :> Min({b \in Blocks : k[b] = "free"
                                    /\ \A y \in DOMAIN at : at[y] # b})),
             <<>>, objects)}
=============================================================================
