---------------------------- MODULE ProcessTree ----------------------------
(***************************************************************************)
(* Process implements ProcTree: the children lists, walked and spliced by  *)
(* fork, wait and exit, stand for the parent of each process.              *)
(***************************************************************************)
EXTENDS Process

\* The process on whose list c is.
ParentIn(families, c) ==
    IF \E p \in Procs : c \in ToSet(families[p])
    THEN CHOOSE p \in Procs : c \in ToSet(families[p])
    ELSE NULL

Alive == {p \in Procs : state[p] \in {"Ready", "Running"}}
Zombies == {p \in Procs : Zombie(p)}
Parent == [c \in Procs |-> ParentIn(children, c)]

Tree == INSTANCE ProcTree WITH
    Proc <- Procs, root <- init, none <- NULL,
    alive <- Alive, zombie <- Zombies, parent <- Parent

\* Every step of the kernel is a fork, an exit, an adoption by init or a reap
\* of the tree, or leaves the tree as it is.
ImplementsTree == Tree!Spec
=============================================================================
