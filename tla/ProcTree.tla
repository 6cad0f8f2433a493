------------------------------ MODULE ProcTree ------------------------------
(***************************************************************************)
(* What fork, wait and exit promise a program, without a scheduler, a pid  *)
(* or a list: a tree of living and dead processes under one root.          *)
(***************************************************************************)
CONSTANTS Proc, root, none

VARIABLES
    alive,      \* processes that have not exited
    zombie,     \* processes that have exited and have not been waited for
    parent      \* the process that may wait for this one

vars == <<alive, zombie, parent>>

Init ==
    /\ alive = {root}
    /\ zombie = {}
    /\ parent = [p \in Proc |-> none]

\* A living process gets a child nobody else knows.
Fork(p, c) ==
    /\ p \in alive /\ c \notin alive \cup zombie
    /\ alive' = alive \cup {c}
    /\ parent' = [parent EXCEPT ![c] = p]
    /\ UNCHANGED zombie

\* A process ends once, and stays until it is waited for.
Exit(p) ==
    /\ p \in alive
    /\ alive' = alive \ {p}
    /\ zombie' = zombie \cup {p}
    /\ UNCHANGED parent

\* A child of a dead process goes to the root and to nobody else.
Adopt(c) ==
    /\ parent[c] \in zombie \ {root}
    /\ parent' = [parent EXCEPT ![c] = root]
    /\ UNCHANGED <<alive, zombie>>

\* A living process waits for a child of its own that has ended and that
\* leaves no child behind.
Reap(p, c) ==
    /\ p \in alive /\ c \in zombie
    /\ parent[c] = p
    /\ \A d \in Proc : parent[d] # c
    /\ zombie' = zombie \ {c}
    /\ parent' = [parent EXCEPT ![c] = none]
    /\ UNCHANGED alive

Next ==
    \/ \E p, c \in Proc : Fork(p, c) \/ Reap(p, c)
    \/ \E p \in Proc : Exit(p) \/ Adopt(p)

Spec == Init /\ [][Next]_vars
=============================================================================
