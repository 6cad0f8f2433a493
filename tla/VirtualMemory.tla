--------------------------- MODULE VirtualMemory ---------------------------
(***************************************************************************)
(* What address spaces promise programs: private memory, which fork copies *)
(* and exec replaces.                                                      *)
(***************************************************************************)
CONSTANTS Proc, Programs, stack, Values

VARIABLE memory     \* for each process, what its user pages hold

\* The function f, but y at x.
With(f, x, y) == [d \in DOMAIN f \cup {x} |-> IF d = x THEN y ELSE f[d]]

\* A process gets a copy of its parent's memory.
Fork(p, c) ==
    /\ p \in DOMAIN memory /\ c \in Proc \ DOMAIN memory
    /\ memory' = With(memory, c, memory[p])

\* A process gets the pages of a program, and then a stack of any content.
Exec(p, image) == p \in DOMAIN memory /\ memory' = [memory EXCEPT ![p] = image]

PushStack(p, x) ==
    /\ p \in DOMAIN memory /\ stack \notin DOMAIN memory[p]
    /\ memory' = [memory EXCEPT ![p] = With(@, stack, x)]

\* A process writes to a page of its own, and nobody else sees it.
Store(p, v, x) ==
    /\ p \in DOMAIN memory /\ v \in DOMAIN memory[p]
    /\ memory' = [memory EXCEPT ![p][v] = x]

\* A dead process takes its memory with it.
Reap(c) ==
    /\ c \in DOMAIN memory
    /\ memory' = [p \in DOMAIN memory \ {c} |-> memory[p]]

Init ==
    \E p \in Proc, image \in Programs, x \in Values :
        memory = [q \in {p} |-> With(image, stack, x)]

Next ==
    \E p \in Proc :
        \/ \E c \in Proc : Fork(p, c)
        \/ \E image \in Programs : Exec(p, image)
        \/ \E x \in Values : PushStack(p, x)
        \/ p \in DOMAIN memory /\ \E v \in DOMAIN memory[p], x \in Values : Store(p, v, x)
        \/ Reap(p)

Spec == Init /\ [][Next]_memory
=============================================================================
