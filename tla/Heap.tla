-------------------------------- MODULE Heap --------------------------------
(***************************************************************************)
(* What alloc() and dealloc() promise the kernel: ranges of the memory     *)
(* region that belong to one caller at a time.                             *)
(***************************************************************************)
EXTENDS Integers

CONSTANTS Start, End, Sizes

VARIABLE owned      \* the ranges handed out: records [addr, size, len]

Apart(r, s) == r.addr + r.len <= s.addr \/ s.addr + s.len <= r.addr

Init == owned = {}

\* The caller gets at least the bytes it asks for, and nobody else has them.
Alloc(r) ==
    /\ r.size \in Sizes /\ r.len > 0 /\ r.size <= r.len
    /\ Start <= r.addr /\ r.addr + r.len <= End
    /\ \A s \in owned : Apart(r, s)
    /\ owned' = owned \cup {r}

\* It gives them back once.
Free(r) == r \in owned /\ owned' = owned \ {r}

Next == (\E r \in owned' \ owned : Alloc(r)) \/ (\E r \in owned : Free(r))

Spec == Init /\ [][Next]_owned
=============================================================================
