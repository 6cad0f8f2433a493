------------------------------- MODULE Harts -------------------------------
(***************************************************************************)
(* What the kernel promises its programs about the machine: each process   *)
(* has a hart of its own, whose registers nobody else touches.  Traps,     *)
(* interrupts and the turns of the other processes do not show.            *)
(***************************************************************************)
EXTENDS Integers

CONSTANTS
    Proc, root,     \* the processes and the first of them
    Files,          \* the register files that programs leave behind
    Fresh,          \* the register file a program starts with
    zero, result,   \* what fork returns to a child; what other calls return
    PcMod           \* program counters are counted modulo this

VARIABLE machine    \* that of each process that runs a program

Machines == [x : Files, pc : 0 .. PcMod - 1, in : {"program", "call"}]

Loaded == [x |-> Fresh, pc |-> 0, in |-> "program"]
After(m, halfwords) == [m EXCEPT !.pc = (@ + halfwords) % PcMod]
Returned(m, value) == [m EXCEPT !.x["a0"] = value, !.in = "program"]

Running(p) == p \in DOMAIN machine /\ machine[p].in = "program"
Becomes(p, m) == machine' = [machine EXCEPT ![p] = m]

Init == machine = [p \in {} |-> Loaded]

\* The first program is loaded, once.
Boots ==
    /\ DOMAIN machine = {}
    /\ machine' = [p \in {root} |-> Loaded]

\* An instruction of the program, and one that breaks and is skipped.
Computes(p) == Running(p) /\ \E m \in Machines : m.in = "program" /\ Becomes(p, m)
Breaks(p) == Running(p) /\ Becomes(p, After(machine[p], 1))

\* A system call: it returns behind the ecall, at once or later.
Calls(p) == Running(p) /\ Becomes(p, [After(machine[p], 2) EXCEPT !.in = "call"])
Answers(p) ==
    /\ p \in DOMAIN machine /\ machine[p].in = "call"
    /\ Becomes(p, Returned(machine[p], result))
Served(p) == Running(p) /\ Becomes(p, Returned(After(machine[p], 2), result))

\* exec starts the new program at its first instruction.
Execs(p) == Running(p) /\ Becomes(p, Loaded)

\* fork returns twice, and the two differ in a0 alone.
Forks(p, c) ==
    /\ Running(p) /\ c \notin DOMAIN machine
    /\ machine' = [q \in DOMAIN machine \cup {c} |->
          CASE q = p -> Returned(After(machine[p], 2), result)
            [] q = c -> Returned(After(machine[p], 2), zero)
            [] OTHER -> machine[q]]

Exits(p) == Running(p) /\ machine' = [q \in DOMAIN machine \ {p} |-> machine[q]]

Next ==
    \/ Boots
    \/ \E p \in Proc : \/ Computes(p) \/ Breaks(p) \/ Calls(p) \/ Answers(p)
                       \/ Served(p) \/ Execs(p) \/ Exits(p)
                       \/ \E c \in Proc : Forks(p, c)

Spec == Init /\ [][Next]_machine
=============================================================================
