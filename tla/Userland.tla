------------------------------ MODULE Userland ------------------------------
(***************************************************************************)
(* The programs of src/user on top of the process subsystem.  Process      *)
(* leaves open which system call a program makes next; here each process   *)
(* is somewhere in a program, and makes the calls of init.c, shell.c or of *)
(* a program that starts no process (hello.c, ls.c and filetest.c, for     *)
(* which filetest stands).  The calls are those of Process, unchanged.     *)
(*                                                                         *)
(* Where a process is: init.c forks twice ("fork1", "fork2"), its children *)
(* exec ("exec1", "exec2"), it waits once ("wait1") and then for all       *)
(* ("waits"); shell.c has "getchar", "fork", "exec" and "wait"; the others *)
(* "work"; and all of them "exit", by themselves or in _start().  Another  *)
(* program may be packed as init: it makes "any" calls, but keeps to the   *)
(* rules that init.c and shell.c keep to.                                  *)
(***************************************************************************)
EXTENDS Process

CONSTANT MaxOthers  \* bound on the processes that another init makes

VARIABLES
    label,      \* where the process is in its program
    rootfs      \* the programs that mkfs has packed

uvars == <<vars, label, rootfs>>

Programs == {"init", "shell", "filetest"}
Labels == {"fork1", "exec1", "wait1", "fork2", "exec2", "waits",
           "getchar", "fork", "exec", "wait", "work", "exit", "any"}

\* Mutant: filetest need not be there.
Packed_any == {R \in SUBSET Programs : "init" \in R}

\* The Makefile links every program into rootfs/; the kernel and init.c rely
\* on two of them.
Packed == {R \in SUBSET Programs : {"init", "filetest"} \subseteq R}

Entry == [init |-> "fork1", shell |-> "getchar", filetest |-> "work"]

\* Mutant: init returns from main without waiting for the shell.
AfterFork_unwaited == [fork1 |-> "wait1", fork2 |-> "exit", fork |-> "wait"]

\* Where parent and child go on after fork().
AfterFork == [fork1 |-> "wait1", fork2 |-> "waits", fork |-> "wait"]

InChild == [fork1 |-> "exec1", fork2 |-> "exec2", fork |-> "exec"]

\* Mutant: the shell's child does not exit when there is no such file.
AfterExec_falls == [exec1 |-> "fork2", exec2 |-> "waits", exec |-> "wait"]

\* Where a process goes on after an exec() that returned: the children of
\* init.c stay in init.c.
AfterExec == [exec1 |-> "fork2", exec2 |-> "waits", exec |-> "exit"]

\* What each exec() names; the shell takes the name from the console.
Named == [exec1 |-> {"filetest"}, exec2 |-> {"shell"},
          exec |-> Programs \cup {"no such file"}]

\* Where a process goes on after wait() returned a pid, or -1.
AfterPid == [wait1 |-> "fork2", waits |-> "waits", wait |-> "getchar"]
AfterNone == [wait1 |-> "fork2", waits |-> "exit", wait |-> "wait"]

UserInit ==
    /\ Init
    /\ \E first \in {"fork1", "any"} :
          /\ label = [p \in Procs |-> IF p = init THEN first ELSE "exit"]
          /\ rootfs \in IF first = "any" THEN {{}} ELSE Packed

-----------------------------------------------------------------------------
(* The calls, each from the places that make it                            *)

In(labels) == cpu \in Procs /\ label[cpu] \in labels

Goto(next) == label' = [label EXCEPT ![cpu] = next] /\ UNCHANGED rootfs

Forks ==
    /\ In(DOMAIN AfterFork)
    /\ sys_fork
    /\ \E child \in Procs :
        /\ ~Used(child) /\ Used(child)'
        /\ label' = [label EXCEPT ![cpu] = AfterFork[@],
                                  ![child] = InChild[label[cpu]]]
    /\ UNCHANGED rootfs

Execs ==
    /\ In(DOMAIN AfterExec)
    /\ \E file \in Named[label[cpu]] :
        \/ file \in rootfs /\ sys_exec /\ Goto(Entry[file])
        \/ /\ file \notin rootfs
           /\ At("user") /\ UNCHANGED vars
           /\ Goto(AfterExec[label[cpu]])

\* wait() gives a pid when a child has been unlinked, and nothing yet when
\* the process has been put back into the queue.
Waits ==
    /\ In(DOMAIN AfterPid)
    /\ sys_wait \/ WaitResumes
    /\ Goto(CASE children' # children -> AfterPid[label[cpu]]
              [] children' = children /\ cpu' = idle -> label[cpu]
              [] OTHER -> AfterNone[label[cpu]])

\* The shell reads a character; one that ends a line that is not empty makes
\* it fork.
Reads ==
    /\ In({"getchar"})
    /\ sys_read \/ ReadResumes
    /\ \E next \in {"getchar", "fork"} :
        /\ cpu' = idle => next = "getchar"
        /\ Goto(next)

\* A program that only computes, reads and writes files comes to its end.
Works ==
    /\ In({"work"})
    /\ At("user") /\ UNCHANGED vars
    /\ Goto("exit")

Exits ==
    /\ In({"exit"})
    /\ exit_current
    /\ Goto("exit")

\* The other init and its children fork from an image they were exec'ed with
\* and exit without children.
Others ==
    /\ In({"any"})
    /\ \/ mm[cpu].segs /\ Cardinality({p \in Procs : Used(p)}) < MaxOthers /\ sys_fork
       \/ sys_exec
       \/ sys_wait \/ WaitResumes \/ sys_read \/ ReadResumes
       \/ children[cpu] = <<>> /\ exit_current
    /\ label' = [p \in Procs |-> IF ~Used(p) /\ Used(p)' THEN "any" ELSE label[p]]
    /\ UNCHANGED rootfs

Calls == Forks \/ Execs \/ Waits \/ Reads \/ Works \/ Exits \/ Others

\* What happens to a program whatever it does.  (The loop of exit_current()
\* is not here: NeverStuck says that no program gets there.)
Kernel ==
    /\ schedule \/ supervisor_timer \/ TrapPanics \/ Spin
    /\ UNCHANGED <<label, rootfs>>

UserNext == Calls \/ Kernel

UserSpec == UserInit /\ [][UserNext]_uvars

\* The kernel's own steps and the timer as in Process; and a process that
\* gets the hart again and again gets on with its program, as the 10 ms it
\* has each time are more than an instruction takes.
UserFairness ==
    /\ WF_uvars(schedule /\ UNCHANGED <<label, rootfs>>)
    /\ WF_uvars(supervisor_timer /\ UNCHANGED <<label, rootfs>>)
    /\ WF_uvars(Calls /\ ~At("user"))
    /\ \A p \in Procs : SF_uvars(cpu = p /\ Calls)

FairUserSpec == UserSpec /\ UserFairness

-----------------------------------------------------------------------------
(* What must hold                                                          *)

\* The programs fork only from an image they were exec'ed with and exit only
\* when they have waited for every child, which is all that Process assumes
\* of the shipped programs; what is proved there of such programs holds here.
Ship == INSTANCE Process WITH Shipped <- TRUE
KeepsShipped == Ship!Spec

\* The shell prompts again after a command that is no shell and no init: the
\* child execs, works, exits and is reaped, or finds no such file and exits,
\* while the timer switches between it, its waiting parent and the others.
PromptReturns ==
    \A p \in Procs :
        label[p] = "wait" ~>
            \/ label[p] = "getchar"
            \/ mode # "run"
            \/ \E c \in ToSet(children[p]) : label[c] \notin {"exec", "work", "exit"}
=============================================================================
