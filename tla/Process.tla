------------------------------ MODULE Process ------------------------------
(***************************************************************************)
(* The process subsystem of LilacOS (kernel/process.c, with the calls that *)
(* trap.c, syscall.c and fs.c make into it): the run queue of the idle     *)
(* process, the families that fork, wait and exit build, the pid bitmap    *)
(* and the part of the address space that decides whether a process can be *)
(* switched to at all.                                                     *)
(*                                                                         *)
(* One hart runs the kernel, and it runs with interrupts off, so a handler *)
(* is one step up to the point where it calls __switch.  A process that is *)
(* inside a kernel loop when it gives up the hart (sys_wait, sys_read)     *)
(* resumes in the middle of that handler: kpc says where.                  *)
(***************************************************************************)
EXTENDS Integers, Sequences, SequencesExt

CONSTANTS
    Procs,      \* the memory blocks that can hold a process control block
    init,       \* the first process, created by init_process()
    idle,       \* the boot context that runs schedule()
    NULL,       \* the null pointer
    MaxPid,     \* MAX_PID: the number of bits of the pid bitmap
    Shipped     \* TRUE: user programs keep to what src/user/*.c do

Pcb == Procs \cup {idle}
Pids == 0 .. MaxPid - 1
NoPid == -1

ASSUME ProcessAssumption ==
    /\ init \in Procs
    /\ idle \notin Procs
    /\ NULL \notin Pcb
    /\ MaxPid \in Nat /\ MaxPid > 1
    /\ Shipped \in BOOLEAN

VARIABLES
    state,      \* ProcessControlBlock.state, "Unused" for a free block
    pid,        \* ProcessControlBlock.pid
    pids,       \* the set of pids whose bit is set
    current,    \* the global variable current
    cpu,        \* the context whose code the hart is executing
    runq,       \* idle->list, the scheduling queue
    children,   \* ProcessControlBlock.children, newest first
    kpc,        \* where the process resumes: "user", or inside "wait" / "read"
    mm,         \* what ProcessControlBlock.mm and satp map of the kernel
    mode,       \* what the hart is doing beside running processes
    pos         \* the loop variable child of exit_current()

vars == <<state, pid, pids, current, cpu, runq, children, kpc, mm, mode, pos>>

-----------------------------------------------------------------------------
(* Address spaces.  segs: the kernel's Linear segments are on the segment  *)
(* list.  mapped: the page table maps the kernel.                          *)

new_kernel_memory_map == [segs |-> TRUE, mapped |-> TRUE]
NoMap == [segs |-> FALSE, mapped |-> FALSE]

\* Mutant: `continue` comes before map_segment().
copy_mm_unmapped(src) == NoMap

\* The loop maps every segment of src, but `continue`s before it links a
\* Linear segment into the copy.
copy_mm(src) == [segs |-> FALSE, mapped |-> src.segs]

-----------------------------------------------------------------------------
(* Helpers of process.c and list.h                                         *)

\* Mutant: the bit is not tested.
alloc_pid_untested(n) == n # NoPid /\ \A m \in Pids : m < n => m \in pids

\* The pid alloc_pid() returns: the lowest clear bit, or -1 if there is none.
alloc_pid(n) ==
    IF n = NoPid
    THEN pids = Pids
    ELSE n \notin pids /\ \A m \in Pids : m < n => m \in pids

\* Mutant: list_del() is forgotten.
list_del_forgotten(families, p, i) == families

\* The families after list_add(&c->sibling, &p->children), at the front, and
\* after list_del() of the i-th sibling on p's list.
list_add(families, p, c) == [families EXCEPT ![p] = <<c>> \o @]
list_del(families, p, i) == [families EXCEPT ![p] = RemoveAt(@, i)]

\* Mutants: the list head itself is linked; the process goes to the front.
add_process_head(p) == Append(runq, idle)
add_process_front(p) == <<p>> \o runq

\* The queue after add_process(p).
add_process(p) == Append(runq, p)

\* Mutants: the state is not looked at; only the first entry is.
FirstIn_any(list, s, i) == i \in DOMAIN list /\ i = 1
FirstIn_head(list, s, i) == i \in DOMAIN list /\ i = 1 /\ state[list[i]] = s

\* i is where list_for_each_entry first meets a process in state s.
FirstIn(list, s, i) ==
    /\ i \in DOMAIN list
    /\ state[list[i]] = s
    /\ \A j \in 1 .. i - 1 : state[list[j]] # s

\* The process that holds the hart is executing user code (k = "user") or
\* the body of the kernel loop k.
At(k) == mode = "run" /\ cpu \in Procs /\ kpc[cpu] = k

\* Mutants: the process is not put back into the queue; it stays Running.
yield_unqueued(k) ==
    /\ state' = [state EXCEPT ![current] = "Ready"]
    /\ UNCHANGED runq
    /\ kpc' = [kpc EXCEPT ![current] = k]
    /\ cpu' = idle
yield_running(k) ==
    /\ UNCHANGED state
    /\ runq' = add_process(current)
    /\ kpc' = [kpc EXCEPT ![current] = k]
    /\ cpu' = idle

\* yield() called at point k of the running process: it goes to the tail of
\* the queue and the hart to the scheduler.
yield(k) ==
    /\ state' = [state EXCEPT ![current] = "Ready"]
    /\ runq' = add_process(current)
    /\ kpc' = [kpc EXCEPT ![current] = k]
    /\ cpu' = idle

-----------------------------------------------------------------------------
(* init_process()                                                          *)

Init ==
    /\ state = [p \in Pcb |-> CASE p = init -> "Ready"
                                [] p = idle -> "Running"
                                [] OTHER -> "Unused"]
    /\ pid = [p \in Pcb |-> CASE p = idle -> 0
                              [] p = init -> 1
                              [] OTHER -> NoPid]
    /\ pids = {0, 1}
    /\ current = NULL
    /\ cpu = idle
    /\ runq = <<init>>
    /\ children = [p \in Procs |-> <<>>]
    /\ kpc = [p \in Procs |-> "user"]
    /\ mm = [p \in Procs |-> IF p = init THEN new_kernel_memory_map ELSE NoMap]
    /\ mode = "run"
    /\ pos = NULL

-----------------------------------------------------------------------------
(* schedule()                                                              *)

\* __switch to p.  It loads p's satp before it returns into p, so a page
\* table without the kernel leaves the hart without an instruction to fetch.
SwitchTo(p) ==
    /\ cpu' = p
    /\ mode' = IF mm[p].mapped THEN "run" ELSE "wedged"

Dispatch ==
    /\ mode = "run" /\ cpu = idle
    /\ \E i \in DOMAIN runq :
        /\ FirstIn(runq, "Ready", i)
        /\ runq' = RemoveAt(runq, i)
        /\ state' = [state EXCEPT ![runq[i]] = "Running", ![idle] = "Ready"]
        /\ current' = runq[i]
        /\ SwitchTo(runq[i])
    /\ UNCHANGED <<pid, pids, children, kpc, mm, pos>>

\* The queue is empty: schedule() returns and main() shuts the machine down.
ScheduleReturns ==
    /\ mode = "run" /\ cpu = idle
    /\ runq = <<>>
    /\ current' = idle
    /\ state' = [state EXCEPT ![idle] = "Running"]
    /\ mode' = "shutdown"
    /\ UNCHANGED <<pid, pids, cpu, runq, children, kpc, mm, pos>>

schedule == Dispatch \/ ScheduleReturns

-----------------------------------------------------------------------------
(* Traps from user code.  The handlers name the process through current,   *)
(* as the code does; cpu only says whose code runs.                        *)

supervisor_timer ==
    /\ At("user")
    /\ yield("user")
    /\ UNCHANGED <<pid, pids, current, children, mm, mode, pos>>

\* An unhandled exception, an unknown system call, a file that is not ELF or
\* an allocation that fails: panic() shuts the machine down.
TrapPanics ==
    /\ At("user")
    /\ mode' = "panic"
    /\ UNCHANGED <<state, pid, pids, current, cpu, runq, children, kpc, mm, pos>>

\* init.c and shell.c fork from the image they were exec'ed with.
MayFork == Shipped => mm[current].segs

sys_fork ==
    /\ At("user") /\ MayFork
    /\ \E child \in Procs, n \in Pids \cup {NoPid} :
        /\ state[child] = "Unused"
        /\ alloc_pid(n)
        /\ pid' = [pid EXCEPT ![child] = n]
        /\ pids' = pids \cup ({n} \ {NoPid})
        /\ state' = [state EXCEPT ![child] = "Ready"]
        /\ mm' = [mm EXCEPT ![child] = copy_mm(mm[current])]
        /\ children' = list_add(children, current, child)
        /\ runq' = add_process(child)
    /\ UNCHANGED <<current, cpu, kpc, mode, pos>>

\* sys_exec() of a file that exists; of one that does not, it returns -1 and
\* leaves everything as it is.
sys_exec ==
    /\ At("user")
    /\ mm' = [mm EXCEPT ![current] = new_kernel_memory_map]
    /\ UNCHANGED <<state, pid, pids, current, cpu, runq, children, kpc, mode, pos>>

-----------------------------------------------------------------------------
(* sys_wait()                                                              *)

\* The child at index i has exited: unlink it and free what it holds.
\* dealloc_pid() panics on the pid of a child that alloc_pid() gave none.
Reap(i) ==
    LET child == children[current][i] IN
    /\ children' = list_del(children, current, i)
    /\ kpc' = [kpc EXCEPT ![current] = "user"]
    /\ IF pid[child] = NoPid
       THEN mode' = "panic" /\ UNCHANGED <<state, pid, pids, mm>>
       ELSE /\ pids' = pids \ {pid[child]}
            /\ pid' = [pid EXCEPT ![child] = NoPid]
            /\ state' = [state EXCEPT ![child] = "Unused"]
            /\ mm' = [mm EXCEPT ![child] = NoMap]
            /\ UNCHANGED mode
    /\ UNCHANGED <<current, cpu, runq, pos>>

NoneExited == \A i \in DOMAIN children[current] :
                  ~FirstIn(children[current], "Exited", i)

\* One turn of the loop.  flag is what the variable flag holds when the turn
\* starts; nothing sets it back to 0 after a yield().
WaitTurn(flag) ==
    \/ \E i \in DOMAIN children[current] :
          FirstIn(children[current], "Exited", i) /\ Reap(i)
    \/ /\ NoneExited
       /\ flag \/ children[current] # <<>>
       /\ yield("wait")
       /\ UNCHANGED <<pid, pids, current, children, mm, mode, pos>>
    \/ /\ NoneExited
       /\ ~flag /\ children[current] = <<>>      \* returns -1
       /\ UNCHANGED vars

\* Mutant: flag starts as 1.
sys_wait_flagged == At("user") /\ WaitTurn(TRUE)

sys_wait == At("user") /\ WaitTurn(FALSE)

WaitResumes == At("wait") /\ WaitTurn(TRUE)

-----------------------------------------------------------------------------
(* sys_read() of the console: yields until a character is there.           *)

ReadTurn ==
    \/ /\ kpc' = [kpc EXCEPT ![current] = "user"]
       /\ UNCHANGED <<state, pid, pids, current, cpu, runq, children, mm, mode, pos>>
    \/ /\ yield("read")
       /\ UNCHANGED <<pid, pids, current, children, mm, mode, pos>>

sys_read == At("user") /\ ReadTurn

ReadResumes == At("read") /\ ReadTurn

-----------------------------------------------------------------------------
(* exit_current()                                                          *)

\* init.c returns from main when wait() finds no child left; the programs it
\* starts, and the shell's, wait for every child they fork.
MayExit == Shipped => children[current] = <<>>

\* Mutant: the children are not handed over.
ExitToScheduler_orphaning ==
    /\ At("user") /\ MayExit
    /\ state' = [state EXCEPT ![current] = "Exited"]
    /\ cpu' = idle
    /\ UNCHANGED <<pid, pids, current, runq, children, kpc, mm, mode, pos>>

\* No child to hand over, or init itself: straight to the scheduler.
ExitToScheduler ==
    /\ At("user") /\ MayExit
    /\ current = init \/ children[current] = <<>>
    /\ state' = [state EXCEPT ![current] = "Exited"]
    /\ cpu' = idle
    /\ UNCHANGED <<pid, pids, current, runq, children, kpc, mm, mode, pos>>

\* Otherwise the loop over the children starts at the first of them.
ExitWithChildren ==
    /\ At("user") /\ MayExit
    /\ current # init /\ children[current] # <<>>
    /\ state' = [state EXCEPT ![current] = "Exited"]
    /\ mode' = "reparent"
    /\ pos' = Head(children[current])
    /\ UNCHANGED <<pid, pids, current, cpu, runq, children, kpc, mm>>

exit_current == ExitToScheduler \/ ExitWithChildren

\* One turn of the inner loop: pos leaves the list it is on for the front of
\* init's.  pos->sibling.next is read after the move, so the loop goes on
\* along init's list and never meets &current->children.
ReparentTurn ==
    /\ mode = "reparent"
    /\ \E p \in Procs : \E i \in DOMAIN children[p] :
        /\ children[p][i] = pos
        /\ children' = list_add(list_del(children, p, i), init, pos)
    /\ pos' = IF Len(children'[init]) > 1 THEN children'[init][2] ELSE NULL
    /\ UNCHANGED <<state, pid, pids, current, cpu, runq, kpc, mm, mode>>

-----------------------------------------------------------------------------
\* shutdown() spins once the firmware has been asked to power off, and a
\* wedged hart takes the same fetch fault for ever.
Halted == mode \in {"shutdown", "panic", "wedged"}

Spin == Halted /\ UNCHANGED vars

Next ==
    \/ schedule
    \/ supervisor_timer
    \/ TrapPanics
    \/ sys_fork
    \/ sys_exec
    \/ sys_wait
    \/ WaitResumes
    \/ sys_read
    \/ ReadResumes
    \/ exit_current
    \/ ReparentTurn
    \/ Spin

Spec == Init /\ [][Next]_vars

\* The kernel runs to the next __switch once it has the hart, and the timer
\* interrupts user code at the latest every 10 ms.  Nothing is assumed of the
\* system calls a program makes.
Fairness ==
    /\ WF_vars(schedule)
    /\ WF_vars(supervisor_timer)
    /\ WF_vars(WaitResumes)
    /\ WF_vars(ReadResumes)
    /\ WF_vars(ReparentTurn)

FairSpec == Spec /\ Fairness

-----------------------------------------------------------------------------
(* What must hold                                                          *)

Used(p) == state[p] # "Unused"
Zombie(p) == state[p] = "Exited"

\* The type invariant of the process table, the queue and the hart.
TypeOK ==
    /\ state \in [Pcb -> {"Unused", "Ready", "Running", "Exited"}]
    /\ pid \in [Pcb -> Pids \cup {NoPid}]
    /\ pids \in SUBSET Pids
    /\ current \in Pcb \cup {NULL}
    /\ cpu \in Pcb
    /\ runq \in Seq(Procs)
    /\ children \in [Procs -> Seq(Procs)]
    /\ kpc \in [Procs -> {"user", "wait", "read"}]
    /\ mm \in [Procs -> [segs : BOOLEAN, mapped : BOOLEAN]]
    /\ mode \in {"run", "reparent", "wedged", "panic", "shutdown"}
    /\ pos \in Procs \cup {NULL}

\* The scheduling queue holds exactly the Ready processes, each of them once:
\* schedule() takes a process off before it runs it and yield() and sys_fork()
\* put it on once, so no process is lost and none is linked twice.
RunQueueExact ==
    /\ IsInjective(runq)
    /\ ToSet(runq) = {p \in Procs : state[p] = "Ready"}

\* The handlers act on `current`, which is set in schedule() only.  Whoever
\* holds the hart is the process current names, and nobody else is Running.
CurrentHoldsHart ==
    /\ cpu # idle => current = cpu
    /\ \A p \in Procs : state[p] = "Running" => p = cpu
    /\ cpu \in Procs =>
          state[cpu] = IF mode = "reparent" THEN "Exited" ELSE "Running"

\* Every process but init is on the children list of exactly one process,
\* once, and free blocks are on none: list_del and list_add of exit, fork and
\* wait never lose a sibling link.  (A panicking sys_wait has just unlinked.)
OneParent ==
    /\ \A p \in Procs : IsInjective(children[p])
    /\ \A p, q \in Procs :
          p # q => ToSet(children[p]) \cap ToSet(children[q]) = {}
    /\ mode # "panic" =>
          UNION {ToSet(children[p]) : p \in Procs} =
              {c \in Procs \ {init} : Used(c)}

\* Every process descends from init: no set of other processes is closed
\* under "parent of", so exit_current() always finds init's list non-empty
\* and no family is cut off from the process that could reap it.
RootedAtInit ==
    mode # "panic" =>
    \A S \in SUBSET {c \in Procs \ {init} : Used(c)} :
        S # {} => \E c \in S : \A p \in S : c \notin ToSet(children[p])

\* No process is on the list of a dead parent once that parent has given the
\* hart away, init excepted, and no list hangs off a free block: sys_wait()
\* frees the block of a zombie without looking at its children.
NoDeadParent ==
    \A p \in Procs \ {init} :
        children[p] # <<>> => state[p] \in {"Ready", "Running"} \/ p = cpu

\* The families that fork, wait and exit build are one tree under init: each
\* process on one list, all of them below init, none below a dead process.
Families == OneParent /\ RootedAtInit /\ NoDeadParent

\* A process inside the loop of sys_wait() always has a child.  The loop never
\* clears flag, so a waiter without children would yield for ever.
WaiterHasChild ==
    \A p \in Procs : kpc[p] = "wait" => children[p] # <<>>

\* The bitmap holds the pids in use and no two processes share one.
PidsExact ==
    /\ pids = {pid[p] : p \in Pcb} \ {NoPid}
    /\ \A p, q \in Pcb : pid[p] = pid[q] /\ pid[p] # NoPid => p = q

\* A process table entry changes only at the hand of the hart's owner: a
\* process that is neither dispatched nor the owner keeps its state, unless
\* the owner forks it or reaps it, and only a parent reaps.
OwnState ==
    \A p \in Procs :
        state'[p] # state[p] =>
            \/ p = cpu \/ p = cpu'
            \/ state[p] = "Unused" /\ p = Head(children'[cpu])
            \/ Zombie(p) /\ p \in ToSet(children[cpu])

OwnStateOnly == [][OwnState]_vars

\* A bitmap with more bits than there are blocks for processes never runs
\* out, so the -1 of alloc_pid(), which sys_fork() stores unchecked and
\* dealloc_pid() panics on, stays out of the process table.
PidsSuffice == \A p \in Procs : Used(p) => pid[p] # NoPid

\* While the kernel is up, a Ready process gets the hart: the queue is served
\* from its head and every process is put at its tail.
ReadyRuns ==
    \A p \in Procs : state[p] = "Ready" ~> (cpu = p \/ mode # "run")

\* While the kernel is up, a process that waits and has a child that has
\* exited returns from sys_wait().
WaitReturns ==
    \A p \in Procs :
        (kpc[p] = "wait" /\ \E c \in ToSet(children[p]) : Zombie(c))
            ~> (kpc[p] = "user" \/ mode # "run")

-----------------------------------------------------------------------------
(* What holds of the programs the repository ships                         *)

\* Neither the endless loop of exit_current() nor a page table without the
\* kernel is reached.
NeverStuck == mode \notin {"reparent", "wedged"}

\* When the machine is switched off, init has exited and been left, every
\* other process has been reaped and its pid is free again.
ShutdownReapedAll ==
    mode = "shutdown" =>
        /\ state[init] = "Exited"
        /\ \A p \in Procs \ {init} : ~Used(p)
        /\ pids = {pid[idle], pid[init]}

-----------------------------------------------------------------------------
(* What the comments say and the code does not do                          *)

\* mapping.c says copy_mm() copies a process's address space and elf.c that
\* an address space contains the kernel: every process can be switched to.
KernelMapped == \A p \in Procs : Used(p) => mm[p].mapped

\* exit_current() says it hands all children of the process to init.
OrphansAdopted ==
    \A p \in Procs \ {init} : Zombie(p) ~> (children[p] = <<>> \/ Halted)

-----------------------------------------------------------------------------
(* The inductive invariant: the properties above need, beside each other,  *)
(* what follows.                                                           *)

\* A free block has no pid and starts in user code; an exited process was in
\* user code when it made the system call.
FreeBlocksClean ==
    \A p \in Procs :
        /\ ~Used(p) => pid[p] = NoPid
        /\ state[p] \in {"Unused", "Exited"} => kpc[p] = "user"

\* init and idle keep their blocks and their pids, and the machine is switched
\* off from the scheduler, with nothing in the queue.
InitStays ==
    /\ Used(init)
    /\ pid[idle] = 0 /\ pid[init] = 1
    /\ mode = "shutdown" => cpu = idle /\ runq = <<>>

\* The loop of exit_current() works for an exiting process other than init,
\* and the next sibling it looks at is on that process's list or init's.
Reparenting ==
    mode = "reparent" =>
        /\ cpu \in Procs \ {init}
        /\ pos # NULL => pos \in ToSet(children[cpu]) \cup ToSet(children[init])

IInv ==
    /\ TypeOK
    /\ RunQueueExact
    /\ CurrentHoldsHart
    /\ FreeBlocksClean
    /\ InitStays
    /\ Reparenting
    /\ OneParent
    /\ NoDeadParent
    /\ RootedAtInit
    /\ WaiterHasChild
    /\ PidsExact

\* With the shipped programs, moreover, an exited process has no child.
ShippedInv ==
    /\ KernelMapped
    /\ NeverStuck
    /\ \A p \in Procs : Zombie(p) => children[p] = <<>>
=============================================================================
