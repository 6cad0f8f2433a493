------------------------------ MODULE Context ------------------------------
(***************************************************************************)
(* How one hart runs many processes: kerneltrap.S and switch.S, the        *)
(* handlers of trap.c and syscall.c around them, the contexts that fork,   *)
(* exec and init_process() prepare, the timer, and the boot up to there.   *)
(*                                                                         *)
(* A value in a register or a saved context is a symbol: <<"s0", v>> is    *)
(* what user code has put into s0, <<"kstack", p>> an address on p's       *)
(* kernel stack, and so on.  x1 to x31 are stood for by the registers      *)
(* below, s1 to s11 by s1 and s2.  Which process is next, and which child  *)
(* is reaped, is any: queue and families are those of Process.  A process  *)
(* has one root page table; that exec keeps satp in step with it is shown  *)
(* in AddressSpace.                                                        *)
(***************************************************************************)
EXTENDS Integers

CONSTANTS
    Procs,      \* the blocks that can hold a process control block
    init,       \* the first process
    idle,       \* the boot context that runs schedule()
    NULL,       \* the null pointer
    Values,     \* what tells the register files of user code apart
    PcMod       \* program counters are halfwords modulo this

Pcb == Procs \cup {idle}

ASSUME ContextAssumption ==
    /\ init \in Procs
    /\ idle \notin Procs
    /\ NULL \notin Pcb \cup {"sys_wait", "sys_read", "syscall"}
    /\ PcMod \in Nat /\ PcMod > 2

Regs == {"ra", "sp", "s0", "s1", "s2", "a0", "a1"}
Saved == {"s0", "s1", "s2"}

\* What user code leaves in the registers, what a program starts with, and
\* what compiled C code has in them when it runs on kernel stack sp.
zero == <<"zero", NULL>>
result == <<"result", NULL>>
UserCode(v) == [r \in Regs |-> <<r, v>>]
Fresh == [r \in Regs |-> IF r = "sp" THEN <<"ustack", NULL>> ELSE zero]
CCode(sp) == [r \in Regs |-> IF r = "sp" THEN sp ELSE <<"local", sp[2]>>]
ReturnTo(label) == <<label, NULL>>
Freed == NULL

\* A word that the hart finds in memory where it takes a context to be, and
\* the address of an instruction of the kernel.
Found == <<"memory", NULL>>
KernelPc == PcMod

VARIABLES
    at,         \* the code the hart is in
    x,          \* the registers
    pc,         \* the program counter of user code
    priv,       \* the privilege level
    sstatus,    \* its bits SPP, SPIE, SIE and SUM
    sscratch, sepc, satp,
    stie,       \* the bit STIE of sie
    timer,      \* the timer of the firmware
    current,    \* the global variable current
    state,      \* ProcessControlBlock.state, "Unused" for a free block
    process_cx, \* ProcessControlBlock.process_cx
    trap_cx,    \* ProcessControlBlock.trap_cx
    kstack      \* who called yield() or __switch() from this kernel stack, or
                \* "syscall": a system call that met a fault

hart == <<x, pc, priv, sstatus, sscratch, sepc, satp>>
vars == <<at, x, pc, priv, sstatus, sscratch, sepc, satp, stie, timer, current,
          state, process_cx, trap_cx, kstack>>

-----------------------------------------------------------------------------
(* Boot                                                                    *)

\* The firmware enters _start in S-mode with interrupts off; the other bits
\* of sstatus are whatever it leaves there.
Init ==
    /\ at = "_start"
    /\ x = [r \in Regs |-> <<"firmware", NULL>>]
    /\ pc = 0
    /\ priv = "S"
    /\ sstatus \in [SPP : {"U", "S"}, SPIE : BOOLEAN, SIE : {FALSE}, SUM : BOOLEAN]
    /\ sscratch = <<"firmware", NULL>>
    /\ sepc = 0
    /\ satp = NULL
    /\ stie = FALSE
    /\ timer = "off"
    /\ current = NULL
    /\ state = [p \in Pcb |-> "Unused"]
    /\ process_cx = [p \in Pcb |-> Freed]
    /\ trap_cx = [p \in Procs |-> Freed]
    /\ kstack = [p \in Pcb |-> Freed]

\* Paging with the boot page table, and the boot stack, which idle keeps.
_start ==
    /\ at = "_start"
    /\ satp' = idle
    /\ x' = CCode(<<"kstack", idle>>)
    /\ at' = "init_memory"
    /\ UNCHANGED <<pc, priv, sstatus, sscratch, sepc, stie, timer, current,
                   state, process_cx, trap_cx, kstack>>

init_memory ==
    /\ at = "init_memory"
    /\ sstatus' = [sstatus EXCEPT !.SUM = TRUE]
    /\ at' = "init_trap"
    /\ UNCHANGED <<x, pc, priv, sscratch, sepc, satp, stie, timer, current,
                   state, process_cx, trap_cx, kstack>>

init_trap ==
    /\ at = "init_trap"
    /\ stie' = TRUE
    /\ timer' = "armed"
    /\ at' = "init_process"
    /\ UNCHANGED <<hart, current, state, process_cx, trap_cx, kstack>>

\* The firmware's timer runs out, at any time.
TimerFires ==
    /\ timer = "armed"
    /\ timer' = "pending"
    /\ UNCHANGED <<at, hart, stie, current, state, process_cx, trap_cx, kstack>>

-----------------------------------------------------------------------------
(* The contexts of a new process and of a new program                      *)

goto_trap_restore(p) ==
    [ra |-> ReturnTo("__restore"), sp |-> <<"kstack", p>>,
     s |-> [r \in Saved |-> zero], satp |-> p]

\* Mutant: the previous privilege level is left as it is.
goto_app_level(p) ==
    [x |-> Fresh, sstatus |-> [sstatus EXCEPT !.SPIE = TRUE, !.SIE = FALSE],
     sepc |-> 0, kernel_sp |-> <<"kstack", p>>]

goto_app(p) ==
    [x |-> Fresh,
     sstatus |-> [sstatus EXCEPT !.SPP = "U", !.SPIE = TRUE, !.SIE = FALSE],
     sepc |-> 0, kernel_sp |-> <<"kstack", p>>]

init_process ==
    /\ at = "init_process"
    /\ state' = [state EXCEPT ![idle] = "Running", ![init] = "Ready"]
    /\ process_cx' = [process_cx EXCEPT ![init] = goto_trap_restore(init)]
    /\ trap_cx' = [trap_cx EXCEPT ![init] = goto_app(init)]
    /\ at' = "schedule"
    /\ UNCHANGED <<hart, stie, timer, current, kstack>>

-----------------------------------------------------------------------------
(* __switch                                                                *)

\* Called from label on the stack in sp: the registers of from are saved and
\* those of to loaded, in that order.  s0 is loaded with the others and then
\* serves to carry satp.
__switch(from, to, label) ==
    LET regs == [CCode(x["sp"]) EXCEPT !["ra"] = ReturnTo(label)]
        saved == [process_cx EXCEPT ![from] =
                     [ra |-> regs["ra"], sp |-> regs["sp"],
                      s |-> [r \in Saved |-> regs[r]], satp |-> satp]]
        next == saved[to]
    IN /\ process_cx' = saved
       /\ x' = [r \in Regs |->
                   CASE r = "ra" -> next.ra
                     [] r = "sp" -> next.sp
                     [] r = "s0" -> <<"satp", next.satp>>
                     [] r \in Saved \ {"s0"} -> next.s[r]
                     [] r = "a0" -> <<"trap_cx", to>>
                     [] r = "a1" -> <<"process_cx", to>>]
       /\ satp' = next.satp
       /\ at' = next.ra[1]
       /\ UNCHANGED <<pc, priv, sstatus, sscratch, sepc>>

\* schedule(), from the top of its loop or back from __switch.
Dispatch ==
    /\ at = "schedule"
    /\ \E p \in Procs :
        /\ state[p] = "Ready"
        /\ state' = [state EXCEPT ![p] = "Running", ![idle] = "Ready"]
        /\ current' = p
        /\ kstack' = [kstack EXCEPT ![x["sp"][2]] = "schedule"]
        /\ __switch(idle, p, "schedule")
    /\ UNCHANGED <<stie, timer, trap_cx>>

\* No process is left in the queue: schedule() and init_process() return and
\* main() calls shutdown().
ScheduleReturns ==
    /\ at = "schedule"
    /\ \A p \in Procs : state[p] # "Ready"
    /\ current' = idle
    /\ state' = [state EXCEPT ![idle] = "Running"]
    /\ at' = "shutdown"
    /\ UNCHANGED <<hart, stie, timer, process_cx, trap_cx, kstack>>

\* yield(), called by caller.
yield(caller) ==
    /\ state' = [state EXCEPT ![current] = "Ready"]
    /\ kstack' = [kstack EXCEPT ![x["sp"][2]] = caller]
    /\ __switch(current, idle, "yield")

-----------------------------------------------------------------------------
(* The trap: what the hart does, then __trap_entry                         *)

\* Mutant: the user's sp is not fetched back from sscratch.
TrapContext_sp(cx, status) ==
    [cx EXCEPT !.x = [x EXCEPT !["sp"] = sscratch], !.sstatus = status, !.sepc = pc]

\* The context that __trap_entry leaves behind: all registers and the CSRs.
TrapContext(cx, status) ==
    [cx EXCEPT !.x = x, !.sstatus = status, !.sepc = pc]

\* Interrupts are off from a trap on, to sret.
TrapStatus == [sstatus EXCEPT !.SPP = priv, !.SPIE = sstatus.SIE, !.SIE = FALSE]

\* A trap of user code.  csrrw swaps sp with sscratch, which keeps the user's
\* sp from then on; kernel_sp of the context found there becomes the stack.
\* a0 and a1 are the arguments of trap_handle().
Trap(scause) ==
    LET p == sscratch[2]
        status == TrapStatus
    IN /\ at = "user"
       /\ priv' = "S"
       /\ sstatus' = status
       /\ sepc' = pc
       /\ trap_cx' = [trap_cx EXCEPT ![p] = TrapContext(@, status)]
       /\ sscratch' = x["sp"]
       /\ x' = [CCode(trap_cx[p].kernel_sp) EXCEPT !["a0"] = sscratch,
                                                   !["a1"] = <<scause, NULL>>]
       /\ at' = "trap_handle"
       /\ UNCHANGED <<pc, satp, stie, timer, current, state, process_cx, kstack>>

\* A timer interrupt is taken in user mode whatever SIE says.
Interrupt ==
    /\ timer = "pending" /\ stie
    /\ Trap("SUPERVISOR_TIMER")

Exception == \E scause \in {"BREAKPOINT", "USER_ENV_CALL", "FAULT"} : Trap(scause)

\* An instruction of the program that does not trap.
UserRuns ==
    /\ at = "user"
    /\ \E v \in Values : x' = UserCode(v)
    /\ pc' \in 0 .. PcMod - 1
    /\ UNCHANGED <<at, priv, sstatus, sscratch, sepc, satp, stie, timer, current,
                   state, process_cx, trap_cx, kstack>>

-----------------------------------------------------------------------------
(* trap_handle()                                                           *)

\* context, the argument, and current->trap_cx; they are the same unless
\* something went wrong, and the code uses now the one, now the other.
context == x["a0"][2]

Handles(scause) == at = "trap_handle" /\ x["a1"][1] = scause

\* The handler returns to trap_handle(), which calls __restore() with
\* current->trap_cx.
CallsRestore ==
    /\ x' = [CCode(x["sp"]) EXCEPT !["a0"] = <<"trap_cx", current>>]
    /\ at' = "__restore"
    /\ UNCHANGED <<pc, priv, sstatus, sscratch, sepc, satp>>

Skip(cx, halfwords) == [cx EXCEPT !.sepc = (@ + halfwords) % PcMod]

breakpoint ==
    /\ Handles("BREAKPOINT")
    /\ trap_cx' = [trap_cx EXCEPT ![context] = Skip(@, 1)]
    /\ CallsRestore
    /\ UNCHANGED <<stie, timer, current, state, process_cx, kstack>>

\* panic() powers off like shutdown(), for a fault of user code and, on
\* whatever stack it runs, for one of kernel code.
fault ==
    /\ Handles("FAULT") \/ at = "fault"
    /\ at' = "shutdown"
    /\ UNCHANGED <<hart, stie, timer, current, state, process_cx, trap_cx, kstack>>

\* The firmware takes the pending interrupt back and counts again.
set_next_timeout == timer' = "armed"

supervisor_timer ==
    /\ Handles("SUPERVISOR_TIMER")
    /\ set_next_timeout
    /\ yield("supervisor_timer")
    /\ UNCHANGED <<stie, current, trap_cx>>

-----------------------------------------------------------------------------
(* syscall_handle()                                                        *)

\* The contexts once sepc has been moved behind the ecall, and with the
\* result of the call in a0.
Entered == [trap_cx EXCEPT ![context] = Skip(@, 2)]
Return(cxs, p, value) == [cxs EXCEPT ![p].x["a0"] = value]

\* A call that returns at once: exec of a missing file, wait without a child
\* and a read that finds its characters among them.
syscall ==
    /\ Handles("USER_ENV_CALL")
    /\ trap_cx' = Return(Entered, current, result)
    /\ CallsRestore
    /\ UNCHANGED <<stie, timer, current, state, process_cx, kstack>>

\* Mutant: the child keeps the kernel stack of its parent.
Child_stack(cx, child) == [cx EXCEPT !.x["a0"] = zero]

\* The trap context of a forked child.
Child(cx, child) == [cx EXCEPT !.kernel_sp = <<"kstack", child>>, !.x["a0"] = zero]

sys_fork ==
    /\ Handles("USER_ENV_CALL")
    /\ \E child \in Procs :
        /\ state[child] = "Unused"
        /\ state' = [state EXCEPT ![child] = "Ready"]
        /\ process_cx' = [process_cx EXCEPT ![child] = goto_trap_restore(child)]
        /\ trap_cx' = Return([Entered EXCEPT ![child] = Child(Entered[current], child)],
                             current, result)
    /\ CallsRestore
    /\ UNCHANGED <<stie, timer, current, kstack>>

\* exec of a file that exists; its result 0 is stored into the new context.
sys_exec ==
    /\ Handles("USER_ENV_CALL")
    /\ trap_cx' = Return([Entered EXCEPT ![current] = goto_app(current)], current, zero)
    /\ CallsRestore
    /\ UNCHANGED <<stie, timer, current, state, process_cx, kstack>>

\* A child that has exited is freed with its stack and its contexts.
Reap(cxs) ==
    \E child \in Procs \ {init, current} :
        /\ state[child] = "Exited"
        /\ state' = [state EXCEPT ![child] = "Unused"]
        /\ process_cx' = [process_cx EXCEPT ![child] = Freed]
        /\ trap_cx' = Return([cxs EXCEPT ![child] = Freed], current, result)
        /\ kstack' = [kstack EXCEPT ![child] = Freed, ![x["sp"][2]] = Freed]
        /\ CallsRestore

sys_wait ==
    /\ Handles("USER_ENV_CALL")
    /\ \/ Reap(Entered)
       \/ trap_cx' = Entered /\ yield("sys_wait")
    /\ UNCHANGED <<stie, timer, current>>

\* A system call follows a pointer that it has from the program and faults on
\* it, when of the variables here it has changed sepc of the context at most:
\* in open, exec, read or write, or in sys_read() behind yield().
\* __trap_entry is entered from S-mode, with the sp of some program in
\* sscratch: it takes that for the address of a trap context, saves the
\* registers there and takes the word it finds at kernel_sp for its stack.
\* trap_handle() then is on its way to fault(); or it or __trap_entry faults
\* again or writes over the kernel, and the kernel may do anything.
KernelFault ==
    /\ \/ /\ Handles("USER_ENV_CALL")
          /\ trap_cx' = Entered
          /\ kstack' = [kstack EXCEPT ![x["sp"][2]] = "syscall"]
       \/ /\ at = "yield" /\ kstack[x["sp"][2]] = "sys_read"
          /\ UNCHANGED <<trap_cx, kstack>>
    /\ priv' = "S"
    /\ sstatus' = TrapStatus
    /\ sepc' = KernelPc
    /\ sscratch' = x["sp"]
    /\ x' = [CCode(Found) EXCEPT !["a0"] = sscratch, !["a1"] = <<"FAULT", NULL>>]
    /\ at' \in {"fault", "wild"}
    /\ UNCHANGED <<pc, satp, stie, timer, current, state, process_cx>>

\* A read of the console that finds no character.
sys_read ==
    /\ Handles("USER_ENV_CALL")
    /\ trap_cx' = Entered
    /\ yield("sys_read")
    /\ UNCHANGED <<stie, timer, current>>

exit_current ==
    /\ Handles("USER_ENV_CALL")
    /\ trap_cx' = Entered
    /\ state' = [state EXCEPT ![current] = "Exited"]
    /\ kstack' = [kstack EXCEPT ![x["sp"][2]] = "exit_current"]
    /\ __switch(current, idle, "exit_current")
    /\ UNCHANGED <<stie, timer, current>>

\* Back from __switch in yield(): it returns to its caller, found on the
\* stack, which returns to trap_handle() or turns its loop once more.
YieldReturns ==
    LET caller == kstack[x["sp"][2]] IN
    /\ at = "yield"
    /\ \/ /\ caller \in {"sys_wait", "sys_read"}
          /\ yield(caller)
          /\ UNCHANGED trap_cx
       \/ caller = "sys_wait" /\ Reap(trap_cx)
       \/ /\ caller \in {"supervisor_timer", "sys_read"}
          /\ trap_cx' = IF caller = "sys_read"
                        THEN Return(trap_cx, current, result)
                        ELSE trap_cx
          /\ kstack' = [kstack EXCEPT ![x["sp"][2]] = Freed]
          /\ CallsRestore
          /\ UNCHANGED <<state, process_cx>>
    /\ UNCHANGED <<stie, timer, current>>

-----------------------------------------------------------------------------
(* __restore, entered from trap_handle() or, for a new process, from       *)
(* __switch                                                                *)

\* Up to the CSRs; sp is the address of the trap context from here on.
RestoreCsrs ==
    LET cx == trap_cx[x["a0"][2]] IN
    /\ at = "__restore"
    /\ sscratch' = x["a0"]
    /\ sstatus' = cx.sstatus
    /\ sepc' = cx.sepc
    /\ x' = [x EXCEPT !["sp"] = x["a0"], !["s1"] = <<"sstatus", NULL>>,
                      !["s2"] = <<"sepc", NULL>>]
    /\ at' = "sret"
    /\ UNCHANGED <<pc, priv, satp, stie, timer, current, state, process_cx,
                   trap_cx, kstack>>

\* The registers, sp last, and sret.
sret ==
    /\ at = "sret"
    /\ x' = trap_cx[x["sp"][2]].x
    /\ pc' = sepc
    /\ priv' = sstatus.SPP
    /\ sstatus' = [sstatus EXCEPT !.SIE = sstatus.SPIE, !.SPIE = TRUE, !.SPP = "U"]
    /\ at' = "user"
    /\ UNCHANGED <<sscratch, sepc, satp, stie, timer, current, state, process_cx,
                   trap_cx, kstack>>

\* The machine is down, or out of control.
Spin == at \in {"shutdown", "wild"} /\ UNCHANGED vars

Next ==
    \/ _start \/ init_memory \/ init_trap \/ init_process
    \/ TimerFires
    \/ Dispatch \/ ScheduleReturns
    \/ Interrupt \/ Exception \/ UserRuns
    \/ breakpoint \/ fault \/ supervisor_timer
    \/ syscall \/ sys_fork \/ sys_exec \/ sys_wait \/ sys_read \/ exit_current
    \/ KernelFault \/ YieldReturns
    \/ RestoreCsrs \/ sret
    \/ Spin

Spec == Init /\ [][Next]_vars

-----------------------------------------------------------------------------
(* What must hold                                                          *)

\* No interrupt is taken in kernel code, not even while it handles a fault of
\* its own: it keeps the user's sp, not a trap context, in sscratch, and loses
\* both if a trap comes in between.  User code can be interrupted, always, and
\* runs in U-mode; whatever the firmware left in sstatus and whatever contexts
\* were copied or prepared since.  A handler may touch the memory of the
\* process.  Faults are not masked by anything: for those in kernel code see
\* KernelFault and TrapContextFound.
Masked ==
    /\ stie /\ (priv = "U" \/ sstatus.SIE) => at = "user"
    /\ at = "user" => priv = "U" /\ stie /\ timer # "off"
    /\ at \in {"trap_handle", "yield"} => sstatus.SUM

\* Every process uses its own stack and its own contexts: the handlers of the
\* traps of user code run on current's kernel stack under current's page
\* table; the next trap of user code saves to current's trap context and goes
\* to current's kernel stack; and a process that is not running finds on its
\* stack the caller of the yield() it is in, and in its context the registers
\* of that call.  The handler of a fault in kernel code (at = "fault") has no
\* stack of its own, but does not get as far as a switch or a restore.
StacksOwn ==
    /\ at \in {"trap_handle", "yield"} =>
          x["sp"] = <<"kstack", current>> /\ satp = current
    /\ at = "yield" => x["s1"] = <<"local", current>> /\ x["s2"] = x["s1"]
    /\ at = "schedule" => x["sp"] = <<"kstack", idle>> /\ satp = idle
    /\ at \in {"__restore", "sret"} =>
          x["a0"] = <<"trap_cx", current>> /\ satp = current
    /\ at = "user" =>
          /\ sscratch = <<"trap_cx", current>> /\ satp = current
          /\ trap_cx[current].kernel_sp = <<"kstack", current>>
    /\ \A p \in Procs : state[p] = "Ready" =>
          /\ process_cx[p].sp = <<"kstack", p>> /\ process_cx[p].satp = p
          /\ process_cx[p].ra = ReturnTo("yield") =>
                kstack[p] \in {"supervisor_timer", "sys_wait", "sys_read"}

-----------------------------------------------------------------------------
(* What programs are promised: a hart of its own for each process          *)

Living == {p \in Procs : state[p] \in {"Ready", "Running"}}

\* A process owns the hart while user code runs under its page table; at any
\* other time its machine is the trap context it will be restored from.  It
\* is in a call while a handler has called yield() for it, and stays in one
\* that has met a fault.
OnHart(p) == at = "user" /\ satp = p
InCall(p) == kstack[p] \in {"sys_wait", "sys_read", "syscall"}

Machine(p) ==
    [x |-> IF OnHart(p) THEN x ELSE trap_cx[p].x,
     pc |-> IF OnHart(p) THEN pc ELSE trap_cx[p].sepc,
     in |-> IF InCall(p) THEN "call" ELSE "program"]

OwnMachines == [p \in Living |-> Machine(p)]

Own == INSTANCE Harts WITH
    Proc <- Procs, root <- init, Files <- {UserCode(v) : v \in Values},
    machine <- OwnMachines

\* Every step of the hart, in kernel or user code, is a step of one process
\* on a machine of its own, or is not seen by any.
ImplementsHarts == Own!Spec

-----------------------------------------------------------------------------
(* What a comment says and the code does not do                            *)

\* __trap_entry says that sscratch holds the address of the trap context, and
\* sp, once the two are swapped, points to it.  (A fault in a system call
\* finds the sp of user code in sscratch.)
TrapContextFound ==
    at \in {"trap_handle", "fault"} => x["a0"] = <<"trap_cx", current>>

-----------------------------------------------------------------------------
(* The inductive invariant: Masked and StacksOwn, with what they rest on.  *)

Boot == {"_start", "init_memory", "init_trap", "init_process"}
InKernel == {"trap_handle", "yield", "__restore", "sret"}

\* The tables have an entry for each block, the registers and sstatus their
\* names.
Shape ==
    /\ at \in Boot \cup InKernel \cup {"schedule", "user", "fault", "shutdown", "wild"}
    /\ state \in [Pcb -> {"Unused", "Ready", "Running", "Exited"}]
    /\ process_cx = [p \in Pcb |-> process_cx[p]]
    /\ trap_cx = [p \in Procs |-> trap_cx[p]]
    /\ kstack = [p \in Pcb |-> kstack[p]]
    /\ at # "user" => x = [r \in Regs |-> x[r]]
    /\ sstatus = [SPP |-> sstatus.SPP, SPIE |-> sstatus.SPIE,
                  SIE |-> sstatus.SIE, SUM |-> sstatus.SUM]

\* The privilege level and the interrupts, by what the boot has done so far.
Levels ==
    /\ IF at = "user" THEN priv = "U" ELSE priv = "S" /\ sstatus.SIE = FALSE
    /\ at \notin {"_start", "init_memory"} => sstatus.SUM = TRUE
    /\ at \notin {"_start", "init_memory", "init_trap"} => stie = TRUE /\ timer # "off"

\* No process exists before init, and then one has the hart unless idle does.
\* The context of idle is that of the call of __switch in schedule().
Owner ==
    /\ at \in Boot => \A p \in Procs : state[p] = "Unused"
    /\ at \in InKernel \cup {"user"} =>
          /\ current \in Procs /\ state[current] = "Running" /\ satp = current
          /\ process_cx[idle].ra = ReturnTo("schedule")
          /\ process_cx[idle].sp = <<"kstack", idle>>
          /\ process_cx[idle].satp = idle

\* Where the registers lead in kernel code.
Leads ==
    /\ at \in (Boot \ {"_start"}) \cup {"schedule"} =>
          x["sp"] = <<"kstack", idle>> /\ satp = idle
    /\ at \in {"trap_handle", "yield"} => x["sp"] = <<"kstack", current>>
    /\ at \in {"trap_handle", "__restore", "sret"} => x["a0"] = <<"trap_cx", current>>
    /\ at = "yield" =>
          /\ x["s1"] = <<"local", current>> /\ x["s2"] = <<"local", current>>
          /\ kstack[current] \in {"supervisor_timer", "sys_wait", "sys_read"}
    /\ at = "sret" =>
          /\ x["sp"] = <<"trap_cx", current>> /\ sscratch = <<"trap_cx", current>>
          /\ sstatus.SPP = "U"
    /\ at = "user" => sscratch = <<"trap_cx", current>>

\* The trap context of every process that lives, to be restored in U-mode.
Restorable(cx, p) ==
    /\ cx = [x |-> cx.x, sstatus |-> cx.sstatus, sepc |-> cx.sepc,
             kernel_sp |-> <<"kstack", p>>]
    /\ cx.sstatus = [SPP |-> "U", SPIE |-> cx.sstatus.SPIE, SIE |-> FALSE, SUM |-> TRUE]

TrapContexts ==
    \A p \in Procs : state[p] \in {"Ready", "Running"} => Restorable(trap_cx[p], p)

\* The process context of every process that waits for the hart: it is new,
\* or inside yield().
InYield(cx, p) ==
    /\ cx.ra = ReturnTo("yield")
    /\ cx.s["s1"] = <<"local", p>> /\ cx.s["s2"] = <<"local", p>>
    /\ kstack[p] \in {"supervisor_timer", "sys_wait", "sys_read"}

ProcessContexts ==
    \A p \in Procs : state[p] = "Ready" =>
        /\ process_cx[p].sp = <<"kstack", p>> /\ process_cx[p].satp = p
        /\ process_cx[p].ra = ReturnTo("__restore") \/ InYield(process_cx[p], p)

IInv == Shape /\ Levels /\ Owner /\ Leads /\ TrapContexts /\ ProcessContexts

\* What the refinement needs besides: a process that is in user code, enters
\* or leaves it, or is new is in no call; sret jumps to sepc of the context
\* it loads the registers from.
Calling ==
    /\ at \in {"user", "trap_handle", "__restore", "sret"} => ~InCall(current)
    /\ \A p \in Procs :
          \/ state[p] = "Unused"
          \/ state[p] = "Ready" /\ process_cx[p].ra = ReturnTo("__restore")
          => ~InCall(p)
    /\ at = "sret" => sepc = trap_cx[current].sepc
=============================================================================
