--------------------------- MODULE ContextProofs ---------------------------
(***************************************************************************)
(* Theorems about Context, for every set of blocks and all values: no      *)
(* interrupt is taken in kernel code, and every process runs on its own    *)
(* stack and from its own contexts; the exception is what a fault in a     *)
(* system call leads to.  First what the helpers make of a context, then   *)
(* that __switch loads what IInv says of the process it goes to, then the  *)
(* actions.                                                                *)
(***************************************************************************)
EXTENDS Context, TLAPS

-----------------------------------------------------------------------------
(* The contexts                                                            *)

\* A table of trap contexts has an entry for each process.
Table(cxs) == cxs = [p \in Procs |-> cxs[p]]

\* Moving sepc does not touch what a context is restored to.
LEMMA SkipRestorable ==
    ASSUME NEW cx, NEW p, NEW n, Restorable(cx, p)
    PROVE  Restorable(Skip(cx, n), p)
  BY DEF Restorable, Skip

\* Nor does storing the result of a call.
LEMMA ReturnRestorable ==
    ASSUME NEW cxs, NEW p \in Procs, NEW v, Table(cxs), Restorable(cxs[p], p)
    PROVE  /\ Table(Return(cxs, p, v))
           /\ Restorable(Return(cxs, p, v)[p], p)
           /\ \A q \in Procs \ {p} : Return(cxs, p, v)[q] = cxs[q]
<1>1. Table(Return(cxs, p, v)) BY DEF Table, Return
<1>2. Return(cxs, p, v)[p] = [cxs[p] EXCEPT !.x["a0"] = v]
  BY DEF Table, Return
<1>3. Restorable(Return(cxs, p, v)[p], p) BY <1>2 DEF Restorable
<1>4. \A q \in Procs \ {p} : Return(cxs, p, v)[q] = cxs[q] BY DEF Table, Return
<1> QED BY <1>1, <1>3, <1>4

\* A copy for a child is restored on the child's stack.
LEMMA ChildRestorable ==
    ASSUME NEW cx, NEW p, NEW child, Restorable(cx, p)
    PROVE  Restorable(Child(cx, child), child)
<1> DEFINE moved == [cx EXCEPT !.kernel_sp = <<"kstack", child>>]
<1>1. Child(cx, child) = [moved EXCEPT !.x["a0"] = zero] BY DEF Child
<1>2. Restorable(moved, child) BY DEF Restorable
<1> HIDE DEF moved
<1>3. Restorable([moved EXCEPT !.x["a0"] = zero], child) BY <1>2 DEF Restorable
<1> QED BY <1>1, <1>3

\* A handler prepares contexts while SUM is set.
LEMMA AppRestorable ==
    ASSUME NEW p, Shape, sstatus.SUM = TRUE
    PROVE  Restorable(goto_app(p), p)
  BY DEF Restorable, goto_app, Shape

\* The handlers reach the contexts of current, and the table stays sound
\* when sepc of the caller is moved.
LEMMA EnteredSound ==
    ASSUME IInv, at = "trap_handle"
    PROVE  /\ context = current
           /\ Table(Entered)
           /\ \A p \in Procs : state[p] \in {"Ready", "Running"} =>
                 Restorable(Entered[p], p)
<1>1. context = current /\ current \in Procs /\ state[current] = "Running"
  BY DEF IInv, Leads, Owner, InKernel, context
<1>2. Table(trap_cx) BY DEF IInv, Shape, Table
<1>3. Table(Entered) BY <1>2 DEF Table, Entered
<1>4. Entered[current] = Skip(trap_cx[current], 2) BY <1>1, <1>2 DEF Table, Entered
<1>5. \A p \in Procs \ {current} : Entered[p] = trap_cx[p]
  BY <1>1, <1>2 DEF Table, Entered
<1> QED BY <1>1, <1>3, <1>4, <1>5, SkipRestorable DEF IInv, TrapContexts

-----------------------------------------------------------------------------
(* __switch                                                                *)

\* What a call of __switch saves and what it loads.
LEMMA Switched ==
    ASSUME Shape, NEW from \in Pcb, NEW to \in Pcb, from # to, NEW label,
           __switch(from, to, label)
    PROVE  /\ process_cx' = [p \in Pcb |-> process_cx'[p]]
           /\ \A p \in Pcb \ {from} : process_cx'[p] = process_cx[p]
           /\ process_cx'[from].ra = ReturnTo(label)
           /\ process_cx'[from].sp = x["sp"]
           /\ process_cx'[from].s["s1"] = <<"local", x["sp"][2]>>
           /\ process_cx'[from].s["s2"] = <<"local", x["sp"][2]>>
           /\ process_cx'[from].satp = satp
           /\ x' = [r \in Regs |-> x'[r]]
           /\ x'["sp"] = process_cx[to].sp
           /\ x'["s1"] = process_cx[to].s["s1"]
           /\ x'["s2"] = process_cx[to].s["s2"]
           /\ x'["a0"] = <<"trap_cx", to>>
           /\ satp' = process_cx[to].satp
           /\ at' = process_cx[to].ra[1]
           /\ UNCHANGED <<pc, priv, sstatus, sscratch, sepc>>
<1> DEFINE regs == [CCode(x["sp"]) EXCEPT !["ra"] = ReturnTo(label)]
           cx == [ra |-> regs["ra"], sp |-> regs["sp"],
                  s |-> [r \in Saved |-> regs[r]], satp |-> satp]
           saved == [process_cx EXCEPT ![from] = cx]
<1>1. /\ process_cx' = saved
      /\ x' = [r \in Regs |->
                   CASE r = "ra" -> saved[to].ra
                     [] r = "sp" -> saved[to].sp
                     [] r = "s0" -> <<"satp", saved[to].satp>>
                     [] r \in Saved \ {"s0"} -> saved[to].s[r]
                     [] r = "a0" -> <<"trap_cx", to>>
                     [] r = "a1" -> <<"process_cx", to>>]
      /\ satp' = saved[to].satp
      /\ at' = saved[to].ra[1]
      /\ UNCHANGED <<pc, priv, sstatus, sscratch, sepc>>
  BY DEF __switch
<1>2. /\ regs["ra"] = ReturnTo(label) /\ regs["sp"] = x["sp"]
      /\ regs["s1"] = <<"local", x["sp"][2]>> /\ regs["s2"] = <<"local", x["sp"][2]>>
  BY DEF CCode, Regs
<1>3. /\ cx.ra = ReturnTo(label) /\ cx.sp = x["sp"] /\ cx.satp = satp
      /\ cx.s["s1"] = <<"local", x["sp"][2]>> /\ cx.s["s2"] = <<"local", x["sp"][2]>>
  BY <1>2 DEF Saved
<1> HIDE DEF cx
<1>4. /\ saved = [p \in Pcb |-> saved[p]] /\ saved[from] = cx
      /\ \A p \in Pcb \ {from} : saved[p] = process_cx[p]
  BY DEF Shape
<1> HIDE DEF saved
<1>5. /\ x' = [r \in Regs |-> x'[r]]
      /\ x'["sp"] = saved[to].sp
      /\ x'["s1"] = saved[to].s["s1"] /\ x'["s2"] = saved[to].s["s2"]
      /\ x'["a0"] = <<"trap_cx", to>>
  BY <1>1 DEF Regs, Saved
<1> QED BY <1>1, <1>3, <1>4, <1>5

\* Going to idle leads back into the loop of schedule().
LEMMA SwitchedToIdle ==
    ASSUME IInv, at \in {"trap_handle", "yield"}, NEW label,
           __switch(current, idle, label)
    PROVE  /\ current \in Procs /\ state[current] = "Running"
           /\ process_cx' = [p \in Pcb |-> process_cx'[p]]
           /\ \A p \in Pcb \ {current} : process_cx'[p] = process_cx[p]
           /\ process_cx'[current].ra = ReturnTo(label)
           /\ process_cx'[current].sp = <<"kstack", current>>
           /\ process_cx'[current].s["s1"] = <<"local", current>>
           /\ process_cx'[current].s["s2"] = <<"local", current>>
           /\ process_cx'[current].satp = current
           /\ x["sp"][2] = current
           /\ x' = [r \in Regs |-> x'[r]]
           /\ x'["sp"] = <<"kstack", idle>>
           /\ satp' = idle /\ at' = "schedule"
           /\ UNCHANGED <<pc, priv, sstatus, sscratch, sepc>>
<1>1. /\ current \in Procs /\ state[current] = "Running" /\ satp = current
      /\ process_cx[idle].ra = ReturnTo("schedule")
      /\ process_cx[idle].sp = <<"kstack", idle>>
      /\ process_cx[idle].satp = idle
      /\ x["sp"] = <<"kstack", current>>
  BY DEF IInv, Owner, Leads, InKernel
<1>2. current \in Pcb /\ idle \in Pcb /\ current # idle /\ Shape
  BY <1>1, ContextAssumption DEF Pcb, IInv
<1>3. x["sp"][2] = current BY <1>1
<1>4. process_cx[idle].ra[1] = "schedule" BY <1>1 DEF ReturnTo
<1> QED BY <1>1, <1>2, <1>3, <1>4, Switched

\* What yield() and exit do, with the state they leave the process in.
LEMMA SwitchAwayKeeps ==
    ASSUME IInv, at \in {"trap_handle", "yield"}, NEW label, NEW caller, NEW s,
           __switch(current, idle, label),
           state' = [state EXCEPT ![current] = s],
           \/ s = "Exited"
           \/ /\ s = "Ready" /\ label = "yield"
              /\ caller \in {"supervisor_timer", "sys_wait", "sys_read"},
           kstack' = [kstack EXCEPT ![x["sp"][2]] = caller],
           Table(trap_cx'),
           \A p \in Procs : state[p] \in {"Ready", "Running"} =>
              Restorable(trap_cx'[p], p),
           stie' = stie, timer' \in {timer, "armed"}, current' = current
    PROVE  IInv'
<1>1. /\ current \in Procs /\ state[current] = "Running"
      /\ process_cx' = [p \in Pcb |-> process_cx'[p]]
      /\ \A p \in Pcb \ {current} : process_cx'[p] = process_cx[p]
      /\ process_cx'[current].ra = ReturnTo(label)
      /\ process_cx'[current].sp = <<"kstack", current>>
      /\ process_cx'[current].s["s1"] = <<"local", current>>
      /\ process_cx'[current].s["s2"] = <<"local", current>>
      /\ process_cx'[current].satp = current
      /\ x["sp"][2] = current
      /\ x' = [r \in Regs |-> x'[r]]
      /\ x'["sp"] = <<"kstack", idle>>
      /\ satp' = idle /\ at' = "schedule"
      /\ UNCHANGED <<pc, priv, sstatus, sscratch, sepc>>
  BY SwitchedToIdle
<1>2. /\ current \in Pcb /\ \A p \in Procs : p \in Pcb
      /\ state \in [Pcb -> {"Unused", "Ready", "Running", "Exited"}]
      /\ kstack = [p \in Pcb |-> kstack[p]]
  BY <1>1 DEF Pcb, IInv, Shape
<1>3. Shape' BY <1>1, <1>2 DEF Shape, Table, IInv, Boot, InKernel
<1>4. Levels' BY <1>1 DEF Levels, IInv
<1>5. Owner' BY <1>1 DEF Owner, Boot, InKernel
<1>6. Leads' BY <1>1 DEF Leads, Boot
<1>7. TrapContexts' BY <1>1, <1>2 DEF TrapContexts, IInv
<1>8. \A p \in Procs \ {current} :
         state'[p] = state[p] /\ kstack'[p] = kstack[p] /\ process_cx'[p] = process_cx[p]
  BY <1>1, <1>2
<1>9. state'[current] = s /\ kstack'[current] = caller BY <1>1, <1>2
<1>10. ProcessContexts' BY <1>1, <1>8, <1>9 DEF ProcessContexts, InYield, IInv
<1> QED BY <1>3, <1>4, <1>5, <1>6, <1>7, <1>10 DEF IInv

\* The return to trap_handle(), with the state of the process unchanged.
LEMMA CallsRestoreKeeps ==
    ASSUME IInv, at \in {"trap_handle", "yield"}, CallsRestore,
           Table(trap_cx'),
           \A p \in Procs : state'[p] \in {"Ready", "Running"} =>
              Restorable(trap_cx'[p], p),
           state' \in [Pcb -> {"Unused", "Ready", "Running", "Exited"}],
           process_cx' = [p \in Pcb |-> process_cx'[p]],
           kstack' = [p \in Pcb |-> kstack'[p]],
           state'[current] = "Running",
           process_cx'[idle] = process_cx[idle],
           \A p \in Procs : state'[p] = "Ready" =>
              \/ /\ state[p] = "Ready" /\ kstack'[p] = kstack[p]
                 /\ process_cx'[p] = process_cx[p]
              \/ process_cx'[p] = goto_trap_restore(p),
           stie' = stie, timer' = timer, current' = current
    PROVE  IInv'
<1>1. /\ current \in Procs /\ satp = current /\ at \notin Boot
      /\ process_cx[idle].ra = ReturnTo("schedule")
      /\ process_cx[idle].sp = <<"kstack", idle>>
      /\ process_cx[idle].satp = idle
  BY DEF IInv, Owner, InKernel, Boot
<1>2. /\ x' = [CCode(x["sp"]) EXCEPT !["a0"] = <<"trap_cx", current>>]
      /\ at' = "__restore"
      /\ UNCHANGED <<pc, priv, sstatus, sscratch, sepc, satp>>
  BY DEF CallsRestore
<1>3. /\ x' = [r \in Regs |-> x'[r]] /\ x'["a0"] = <<"trap_cx", current>>
  BY <1>2 DEF CCode, Regs
<1>4. Shape' BY <1>2, <1>3 DEF Shape, Table, IInv, InKernel
<1>5. Levels' BY <1>1, <1>2 DEF Levels, IInv, Boot
<1>6. Owner' BY <1>1, <1>2 DEF Owner, Boot, InKernel
<1>7. Leads' BY <1>2, <1>3 DEF Leads, Boot
<1>8. TrapContexts' BY DEF TrapContexts
<1>9. \A p \in Procs : /\ goto_trap_restore(p).sp = <<"kstack", p>>
                       /\ goto_trap_restore(p).satp = p
                       /\ goto_trap_restore(p).ra = ReturnTo("__restore")
  BY DEF goto_trap_restore
<1>10. ProcessContexts' BY <1>9 DEF ProcessContexts, InYield, IInv
<1> QED BY <1>4, <1>5, <1>6, <1>7, <1>8, <1>10 DEF IInv

-----------------------------------------------------------------------------
(* The actions: boot, scheduling, user code                                *)

LEMMA InitHolds == Init => IInv
  BY ContextAssumption
  DEF Init, IInv, Shape, Levels, Owner, Leads, TrapContexts, ProcessContexts,
      Boot, InKernel, Pcb, Regs

LEMMA BootKeeps ==
    ASSUME IInv, _start \/ init_memory \/ init_trap
    PROVE  IInv'
<1>1. CASE _start
  <2>1. x'["sp"] = <<"kstack", idle>> /\ x' = [r \in Regs |-> x'[r]]
    BY <1>1 DEF _start, CCode, Regs
  <2>2. Shape' /\ Levels' /\ Owner' /\ Leads'
    BY <1>1, <2>1 DEF _start, IInv, Shape, Levels, Owner, Leads, Boot, InKernel
  <2>3. TrapContexts' /\ ProcessContexts'
    BY <1>1 DEF _start, IInv, TrapContexts, ProcessContexts, InYield
  <2> QED BY <2>2, <2>3 DEF IInv
<1>2. CASE init_memory
  <2>1. Shape' /\ Levels' /\ Owner' /\ Leads'
    BY <1>2 DEF init_memory, IInv, Shape, Levels, Owner, Leads, Boot, InKernel
  <2>2. TrapContexts' /\ ProcessContexts'
    BY <1>2 DEF init_memory, IInv, TrapContexts, ProcessContexts, InYield
  <2> QED BY <2>1, <2>2 DEF IInv
<1>3. CASE init_trap
  <2>1. Shape' /\ Levels' /\ Owner' /\ Leads'
    BY <1>3 DEF init_trap, hart, IInv, Shape, Levels, Owner, Leads, Boot, InKernel
  <2>2. TrapContexts' /\ ProcessContexts'
    BY <1>3 DEF init_trap, IInv, TrapContexts, ProcessContexts, InYield
  <2> QED BY <2>1, <2>2 DEF IInv
<1> QED BY <1>1, <1>2, <1>3

LEMMA InitProcessKeeps ==
    ASSUME IInv, init_process
    PROVE  IInv'
<1>1. /\ at = "init_process" /\ Shape /\ sstatus.SUM = TRUE
      /\ \A p \in Procs : state[p] = "Unused"
      /\ init \in Procs /\ init \in Pcb /\ idle \in Pcb /\ init # idle
      /\ \A p \in Procs : p \in Pcb /\ p # idle
  BY ContextAssumption DEF init_process, IInv, Levels, Owner, Boot, Pcb
<1>2. /\ process_cx'[init] = goto_trap_restore(init)
      /\ trap_cx'[init] = goto_app(init)
      /\ state'[init] = "Ready"
      /\ \A p \in Procs \ {init} : state'[p] = "Unused"
  BY <1>1 DEF init_process, Shape
<1>3. Shape' BY <1>1 DEF init_process, hart, Shape, Boot, InKernel
<1>4. Levels' /\ Owner' /\ Leads'
  BY <1>1 DEF init_process, hart, IInv, Levels, Owner, Leads, Boot, InKernel
<1>5. TrapContexts' BY <1>1, <1>2, AppRestorable DEF TrapContexts
<1>6. ProcessContexts' BY <1>2 DEF ProcessContexts, goto_trap_restore
<1> QED BY <1>3, <1>4, <1>5, <1>6 DEF IInv

LEMMA TimerKeeps ==
    ASSUME IInv, TimerFires
    PROVE  IInv'
<1>1. Shape' /\ Levels' /\ Owner' /\ Leads'
  BY DEF TimerFires, hart, IInv, Shape, Levels, Owner, Leads
<1>2. TrapContexts' /\ ProcessContexts'
  BY DEF TimerFires, hart, IInv, TrapContexts, ProcessContexts, InYield
<1> QED BY <1>1, <1>2 DEF IInv

\* The process that gets the hart is new, or inside yield().
LEMMA DispatchKeeps ==
    ASSUME IInv, Dispatch
    PROVE  IInv'
<1>1. /\ at = "schedule" /\ x["sp"] = <<"kstack", idle>> /\ satp = idle
      /\ x["sp"][2] = idle /\ Shape
      /\ priv = "S" /\ sstatus.SIE = FALSE /\ sstatus.SUM = TRUE
  BY DEF Dispatch, IInv, Leads, Levels
<1>2. PICK p \in Procs :
        /\ state[p] = "Ready"
        /\ state' = [state EXCEPT ![p] = "Running", ![idle] = "Ready"]
        /\ current' = p
        /\ kstack' = [kstack EXCEPT ![x["sp"][2]] = "schedule"]
        /\ __switch(idle, p, "schedule")
  BY DEF Dispatch
<1>3. /\ p \in Pcb /\ idle \in Pcb /\ p # idle
      /\ \A q \in Procs : q \in Pcb /\ q # idle
  BY ContextAssumption DEF Pcb
<1>4. /\ process_cx' = [q \in Pcb |-> process_cx'[q]]
      /\ \A q \in Pcb \ {idle} : process_cx'[q] = process_cx[q]
      /\ process_cx'[idle].ra = ReturnTo("schedule")
      /\ process_cx'[idle].sp = <<"kstack", idle>>
      /\ process_cx'[idle].satp = idle
      /\ x' = [r \in Regs |-> x'[r]]
      /\ x'["sp"] = process_cx[p].sp
      /\ x'["s1"] = process_cx[p].s["s1"]
      /\ x'["s2"] = process_cx[p].s["s2"]
      /\ x'["a0"] = <<"trap_cx", p>>
      /\ satp' = process_cx[p].satp
      /\ at' = process_cx[p].ra[1]
      /\ UNCHANGED <<pc, priv, sstatus, sscratch, sepc>>
  BY <1>1, <1>2, <1>3, Switched
<1>5. /\ process_cx[p].sp = <<"kstack", p>> /\ process_cx[p].satp = p
      /\ process_cx[p].ra = ReturnTo("__restore") \/ InYield(process_cx[p], p)
  BY <1>2 DEF IInv, ProcessContexts
<1>6. \/ at' = "__restore"
      \/ /\ at' = "yield"
         /\ x'["s1"] = <<"local", p>> /\ x'["s2"] = <<"local", p>>
         /\ kstack[p] \in {"supervisor_timer", "sys_wait", "sys_read"}
  BY <1>4, <1>5 DEF InYield, ReturnTo
<1>7. /\ state'[p] = "Running" /\ \A q \in Procs \ {p} : state'[q] = state[q]
      /\ \A q \in Procs : kstack'[q] = kstack[q]
      /\ UNCHANGED <<stie, timer, trap_cx>>
  BY <1>1, <1>2, <1>3 DEF Dispatch, Shape
<1>8. Shape' BY <1>1, <1>2, <1>3, <1>4, <1>6, <1>7 DEF Shape, InKernel
<1>9. Levels' BY <1>1, <1>4, <1>6, <1>7 DEF Levels, IInv
<1>10. Owner' BY <1>2, <1>4, <1>5, <1>6, <1>7 DEF Owner, Boot
<1>11. Leads' BY <1>2, <1>4, <1>5, <1>6, <1>7 DEF Leads, Boot
<1>12. TrapContexts' BY <1>2, <1>7 DEF TrapContexts, IInv
<1>13. ProcessContexts' BY <1>3, <1>4, <1>7 DEF ProcessContexts, InYield, IInv
<1> QED BY <1>8, <1>9, <1>10, <1>11, <1>12, <1>13 DEF IInv

\* Nothing happens.
LEMMA StutterKeeps ==
    ASSUME IInv, UNCHANGED vars
    PROVE  IInv'
<1>1. Shape' BY DEF vars, IInv, Shape
<1>2. Levels' BY DEF vars, IInv, Levels
<1>3. Owner' BY DEF vars, IInv, Owner
<1>4. Leads' BY DEF vars, IInv, Leads
<1>5. TrapContexts' BY DEF vars, IInv, TrapContexts
<1>6. ProcessContexts' BY DEF vars, IInv, ProcessContexts, InYield
<1> QED BY <1>1, <1>2, <1>3, <1>4, <1>5, <1>6 DEF IInv

\* The ends of the run.
LEMMA EndKeeps ==
    ASSUME IInv, ScheduleReturns \/ fault \/ Spin
    PROVE  IInv'
<1>1. CASE ScheduleReturns
  <2>1. \A p \in Procs : state'[p] = state[p]
    BY <1>1, ContextAssumption DEF ScheduleReturns, IInv, Shape, Pcb
  <2>2. Shape' /\ Levels' /\ Owner' /\ Leads'
    BY <1>1 DEF ScheduleReturns, hart, IInv, Shape, Levels, Owner, Leads, Boot, InKernel
  <2>3. TrapContexts' /\ ProcessContexts'
    BY <1>1, <2>1 DEF ScheduleReturns, hart, IInv, TrapContexts, ProcessContexts, InYield
  <2> QED BY <2>2, <2>3 DEF IInv
<1>2. CASE fault
  <2>1. Shape' /\ Levels' /\ Owner' /\ Leads'
    BY <1>2 DEF fault, Handles, hart, IInv, Shape, Levels, Owner, Leads, Boot, InKernel
  <2>2. TrapContexts' /\ ProcessContexts'
    BY <1>2 DEF fault, hart, IInv, TrapContexts, ProcessContexts, InYield
  <2> QED BY <2>1, <2>2 DEF IInv
<1>3. CASE Spin
  BY <1>3, StutterKeeps DEF Spin
<1> QED BY <1>1, <1>2, <1>3

LEMMA UserKeeps ==
    ASSUME IInv, UserRuns
    PROVE  IInv'
<1>1. Shape' /\ Levels' /\ Owner' /\ Leads'
  BY DEF UserRuns, IInv, Shape, Levels, Owner, Leads, Boot, InKernel
<1>2. TrapContexts' /\ ProcessContexts'
  BY DEF UserRuns, IInv, TrapContexts, ProcessContexts, InYield
<1> QED BY <1>1, <1>2 DEF IInv

-----------------------------------------------------------------------------
(* The actions: into the kernel and out of it                              *)

\* sscratch leads to the context of current, and that to its kernel stack.
LEMMA TrapKeeps ==
    ASSUME IInv, NEW scause, Trap(scause)
    PROVE  IInv'
<1> DEFINE status == TrapStatus
<1>1. /\ at = "user" /\ sscratch = <<"trap_cx", current>> /\ sscratch[2] = current
      /\ current \in Procs /\ state[current] = "Running" /\ satp = current
      /\ priv = "U" /\ sstatus.SUM = TRUE
      /\ Restorable(trap_cx[current], current)
  BY DEF Trap, IInv, Leads, Owner, Levels, TrapContexts
<1>2. status = [SPP |-> "U", SPIE |-> status.SPIE, SIE |-> FALSE, SUM |-> TRUE]
  <2> DEFINE spp == [sstatus EXCEPT !.SPP = priv]
             spie == [spp EXCEPT !.SPIE = sstatus.SIE]
  <2>1. status = [spie EXCEPT !.SIE = FALSE] BY DEF TrapStatus
  <2>2. sstatus = [SPP |-> sstatus.SPP, SPIE |-> sstatus.SPIE,
                   SIE |-> sstatus.SIE, SUM |-> sstatus.SUM]
    BY DEF IInv, Shape
  <2>3. spp = [SPP |-> priv, SPIE |-> sstatus.SPIE,
               SIE |-> sstatus.SIE, SUM |-> sstatus.SUM]
    BY <2>2
  <2> HIDE DEF spp
  <2>4. spie = [SPP |-> priv, SPIE |-> sstatus.SIE,
                SIE |-> sstatus.SIE, SUM |-> sstatus.SUM]
    BY <2>3
  <2> HIDE DEF spie
  <2>5. \A off : [spie EXCEPT !.SIE = off] =
          [SPP |-> priv, SPIE |-> sstatus.SIE, SIE |-> off, SUM |-> sstatus.SUM]
    BY <2>4
  <2> HIDE DEF status
  <2>6. priv = "U" /\ sstatus.SUM = TRUE BY <1>1
  <2>7. status = [SPP |-> "U", SPIE |-> sstatus.SIE, SIE |-> FALSE, SUM |-> TRUE]
    BY <2>1, <2>5, <2>6, Zenon
  <2> QED BY <2>7
<1>3. /\ priv' = "S" /\ sstatus' = status
      /\ trap_cx' = [trap_cx EXCEPT ![current] = TrapContext(@, status)]
      /\ x' = [CCode(trap_cx[current].kernel_sp) EXCEPT !["a0"] = sscratch,
                                                        !["a1"] = <<scause, NULL>>]
      /\ at' = "trap_handle"
      /\ UNCHANGED <<pc, satp, stie, timer, current, state, process_cx, kstack>>
  BY <1>1 DEF Trap
<1> HIDE DEF status
<1>4. /\ trap_cx[current].kernel_sp = <<"kstack", current>>
      /\ Restorable(TrapContext(trap_cx[current], status), current)
  <2> DEFINE regs == [trap_cx[current] EXCEPT !.x = x]
             csr == [regs EXCEPT !.sstatus = status]
  <2>1. TrapContext(trap_cx[current], status) = [csr EXCEPT !.sepc = pc]
    BY DEF TrapContext
  <2>2. /\ trap_cx[current].kernel_sp = <<"kstack", current>>
        /\ regs = [x |-> regs.x, sstatus |-> regs.sstatus, sepc |-> regs.sepc,
                   kernel_sp |-> <<"kstack", current>>]
    BY <1>1 DEF Restorable
  <2> HIDE DEF regs
  <2>3. Restorable(csr, current) BY <1>2, <2>2 DEF Restorable
  <2> HIDE DEF csr
  <2>4. Restorable([csr EXCEPT !.sepc = pc], current) BY <2>3 DEF Restorable
  <2> QED BY <2>1, <2>2, <2>4
<1>5. /\ x' = [r \in Regs |-> x'[r]] /\ x'["sp"] = <<"kstack", current>>
      /\ x'["a0"] = <<"trap_cx", current>>
  BY <1>1, <1>3, <1>4 DEF CCode, Regs
<1>6. /\ Table(trap_cx')
      /\ trap_cx'[current] = TrapContext(trap_cx[current], status)
      /\ \A p \in Procs \ {current} : trap_cx'[p] = trap_cx[p]
  BY <1>1, <1>3 DEF IInv, Shape, Table
<1>7. Shape' BY <1>2, <1>3, <1>5, <1>6 DEF Table, IInv, Shape, InKernel
<1>8. Levels' BY <1>1, <1>2, <1>3 DEF IInv, Levels
<1>9. Owner' BY <1>1, <1>3 DEF IInv, Owner, Boot, InKernel
<1>10. Leads' BY <1>3, <1>5 DEF Leads, Boot
<1>11. TrapContexts' BY <1>3, <1>4, <1>6 DEF IInv, TrapContexts
<1>12. ProcessContexts' BY <1>3 DEF IInv, ProcessContexts, InYield
<1> QED BY <1>7, <1>8, <1>9, <1>10, <1>11, <1>12 DEF IInv

LEMMA RestoreKeeps ==
    ASSUME IInv, RestoreCsrs
    PROVE  IInv'
<1>1. /\ at = "__restore" /\ x["a0"] = <<"trap_cx", current>> /\ x["a0"][2] = current
      /\ current \in Procs /\ state[current] = "Running"
      /\ Restorable(trap_cx[current], current)
  BY DEF RestoreCsrs, IInv, Leads, Owner, InKernel, TrapContexts
<1>2. /\ sscratch' = <<"trap_cx", current>> /\ sstatus' = trap_cx[current].sstatus
      /\ x' = [x EXCEPT !["sp"] = x["a0"], !["s1"] = <<"sstatus", NULL>>,
                        !["s2"] = <<"sepc", NULL>>]
      /\ at' = "sret"
      /\ UNCHANGED <<pc, priv, satp, stie, timer, current, state, process_cx,
                     trap_cx, kstack>>
  BY <1>1 DEF RestoreCsrs
<1>3. sstatus' = [SPP |-> "U", SPIE |-> sstatus'.SPIE, SIE |-> FALSE, SUM |-> TRUE]
  BY <1>1, <1>2 DEF Restorable
<1>4. /\ x' = [r \in Regs |-> x'[r]]
      /\ x'["sp"] = <<"trap_cx", current>> /\ x'["a0"] = <<"trap_cx", current>>
  BY <1>1, <1>2 DEF IInv, Shape, Regs
<1>5. Shape' BY <1>2, <1>3, <1>4 DEF IInv, Shape, InKernel
<1>6. Levels' BY <1>1, <1>2, <1>3 DEF IInv, Levels
<1>7. Owner' BY <1>1, <1>2 DEF IInv, Owner, Boot, InKernel
<1>8. /\ at' = "sret" /\ current' = current /\ sscratch' = <<"trap_cx", current>>
      /\ sstatus'.SPP = "U"
  BY <1>2, <1>3
<1>9. Leads' BY <1>4, <1>8 DEF Leads, Boot
<1>10. TrapContexts' /\ ProcessContexts'
  BY <1>2 DEF IInv, TrapContexts, ProcessContexts, InYield
<1> QED BY <1>5, <1>6, <1>7, <1>9, <1>10 DEF IInv

LEMMA SretKeeps ==
    ASSUME IInv, sret
    PROVE  IInv'
<1>1. Shape' BY DEF sret, IInv, Shape
<1>2. Levels' BY DEF sret, IInv, Shape, Levels, Leads
<1>3. Owner' /\ Leads' BY DEF sret, IInv, Owner, Leads, Boot, InKernel
<1>4. TrapContexts' /\ ProcessContexts'
  BY DEF sret, IInv, TrapContexts, ProcessContexts, InYield
<1> QED BY <1>1, <1>2, <1>3, <1>4 DEF IInv

-----------------------------------------------------------------------------
(* The actions: the handlers                                               *)

\* What every handler finds.
LEMMA Inside ==
    ASSUME IInv, at \in {"trap_handle", "yield"}
    PROVE  /\ current \in Procs /\ current \in Pcb /\ idle \in Pcb /\ current # idle
           /\ state[current] = "Running" /\ sstatus.SUM = TRUE
           /\ x["sp"][2] = current /\ Shape /\ Table(trap_cx)
           /\ \A p \in Procs : p \in Pcb /\ p # idle
           /\ \A p \in Procs : state[p] \in {"Ready", "Running"} =>
                 Restorable(trap_cx[p], p)
<1>1. /\ current \in Procs /\ state[current] = "Running"
      /\ x["sp"] = <<"kstack", current>>
  BY DEF IInv, Owner, Leads, InKernel
<1>2. /\ sstatus.SUM = TRUE /\ Shape /\ Table(trap_cx)
      /\ \A p \in Procs : state[p] \in {"Ready", "Running"} =>
            Restorable(trap_cx[p], p)
  BY DEF IInv, Levels, Shape, Table, TrapContexts
<1>3. x["sp"][2] = current BY <1>1
<1> QED BY <1>1, <1>2, <1>3, ContextAssumption DEF Pcb

\* A handler that returns with nothing but trap contexts changed.
LEMMA ReturnsKeeps ==
    ASSUME IInv, at \in {"trap_handle", "yield"}, CallsRestore,
           Table(trap_cx'),
           \A p \in Procs : state[p] \in {"Ready", "Running"} =>
              Restorable(trap_cx'[p], p),
           kstack' = [p \in Pcb |-> kstack'[p]],
           \A p \in Procs \ {current} : kstack'[p] = kstack[p],
           UNCHANGED <<stie, timer, current, state, process_cx>>
    PROVE  IInv'
<1>1. /\ state' \in [Pcb -> {"Unused", "Ready", "Running", "Exited"}]
      /\ process_cx' = [p \in Pcb |-> process_cx'[p]]
      /\ state'[current] = "Running"
  BY Inside DEF Shape
<1>2. \A p \in Procs : state'[p] = "Ready" =>
         state[p] = "Ready" /\ kstack'[p] = kstack[p] /\ process_cx'[p] = process_cx[p]
  BY Inside
<1> QED BY <1>1, <1>2, CallsRestoreKeeps

LEMMA BreakpointKeeps ==
    ASSUME IInv, breakpoint
    PROVE  IInv'
<1>1. at = "trap_handle" /\ context = current
  BY EnteredSound DEF breakpoint, Handles
<1>2. trap_cx' = [trap_cx EXCEPT ![current] = Skip(@, 1)]
  BY <1>1 DEF breakpoint
<1>3. /\ trap_cx'[current] = Skip(trap_cx[current], 1) /\ Table(trap_cx')
      /\ \A p \in Procs \ {current} : trap_cx'[p] = trap_cx[p]
  BY <1>1, <1>2, Inside DEF Table
<1>4. \A p \in Procs : state[p] \in {"Ready", "Running"} => Restorable(trap_cx'[p], p)
  BY <1>1, <1>3, Inside, SkipRestorable
<1>5. /\ kstack' = [p \in Pcb |-> kstack'[p]] /\ kstack' = kstack
      /\ CallsRestore /\ UNCHANGED <<stie, timer, current, state, process_cx>>
  BY DEF breakpoint, IInv, Shape
<1> QED BY <1>1, <1>3, <1>4, <1>5, ReturnsKeeps

LEMMA SyscallKeeps ==
    ASSUME IInv, syscall
    PROVE  IInv'
<1>1. /\ at = "trap_handle" /\ trap_cx' = Return(Entered, current, result)
  BY DEF syscall, Handles
<1>2. /\ Table(trap_cx')
      /\ \A p \in Procs : state[p] \in {"Ready", "Running"} => Restorable(trap_cx'[p], p)
  BY <1>1, EnteredSound, Inside, ReturnRestorable
<1>3. /\ kstack' = [p \in Pcb |-> kstack'[p]] /\ kstack' = kstack
      /\ CallsRestore /\ UNCHANGED <<stie, timer, current, state, process_cx>>
  BY DEF syscall, IInv, Shape
<1> QED BY <1>1, <1>2, <1>3, ReturnsKeeps

LEMMA ExecKeeps ==
    ASSUME IInv, sys_exec
    PROVE  IInv'
<1> DEFINE cxs == [Entered EXCEPT ![current] = goto_app(current)]
<1>1. /\ at = "trap_handle" /\ trap_cx' = Return(cxs, current, zero)
  BY DEF sys_exec, Handles
<1>2. /\ Table(cxs) /\ cxs[current] = goto_app(current)
      /\ \A p \in Procs \ {current} : cxs[p] = Entered[p]
  BY <1>1, EnteredSound, Inside DEF Table
<1> HIDE DEF cxs
<1>3. Restorable(cxs[current], current) BY <1>1, <1>2, Inside, AppRestorable
<1>4. /\ Table(trap_cx')
      /\ \A p \in Procs : state[p] \in {"Ready", "Running"} => Restorable(trap_cx'[p], p)
  BY <1>1, <1>2, <1>3, EnteredSound, Inside, ReturnRestorable
<1>5. /\ kstack' = [p \in Pcb |-> kstack'[p]] /\ kstack' = kstack
      /\ CallsRestore /\ UNCHANGED <<stie, timer, current, state, process_cx>>
  BY DEF sys_exec, IInv, Shape
<1> QED BY <1>1, <1>4, <1>5, ReturnsKeeps

\* The child is a block that nobody uses: not current's.
LEMMA ForkKeeps ==
    ASSUME IInv, sys_fork
    PROVE  IInv'
<1>1. at = "trap_handle" BY DEF sys_fork, Handles
<1>2. PICK child \in Procs :
        /\ state[child] = "Unused"
        /\ state' = [state EXCEPT ![child] = "Ready"]
        /\ process_cx' = [process_cx EXCEPT ![child] = goto_trap_restore(child)]
        /\ trap_cx' = Return([Entered EXCEPT ![child] = Child(Entered[current], child)],
                             current, result)
  BY DEF sys_fork
<1>3. child # current BY <1>1, <1>2, Inside
<1> DEFINE cxs == [Entered EXCEPT ![child] = Child(Entered[current], child)]
<1>4. /\ Table(cxs) /\ cxs[child] = Child(Entered[current], child)
      /\ \A p \in Procs \ {child} : cxs[p] = Entered[p]
      /\ trap_cx' = Return(cxs, current, result)
  BY <1>1, <1>2, EnteredSound DEF Table
<1> HIDE DEF cxs
<1>5. /\ Restorable(cxs[child], child) /\ Restorable(cxs[current], current)
  BY <1>1, <1>3, <1>4, EnteredSound, Inside, ChildRestorable
<1>6. /\ state'[child] = "Ready" /\ \A p \in Procs \ {child} : state'[p] = state[p]
      /\ state' \in [Pcb -> {"Unused", "Ready", "Running", "Exited"}]
      /\ process_cx' = [p \in Pcb |-> process_cx'[p]]
      /\ process_cx'[child] = goto_trap_restore(child)
      /\ \A p \in Pcb \ {child} : process_cx'[p] = process_cx[p]
  BY <1>1, <1>2, Inside DEF Shape
<1>7. /\ Table(trap_cx')
      /\ \A p \in Procs : state'[p] \in {"Ready", "Running"} => Restorable(trap_cx'[p], p)
  BY <1>1, <1>4, <1>5, <1>6, EnteredSound, Inside, ReturnRestorable
<1>8. /\ kstack' = [p \in Pcb |-> kstack'[p]] /\ kstack' = kstack
      /\ CallsRestore /\ UNCHANGED <<stie, timer, current>>
  BY DEF sys_fork, IInv, Shape
<1>9. state'[current] = "Running" /\ process_cx'[idle] = process_cx[idle]
  BY <1>1, <1>2, <1>3, <1>6, Inside
<1>10. \A p \in Procs : state'[p] = "Ready" =>
         \/ state[p] = "Ready" /\ kstack'[p] = kstack[p] /\ process_cx'[p] = process_cx[p]
         \/ process_cx'[p] = goto_trap_restore(p)
  BY <1>1, <1>6, <1>8, Inside
<1> QED BY <1>1, <1>6, <1>7, <1>8, <1>9, <1>10, CallsRestoreKeeps

\* The child has exited: it is neither current nor Ready.
LEMMA ReapKeeps ==
    ASSUME IInv, at \in {"trap_handle", "yield"}, NEW cxs, Table(cxs),
           \A p \in Procs : state[p] \in {"Ready", "Running"} => Restorable(cxs[p], p),
           Reap(cxs), UNCHANGED <<stie, timer, current>>
    PROVE  IInv'
<1>1. PICK child \in Procs \ {init, current} :
        /\ state[child] = "Exited"
        /\ state' = [state EXCEPT ![child] = "Unused"]
        /\ process_cx' = [process_cx EXCEPT ![child] = Freed]
        /\ trap_cx' = Return([cxs EXCEPT ![child] = Freed], current, result)
        /\ kstack' = [kstack EXCEPT ![child] = Freed, ![x["sp"][2]] = Freed]
        /\ CallsRestore
  BY DEF Reap
<1> DEFINE freed == [cxs EXCEPT ![child] = Freed]
<1>2. /\ Table(freed) /\ \A p \in Procs \ {child} : freed[p] = cxs[p]
      /\ trap_cx' = Return(freed, current, result)
  BY <1>1 DEF Table
<1> HIDE DEF freed
<1>3. Restorable(freed[current], current) BY <1>1, <1>2, Inside
<1>4. /\ state'[child] = "Unused" /\ \A p \in Procs \ {child} : state'[p] = state[p]
      /\ state' \in [Pcb -> {"Unused", "Ready", "Running", "Exited"}]
      /\ process_cx' = [p \in Pcb |-> process_cx'[p]]
      /\ \A p \in Pcb \ {child} : process_cx'[p] = process_cx[p]
  BY <1>1, Inside DEF Shape
<1>5. /\ kstack' = [p \in Pcb |-> kstack'[p]]
      /\ \A p \in Procs \ {child, current} : kstack'[p] = kstack[p]
  BY <1>1, Inside DEF Shape
<1>6. /\ Table(trap_cx')
      /\ \A p \in Procs : state'[p] \in {"Ready", "Running"} => Restorable(trap_cx'[p], p)
  <2>1. current \in Procs BY Inside
  <2>2. /\ Table(Return(freed, current, result))
        /\ Restorable(Return(freed, current, result)[current], current)
        /\ \A p \in Procs \ {current} : Return(freed, current, result)[p] = freed[p]
    BY <1>2, <1>3, <2>1, ReturnRestorable
  <2>3. /\ Table(trap_cx') /\ Restorable(trap_cx'[current], current)
        /\ \A p \in Procs \ {current} : trap_cx'[p] = freed[p]
    BY <1>2, <2>2
  <2>4. ASSUME NEW p \in Procs, state'[p] \in {"Ready", "Running"}, p # current
        PROVE  Restorable(trap_cx'[p], p)
    <3>1. p # child /\ state'[p] = state[p] BY <1>4, <2>4
    <3>2. trap_cx'[p] = cxs[p] BY <1>2, <2>3, <2>4, <3>1
    <3> QED BY <2>4, <3>1, <3>2
  <2> QED BY <2>3, <2>4
<1>7. state'[current] = "Running" /\ process_cx'[idle] = process_cx[idle]
  BY <1>1, <1>4, Inside
<1>8. \A p \in Procs : state'[p] = "Ready" =>
         state[p] = "Ready" /\ kstack'[p] = kstack[p] /\ process_cx'[p] = process_cx[p]
  BY <1>4, <1>5, <1>7, Inside
<1> QED BY <1>1, <1>4, <1>5, <1>6, <1>7, <1>8, CallsRestoreKeeps

\* yield() saves the registers of its call.
LEMMA YieldKeeps ==
    ASSUME IInv, at \in {"trap_handle", "yield"},
           NEW caller \in {"supervisor_timer", "sys_wait", "sys_read"}, yield(caller),
           Table(trap_cx'),
           \A p \in Procs : state[p] \in {"Ready", "Running"} =>
              Restorable(trap_cx'[p], p),
           stie' = stie, timer' \in {timer, "armed"}, current' = current
    PROVE  IInv'
<1>1. /\ __switch(current, idle, "yield")
      /\ state' = [state EXCEPT ![current] = "Ready"]
      /\ kstack' = [kstack EXCEPT ![x["sp"][2]] = caller]
  BY DEF yield
<1> QED BY <1>1, SwitchAwayKeeps

LEMMA LeaveKeeps ==
    ASSUME IInv, supervisor_timer \/ sys_wait \/ sys_read \/ exit_current
    PROVE  IInv'
<1>1. /\ at = "trap_handle"
      /\ Table(trap_cx) /\ Table(Entered)
      /\ \A p \in Procs : state[p] \in {"Ready", "Running"} =>
            Restorable(trap_cx[p], p) /\ Restorable(Entered[p], p)
  BY EnteredSound, Inside DEF supervisor_timer, sys_wait, sys_read, exit_current, Handles
<1>2. CASE supervisor_timer
  <2>1. /\ yield("supervisor_timer") /\ timer' = "armed"
        /\ UNCHANGED <<stie, current, trap_cx>>
    BY <1>2 DEF supervisor_timer, set_next_timeout
  <2>2. /\ Table(trap_cx')
        /\ \A p \in Procs : state[p] \in {"Ready", "Running"} => Restorable(trap_cx'[p], p)
    BY <1>1, <2>1 DEF Table
  <2> QED BY <1>1, <2>1, <2>2, YieldKeeps
<1>3. CASE sys_wait
  <2>1. UNCHANGED <<stie, timer, current>> BY <1>3 DEF sys_wait
  <2>2. CASE Reap(Entered) BY <1>1, <2>1, <2>2, ReapKeeps
  <2>3. CASE trap_cx' = Entered /\ yield("sys_wait")
    <3>1. /\ Table(trap_cx')
          /\ \A p \in Procs : state[p] \in {"Ready", "Running"} => Restorable(trap_cx'[p], p)
      BY <1>1, <2>3
    <3> QED BY <1>1, <2>1, <2>3, <3>1, YieldKeeps
  <2> QED BY <1>3, <2>2, <2>3 DEF sys_wait
<1>4. CASE sys_read
  <2>1. yield("sys_read") /\ trap_cx' = Entered /\ UNCHANGED <<stie, timer, current>>
    BY <1>4 DEF sys_read
  <2>2. /\ Table(trap_cx')
        /\ \A p \in Procs : state[p] \in {"Ready", "Running"} => Restorable(trap_cx'[p], p)
    BY <1>1, <2>1
  <2> QED BY <1>1, <2>1, <2>2, YieldKeeps
<1>5. CASE exit_current
  <2>1. /\ trap_cx' = Entered
        /\ state' = [state EXCEPT ![current] = "Exited"]
        /\ kstack' = [kstack EXCEPT ![x["sp"][2]] = "exit_current"]
        /\ __switch(current, idle, "exit_current")
        /\ UNCHANGED <<stie, timer, current>>
    BY <1>5 DEF exit_current
  <2>2. /\ Table(trap_cx')
        /\ \A p \in Procs : state[p] \in {"Ready", "Running"} => Restorable(trap_cx'[p], p)
    BY <1>1, <2>1
  <2> QED BY <1>1, <2>1, <2>2, SwitchAwayKeeps
<1> QED BY <1>2, <1>3, <1>4, <1>5

\* A fault in kernel code: what is saved and loaded is lost, but the process
\* contexts and the other trap contexts are not touched.
LEMMA FaultKeeps ==
    ASSUME IInv, KernelFault
    PROVE  IInv'
<1>1. /\ at \in {"trap_handle", "yield"} /\ at' \in {"fault", "wild"} /\ priv' = "S"
      /\ sstatus' = TrapStatus
      /\ x' = [CCode(Found) EXCEPT !["a0"] = sscratch, !["a1"] = <<"FAULT", NULL>>]
      /\ UNCHANGED <<pc, satp, stie, timer, current, state, process_cx>>
  BY DEF KernelFault, Handles
<1>2. /\ Table(trap_cx')
      /\ \A p \in Procs : state[p] \in {"Ready", "Running"} => Restorable(trap_cx'[p], p)
  BY <1>1, EnteredSound, Inside DEF KernelFault, Handles
<1>3. /\ kstack' = [p \in Pcb |-> kstack'[p]]
      /\ \A p \in Procs \ {current} : kstack'[p] = kstack[p]
  BY <1>1, Inside DEF KernelFault, Shape
<1>4. x' = [r \in Regs |-> x'[r]] BY <1>1 DEF CCode, Regs
<1>5. /\ sstatus' = [SPP |-> sstatus'.SPP, SPIE |-> sstatus'.SPIE,
                     SIE |-> sstatus'.SIE, SUM |-> sstatus'.SUM]
      /\ sstatus'.SIE = FALSE /\ sstatus'.SUM = sstatus.SUM
  BY <1>1 DEF IInv, Shape, TrapStatus
<1>6. Shape' BY <1>1, <1>2, <1>3, <1>4, <1>5 DEF IInv, Shape, Table
<1>7. Levels' BY <1>1, <1>5 DEF IInv, Levels
<1>8. Owner' /\ Leads' BY <1>1 DEF Owner, Leads, Boot, InKernel
<1>9. TrapContexts' BY <1>1, <1>2 DEF TrapContexts
<1>10. ProcessContexts' BY <1>1, <1>3, Inside DEF IInv, ProcessContexts, InYield
<1> QED BY <1>6, <1>7, <1>8, <1>9, <1>10 DEF IInv

\* The caller of yield() is the one found on the stack of current.
LEMMA YieldReturnsKeeps ==
    ASSUME IInv, YieldReturns
    PROVE  IInv'
<1> DEFINE caller == kstack[x["sp"][2]]
<1>1. at = "yield" /\ UNCHANGED <<stie, timer, current>> BY DEF YieldReturns
<1> HIDE DEF caller
<1>2. CASE caller \in {"sys_wait", "sys_read"} /\ yield(caller) /\ UNCHANGED trap_cx
  <2>1. /\ Table(trap_cx')
        /\ \A p \in Procs : state[p] \in {"Ready", "Running"} => Restorable(trap_cx'[p], p)
    BY <1>1, <1>2, Inside DEF Table
  <2> QED BY <1>1, <1>2, <2>1, YieldKeeps
<1>3. CASE Reap(trap_cx) BY <1>1, <1>3, Inside, ReapKeeps
<1>4. CASE /\ trap_cx' = IF caller = "sys_read"
                         THEN Return(trap_cx, current, result)
                         ELSE trap_cx
           /\ kstack' = [kstack EXCEPT ![x["sp"][2]] = Freed]
           /\ CallsRestore
           /\ UNCHANGED <<state, process_cx>>
  <2>1. /\ Table(trap_cx')
        /\ \A p \in Procs : state[p] \in {"Ready", "Running"} => Restorable(trap_cx'[p], p)
    <3>1. CASE caller = "sys_read" BY <1>1, <1>4, <3>1, Inside, ReturnRestorable
    <3>2. CASE caller # "sys_read" BY <1>1, <1>4, <3>2, Inside
    <3> QED BY <3>1, <3>2
  <2>2. /\ kstack' = [p \in Pcb |-> kstack'[p]]
        /\ \A p \in Procs \ {current} : kstack'[p] = kstack[p]
    BY <1>1, <1>4, Inside DEF Shape
  <2> QED BY <1>1, <1>4, <2>1, <2>2, ReturnsKeeps
<1> QED BY <1>2, <1>3, <1>4 DEF YieldReturns, caller

-----------------------------------------------------------------------------
(* The theorems                                                            *)

LEMMA NextKeeps == IInv /\ [Next]_vars => IInv'
<1> SUFFICES ASSUME IInv, [Next]_vars PROVE IInv'
  OBVIOUS
<1>1. CASE UNCHANGED vars
  BY <1>1, StutterKeeps
<1>2. CASE Next
  BY <1>2, BootKeeps, InitProcessKeeps, TimerKeeps, DispatchKeeps, EndKeeps,
     UserKeeps, TrapKeeps, RestoreKeeps, SretKeeps, BreakpointKeeps, SyscallKeeps,
     ExecKeeps, ForkKeeps, LeaveKeeps, FaultKeeps, YieldReturnsKeeps
  DEF Next, Interrupt, Exception
<1> QED BY <1>1, <1>2

\* At each point of a trap, a switch and a return, the registers and the saved
\* contexts lead where the next step of the kernel expects them to.
THEOREM Invariance == Spec => []IInv
<1>1. Init => IInv BY InitHolds
<1>2. IInv /\ [Next]_vars => IInv' BY NextKeeps
<1> QED BY <1>1, <1>2, PTL DEF Spec

\* No interrupt is taken in kernel code, that which handles its own faults
\* included, and user code can always be interrupted; whatever the firmware
\* leaves in sstatus, however many processes are forked and exec'ed.
THEOREM KernelMasked == Spec => []Masked
<1>1. IInv => Masked BY DEF IInv, Levels, Shape, Masked, Boot, InKernel
<1> QED BY <1>1, Invariance, PTL

\* Every process runs on its own kernel stack, page table and contexts: what
\* __switch, __restore and, for a trap of user code, __trap_entry load belongs
\* to current.  (For a fault in kernel code it does not: KernelFault.)
THEOREM OwnStacks == Spec => []StacksOwn
<1>1. ASSUME IInv PROVE StacksOwn
  <2>1. at = "user" => trap_cx[current].kernel_sp = <<"kstack", current>>
    <3>1. at = "user" => Restorable(trap_cx[current], current)
      BY <1>1 DEF IInv, Owner, TrapContexts
    <3> QED BY <3>1 DEF Restorable
  <2>2. \A p \in Procs : state[p] = "Ready" =>
          /\ process_cx[p].sp = <<"kstack", p>> /\ process_cx[p].satp = p
          /\ process_cx[p].ra = ReturnTo("yield") =>
                kstack[p] \in {"supervisor_timer", "sys_wait", "sys_read"}
    BY <1>1 DEF IInv, ProcessContexts, InYield, ReturnTo
  <2> QED BY <1>1, <2>1, <2>2 DEF IInv, Leads, Owner, InKernel, StacksOwn
<1> QED BY <1>1, Invariance, PTL

-----------------------------------------------------------------------------
(* The refinement: calls                                                   *)

\* A process that is not in a call stays out of one unless it yields: the
\* rest of the invariant that the refinement needs.
LEMMA InitCalls == Init => Calling
  BY ContextAssumption DEF Init, Calling, InCall, Freed, Pcb

\* Actions of the boot, of the hart and of scheduling.
LEMMA HartCalls ==
    ASSUME IInv, Calling,
           \/ _start \/ init_memory \/ init_trap \/ TimerFires \/ ScheduleReturns
           \/ fault \/ Spin \/ UserRuns \/ RestoreCsrs \/ sret
           \/ \E scause : Trap(scause)
    PROVE  Calling'
<1>1. kstack' = kstack /\ process_cx' = process_cx
  BY DEF _start, init_memory, init_trap, TimerFires, ScheduleReturns, fault, Spin,
         UserRuns, RestoreCsrs, sret, Trap, hart, vars
<1>2. \A p \in Procs : state'[p] = state[p]
  BY ContextAssumption
  DEF _start, init_memory, init_trap, TimerFires, ScheduleReturns, fault, Spin,
      UserRuns, RestoreCsrs, sret, Trap, hart, vars, IInv, Shape, Pcb
<1>3. at' \in {"user", "trap_handle", "__restore", "sret"} =>
        current' = current /\ at \in {"user", "trap_handle", "__restore", "sret"}
  BY DEF _start, init_memory, init_trap, TimerFires, ScheduleReturns, fault, Spin,
         UserRuns, RestoreCsrs, sret, Trap, hart, vars
<1>4. at' = "sret" => sepc' = trap_cx'[current'].sepc
  <2>1. CASE RestoreCsrs
    BY <2>1 DEF RestoreCsrs, IInv, Leads
  <2>2. CASE ~RestoreCsrs
    BY <2>2
    DEF Calling, _start, init_memory, init_trap, TimerFires, ScheduleReturns,
        fault, Spin, UserRuns, sret, Trap, hart, vars
  <2> QED BY <2>1, <2>2
<1> QED BY <1>1, <1>2, <1>3, <1>4 DEF Calling, InCall

LEMMA NewCalls ==
    ASSUME IInv, Calling, init_process \/ sys_fork
    PROVE  Calling'
<1>1. kstack' = kstack
  BY DEF init_process, sys_fork
<1>2. \A p \in Procs :
        \/ state'[p] = state[p] /\ process_cx'[p] = process_cx[p]
        \/ state[p] = "Unused"
  BY ContextAssumption DEF init_process, sys_fork, IInv, Shape, Owner, Boot, Pcb
<1>3. CASE init_process
  BY <1>1, <1>2, <1>3 DEF init_process, Calling, InCall
<1>4. CASE sys_fork
  <2>1. at = "trap_handle" /\ at' = "__restore" /\ current' = current
    BY <1>4 DEF sys_fork, Handles, CallsRestore
  <2> QED BY <1>1, <1>2, <2>1 DEF Calling, InCall
<1> QED BY <1>3, <1>4

LEMMA DispatchCalls ==
    ASSUME IInv, Calling, Dispatch
    PROVE  Calling'
<1>1. /\ at = "schedule" /\ x["sp"] = <<"kstack", idle>> /\ x["sp"][2] = idle /\ Shape
  BY DEF Dispatch, IInv, Leads
<1>2. PICK p \in Procs :
        /\ state[p] = "Ready"
        /\ state' = [state EXCEPT ![p] = "Running", ![idle] = "Ready"]
        /\ current' = p
        /\ kstack' = [kstack EXCEPT ![x["sp"][2]] = "schedule"]
        /\ __switch(idle, p, "schedule")
  BY DEF Dispatch
<1>3. /\ p \in Pcb /\ idle \in Pcb /\ p # idle
      /\ \A q \in Procs : q \in Pcb /\ q # idle
  BY ContextAssumption DEF Pcb
<1>4. /\ \A q \in Pcb \ {idle} : process_cx'[q] = process_cx[q]
      /\ at' = process_cx[p].ra[1]
  BY <1>1, <1>2, <1>3, Switched
<1>5. process_cx[p].ra = ReturnTo("__restore") \/ process_cx[p].ra = ReturnTo("yield")
  BY <1>2 DEF IInv, ProcessContexts, InYield
<1>6. /\ state'[p] = "Running" /\ \A q \in Procs \ {p} : state'[q] = state[q]
      /\ \A q \in Procs : kstack'[q] = kstack[q]
  BY <1>1, <1>2, <1>3 DEF Shape
<1>7. at' = "yield" \/ (at' = "__restore" /\ ~InCall(p))
  BY <1>2, <1>4, <1>5 DEF ReturnTo, Calling
<1> QED BY <1>2, <1>3, <1>4, <1>6, <1>7 DEF Calling, InCall

\* The handlers that return to the process at once leave its stack alone.
LEMMA ServedCalls ==
    ASSUME IInv, Calling, breakpoint \/ syscall \/ sys_exec
    PROVE  Calling'
<1>1. /\ at = "trap_handle" /\ at' = "__restore"
      /\ UNCHANGED <<current, state, process_cx, kstack>>
  BY DEF breakpoint, syscall, sys_exec, Handles, CallsRestore
<1>2. ~InCall(current)' /\ ~(at' = "sret")
  BY <1>1 DEF Calling, InCall
<1>3. \A p \in Procs :
        \/ state'[p] = "Unused"
        \/ state'[p] = "Ready" /\ process_cx'[p].ra = ReturnTo("__restore")
        => ~InCall(p)'
  BY <1>1 DEF Calling, InCall
<1> QED BY <1>2, <1>3 DEF Calling

LEMMA ReapCalls ==
    ASSUME IInv, Calling, at \in {"trap_handle", "yield"}, NEW cxs,
           Reap(cxs), current' = current
    PROVE  Calling'
<1>1. PICK child \in Procs \ {init, current} :
        /\ state[child] = "Exited"
        /\ state' = [state EXCEPT ![child] = "Unused"]
        /\ process_cx' = [process_cx EXCEPT ![child] = Freed]
        /\ kstack' = [kstack EXCEPT ![child] = Freed, ![x["sp"][2]] = Freed]
        /\ CallsRestore
  BY DEF Reap
<1>2. /\ kstack'[child] = Freed /\ kstack'[current] = Freed
      /\ \A p \in Procs \ {child, current} : kstack'[p] = kstack[p]
  BY <1>1, Inside DEF Shape
<1>3. \A p \in Procs \ {child} : state'[p] = state[p] /\ process_cx'[p] = process_cx[p]
  BY <1>1, Inside DEF Shape
<1>4. at' = "__restore" BY <1>1 DEF CallsRestore
<1>5. Freed \notin {"sys_wait", "sys_read", "syscall"} BY ContextAssumption DEF Freed
<1> QED BY <1>2, <1>3, <1>4, <1>5 DEF Calling, InCall

\* Who yields or exits has not just been created.
LEMMA AwayCalls ==
    ASSUME IInv, Calling, at \in {"trap_handle", "yield"}, NEW label, NEW caller, NEW s,
           __switch(current, idle, label),
           state' = [state EXCEPT ![current] = s],
           s = "Exited" \/ (s = "Ready" /\ label = "yield"),
           kstack' = [kstack EXCEPT ![x["sp"][2]] = caller]
    PROVE  Calling'
<1>1. /\ \A p \in Pcb \ {current} : process_cx'[p] = process_cx[p]
      /\ process_cx'[current].ra = ReturnTo(label)
      /\ at' = "schedule"
  BY SwitchedToIdle
<1>2. /\ \A p \in Procs \ {current} :
           state'[p] = state[p] /\ kstack'[p] = kstack[p] /\ process_cx'[p] = process_cx[p]
      /\ state'[current] = s
  BY <1>1, Inside DEF Shape
<1> QED BY <1>1, <1>2 DEF Calling, InCall, ReturnTo

LEMMA LeaveCalls ==
    ASSUME IInv, Calling,
           supervisor_timer \/ sys_wait \/ sys_read \/ exit_current \/ YieldReturns
    PROVE  Calling'
<1>1. at \in {"trap_handle", "yield"} /\ current' = current
  BY DEF supervisor_timer, sys_wait, sys_read, exit_current, YieldReturns, Handles
<1>2. ASSUME NEW caller, yield(caller) PROVE Calling'
  BY <1>1, <1>2, AwayCalls DEF yield
<1>3. CASE exit_current
  BY <1>1, <1>3, AwayCalls DEF exit_current
<1>4. CASE sys_wait
  BY <1>1, <1>2, <1>4, ReapCalls DEF sys_wait
<1>5. CASE YieldReturns
  <2>1. CASE Reap(trap_cx) BY <1>1, <2>1, ReapCalls
  <2>2. CASE \E caller : yield(caller) BY <1>2, <2>2
  <2>3. CASE /\ kstack' = [kstack EXCEPT ![x["sp"][2]] = Freed]
             /\ CallsRestore
             /\ UNCHANGED <<state, process_cx>>
    <3>1. /\ kstack'[current] = Freed
          /\ \A p \in Procs \ {current} : kstack'[p] = kstack[p]
      BY <1>1, <2>3, Inside DEF Shape
    <3>2. at' = "__restore" BY <2>3 DEF CallsRestore
    <3>3. Freed \notin {"sys_wait", "sys_read", "syscall"} BY ContextAssumption DEF Freed
    <3> QED BY <1>1, <2>3, <3>1, <3>2, <3>3 DEF Calling, InCall
  <2> QED BY <1>5, <2>1, <2>2, <2>3 DEF YieldReturns
<1> QED BY <1>2, <1>3, <1>4, <1>5 DEF supervisor_timer, sys_read

\* A call that meets a fault is one of current, which has the hart.
LEMMA FaultCalls ==
    ASSUME IInv, Calling, KernelFault
    PROVE  Calling'
<1>1. /\ at \in {"trap_handle", "yield"} /\ at' \in {"fault", "wild"}
      /\ UNCHANGED <<current, state, process_cx>>
  BY DEF KernelFault, Handles
<1>2. \A p \in Procs \ {current} : kstack'[p] = kstack[p]
  BY <1>1, Inside DEF KernelFault, Shape
<1>3. state[current] = "Running" BY <1>1, Inside
<1> QED BY <1>1, <1>2, <1>3 DEF Calling, InCall

LEMMA NextCalls == IInv /\ Calling /\ [Next]_vars => Calling'
<1> SUFFICES ASSUME IInv, Calling, [Next]_vars PROVE Calling'
  OBVIOUS
<1>1. CASE UNCHANGED vars
  BY <1>1 DEF vars, Calling, InCall
<1>2. CASE Next
  BY <1>2, HartCalls, NewCalls, DispatchCalls, ServedCalls, LeaveCalls, FaultCalls
  DEF Next, Interrupt, Exception
<1> QED BY <1>1, <1>2

-----------------------------------------------------------------------------
(* The refinement: the machines                                            *)

\* What the operators of Harts make of a machine.
LEMMA MachineAfter ==
    ASSUME NEW m, NEW regs, NEW at_pc, NEW in, NEW n,
           m = [x |-> regs, pc |-> at_pc, in |-> in]
    PROVE  Own!After(m, n) = [x |-> regs, pc |-> (at_pc + n) % PcMod, in |-> in]
  BY DEF Own!After

LEMMA MachineReturned ==
    ASSUME NEW m, NEW regs, NEW at_pc, NEW in, NEW v,
           m = [x |-> regs, pc |-> at_pc, in |-> in]
    PROVE  Own!Returned(m, v) =
             [x |-> [regs EXCEPT !["a0"] = v], pc |-> at_pc, in |-> "program"]
<1> DEFINE set == [m EXCEPT !.x["a0"] = v]
<1>1. set = [x |-> [regs EXCEPT !["a0"] = v], pc |-> at_pc, in |-> in] OBVIOUS
<1>2. Own!Returned(m, v) = [set EXCEPT !.in = "program"] BY DEF Own!Returned
<1> HIDE DEF set
<1> QED BY <1>1, <1>2

\* In kernel code every machine is a trap context.
LEMMA InContext ==
    ASSUME at # "user", NEW p
    PROVE  Machine(p) = [x |-> trap_cx[p].x, pc |-> trap_cx[p].sepc,
                         in |-> IF InCall(p) THEN "call" ELSE "program"]
  BY DEF Machine, OnHart

\* The processes whose contexts are not touched keep their machines.
LEMMA OthersKept ==
    ASSUME at # "user", at' # "user", NEW p,
           trap_cx'[p] = trap_cx[p], kstack'[p] = kstack[p]
    PROVE  Machine(p)' = Machine(p)
  BY DEF Machine, OnHart, InCall

LEMMA AllKept ==
    ASSUME Living' = Living, \A p \in Living : Machine(p)' = Machine(p)
    PROVE  UNCHANGED OwnMachines
  BY DEF OwnMachines

LEMMA OneChanges ==
    ASSUME NEW p \in Living, NEW m, Living' = Living, Machine(p)' = m,
           \A q \in Living \ {p} : Machine(q)' = Machine(q)
    PROVE  Own!Becomes(p, m)
<1>1. \A q \in Living : OwnMachines[q] = Machine(q) BY DEF OwnMachines
<1>2. OwnMachines' = [q \in Living |-> IF q = p THEN m ELSE OwnMachines[q]]
  BY <1>1 DEF OwnMachines
<1>3. DOMAIN OwnMachines = Living BY DEF OwnMachines
<1> QED BY <1>2, <1>3 DEF Own!Becomes

\* A process that takes a step of its own is alive and in no call.
LEMMA Runs ==
    ASSUME NEW p \in Living, ~InCall(p)
    PROVE  /\ Own!Running(p) /\ OwnMachines[p] = Machine(p)
           /\ DOMAIN OwnMachines = Living
  BY DEF OwnMachines, Own!Running, Machine

\* current is, whenever it or its handler has the hart.
LEMMA CurrentLives ==
    ASSUME IInv, at \in InKernel \cup {"user"}
    PROVE  current \in Living /\ current \in Procs
  BY DEF IInv, Owner, Living

-----------------------------------------------------------------------------
(* The refinement: the steps that no process sees                          *)

LEMMA InitMachines == Init => Own!Init
<1> SUFFICES ASSUME Init PROVE Own!Init
  OBVIOUS
<1>1. Living = {} BY DEF Init, Living, Pcb
<1> QED BY <1>1 DEF Own!Init, OwnMachines

\* The boot before init_process(), the timer and the ends of the run.
LEMMA QuietSteps ==
    ASSUME IInv,
           \/ _start \/ init_memory \/ init_trap \/ TimerFires \/ ScheduleReturns
           \/ fault \/ RestoreCsrs \/ UNCHANGED vars
    PROVE  UNCHANGED OwnMachines
<1>1. \A p \in Procs : state'[p] = state[p]
  BY ContextAssumption
  DEF _start, init_memory, init_trap, TimerFires, ScheduleReturns, fault,
      RestoreCsrs, hart, vars, IInv, Shape, Pcb
<1>2. Living' = Living BY <1>1 DEF Living
<1>3. trap_cx' = trap_cx /\ kstack' = kstack
  BY DEF _start, init_memory, init_trap, TimerFires, ScheduleReturns, fault,
         RestoreCsrs, hart, vars
<1>4. \/ at # "user" /\ at' # "user"
      \/ UNCHANGED <<at, x, pc, satp>>
  BY DEF _start, init_memory, init_trap, TimerFires, ScheduleReturns, fault,
         RestoreCsrs, Handles, hart, vars
<1>5. ASSUME NEW p PROVE Machine(p)' = Machine(p)
  <2>1. CASE at # "user" /\ at' # "user" BY <1>3, <2>1, OthersKept
  <2>2. CASE UNCHANGED <<at, x, pc, satp>>
    BY <1>3, <2>2 DEF Machine, OnHart, InCall
  <2> QED BY <1>4, <2>1, <2>2
<1> QED BY <1>2, <1>5, AllKept

\* A trap puts the machine of current into its trap context ...
LEMMA TrapStep ==
    ASSUME IInv, NEW scause, Trap(scause)
    PROVE  UNCHANGED OwnMachines
<1> DEFINE status == TrapStatus
<1>1. /\ at = "user" /\ sscratch[2] = current /\ current \in Procs /\ satp = current
      /\ Restorable(trap_cx[current], current) /\ trap_cx = [p \in Procs |-> trap_cx[p]]
  BY DEF Trap, IInv, Leads, Owner, TrapContexts, Shape
<1>2. /\ trap_cx' = [trap_cx EXCEPT ![current] = TrapContext(@, status)]
      /\ at' = "trap_handle"
      /\ UNCHANGED <<pc, satp, state, kstack>>
  BY <1>1 DEF Trap
<1> HIDE DEF status
<1>3. /\ trap_cx'[current] = TrapContext(trap_cx[current], status)
      /\ \A p \in Procs \ {current} : trap_cx'[p] = trap_cx[p]
  BY <1>1, <1>2
<1>4. TrapContext(trap_cx[current], status).x = x /\ TrapContext(trap_cx[current], status).sepc = pc
  BY <1>1 DEF Restorable, TrapContext
<1>5. \A p \in {current} : Machine(p)' = Machine(p)
  BY <1>1, <1>2, <1>3, <1>4 DEF Machine, OnHart, InCall
<1>6. \A p \in Procs \ {current} : Machine(p)' = Machine(p)
  BY <1>1, <1>2, <1>3 DEF Machine, OnHart, InCall
<1>7. Living' = Living BY <1>2 DEF Living
<1> QED BY <1>5, <1>6, <1>7, AllKept DEF Living

\* ... and sret puts it back on the hart.
LEMMA SretStep ==
    ASSUME IInv, Calling, sret
    PROVE  UNCHANGED OwnMachines
<1>1. /\ at = "sret" /\ at' = "user" /\ x["sp"] = <<"trap_cx", current>>
      /\ x["sp"][2] = current /\ satp = current /\ sepc = trap_cx[current].sepc
      /\ UNCHANGED <<satp, state, trap_cx, kstack>>
  BY DEF sret, IInv, Leads, Owner, InKernel, Calling
<1>2. x' = trap_cx[current].x /\ pc' = trap_cx[current].sepc
  BY <1>1 DEF sret
<1>3. \A p \in {current} : Machine(p)' = Machine(p)
  BY <1>1, <1>2 DEF Machine, OnHart, InCall
<1>4. \A p \in Procs \ {current} : Machine(p)' = Machine(p)
  BY <1>1 DEF Machine, OnHart, InCall
<1>5. Living' = Living BY <1>1 DEF Living
<1> QED BY <1>3, <1>4, <1>5, AllKept DEF Living

\* Who gets the hart is not in user code yet.
LEMMA DispatchStep ==
    ASSUME IInv, IInv', Dispatch
    PROVE  UNCHANGED OwnMachines
<1>1. /\ at = "schedule" /\ x["sp"] = <<"kstack", idle>> /\ x["sp"][2] = idle /\ Shape
  BY DEF Dispatch, IInv, Leads
<1>2. PICK p \in Procs :
        /\ state[p] = "Ready"
        /\ state' = [state EXCEPT ![p] = "Running", ![idle] = "Ready"]
        /\ kstack' = [kstack EXCEPT ![x["sp"][2]] = "schedule"]
        /\ __switch(idle, p, "schedule")
  BY DEF Dispatch
<1>3. /\ p \in Pcb /\ idle \in Pcb /\ p # idle
      /\ \A q \in Procs : q \in Pcb /\ q # idle
  BY ContextAssumption DEF Pcb
<1>4. at' = process_cx[p].ra[1]
  BY <1>1, <1>2, <1>3, Switched
<1>5. at' \in {"yield", "__restore"}
  BY <1>2, <1>4 DEF IInv, ProcessContexts, InYield, ReturnTo
<1>6. /\ state'[p] = "Running" /\ \A q \in Procs \ {p} : state'[q] = state[q]
      /\ \A q \in Procs : kstack'[q] = kstack[q] /\ trap_cx'[q] = trap_cx[q]
  BY <1>1, <1>2, <1>3 DEF Dispatch, Shape
<1>7. Living' = Living BY <1>2, <1>6 DEF Living
<1>8. \A q \in Living : Machine(q)' = Machine(q)
  BY <1>1, <1>5, <1>6, OthersKept DEF Living
<1> QED BY <1>7, <1>8, AllKept

-----------------------------------------------------------------------------
(* The refinement: the steps of one process                                *)

LEMMA SkipFields ==
    ASSUME NEW cx, NEW p, NEW n, Restorable(cx, p)
    PROVE  Skip(cx, n).x = cx.x /\ Skip(cx, n).sepc = (cx.sepc + n) % PcMod
  BY DEF Restorable, Skip

LEMMA ReturnFields ==
    ASSUME NEW cxs, NEW p \in Procs, NEW v, Table(cxs), Restorable(cxs[p], p)
    PROVE  /\ Return(cxs, p, v)[p].x = [cxs[p].x EXCEPT !["a0"] = v]
           /\ Return(cxs, p, v)[p].sepc = cxs[p].sepc
<1>1. Return(cxs, p, v)[p] = [cxs[p] EXCEPT !.x["a0"] = v]
  BY DEF Table, Return
<1> QED BY <1>1 DEF Restorable

\* The context of current once the handler has moved sepc.
LEMMA EnteredFields ==
    ASSUME IInv, at = "trap_handle"
    PROVE  /\ Entered[current].x = trap_cx[current].x
           /\ Entered[current].sepc = (trap_cx[current].sepc + 2) % PcMod
           /\ \A p \in Procs \ {current} : Entered[p] = trap_cx[p]
           /\ Table(Entered) /\ Restorable(Entered[current], current)
<1>1. context = current /\ current \in Procs /\ Table(trap_cx) /\ Table(Entered)
      /\ Restorable(trap_cx[current], current) /\ Restorable(Entered[current], current)
  BY EnteredSound, Inside
<1>2. /\ Entered[current] = Skip(trap_cx[current], 2)
      /\ \A p \in Procs \ {current} : Entered[p] = trap_cx[p]
  BY <1>1 DEF Table, Entered
<1> QED BY <1>1, <1>2, SkipFields

\* The machine of current changes, and no other.
LEMMA CurrentChanges ==
    ASSUME IInv, at \in {"trap_handle", "yield"}, at' # "user", Living' = Living,
           NEW regs, NEW at_pc, NEW in,
           trap_cx'[current].x = regs, trap_cx'[current].sepc = at_pc,
           in = IF kstack'[current] \in {"sys_wait", "sys_read", "syscall"}
                THEN "call" ELSE "program",
           \A p \in Living \ {current} :
              trap_cx'[p] = trap_cx[p] /\ kstack'[p] = kstack[p]
    PROVE  Own!Becomes(current, [x |-> regs, pc |-> at_pc, in |-> in])
<1>1. PICK p \in Living : p = current
  BY CurrentLives DEF InKernel
<1>2. Machine(p)' = [x |-> regs, pc |-> at_pc, in |-> in]
  BY <1>1 DEF Machine, OnHart, InCall
<1>3. \A q \in Living \ {p} : Machine(q)' = Machine(q)
  BY <1>1, OthersKept
<1>4. Own!Becomes(p, [x |-> regs, pc |-> at_pc, in |-> in])
  BY <1>1, <1>2, <1>3, OneChanges
<1> QED BY <1>1, <1>4

\* The machine of current as a handler finds it.
LEMMA CurrentFound ==
    ASSUME IInv, Calling, at = "trap_handle"
    PROVE  /\ current \in Procs /\ Own!Running(current)
           /\ OwnMachines[current] =
                [x |-> trap_cx[current].x, pc |-> trap_cx[current].sepc, in |-> "program"]
<1>1. current \in Procs /\ current \in Living /\ ~InCall(current)
  BY CurrentLives DEF InKernel, Calling
<1>2. Machine(current) =
        [x |-> trap_cx[current].x, pc |-> trap_cx[current].sepc, in |-> "program"]
  BY <1>1, InContext
<1> QED BY <1>1, <1>2, Runs

LEMMA UserStep ==
    ASSUME IInv, Calling, UserRuns
    PROVE  Own!Next
<1>1. /\ at = "user" /\ at' = "user" /\ satp = current
      /\ UNCHANGED <<satp, current, state, trap_cx, kstack>>
  BY DEF UserRuns, IInv, Owner
<1>2. PICK v \in Values : x' = UserCode(v) BY DEF UserRuns
<1>3. pc' \in 0 .. PcMod - 1 BY DEF UserRuns
<1>4. PICK p \in Living : p = current /\ ~InCall(p) /\ p \in Procs
  BY <1>1, CurrentLives DEF Calling
<1> DEFINE m == [x |-> UserCode(v), pc |-> pc', in |-> "program"]
<1>5. Machine(p)' = m
  BY <1>1, <1>2, <1>4 DEF Machine, OnHart, InCall
<1>6. \A q \in Living \ {p} : Machine(q)' = Machine(q)
  BY <1>1, <1>4 DEF Machine, OnHart, InCall
<1>7. Living' = Living BY <1>1 DEF Living
<1>8. m \in Own!Machines /\ m.in = "program"
  BY <1>3 DEF Own!Machines
<1> HIDE DEF m
<1>9. Own!Becomes(p, m) /\ Own!Running(p)
  BY <1>4, <1>5, <1>6, <1>7, OneChanges, Runs
<1> QED BY <1>4, <1>8, <1>9 DEF Own!Next, Own!Computes

LEMMA BreakpointStep ==
    ASSUME IInv, Calling, breakpoint
    PROVE  Own!Next
<1>1. at = "trap_handle" /\ context = current /\ at' # "user"
  BY EnteredSound DEF breakpoint, Handles, CallsRestore
<1>2. trap_cx' = [trap_cx EXCEPT ![current] = Skip(@, 1)]
      /\ UNCHANGED <<state, kstack>>
  BY <1>1 DEF breakpoint
<1>3. /\ trap_cx'[current] = Skip(trap_cx[current], 1)
      /\ \A p \in Procs \ {current} : trap_cx'[p] = trap_cx[p]
      /\ Restorable(trap_cx[current], current)
  BY <1>1, <1>2, Inside DEF Table
<1>4. /\ trap_cx'[current].x = trap_cx[current].x
      /\ trap_cx'[current].sepc = (trap_cx[current].sepc + 1) % PcMod
  BY <1>3, SkipFields
<1>5. Living' = Living BY <1>2 DEF Living
<1>6. ~(kstack'[current] \in {"sys_wait", "sys_read", "syscall"})
  BY <1>1, <1>2 DEF Calling, InCall
<1>7. Own!Becomes(current, [x |-> trap_cx[current].x,
                            pc |-> (trap_cx[current].sepc + 1) % PcMod, in |-> "program"])
  BY <1>1, <1>2, <1>3, <1>4, <1>5, <1>6, CurrentChanges DEF Living
<1>8. Own!After(OwnMachines[current], 1) =
        [x |-> trap_cx[current].x,
         pc |-> (trap_cx[current].sepc + 1) % PcMod, in |-> "program"]
  BY <1>1, CurrentFound, MachineAfter
<1>9. Own!Becomes(current, Own!After(OwnMachines[current], 1))
  BY <1>7, <1>8 DEF Own!Becomes
<1> QED BY <1>1, <1>9, CurrentFound DEF Own!Next, Own!Breaks

\* A call that returns at once, whatever else the handler did.
LEMMA Serves ==
    ASSUME IInv, Calling, at = "trap_handle", at' # "user", Living' = Living,
           trap_cx'[current].x = [trap_cx[current].x EXCEPT !["a0"] = result],
           trap_cx'[current].sepc = (trap_cx[current].sepc + 2) % PcMod,
           kstack'[current] \notin {"sys_wait", "sys_read", "syscall"},
           \A p \in Living \ {current} :
              trap_cx'[p] = trap_cx[p] /\ kstack'[p] = kstack[p]
    PROVE  Own!Next
<1> DEFINE m == [x |-> [trap_cx[current].x EXCEPT !["a0"] = result],
                 pc |-> (trap_cx[current].sepc + 2) % PcMod, in |-> "program"]
<1>1. Own!Becomes(current, m) BY CurrentChanges
<1>2. Own!After(OwnMachines[current], 2) =
        [x |-> trap_cx[current].x,
         pc |-> (trap_cx[current].sepc + 2) % PcMod, in |-> "program"]
  BY CurrentFound, MachineAfter
<1>3. Own!Returned(Own!After(OwnMachines[current], 2), result) = m
  BY <1>2, MachineReturned
<1> HIDE DEF m
<1>4. Own!Becomes(current, Own!Returned(Own!After(OwnMachines[current], 2), result))
  BY <1>1, <1>3 DEF Own!Becomes
<1> QED BY <1>4, CurrentFound DEF Own!Next, Own!Served

\* And one that returns after yield() has.
LEMMA Answered ==
    ASSUME IInv, at = "yield", at' # "user", Living' = Living,
           kstack[current] \in {"sys_wait", "sys_read"},
           trap_cx'[current].x = [trap_cx[current].x EXCEPT !["a0"] = result],
           trap_cx'[current].sepc = trap_cx[current].sepc,
           kstack'[current] \notin {"sys_wait", "sys_read", "syscall"},
           \A p \in Living \ {current} :
              trap_cx'[p] = trap_cx[p] /\ kstack'[p] = kstack[p]
    PROVE  Own!Next
<1> DEFINE m == [x |-> [trap_cx[current].x EXCEPT !["a0"] = result],
                 pc |-> trap_cx[current].sepc, in |-> "program"]
<1>1. Own!Becomes(current, m) BY CurrentChanges
<1>2. current \in Living /\ current \in Procs BY CurrentLives DEF InKernel
<1>3. Machine(current) =
        [x |-> trap_cx[current].x, pc |-> trap_cx[current].sepc, in |-> "call"]
  BY InContext DEF InCall
<1>4. OwnMachines[current] =
        [x |-> trap_cx[current].x, pc |-> trap_cx[current].sepc, in |-> "call"]
  BY <1>2, <1>3 DEF OwnMachines
<1>5. current \in DOMAIN OwnMachines BY <1>2 DEF OwnMachines
<1>6. Own!Returned(OwnMachines[current], result) = m BY <1>4, MachineReturned
<1> HIDE DEF m
<1>7. Own!Becomes(current, Own!Returned(OwnMachines[current], result))
  BY <1>1, <1>6 DEF Own!Becomes
<1> QED BY <1>2, <1>4, <1>5, <1>7 DEF Own!Next, Own!Answers

\* Reaping frees the context of a child that lives no more.
LEMMA Reaped ==
    ASSUME IInv, at \in {"trap_handle", "yield"}, NEW cxs, Table(cxs),
           Restorable(cxs[current], current),
           \A p \in Procs \ {current} : cxs[p] = trap_cx[p],
           Reap(cxs)
    PROVE  /\ at' # "user" /\ Living' = Living
           /\ trap_cx'[current].x = [cxs[current].x EXCEPT !["a0"] = result]
           /\ trap_cx'[current].sepc = cxs[current].sepc
           /\ kstack'[current] \notin {"sys_wait", "sys_read", "syscall"}
           /\ \A p \in Living \ {current} :
                 trap_cx'[p] = trap_cx[p] /\ kstack'[p] = kstack[p]
<1>1. PICK child \in Procs \ {init, current} :
        /\ state[child] = "Exited"
        /\ state' = [state EXCEPT ![child] = "Unused"]
        /\ trap_cx' = Return([cxs EXCEPT ![child] = Freed], current, result)
        /\ kstack' = [kstack EXCEPT ![child] = Freed, ![x["sp"][2]] = Freed]
        /\ CallsRestore
  BY DEF Reap
<1> DEFINE freed == [cxs EXCEPT ![child] = Freed]
<1>2. /\ Table(freed) /\ \A p \in Procs \ {child} : freed[p] = cxs[p]
      /\ trap_cx' = Return(freed, current, result)
  BY <1>1 DEF Table
<1> HIDE DEF freed
<1>3. current \in Procs /\ Restorable(freed[current], current) BY <1>1, <1>2, Inside
<1>4. /\ Return(freed, current, result)[current].x = [freed[current].x EXCEPT !["a0"] = result]
      /\ Return(freed, current, result)[current].sepc = freed[current].sepc
      /\ \A q \in Procs \ {current} : Return(freed, current, result)[q] = freed[q]
  BY <1>2, <1>3, ReturnFields, ReturnRestorable
<1>5. /\ trap_cx'[current].x = [cxs[current].x EXCEPT !["a0"] = result]
      /\ trap_cx'[current].sepc = cxs[current].sepc
      /\ \A q \in Procs \ {current, child} : trap_cx'[q] = trap_cx[q]
  BY <1>1, <1>2, <1>3, <1>4
<1>6. /\ state'[child] = "Unused" /\ \A p \in Procs \ {child} : state'[p] = state[p]
      /\ kstack'[current] = Freed
      /\ \A p \in Procs \ {child, current} : kstack'[p] = kstack[p]
  BY <1>1, Inside DEF Shape
<1>7. Living' = Living /\ child \notin Living BY <1>1, <1>6 DEF Living
<1>8. at' # "user" BY <1>1 DEF CallsRestore
<1>9. Freed \notin {"sys_wait", "sys_read", "syscall"} BY ContextAssumption DEF Freed
<1> QED BY <1>5, <1>6, <1>7, <1>8, <1>9 DEF Living

LEMMA SyscallStep ==
    ASSUME IInv, Calling, syscall
    PROVE  Own!Next
<1>1. /\ at = "trap_handle" /\ trap_cx' = Return(Entered, current, result)
      /\ at' # "user" /\ UNCHANGED <<state, kstack>>
  BY DEF syscall, Handles, CallsRestore
<1>2. current \in Procs BY <1>1, Inside
<1>3. /\ trap_cx'[current].x = [Entered[current].x EXCEPT !["a0"] = result]
      /\ trap_cx'[current].sepc = Entered[current].sepc
      /\ \A p \in Procs \ {current} : trap_cx'[p] = Entered[p]
  BY <1>1, <1>2, EnteredFields, ReturnFields, ReturnRestorable
<1>4. /\ trap_cx'[current].x = [trap_cx[current].x EXCEPT !["a0"] = result]
      /\ trap_cx'[current].sepc = (trap_cx[current].sepc + 2) % PcMod
      /\ \A p \in Procs \ {current} : trap_cx'[p] = trap_cx[p]
  BY <1>1, <1>3, EnteredFields
<1>5. Living' = Living /\ kstack'[current] \notin {"sys_wait", "sys_read", "syscall"}
  BY <1>1 DEF Living, Calling, InCall
<1> QED BY <1>1, <1>4, <1>5, Serves DEF Living

\* The new program starts at its first instruction with fresh registers.
LEMMA ExecStep ==
    ASSUME IInv, Calling, sys_exec
    PROVE  Own!Next
<1> DEFINE cxs == [Entered EXCEPT ![current] = goto_app(current)]
<1>1. /\ at = "trap_handle" /\ trap_cx' = Return(cxs, current, zero)
      /\ at' # "user" /\ UNCHANGED <<state, kstack>>
  BY DEF sys_exec, Handles, CallsRestore
<1>2. /\ current \in Procs
      /\ Table(cxs) /\ cxs[current] = goto_app(current)
      /\ \A p \in Procs \ {current} : cxs[p] = trap_cx[p]
  BY <1>1, EnteredFields, Inside DEF Table
<1> HIDE DEF cxs
<1>3. Restorable(cxs[current], current) BY <1>1, <1>2, Inside, AppRestorable
<1>4. /\ trap_cx'[current].x = [cxs[current].x EXCEPT !["a0"] = zero]
      /\ trap_cx'[current].sepc = cxs[current].sepc
      /\ \A p \in Procs \ {current} : trap_cx'[p] = trap_cx[p]
  BY <1>1, <1>2, <1>3, ReturnFields, ReturnRestorable
<1>5. goto_app(current).x = Fresh /\ goto_app(current).sepc = 0 BY DEF goto_app
<1>6. [Fresh EXCEPT !["a0"] = zero] = Fresh BY DEF Fresh
<1>7. trap_cx'[current].x = Fresh /\ trap_cx'[current].sepc = 0
  BY <1>2, <1>4, <1>5, <1>6
<1>8. Living' = Living /\ kstack'[current] \notin {"sys_wait", "sys_read", "syscall"}
  BY <1>1 DEF Living, Calling, InCall
<1>9. Own!Becomes(current, [x |-> Fresh, pc |-> 0, in |-> "program"])
  BY <1>1, <1>4, <1>7, <1>8, CurrentChanges DEF Living
<1>10. Own!Running(current) BY <1>1, CurrentFound
<1> QED BY <1>2, <1>9, <1>10 DEF Own!Next, Own!Execs, Own!Loaded

\* What yield() does to what processes see: nothing but who called it.
LEMMA Yielded ==
    ASSUME IInv, at \in {"trap_handle", "yield"}, NEW caller, yield(caller)
    PROVE  /\ at' # "user" /\ Living' = Living
           /\ kstack'[current] = caller
           /\ \A p \in Procs \ {current} : kstack'[p] = kstack[p]
<1>1. /\ state' = [state EXCEPT ![current] = "Ready"]
      /\ kstack' = [kstack EXCEPT ![x["sp"][2]] = caller]
      /\ at' = "schedule"
  BY SwitchedToIdle DEF yield
<1>2. /\ state'[current] = "Ready" /\ state[current] = "Running"
      /\ \A p \in Procs \ {current} : state'[p] = state[p]
  BY <1>1, Inside DEF Shape
<1>3. Living' = Living BY <1>2 DEF Living
<1>4. /\ kstack'[current] = caller
      /\ \A p \in Procs \ {current} : kstack'[p] = kstack[p]
  BY <1>1, Inside DEF Shape
<1> QED BY <1>1, <1>3, <1>4

\* The timer's handler: nothing changes for the process that is preempted.
LEMMA TimerStep ==
    ASSUME IInv, Calling, supervisor_timer
    PROVE  UNCHANGED OwnMachines
<1>1. at = "trap_handle" /\ yield("supervisor_timer") /\ trap_cx' = trap_cx
  BY DEF supervisor_timer, Handles
<1>2. /\ at' # "user" /\ Living' = Living
      /\ kstack'[current] = "supervisor_timer"
      /\ \A p \in Procs \ {current} : kstack'[p] = kstack[p]
  BY <1>1, Yielded
<1>3. kstack[current] \notin {"sys_wait", "sys_read", "syscall"}
  BY <1>1 DEF Calling, InCall
<1>4. \A p \in Living : Machine(p)' = Machine(p)
  BY <1>1, <1>2, <1>3 DEF Machine, OnHart, InCall, Living
<1> QED BY <1>2, <1>4, AllKept

\* A call that does not return at once is in progress.
LEMMA CallStep ==
    ASSUME IInv, Calling, at = "trap_handle",
           NEW caller \in {"sys_wait", "sys_read", "syscall"},
           at' # "user", Living' = Living, trap_cx' = Entered,
           kstack'[current] = caller,
           \A p \in Procs \ {current} : kstack'[p] = kstack[p]
    PROVE  Own!Next
<1>1. /\ trap_cx'[current].x = trap_cx[current].x
      /\ trap_cx'[current].sepc = (trap_cx[current].sepc + 2) % PcMod
      /\ \A p \in Procs \ {current} : trap_cx'[p] = trap_cx[p]
  BY EnteredFields
<1> DEFINE m == [x |-> trap_cx[current].x,
                 pc |-> (trap_cx[current].sepc + 2) % PcMod, in |-> "call"]
<1>2. Own!Becomes(current, m) BY <1>1, CurrentChanges DEF Living
<1>3. Own!After(OwnMachines[current], 2) =
        [x |-> trap_cx[current].x,
         pc |-> (trap_cx[current].sepc + 2) % PcMod, in |-> "program"]
  BY CurrentFound, MachineAfter
<1>4. [Own!After(OwnMachines[current], 2) EXCEPT !.in = "call"] = m BY <1>3
<1> HIDE DEF m
<1>5. Own!Becomes(current, [Own!After(OwnMachines[current], 2) EXCEPT !.in = "call"])
  BY <1>2, <1>4 DEF Own!Becomes
<1> QED BY <1>5, CurrentFound DEF Own!Next, Own!Calls

\* A handler that yields to wait leaves the call in progress ...
LEMMA WaitStep ==
    ASSUME IInv, Calling, at = "trap_handle", NEW caller \in {"sys_wait", "sys_read"},
           trap_cx' = Entered, yield(caller)
    PROVE  Own!Next
  BY Yielded, CallStep

\* ... and so does a fault, for good.
LEMMA FaultStep ==
    ASSUME IInv, Calling, KernelFault
    PROVE  Own!Next \/ UNCHANGED OwnMachines
<1>1. at' # "user" /\ Living' = Living BY DEF KernelFault, Living
<1>2. CASE /\ Handles("USER_ENV_CALL") /\ trap_cx' = Entered
           /\ kstack' = [kstack EXCEPT ![x["sp"][2]] = "syscall"]
  <2>1. at = "trap_handle" BY <1>2 DEF Handles
  <2>2. /\ kstack'[current] = "syscall"
        /\ \A p \in Procs \ {current} : kstack'[p] = kstack[p]
    BY <1>2, <2>1, Inside DEF Shape
  <2> QED BY <1>1, <1>2, <2>1, <2>2, CallStep
<1>3. CASE at = "yield" /\ UNCHANGED <<trap_cx, kstack>>
  <2>1. \A p \in Living : Machine(p)' = Machine(p)
    BY <1>1, <1>3, OthersKept
  <2> QED BY <1>1, <2>1, AllKept
<1> QED BY <1>2, <1>3 DEF KernelFault

LEMMA WaitOrReapStep ==
    ASSUME IInv, Calling, sys_wait \/ sys_read
    PROVE  Own!Next
<1>1. at = "trap_handle" BY DEF sys_wait, sys_read, Handles
<1>2. CASE Reap(Entered)
  <2>1. /\ Entered[current].x = trap_cx[current].x
        /\ Entered[current].sepc = (trap_cx[current].sepc + 2) % PcMod
    BY <1>1, EnteredFields
  <2>2. /\ at' # "user" /\ Living' = Living
        /\ trap_cx'[current].x = [Entered[current].x EXCEPT !["a0"] = result]
        /\ trap_cx'[current].sepc = Entered[current].sepc
        /\ kstack'[current] \notin {"sys_wait", "sys_read", "syscall"}
        /\ \A p \in Living \ {current} :
              trap_cx'[p] = trap_cx[p] /\ kstack'[p] = kstack[p]
    BY <1>1, <1>2, EnteredFields, Reaped
  <2>3. trap_cx'[current].x = [trap_cx[current].x EXCEPT !["a0"] = result]
    BY <2>1, <2>2
  <2> QED BY <1>1, <2>1, <2>2, <2>3, Serves
<1>3. CASE trap_cx' = Entered /\ (yield("sys_wait") \/ yield("sys_read"))
  BY <1>1, <1>3, WaitStep
<1> QED BY <1>2, <1>3 DEF sys_wait, sys_read

LEMMA YieldReturnsStep ==
    ASSUME IInv, Calling, YieldReturns
    PROVE  Own!Next \/ UNCHANGED OwnMachines
<1> DEFINE caller == kstack[x["sp"][2]]
<1>1. at = "yield" BY DEF YieldReturns
<1>2. caller = kstack[current] BY <1>1, Inside
<1>3. Table(trap_cx) /\ Restorable(trap_cx[current], current) /\ current \in Procs
  BY <1>1, Inside
<1> HIDE DEF caller
<1>4. CASE caller \in {"sys_wait", "sys_read"} /\ yield(caller) /\ UNCHANGED trap_cx
  <2>1. /\ at' # "user" /\ Living' = Living /\ kstack'[current] = caller
        /\ \A p \in Procs \ {current} : kstack'[p] = kstack[p]
    BY <1>1, <1>4, Yielded
  <2>2. \A p \in Living : kstack'[p] = kstack[p] /\ trap_cx'[p] = trap_cx[p]
    BY <1>2, <1>4, <2>1 DEF Living
  <2> QED BY <1>1, <2>1, <2>2, OthersKept, AllKept
<1>5. CASE caller = "sys_wait" /\ Reap(trap_cx)
  <2>1. /\ at' # "user" /\ Living' = Living
        /\ trap_cx'[current].x = [trap_cx[current].x EXCEPT !["a0"] = result]
        /\ trap_cx'[current].sepc = trap_cx[current].sepc
        /\ kstack'[current] \notin {"sys_wait", "sys_read", "syscall"}
        /\ \A p \in Living \ {current} :
              trap_cx'[p] = trap_cx[p] /\ kstack'[p] = kstack[p]
    BY <1>1, <1>3, <1>5, Reaped
  <2> QED BY <1>1, <1>2, <1>5, <2>1, Answered
<1>6. CASE /\ caller \in {"supervisor_timer", "sys_read"}
           /\ trap_cx' = IF caller = "sys_read"
                         THEN Return(trap_cx, current, result)
                         ELSE trap_cx
           /\ kstack' = [kstack EXCEPT ![x["sp"][2]] = Freed]
           /\ CallsRestore
           /\ UNCHANGED <<state, process_cx>>
  <2>1. at' # "user" /\ Living' = Living BY <1>6 DEF CallsRestore, Living
  <2>2. /\ kstack'[current] = Freed
        /\ \A p \in Procs \ {current} : kstack'[p] = kstack[p]
    BY <1>1, <1>6, Inside DEF Shape
  <2>3. Freed \notin {"sys_wait", "sys_read", "syscall"} BY ContextAssumption DEF Freed
  <2>4. CASE caller = "sys_read"
    <3>1. /\ trap_cx'[current].x = [trap_cx[current].x EXCEPT !["a0"] = result]
          /\ trap_cx'[current].sepc = trap_cx[current].sepc
          /\ \A p \in Procs \ {current} : trap_cx'[p] = trap_cx[p]
      BY <1>3, <1>6, <2>4, ReturnFields, ReturnRestorable
    <3> QED BY <1>1, <1>2, <2>1, <2>2, <2>3, <2>4, <3>1, Answered DEF Living
  <2>5. CASE caller = "supervisor_timer"
    <3>1. trap_cx' = trap_cx BY <1>6, <2>5
    <3>2. \A p \in Living : Machine(p)' = Machine(p)
      BY <1>1, <1>2, <2>1, <2>2, <2>3, <2>5, <3>1 DEF Machine, OnHart, InCall, Living
    <3> QED BY <2>1, <3>2, AllKept
  <2> QED BY <1>6, <2>4, <2>5
<1> QED BY <1>1, <1>4, <1>5, <1>6 DEF YieldReturns, caller

-----------------------------------------------------------------------------
(* The refinement: processes come and go                                   *)

LEMMA InitProcessStep ==
    ASSUME IInv, Calling, init_process
    PROVE  Own!Next
<1>1. /\ at = "init_process" /\ Shape /\ at' = "schedule" /\ kstack' = kstack
      /\ \A p \in Procs : state[p] = "Unused"
      /\ init \in Procs /\ init \in Pcb /\ idle \in Pcb /\ init # idle
      /\ \A p \in Procs : p \in Pcb /\ p # idle
  BY ContextAssumption DEF init_process, IInv, Owner, Boot, Pcb, hart
<1>2. /\ trap_cx'[init] = goto_app(init) /\ state'[init] = "Ready"
      /\ \A p \in Procs \ {init} : state'[p] = "Unused"
  BY <1>1 DEF init_process, Shape
<1>3. Living = {} BY <1>1 DEF Living
<1>4. Living' = {init} BY <1>1, <1>2 DEF Living
<1>5. ~InCall(init)' BY <1>1 DEF Calling, InCall
<1>6. goto_app(init).x = Fresh /\ goto_app(init).sepc = 0 BY DEF goto_app
<1>7. Machine(init)' = [x |-> Fresh, pc |-> 0, in |-> "program"]
  BY <1>1, <1>2, <1>5, <1>6 DEF Machine, OnHart
<1>8. OwnMachines' = [p \in {init} |-> Own!Loaded]
  BY <1>4, <1>7 DEF OwnMachines, Own!Loaded
<1>9. DOMAIN OwnMachines = {} BY <1>3 DEF OwnMachines
<1> QED BY <1>8, <1>9 DEF Own!Next, Own!Boots

\* The contexts of parent and child differ in a0 and in the kernel stack.
LEMMA ForkStep ==
    ASSUME IInv, Calling, sys_fork
    PROVE  Own!Next
<1>1. at = "trap_handle" /\ at' # "user" /\ kstack' = kstack
  BY DEF sys_fork, Handles, CallsRestore
<1>2. PICK child \in Procs :
        /\ state[child] = "Unused"
        /\ state' = [state EXCEPT ![child] = "Ready"]
        /\ trap_cx' = Return([Entered EXCEPT ![child] = Child(Entered[current], child)],
                             current, result)
  BY DEF sys_fork
<1>3. PICK p \in Living : p = current
  BY <1>1, CurrentLives DEF InKernel
<1>4. child # p /\ p \in Procs BY <1>1, <1>2, <1>3, Inside
<1> DEFINE cxs == [Entered EXCEPT ![child] = Child(Entered[p], child)]
<1>5. /\ Table(cxs) /\ cxs[child] = Child(Entered[p], child)
      /\ \A q \in Procs \ {child} : cxs[q] = Entered[q]
      /\ trap_cx' = Return(cxs, p, result)
  BY <1>1, <1>2, <1>3, EnteredFields DEF Table
<1> HIDE DEF cxs
<1>6. /\ Entered[p].x = trap_cx[p].x
      /\ Entered[p].sepc = (trap_cx[p].sepc + 2) % PcMod
      /\ \A q \in Procs \ {p} : Entered[q] = trap_cx[q]
      /\ Restorable(Entered[p], p)
  BY <1>1, <1>3, EnteredFields
<1>7. /\ trap_cx'[p].x = [trap_cx[p].x EXCEPT !["a0"] = result]
      /\ trap_cx'[p].sepc = (trap_cx[p].sepc + 2) % PcMod
      /\ \A q \in Procs \ {p} : trap_cx'[q] = cxs[q]
  <2>1. Restorable(cxs[p], p) /\ cxs[p] = Entered[p] BY <1>4, <1>5, <1>6
  <2> QED BY <1>4, <1>5, <1>6, <2>1, ReturnFields, ReturnRestorable
<1>8. /\ trap_cx'[child].x = [trap_cx[p].x EXCEPT !["a0"] = zero]
      /\ trap_cx'[child].sepc = (trap_cx[p].sepc + 2) % PcMod
  <2> DEFINE moved == [Entered[p] EXCEPT !.kernel_sp = <<"kstack", child>>]
  <2>1. Child(Entered[p], child) = [moved EXCEPT !.x["a0"] = zero] BY DEF Child
  <2>2. moved = [x |-> Entered[p].x, sstatus |-> Entered[p].sstatus,
                 sepc |-> Entered[p].sepc, kernel_sp |-> <<"kstack", child>>]
    BY <1>6 DEF Restorable
  <2> HIDE DEF moved
  <2>3. /\ Child(Entered[p], child).x = [Entered[p].x EXCEPT !["a0"] = zero]
        /\ Child(Entered[p], child).sepc = Entered[p].sepc
    BY <2>1, <2>2
  <2> QED BY <1>4, <1>5, <1>6, <1>7, <2>3
<1>9. /\ state'[child] = "Ready" /\ \A q \in Procs \ {child} : state'[q] = state[q]
  BY <1>1, <1>2, Inside DEF Shape
<1>10. Living' = Living \cup {child} /\ child \notin Living
  BY <1>2, <1>9 DEF Living
<1>11. ~InCall(p) /\ ~InCall(child) /\ InCall(p)' = InCall(p) /\ InCall(child)' = InCall(child)
  BY <1>1, <1>2, <1>3 DEF Calling, InCall
<1>12. OwnMachines[p] =
         [x |-> trap_cx[p].x, pc |-> trap_cx[p].sepc, in |-> "program"]
  BY <1>1, <1>3, CurrentFound
<1>13. Own!After(OwnMachines[p], 2) =
         [x |-> trap_cx[p].x, pc |-> (trap_cx[p].sepc + 2) % PcMod, in |-> "program"]
  BY <1>12, MachineAfter
<1>14. Machine(p)' = Own!Returned(Own!After(OwnMachines[p], 2), result)
  <2>1. Own!Returned(Own!After(OwnMachines[p], 2), result) =
          [x |-> [trap_cx[p].x EXCEPT !["a0"] = result],
           pc |-> (trap_cx[p].sepc + 2) % PcMod, in |-> "program"]
    BY <1>13, MachineReturned
  <2> QED BY <1>1, <1>7, <1>11, <2>1 DEF Machine, OnHart
<1>15. Machine(child)' = Own!Returned(Own!After(OwnMachines[p], 2), zero)
  <2>1. Own!Returned(Own!After(OwnMachines[p], 2), zero) =
          [x |-> [trap_cx[p].x EXCEPT !["a0"] = zero],
           pc |-> (trap_cx[p].sepc + 2) % PcMod, in |-> "program"]
    BY <1>13, MachineReturned
  <2> QED BY <1>1, <1>8, <1>11, <2>1 DEF Machine, OnHart
<1>16. \A q \in Living \ {p} : Machine(q)' = OwnMachines[q]
  <2>1. ASSUME NEW q \in Living \ {p} PROVE Machine(q)' = OwnMachines[q]
    <3>1. q \in Procs /\ q # child BY <1>10 DEF Living
    <3>2. trap_cx'[q] = trap_cx[q] BY <1>5, <1>6, <1>7, <3>1
    <3>3. Machine(q)' = Machine(q) BY <1>1, <3>2, OthersKept
    <3> QED BY <3>3 DEF OwnMachines
  <2> QED BY <2>1
<1>17. DOMAIN OwnMachines = Living BY DEF OwnMachines
<1>18. OwnMachines' = [q \in DOMAIN OwnMachines \cup {child} |->
          CASE q = p -> Own!Returned(Own!After(OwnMachines[p], 2), result)
            [] q = child -> Own!Returned(Own!After(OwnMachines[p], 2), zero)
            [] OTHER -> OwnMachines[q]]
  BY <1>4, <1>10, <1>14, <1>15, <1>16, <1>17 DEF OwnMachines
<1>19. Own!Running(p) BY <1>1, <1>3, CurrentFound
<1>20. Own!Forks(p, child) BY <1>10, <1>17, <1>18, <1>19 DEF Own!Forks
<1> QED BY <1>4, <1>20 DEF Own!Next

LEMMA ExitStep ==
    ASSUME IInv, Calling, exit_current
    PROVE  Own!Next
<1>1. /\ at = "trap_handle" /\ trap_cx' = Entered
      /\ state' = [state EXCEPT ![current] = "Exited"]
      /\ kstack' = [kstack EXCEPT ![x["sp"][2]] = "exit_current"]
      /\ at' = "schedule"
  BY SwitchedToIdle DEF exit_current, Handles
<1>2. PICK p \in Living : p = current
  BY <1>1, CurrentLives DEF InKernel
<1>3. /\ state'[p] = "Exited" /\ p \in Procs
      /\ \A q \in Procs \ {p} : state'[q] = state[q] /\ kstack'[q] = kstack[q]
  BY <1>1, <1>2, Inside DEF Shape
<1>4. Living' = Living \ {p} BY <1>3 DEF Living
<1>5. \A q \in Procs \ {p} : trap_cx'[q] = trap_cx[q]
  BY <1>1, <1>2, EnteredFields
<1>6. \A q \in Living \ {p} : Machine(q)' = Machine(q)
  BY <1>1, <1>3, <1>5, OthersKept DEF Living
<1>7. DOMAIN OwnMachines = Living /\ \A q \in Living : OwnMachines[q] = Machine(q)
  BY DEF OwnMachines
<1>8. OwnMachines' = [q \in DOMAIN OwnMachines \ {p} |-> OwnMachines[q]]
  BY <1>4, <1>6, <1>7 DEF OwnMachines
<1>9. Own!Running(p) BY <1>1, <1>2, CurrentFound
<1> QED BY <1>3, <1>8, <1>9 DEF Own!Next, Own!Exits

LEMMA StepRefines ==
    IInv /\ Calling /\ [Next]_vars => [Own!Next]_OwnMachines
<1> SUFFICES ASSUME IInv, Calling, [Next]_vars
             PROVE  Own!Next \/ UNCHANGED OwnMachines
  OBVIOUS
<1>1. IInv' BY NextKeeps
<1>2. CASE UNCHANGED vars BY <1>2, QuietSteps
<1>3. CASE Next
  <2>1. CASE \/ _start \/ init_memory \/ init_trap \/ TimerFires \/ ScheduleReturns
             \/ fault \/ RestoreCsrs \/ Spin
    BY <2>1, QuietSteps DEF Spin
  <2>2. CASE Interrupt \/ Exception BY <2>2, TrapStep DEF Interrupt, Exception
  <2>3. CASE sret \/ Dispatch \/ supervisor_timer
    BY <1>1, <2>3, SretStep, DispatchStep, TimerStep
  <2>4. CASE init_process \/ sys_fork \/ exit_current
    BY <2>4, InitProcessStep, ForkStep, ExitStep
  <2>5. CASE UserRuns \/ breakpoint \/ syscall \/ sys_exec \/ sys_wait \/ sys_read
    BY <2>5, UserStep, BreakpointStep, SyscallStep, ExecStep, WaitOrReapStep
  <2>6. CASE YieldReturns \/ KernelFault BY <2>6, YieldReturnsStep, FaultStep
  <2> QED BY <1>3, <2>1, <2>2, <2>3, <2>4, <2>5, <2>6 DEF Next
<1> QED BY <1>2, <1>3

\* Each process has a hart of its own: whatever the traps, the interrupts and
\* the switches in between, its registers and its pc change only by its own
\* instructions and by the results of its own calls.
THEOREM Refinement == Spec => ImplementsHarts
<1>1. Spec => []Calling
  BY InitHolds, InitCalls, NextCalls, Invariance, PTL DEF Spec
<1> QED
  BY <1>1, InitMachines, StepRefines, Invariance, PTL
  DEF Spec, ImplementsHarts, Own!Spec
=============================================================================
