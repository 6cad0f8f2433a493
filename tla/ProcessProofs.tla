--------------------------- MODULE ProcessProofs ---------------------------
(***************************************************************************)
(* Theorems about Process, for every set of process control blocks and     *)
(* every MaxPid: the safety invariants, through the inductive invariant    *)
(* IInv, and what holds besides when user programs keep to what the        *)
(* repository's do.  StepCases sorts the steps by their effect; the facts  *)
(* about queue and families are proved case by case along it.              *)
(***************************************************************************)
EXTENDS Process, SequenceLemmas, FiniteSetTheorems, TLAPS

-----------------------------------------------------------------------------
(* The steps of the kernel, sorted by what they do                         *)

YieldStep(k) ==
    /\ mode = "run" /\ cpu \in Procs
    /\ k \in {"user", "wait", "read"}
    /\ k = "wait" => children[current] # <<>>
    /\ yield(k)
    /\ UNCHANGED <<pid, pids, current, children, mm, mode, pos>>

ReapStep(i) ==
    /\ mode = "run" /\ cpu \in Procs
    /\ i \in DOMAIN children[current]
    /\ FirstIn(children[current], "Exited", i)
    /\ Reap(i)

ReadReturns ==
    /\ mode = "run" /\ cpu \in Procs
    /\ kpc' = [kpc EXCEPT ![current] = "user"]
    /\ UNCHANGED <<state, pid, pids, current, cpu, runq, children, mm, mode, pos>>

\* The process at work is the current one, and Running.
LEMMA HolderIsCurrent ==
    ASSUME CurrentHoldsHart, cpu \in Procs
    PROVE  current = cpu /\ (mode = "run" => state[current] = "Running")
  BY ProcessAssumption DEF CurrentHoldsHart

\* A turn of the loop of sys_wait() reaps, yields or returns at once.
LEMMA WaitCases ==
    ASSUME IInv, sys_wait \/ WaitResumes
    PROVE  /\ mode = "run" /\ cpu \in Procs
           /\ \/ \E i \in DOMAIN children[current] : ReapStep(i)
              \/ YieldStep("wait")
              \/ UNCHANGED vars
<1>1. PICK flag \in BOOLEAN :
         /\ At(IF flag THEN "wait" ELSE "user")
         /\ WaitTurn(flag)
  BY DEF sys_wait, WaitResumes
<1>2. mode = "run" /\ cpu \in Procs /\ current = cpu
  BY <1>1, HolderIsCurrent DEF At, IInv
<1>3. CASE \E i \in DOMAIN children[current] :
              FirstIn(children[current], "Exited", i) /\ Reap(i)
  BY <1>2, <1>3 DEF ReapStep
<1>4. CASE /\ flag \/ children[current] # <<>>
           /\ yield("wait")
           /\ UNCHANGED <<pid, pids, current, children, mm, mode, pos>>
  <2>1. children[current] # <<>>
    BY <1>1, <1>2, <1>4 DEF At, IInv, WaiterHasChild
  <2>2. YieldStep("wait")
    BY <1>2, <1>4, <2>1 DEF YieldStep
  <2> QED  BY <1>2, <2>2
<1>5. CASE UNCHANGED vars
  BY <1>2, <1>5
<1> QED  BY <1>1, <1>2, <1>3, <1>4, <1>5 DEF WaitTurn

\* The disjuncts of Next, sorted by their effect.
LEMMA StepCases ==
    ASSUME IInv, [Next]_vars
    PROVE  \/ Dispatch
           \/ ScheduleReturns
           \/ \E k \in {"user", "wait", "read"} : YieldStep(k)
           \/ \E i \in DOMAIN children[current] : ReapStep(i)
           \/ ReadReturns
           \/ TrapPanics
           \/ sys_fork
           \/ sys_exec
           \/ ExitToScheduler
           \/ ExitWithChildren
           \/ ReparentTurn
           \/ UNCHANGED vars
<1>1. CASE schedule
  BY <1>1 DEF schedule
<1>2. CASE supervisor_timer
  <2>1. YieldStep("user")
    BY <1>2 DEF supervisor_timer, At, YieldStep
  <2> QED  BY <2>1
<1>3. CASE sys_wait \/ WaitResumes
  BY <1>3, WaitCases
<1>4. CASE sys_read \/ ReadResumes
  <2>1. mode = "run" /\ cpu \in Procs /\ ReadTurn
    BY <1>4 DEF sys_read, ReadResumes, At
  <2>2. ReadReturns \/ YieldStep("read")
    BY <2>1 DEF ReadTurn, ReadReturns, YieldStep
  <2> QED  BY <2>2
<1>5. CASE exit_current
  BY <1>5 DEF exit_current
<1>6. CASE Spin
  BY <1>6 DEF Spin
<1> QED  BY <1>1, <1>2, <1>3, <1>4, <1>5, <1>6 DEF Next

-----------------------------------------------------------------------------
(* Every step preserves the types                                          *)

\* Every step preserves the types.
LEMMA TypeStep ==
    ASSUME IInv, [Next]_vars
    PROVE  TypeOK'
<1> USE DEF TypeOK
<1>0. TypeOK
  BY DEF IInv
<1>1. CASE Dispatch
  <2>1. PICK i \in DOMAIN runq :
           /\ runq' = RemoveAt(runq, i)
           /\ state' = [state EXCEPT ![runq[i]] = "Running", ![idle] = "Ready"]
           /\ current' = runq[i]
           /\ SwitchTo(runq[i])
    BY <1>1 DEF Dispatch
  <2>2. runq[i] \in Procs
    BY <1>0, LenProperties, ElementOfSeq
  <2>3. runq' \in Seq(Procs)
    BY <1>0, <2>1, RemoveAtIsSeq
  <2> QED  BY <1>0, <1>1, <2>1, <2>2, <2>3 DEF Dispatch, SwitchTo, Pcb
<1>2. CASE ScheduleReturns
  BY <1>0, <1>2 DEF ScheduleReturns, Pcb
<1>3. ASSUME NEW k \in {"user", "wait", "read"}, YieldStep(k)
      PROVE  TypeOK'
  <2>1. current \in Procs
    BY <1>3, HolderIsCurrent DEF IInv, YieldStep
  <2>2. runq' \in Seq(Procs)
    BY <1>0, <1>3, <2>1, AppendProperties DEF YieldStep, yield, add_process
  <2> QED  BY <1>0, <1>3, <2>1, <2>2 DEF YieldStep, yield, Pcb
<1>4. ASSUME NEW i \in DOMAIN children[current], ReapStep(i)
      PROVE  TypeOK'
  <2>1. current \in Procs
    BY <1>4, HolderIsCurrent DEF IInv, ReapStep
  <2>2. children[current] \in Seq(Procs) /\ children[current][i] \in Procs
    BY <1>0, <2>1, LenProperties, ElementOfSeq
  <2>3. children' \in [Procs -> Seq(Procs)]
    BY <1>0, <1>4, <2>1, <2>2, RemoveAtIsSeq DEF ReapStep, Reap, list_del
  <2> DEFINE child == children[current][i]
  <2>4. /\ kpc' = [kpc EXCEPT ![current] = "user"]
        /\ UNCHANGED <<current, cpu, runq, pos>>
        /\ \/ mode' = "panic" /\ UNCHANGED <<state, pid, pids, mm>>
           \/ /\ pids' = pids \ {pid[child]}
              /\ pid' = [pid EXCEPT ![child] = NoPid]
              /\ state' = [state EXCEPT ![child] = "Unused"]
              /\ mm' = [mm EXCEPT ![child] = NoMap]
              /\ UNCHANGED mode
    BY <1>4 DEF ReapStep, Reap
  <2>5. child \in Pcb /\ child \in Procs
    BY <2>2 DEF Pcb
  <2> HIDE DEF child
  <2>6. NoMap \in [segs : BOOLEAN, mapped : BOOLEAN]
    BY DEF NoMap
  <2>7. state' \in [Pcb -> {"Unused", "Ready", "Running", "Exited"}]
    BY <1>0, <2>4, <2>5
  <2>8. pid' \in [Pcb -> Pids \cup {NoPid}] /\ pids' \in SUBSET Pids
    BY <1>0, <2>4, <2>5
  <2>9. mm' \in [Procs -> [segs : BOOLEAN, mapped : BOOLEAN]]
    BY <1>0, <2>4, <2>5, <2>6
  <2>10. kpc' \in [Procs -> {"user", "wait", "read"}]
    BY <1>0, <2>1, <2>4
  <2>11. mode' \in {"run", "reparent", "wedged", "panic", "shutdown"}
    BY <1>0, <2>4
  <2> QED  BY <1>0, <2>3, <2>4, <2>7, <2>8, <2>9, <2>10, <2>11
<1>5. CASE ReadReturns
  BY <1>0, <1>5 DEF ReadReturns
<1>6. CASE TrapPanics
  BY <1>0, <1>6 DEF TrapPanics
<1>7. CASE sys_fork
  <2>1. PICK child \in Procs, n \in Pids \cup {NoPid} :
           /\ pid' = [pid EXCEPT ![child] = n]
           /\ pids' = pids \cup ({n} \ {NoPid})
           /\ state' = [state EXCEPT ![child] = "Ready"]
           /\ mm' = [mm EXCEPT ![child] = copy_mm(mm[current])]
           /\ children' = list_add(children, current, child)
           /\ runq' = add_process(child)
    BY <1>7 DEF sys_fork
  <2>2. current \in Procs
    BY <1>7, HolderIsCurrent DEF IInv, sys_fork, At
  <2>3. runq' \in Seq(Procs)
    BY <1>0, <2>1, AppendProperties DEF add_process
  <2>4. <<child>> \o children[current] \in Seq(Procs)
    BY <1>0, <2>2, ConcatProperties
  <2>5. children' \in [Procs -> Seq(Procs)]
    BY <1>0, <2>1, <2>2, <2>4 DEF list_add
  <2>6. copy_mm(mm[current]) \in [segs : BOOLEAN, mapped : BOOLEAN]
    BY <1>0, <2>2 DEF copy_mm
  <2>7. pid' \in [Pcb -> Pids \cup {NoPid}] /\ pids' \in SUBSET Pids
    BY <1>0, <2>1
  <2> QED  BY <1>0, <1>7, <2>1, <2>3, <2>5, <2>6, <2>7 DEF sys_fork, Pcb
<1>8. CASE sys_exec
  BY <1>0, <1>8 DEF sys_exec, new_kernel_memory_map
<1>9. CASE ExitToScheduler
  BY <1>0, <1>9 DEF ExitToScheduler, Pcb
<1>10. CASE ExitWithChildren
  <2>1. current \in Procs
    BY <1>10, HolderIsCurrent DEF IInv, ExitWithChildren, At
  <2>2. pos' \in Procs
    BY <1>0, <1>10, <2>1, HeadTailProperties DEF ExitWithChildren
  <2> QED  BY <1>0, <1>10, <2>2 DEF ExitWithChildren
<1>11. CASE ReparentTurn
  <2>0. PICK p \in Procs : \E i \in DOMAIN children[p] :
           /\ children[p][i] = pos
           /\ children' = list_add(list_del(children, p, i), init, pos)
    BY <1>11 DEF ReparentTurn
  <2>1. PICK i \in DOMAIN children[p] :
           /\ children[p][i] = pos
           /\ children' = list_add(list_del(children, p, i), init, pos)
    BY <2>0
  <2>2. children[p] \in Seq(Procs) /\ pos \in Procs
    BY <1>0, <2>1, LenProperties, ElementOfSeq
  <2>3. list_del(children, p, i) \in [Procs -> Seq(Procs)]
    BY <1>0, <2>1, <2>2, RemoveAtIsSeq DEF list_del
  <2>4. <<pos>> \o list_del(children, p, i)[init] \in Seq(Procs)
    BY <2>2, <2>3, ConcatProperties, ProcessAssumption
  <2>5. children' \in [Procs -> Seq(Procs)]
    BY <2>1, <2>3, <2>4 DEF list_add
  <2>6. pos' \in Procs \cup {NULL}
    BY <1>11, <2>5, LenProperties, ElementOfSeq, ProcessAssumption
       DEF ReparentTurn
  <2> QED  BY <1>0, <1>11, <2>5, <2>6 DEF ReparentTurn
<1>12. CASE UNCHANGED vars
  BY <1>0, <1>12 DEF vars
<1> QED
  BY <1>1, <1>2, <1>3, <1>4, <1>5, <1>6, <1>7, <1>8, <1>9, <1>10, <1>11, <1>12,
     StepCases

-----------------------------------------------------------------------------
(* What the steps that touch a list do, in terms of sets                   *)

Kids(p) == ToSet(children[p])

\* The children lists as sets.
LEMMA KidsFacts ==
    ASSUME TypeOK, NEW p \in Procs
    PROVE  /\ children[p] \in Seq(Procs)
           /\ Kids(p) \subseteq Procs
           /\ children[p] = <<>> <=> Kids(p) = {}
           /\ \A i \in DOMAIN children[p] : children[p][i] \in Kids(p)
<1>1. children[p] \in Seq(Procs)
  BY DEF TypeOK
<1>2. DOMAIN children[p] = 1 .. Len(children[p])
  BY <1>1, LenProperties
<1> QED  BY <1>1, <1>2, ToSetIsRange DEF Kids

\* What Dispatch does to the queue and the states.
LEMMA DispatchEffect ==
    ASSUME IInv, Dispatch
    PROVE  \E p \in Procs :
              /\ state[p] = "Ready"
              /\ cpu = idle /\ mode = "run"
              /\ state' = [state EXCEPT ![p] = "Running", ![idle] = "Ready"]
              /\ current' = p /\ cpu' = p
              /\ mode' = IF mm[p].mapped THEN "run" ELSE "wedged"
              /\ IsInjective(runq')
              /\ ToSet(runq') = ToSet(runq) \ {p}
              /\ UNCHANGED <<pid, pids, children, kpc, mm, pos>>
<1>1. PICK i \in DOMAIN runq :
         /\ FirstIn(runq, "Ready", i)
         /\ runq' = RemoveAt(runq, i)
         /\ state' = [state EXCEPT ![runq[i]] = "Running", ![idle] = "Ready"]
         /\ current' = runq[i]
         /\ SwitchTo(runq[i])
  BY DEF Dispatch
<1>2. runq \in Seq(Procs) /\ IsInjective(runq)
  BY DEF IInv, TypeOK, RunQueueExact
<1>3. runq[i] \in Procs /\ state[runq[i]] = "Ready"
  BY <1>1, <1>2, LenProperties, ElementOfSeq DEF FirstIn
<1>4. IsInjective(runq') /\ ToSet(runq') = ToSet(runq) \ {runq[i]}
  BY <1>1, <1>2, RemoveAtElements
<1> QED  BY <1>1, <1>3, <1>4 DEF Dispatch, SwitchTo

\* What a yield() does to the queue and the states.
LEMMA YieldEffect ==
    ASSUME IInv, NEW k \in {"user", "wait", "read"}, YieldStep(k)
    PROVE  /\ current \in Procs /\ current = cpu
           /\ state[current] = "Running" /\ mode = "run"
           /\ state' = [state EXCEPT ![current] = "Ready"]
           /\ kpc' = [kpc EXCEPT ![current] = k]
           /\ k = "wait" => children[current] # <<>>
           /\ cpu' = idle
           /\ IsInjective(runq')
           /\ ToSet(runq') = ToSet(runq) \cup {current}
           /\ UNCHANGED <<pid, pids, current, children, mm, mode, pos>>
<1>1. current \in Procs /\ current = cpu /\ state[current] = "Running"
  BY HolderIsCurrent DEF IInv, YieldStep
<1>2. /\ runq \in Seq(Procs) /\ IsInjective(runq)
      /\ current \notin ToSet(runq)
  BY <1>1 DEF IInv, TypeOK, RunQueueExact
<1>3. runq' = Append(runq, current)
  BY DEF YieldStep, yield, add_process
<1>4. IsInjective(runq') /\ ToSet(runq') = ToSet(runq) \cup {current}
  BY <1>1, <1>2, <1>3, AppendElements
<1> QED  BY <1>1, <1>4 DEF YieldStep, yield

\* What sys_fork() does to the queue and the families.
LEMMA ForkEffect ==
    ASSUME IInv, sys_fork
    PROVE  \E child \in Procs, n \in Pids \cup {NoPid} :
              /\ current \in Procs /\ current = cpu
              /\ state[current] = "Running" /\ mode = "run"
              /\ state[child] = "Unused" /\ child # current /\ child # init
              /\ children[child] = <<>>
              /\ \A q \in Procs : child \notin Kids(q)
              /\ alloc_pid(n)
              /\ pid' = [pid EXCEPT ![child] = n]
              /\ pids' = pids \cup ({n} \ {NoPid})
              /\ state' = [state EXCEPT ![child] = "Ready"]
              /\ mm' = [mm EXCEPT ![child] = copy_mm(mm[current])]
              /\ children' = list_add(children, current, child)
              /\ \A q \in Procs :
                    /\ IsInjective(children'[q])
                    /\ Kids(q)' = IF q = current THEN Kids(q) \cup {child}
                                                 ELSE Kids(q)
              /\ IsInjective(runq')
              /\ ToSet(runq') = ToSet(runq) \cup {child}
              /\ UNCHANGED <<current, cpu, kpc, mode, pos>>
<1>1. current \in Procs /\ current = cpu /\ state[current] = "Running"
  BY HolderIsCurrent DEF IInv, sys_fork, At
<1>2. mode = "run"
  BY DEF sys_fork, At
<1>3. PICK child \in Procs, n \in Pids \cup {NoPid} :
         /\ state[child] = "Unused"
         /\ alloc_pid(n)
         /\ pid' = [pid EXCEPT ![child] = n]
         /\ pids' = pids \cup ({n} \ {NoPid})
         /\ state' = [state EXCEPT ![child] = "Ready"]
         /\ mm' = [mm EXCEPT ![child] = copy_mm(mm[current])]
         /\ children' = list_add(children, current, child)
         /\ runq' = add_process(child)
  BY DEF sys_fork
<1>4. child # current /\ child # init
  BY <1>1, <1>3 DEF IInv, InitStays, Used
<1>5. children[child] = <<>>
  BY <1>1, <1>3, <1>4 DEF IInv, NoDeadParent
<1>6. \A q \in Procs : child \notin Kids(q)
  BY <1>2, <1>3 DEF IInv, OneParent, Kids, Used
<1>7. /\ IsInjective(runq')
      /\ ToSet(runq') = ToSet(runq) \cup {child}
  <2>1. /\ runq \in Seq(Procs) /\ IsInjective(runq)
        /\ child \notin ToSet(runq)
    BY <1>3 DEF IInv, TypeOK, RunQueueExact
  <2> QED  BY <1>3, <2>1, AppendElements DEF add_process
<1>8. ASSUME NEW q \in Procs
      PROVE  /\ IsInjective(children'[q])
             /\ Kids(q)' = IF q = current THEN Kids(q) \cup {child} ELSE Kids(q)
  <2>1. children[q] \in Seq(Procs) /\ IsInjective(children[q])
    BY KidsFacts DEF IInv, OneParent
  <2>2. children'[q] = IF q = current THEN <<child>> \o children[q]
                                      ELSE children[q]
    BY <1>3, <1>1 DEF list_add, IInv, TypeOK
  <2>3. child \notin ToSet(children[q])
    BY <1>6 DEF Kids
  <2>4. /\ IsInjective(<<child>> \o children[q])
        /\ ToSet(<<child>> \o children[q]) = ToSet(children[q]) \cup {child}
    BY <2>1, <2>3, ConsElements
  <2> QED  BY <2>1, <2>2, <2>4 DEF Kids
<1> QED
  BY <1>1, <1>2, <1>3, <1>4, <1>5, <1>6, <1>7, <1>8 DEF sys_fork

\* What freeing a child in sys_wait() does to the families.
LEMMA ReapEffect ==
    ASSUME IInv, NEW i \in DOMAIN children[current], ReapStep(i)
    PROVE  \E child \in Procs :
              /\ current \in Procs /\ current = cpu
              /\ state[current] = "Running" /\ mode = "run"
              /\ state[child] = "Exited" /\ child # current /\ child # init
              /\ child \in Kids(current)
              /\ children[child] = <<>>
              /\ \A q \in Procs :
                    /\ IsInjective(children'[q])
                    /\ Kids(q)' = Kids(q) \ {child}
              /\ \A q \in Procs \ {current} : children'[q] = children[q]
              /\ kpc' = [kpc EXCEPT ![current] = "user"]
              /\ UNCHANGED <<current, cpu, runq, pos>>
              /\ \/ /\ pid[child] = NoPid
                    /\ mode' = "panic" /\ UNCHANGED <<state, pid, pids, mm>>
                 \/ /\ pid[child] # NoPid
                    /\ pids' = pids \ {pid[child]}
                    /\ pid' = [pid EXCEPT ![child] = NoPid]
                    /\ state' = [state EXCEPT ![child] = "Unused"]
                    /\ mm' = [mm EXCEPT ![child] = NoMap]
                    /\ UNCHANGED mode
<1> DEFINE child == children[current][i]
<1>1. current \in Procs /\ current = cpu /\ state[current] = "Running"
  BY HolderIsCurrent DEF IInv, ReapStep
<1>2. mode = "run"
  BY DEF ReapStep
<1>3. state[child] = "Exited"
  BY DEF ReapStep, FirstIn
<1>4. child \in Kids(current) /\ child \in Procs
  BY <1>1, KidsFacts DEF IInv
<1>5. child # init /\ child # current
  BY <1>1, <1>2, <1>3, <1>4 DEF IInv, OneParent, Kids
<1>6. children[child] = <<>>
  BY <1>1, <1>3, <1>4, <1>5 DEF IInv, NoDeadParent
<1>7. children' = list_del(children, current, i)
  BY DEF ReapStep, Reap
<1>8. ASSUME NEW q \in Procs
      PROVE  /\ IsInjective(children'[q])
             /\ Kids(q)' = Kids(q) \ {child}
             /\ q # current => children'[q] = children[q]
  <2>1. children[q] \in Seq(Procs) /\ IsInjective(children[q])
    BY KidsFacts DEF IInv, OneParent
  <2>2. children'[q] = IF q = current THEN RemoveAt(children[q], i)
                                      ELSE children[q]
    BY <1>1, <1>7 DEF list_del, IInv, TypeOK
  <2>3. CASE q = current
    BY <2>1, <2>2, <2>3, RemoveAtElements DEF Kids
  <2>4. CASE q # current
    <3>1. child \notin Kids(q)
      BY <1>1, <1>4, <2>4 DEF IInv, OneParent, Kids
    <3> QED  BY <2>1, <2>2, <2>4, <3>1 DEF Kids
  <2> QED  BY <2>3, <2>4
<1>9. /\ kpc' = [kpc EXCEPT ![current] = "user"]
      /\ UNCHANGED <<current, cpu, runq, pos>>
      /\ \/ /\ pid[child] = NoPid
            /\ mode' = "panic" /\ UNCHANGED <<state, pid, pids, mm>>
         \/ /\ pid[child] # NoPid
            /\ pids' = pids \ {pid[child]}
            /\ pid' = [pid EXCEPT ![child] = NoPid]
            /\ state' = [state EXCEPT ![child] = "Unused"]
            /\ mm' = [mm EXCEPT ![child] = NoMap]
            /\ UNCHANGED mode
  BY DEF ReapStep, Reap
<1> HIDE DEF child
<1> QED  BY <1>1, <1>2, <1>3, <1>4, <1>5, <1>6, <1>8, <1>9

\* What a turn of the loop of exit_current() does to the families.
LEMMA ReparentEffect ==
    ASSUME IInv, ReparentTurn
    PROVE  /\ mode = "reparent" /\ cpu \in Procs \ {init}
           /\ pos \in Procs
           /\ pos \in Kids(cpu) \cup Kids(init)
           /\ \A q \in Procs :
                 /\ IsInjective(children'[q])
                 /\ Kids(q)' = IF q = init THEN Kids(q) \cup {pos}
                                           ELSE Kids(q) \ {pos}
           /\ \A q \in Procs \ {init, cpu} : children'[q] = children[q]
           /\ pos' # NULL => pos' \in Kids(init)'
           /\ UNCHANGED <<state, pid, pids, current, cpu, runq, kpc, mm, mode>>
<1>1. mode = "reparent"
  BY DEF ReparentTurn
<1>2. PICK p \in Procs : \E i \in DOMAIN children[p] :
         /\ children[p][i] = pos
         /\ children' = list_add(list_del(children, p, i), init, pos)
  BY DEF ReparentTurn
<1>3. PICK i \in DOMAIN children[p] :
         /\ children[p][i] = pos
         /\ children' = list_add(list_del(children, p, i), init, pos)
  BY <1>2
<1>4. pos \in Kids(p) /\ pos \in Procs
  BY <1>3, KidsFacts DEF IInv
<1>5. cpu \in Procs \ {init} /\ pos \in Kids(cpu) \cup Kids(init)
  BY <1>1, <1>4, ProcessAssumption DEF IInv, Reparenting, Kids, Pcb
<1>6. \A q \in Procs : q # p => pos \notin Kids(q)
  BY <1>4 DEF IInv, OneParent, Kids
<1>7. p \in {cpu, init}
  BY <1>5, <1>6, ProcessAssumption
<1> DEFINE rest == list_del(children, p, i)
<1>8. ASSUME NEW q \in Procs
      PROVE  /\ rest[q] \in Seq(Procs)
             /\ IsInjective(rest[q])
             /\ ToSet(rest[q]) = Kids(q) \ {pos}
             /\ q # p => rest[q] = children[q]
  <2>1. children[q] \in Seq(Procs) /\ IsInjective(children[q])
    BY KidsFacts DEF IInv, OneParent
  <2>2. rest[q] = IF q = p THEN RemoveAt(children[q], i) ELSE children[q]
    BY DEF list_del, IInv, TypeOK
  <2>3. CASE q = p
    BY <1>3, <2>1, <2>2, <2>3, RemoveAtIsSeq, RemoveAtElements DEF Kids
  <2>4. CASE q # p
    BY <1>6, <2>1, <2>2, <2>4 DEF Kids
  <2> QED  BY <2>3, <2>4
<1>9. DOMAIN rest = Procs
  BY DEF list_del, IInv, TypeOK
<1>10. children' = list_add(rest, init, pos)
  BY <1>3
<1> HIDE DEF rest
<1>11. ASSUME NEW q \in Procs
       PROVE  /\ children'[q] \in Seq(Procs)
              /\ IsInjective(children'[q])
              /\ Kids(q)' = IF q = init THEN Kids(q) \cup {pos}
                                        ELSE Kids(q) \ {pos}
              /\ q \notin {p, init} => children'[q] = children[q]
  <2>1. children'[q] = IF q = init THEN <<pos>> \o rest[q] ELSE rest[q]
    BY <1>9, <1>10, ProcessAssumption DEF list_add
  <2>2. /\ rest[q] \in Seq(Procs) /\ IsInjective(rest[q])
        /\ ToSet(rest[q]) = Kids(q) \ {pos}
        /\ q # p => rest[q] = children[q]
    BY <1>8
  <2>3. /\ <<pos>> \o rest[q] \in Seq(Procs)
        /\ IsInjective(<<pos>> \o rest[q])
        /\ ToSet(<<pos>> \o rest[q]) = Kids(q) \cup {pos}
    <3>1. pos \notin ToSet(rest[q])
      BY <2>2
    <3>2. /\ <<pos>> \o rest[q] \in Seq(Procs)
          /\ IsInjective(<<pos>> \o rest[q])
          /\ ToSet(<<pos>> \o rest[q]) = ToSet(rest[q]) \cup {pos}
      BY <1>4, <2>2, <3>1, ConsElements
    <3> QED  BY <2>2, <3>2
  <2> QED  BY <2>1, <2>2, <2>3 DEF Kids
<1>12. pos' # NULL => pos' \in Kids(init)'
  <2>1. children'[init] \in Seq(Procs)
    BY <1>11, ProcessAssumption
  <2>2. SUFFICES ASSUME Len(children'[init]) > 1
                 PROVE  children'[init][2] \in ToSet(children'[init])
    BY DEF ReparentTurn, Kids
  <2>3. 2 \in 1 .. Len(children'[init])
    BY <2>1, <2>2, LenProperties
  <2> QED  BY <2>1, <2>3, ToSetIsRange
<1> QED  BY <1>1, <1>4, <1>5, <1>7, <1>11, <1>12 DEF ReparentTurn

-----------------------------------------------------------------------------
(* The queue and the hart                                                  *)

\* Every step keeps the queue and the states in accord.
LEMMA QueueStep ==
    ASSUME IInv, [Next]_vars
    PROVE  RunQueueExact' /\ CurrentHoldsHart'
<1> USE ProcessAssumption DEF RunQueueExact, CurrentHoldsHart, Pcb
<1>0. /\ RunQueueExact /\ CurrentHoldsHart
      /\ state \in [Pcb -> {"Unused", "Ready", "Running", "Exited"}]
      /\ cpu \in Pcb
  BY DEF IInv, TypeOK
<1>1. CASE Dispatch
  BY <1>0, <1>1, DispatchEffect
<1>2. CASE ScheduleReturns
  BY <1>0, <1>2 DEF ScheduleReturns
<1>3. ASSUME NEW k \in {"user", "wait", "read"}, YieldStep(k)
      PROVE  RunQueueExact' /\ CurrentHoldsHart'
  BY <1>0, <1>3, YieldEffect
<1>4. ASSUME NEW i \in DOMAIN children[current], ReapStep(i)
      PROVE  RunQueueExact' /\ CurrentHoldsHart'
  BY <1>0, <1>4, ReapEffect
<1>5. CASE ReadReturns
  BY <1>0, <1>5 DEF ReadReturns
<1>6. CASE TrapPanics
  BY <1>0, <1>6 DEF TrapPanics, At
<1>7. CASE sys_fork
  BY <1>0, <1>7, ForkEffect
<1>8. CASE sys_exec
  BY <1>0, <1>8 DEF sys_exec
<1>9. CASE ExitToScheduler
  BY <1>0, <1>9, HolderIsCurrent DEF ExitToScheduler, At
<1>10. CASE ExitWithChildren
  BY <1>0, <1>10, HolderIsCurrent DEF ExitWithChildren, At
<1>11. CASE ReparentTurn
  BY <1>0, <1>11 DEF ReparentTurn
<1>12. CASE UNCHANGED vars
  BY <1>0, <1>12 DEF vars
<1> QED
  BY <1>1, <1>2, <1>3, <1>4, <1>5, <1>6, <1>7, <1>8, <1>9, <1>10, <1>11, <1>12,
     StepCases

\* Every step keeps free blocks clean, and init and idle in place.
LEMMA BlocksStep ==
    ASSUME IInv, [Next]_vars
    PROVE  FreeBlocksClean' /\ InitStays'
<1> USE ProcessAssumption DEF FreeBlocksClean, InitStays, Used, Pcb
<1>0. /\ FreeBlocksClean /\ InitStays
      /\ state \in [Pcb -> {"Unused", "Ready", "Running", "Exited"}]
      /\ pid \in [Pcb -> Pids \cup {NoPid}]
      /\ kpc \in [Procs -> {"user", "wait", "read"}]
  BY DEF IInv, TypeOK
<1>1. CASE Dispatch
  BY <1>0, <1>1, DispatchEffect
<1>2. CASE ScheduleReturns
  BY <1>0, <1>2 DEF ScheduleReturns
<1>3. ASSUME NEW k \in {"user", "wait", "read"}, YieldStep(k)
      PROVE  FreeBlocksClean' /\ InitStays'
  BY <1>0, <1>3, YieldEffect
<1>4. ASSUME NEW i \in DOMAIN children[current], ReapStep(i)
      PROVE  FreeBlocksClean' /\ InitStays'
  BY <1>0, <1>4, ReapEffect
<1>5. CASE ReadReturns
  BY <1>0, <1>5, HolderIsCurrent DEF ReadReturns, IInv
<1>6. CASE TrapPanics
  BY <1>0, <1>6 DEF TrapPanics
<1>7. CASE sys_fork
  BY <1>0, <1>7, ForkEffect
<1>8. CASE sys_exec
  BY <1>0, <1>8 DEF sys_exec, At
<1>9. CASE ExitToScheduler
  BY <1>0, <1>9, HolderIsCurrent DEF ExitToScheduler, At, IInv
<1>10. CASE ExitWithChildren
  BY <1>0, <1>10, HolderIsCurrent DEF ExitWithChildren, At, IInv
<1>11. CASE ReparentTurn
  BY <1>0, <1>11 DEF ReparentTurn
<1>12. CASE UNCHANGED vars
  BY <1>0, <1>12 DEF vars
<1> QED
  BY <1>1, <1>2, <1>3, <1>4, <1>5, <1>6, <1>7, <1>8, <1>9, <1>10, <1>11, <1>12,
     StepCases

-----------------------------------------------------------------------------
(* The families                                                            *)

\* Every step leaves every process on one children list.
LEMMA ParentStep ==
    ASSUME IInv, [Next]_vars
    PROVE  OneParent'
<1> USE ProcessAssumption DEF Used, Pcb
<1> DEFINE Unions ==
             \A c : (\E p \in Procs : c \in Kids(p))
                      <=> c \in Procs /\ c # init /\ Used(c)
           Apart ==
             \A p, q \in Procs : p # q => Kids(p) \cap Kids(q) = {}
<1>a. Apart /\ (mode # "panic" => Unions) /\ \A p \in Procs : IsInjective(children[p])
  BY DEF IInv, OneParent, Kids
<1>b. SUFFICES /\ Apart' /\ (mode' # "panic" => Unions')
               /\ \A p \in Procs : IsInjective(children'[p])
  BY DEF OneParent, Kids
<1>0. /\ Used(init)
      /\ state \in [Pcb -> {"Unused", "Ready", "Running", "Exited"}]
  BY DEF IInv, TypeOK, InitStays
<1>1. CASE Dispatch
  BY <1>0, <1>a, <1>1, DispatchEffect DEF Kids
<1>2. CASE ScheduleReturns
  BY <1>0, <1>a, <1>2 DEF ScheduleReturns, Kids
<1>3. ASSUME NEW k \in {"user", "wait", "read"}, YieldStep(k)
      PROVE  /\ Apart' /\ (mode' # "panic" => Unions')
             /\ \A p \in Procs : IsInjective(children'[p])
  BY <1>0, <1>a, <1>3, YieldEffect DEF Kids
<1>4. ASSUME NEW i \in DOMAIN children[current], ReapStep(i)
      PROVE  /\ Apart' /\ (mode' # "panic" => Unions')
             /\ \A p \in Procs : IsInjective(children'[p])
  BY <1>0, <1>a, <1>4, ReapEffect
<1>5. CASE ReadReturns
  BY <1>0, <1>a, <1>5 DEF ReadReturns, Kids
<1>6. CASE TrapPanics
  BY <1>0, <1>a, <1>6 DEF TrapPanics, Kids
<1>7. CASE sys_fork
  BY <1>0, <1>a, <1>7, ForkEffect
<1>8. CASE sys_exec
  BY <1>0, <1>a, <1>8 DEF sys_exec, Kids
<1>9. CASE ExitToScheduler
  BY <1>0, <1>a, <1>9, HolderIsCurrent DEF ExitToScheduler, At, IInv, Kids
<1>10. CASE ExitWithChildren
  BY <1>0, <1>a, <1>10, HolderIsCurrent DEF ExitWithChildren, At, IInv, Kids
<1>11. CASE ReparentTurn
  BY <1>0, <1>a, <1>11, ReparentEffect
<1>12. CASE UNCHANGED vars
  BY <1>0, <1>a, <1>12 DEF vars, Kids
<1> QED
  BY <1>1, <1>2, <1>3, <1>4, <1>5, <1>6, <1>7, <1>8, <1>9, <1>10, <1>11, <1>12,
     StepCases

\* No step leaves children with a dead parent that has given up the hart.
LEMMA DeadParentStep ==
    ASSUME IInv, [Next]_vars
    PROVE  NoDeadParent'
<1> USE ProcessAssumption DEF NoDeadParent, Pcb
<1>0. /\ NoDeadParent
      /\ state \in [Pcb -> {"Unused", "Ready", "Running", "Exited"}]
      /\ children \in [Procs -> Seq(Procs)]
      /\ cpu \in Pcb
      /\ cpu # idle => current = cpu
  BY DEF IInv, TypeOK, CurrentHoldsHart
<1>1. CASE Dispatch
  BY <1>0, <1>1, DispatchEffect
<1>2. CASE ScheduleReturns
  BY <1>0, <1>2 DEF ScheduleReturns
<1>3. ASSUME NEW k \in {"user", "wait", "read"}, YieldStep(k)
      PROVE  NoDeadParent'
  BY <1>0, <1>3, YieldEffect
<1>4. ASSUME NEW i \in DOMAIN children[current], ReapStep(i)
      PROVE  NoDeadParent'
  BY <1>0, <1>4, ReapEffect
<1>5. CASE ReadReturns
  BY <1>0, <1>5, HolderIsCurrent DEF ReadReturns, IInv
<1>6. CASE TrapPanics
  BY <1>0, <1>6 DEF TrapPanics
<1>7. CASE sys_fork
  <2>1. \A q \in Procs : q # current => children'[q] = children[q]
    BY <1>0, <1>7, ForkEffect DEF list_add
  <2> QED  BY <1>0, <1>7, <2>1, ForkEffect
<1>8. CASE sys_exec
  BY <1>0, <1>8 DEF sys_exec
<1>9. CASE ExitToScheduler
  BY <1>0, <1>9, HolderIsCurrent DEF ExitToScheduler, At, IInv
<1>10. CASE ExitWithChildren
  BY <1>0, <1>10, HolderIsCurrent DEF ExitWithChildren, At, IInv
<1>11. CASE ReparentTurn
  BY <1>0, <1>11, ReparentEffect
<1>12. CASE UNCHANGED vars
  BY <1>0, <1>12 DEF vars
<1> QED
  BY <1>1, <1>2, <1>3, <1>4, <1>5, <1>6, <1>7, <1>8, <1>9, <1>10, <1>11, <1>12,
     StepCases

\* No step takes the last child from a process that waits.
LEMMA WaiterStep ==
    ASSUME IInv, [Next]_vars
    PROVE  WaiterHasChild'
<1> USE ProcessAssumption DEF WaiterHasChild, Pcb
<1>0. /\ WaiterHasChild /\ FreeBlocksClean
      /\ state \in [Pcb -> {"Unused", "Ready", "Running", "Exited"}]
      /\ children \in [Procs -> Seq(Procs)]
      /\ kpc \in [Procs -> {"user", "wait", "read"}]
      /\ cpu # idle => current = cpu
  BY DEF IInv, TypeOK, CurrentHoldsHart
<1>a. \A q \in Procs : children'[q] = <<>> <=> Kids(q)' = {}
  <2>1. \A q \in Procs : children'[q] \in Seq(Procs)
    BY TypeStep DEF TypeOK
  <2> QED  BY <2>1, ToSetIsRange DEF Kids
<1>b. \A q \in Procs : children[q] = <<>> <=> Kids(q) = {}
  BY KidsFacts DEF IInv
<1>1. CASE Dispatch
  BY <1>0, <1>1, DispatchEffect
<1>2. CASE ScheduleReturns
  BY <1>0, <1>2 DEF ScheduleReturns
<1>3. ASSUME NEW k \in {"user", "wait", "read"}, YieldStep(k)
      PROVE  WaiterHasChild'
  BY <1>0, <1>3, YieldEffect
<1>4. ASSUME NEW i \in DOMAIN children[current], ReapStep(i)
      PROVE  WaiterHasChild'
  BY <1>0, <1>4, ReapEffect
<1>5. CASE ReadReturns
  BY <1>0, <1>5, HolderIsCurrent DEF ReadReturns, IInv
<1>6. CASE TrapPanics
  BY <1>0, <1>6 DEF TrapPanics
<1>7. CASE sys_fork
  <2>1. \A q \in Procs : Kids(q) \subseteq Kids(q)'
    BY <1>7, ForkEffect
  <2> QED  BY <1>0, <1>a, <1>b, <1>7, <2>1, ForkEffect
<1>8. CASE sys_exec
  BY <1>0, <1>8 DEF sys_exec
<1>9. CASE ExitToScheduler
  BY <1>0, <1>9, HolderIsCurrent DEF ExitToScheduler, At, IInv
<1>10. CASE ExitWithChildren
  BY <1>0, <1>10, HolderIsCurrent DEF ExitWithChildren, At, IInv
<1>11. CASE ReparentTurn
  <2>1. \A q \in Procs : q \notin {init, cpu} => children'[q] = children[q]
    BY <1>11, ReparentEffect
  <2>2. children'[init] # <<>>
    BY <1>a, <1>11, ReparentEffect
  <2>3. state[cpu] = "Exited" /\ cpu \in Procs
    BY <1>11, ReparentEffect DEF IInv, CurrentHoldsHart
  <2>4. kpc[cpu] # "wait" /\ UNCHANGED kpc
    BY <1>0, <1>11, <2>3, ReparentEffect DEF FreeBlocksClean
  <2> QED  BY <1>0, <2>1, <2>2, <2>4
<1>12. CASE UNCHANGED vars
  BY <1>0, <1>12 DEF vars
<1> QED
  BY <1>1, <1>2, <1>3, <1>4, <1>5, <1>6, <1>7, <1>8, <1>9, <1>10, <1>11, <1>12,
     StepCases

\* Every step keeps the loop of exit_current() on two lists.
LEMMA ReparentingStep ==
    ASSUME IInv, [Next]_vars
    PROVE  Reparenting'
<1> USE ProcessAssumption DEF Reparenting, Kids, Pcb
<1>0. /\ Reparenting
      /\ cpu # idle => current = cpu
  BY DEF IInv, CurrentHoldsHart
<1>1. CASE Dispatch
  BY <1>0, <1>1, DispatchEffect
<1>2. CASE ScheduleReturns
  BY <1>0, <1>2 DEF ScheduleReturns
<1>3. ASSUME NEW k \in {"user", "wait", "read"}, YieldStep(k)
      PROVE  Reparenting'
  BY <1>0, <1>3, YieldEffect
<1>4. ASSUME NEW i \in DOMAIN children[current], ReapStep(i)
      PROVE  Reparenting'
  BY <1>0, <1>4, ReapEffect
<1>5. CASE ReadReturns
  BY <1>0, <1>5, HolderIsCurrent DEF ReadReturns, IInv
<1>6. CASE TrapPanics
  BY <1>0, <1>6 DEF TrapPanics
<1>7. CASE sys_fork
  BY <1>0, <1>7, ForkEffect
<1>8. CASE sys_exec
  BY <1>0, <1>8 DEF sys_exec
<1>9. CASE ExitToScheduler
  BY <1>0, <1>9, HolderIsCurrent DEF ExitToScheduler, At, IInv
<1>10. CASE ExitWithChildren
  <2>1. /\ mode' = "reparent" /\ current # init /\ current = cpu
        /\ cpu \in Procs /\ children[cpu] # <<>>
        /\ pos' = Head(children[cpu])
        /\ UNCHANGED <<cpu, children>>
    BY <1>0, <1>10 DEF ExitWithChildren, At
  <2>2. children[cpu] \in Seq(Procs)
    BY <2>1 DEF IInv, TypeOK
  <2>3. Head(children[cpu]) = children[cpu][1] /\ 1 \in 1 .. Len(children[cpu])
    BY <2>1, <2>2, EmptySeq
  <2>4. Head(children[cpu]) \in Kids(cpu)
    BY <2>2, <2>3, ToSetIsRange
  <2> QED  BY <2>1, <2>4
<1>11. CASE ReparentTurn
  BY <1>0, <1>11, ReparentEffect
<1>12. CASE UNCHANGED vars
  BY <1>0, <1>12 DEF vars
<1> QED
  BY <1>1, <1>2, <1>3, <1>4, <1>5, <1>6, <1>7, <1>8, <1>9, <1>10, <1>11, <1>12,
     StepCases

\* A step that frees or keeps processes, and that adds children to init only,
\* keeps every other process below init.
LEMMA RootedKept ==
    ASSUME RootedAtInit, mode # "panic",
           \A c \in Procs \ {init} : Used(c)' => Used(c),
           \A p \in Procs \ {init} : Kids(p)' \subseteq Kids(p)
    PROVE  RootedAtInit'
<1> SUFFICES ASSUME NEW S \in SUBSET {c \in Procs \ {init} : Used(c)'}, S # {}
             PROVE  \E c \in S : \A p \in S : c \notin Kids(p)'
  BY DEF RootedAtInit, Kids, Used
<1>1. S \in SUBSET {c \in Procs \ {init} : Used(c)}
  OBVIOUS
<1>2. PICK c \in S : \A p \in S : c \notin ToSet(children[p])
  BY <1>1 DEF RootedAtInit
<1>3. \A p \in S : c \notin Kids(p)'
  BY <1>2 DEF Kids
<1> QED  BY <1>3

\* Every step keeps the families one tree.
LEMMA RootedStep ==
    ASSUME IInv, [Next]_vars
    PROVE  RootedAtInit'
<1>0. /\ state \in [Pcb -> {"Unused", "Ready", "Running", "Exited"}]
      /\ RootedAtInit
      /\ mode = "panic" => UNCHANGED <<mode, state, children>>
      /\ cpu # idle => current = cpu
  <2>1. mode = "panic" => UNCHANGED vars
    BY StepCases DEF Dispatch, ScheduleReturns, YieldStep, ReapStep, ReadReturns,
       TrapPanics, sys_fork, sys_exec, ExitToScheduler, ExitWithChildren,
       ReparentTurn, At
  <2> QED  BY <2>1 DEF IInv, TypeOK, CurrentHoldsHart, vars
<1>a. CASE mode = "panic"
  BY <1>0, <1>a DEF RootedAtInit, Used
<1>b. CASE mode # "panic" /\ sys_fork
  <2>1. PICK child \in Procs :
           /\ state[child] = "Unused" /\ child # current /\ child # init
           /\ children[child] = <<>>
           /\ \A q \in Procs : child \notin Kids(q)
           /\ state' = [state EXCEPT ![child] = "Ready"]
           /\ \A q \in Procs :
                 Kids(q)' = IF q = current THEN Kids(q) \cup {child} ELSE Kids(q)
    BY <1>b, ForkEffect
  <2> SUFFICES ASSUME NEW S \in SUBSET {c \in Procs \ {init} : Used(c)'}, S # {}
               PROVE  \E c \in S : \A p \in S : c \notin Kids(p)'
    BY DEF RootedAtInit, Kids, Used
  <2>2. Kids(child)' = {}
    BY <2>1, KidsFacts DEF IInv
  <2>3. CASE S = {child}
    BY <2>2, <2>3
  <2>4. CASE S # {child}
    <3>1. S \ {child} \in SUBSET {c \in Procs \ {init} : Used(c)}
      BY <1>0, <2>1 DEF Used, Pcb
    <3>2. PICK c \in S \ {child} : \A p \in S \ {child} : c \notin Kids(p)
      BY <1>0, <1>b, <2>4, <3>1 DEF RootedAtInit, Kids
    <3>3. \A p \in S : c \notin Kids(p)'
      BY <2>1, <2>2, <3>2
    <3> QED  BY <3>3
  <2> QED  BY <2>3, <2>4
<1>c. CASE mode # "panic" /\ ~sys_fork
  <2>1. /\ \A c \in Procs \ {init} : Used(c)' => Used(c)
        /\ \A p \in Procs \ {init} : Kids(p)' \subseteq Kids(p)
    <3> USE ProcessAssumption DEF Used, Pcb
    <3>1. CASE Dispatch
      BY <1>0, <3>1, DispatchEffect DEF Kids
    <3>2. CASE ScheduleReturns
      BY <1>0, <3>2 DEF ScheduleReturns, Kids
    <3>3. ASSUME NEW k \in {"user", "wait", "read"}, YieldStep(k)
          PROVE  /\ \A c \in Procs \ {init} : Used(c)' => Used(c)
                 /\ \A p \in Procs \ {init} : Kids(p)' \subseteq Kids(p)
      BY <1>0, <3>3, YieldEffect DEF Kids
    <3>4. ASSUME NEW i \in DOMAIN children[current], ReapStep(i)
          PROVE  /\ \A c \in Procs \ {init} : Used(c)' => Used(c)
                 /\ \A p \in Procs \ {init} : Kids(p)' \subseteq Kids(p)
      BY <1>0, <3>4, ReapEffect
    <3>5. CASE ReadReturns \/ TrapPanics \/ sys_exec \/ UNCHANGED vars
      BY <3>5 DEF ReadReturns, TrapPanics, sys_exec, vars, Kids
    <3>6. CASE ExitToScheduler \/ ExitWithChildren
      BY <1>0, <3>6, HolderIsCurrent
         DEF ExitToScheduler, ExitWithChildren, At, IInv, Kids
    <3>7. CASE ReparentTurn
      BY <3>7, ReparentEffect
    <3> QED
      BY <1>c, <3>1, <3>2, <3>3, <3>4, <3>5, <3>6, <3>7, StepCases
  <2> QED  BY <1>0, <1>c, <2>1, RootedKept
<1> QED  BY <1>a, <1>b, <1>c

-----------------------------------------------------------------------------
(* The pid bitmap                                                          *)

\* A step that leaves pid and pids alone leaves the bitmap exact.
LEMMA PidStep ==
    ASSUME IInv, [Next]_vars
    PROVE  PidsExact'
<1> USE ProcessAssumption DEF PidsExact, Pcb, Pids, NoPid
<1>0. /\ PidsExact /\ FreeBlocksClean
      /\ pid \in [Pcb -> Pids \cup {NoPid}]
  BY DEF IInv, TypeOK
<1>1. CASE UNCHANGED <<pid, pids>>
  BY <1>0, <1>1
<1>2. CASE sys_fork
  <2>1. PICK child \in Procs, n \in Pids \cup {NoPid} :
           /\ state[child] = "Unused"
           /\ alloc_pid(n)
           /\ pid' = [pid EXCEPT ![child] = n]
           /\ pids' = pids \cup ({n} \ {NoPid})
    BY <1>2, ForkEffect
  <2>2. pid[child] = NoPid
    BY <1>0, <2>1 DEF FreeBlocksClean, Used
  <2>3. n # NoPid => n \notin pids
    BY <2>1 DEF alloc_pid
  <2>4. pid'[child] = n /\ \A p \in Pcb \ {child} : pid'[p] = pid[p]
    BY <1>0, <2>1
  <2>5. n # NoPid => \A p \in Pcb : pid[p] # n
    BY <1>0, <2>3
  <2>6. \A p, q \in Pcb : pid'[p] = pid'[q] /\ pid'[p] # NoPid => p = q
    BY <1>0, <2>4, <2>5
  <2>7. pids' = {pid'[p] : p \in Pcb} \ {NoPid}
    BY <1>0, <2>1, <2>2, <2>4
  <2> QED  BY <2>6, <2>7
<1>3. ASSUME NEW i \in DOMAIN children[current], ReapStep(i)
      PROVE  PidsExact'
  <2>1. PICK child \in Procs :
           \/ UNCHANGED <<pid, pids>>
           \/ /\ pid[child] # NoPid
              /\ pids' = pids \ {pid[child]}
              /\ pid' = [pid EXCEPT ![child] = NoPid]
    BY <1>3, ReapEffect
  <2>2. CASE UNCHANGED <<pid, pids>>
    BY <1>0, <2>2
  <2>3. CASE /\ pid[child] # NoPid
             /\ pids' = pids \ {pid[child]}
             /\ pid' = [pid EXCEPT ![child] = NoPid]
    <3>1. pid'[child] = NoPid /\ \A p \in Pcb \ {child} : pid'[p] = pid[p]
      BY <1>0, <2>3
    <3>2. \A p \in Pcb \ {child} : pid[p] # pid[child]
      BY <1>0, <2>3
    <3>3. \A p, q \in Pcb : pid'[p] = pid'[q] /\ pid'[p] # NoPid => p = q
      BY <1>0, <3>1
    <3>4. pids' = {pid'[p] : p \in Pcb} \ {NoPid}
      BY <1>0, <2>3, <3>1, <3>2
    <3> QED  BY <3>3, <3>4
  <2> QED  BY <2>1, <2>2, <2>3
<1>4. CASE Dispatch \/ ScheduleReturns \/ ReadReturns \/ TrapPanics \/ sys_exec
  BY <1>1, <1>4 DEF Dispatch, ScheduleReturns, ReadReturns, TrapPanics, sys_exec
<1>5. CASE ExitToScheduler \/ ExitWithChildren \/ ReparentTurn \/ UNCHANGED vars
  BY <1>1, <1>5 DEF ExitToScheduler, ExitWithChildren, ReparentTurn, vars
<1>6. ASSUME NEW k \in {"user", "wait", "read"}, YieldStep(k)
      PROVE  PidsExact'
  BY <1>1, <1>6 DEF YieldStep
<1> QED  BY <1>2, <1>3, <1>4, <1>5, <1>6, StepCases

-----------------------------------------------------------------------------
(* The invariant                                                           *)

\* init_process() establishes the invariant.
LEMMA InitInv == Init => IInv
<1> SUFFICES ASSUME Init  PROVE  IInv
  OBVIOUS
<1> USE ProcessAssumption DEF Init, Pcb, Pids, NoPid
<1>1. TypeOK
  BY DEF TypeOK, new_kernel_memory_map, NoMap
<1>2. runq = <<init>> /\ ToSet(runq) = {init} /\ IsInjective(runq)
  BY DEF ToSet, IsInjective
<1>3. RunQueueExact
  BY <1>2 DEF RunQueueExact
<1>4. CurrentHoldsHart /\ FreeBlocksClean /\ InitStays /\ Reparenting
  BY DEF CurrentHoldsHart, FreeBlocksClean, InitStays, Reparenting, Used
<1>5. \A p \in Procs : ToSet(children[p]) = {} /\ IsInjective(children[p])
  BY DEF ToSet, IsInjective
<1>6. \A c \in Procs \ {init} : ~Used(c)
  BY DEF Used
<1>7. OneParent /\ RootedAtInit
  BY <1>5, <1>6 DEF OneParent, RootedAtInit
<1>8. NoDeadParent /\ WaiterHasChild
  BY DEF NoDeadParent, WaiterHasChild
<1>9. PidsExact
  <2>1. pid[idle] = 0 /\ pid[init] = 1 /\ \A p \in Procs \ {init} : pid[p] = -1
    OBVIOUS
  <2>2. \A p \in Pcb : p \in {idle, init} \/ p \in Procs \ {init}
    OBVIOUS
  <2>3. \A p, q \in Pcb : pid[p] = pid[q] /\ pid[p] # NoPid => p = q
    BY <2>1, <2>2
  <2>4. {0, 1} = {pid[p] : p \in Pcb} \ {NoPid}
    <3>1. ASSUME NEW n \in {pid[p] : p \in Pcb} \ {NoPid}  PROVE  n \in {0, 1}
      <4>1. PICK p \in Pcb : n = pid[p]
        BY <3>1
      <4> QED  BY <2>1, <2>2, <3>1, <4>1
    <3>2. idle \in Pcb /\ init \in Pcb /\ 0 # NoPid /\ 1 # NoPid
      OBVIOUS
    <3>3. 0 \in {pid[p] : p \in Pcb} /\ 1 \in {pid[p] : p \in Pcb}
      BY <2>1, <3>2
    <3> QED  BY <3>1, <3>2, <3>3
  <2> QED  BY <2>3, <2>4 DEF PidsExact
<1> QED  BY <1>1, <1>3, <1>4, <1>7, <1>8, <1>9 DEF IInv

\* Every step preserves the invariant.
LEMMA StepInv == IInv /\ [Next]_vars => IInv'
  BY TypeStep, QueueStep, BlocksStep, ParentStep, DeadParentStep, WaiterStep,
     ReparentingStep, RootedStep, PidStep DEF IInv

\* No reachable state leaves the inductive invariant.
THEOREM Invariance == Spec => []IInv
  BY InitInv, StepInv, PTL DEF Spec

-----------------------------------------------------------------------------
(* What holds of every execution                                           *)

\* The process table, the queue and the hart keep their types.
THEOREM TypeCorrect == Spec => []TypeOK
<1>1. IInv => TypeOK
  BY DEF IInv
<1> QED  BY <1>1, Invariance, PTL

\* The scheduling queue holds the Ready processes, each of them once.
THEOREM QueueIsExact == Spec => []RunQueueExact
<1>1. IInv => RunQueueExact
  BY DEF IInv
<1> QED  BY <1>1, Invariance, PTL

\* Whoever holds the hart is the process `current` names.
THEOREM OneRunner == Spec => []CurrentHoldsHart
<1>1. IInv => CurrentHoldsHart
  BY DEF IInv
<1> QED  BY <1>1, Invariance, PTL

\* fork, wait and exit keep every process on exactly one children list, all
\* of them below init, and none below a dead process but init.
THEOREM FamilyTree == Spec => []Families
<1>1. IInv => Families
  BY DEF IInv, Families
<1> QED  BY <1>1, Invariance, PTL

\* The flag of sys_wait(), which nothing clears, never outlives the last child.
THEOREM FlagIsHarmless == Spec => []WaiterHasChild
<1>1. IInv => WaiterHasChild
  BY DEF IInv
<1> QED  BY <1>1, Invariance, PTL

\* The pid bitmap is exact, also when it is full.
THEOREM BitmapIsExact == Spec => []PidsExact
<1>1. IInv => PidsExact
  BY DEF IInv
<1> QED  BY <1>1, Invariance, PTL

\* A process table entry changes only at the hand of whoever holds the hart.
THEOREM StateIsOwned == Spec => OwnStateOnly
<1>1. IInv /\ [Next]_vars => [OwnState]_vars
  <2> SUFFICES ASSUME IInv, [Next]_vars  PROVE  OwnState
    OBVIOUS
  <2> USE ProcessAssumption DEF OwnState, Pcb
  <2>0. /\ state \in [Pcb -> {"Unused", "Ready", "Running", "Exited"}]
        /\ children \in [Procs -> Seq(Procs)]
        /\ cpu # idle => current = cpu
    BY DEF IInv, TypeOK, CurrentHoldsHart
  <2>1. CASE Dispatch
    BY <2>0, <2>1, DispatchEffect
  <2>2. CASE ScheduleReturns
    BY <2>0, <2>2 DEF ScheduleReturns
  <2>3. ASSUME NEW k \in {"user", "wait", "read"}, YieldStep(k)  PROVE  OwnState
    BY <2>0, <2>3, YieldEffect
  <2>4. ASSUME NEW i \in DOMAIN children[current], ReapStep(i)  PROVE  OwnState
    BY <2>0, <2>4, ReapEffect DEF Kids, Zombie
  <2>5. CASE ReadReturns \/ TrapPanics \/ sys_exec \/ UNCHANGED vars
    BY <2>5 DEF ReadReturns, TrapPanics, sys_exec, vars
  <2>6. CASE sys_fork
    <3>1. PICK child \in Procs :
             /\ current \in Procs /\ current = cpu
             /\ state[child] = "Unused"
             /\ state' = [state EXCEPT ![child] = "Ready"]
             /\ children' = list_add(children, current, child)
      BY <2>6, ForkEffect
    <3>2. children'[cpu] = <<child>> \o children[cpu]
      BY <2>0, <3>1 DEF list_add
    <3>3. Head(children'[cpu]) = child
      <4>1. children[cpu] \in Seq(Procs) /\ <<child>> \in Seq(Procs)
        BY <2>0, <3>1
      <4> QED  BY <3>2, <4>1, ConcatProperties
    <3> QED  BY <2>0, <3>1, <3>3
  <2>7. CASE ExitToScheduler \/ ExitWithChildren
    BY <2>0, <2>7, HolderIsCurrent
       DEF ExitToScheduler, ExitWithChildren, At, IInv
  <2>8. CASE ReparentTurn
    BY <2>8 DEF ReparentTurn
  <2> QED  BY <2>1, <2>2, <2>3, <2>4, <2>5, <2>6, <2>7, <2>8, StepCases
<1> QED  BY <1>1, Invariance, PTL DEF Spec, OwnStateOnly

-----------------------------------------------------------------------------
(* What the size of the table and the shipped programs add                 *)

\* With more pids than process blocks alloc_pid() never fails.  (The kernel has
\* 1024 pids; its memory holds the page tables of fewer than 500 processes.)
THEOREM BitmapSuffices ==
    ASSUME IsFiniteSet(Procs), MaxPid > Cardinality(Procs)
    PROVE  Spec => []PidsSuffice
<1> USE ProcessAssumption DEF PidsSuffice, Used
<1>1. Init => PidsSuffice
  BY DEF Init, Pcb, NoPid
<1>2. IInv /\ PidsSuffice /\ [Next]_vars => PidsSuffice'
  <2> SUFFICES ASSUME IInv, PidsSuffice, [Next]_vars  PROVE  PidsSuffice'
    OBVIOUS
  <2>0. /\ state \in [Pcb -> {"Unused", "Ready", "Running", "Exited"}]
        /\ pid \in [Pcb -> Pids \cup {NoPid}]
        /\ Procs \subseteq Pcb /\ idle \notin Procs
    BY DEF IInv, TypeOK, Pcb
  <2>1. CASE Dispatch
    BY <2>0, <2>1, DispatchEffect
  <2>2. CASE ScheduleReturns
    BY <2>0, <2>2 DEF ScheduleReturns
  <2>3. ASSUME NEW k \in {"user", "wait", "read"}, YieldStep(k)
        PROVE  PidsSuffice'
    BY <2>0, <2>3, YieldEffect
  <2>4. ASSUME NEW i \in DOMAIN children[current], ReapStep(i)
        PROVE  PidsSuffice'
    BY <2>0, <2>4, ReapEffect
  <2>5. CASE ReadReturns \/ TrapPanics \/ sys_exec \/ ReparentTurn
             \/ UNCHANGED vars
    BY <2>5 DEF ReadReturns, TrapPanics, sys_exec, ReparentTurn, vars
  <2>6. CASE ExitToScheduler \/ ExitWithChildren
    BY <2>0, <2>6, HolderIsCurrent
       DEF ExitToScheduler, ExitWithChildren, At, IInv
  <2>7. CASE sys_fork
    <3>1. PICK child \in Procs, n \in Pids \cup {NoPid} :
             /\ state[child] = "Unused"
             /\ alloc_pid(n)
             /\ pid' = [pid EXCEPT ![child] = n]
             /\ state' = [state EXCEPT ![child] = "Ready"]
      BY <2>7, ForkEffect
    <3>2. n # NoPid
      <4> SUFFICES ASSUME pids = Pids  PROVE  FALSE
        BY <3>1 DEF alloc_pid
      <4> DEFINE S == Pcb \ {child}
                 T == {pid[p] : p \in S}
                 f == [p \in S |-> pid[p]]
      <4>1. pid[child] = NoPid
        BY <3>1 DEF IInv, FreeBlocksClean
      <4>2. Pids \subseteq T
        BY <2>0, <4>1 DEF IInv, PidsExact
      <4>3. IsFiniteSet(S) /\ Cardinality(S) = Cardinality(Procs)
        <5>1. IsFiniteSet(Pcb) /\ Cardinality(Pcb) = Cardinality(Procs) + 1
          BY FS_AddElement DEF Pcb
        <5>2. Cardinality(Procs) \in Nat
          BY FS_CardinalityType
        <5>3. child \in Pcb
          BY <2>0, <3>1
        <5>4. /\ IsFiniteSet(Pcb \ {child})
              /\ Cardinality(Pcb \ {child}) = Cardinality(Pcb) - 1
          BY <5>1, <5>3, FS_RemoveElement
        <5> QED  BY <5>1, <5>2, <5>4
      <4>4. f \in Surjection(S, T)
        BY DEF Surjection
      <4>5. IsFiniteSet(T) /\ Cardinality(T) <= Cardinality(S)
        <5> HIDE DEF S, T, f
        <5> QED  BY <4>3, <4>4, FS_Surjection
      <4>6. Cardinality(Pids) = MaxPid
        BY FS_Interval DEF Pids
      <4>7. Cardinality(Pids) <= Cardinality(T) /\ Cardinality(T) \in Nat
        <5> HIDE DEF S, T, f
        <5> QED  BY <4>2, <4>5, FS_Subset, FS_CardinalityType
      <4>8. Cardinality(Procs) \in Nat
        BY FS_CardinalityType
      <4> HIDE DEF S, T, f
      <4> QED  BY <4>3, <4>5, <4>6, <4>7, <4>8
    <3> QED  BY <2>0, <3>1, <3>2
  <2> QED  BY <2>1, <2>2, <2>3, <2>4, <2>5, <2>6, <2>7, StepCases
<1> QED  BY <1>1, <1>2, Invariance, PTL DEF Spec

\* With the programs the repository ships no exit enters the endless loop and
\* no process is switched to without the kernel in its page table.
THEOREM ShippedInvariance ==
    ASSUME Shipped
    PROVE  Spec => []ShippedInv
<1> USE ProcessAssumption
      DEF ShippedInv, KernelMapped, NeverStuck, Used, Zombie, Pcb
<1>1. Init => ShippedInv
  BY DEF Init, new_kernel_memory_map
<1>2. IInv /\ ShippedInv /\ [Next]_vars => ShippedInv'
  <2> SUFFICES ASSUME IInv, ShippedInv, [Next]_vars  PROVE  ShippedInv'
    OBVIOUS
  <2>0. /\ state \in [Pcb -> {"Unused", "Ready", "Running", "Exited"}]
        /\ mm \in [Procs -> [segs : BOOLEAN, mapped : BOOLEAN]]
        /\ children \in [Procs -> Seq(Procs)]
    BY DEF IInv, TypeOK
  <2>1. CASE Dispatch
    BY <2>0, <2>1, DispatchEffect
  <2>2. CASE ScheduleReturns
    BY <2>0, <2>2 DEF ScheduleReturns
  <2>3. ASSUME NEW k \in {"user", "wait", "read"}, YieldStep(k)
        PROVE  ShippedInv'
    BY <2>0, <2>3, YieldEffect
  <2>4. ASSUME NEW i \in DOMAIN children[current], ReapStep(i)
        PROVE  ShippedInv'
    <3>1. PICK child \in Procs :
             /\ current \in Procs /\ state[current] = "Running"
             /\ state[child] = "Exited" /\ child # current
             /\ \A q \in Procs \ {current} : children'[q] = children[q]
             /\ \/ mode' = "panic" /\ UNCHANGED <<state, mm>>
                \/ /\ state' = [state EXCEPT ![child] = "Unused"]
                   /\ mm' = [mm EXCEPT ![child] = NoMap]
                   /\ UNCHANGED mode
      BY <2>4, ReapEffect
    <3>2. \A p \in Procs : /\ state'[p] = state[p] /\ mm'[p] = mm[p]
                           \/ state'[p] = "Unused"
      BY <2>0, <3>1
    <3>3. state'[current] = "Running"
      BY <2>0, <3>1
    <3>4. \A p \in Procs : Zombie(p)' => children'[p] = <<>>
      BY <3>1, <3>2, <3>3
    <3>5. KernelMapped' /\ NeverStuck'
      BY <3>1, <3>2
    <3> QED  BY <3>4, <3>5
  <2>5. CASE ReadReturns \/ TrapPanics \/ UNCHANGED vars
    BY <2>5 DEF ReadReturns, TrapPanics, vars
  <2>6. CASE sys_exec
    BY <2>0, <2>6, HolderIsCurrent DEF sys_exec, At, IInv, new_kernel_memory_map
  <2>7. CASE sys_fork
    <3>1. mm[current].segs
      BY <2>7 DEF sys_fork, MayFork
    <3>2. PICK child \in Procs :
             /\ current \in Procs /\ state[current] = "Running"
             /\ state' = [state EXCEPT ![child] = "Ready"]
             /\ mm' = [mm EXCEPT ![child] = copy_mm(mm[current])]
             /\ children' = list_add(children, current, child)
             /\ child # current
             /\ UNCHANGED mode
      BY <2>7, ForkEffect
    <3>3. copy_mm(mm[current]).mapped
      BY <3>1 DEF copy_mm
    <3>4. \A p \in Procs : p # current => children'[p] = children[p]
      BY <2>0, <3>2 DEF list_add
    <3> QED  BY <2>0, <3>2, <3>3, <3>4
  <2>8. CASE ExitToScheduler \/ ExitWithChildren
    BY <2>0, <2>8, HolderIsCurrent
       DEF ExitToScheduler, ExitWithChildren, MayExit, At, IInv
  <2>9. CASE ReparentTurn
    BY <2>9 DEF ReparentTurn
  <2> QED  BY <2>1, <2>2, <2>3, <2>4, <2>5, <2>6, <2>7, <2>8, <2>9, StepCases
<1> QED  BY <1>1, <1>2, Invariance, PTL DEF Spec

\* The shipped programs lead the kernel neither into the endless loop of
\* exit_current() nor to a page table without the kernel.
THEOREM ShippedNeverStuck ==
    ASSUME Shipped
    PROVE  Spec => []NeverStuck
<1>1. ShippedInv => NeverStuck
  BY DEF ShippedInv
<1> QED  BY <1>1, ShippedInvariance, PTL

\* When the machine is switched off under the shipped programs, init waited for
\* every process there was.
THEOREM ShippedShutdown ==
    ASSUME Shipped
    PROVE  Spec => []ShutdownReapedAll
<1>1. IInv /\ ShippedInv => ShutdownReapedAll
  <2> SUFFICES ASSUME IInv, ShippedInv, mode = "shutdown"
               PROVE  /\ state[init] = "Exited"
                      /\ \A p \in Procs \ {init} : ~Used(p)
                      /\ pids = {pid[idle], pid[init]}
    BY DEF ShutdownReapedAll
  <2> USE ProcessAssumption DEF Pcb, Used, Zombie
  <2>1. cpu = idle /\ \A p \in Procs : state[p] # "Ready"
    <3>1. ToSet(runq) = {}
      BY DEF IInv, InitStays, ToSet
    <3> QED  BY <3>1 DEF IInv, InitStays, RunQueueExact
  <2>2. \A p \in Procs : Used(p) => state[p] = "Exited"
    BY <2>1 DEF IInv, CurrentHoldsHart, TypeOK
  <2>3. \A p \in Procs : children[p] = <<>>
    BY <2>1, <2>2 DEF IInv, InitStays, ShippedInv, NoDeadParent
  <2>4. \A p \in Procs : ToSet(children[p]) = {}
    BY <2>3 DEF ToSet
  <2>5. \A p \in Procs \ {init} : ~Used(p)
    BY <2>4 DEF IInv, OneParent
  <2>6. state[init] = "Exited"
    BY <2>2 DEF IInv, InitStays
  <2>7. \A p \in Procs \ {init} : pid[p] = NoPid
    BY <2>5 DEF IInv, FreeBlocksClean
  <2>8. pid[idle] # NoPid /\ pid[init] # NoPid
    BY DEF IInv, InitStays, NoPid
  <2>9. pids = {pid[idle], pid[init]}
    BY <2>7, <2>8 DEF IInv, PidsExact
  <2> QED  BY <2>5, <2>6, <2>9
<1> QED  BY <1>1, Invariance, ShippedInvariance, PTL
=============================================================================
