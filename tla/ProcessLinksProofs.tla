------------------------- MODULE ProcessLinksProofs -------------------------
(***************************************************************************)
(* Theorems about the lists of process.c, for every number of processes.   *)
(* Up: the children lists stand for a tree, and Process implements         *)
(* ProcTree.  Down: the list.h calls of every step leave pointers that     *)
(* spell the queue and the families.  A circle of pointers is described by *)
(* index (Loop); list_add(), list_add_tail() and list_del() are shown to   *)
(* turn the circle of a list into that of the new list and to store        *)
(* nothing elsewhere; six lemmas on what process.c does with them, stated  *)
(* on any queue and any families, then carry every step.                   *)
(***************************************************************************)
EXTENDS ProcessLinks, ProcessProofs

-----------------------------------------------------------------------------
(* Process implements ProcTree                                             *)

\* The mapping finds the one list a process is on.
LEMMA ParentFound ==
    ASSUME NEW families, NEW c, NEW p \in Procs, c \in ToSet(families[p]),
           \A q \in Procs : q # p => c \notin ToSet(families[q])
    PROVE  ParentIn(families, c) = p
  BY DEF ParentIn

\* A process on no children list has no parent.
LEMMA NoParentFound ==
    ASSUME NEW families, NEW c, \A p \in Procs : c \notin ToSet(families[p])
    PROVE  ParentIn(families, c) = NULL
  BY DEF ParentIn

\* A family whose list loses or gains nothing of c leaves c's parent alone.
LEMMA ParentKept ==
    ASSUME NEW f, NEW g, NEW c,
           \A p \in Procs : c \in ToSet(f[p]) <=> c \in ToSet(g[p])
    PROVE  ParentIn(f, c) = ParentIn(g, c)
  BY DEF ParentIn

\* init_process() creates a tree with a root and nothing else.
LEMMA TreeInit == Init => Tree!Init
<1> SUFFICES ASSUME Init  PROVE  Tree!Init
  OBVIOUS
<1> USE ProcessAssumption DEF Init, Pcb
<1>1. Alive = {init} /\ Zombies = {}
  BY DEF Alive, Zombies, Zombie
<1>2. \A p \in Procs : ToSet(children[p]) = {}
  BY DEF ToSet
<1>3. \A c \in Procs : ParentIn(children, c) = NULL
  BY <1>2, NoParentFound
<1> QED  BY <1>1, <1>3 DEF Tree!Init, Parent

\* Parents change with the children lists only.
LEMMA ParentUnchanged ==
    ASSUME UNCHANGED children
    PROVE  UNCHANGED Parent
  BY DEF Parent

\* sys_fork() is Fork.
LEMMA TreeFork ==
    ASSUME IInv, sys_fork
    PROVE  \E p, c \in Procs : Tree!Fork(p, c)
<1> USE ProcessAssumption DEF Pcb
<1>0. state \in [Pcb -> {"Unused", "Ready", "Running", "Exited"}]
  BY DEF IInv, TypeOK
<1>1. PICK child \in Procs :
         /\ current \in Procs /\ state[current] = "Running"
         /\ state[child] = "Unused" /\ child # current
         /\ \A q \in Procs : child \notin Kids(q)
         /\ state' = [state EXCEPT ![child] = "Ready"]
         /\ \A q \in Procs :
               Kids(q)' = IF q = current THEN Kids(q) \cup {child} ELSE Kids(q)
  BY ForkEffect
<1>2. current \in Alive /\ child \notin Alive \cup Zombies
  BY <1>1 DEF Alive, Zombies, Zombie
<1>3. Alive' = Alive \cup {child} /\ Zombies' = Zombies
  BY <1>0, <1>1 DEF Alive, Zombies, Zombie
<1>4. ParentIn(children', child) = current
  <2>1. child \in ToSet(children'[current])
    BY <1>1 DEF Kids
  <2>2. \A q \in Procs : q # current => child \notin ToSet(children'[q])
    BY <1>1 DEF Kids
  <2> QED  BY <1>1, <2>1, <2>2, ParentFound
<1>5. ASSUME NEW c \in Procs \ {child}
      PROVE  ParentIn(children', c) = ParentIn(children, c)
  <2>1. \A q \in Procs : c \in ToSet(children'[q]) <=> c \in ToSet(children[q])
    BY <1>1 DEF Kids
  <2> QED  BY <2>1, ParentKept
<1>6. Parent' = [Parent EXCEPT ![child] = current]
  BY <1>4, <1>5 DEF Parent
<1> QED  BY <1>1, <1>2, <1>3, <1>6 DEF Tree!Fork

\* Either way into exit_current() is Exit.
LEMMA TreeExit ==
    ASSUME IInv, ExitToScheduler \/ ExitWithChildren
    PROVE  \E p \in Procs : Tree!Exit(p)
<1> USE ProcessAssumption DEF Pcb
<1>1. /\ current \in Procs /\ state[current] = "Running"
      /\ state' = [state EXCEPT ![current] = "Exited"]
      /\ UNCHANGED children
  BY HolderIsCurrent DEF IInv, ExitToScheduler, ExitWithChildren, At
<1>2. state \in [Pcb -> {"Unused", "Ready", "Running", "Exited"}]
  BY DEF IInv, TypeOK
<1>3. current \in Alive
  BY <1>1 DEF Alive
<1>4. Alive' = Alive \ {current} /\ Zombies' = Zombies \cup {current}
  BY <1>1, <1>2 DEF Alive, Zombies, Zombie
<1> QED  BY <1>1, <1>3, <1>4, ParentUnchanged DEF Tree!Exit

\* Freeing a child in sys_wait() is Reap.
LEMMA TreeReap ==
    ASSUME IInv, PidsSuffice, NEW i \in DOMAIN children[current], ReapStep(i)
    PROVE  \E p, c \in Procs : Tree!Reap(p, c)
<1> USE ProcessAssumption DEF Pcb
<1>0. state \in [Pcb -> {"Unused", "Ready", "Running", "Exited"}]
  BY DEF IInv, TypeOK
<1>1. PICK child \in Procs :
         /\ current \in Procs
         /\ state[current] = "Running" /\ state[child] = "Exited"
         /\ child \in Kids(current)
         /\ children[child] = <<>>
         /\ \A q \in Procs : Kids(q)' = Kids(q) \ {child}
         /\ \/ pid[child] = NoPid
            \/ state' = [state EXCEPT ![child] = "Unused"]
  BY ReapEffect
<1>2. state' = [state EXCEPT ![child] = "Unused"]
  BY <1>1 DEF PidsSuffice, Used
<1>3. current \in Alive /\ child \in Zombies
  BY <1>1 DEF Alive, Zombies, Zombie
<1>4. Alive' = Alive /\ Zombies' = Zombies \ {child}
  BY <1>0, <1>1, <1>2 DEF Alive, Zombies, Zombie
<1>5. \A q \in Procs : q # current => child \notin Kids(q)
  BY <1>1 DEF IInv, OneParent, Kids
<1>6. ParentIn(children, child) = current
  BY <1>1, <1>5, ParentFound DEF Kids
<1>7. ASSUME NEW d \in Procs  PROVE  ParentIn(children, d) # child
  <2>1. Kids(child) = {}
    BY <1>1, KidsFacts DEF IInv
  <2>2. CASE \E q \in Procs : d \in Kids(q)
    <3>1. PICK q \in Procs : d \in Kids(q)
      BY <2>2
    <3>2. \A r \in Procs : r # q => d \notin Kids(r)
      BY <3>1 DEF IInv, OneParent, Kids
    <3>3. ParentIn(children, d) = q
      BY <3>1, <3>2, ParentFound DEF Kids
    <3> QED  BY <2>1, <3>1, <3>3
  <2>3. CASE \A q \in Procs : d \notin Kids(q)
    <3>1. ParentIn(children, d) = NULL
      BY <2>3, NoParentFound DEF Kids
    <3> QED  BY <3>1
  <2> QED  BY <2>2, <2>3
<1>8. ParentIn(children', child) = NULL
  BY <1>1, NoParentFound DEF Kids
<1>9. ASSUME NEW c \in Procs \ {child}
      PROVE  ParentIn(children', c) = ParentIn(children, c)
  <2>1. \A q \in Procs : c \in ToSet(children'[q]) <=> c \in ToSet(children[q])
    BY <1>1 DEF Kids
  <2> QED  BY <2>1, ParentKept
<1>10. Parent' = [Parent EXCEPT ![child] = NULL]
  BY <1>8, <1>9 DEF Parent
<1> QED  BY <1>1, <1>3, <1>4, <1>6, <1>7, <1>10 DEF Tree!Reap, Parent

\* A turn of the loop of exit_current() is Adopt, or moves a child of init.
LEMMA TreeAdopt ==
    ASSUME IInv, ReparentTurn
    PROVE  (\E c \in Procs : Tree!Adopt(c)) \/ UNCHANGED <<Alive, Zombies, Parent>>
<1> USE ProcessAssumption DEF Pcb
<1>1. /\ mode = "reparent" /\ cpu \in Procs \ {init} /\ pos \in Procs
      /\ pos \in Kids(cpu) \cup Kids(init)
      /\ \A q \in Procs :
            Kids(q)' = IF q = init THEN Kids(q) \cup {pos} ELSE Kids(q) \ {pos}
      /\ UNCHANGED state
  BY ReparentEffect
<1>2. Alive' = Alive /\ Zombies' = Zombies
  BY <1>1 DEF Alive, Zombies, Zombie
<1>3. cpu \in Zombies
  BY <1>1 DEF Zombies, Zombie, IInv, CurrentHoldsHart
<1>4. ParentIn(children', pos) = init
  <2>1. pos \in ToSet(children'[init])
    BY <1>1 DEF Kids
  <2>2. \A q \in Procs : q # init => pos \notin ToSet(children'[q])
    BY <1>1 DEF Kids
  <2> QED  BY <2>1, <2>2, ParentFound
<1>5. ASSUME NEW c \in Procs \ {pos}
      PROVE  ParentIn(children', c) = ParentIn(children, c)
  <2>1. \A q \in Procs : c \in ToSet(children'[q]) <=> c \in ToSet(children[q])
    BY <1>1 DEF Kids
  <2> QED  BY <2>1, ParentKept
<1>6. Parent' = [Parent EXCEPT ![pos] = init]
  BY <1>4, <1>5 DEF Parent
<1>7. CASE pos \in Kids(cpu)
  <2>1. \A q \in Procs : q # cpu => pos \notin Kids(q)
    BY <1>1, <1>7 DEF IInv, OneParent, Kids
  <2>2. ParentIn(children, pos) = cpu
    BY <1>1, <1>7, <2>1, ParentFound DEF Kids
  <2>3. Parent[pos] \in Zombies \ {init}
    BY <1>1, <1>3, <2>2 DEF Parent
  <2> QED  BY <1>1, <1>2, <1>6, <2>3 DEF Tree!Adopt
<1>8. CASE pos \in Kids(init)
  <2>1. \A q \in Procs : q # init => pos \notin Kids(q)
    BY <1>8 DEF IInv, OneParent, Kids
  <2>2. ParentIn(children, pos) = init
    BY <1>8, <2>1, ParentFound DEF Kids
  <2>3. Parent' = Parent
    BY <1>6, <2>2 DEF Parent
  <2> QED  BY <1>2, <2>3
<1> QED  BY <1>1, <1>7, <1>8

\* Every step is a step of the tree or none.
LEMMA TreeStep ==
    ASSUME IInv, PidsSuffice, [Next]_vars
    PROVE  [Tree!Next]_Tree!vars
<1> USE ProcessAssumption DEF Pcb
<1>0. /\ state \in [Pcb -> {"Unused", "Ready", "Running", "Exited"}]
      /\ cpu # idle => current = cpu
  BY DEF IInv, TypeOK, CurrentHoldsHart
<1>1. CASE /\ UNCHANGED children
           /\ \A p \in Procs :
                 \/ state'[p] = state[p]
                 \/ {state[p], state'[p]} = {"Ready", "Running"}
  <2>1. Alive' = Alive /\ Zombies' = Zombies
    BY <1>1 DEF Alive, Zombies, Zombie
  <2> QED  BY <1>1, <2>1, ParentUnchanged DEF Tree!vars
<1>2. CASE Dispatch
  BY <1>0, <1>1, <1>2, DispatchEffect
<1>3. CASE ScheduleReturns
  BY <1>0, <1>1, <1>3 DEF ScheduleReturns
<1>4. ASSUME NEW k \in {"user", "wait", "read"}, YieldStep(k)
      PROVE  [Tree!Next]_Tree!vars
  BY <1>0, <1>1, <1>4, YieldEffect
<1>5. ASSUME NEW i \in DOMAIN children[current], ReapStep(i)
      PROVE  [Tree!Next]_Tree!vars
  BY <1>5, TreeReap DEF Tree!Next
<1>6. CASE ReadReturns \/ TrapPanics \/ sys_exec \/ UNCHANGED vars
  BY <1>1, <1>6 DEF ReadReturns, TrapPanics, sys_exec, vars
<1>7. CASE sys_fork
  BY <1>7, TreeFork DEF Tree!Next
<1>8. CASE ExitToScheduler \/ ExitWithChildren
  BY <1>8, TreeExit DEF Tree!Next
<1>9. CASE ReparentTurn
  BY <1>9, TreeAdopt DEF Tree!Next, Tree!vars
<1> QED
  BY <1>2, <1>3, <1>4, <1>5, <1>6, <1>7, <1>8, <1>9, StepCases

\* fork, wait and exit, with their queue, lists and loops, implement the tree.
THEOREM Refinement ==
    ASSUME IsFiniteSet(Procs), MaxPid > Cardinality(Procs)
    PROVE  Spec => ImplementsTree
<1>1. Spec => []PidsSuffice
  BY BitmapSuffices
<1>2. IInv /\ PidsSuffice /\ [Next]_vars => [Tree!Next]_Tree!vars
  BY TreeStep
<1> QED
  BY <1>1, <1>2, TreeInit, Invariance, PTL DEF Spec, ImplementsTree, Tree!Spec

-----------------------------------------------------------------------------
(* The functions of list.h on a circle                                     *)

Pointers == [Nodes -> Nodes \cup {NULL}]
Memory == [next : Pointers, prev : Pointers]

\* The node of the i-th process of s on the circle of head; node 0 is head.
Node(head, k, s, i) == IF i = 0 THEN head ELSE <<k, s[i]>>

\* The circle of head goes through the heads of kind k of the processes s.
Loop(m, head, k, s) ==
    \A i \in 0 .. Len(s) :
        LET j == IF i = Len(s) THEN 0 ELSE i + 1 IN
        /\ m.next[Node(head, k, s, i)] = Node(head, k, s, j)
        /\ m.prev[Node(head, k, s, j)] = Node(head, k, s, i)

\* A head that points to itself.
Alone(m, e) == m.next[e] = e /\ m.prev[e] = e

\* n is on that circle.
On(n, head, k, s) == n = head \/ \E q \in ToSet(s) : n = <<k, q>>

\* The memories m and l differ on that circle at most, or elsewhere at most.
Elsewhere(m, l, head, k, s) ==
    \A n \in Nodes : ~On(n, head, k, s) => l.next[n] = m.next[n] /\ l.prev[n] = m.prev[n]
Kept(m, l, head, k, s) ==
    \A n \in Nodes : On(n, head, k, s) => l.next[n] = m.next[n] /\ l.prev[n] = m.prev[n]

LEMMA LoopIs ==
    ASSUME NEW m, NEW head, NEW k, NEW s \in Seq(Procs)
    PROVE  L!Circle(m, head, [i \in DOMAIN s |-> <<k, s[i]>>]) <=> Loop(m, head, k, s)
<1> DEFINE e == [i \in DOMAIN s |-> <<k, s[i]>>]
           nodes == <<head>> \o e
           N == Len(s)
           C(i) == LET next == nodes[(i % Len(nodes)) + 1]
                   IN  m.next[nodes[i]] = next /\ m.prev[next] = nodes[i]
           D(i) == LET j == IF i = N THEN 0 ELSE i + 1
                   IN  /\ m.next[Node(head, k, s, i)] = Node(head, k, s, j)
                       /\ m.prev[Node(head, k, s, j)] = Node(head, k, s, i)
<1>1. N \in Nat /\ DOMAIN s = 1 .. N BY LenProperties
<1>2. e \in Seq({<<k, q>> : q \in Procs}) /\ Len(e) = N /\ \A i \in 1 .. N : e[i] = <<k, s[i]>>
  <2>1. \A i \in 1 .. N : s[i] \in Procs BY ElementOfSeq
  <2>2. e = [i \in 1 .. N |-> <<k, s[i]>>] BY <1>1
  <2> HIDE DEF e
  <2> QED BY <1>1, <2>1, <2>2
<1> HIDE DEF e
<1>3. /\ DOMAIN nodes = 1 .. N + 1 /\ Len(nodes) = N + 1
      /\ \A i \in 0 .. N : nodes[i + 1] = Node(head, k, s, i)
  BY <1>1, <1>2 DEF Node
<1> HIDE DEF nodes
<1>8. N \in Nat BY <1>1
<1> HIDE DEF N
<1>4. ASSUME NEW i \in 0 .. N PROVE C(i + 1) <=> D(i)
  <2> DEFINE j == IF i = N THEN 0 ELSE i + 1
  <2>1. j \in 0 .. N BY <1>8
  <2>2. (i + 1) % (N + 1) = j
    <3>1. CASE i = N
      <4>1. (N + 1) % (N + 1) = 0 BY <1>1
      <4> QED BY <3>1, <4>1
    <3>2. CASE i # N
      <4>1. i + 1 \in 0 .. N BY <1>8, <3>2
      <4>2. \A x \in 0 .. N : x % (N + 1) = x BY <1>1
      <4> QED BY <3>2, <4>1, <4>2
    <3> QED BY <3>1, <3>2
  <2>4. nodes[i + 1] = Node(head, k, s, i) /\ nodes[j + 1] = Node(head, k, s, j)
    BY <1>3, <2>1
  <2>5. ((i + 1) % Len(nodes)) + 1 = j + 1 BY <1>3, <2>2
  <2> HIDE DEF j
  <2> QED BY <2>4, <2>5 DEF j
<1>5. L!Circle(m, head, e) <=> \A i \in 1 .. N + 1 : C(i)
  BY <1>3 DEF L!Circle, nodes
<1>6. Loop(m, head, k, s) <=> \A i \in 0 .. N : D(i) BY DEF Loop, N
<1> HIDE DEF C, D
<1>7. \A i \in 1 .. N + 1 : i - 1 \in 0 .. N /\ (i - 1) + 1 = i BY <1>8
<1>9. \A i \in 0 .. N : i + 1 \in 1 .. N + 1 BY <1>8
<1> QED BY <1>4, <1>5, <1>6, <1>7, <1>9 DEF e

\* The memories that __list_add(), INIT_LIST_HEAD() and list_del() leave
\* behind: list_del() joins the neighbours of e, also where e is one of them.
Added(m, l, new, prev, next) ==
    /\ l \in Memory
    /\ \A n \in Nodes :
          /\ l.next[n] = IF n = prev THEN new ELSE IF n = new THEN next ELSE m.next[n]
          /\ l.prev[n] = IF n = new THEN prev ELSE IF n = next THEN new ELSE m.prev[n]

Cleared(m, l, e) ==
    /\ l \in Memory
    /\ \A n \in Nodes : /\ l.next[n] = IF n = e THEN e ELSE m.next[n]
                        /\ l.prev[n] = IF n = e THEN e ELSE m.prev[n]

Deleted(m, l, e) ==
    /\ l \in Memory
    /\ \A n \in Nodes :
          /\ l.next[n] = IF n = e THEN e
                         ELSE IF n = m.prev[e] THEN m.next[e] ELSE m.next[n]
          /\ l.prev[n] = IF n = e THEN e
                         ELSE IF n = m.next[e] THEN m.prev[e] ELSE m.prev[n]

LEMMA AddStores ==
    ASSUME NEW m \in Memory, NEW new \in Nodes, NEW prev \in Nodes, NEW next \in Nodes
    PROVE  Added(m, L!__list_add(m, new, prev, next), new, prev, next)
<1> DEFINE a == [m EXCEPT !.prev = [@ EXCEPT ![next] = new]]
           b == [a EXCEPT !.next = [@ EXCEPT ![new] = next]]
           c == [b EXCEPT !.prev = [@ EXCEPT ![new] = prev]]
           d == [c EXCEPT !.next = [@ EXCEPT ![prev] = new]]
<1>1. L!__list_add(m, new, prev, next) = d BY DEF L!__list_add
<1>2. m.next \in Pointers /\ m.prev \in Pointers BY DEF Memory
<1>3. a \in Memory /\ a.next = m.next /\ a.prev = [m.prev EXCEPT ![next] = new]
  BY <1>2 DEF Memory, Pointers
<1> HIDE DEF a
<1>4. b \in Memory /\ b.prev = a.prev /\ b.next = [m.next EXCEPT ![new] = next]
  BY <1>2, <1>3 DEF Memory, Pointers
<1> HIDE DEF b
<1>5. c \in Memory /\ c.next = b.next /\ c.prev = [b.prev EXCEPT ![new] = prev]
  BY <1>4 DEF Memory, Pointers
<1> HIDE DEF c
<1>6. d \in Memory /\ d.prev = c.prev /\ d.next = [c.next EXCEPT ![prev] = new]
  BY <1>5 DEF Memory, Pointers
<1> HIDE DEF d
<1> QED BY <1>1, <1>2, <1>3, <1>4, <1>5, <1>6 DEF Pointers, Added

LEMMA InitStores ==
    ASSUME NEW m \in Memory, NEW e \in Nodes
    PROVE  Cleared(m, L!INIT_LIST_HEAD(m, e), e)
<1> DEFINE a == [m EXCEPT !.next = [@ EXCEPT ![e] = e]]
           b == [a EXCEPT !.prev = [@ EXCEPT ![e] = e]]
<1>1. L!INIT_LIST_HEAD(m, e) = b BY DEF L!INIT_LIST_HEAD
<1>2. m.next \in Pointers /\ m.prev \in Pointers BY DEF Memory
<1>3. a \in Memory /\ a.prev = m.prev /\ a.next = [m.next EXCEPT ![e] = e]
  BY <1>2 DEF Memory, Pointers
<1> HIDE DEF a
<1>4. b \in Memory /\ b.next = a.next /\ b.prev = [m.prev EXCEPT ![e] = e]
  BY <1>2, <1>3 DEF Memory, Pointers
<1> HIDE DEF b
<1> QED BY <1>1, <1>2, <1>3, <1>4 DEF Pointers, Cleared

LEMMA DelStores ==
    ASSUME NEW m \in Memory, NEW e \in Nodes, m.next[e] \in Nodes, m.prev[e] \in Nodes
    PROVE  Deleted(m, L!list_del(m, e), e)
<1> DEFINE p == m.prev[e]
           x == m.next[e]
           a == [m EXCEPT !.prev = [@ EXCEPT ![x] = p]]
           b == [a EXCEPT !.next = [@ EXCEPT ![a.prev[e]] = a.next[e]]]
<1>1. L!list_del(m, e) = L!INIT_LIST_HEAD(b, e) BY DEF L!list_del
<1>2. m.next \in Pointers /\ m.prev \in Pointers BY DEF Memory
<1>3. p \in Nodes /\ x \in Nodes OBVIOUS
<1>4. a \in Memory /\ a.next = m.next /\ a.prev = [m.prev EXCEPT ![x] = p]
  BY <1>2, <1>3 DEF Memory, Pointers
<1>5. a.prev[e] = p /\ a.next[e] = x BY <1>2, <1>4 DEF Pointers
<1> HIDE DEF a
<1>6. b \in Memory /\ b.prev = a.prev /\ b.next = [m.next EXCEPT ![p] = x]
  BY <1>2, <1>3, <1>4, <1>5 DEF Memory, Pointers
<1> HIDE DEF b
<1>7. Cleared(b, L!INIT_LIST_HEAD(b, e), e)
  BY <1>6, InitStores
<1>8. \A n \in Nodes : /\ b.next[n] = IF n = p THEN x ELSE m.next[n]
                       /\ b.prev[n] = IF n = x THEN p ELSE m.prev[n]
  BY <1>2, <1>3, <1>4, <1>6 DEF Pointers
<1> QED BY <1>1, <1>7, <1>8 DEF Cleared, Deleted

\* A list that a head can be on: no process twice, and not the head itself.
Listed(head, k, s) ==
    /\ s \in Seq(Procs) /\ IsInjective(s)
    /\ head \in Nodes /\ k \in {"list", "sibling"} /\ \A q \in Procs : head # <<k, q>>

LEMMA ListedIs ==
    ASSUME NEW head, NEW k, NEW s, Listed(head, k, s)
    PROVE  /\ Len(s) \in Nat /\ \A i \in 1 .. Len(s) : s[i] \in Procs /\ s[i] \in ToSet(s)
           /\ \A i, j \in 1 .. Len(s) : s[i] = s[j] => i = j
           /\ \A i \in 0 .. Len(s) :
                 Node(head, k, s, i) \in Nodes /\ On(Node(head, k, s, i), head, k, s)
           /\ \A i, j \in 0 .. Len(s) : Node(head, k, s, i) = Node(head, k, s, j) => i = j
           /\ \A q \in Procs : <<k, q>> \in Nodes
<1>1. Len(s) \in Nat /\ DOMAIN s = 1 .. Len(s) /\ \A i \in 1 .. Len(s) : s[i] \in Procs
  BY LenProperties, ElementOfSeq DEF Listed
<1>2. /\ \A i \in 1 .. Len(s) : s[i] \in ToSet(s)
      /\ \A i, j \in 1 .. Len(s) : s[i] = s[j] => i = j
  BY ToSetIsRange DEF Listed
<1>3. \A q \in Procs : <<k, q>> \in Nodes BY DEF Listed, Nodes, Pcb
<1>4. \A i \in 0 .. Len(s) : i # 0 => i \in 1 .. Len(s) BY <1>1
<1>5. \A i \in 0 .. Len(s) : Node(head, k, s, i) \in Nodes /\ On(Node(head, k, s, i), head, k, s)
  BY <1>1, <1>2, <1>3, <1>4 DEF Listed, Node, On
<1>6. \A i, j \in 0 .. Len(s) : Node(head, k, s, i) = Node(head, k, s, j) => i = j
  BY <1>1, <1>2, <1>4 DEF Listed, Node
<1> QED BY <1>1, <1>2, <1>3, <1>5, <1>6

\* The neighbours of the i-th node.
LEMMA LoopAt ==
    ASSUME NEW m, NEW head, NEW k, NEW s, Listed(head, k, s), Loop(m, head, k, s),
           NEW i \in 0 .. Len(s)
    PROVE  /\ m.next[Node(head, k, s, i)]
                 = Node(head, k, s, IF i = Len(s) THEN 0 ELSE i + 1)
           /\ m.prev[Node(head, k, s, i)]
                 = Node(head, k, s, IF i = 0 THEN Len(s) ELSE i - 1)
<1>1. Len(s) \in Nat BY ListedIs
<1>2. m.next[Node(head, k, s, i)] = Node(head, k, s, IF i = Len(s) THEN 0 ELSE i + 1)
  BY DEF Loop
<1>3. CASE i = 0
  <2>1. Len(s) \in 0 .. Len(s) BY <1>1
  <2> QED BY <1>2, <1>3, <2>1 DEF Loop
<1>4. CASE i # 0
  <2>1. i - 1 \in 0 .. Len(s) /\ i - 1 # Len(s) /\ (i - 1) + 1 = i BY <1>1, <1>4
  <2> QED BY <1>2, <1>4, <2>1 DEF Loop
<1> QED BY <1>3, <1>4

\* Stores elsewhere leave a circle alone.
LEMMA LoopKept ==
    ASSUME NEW m, NEW l, NEW head, NEW k, NEW s, Listed(head, k, s), Loop(m, head, k, s),
           Kept(m, l, head, k, s)
    PROVE  Loop(l, head, k, s)
<1>1. Len(s) \in Nat BY ListedIs
<1>2. ASSUME NEW i \in 0 .. Len(s)
      PROVE  LET j == IF i = Len(s) THEN 0 ELSE i + 1 IN
             /\ l.next[Node(head, k, s, i)] = Node(head, k, s, j)
             /\ l.prev[Node(head, k, s, j)] = Node(head, k, s, i)
  <2> DEFINE j == IF i = Len(s) THEN 0 ELSE i + 1
  <2>1. j \in 0 .. Len(s) BY <1>1
  <2>2. /\ m.next[Node(head, k, s, i)] = Node(head, k, s, j)
        /\ m.prev[Node(head, k, s, j)] = Node(head, k, s, i)
    BY DEF Loop
  <2> HIDE DEF j
  <2>3. /\ Node(head, k, s, i) \in Nodes /\ On(Node(head, k, s, i), head, k, s)
        /\ Node(head, k, s, j) \in Nodes /\ On(Node(head, k, s, j), head, k, s)
    BY <2>1, ListedIs
  <2> QED BY <2>2, <2>3 DEF Kept, j
<1> QED BY <1>2 DEF Loop

\* A circle of the head alone.
LEMMA LoopEmpty ==
    ASSUME NEW m, NEW e, NEW k
    PROVE  Loop(m, e, k, <<>>) <=> Alone(m, e)
<1>1. Len(<<>>) = 0 /\ 0 .. 0 = {0} OBVIOUS
<1> QED BY <1>1 DEF Loop, Node, Alone

\* list_add_tail() puts the new entry last.
LEMMA LoopAddTail ==
    ASSUME NEW m \in Memory, NEW head, NEW k, NEW s, Listed(head, k, s), Loop(m, head, k, s),
           NEW q \in Procs, q \notin ToSet(s)
    PROVE  /\ L!list_add_tail(m, <<k, q>>, head) \in Memory
           /\ Loop(L!list_add_tail(m, <<k, q>>, head), head, k, Append(s, q))
           /\ Elsewhere(m, L!list_add_tail(m, <<k, q>>, head), head, k, Append(s, q))
<1> DEFINE new == <<k, q>>
           N == Len(s)
           t == Append(s, q)
           prev == Node(head, k, s, N)
           l == L!__list_add(m, new, prev, head)
<1>1. N \in Nat /\ head = Node(head, k, s, 0) /\ new \in Nodes /\ head \in Nodes /\ head # new
  <2>1. head \in Nodes /\ head # new BY DEF Listed
  <2>2. N \in Nat /\ new \in Nodes BY ListedIs
  <2> QED BY <2>1, <2>2 DEF Node
<1>2. m.prev[head] = prev /\ prev \in Nodes
  <2>1. 0 \in 0 .. N /\ N \in 0 .. N BY <1>1
  <2> QED BY <1>1, <2>1, LoopAt, ListedIs
<1>3. L!list_add_tail(m, new, head) = l BY <1>2 DEF L!list_add_tail
<1>4. Added(m, l, new, prev, head)
  <2> HIDE DEF new, prev
  <2> QED BY <1>1, <1>2, AddStores
<1> HIDE DEF l
<1>5. /\ t \in Seq(Procs) /\ Len(t) = N + 1 /\ t[N + 1] = q /\ \A i \in 1 .. N : t[i] = s[i]
      /\ ToSet(t) = ToSet(s) \cup {q}
  BY AppendElements, AppendProperties, <1>1 DEF Listed
<1> HIDE DEF t
<1>6. /\ \A i \in 0 .. N : Node(head, k, t, i) = Node(head, k, s, i)
      /\ Node(head, k, t, N + 1) = new
  BY <1>1, <1>5 DEF Node
<1>7. \A i \in 0 .. N : Node(head, k, s, i) # new /\ Node(head, k, s, i) \in Nodes
  <2>1. \A i \in 0 .. N : i # 0 => i \in 1 .. N BY <1>1
  <2> QED BY <1>1, <2>1, ListedIs DEF Node
<1>8. \A i, j \in 0 .. N : Node(head, k, s, i) = Node(head, k, s, j) => i = j
  BY ListedIs
<1>9. Loop(l, head, k, t)
  <2>1. ASSUME NEW i \in 0 .. N + 1
        PROVE  LET j == IF i = N + 1 THEN 0 ELSE i + 1 IN
               /\ l.next[Node(head, k, t, i)] = Node(head, k, t, j)
               /\ l.prev[Node(head, k, t, j)] = Node(head, k, t, i)
    <3>1. CASE i = N + 1
      <4>1. 0 \in 0 .. N BY <1>1
      <4>2. Node(head, k, t, i) = new /\ Node(head, k, t, 0) = head BY <1>1, <1>6, <3>1, <4>1
      <4>3. new # prev BY <1>1, <1>7
      <4> QED BY <1>1, <1>4, <3>1, <4>2, <4>3 DEF Added
    <3>2. CASE i = N
      <4>1. N \in 0 .. N BY <1>1
      <4>2. Node(head, k, t, i) = prev /\ Node(head, k, t, i + 1) = new
        BY <1>1, <1>6, <3>2, <4>1
      <4>3. i # N + 1 BY <1>1, <3>2
      <4> QED BY <1>1, <1>2, <1>4, <4>2, <4>3 DEF Added
    <3>3. CASE i # N /\ i # N + 1
      <4>1. i \in 0 .. N /\ i + 1 \in 0 .. N /\ N \in 0 .. N /\ 0 \in 0 .. N /\ i + 1 # 0
        BY <1>1, <3>3
      <4>2. /\ m.next[Node(head, k, s, i)] = Node(head, k, s, i + 1)
            /\ m.prev[Node(head, k, s, i + 1)] = Node(head, k, s, i)
        BY <3>3, <4>1 DEF Loop
      <4>3. Node(head, k, s, i) # prev /\ Node(head, k, s, i + 1) # head
        BY <1>1, <1>8, <3>3, <4>1
      <4> HIDE DEF new, prev
      <4>4. l.next[Node(head, k, s, i)] = m.next[Node(head, k, s, i)]
        BY <1>4, <1>7, <4>1, <4>3 DEF Added
      <4>5. l.prev[Node(head, k, s, i + 1)] = m.prev[Node(head, k, s, i + 1)]
        BY <1>4, <1>7, <4>1, <4>3 DEF Added
      <4> QED BY <1>6, <3>3, <4>1, <4>2, <4>4, <4>5
    <3> QED BY <3>1, <3>2, <3>3
  <2> QED BY <1>5, <2>1 DEF Loop
<1>10. Elsewhere(m, l, head, k, t)
  <2>1. ASSUME NEW n \in Nodes, ~On(n, head, k, t) PROVE n # new /\ n # prev /\ n # head
    <3>1. On(new, head, k, t) /\ On(head, head, k, t) BY <1>5 DEF On
    <3>2. On(prev, head, k, s) BY <1>1, ListedIs
    <3>3. On(prev, head, k, t) BY <1>5, <3>2 DEF On
    <3> QED BY <2>1, <3>1, <3>3
  <2> HIDE DEF new, prev
  <2> QED BY <1>4, <2>1 DEF Elsewhere, Added
<1> QED BY <1>3, <1>4, <1>9, <1>10 DEF Added, t

\* list_add() puts the new entry first.
LEMMA LoopAdd ==
    ASSUME NEW m \in Memory, NEW head, NEW k, NEW s, Listed(head, k, s), Loop(m, head, k, s),
           NEW q \in Procs, q \notin ToSet(s)
    PROVE  /\ L!list_add(m, <<k, q>>, head) \in Memory
           /\ Loop(L!list_add(m, <<k, q>>, head), head, k, <<q>> \o s)
           /\ Elsewhere(m, L!list_add(m, <<k, q>>, head), head, k, <<q>> \o s)
<1> DEFINE new == <<k, q>>
           N == Len(s)
           t == <<q>> \o s
           one == IF N = 0 THEN 0 ELSE 1
           next == Node(head, k, s, one)
           l == L!__list_add(m, new, head, next)
<1>1. N \in Nat /\ head = Node(head, k, s, 0) /\ new \in Nodes /\ head \in Nodes /\ head # new
  <2>1. head \in Nodes /\ head # new BY DEF Listed
  <2>2. N \in Nat /\ new \in Nodes BY ListedIs
  <2> QED BY <2>1, <2>2 DEF Node
<1>2. m.next[head] = next /\ next \in Nodes
  <2>1. 0 \in 0 .. N /\ one \in 0 .. N BY <1>1
  <2>2. one = IF 0 = N THEN 0 ELSE 0 + 1 BY <1>1
  <2> HIDE DEF one
  <2> QED BY <1>1, <2>1, <2>2, LoopAt, ListedIs
<1>3. L!list_add(m, new, head) = l BY <1>2 DEF L!list_add
<1>4. Added(m, l, new, head, next)
  <2> HIDE DEF new, next
  <2> QED BY <1>1, <1>2, AddStores
<1> HIDE DEF l
<1>5. /\ t \in Seq(Procs) /\ Len(t) = N + 1 /\ t[1] = q /\ \A i \in 2 .. N + 1 : t[i] = s[i - 1]
      /\ ToSet(t) = ToSet(s) \cup {q}
  <2>1. <<q>> \in Seq(Procs) /\ Len(<<q>>) = 1 /\ s \in Seq(Procs) BY DEF Listed
  <2>2. t \in Seq(Procs) /\ ToSet(t) = ToSet(s) \cup {q} BY ConsElements DEF Listed
  <2> QED BY <1>1, <2>1, <2>2, ConcatProperties
<1> HIDE DEF t
<1>6. /\ Node(head, k, t, 0) = head /\ Node(head, k, t, 1) = new
      /\ \A i \in 2 .. N + 1 : Node(head, k, t, i) = Node(head, k, s, i - 1)
  BY <1>1, <1>5 DEF Node
<1>7. \A i \in 0 .. N : Node(head, k, s, i) # new /\ Node(head, k, s, i) \in Nodes
  <2>1. \A i \in 0 .. N : i # 0 => i \in 1 .. N BY <1>1
  <2> QED BY <1>1, <2>1, ListedIs DEF Node
<1>8. \A i, j \in 0 .. N : Node(head, k, s, i) = Node(head, k, s, j) => i = j
  BY ListedIs
<1> HIDE DEF N, new
<1>9. Loop(l, head, k, t)
  <2>1. ASSUME NEW i \in 0 .. N + 1
        PROVE  LET j == IF i = N + 1 THEN 0 ELSE i + 1 IN
               /\ l.next[Node(head, k, t, i)] = Node(head, k, t, j)
               /\ l.prev[Node(head, k, t, j)] = Node(head, k, t, i)
    <3>1. CASE i = 0
      <4>1. i # N + 1 /\ i + 1 = 1 BY <1>1, <3>1
      <4>2. Node(head, k, t, i) = head /\ Node(head, k, t, i + 1) = new BY <1>6, <3>1
      <4> QED BY <1>1, <1>4, <4>1, <4>2 DEF Added
    <3>2. CASE i = 1
      <4> DEFINE j == IF i = N + 1 THEN 0 ELSE i + 1
      <4>1. Node(head, k, t, i) = new BY <1>6, <3>2
      <4>2. Node(head, k, t, j) = next
        <5>1. CASE N = 0 BY <1>1, <1>6, <3>2, <5>1
        <5>2. CASE N # 0
          <6>1. j = 2 /\ 2 \in 2 .. N + 1 /\ 2 - 1 = 1 /\ one = 1 BY <1>1, <3>2, <5>2
          <6> HIDE DEF j, one
          <6> QED BY <1>6, <6>1
        <5> QED BY <5>1, <5>2
      <4>3. next # new
        <5>1. one \in 0 .. N BY <1>1
        <5> HIDE DEF one
        <5> QED BY <1>7, <5>1
      <4> HIDE DEF j, next
      <4>4. l.next[new] = next /\ l.prev[next] = new
        BY <1>1, <1>2, <1>4, <4>3 DEF Added
      <4> QED BY <4>1, <4>2, <4>4 DEF j
    <3>3. CASE i # 0 /\ i # 1
      <4> DEFINE a == i - 1
                 b == IF a = N THEN 0 ELSE a + 1
                 j == IF i = N + 1 THEN 0 ELSE i + 1
      <4>1. a \in 0 .. N /\ b \in 0 .. N /\ a # 0 /\ b # one /\ i \in 2 .. N + 1
            /\ one \in 0 .. N /\ 0 \in 0 .. N
        BY <1>1, <3>3
      <4>2. Node(head, k, t, i) = Node(head, k, s, a) BY <1>6, <4>1
      <4>3. Node(head, k, t, j) = Node(head, k, s, b)
        <5>1. CASE i = N + 1
          <6>1. j = 0 /\ b = 0 BY <1>1, <5>1
          <6> HIDE DEF j, b
          <6> QED BY <1>1, <1>6, <6>1
        <5>2. CASE i # N + 1
          <6>1. j \in 2 .. N + 1 /\ b = j - 1 BY <1>1, <3>3, <5>2
          <6> HIDE DEF j, b
          <6> QED BY <1>6, <6>1
        <5> QED BY <5>1, <5>2
      <4>4. /\ m.next[Node(head, k, s, a)] = Node(head, k, s, b)
            /\ m.prev[Node(head, k, s, b)] = Node(head, k, s, a)
        BY <4>1 DEF Loop, N
      <4> HIDE DEF a, b, j
      <4>5. Node(head, k, s, a) # head /\ Node(head, k, s, b) # next
        BY <1>1, <1>8, <4>1
      <4> HIDE DEF next
      <4>6. l.next[Node(head, k, s, a)] = m.next[Node(head, k, s, a)]
        BY <1>4, <1>7, <4>1, <4>5 DEF Added
      <4>7. l.prev[Node(head, k, s, b)] = m.prev[Node(head, k, s, b)]
        BY <1>4, <1>7, <4>1, <4>5 DEF Added
      <4> QED BY <4>2, <4>3, <4>4, <4>6, <4>7 DEF j
    <3> QED BY <3>1, <3>2, <3>3
  <2> QED BY <1>5, <2>1 DEF Loop
<1>10. Elsewhere(m, l, head, k, t)
  <2>1. ASSUME NEW n \in Nodes, ~On(n, head, k, t) PROVE n # new /\ n # next /\ n # head
    <3>1. On(new, head, k, t) /\ On(head, head, k, t) BY <1>5 DEF On, new
    <3>2. one \in 0 .. N BY <1>1
    <3> HIDE DEF one
    <3>3. On(next, head, k, s) BY <3>2, ListedIs DEF N
    <3>4. On(next, head, k, t) BY <1>5, <3>3 DEF On
    <3> QED BY <2>1, <3>1, <3>4
  <2> HIDE DEF next
  <2> QED BY <1>4, <2>1 DEF Elsewhere, Added
<1> QED BY <1>3, <1>4, <1>9, <1>10 DEF Added, t, new

\* list_del() takes the entry out and leaves it on a list of its own.
LEMMA LoopDel ==
    ASSUME NEW m \in Memory, NEW head, NEW k, NEW s, Listed(head, k, s), Loop(m, head, k, s),
           NEW x \in DOMAIN s
    PROVE  /\ L!list_del(m, <<k, s[x]>>) \in Memory
           /\ Loop(L!list_del(m, <<k, s[x]>>), head, k, RemoveAt(s, x))
           /\ Alone(L!list_del(m, <<k, s[x]>>), <<k, s[x]>>)
           /\ Elsewhere(m, L!list_del(m, <<k, s[x]>>), head, k, s)
<1> DEFINE N == Len(s)
           t == RemoveAt(s, x)
           e == <<k, s[x]>>
           l == L!list_del(m, e)
           y == IF x = N THEN 0 ELSE x + 1
           p == Node(head, k, s, x - 1)
           n == Node(head, k, s, y)
<1>1. N \in Nat /\ x \in 1 .. N /\ e \in Nodes /\ e = Node(head, k, s, x)
  <2>1. s \in Seq(Procs) /\ x \in 1 .. N /\ N \in Nat BY LenProperties DEF Listed
  <2>2. s[x] \in Procs BY <2>1, ListedIs
  <2> QED BY <2>1, <2>2, ListedIs DEF Node
<1>2. x \in 0 .. N /\ x # 0 /\ x - 1 \in 0 .. N /\ y \in 0 .. N /\ (N > 1 => y # x - 1 \/ N = 1)
  BY <1>1
<1>3. m.next[e] = n /\ m.prev[e] = p /\ n \in Nodes /\ p \in Nodes
  <2> HIDE DEF e
  <2> QED BY <1>1, <1>2, LoopAt, ListedIs
<1>4. Deleted(m, l, e)
  <2> HIDE DEF e, n, p
  <2> QED BY <1>1, <1>3, DelStores
<1> HIDE DEF l
<1>5. /\ t \in Seq(Procs) /\ Len(t) = N - 1
      /\ \A j \in 1 .. N - 1 : t[j] = IF j < x THEN s[j] ELSE s[j + 1]
  BY RemoveAtIsSeq DEF Listed
<1> HIDE DEF t
<1> DEFINE up(i) == IF i < x THEN i ELSE i + 1
<1>6. \A i \in 0 .. N - 1 :
         Node(head, k, t, i) = Node(head, k, s, up(i)) /\ up(i) \in 0 .. N /\ up(i) # x
  <2>1. ASSUME NEW i \in 0 .. N - 1
        PROVE  /\ up(i) \in 0 .. N /\ up(i) # x /\ (i = 0 <=> up(i) = 0)
               /\ i # 0 => i \in 1 .. N - 1
    BY <1>1
  <2>2. ASSUME NEW i \in 0 .. N - 1, i # 0 PROVE t[i] = s[up(i)]
    BY <1>5, <2>1, <2>2
  <2> HIDE DEF up
  <2> QED BY <2>1, <2>2 DEF Node
<1>7. \A i \in 0 .. N : Node(head, k, s, i) \in Nodes BY ListedIs
<1>8. \A i, j \in 0 .. N : Node(head, k, s, i) = Node(head, k, s, j) => i = j
  BY ListedIs
<1> HIDE DEF N
<1>9. ASSUME NEW i \in 0 .. N - 1
      PROVE  LET j == IF i = N - 1 THEN 0 ELSE i + 1 IN
             /\ l.next[Node(head, k, t, i)] = Node(head, k, t, j)
             /\ l.prev[Node(head, k, t, j)] = Node(head, k, t, i)
  <2> DEFINE j == IF i = N - 1 THEN 0 ELSE i + 1
             a == up(i)
             b == up(j)
             c == IF a = N THEN 0 ELSE a + 1
  <2>1. j \in 0 .. N - 1 BY <1>1
  <2>2. a \in 0 .. N /\ a # x /\ b \in 0 .. N /\ b # x
    <3> HIDE DEF j, up
    <3> QED BY <1>6, <2>1
  <2>3. /\ a = x - 1 => b = y
        /\ a # x - 1 => b = c /\ c \in 0 .. N /\ c # y
    BY <1>1
  <2>4. Node(head, k, t, i) = Node(head, k, s, a) /\ Node(head, k, t, j) = Node(head, k, s, b)
    <3> HIDE DEF j, up
    <3> QED BY <1>6, <2>1
  <2>5. /\ m.next[Node(head, k, s, a)] = Node(head, k, s, c)
        /\ m.prev[Node(head, k, s, c)] = Node(head, k, s, a)
    <3>1. a \in 0 .. Len(s) BY <2>2 DEF N
    <3> HIDE DEF a
    <3> QED BY <3>1 DEF Loop, N
  <2> HIDE DEF a, b, c, j, y
  <2>6. Node(head, k, s, a) # e /\ Node(head, k, s, b) # e
    BY <1>1, <1>2, <1>8, <2>2
  <2>7. CASE a = x - 1
    <3>1. Node(head, k, s, a) = p /\ Node(head, k, s, b) = n BY <2>3, <2>7
    <3> HIDE DEF e, n, p
    <3> QED BY <1>3, <1>4, <2>4, <2>6, <3>1 DEF Deleted, j
  <2>8. CASE a # x - 1
    <3>1. Node(head, k, s, a) # p /\ Node(head, k, s, b) # n
      BY <1>2, <1>8, <2>2, <2>3, <2>8
    <3>2. Node(head, k, s, a) \in Nodes /\ Node(head, k, s, b) \in Nodes BY <1>7, <2>2
    <3> HIDE DEF e, n, p
    <3>3. l.next[Node(head, k, s, a)] = m.next[Node(head, k, s, a)]
      BY <1>3, <1>4, <2>6, <3>1, <3>2 DEF Deleted
    <3>4. l.prev[Node(head, k, s, b)] = m.prev[Node(head, k, s, b)]
      BY <1>3, <1>4, <2>6, <3>1, <3>2 DEF Deleted
    <3> QED BY <2>3, <2>4, <2>5, <2>8, <3>3, <3>4 DEF j
  <2> QED BY <2>7, <2>8
<1>10. Loop(l, head, k, t) BY <1>5, <1>9 DEF Loop
<1>11. Alone(l, e)
  <2> HIDE DEF e
  <2> QED BY <1>1, <1>4 DEF Deleted, Alone
<1>12. Elsewhere(m, l, head, k, s)
  <2>1. On(e, head, k, s) /\ On(n, head, k, s) /\ On(p, head, k, s)
    <3> HIDE DEF e
    <3> QED BY <1>1, <1>2, ListedIs DEF N
  <2> HIDE DEF e, n, p
  <2> QED BY <1>3, <1>4, <2>1 DEF Elsewhere, Deleted
<1> QED BY <1>4, <1>10, <1>11, <1>12 DEF Deleted, t, e, l

-----------------------------------------------------------------------------
(* The queue Q and the families F of the processes U, and the memory m     *)
(* that spells them                                                        *)

Lists(U, F, Q) ==
    /\ U \subseteq Procs
    /\ Q \in Seq(Procs) /\ IsInjective(Q) /\ ToSet(Q) \subseteq U
    /\ F \in [Procs -> Seq(Procs)]
    /\ \A p \in Procs : IsInjective(F[p]) /\ ToSet(F[p]) \subseteq U
    /\ \A p, q \in Procs : p # q => ToSet(F[p]) \cap ToSet(F[q]) = {}
    /\ \A p \in Procs \ U : F[p] = <<>>

Orphan(F, p) == \A q \in Procs : p \notin ToSet(F[q])

Spelled(m, U, F, Q) ==
    /\ m \in Memory
    /\ Loop(m, list(idle), "list", Q)
    /\ \A p \in U : /\ Loop(m, childrenHead(p), "sibling", F[p])
                    /\ p \notin ToSet(Q) => Alone(m, list(p))
                    /\ Orphan(F, p) => Alone(m, sibling(p))

\* The lists have their nodes to themselves.
LEMMA ListsApart ==
    ASSUME NEW U, NEW F, NEW Q, Lists(U, F, Q)
    PROVE  /\ Listed(list(idle), "list", Q)
           /\ \A p \in Procs : Listed(childrenHead(p), "sibling", F[p])
           /\ \A n : On(n, list(idle), "list", Q)
                        <=> n = list(idle) \/ \E q \in ToSet(Q) : n = list(q)
           /\ \A p \in Procs : \A n : On(n, childrenHead(p), "sibling", F[p])
                        <=> n = childrenHead(p) \/ \E q \in ToSet(F[p]) : n = sibling(q)
<1> USE ProcessAssumption DEF Lists, list, childrenHead, sibling, Pcb
<1>1. Listed(list(idle), "list", Q) BY DEF Listed, Nodes
<1>2. \A p \in Procs : Listed(childrenHead(p), "sibling", F[p]) BY DEF Listed, Nodes
<1> QED BY <1>1, <1>2 DEF On

\* Stores that keep off all of a circle's nodes keep off the circle: what
\* stays of a memory's spelling.
LEMMA QueueKept ==
    ASSUME NEW U, NEW F, NEW Q, Lists(U, F, Q), NEW m, Spelled(m, U, F, Q), NEW l,
           l.next[list(idle)] = m.next[list(idle)], l.prev[list(idle)] = m.prev[list(idle)],
           \A q \in ToSet(Q) : /\ l.next[list(q)] = m.next[list(q)]
                               /\ l.prev[list(q)] = m.prev[list(q)]
    PROVE  Loop(l, list(idle), "list", Q)
<1>1. Listed(list(idle), "list", Q) BY ListsApart
<1>2. Kept(m, l, list(idle), "list", Q) BY ListsApart DEF Kept
<1> QED BY <1>1, <1>2, LoopKept DEF Spelled

LEMMA FamilyKept ==
    ASSUME NEW U, NEW F, NEW Q, Lists(U, F, Q), NEW m, Spelled(m, U, F, Q), NEW l, NEW p \in U,
           l.next[childrenHead(p)] = m.next[childrenHead(p)],
           l.prev[childrenHead(p)] = m.prev[childrenHead(p)],
           \A q \in ToSet(F[p]) : /\ l.next[sibling(q)] = m.next[sibling(q)]
                                  /\ l.prev[sibling(q)] = m.prev[sibling(q)]
    PROVE  Loop(l, childrenHead(p), "sibling", F[p])
<1>1. p \in Procs BY DEF Lists
<1>2. Listed(childrenHead(p), "sibling", F[p]) BY <1>1, ListsApart
<1>3. \A n : On(n, childrenHead(p), "sibling", F[p])
                <=> n = childrenHead(p) \/ \E q \in ToSet(F[p]) : n = sibling(q)
  BY <1>1, ListsApart
<1>4. Kept(m, l, childrenHead(p), "sibling", F[p]) BY <1>3 DEF Kept
<1> QED BY <1>2, <1>4, LoopKept DEF Spelled

\* The nodes of two processes, or of two kinds, are different.
LEMMA NodesDiffer ==
    /\ \A p \in Pcb : list(p) \in Nodes /\ childrenHead(p) \in Nodes /\ sibling(p) \in Nodes
    /\ \A p, q : /\ list(p) # childrenHead(q) /\ list(p) # sibling(q)
                 /\ childrenHead(p) # sibling(q)
                 /\ list(p) = list(q) => p = q
                 /\ childrenHead(p) = childrenHead(q) => p = q
                 /\ sibling(p) = sibling(q) => p = q
  BY DEF Nodes, list, childrenHead, sibling

-----------------------------------------------------------------------------
(* What the steps of process.c do to the lists and the memory              *)

LEMMA PreparedStores ==
    ASSUME NEW m \in Memory, NEW p \in Pcb
    PROVE  /\ Prepared(m, p) \in Memory
           /\ \A n \in Nodes :
                 /\ Prepared(m, p).next[n] = IF n \in {list(p), childrenHead(p), sibling(p)}
                                             THEN n ELSE m.next[n]
                 /\ Prepared(m, p).prev[n] = IF n \in {list(p), childrenHead(p), sibling(p)}
                                             THEN n ELSE m.prev[n]
<1> DEFINE a == L!INIT_LIST_HEAD(m, list(p))
           b == L!INIT_LIST_HEAD(a, childrenHead(p))
           c == L!INIT_LIST_HEAD(b, sibling(p))
<1>1. list(p) \in Nodes /\ childrenHead(p) \in Nodes /\ sibling(p) \in Nodes BY NodesDiffer
<1>2. Cleared(m, a, list(p)) BY <1>1, InitStores
<1> HIDE DEF a
<1>3. Cleared(a, b, childrenHead(p)) BY <1>1, <1>2, InitStores DEF Cleared
<1> HIDE DEF b
<1>4. Cleared(b, c, sibling(p)) BY <1>1, <1>3, InitStores DEF Cleared
<1>5. Prepared(m, p) = c BY DEF Prepared, a, b
<1> HIDE DEF c
<1> QED BY <1>2, <1>3, <1>4, <1>5 DEF Cleared

\* A new process, before it is linked.
LEMMA PreparedLinks ==
    ASSUME NEW U, NEW F, NEW Q, Lists(U, F, Q), NEW m, Spelled(m, U, F, Q),
           NEW p \in Procs, p \notin U
    PROVE  Lists(U \cup {p}, F, Q) /\ Spelled(Prepared(m, p), U \cup {p}, F, Q)
<1> DEFINE l == Prepared(m, p)
<1>1. /\ l \in Memory
      /\ \A n \in Nodes :
            /\ l.next[n] = IF n \in {list(p), childrenHead(p), sibling(p)} THEN n ELSE m.next[n]
            /\ l.prev[n] = IF n \in {list(p), childrenHead(p), sibling(p)} THEN n ELSE m.prev[n]
  BY PreparedStores DEF Pcb, Spelled
<1> HIDE DEF l
<1>2. Lists(U \cup {p}, F, Q) BY DEF Lists
<1>3. \A q \in Pcb : q # p =>
         /\ l.next[list(q)] = m.next[list(q)] /\ l.prev[list(q)] = m.prev[list(q)]
         /\ l.next[childrenHead(q)] = m.next[childrenHead(q)]
         /\ l.prev[childrenHead(q)] = m.prev[childrenHead(q)]
         /\ l.next[sibling(q)] = m.next[sibling(q)] /\ l.prev[sibling(q)] = m.prev[sibling(q)]
  BY <1>1, NodesDiffer
<1>4. Alone(l, list(p)) /\ Alone(l, childrenHead(p)) /\ Alone(l, sibling(p))
  BY <1>1, NodesDiffer DEF Alone, Pcb
<1>5. idle # p /\ idle \in Pcb /\ U \subseteq Pcb /\ ToSet(Q) \subseteq U
      /\ \A q \in U : ToSet(F[q]) \subseteq U
  BY ProcessAssumption DEF Pcb, Lists
<1>6. Loop(l, list(idle), "list", Q) BY <1>3, <1>5, QueueKept
<1>7. ASSUME NEW q \in U
      PROVE  /\ Loop(l, childrenHead(q), "sibling", F[q])
             /\ q \notin ToSet(Q) => Alone(l, list(q))
             /\ Orphan(F, q) => Alone(l, sibling(q))
  <2>1. Loop(l, childrenHead(q), "sibling", F[q]) BY <1>3, <1>5, FamilyKept
  <2> QED BY <1>3, <1>5, <2>1 DEF Spelled, Alone
<1>8. Loop(l, childrenHead(p), "sibling", F[p]) BY <1>4, LoopEmpty DEF Lists
<1> QED BY <1>1, <1>2, <1>4, <1>6, <1>7, <1>8 DEF Spelled, l

\* add_process()
LEMMA QueuedLinks ==
    ASSUME NEW U, NEW F, NEW Q, Lists(U, F, Q), NEW m, Spelled(m, U, F, Q),
           NEW p \in U, p \notin ToSet(Q)
    PROVE  Lists(U, F, Append(Q, p)) /\ Spelled(Queued(m, p), U, F, Append(Q, p))
<1> DEFINE l == Queued(m, p)
           R == Append(Q, p)
<1>1. p \in Procs /\ U \subseteq Procs BY DEF Lists
<1>2. R \in Seq(Procs) /\ IsInjective(R) /\ ToSet(R) = ToSet(Q) \cup {p}
  BY <1>1, AppendElements DEF Lists
<1>3. l = L!list_add_tail(m, <<"list", p>>, list(idle)) BY DEF Queued, list
<1>4. l \in Memory /\ Loop(l, list(idle), "list", R) /\ Elsewhere(m, l, list(idle), "list", R)
  BY <1>1, <1>3, ListsApart, LoopAddTail DEF Spelled
<1> HIDE DEF l, R
<1>5. Lists(U, F, R) BY <1>1, <1>2 DEF Lists
<1>6. \A q \in Procs :
         /\ q \notin ToSet(R) => /\ l.next[list(q)] = m.next[list(q)]
                                 /\ l.prev[list(q)] = m.prev[list(q)]
         /\ l.next[childrenHead(q)] = m.next[childrenHead(q)]
         /\ l.prev[childrenHead(q)] = m.prev[childrenHead(q)]
         /\ l.next[sibling(q)] = m.next[sibling(q)] /\ l.prev[sibling(q)] = m.prev[sibling(q)]
  <2>1. idle \notin Procs /\ Procs \subseteq Pcb BY ProcessAssumption DEF Pcb
  <2> QED BY <1>4, <1>5, <2>1, ListsApart, NodesDiffer DEF Elsewhere
<1>7. ASSUME NEW q \in U
      PROVE  /\ Loop(l, childrenHead(q), "sibling", F[q])
             /\ q \notin ToSet(R) => Alone(l, list(q))
             /\ Orphan(F, q) => Alone(l, sibling(q))
  <2>1. ToSet(F[q]) \subseteq Procs BY <1>1 DEF Lists
  <2>2. Loop(l, childrenHead(q), "sibling", F[q]) BY <1>1, <1>6, <2>1, FamilyKept
  <2> QED BY <1>1, <1>2, <1>6, <2>2 DEF Spelled, Alone
<1> QED BY <1>4, <1>5, <1>7 DEF Spelled, l, R

\* schedule() takes the i-th process off the queue.
LEMMA DequeuedLinks ==
    ASSUME NEW U, NEW F, NEW Q, Lists(U, F, Q), NEW m, Spelled(m, U, F, Q), NEW i \in DOMAIN Q
    PROVE  /\ Lists(U, F, RemoveAt(Q, i))
           /\ Spelled(L!list_del(m, list(Q[i])), U, F, RemoveAt(Q, i))
<1> DEFINE l == L!list_del(m, list(Q[i]))
           R == RemoveAt(Q, i)
<1>1. U \subseteq Procs /\ ToSet(Q) \subseteq U BY DEF Lists
<1>2. R \in Seq(Procs) /\ IsInjective(R) /\ ToSet(R) = ToSet(Q) \ {Q[i]}
  BY RemoveAtIsSeq, RemoveAtElements DEF Lists
<1>3. l = L!list_del(m, <<"list", Q[i]>>) BY DEF list
<1>4. /\ l \in Memory /\ Loop(l, list(idle), "list", R) /\ Alone(l, list(Q[i]))
      /\ Elsewhere(m, l, list(idle), "list", Q)
  <2>1. Listed(list(idle), "list", Q) BY ListsApart
  <2> QED BY <1>3, <2>1, LoopDel DEF Spelled, list
<1> HIDE DEF l, R
<1>5. Lists(U, F, R) BY <1>1, <1>2 DEF Lists
<1>6. \A q \in Procs :
         /\ q \notin ToSet(Q) => /\ l.next[list(q)] = m.next[list(q)]
                                 /\ l.prev[list(q)] = m.prev[list(q)]
         /\ l.next[childrenHead(q)] = m.next[childrenHead(q)]
         /\ l.prev[childrenHead(q)] = m.prev[childrenHead(q)]
         /\ l.next[sibling(q)] = m.next[sibling(q)] /\ l.prev[sibling(q)] = m.prev[sibling(q)]
  <2>1. idle \notin Procs /\ Procs \subseteq Pcb BY ProcessAssumption DEF Pcb
  <2> QED BY <1>4, <2>1, ListsApart, NodesDiffer DEF Elsewhere
<1>7. ASSUME NEW q \in U
      PROVE  /\ Loop(l, childrenHead(q), "sibling", F[q])
             /\ q \notin ToSet(R) => Alone(l, list(q))
             /\ Orphan(F, q) => Alone(l, sibling(q))
  <2>1. ToSet(F[q]) \subseteq Procs BY <1>1 DEF Lists
  <2>2. Loop(l, childrenHead(q), "sibling", F[q]) BY <1>1, <1>6, <2>1, FamilyKept
  <2> QED BY <1>1, <1>2, <1>4, <1>6, <2>2 DEF Spelled, Alone
<1> QED BY <1>4, <1>5, <1>7 DEF Spelled, l, R

\* Stores on the circle of p's family.
LEMMA FamilyElsewhere ==
    ASSUME NEW m, NEW l, NEW p, NEW s, Elsewhere(m, l, childrenHead(p), "sibling", s), NEW q \in Pcb
    PROVE  /\ l.next[list(q)] = m.next[list(q)] /\ l.prev[list(q)] = m.prev[list(q)]
           /\ q # p => /\ l.next[childrenHead(q)] = m.next[childrenHead(q)]
                       /\ l.prev[childrenHead(q)] = m.prev[childrenHead(q)]
           /\ q \notin ToSet(s) => /\ l.next[sibling(q)] = m.next[sibling(q)]
                                   /\ l.prev[sibling(q)] = m.prev[sibling(q)]
<1>1. \A n : On(n, childrenHead(p), "sibling", s)
                <=> n = childrenHead(p) \/ \E r \in ToSet(s) : n = sibling(r)
  BY DEF On, sibling
<1>2. ~On(list(q), childrenHead(p), "sibling", s) BY <1>1, NodesDiffer
<1>3. q # p => ~On(childrenHead(q), childrenHead(p), "sibling", s) BY <1>1, NodesDiffer
<1>4. q \notin ToSet(s) => ~On(sibling(q), childrenHead(p), "sibling", s) BY <1>1, NodesDiffer
<1> QED BY <1>2, <1>3, <1>4, NodesDiffer DEF Elsewhere

\* A process that is on no children list becomes the first child of p.
LEMMA AdoptedLinks ==
    ASSUME NEW U, NEW F, NEW Q, Lists(U, F, Q), NEW m, Spelled(m, U, F, Q),
           NEW c \in U, Orphan(F, c), NEW p \in U
    PROVE  /\ Lists(U, list_add(F, p, c), Q)
           /\ Spelled(L!list_add(m, sibling(c), childrenHead(p)), U, list_add(F, p, c), Q)
<1> DEFINE l == L!list_add(m, sibling(c), childrenHead(p))
           G == list_add(F, p, c)
           s == <<c>> \o F[p]
<1>1. c \in Procs /\ p \in Procs /\ U \subseteq Procs /\ ToSet(Q) \subseteq U BY DEF Lists
<1>2. s \in Seq(Procs) /\ IsInjective(s) /\ ToSet(s) = ToSet(F[p]) \cup {c}
  <2>1. F[p] \in Seq(Procs) /\ IsInjective(F[p]) /\ c \notin ToSet(F[p])
    BY <1>1 DEF Lists, Orphan
  <2> QED BY <1>1, <2>1, ConsElements
<1>3. G \in [Procs -> Seq(Procs)] /\ \A q \in Procs : G[q] = IF q = p THEN s ELSE F[q]
  BY <1>1, <1>2 DEF Lists, list_add
<1>4. /\ l \in Memory /\ Loop(l, childrenHead(p), "sibling", s)
      /\ Elsewhere(m, l, childrenHead(p), "sibling", s)
  <2>1. Listed(childrenHead(p), "sibling", F[p]) /\ c \notin ToSet(F[p])
    BY <1>1, ListsApart DEF Orphan
  <2> QED BY <1>1, <2>1, LoopAdd DEF Spelled, sibling
<1> HIDE DEF l, G, s
<1>5. Lists(U, G, Q)
  <2>1. \A q \in Procs : IsInjective(G[q]) /\ ToSet(G[q]) \subseteq U
    BY <1>2, <1>3 DEF Lists
  <2>2. ASSUME NEW q \in Procs, NEW r \in Procs, q # r
        PROVE  ToSet(G[q]) \cap ToSet(G[r]) = {}
    <3>1. ToSet(F[q]) \cap ToSet(F[r]) = {} BY <2>2 DEF Lists
    <3> QED BY <1>2, <1>3, <2>2, <3>1 DEF Orphan
  <2> QED BY <1>3, <2>1, <2>2 DEF Lists
<1>6. ToSet(G[p]) = ToSet(F[p]) \cup {c} /\ \A q \in Procs : q # p => G[q] = F[q]
  BY <1>1, <1>2, <1>3
<1>7. \A q \in Pcb :
         /\ l.next[list(q)] = m.next[list(q)] /\ l.prev[list(q)] = m.prev[list(q)]
         /\ q # p => /\ l.next[childrenHead(q)] = m.next[childrenHead(q)]
                     /\ l.prev[childrenHead(q)] = m.prev[childrenHead(q)]
         /\ q \notin ToSet(G[p]) => /\ l.next[sibling(q)] = m.next[sibling(q)]
                                    /\ l.prev[sibling(q)] = m.prev[sibling(q)]
  <2>1. ToSet(G[p]) = ToSet(s) BY <1>1, <1>3
  <2> QED BY <1>4, <2>1, FamilyElsewhere
<1>8. Loop(l, list(idle), "list", Q)
  <2>1. idle \in Pcb /\ Procs \subseteq Pcb BY DEF Pcb
  <2> QED BY <1>1, <1>7, <2>1, QueueKept
<1>9. ASSUME NEW q \in U
      PROVE  /\ Loop(l, childrenHead(q), "sibling", G[q])
             /\ q \notin ToSet(Q) => Alone(l, list(q))
             /\ Orphan(G, q) => Alone(l, sibling(q))
  <2>1. q \in Procs /\ Procs \subseteq Pcb /\ ToSet(F[q]) \subseteq Procs BY <1>1 DEF Lists, Pcb
  <2>2. Loop(l, childrenHead(q), "sibling", G[q])
    <3>1. CASE q = p BY <1>1, <1>3, <1>4, <3>1
    <3>2. CASE q # p
      <4>1. ToSet(F[q]) \cap ToSet(G[p]) = {} BY <1>1, <1>5, <1>6, <2>1, <3>2 DEF Lists
      <4>2. Loop(l, childrenHead(q), "sibling", F[q])
        BY <1>7, <2>1, <3>2, <4>1, FamilyKept
      <4> QED BY <1>6, <2>1, <3>2, <4>2
    <3> QED BY <3>1, <3>2
  <2>3. Orphan(G, q) => Orphan(F, q) /\ q \notin ToSet(G[p])
    BY <1>1, <1>6 DEF Orphan
  <2> QED BY <1>7, <2>1, <2>2, <2>3 DEF Spelled, Alone
<1> QED BY <1>4, <1>5, <1>8, <1>9 DEF Spelled, l, G

\* The i-th child of p leaves its list.
LEMMA UnlinkedLinks ==
    ASSUME NEW U, NEW F, NEW Q, Lists(U, F, Q), NEW m, Spelled(m, U, F, Q),
           NEW p \in U, NEW i \in DOMAIN F[p]
    PROVE  /\ Lists(U, list_del(F, p, i), Q)
           /\ Orphan(list_del(F, p, i), F[p][i]) /\ F[p][i] \in U
           /\ Spelled(L!list_del(m, sibling(F[p][i])), U, list_del(F, p, i), Q)
<1> DEFINE c == F[p][i]
           l == L!list_del(m, sibling(c))
           G == list_del(F, p, i)
           s == RemoveAt(F[p], i)
<1>1. p \in Procs /\ U \subseteq Procs /\ ToSet(Q) \subseteq U BY DEF Lists
<1>2. F[p] \in Seq(Procs) /\ IsInjective(F[p]) /\ ToSet(F[p]) \subseteq U BY <1>1 DEF Lists
<1>3. s \in Seq(Procs) /\ IsInjective(s) /\ ToSet(s) = ToSet(F[p]) \ {c}
  BY <1>2, RemoveAtIsSeq, RemoveAtElements
<1>4. c \in ToSet(F[p]) /\ c \in Procs /\ c \in U
  BY <1>1, <1>2, ToSetIsRange, LenProperties
<1>5. G \in [Procs -> Seq(Procs)] /\ \A q \in Procs : G[q] = IF q = p THEN s ELSE F[q]
  BY <1>1, <1>3 DEF Lists, list_del
<1>6. /\ l \in Memory /\ Loop(l, childrenHead(p), "sibling", s) /\ Alone(l, sibling(c))
      /\ Elsewhere(m, l, childrenHead(p), "sibling", F[p])
  <2>1. Listed(childrenHead(p), "sibling", F[p]) BY <1>1, ListsApart
  <2> QED BY <1>1, <2>1, LoopDel DEF Spelled, sibling
<1> HIDE DEF l, G, s, c
<1>7. Lists(U, G, Q)
  <2>1. \A q \in Procs : IsInjective(G[q]) /\ ToSet(G[q]) \subseteq U
    BY <1>2, <1>3, <1>5 DEF Lists
  <2>2. ASSUME NEW q \in Procs, NEW r \in Procs, q # r
        PROVE  ToSet(G[q]) \cap ToSet(G[r]) = {}
    <3>1. ToSet(F[q]) \cap ToSet(F[r]) = {} BY <2>2 DEF Lists
    <3> QED BY <1>3, <1>5, <3>1
  <2>3. \A q \in Procs \ U : G[q] = <<>> BY <1>5 DEF Lists
  <2> QED BY <1>5, <2>1, <2>2, <2>3 DEF Lists
<1>8. /\ ToSet(G[p]) = ToSet(F[p]) \ {c}
      /\ \A q \in Procs : q # p => G[q] = F[q] /\ c \notin ToSet(F[q])
  BY <1>1, <1>3, <1>4, <1>5 DEF Lists
<1>9. Orphan(G, c) BY <1>1, <1>8 DEF Orphan
<1>10. \A q \in Pcb :
         /\ l.next[list(q)] = m.next[list(q)] /\ l.prev[list(q)] = m.prev[list(q)]
         /\ q # p => /\ l.next[childrenHead(q)] = m.next[childrenHead(q)]
                     /\ l.prev[childrenHead(q)] = m.prev[childrenHead(q)]
         /\ q \notin ToSet(F[p]) => /\ l.next[sibling(q)] = m.next[sibling(q)]
                                    /\ l.prev[sibling(q)] = m.prev[sibling(q)]
  BY <1>6, FamilyElsewhere
<1>11. Loop(l, list(idle), "list", Q)
  <2>1. idle \in Pcb /\ Procs \subseteq Pcb BY DEF Pcb
  <2> QED BY <1>1, <1>10, <2>1, QueueKept
<1>12. ASSUME NEW q \in U
       PROVE  /\ Loop(l, childrenHead(q), "sibling", G[q])
              /\ q \notin ToSet(Q) => Alone(l, list(q))
              /\ Orphan(G, q) => Alone(l, sibling(q))
  <2>1. q \in Procs /\ Procs \subseteq Pcb /\ ToSet(F[q]) \subseteq Procs BY <1>1 DEF Lists, Pcb
  <2>2. Loop(l, childrenHead(q), "sibling", G[q])
    <3>1. CASE q = p BY <1>1, <1>5, <1>6, <3>1
    <3>2. CASE q # p
      <4>1. ToSet(F[q]) \cap ToSet(F[p]) = {} BY <1>1, <2>1, <3>2 DEF Lists
      <4>2. Loop(l, childrenHead(q), "sibling", F[q])
        BY <1>10, <2>1, <3>2, <4>1, FamilyKept
      <4> QED BY <1>8, <2>1, <3>2, <4>2
    <3> QED BY <3>1, <3>2
  <2>3. ASSUME Orphan(G, q), q # c PROVE Orphan(F, q) /\ q \notin ToSet(F[p])
    BY <1>1, <1>8, <2>3 DEF Orphan
  <2> QED BY <1>6, <1>10, <2>1, <2>2, <2>3 DEF Spelled, Alone
<1> QED BY <1>4, <1>6, <1>7, <1>9, <1>11, <1>12 DEF Spelled, l, G, c

\* A process that is on no list and has no child goes away, with its pointers.
LEMMA ReleasedLinks ==
    ASSUME NEW U, NEW F, NEW Q, Lists(U, F, Q), NEW m, Spelled(m, U, F, Q),
           NEW c \in U, Orphan(F, c), F[c] = <<>>, c \notin ToSet(Q)
    PROVE  Lists(U \ {c}, F, Q) /\ Spelled(Released(m, c), U \ {c}, F, Q)
<1> DEFINE l == Released(m, c)
           C == {list(c), childrenHead(c), sibling(c)}
<1>1. c \in Procs /\ U \subseteq Procs /\ ToSet(Q) \subseteq U /\ Procs \subseteq Pcb
      /\ \A q \in Procs : ToSet(F[q]) \subseteq U \ {c}
  BY DEF Lists, Pcb, Orphan
<1>2. m.next \in Pointers /\ m.prev \in Pointers BY DEF Spelled, Memory
<1>3. list(c) \in Nodes /\ childrenHead(c) \in Nodes /\ sibling(c) \in Nodes
  BY <1>1, NodesDiffer
<1>4. /\ l \in Memory
      /\ \A n \in Nodes \ C : l.next[n] = m.next[n] /\ l.prev[n] = m.prev[n]
  <2> DEFINE x == [[[m.next EXCEPT ![list(c)] = NULL] EXCEPT ![childrenHead(c)] = NULL]
                      EXCEPT ![sibling(c)] = NULL]
             y == [[[m.prev EXCEPT ![list(c)] = NULL] EXCEPT ![childrenHead(c)] = NULL]
                      EXCEPT ![sibling(c)] = NULL]
  <2>1. x \in Pointers /\ y \in Pointers BY <1>2 DEF Pointers
  <2>2. \A n \in Nodes \ C : x[n] = m.next[n] /\ y[n] = m.prev[n] BY <1>2 DEF Pointers
  <2>3. l \in Memory /\ l.next = x /\ l.prev = y
    BY <1>2, <2>1 DEF Released, Spelled, Memory
  <2> QED BY <2>2, <2>3
<1> HIDE DEF l
<1>5. \A q \in Pcb : q # c =>
         /\ l.next[list(q)] = m.next[list(q)] /\ l.prev[list(q)] = m.prev[list(q)]
         /\ l.next[childrenHead(q)] = m.next[childrenHead(q)]
         /\ l.prev[childrenHead(q)] = m.prev[childrenHead(q)]
         /\ l.next[sibling(q)] = m.next[sibling(q)] /\ l.prev[sibling(q)] = m.prev[sibling(q)]
  BY <1>4, NodesDiffer
<1>6. Lists(U \ {c}, F, Q) BY <1>1 DEF Lists
<1>7. idle # c /\ idle \in Pcb BY <1>1, ProcessAssumption DEF Pcb
<1>8. Loop(l, list(idle), "list", Q) BY <1>1, <1>5, <1>7, QueueKept
<1>9. ASSUME NEW q \in U \ {c}
      PROVE  /\ Loop(l, childrenHead(q), "sibling", F[q])
             /\ q \notin ToSet(Q) => Alone(l, list(q))
             /\ Orphan(F, q) => Alone(l, sibling(q))
  <2>1. Loop(l, childrenHead(q), "sibling", F[q]) BY <1>1, <1>5, FamilyKept
  <2> QED BY <1>1, <1>5, <2>1 DEF Spelled, Alone
<1> QED BY <1>4, <1>6, <1>8, <1>9 DEF Spelled, l

-----------------------------------------------------------------------------
(* The pointers spell the lists of the process table                       *)

Live == {p \in Procs : Used(p)}

SpelledOut == Spelled(mem, Live, children, runq)

\* Until a system call panics, the lists are those of the process table.
LEMMA TableLists ==
    ASSUME IInv, mode # "panic"
    PROVE  Lists(Live, children, runq)
<1>1. Live \subseteq Procs BY DEF Live
<1>2. runq \in Seq(Procs) /\ IsInjective(runq) /\ ToSet(runq) \subseteq Live
  BY DEF IInv, TypeOK, RunQueueExact, Live, Used
<1>3. children \in [Procs -> Seq(Procs)] BY DEF IInv, TypeOK
<1>4. /\ \A p, q \in Procs : p # q => ToSet(children[p]) \cap ToSet(children[q]) = {}
      /\ \A p \in Procs : IsInjective(children[p])
      /\ UNION {ToSet(children[p]) : p \in Procs} = {c \in Procs \ {init} : Used(c)}
  BY DEF IInv, OneParent
<1>5. \A p \in Procs : ToSet(children[p]) \subseteq Live BY <1>4 DEF Live
<1>6. \A p \in Procs \ Live : children[p] = <<>>
  <2> SUFFICES ASSUME NEW p \in Procs \ Live, children[p] # <<>> PROVE FALSE
    OBVIOUS
  <2>1. state[p] = "Unused" /\ p # init BY DEF Live, Used, IInv, InitStays
  <2>2. p = cpu BY <2>1 DEF IInv, NoDeadParent
  <2> QED BY <2>1, <2>2 DEF IInv, CurrentHoldsHart
<1> QED BY <1>1, <1>2, <1>3, <1>4, <1>5, <1>6 DEF Lists

\* init_process() links init to the queue.
LEMMA LinksBegin == LinksInit => SpelledOut
<1> SUFFICES ASSUME LinksInit PROVE SpelledOut
  OBVIOUS
<1> DEFINE a == Prepared(NoPointers, idle)
           b == Prepared(a, init)
<1>1. Init /\ mem = Queued(b, init) BY DEF LinksInit
<1>2. /\ init \in Procs /\ init # idle /\ Live = {init} /\ runq = <<init>>
      /\ children = [p \in Procs |-> <<>>]
  BY <1>1, ProcessAssumption DEF Init, Live, Used, Pcb
<1>3. NoPointers \in Memory BY DEF NoPointers, Memory, Pointers
<1>4. a \in Memory /\ Alone(a, list(idle))
  <2>1. idle \in Pcb BY DEF Pcb
  <2> QED BY <1>3, <2>1, PreparedStores, NodesDiffer DEF Alone
<1>5. Lists({}, children, <<>>)
  <2>1. ToSet(<<>>) = {} /\ IsInjective(<<>>) BY DEF ToSet, IsInjective
  <2> QED BY <1>2, <2>1 DEF Lists
<1>6. Spelled(a, {}, children, <<>>) BY <1>4, LoopEmpty DEF Spelled
<1>7. Lists({} \cup {init}, children, <<>>) /\ Spelled(b, {} \cup {init}, children, <<>>)
  BY <1>2, <1>5, <1>6, PreparedLinks
<1> HIDE DEF b
<1>8. {} \cup {init} = {init} /\ init \notin ToSet(<<>>) BY DEF ToSet
<1>9. Spelled(Queued(b, init), {init}, children, Append(<<>>, init))
  BY <1>7, <1>8, QueuedLinks
<1>10. Append(<<>>, init) = <<init>> OBVIOUS
<1> QED BY <1>1, <1>2, <1>9, <1>10 DEF SpelledOut

\* What does not touch a list, and frees and creates no process.
LEMMA SpelledKept ==
    ASSUME SpelledOut, UNCHANGED <<mem, children, runq>>, Live' = Live
    PROVE  SpelledOut'
  BY DEF SpelledOut

\* A yield() puts the process that gives up the hart back on the queue.
LEMMA SpelledYield ==
    ASSUME IInv, SpelledOut, NEW k \in {"user", "wait", "read"}, YieldStep(k),
           mem' = Queued(mem, current)
    PROVE  SpelledOut'
<1>1. /\ current \in Procs /\ state[current] = "Running" /\ mode = "run"
      /\ state' = [state EXCEPT ![current] = "Ready"] /\ UNCHANGED children
  BY YieldEffect
<1>2. runq' = Append(runq, current) BY DEF YieldStep, yield, add_process
<1>3. current \in Live /\ Live' = Live
  BY <1>1 DEF Live, Used, IInv, TypeOK
<1>4. current \notin ToSet(runq) BY <1>1 DEF IInv, RunQueueExact
<1>5. Lists(Live, children, runq) BY <1>1, TableLists
<1>6. Spelled(Queued(mem, current), Live, children, Append(runq, current))
  BY <1>3, <1>4, <1>5, QueuedLinks DEF SpelledOut
<1> QED BY <1>1, <1>2, <1>3, <1>6 DEF SpelledOut

\* schedule() takes the process it dispatches off the queue.
LEMMA SpelledDispatch ==
    ASSUME IInv, SpelledOut, DispatchLinks
    PROVE  SpelledOut'
<1>1. PICK i \in DOMAIN runq :
         /\ FirstIn(runq, "Ready", i)
         /\ runq' = RemoveAt(runq, i)
         /\ state' = [state EXCEPT ![runq[i]] = "Running", ![idle] = "Ready"]
         /\ current' = runq[i]
  BY DEF DispatchLinks, Dispatch
<1>2. mode = "run" /\ UNCHANGED children /\ mem' = L!list_del(mem, list(current'))
  BY DEF DispatchLinks, Dispatch
<1>3. Live' = Live
  <2>1. state[runq[i]] = "Ready" BY <1>1 DEF FirstIn
  <2>2. idle \notin Procs BY ProcessAssumption
  <2>3. state \in [Pcb -> {"Unused", "Ready", "Running", "Exited"}] BY DEF IInv, TypeOK
  <2> QED BY <1>1, <2>1, <2>2, <2>3 DEF Live, Used, Pcb
<1>4. Lists(Live, children, runq) BY <1>2, TableLists
<1>5. Spelled(L!list_del(mem, list(runq[i])), Live, children, RemoveAt(runq, i))
  BY <1>4, DequeuedLinks DEF SpelledOut
<1> QED BY <1>1, <1>2, <1>3, <1>5 DEF SpelledOut

\* sys_fork() prepares the heads of the child, links it to its parent and
\* puts it on the queue.
LEMMA SpelledFork ==
    ASSUME IInv, SpelledOut, ForkLinks
    PROVE  SpelledOut'
<1>1. PICK c \in Procs, n \in Pids \cup {NoPid} :
         /\ state[c] = "Unused"
         /\ state' = [state EXCEPT ![c] = "Ready"]
         /\ children' = list_add(children, current, c)
         /\ runq' = add_process(c)
  BY DEF ForkLinks, sys_fork
<1>2. /\ mode = "run" /\ current \in Procs /\ state[current] = "Running"
      /\ state \in [Pcb -> {"Unused", "Ready", "Running", "Exited"}]
  BY HolderIsCurrent DEF IInv, TypeOK, ForkLinks, sys_fork, At
<1> DEFINE a == Prepared(mem, c)
           b == L!list_add(a, sibling(c), childrenHead(current))
<1>3. mem' = Queued(b, c)
  <2>1. \A child \in Procs : ~Used(child) /\ Used(child)' => child = c
    BY <1>1, <1>2 DEF Used, Pcb
  <2> QED BY <2>1 DEF ForkLinks
<1>4. /\ c \notin Live /\ current \in Live /\ Live' = Live \cup {c}
      /\ c \notin ToSet(runq)
  BY <1>1, <1>2 DEF Live, Used, Pcb, IInv, RunQueueExact
<1>5. Lists(Live, children, runq) BY <1>2, TableLists
<1>6. Orphan(children, c) BY <1>4, <1>5 DEF Lists, Orphan
<1>7. Lists(Live \cup {c}, children, runq) /\ Spelled(a, Live \cup {c}, children, runq)
  BY <1>4, <1>5, PreparedLinks DEF SpelledOut
<1> HIDE DEF a
<1>8. Lists(Live \cup {c}, children', runq) /\ Spelled(b, Live \cup {c}, children', runq)
  BY <1>1, <1>4, <1>6, <1>7, AdoptedLinks
<1> HIDE DEF b
<1>9. Spelled(Queued(b, c), Live \cup {c}, children', Append(runq, c))
  BY <1>4, <1>8, QueuedLinks
<1> QED BY <1>1, <1>3, <1>4, <1>9 DEF SpelledOut, add_process

\* sys_wait() unlinks the child it reaps, and frees it unless it panics.
LEMMA SpelledReap ==
    ASSUME IInv, SpelledOut, NEW i \in DOMAIN children[current], ReapStep(i),
           \E child \in ToSet(children[current]) \ ToSet(children'[current]) :
              LET unlinked == L!list_del(mem, sibling(child)) IN
              mem' = IF Used(child)' THEN unlinked ELSE Released(unlinked, child)
    PROVE  SpelledOut'
<1> DEFINE d == children[current][i]
<1>1. /\ mode = "run" /\ current \in Procs /\ state[current] = "Running"
      /\ children' = list_del(children, current, i) /\ UNCHANGED runq
      /\ state[d] = "Exited"
  BY HolderIsCurrent DEF IInv, ReapStep, Reap, FirstIn
<1>2. state \in [Pcb -> {"Unused", "Ready", "Running", "Exited"}] BY DEF IInv, TypeOK
<1>3. children[current] \in Seq(Procs) /\ IsInjective(children[current])
  BY <1>1 DEF IInv, TypeOK, OneParent
<1>4. children'[current] = RemoveAt(children[current], i)
  BY <1>1 DEF list_del, IInv, TypeOK
<1>5. ToSet(children[current]) \ ToSet(children'[current]) = {d}
  <2>1. d \in ToSet(children[current]) BY <1>3, LenProperties, ToSetIsRange
  <2> QED BY <1>3, <1>4, <2>1, RemoveAtElements
<1> HIDE DEF d
<1>6. PICK c : c = d /\ mem' = IF Used(c)' THEN L!list_del(mem, sibling(c))
                               ELSE Released(L!list_del(mem, sibling(c)), c)
  BY <1>5
<1> DEFINE l == L!list_del(mem, sibling(c))
<1>7. Lists(Live, children, runq) /\ current \in Live BY <1>1, TableLists DEF Live, Used
<1>8. /\ Lists(Live, children', runq) /\ Orphan(children', c) /\ c \in Live
      /\ Spelled(l, Live, children', runq)
  BY <1>1, <1>6, <1>7, UnlinkedLinks DEF SpelledOut, d
<1> HIDE DEF l
<1>9. CASE UNCHANGED state
  <2>1. Live' = Live /\ Used(c)' BY <1>1, <1>6, <1>9 DEF Live, Used
  <2> QED BY <1>1, <1>6, <1>8, <2>1 DEF SpelledOut, l
<1>10. CASE state' = [state EXCEPT ![c] = "Unused"]
  <2>1. c \in Procs BY <1>8 DEF Live
  <2>2. Live' = Live \ {c} /\ ~Used(c)' BY <1>2, <1>10, <2>1 DEF Live, Used, Pcb
  <2>3. c \notin ToSet(runq) BY <1>1, <1>6 DEF IInv, RunQueueExact
  <2>4. children'[c] = <<>>
    <3>1. c # init
      BY <1>1, <1>5, <1>6 DEF IInv, OneParent
    <3>2. c # current /\ c # cpu
      BY <1>1, <1>6, HolderIsCurrent DEF IInv, ReapStep
    <3>3. children[c] = <<>> BY <1>1, <1>6, <2>1, <3>1, <3>2 DEF IInv, NoDeadParent
    <3> QED BY <1>1, <2>1, <3>2, <3>3 DEF list_del, IInv, TypeOK
  <2>5. Spelled(Released(l, c), Live \ {c}, children', runq)
    BY <1>8, <2>3, <2>4, ReleasedLinks
  <2> QED BY <1>1, <1>6, <2>2, <2>5 DEF SpelledOut, l
<1> QED BY <1>6, <1>9, <1>10 DEF ReapStep, Reap, d

\* A turn of the loop of exit_current() moves pos to the front of init's list.
LEMMA SpelledReparent ==
    ASSUME IInv, SpelledOut, ReparentLinks
    PROVE  SpelledOut'
<1>1. PICK p \in Procs : \E i \in DOMAIN children[p] :
         /\ children[p][i] = pos
         /\ children' = list_add(list_del(children, p, i), init, pos)
  BY DEF ReparentLinks, ReparentTurn
<1>2. PICK i \in DOMAIN children[p] :
         /\ children[p][i] = pos
         /\ children' = list_add(list_del(children, p, i), init, pos)
  BY <1>1
<1>3. mode = "reparent" /\ UNCHANGED <<state, runq>> /\ Live' = Live
  BY DEF ReparentLinks, ReparentTurn, Live, Used
<1> DEFINE l == L!list_del(mem, sibling(pos))
           G == list_del(children, p, i)
<1>4. mem' = L!list_add(l, sibling(pos), childrenHead(init)) BY DEF ReparentLinks
<1>5. Lists(Live, children, runq) BY <1>3, TableLists
<1>6. p \in Live /\ init \in Live
  <2>1. children[p] # <<>> BY <1>2
  <2>2. p \in Live BY <1>5, <2>1 DEF Lists
  <2> QED BY <2>2, ProcessAssumption DEF IInv, InitStays, Live
<1>7. /\ Lists(Live, G, runq) /\ Orphan(G, pos) /\ pos \in Live
      /\ Spelled(l, Live, G, runq)
  BY <1>2, <1>5, <1>6, UnlinkedLinks DEF SpelledOut
<1> HIDE DEF l, G
<1>8. Spelled(L!list_add(l, sibling(pos), childrenHead(init)), Live, list_add(G, init, pos), runq)
  BY <1>6, <1>7, AdoptedLinks
<1> QED BY <1>2, <1>3, <1>4, <1>8 DEF SpelledOut, G

\* Every step makes the list.h calls that keep the pointers and the lists in accord.
LEMMA SpelledStep ==
    ASSUME IInv, SpelledOut, [LinksNext]_lvars
    PROVE  SpelledOut'
<1> USE ProcessAssumption DEF Pcb
<1>1. state \in [Pcb -> {"Unused", "Ready", "Running", "Exited"}] BY DEF IInv, TypeOK
<1>2. CASE NoLinks
  <2>1. UNCHANGED <<mem, children, runq>>
    BY <1>2 DEF NoLinks, ScheduleReturns, TrapPanics, sys_exec, exit_current,
                ExitToScheduler, ExitWithChildren, Spin, vars
  <2>2. \/ UNCHANGED state
        \/ state' = [state EXCEPT ![idle] = "Running"]
        \/ cpu \in Procs /\ mode = "run" /\ state' = [state EXCEPT ![current] = "Exited"]
    BY <1>2 DEF NoLinks, ScheduleReturns, TrapPanics, sys_exec, exit_current,
                ExitToScheduler, ExitWithChildren, Spin, vars, At
  <2>3. cpu \in Procs /\ mode = "run" => current \in Procs /\ state[current] = "Running"
    BY HolderIsCurrent DEF IInv
  <2>4. Live' = Live BY <1>1, <2>2, <2>3 DEF Live, Used
  <2> QED BY <2>1, <2>4, SpelledKept
<1>3. CASE DispatchLinks BY <1>3, SpelledDispatch
<1>4. CASE YieldLinks
  <2>1. CASE \E k \in {"user", "wait", "read"} : YieldStep(k)
    <3>1. cpu' = idle BY <2>1 DEF YieldStep, yield
    <3> QED BY <1>4, <2>1, <3>1, SpelledYield DEF YieldLinks
  <2>2. CASE ReadReturns
    <3>1. cpu' # idle BY <2>2 DEF ReadReturns
    <3>2. UNCHANGED <<mem, children, runq>> /\ Live' = Live
      BY <1>4, <2>2, <3>1 DEF YieldLinks, ReadReturns, Live, Used
    <3> QED BY <3>2, SpelledKept
  <2>3. ReadReturns \/ \E k \in {"user", "wait", "read"} : YieldStep(k)
    BY <1>4 DEF YieldLinks, supervisor_timer, sys_read, ReadResumes, ReadTurn, At,
                YieldStep, ReadReturns
  <2> QED BY <2>1, <2>2, <2>3
<1>5. CASE ForkLinks BY <1>5, SpelledFork
<1>6. CASE WaitLinks
  <2>1. /\ mode = "run" /\ cpu \in Procs
        /\ (\E i \in DOMAIN children[current] : ReapStep(i)) \/ YieldStep("wait") \/ UNCHANGED vars
    BY <1>6, WaitCases DEF WaitLinks
  <2>2. CASE \E i \in DOMAIN children[current] : ReapStep(i)
    <3>1. PICK i \in DOMAIN children[current] : ReapStep(i) BY <2>2
    <3>2. children' # children
      <4>1. current \in Procs /\ children \in [Procs -> Seq(Procs)]
        BY <2>1, HolderIsCurrent DEF IInv, TypeOK
      <4>2. children'[current] = RemoveAt(children[current], i)
        BY <3>1, <4>1 DEF ReapStep, Reap, list_del
      <4>3. /\ children[current] \in Seq(Procs) /\ Len(children[current]) \in Nat
            /\ Len(children'[current]) = Len(children[current]) - 1
        BY <4>1, <4>2, RemoveAtIsSeq, LenProperties
      <4> QED BY <4>3
    <3> QED BY <1>6, <3>1, <3>2, SpelledReap DEF WaitLinks
  <2>3. CASE YieldStep("wait")
    <3>1. cpu' = idle /\ children' = children BY <2>3 DEF YieldStep, yield
    <3> QED BY <1>6, <2>3, <3>1, SpelledYield DEF WaitLinks
  <2>4. CASE UNCHANGED vars
    <3>1. cpu' # idle /\ children' = children BY <2>1, <2>4 DEF vars
    <3>2. UNCHANGED <<mem, children, runq>> /\ Live' = Live
      BY <1>6, <2>4, <3>1 DEF WaitLinks, vars, Live, Used
    <3> QED BY <3>2, SpelledKept
  <2> QED BY <2>1, <2>2, <2>3, <2>4
<1>7. CASE ReparentLinks BY <1>7, SpelledReparent
<1>8. CASE UNCHANGED lvars
  <2>1. UNCHANGED <<mem, children, runq>> /\ Live' = Live BY <1>8 DEF lvars, vars, Live, Used
  <2> QED BY <2>1, SpelledKept
<1> QED BY <1>2, <1>3, <1>4, <1>5, <1>6, <1>7, <1>8 DEF LinksNext

\* What the pointers spell is what LinksExact says.
LEMMA SpelledIsExact ==
    ASSUME IInv, SpelledOut
    PROVE  LinksExact
<1>1. runq \in Seq(Procs) /\ children \in [Procs -> Seq(Procs)] /\ <<>> \in Seq(Procs)
  BY DEF IInv, TypeOK
<1>2. L!Circle(mem, list(idle), [i \in DOMAIN runq |-> list(runq[i])])
  <2>1. L!Circle(mem, list(idle), [i \in DOMAIN runq |-> <<"list", runq[i]>>])
    BY <1>1, LoopIs DEF SpelledOut, Spelled
  <2> QED BY <2>1 DEF list
<1>3. ASSUME NEW p \in Procs, Used(p)
      PROVE  L!Circle(mem, childrenHead(p),
                      [i \in DOMAIN children[p] |-> sibling(children[p][i])])
  <2>1. children[p] \in Seq(Procs) /\ p \in Live BY <1>1, <1>3 DEF Live
  <2>2. Loop(mem, childrenHead(p), "sibling", children[p])
    BY <2>1 DEF SpelledOut, Spelled
  <2>3. L!Circle(mem, childrenHead(p), [i \in DOMAIN children[p] |-> <<"sibling", children[p][i]>>])
    BY <2>1, <2>2, LoopIs
  <2> QED BY <2>3 DEF sibling
<1>4. ASSUME NEW e, Alone(mem, e) PROVE L!Circle(mem, e, <<>>)
  <2>1. Loop(mem, e, "list", <<>>) BY <1>4, LoopEmpty
  <2>2. [i \in DOMAIN <<>> |-> <<"list", <<>>[i]>>] = <<>> OBVIOUS
  <2>3. L!Circle(mem, e, [i \in DOMAIN <<>> |-> <<"list", <<>>[i]>>])
    BY <1>1, <2>1, LoopIs
  <2> QED BY <2>2, <2>3
<1>5. ASSUME NEW p \in Procs, Used(p)
      PROVE  /\ p \notin ToSet(runq) => Alone(mem, list(p))
             /\ (\A q \in Procs : p \notin ToSet(children[q])) => Alone(mem, sibling(p))
  BY <1>5 DEF SpelledOut, Spelled, Live, Orphan
<1> QED BY <1>2, <1>3, <1>4, <1>5 DEF LinksExact

\* The pointers are those of a Process behaviour.
LEMMA LinksAreSteps == LinksSpec => Spec
<1>1. LinksInit => Init BY DEF LinksInit
<1>2. [LinksNext]_lvars => [Next]_vars
  BY DEF LinksNext, NoLinks, DispatchLinks, YieldLinks, ForkLinks, WaitLinks, ReparentLinks,
         lvars, Next, schedule
<1> QED BY <1>1, <1>2, PTL DEF LinksSpec, Spec

\* Every walk of a list, every list_empty() and every list_del() of process.c
\* meets what the queue and the families say.
THEOREM LinksStayExact == LinksSpec => []LinksExact
<1>1. LinksSpec => []IInv BY LinksAreSteps, Invariance, PTL
<1>2. LinksInit => SpelledOut BY LinksBegin
<1>3. IInv /\ SpelledOut /\ [LinksNext]_lvars => SpelledOut' BY SpelledStep
<1>4. IInv /\ SpelledOut => LinksExact BY SpelledIsExact
<1> QED BY <1>1, <1>2, <1>3, <1>4, PTL DEF LinksSpec
=============================================================================
