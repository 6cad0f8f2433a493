---------------------------- MODULE ProcessLinks ----------------------------
(***************************************************************************)
(* Process with the pointers its sequences stand for: every process        *)
(* control block has the list heads list, children and sibling, and each   *)
(* step of process.c makes the list.h calls of the code on them.           *)
(***************************************************************************)
EXTENDS ProcessTree

VARIABLE mem    \* the pointers of every struct list_head

lvars == <<vars, mem>>

L == INSTANCE ListHead

list(p) == <<"list", p>>
childrenHead(p) == <<"children", p>>
sibling(p) == <<"sibling", p>>
Nodes == {"list", "children", "sibling"} \X Pcb

\* The three INIT_LIST_HEADs of a new process, and the heads of a freed one.
Prepared(m, p) ==
    L!INIT_LIST_HEAD(L!INIT_LIST_HEAD(L!INIT_LIST_HEAD(
        m, list(p)), childrenHead(p)), sibling(p))
Released(m, p) ==
    [m EXCEPT !.next[list(p)] = NULL, !.next[childrenHead(p)] = NULL,
              !.next[sibling(p)] = NULL, !.prev[list(p)] = NULL,
              !.prev[childrenHead(p)] = NULL, !.prev[sibling(p)] = NULL]

\* The process joins the scheduling queue.
Queued(m, p) == L!list_add_tail(m, list(p), list(idle))

NoPointers == [next |-> [n \in Nodes |-> NULL], prev |-> [n \in Nodes |-> NULL]]

LinksInit ==
    /\ Init
    /\ mem = Queued(Prepared(Prepared(NoPointers, idle), init), init)

\* Steps that leave the lists alone.
NoLinks ==
    /\ ScheduleReturns \/ TrapPanics \/ sys_exec \/ exit_current \/ Spin
    /\ UNCHANGED mem

DispatchLinks ==
    /\ Dispatch
    /\ mem' = L!list_del(mem, list(current'))

\* A handler that comes to yield(), or one that does not.
YieldLinks ==
    /\ supervisor_timer \/ sys_read \/ ReadResumes
    /\ mem' = IF cpu' = idle THEN Queued(mem, current) ELSE mem

ForkLinks ==
    /\ sys_fork
    /\ \E child \in Procs :
        /\ ~Used(child) /\ Used(child)'
        /\ mem' = Queued(L!list_add(Prepared(mem, child), sibling(child),
                                    childrenHead(current)), child)

WaitLinks ==
    /\ sys_wait \/ WaitResumes
    /\ IF children' = children
       THEN mem' = IF cpu' = idle THEN Queued(mem, current) ELSE mem
       ELSE \E child \in ToSet(children[current]) \ ToSet(children'[current]) :
              LET unlinked == L!list_del(mem, sibling(child)) IN
              mem' = IF Used(child)' THEN unlinked ELSE Released(unlinked, child)

\* The next entry is the one that pos->sibling.next points to once pos has
\* been moved.
ReparentLinks ==
    /\ ReparentTurn
    /\ mem' = L!list_add(L!list_del(mem, sibling(pos)), sibling(pos),
                         childrenHead(init))
    /\ sibling(pos') = mem'.next[sibling(pos)]

LinksNext ==
    \/ NoLinks
    \/ DispatchLinks
    \/ YieldLinks
    \/ ForkLinks
    \/ WaitLinks
    \/ ReparentLinks

LinksSpec == LinksInit /\ [][LinksNext]_lvars

\* The pointers spell the queue and every family, forwards and backwards, and
\* a head or an entry that is on no list points to itself: list_del() of any
\* entry, list_empty() of any head and a walk from any head do what the
\* sequences say, after every mix of dispatches, forks, exits and reaps.
LinksExact ==
    /\ L!Circle(mem, list(idle), [i \in DOMAIN runq |-> list(runq[i])])
    /\ \A p \in Procs : Used(p) =>
        /\ L!Circle(mem, childrenHead(p),
                    [i \in DOMAIN children[p] |-> sibling(children[p][i])])
        /\ p \notin ToSet(runq) => L!Circle(mem, list(p), <<>>)
        /\ (\A q \in Procs : p \notin ToSet(children[q]))
              => L!Circle(mem, sibling(p), <<>>)
=============================================================================
