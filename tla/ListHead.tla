------------------------------ MODULE ListHead ------------------------------
(***************************************************************************)
(* The doubly linked circular lists of kernel/list.h.  A memory m gives    *)
(* the pointers next and prev of each struct list_head; the macros and the *)
(* inline functions are the memories they leave behind, their stores in    *)
(* the order of the code.                                                  *)
(***************************************************************************)
EXTENDS Integers, Sequences

INIT_LIST_HEAD(m, ptr) == [m EXCEPT !.next[ptr] = ptr, !.prev[ptr] = ptr]

\* Mutant: next->prev is not set.
__list_add_forward(m, new, prev, next) ==
    [m EXCEPT !.next[new] = next, !.prev[new] = prev, !.next[prev] = new]

__list_add(m, new, prev, next) ==
    [m EXCEPT !.prev[next] = new, !.next[new] = next,
              !.prev[new] = prev, !.next[prev] = new]

list_add(m, new, head) == __list_add(m, new, head, m.next[head])

list_add_tail(m, new, head) == __list_add(m, new, m.prev[head], head)

\* The second store reads entry->prev after the first one has been made.
list_del(m, entry) ==
    LET ahead == [m EXCEPT !.prev[m.next[entry]] = m.prev[entry]]
        both == [ahead EXCEPT !.next[ahead.prev[entry]] = ahead.next[entry]]
    IN INIT_LIST_HEAD(both, entry)

list_empty(m, head) == m.next[head] = head

-----------------------------------------------------------------------------

\* The circle from head goes through exactly these entries, in both
\* directions.
Circle(m, head, entries) ==
    LET nodes == <<head>> \o entries IN
    \A i \in DOMAIN nodes :
        LET next == nodes[(i % Len(nodes)) + 1] IN
        m.next[nodes[i]] = next /\ m.prev[next] = nodes[i]
=============================================================================
