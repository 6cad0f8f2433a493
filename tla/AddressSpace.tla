---------------------------- MODULE AddressSpace ----------------------------
(***************************************************************************)
(* The address spaces of the processes: kernel/mapping.c, from_elf() of    *)
(* kernel/elf.c, and what fork, exec, wait and the context switch do with  *)
(* them.  The model keeps the memory blocks an address space is made of,   *)
(* what user pages hold, and the satp register.                            *)
(*                                                                         *)
(* A page table is its root, its tables below the root by level and        *)
(* position, and the entries of its leaves.  exec is several steps, since  *)
(* it frees an address space that was in use until then.                   *)
(***************************************************************************)
EXTENDS Integers, FiniteSets

CONSTANTS
    Procs, init,    \* the blocks for processes, and the first process
    idle,           \* the boot context, which runs schedule()
    NULL,           \* the null pointer
    NumBlocks,      \* how many blocks alloc() can hand out
    Picks(_, _),    \* the ways to place objects in blocks that are looked at
    Fanout,         \* entries of a table: 512
    KernelSegs,     \* the sets of pages of the kernel's Linear segments
    USER_STACK,     \* the page of the user stack
    Programs,       \* ELF files: sets of segments, functions from pages to Values
    Values          \* what a user page can hold

Blocks == 1 .. NumBlocks
Contexts == Procs \cup {idle}
KernelPages == UNION KernelSegs

ASSUME AddressSpaceAssumption ==
    /\ init \in Procs /\ idle \notin Procs /\ NULL \notin Contexts
    /\ NumBlocks \in Nat /\ NULL \notin Blocks /\ NULL \notin Values
    /\ Fanout \in Nat \ {0}
    /\ KernelPages \subseteq Nat /\ USER_STACK \in Nat
    /\ USER_STACK \notin KernelPages
    /\ \A elf \in Programs : \A f \in elf :
          f \in [DOMAIN f -> Values] /\ DOMAIN f \subseteq Nat \ {USER_STACK}

VARIABLES
    kind,       \* what each block was allocated for, "free" if it is not
    content,    \* what the blocks of user pages and user stacks hold
    mm,         \* ProcessControlBlock.mm, with the MemoryMap it points to
    own,        \* the process control block and the two stacks
    cx_satp,    \* process_cx.satp, as the block of a root table
    satp,       \* the register satp, as the block of a root table
    current,    \* the context that has the hart
    state,      \* "unused", "live" or "exited"
    loading,    \* what sys_exec() is building: the new mm and buf
    mode        \* "run", the part of sys_exec() that is done, "panic" or "wedged"

vars == <<kind, content, mm, own, cx_satp, satp, current, state, loading, mode>>

-----------------------------------------------------------------------------
(* Memory                                                                  *)

\* The function f, but y at x.
With(f, x, y) == [d \in DOMAIN f \cup {x} |-> IF d = x THEN y ELSE f[d]]

\* The objects of one kind: <<kind, which of them>>, with 0 for a sole one.
Of(k, which) == {<<k, x>> : x \in which}
Sole == {0}

\* alloc() places each of a set of objects in a free block of its own: which
\* ones is the business of Buddy.
Placements(objects, k) ==
    {at \in Picks(objects, k) :
        /\ DOMAIN at = objects
        /\ \A x \in objects : at[x] \in Blocks /\ k[at[x]] = "free"
        /\ \A x, y \in objects : at[x] = at[y] => x = y}

\* alloc() has a block for each object; if not, it panics.
Enough(objects, k) ==
    Cardinality(objects) <= Cardinality({b \in Blocks : k[b] = "free"})

\* The blocks after alloc() of the objects placed at `at`, and after dealloc().
Alloc(at, k) ==
    [b \in Blocks |-> IF \E x \in DOMAIN at : at[x] = b
                      THEN (CHOOSE x \in DOMAIN at : at[x] = b)[1]
                      ELSE k[b]]
Dealloc(blocks, k) == [b \in Blocks |-> IF b \in blocks THEN "free" ELSE k[b]]

Cleared(blocks) == [b \in Blocks |-> IF b \in blocks THEN NULL ELSE content[b]]

\* The contents c once data, a function from pages, is in the pages of m.
Filled(c, m, data) ==
    [b \in Blocks |-> IF \E v \in DOMAIN data : m.pte[v] = b
                      THEN data[CHOOSE v \in DOMAIN data : m.pte[v] = b]
                      ELSE c[b]]

-----------------------------------------------------------------------------
(* Segments and page tables                                                *)

Linear(pages) == [pages |-> pages, type |-> "Linear"]
Framed(pages) == [pages |-> pages, type |-> "Framed"]

PagesOf(segs) == UNION {s.pages : s \in segs}
FramedPages(segs) == PagesOf({s \in segs : s.type = "Framed"})

\* The tables find_entry() goes through below the root on its way to a page,
\* allocating those that are not there.
TablesFor(v) == {<<1, v \div (Fanout * Fanout)>>, <<0, v \div Fanout>>}
TablesOf(pages) == UNION {TablesFor(v) : v \in pages}

\* What a new memory map for the segments segs is made of.
Objects(segs) ==
    Of("mm", Sole) \cup Of("root", Sole) \cup Of("table", TablesOf(PagesOf(segs)))
    \cup Of("segment", {s.pages : s \in segs}) \cup Of("page", FramedPages(segs))

\* new_memory_map(), then new_segment() and map_segment() for each of segs,
\* those in linked on the segment list.  The physical page behind a Linear
\* page is none of alloc()'s.
MemoryMap(segs, linked, at) ==
    [self   |-> at[<<"mm", 0>>],
     root   |-> at[<<"root", 0>>],
     tables |-> [t \in TablesOf(PagesOf(segs)) |-> at[<<"table", t>>]],
     segs   |-> {[pages |-> s.pages, type |-> s.type,
                  self |-> at[<<"segment", s.pages>>]] : s \in linked},
     pte    |-> [v \in PagesOf(segs) |->
                    IF v \in FramedPages(segs) THEN at[<<"page", v>>] ELSE NULL]]

\* map_segment() panics on a page that is mapped already.
Overlap(segs) == \E s, t \in segs : s # t /\ s.pages \cap t.pages # {}

\* The kernel's segments, and with them those of from_elf(elf).
Kernel == {Linear(pages) : pages \in KernelSegs}
ElfSegs(elf) == Kernel \cup {Framed(DOMAIN f) : f \in elf}
Loadable == {elf \in Programs : ~Overlap(ElfSegs(elf))}
ElfPages(elf) == UNION {DOMAIN f : f \in elf}
UserPages == {USER_STACK} \cup UNION {ElfPages(elf) : elf \in Loadable}

\* What from_elf() copies into the pages.
Data(elf) ==
    [v \in ElfPages(elf) |-> (CHOOSE f \in elf : v \in DOMAIN f)[v]]

\* The tables that map_pages() of the user stack adds to m.
StackTables(m) == TablesFor(USER_STACK) \ DOMAIN m.tables

\* Mutant: the new tables are not entered in the page table.
MapStack_unentered(m, b, at) == [m EXCEPT !.pte = With(@, USER_STACK, b)]

\* m with the user stack in block b.
MapStack(m, b, at) ==
    [m EXCEPT !.tables = [t \in DOMAIN @ \cup StackTables(m) |->
                             IF t \in DOMAIN @ THEN @[t] ELSE at[<<"table", t>>]],
              !.pte = With(@, USER_STACK, b)]

\* Mutants: frees every mapped frame, the stack's too; the root alone of the
\* tables.
dealloc_memory_map_stack(m) ==
    ({m.pte[v] : v \in DOMAIN m.pte} \ {NULL})
    \cup {m.tables[t] : t \in DOMAIN m.tables} \cup {m.root}
dealloc_memory_map_flat(m) ==
    {m.pte[v] : v \in FramedPages(m.segs)} \cup {m.root}

\* The blocks dealloc_memory_map() frees: the frames of the segments on the
\* list and all tables, but neither the segments nor the memory map.
dealloc_memory_map(m) ==
    {m.pte[v] : v \in FramedPages(m.segs)}
    \cup {m.tables[t] : t \in DOMAIN m.tables} \cup {m.root}

\* Who has an address space.
Living == {p \in Procs : state[p] # "unused"}
Mapped == {idle} \cup Living

\* The address space whose root table is in block b maps the kernel.
MapsKernel(b) ==
    \E p \in Mapped : mm[p].root = b /\ KernelPages \subseteq DOMAIN mm[p].pte

-----------------------------------------------------------------------------
(* init_process() has built the address space of idle and the init process *)

\* What a process has beside its address space.
Owned == Of("pcb", Sole) \cup Of("kstack", Sole) \cup Of("ustack", Sole)
Owning(at) ==
    [pcb    |-> at[<<"pcb", 0>>],
     kstack |-> at[<<"kstack", 0>>],
     ustack |-> at[<<"ustack", 0>>]]

\* What a process with the segments segs is made of.
ProcessObjects(segs) == Objects(segs) \cup Owned \cup Of("table", TablesFor(USER_STACK))

FreeBlocks == [b \in Blocks |-> "free"]

Init ==
    \E elf \in Loadable, x \in Values, at0 \in Placements(Objects(Kernel), FreeBlocks) :
    \E at \in Placements(ProcessObjects(ElfSegs(elf)), Alloc(at0, FreeBlocks)) :
        LET m == MapStack(MemoryMap(ElfSegs(elf), ElfSegs(elf), at), at[<<"ustack", 0>>], at)
        IN  /\ kind = Alloc(at, Alloc(at0, FreeBlocks))
            /\ content = Filled([b \in Blocks |-> NULL], m,
                                With(Data(elf), USER_STACK, x))
            /\ mm = [p \in Contexts |->
                  CASE p = init -> m
                    [] p = idle -> MemoryMap(Kernel, Kernel, at0)
                    [] OTHER -> NULL]
            /\ own = [p \in Procs |-> IF p = init THEN Owning(at) ELSE NULL]
            /\ cx_satp = [p \in Contexts |-> IF p = init THEN m.root ELSE NULL]
            /\ satp = at0[<<"root", 0>>]
            /\ current = idle
            /\ state = [p \in Procs |-> IF p = init THEN "live" ELSE "unused"]
            /\ loading = NULL
            /\ mode = "run"

-----------------------------------------------------------------------------
(* The hart                                                                *)

\* __switch(current, p): saves satp and loads that of p; without the kernel
\* there the hart has no instruction to go on with.
SwitchTo(p) ==
    /\ current' = p
    /\ cx_satp' = [cx_satp EXCEPT ![current] = satp]
    /\ satp' = cx_satp[p]
    /\ mode' = IF MapsKernel(cx_satp[p]) THEN "run" ELSE "wedged"

\* schedule() picks a process.  Which one is the business of Process.
Dispatch ==
    /\ mode = "run" /\ current = idle
    /\ \E p \in Procs : state[p] = "live" /\ SwitchTo(p)
    /\ UNCHANGED <<kind, content, mm, own, state, loading>>

AtUser == mode = "run" /\ current # idle

yield ==
    /\ AtUser
    /\ SwitchTo(idle)
    /\ UNCHANGED <<kind, content, mm, own, state, loading>>

exit_current ==
    /\ AtUser
    /\ state' = [state EXCEPT ![current] = "exited"]
    /\ SwitchTo(idle)
    /\ UNCHANGED <<kind, content, mm, own, loading>>

\* User code writes to a page that the table in satp maps.
Store ==
    /\ AtUser
    /\ \E p \in Living, v \in UserPages, x \in Values :
        /\ mm[p].root = satp
        /\ v \in DOMAIN mm[p].pte
        /\ content' = [content EXCEPT ![mm[p].pte[v]] = x]
    /\ UNCHANGED <<kind, mm, own, cx_satp, satp, current, state, loading, mode>>

panic ==
    /\ mode' = "panic"
    /\ UNCHANGED <<kind, content, mm, own, cx_satp, satp, current, state, loading>>

-----------------------------------------------------------------------------
(* sys_fork()                                                              *)

\* Mutant: the frames are mapped, and stay cleared.
Copied_zero(src) ==
    With([v \in FramedPages(src.segs) |-> CHOOSE x \in Values : TRUE],
         USER_STACK, content[own[current].ustack])

\* What is copied for the child: the pages of each Framed segment on src's
\* list, and the user stack.
Copied(src) ==
    With([v \in FramedPages(src.segs) |-> content[src.pte[v]]],
         USER_STACK, content[own[current].ustack])

\* copy_mm() maps every segment on src's list, but `continue`s before it links
\* a Linear one into the copy.
copy_mm(src, at) == MemoryMap(src.segs, {s \in src.segs : s.type = "Framed"}, at)

sys_fork ==
    /\ AtUser
    /\ LET src     == mm[current]
           objects == ProcessObjects(src.segs)
       IN  IF ~Enough(objects, kind)
           THEN panic
           ELSE \E at \in Placements(objects, kind), child \in Procs :
                LET dst == MapStack(copy_mm(src, at), at[<<"ustack", 0>>], at) IN
                  /\ state[child] = "unused"
                  /\ state' = [state EXCEPT ![child] = "live"]
                  /\ kind' = Alloc(at, kind)
                  /\ own' = [own EXCEPT ![child] = Owning(at)]
                  /\ mm' = [mm EXCEPT ![child] = dst]
                  /\ content' = Filled(content, dst, Copied(src))
                  /\ cx_satp' = [cx_satp EXCEPT ![child] = dst.root]
                  /\ UNCHANGED <<satp, current, loading, mode>>

-----------------------------------------------------------------------------
(* sys_exec() of a file that exists                                        *)

\* Reads the file into buf and builds the new address space.
LoadObjects(elf) == Of("buf", Sole) \cup Objects(ElfSegs(elf))

exec_load ==
    /\ AtUser
    /\ \E elf \in Programs :
        IF elf \notin Loadable \/ ~Enough(LoadObjects(elf), kind)
        THEN panic
        ELSE \E at \in Placements(LoadObjects(elf), kind) :
             LET new == MemoryMap(ElfSegs(elf), ElfSegs(elf), at) IN
                /\ kind' = Alloc(at, kind)
                /\ content' = Filled(content, new, Data(elf))
                /\ loading' = [mm |-> new, buf |-> at[<<"buf", 0>>]]
                /\ mode' = "loaded"
                /\ UNCHANGED <<mm, own, cx_satp, satp, current, state>>

\* Mutant: the old address space stays active.
exec_activate_skipped ==
    /\ mode = "loaded"
    /\ mode' = "activated"
    /\ UNCHANGED <<kind, content, mm, own, cx_satp, satp, current, state, loading>>

exec_activate ==
    /\ mode = "loaded"
    /\ satp' = loading.mm.root
    /\ mode' = "activated"
    /\ UNCHANGED <<kind, content, mm, own, cx_satp, current, state, loading>>

\* Replaces the old address space and frees it.
exec_replace ==
    /\ mode = "activated"
    /\ mm' = [mm EXCEPT ![current] = loading.mm]
    /\ kind' = Dealloc(dealloc_memory_map(mm[current]), kind)
    /\ content' = Cleared(dealloc_memory_map(mm[current]))
    /\ cx_satp' = [cx_satp EXCEPT ![current] = loading.mm.root]
    /\ mode' = "replaced"
    /\ UNCHANGED <<own, satp, current, state, loading>>

\* Replaces the user stack, which is not cleared, maps it, and frees buf.
StackObjects(m) == Of("ustack", Sole) \cup Of("table", StackTables(m))

exec_stack ==
    /\ mode = "replaced"
    /\ LET k       == Dealloc({own[current].ustack}, kind)
           objects == StackObjects(mm[current])
       IN  IF ~Enough(objects, k)
           THEN panic
           ELSE \E at \in Placements(objects, k), x \in Values :
                LET stack == at[<<"ustack", 0>>] IN
                /\ kind' = Dealloc({loading.buf}, Alloc(at, k))
                /\ own' = [own EXCEPT ![current].ustack = stack]
                /\ mm' = [mm EXCEPT ![current] = MapStack(@, stack, at)]
                /\ content' = [Cleared({own[current].ustack}) EXCEPT ![stack] = x]
                /\ loading' = NULL
                /\ mode' = "run"
                /\ UNCHANGED <<cx_satp, satp, current, state>>

sys_exec == exec_load \/ exec_activate \/ exec_replace \/ exec_stack

-----------------------------------------------------------------------------
(* sys_wait() reaps.  Which exited process is whose child is the business  *)
(* of Process; nobody reaps init.                                          *)

Reaped(p) ==
    {own[p].ustack, own[p].kstack, own[p].pcb} \cup dealloc_memory_map(mm[p])

sys_wait ==
    /\ AtUser
    /\ \E child \in Procs \ {init} :
        /\ state[child] = "exited"
        /\ state' = [state EXCEPT ![child] = "unused"]
        /\ kind' = Dealloc(Reaped(child), kind)
        /\ content' = Cleared(Reaped(child))
        /\ mm' = [mm EXCEPT ![child] = NULL]
        /\ own' = [own EXCEPT ![child] = NULL]
        /\ cx_satp' = [cx_satp EXCEPT ![child] = NULL]
    /\ UNCHANGED <<satp, current, loading, mode>>

-----------------------------------------------------------------------------
\* panic() has shut the machine down, the hart is wedged, or no process is
\* left and main() has shut it down.
Halted ==
    \/ mode \in {"panic", "wedged"}
    \/ mode = "run" /\ current = idle /\ \A p \in Procs : state[p] # "live"

Next ==
    \/ Dispatch \/ yield \/ exit_current \/ Store
    \/ sys_fork \/ sys_exec \/ sys_wait
    \/ Halted /\ UNCHANGED vars

Spec == Init /\ [][Next]_vars

-----------------------------------------------------------------------------
(* Properties                                                              *)

Types ==
    /\ kind \in [Blocks -> {"free", "mm", "root", "table", "segment", "page",
                            "pcb", "kstack", "ustack", "buf"}]
    /\ content \in [Blocks -> Values \cup {NULL}]
    /\ state \in [Procs -> {"unused", "live", "exited"}]
    /\ \A p \in Procs \ Living : mm[p] = NULL /\ own[p] = NULL
    /\ current \in Contexts
    /\ mode \in {"run", "loaded", "activated", "replaced", "panic", "wedged"}
    /\ (mode = "run") => (loading = NULL)

\* Tables, contents and registers have their types: a root table is one, and
\* the pages of an address space are mapped to blocks of user pages or to
\* physical pages of the kernel.
TypeOK ==
    /\ Types
    /\ \A p \in Mapped :
          /\ mm[p].root \in Blocks /\ mm[p].self \in Blocks
          /\ TablesOf(DOMAIN mm[p].pte) = DOMAIN mm[p].tables
          /\ \A v \in DOMAIN mm[p].pte : (mm[p].pte[v] = NULL) <=> (v \in KernelPages)

\* What the memory map m is made of, as <<owner, kind, which, block>>.
MapHoldings(o, m) ==
    {<<o, "mm", 0, m.self>>, <<o, "root", 0, m.root>>}
    \cup {<<o, "table", t, m.tables[t]>> : t \in DOMAIN m.tables}
    \cup {<<o, "segment", s.pages, s.self>> : s \in m.segs}
    \cup {<<o, "page", v, m.pte[v]>> : v \in FramedPages(m.segs)}

OwnHoldings(p, r) == {<<p, x, 0, r[x]>> : x \in {"pcb", "kstack", "ustack"}}

\* What sys_exec() holds until it is the process's.
LoadHoldings ==
    (IF mode \in {"loaded", "activated", "replaced"}
     THEN {<<NULL, "buf", 0, loading.buf>>}
     ELSE {})
    \cup
    (IF mode \in {"loaded", "activated"} THEN MapHoldings(NULL, loading.mm) ELSE {})

\* What all processes and sys_exec() hold.
Holdings ==
    (UNION {MapHoldings(p, mm[p]) : p \in Mapped})
    \cup (UNION {OwnHoldings(p, own[p]) : p \in Living})
    \cup LoadHoldings

\* No block serves two purposes: page tables, user pages, stacks and the
\* structures of all processes, and of the sys_exec() in progress, are
\* different blocks, allocated as what they serve as.
OneOwner ==
    /\ \A h \in Holdings : kind[h[4]] = h[2]
    /\ \A g, h \in Holdings : g[4] = h[4] => g = h

\* fork, exec and wait give back every frame: each page table and user page
\* that is allocated belongs to a process or to the sys_exec() in progress.
FramesReturned ==
    \A b \in Blocks :
        kind[b] \in {"root", "table", "page"} => \E h \in Holdings : h[4] = b

\* The hart always translates with a root table that is allocated, that of
\* whose it executes except where sys_exec() changes it, and whoever the hart
\* can be switched to has saved the root table of its own address space.
SatpExact ==
    /\ kind[satp] = "root"
    /\ mode # "activated" => satp = mm[current].root
    /\ \A p \in Mapped \ {current} :
          (p # idle => state[p] = "live") => cx_satp[p] = mm[p].root

\* Each process has a memory of its own, whatever the others do: fork copies
\* it, exec replaces it, a store changes it in one place, wait takes it away.
Memory ==
    [p \in Living |->
        [v \in UserPages \cap DOMAIN mm[p].pte |-> content[mm[p].pte[v]]]]

VM == INSTANCE VirtualMemory WITH
    Proc <- Procs, stack <- USER_STACK, memory <- Memory,
    Programs <- {Data(elf) : elf \in Loadable}

ImplementsVM == VM!Spec

\* process.c:226, above what sys_wait() frees: "reclaims the resources of the
\* process" (回收进程资源).  What a process holds is free once it is reaped.
Reclaimed ==
    [][\A p \in Procs : state[p] = "exited" /\ state'[p] = "unused" =>
          \A h \in Holdings : h[1] = p => kind'[h[4]] = "free"]_vars
-----------------------------------------------------------------------------
(* The inductive invariant: what the code relies on                        *)

\* A memory map whose frames are those of its Framed segments and perhaps the
\* user stack, and whose tables are those of the pages it maps.
WellFormed(m) ==
    /\ m = [self   |-> m.self,
            root   |-> m.root,
            tables |-> m.tables,
            segs   |-> m.segs,
            pte    |-> m.pte]
    /\ \A s \in m.segs :
          \/ s.type = "Linear" /\ s.pages \subseteq KernelPages
          \/ s.type = "Framed" /\ s.pages \subseteq UserPages \ {USER_STACK}
    /\ DOMAIN m.tables = TablesOf(DOMAIN m.pte)
    /\ DOMAIN m.pte \subseteq UserPages \cup KernelPages
    /\ (DOMAIN m.pte \cap UserPages) \ {USER_STACK} = FramedPages(m.segs)
    /\ \A v \in DOMAIN m.pte : (m.pte[v] = NULL) <=> (v \in KernelPages)

Shapes ==
    /\ DOMAIN mm = Contexts /\ mm = [p \in Contexts |-> mm[p]]
    /\ \A p \in Mapped : WellFormed(mm[p])
    /\ mode \in {"loaded", "activated"} => WellFormed(loading.mm)
    /\ own = [p \in Procs |-> own[p]]
    /\ \A p \in Living :
          own[p] = [pcb |-> own[p].pcb, kstack |-> own[p].kstack, ustack |-> own[p].ustack]
    /\ cx_satp = [p \in Contexts |-> cx_satp[p]]

\* The blocks are in step with the holdings H.
Frames == {"root", "table", "page"}
Kept(H, k) ==
    /\ \A h \in H : h[4] \in Blocks /\ h[2] # "free" /\ k[h[4]] = h[2]
    /\ \A g, h \in H : g[4] = h[4] => g = h
    /\ \A b \in Blocks : k[b] \in Frames => \E h \in H : h[4] = b

\* A process has its user stack mapped, except while sys_exec() replaces it.
Stacks ==
    /\ \A p \in Living :
          /\ USER_STACK \in DOMAIN mm[p].pte => mm[p].pte[USER_STACK] = own[p].ustack
          /\ p # current \/ mode \notin {"replaced", "panic"} =>
                USER_STACK \in DOMAIN mm[p].pte
    /\ mode = "replaced" => USER_STACK \notin DOMAIN mm[current].pte
    /\ mode \in {"loaded", "activated"} => USER_STACK \notin DOMAIN loading.mm.pte

\* The hart executes a process that lives; sys_exec() is one of its calls.
Hart ==
    /\ current # idle => state[current] = "live"
    /\ mode \in {"loaded", "activated", "replaced"} => current # idle
    /\ mode = "activated" => satp = loading.mm.root

\* What sys_exec() has loaded is a program.
Loaded ==
    mode \in {"loaded", "activated"} =>
        \E elf \in Loadable :
            /\ FramedPages(loading.mm.segs) = ElfPages(elf)
            /\ \A v \in ElfPages(elf) : content[loading.mm.pte[v]] = Data(elf)[v]

IInv ==
    /\ Types /\ Shapes /\ Kept(Holdings, kind)
    /\ Stacks /\ Hart /\ SatpExact /\ Loaded
=============================================================================
