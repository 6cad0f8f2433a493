# LilacOS in TLA+

LilacOS is a small RISC-V kernel: processes with fork, exec, wait and exit, a
round-robin scheduler on one hart, Sv39 address spaces, a buddy allocator and a
RAM image of a simple file system. This directory holds TLA+ models of it, the
TLC configurations that check them, and proofs that TLAPS checks.

## The system

One hart runs everything. Traps switch interrupts off and the kernel never
switches them on again before it returns to user code, so kernel code is not
preempted (it can fault: see `KernelFault` under Context). It gives the hart away
only by calling `__switch`: in `yield()` (timer, the loop of `sys_wait`, the
console loop of `sys_read`), in `exit_current()` and in `schedule()`. So a handler
is atomic between such calls, and concurrency means the order in which processes
get the hart.

| Component | State | Operations | Talks to |
|---|---|---|---|
| process management (`process.c`, `syscall.c`) | process control blocks, `idle->list` (run queue), `children`/`sibling` lists, `current`, pid bitmap | `init_process`, `schedule`, `yield`, `sys_fork`, `sys_exec`, `sys_wait`, `exit_current` | allocator for every block, address spaces, open files, `__switch` |
| linked lists (`list.h`) | the links in the blocks | `INIT_LIST_HEAD`, `list_add`, `list_add_tail`, `list_del`, `list_empty`, `list_for_each_entry` | used by process management and segments |
| buddy allocator (`buddy_system_allocator.c`, `memory.c`) | free list per order, two counters | `add_to_buddy`, `buddy_alloc`, `buddy_dealloc`, `alloc`, `dealloc`, `alloc_frame` | called by everything; a failed `alloc` panics |
| address spaces (`mapping.c`, `elf.c`) | `MemoryMap`: root page table and segment list | `new_kernel_memory_map`, `from_elf`, `copy_mm`, `map_pages`, `map_segment`, `unmap_segment`, `dealloc_memory_map`, `activate` | allocator; called by fork, exec, wait |
| traps and context switch (`trap.c`, `timer.c`, `kerneltrap.S`, `switch.S`, `context.h`) | registers, `sstatus`, `satp`, `sscratch`, `sepc`, the timer, the two contexts in the process control block | `__trap_entry`, `trap_handle`, `__restore`, `__switch` | dispatches to system calls, timer, panic |
| file system image (`fs.c`, `tool/mkfs.c`) | superblock, free map, FAT, inodes, indirect blocks, data | `walk` and `put_block` (mkfs); `lookup`, `create`, `increase_size`, `read_from_inode` | read by exec, read and written by file calls |
| open files (`fs.c`, `process.c`) | `files[]` per process, `struct File` with count, offset, inode, type | `sys_open`, `sys_close`, `sys_read`, `sys_write`, `dealloc_files`, the copies of fork | image, allocator, console |
| user programs (`user/`) | where each is in its program | `init` forks `filetest` and the shell and waits; the shell forks, execs, waits; the others run and exit | system calls |
| boot, console, firmware (`main.c`, `entry.S`, `sbi.c`, `printf.c`) | none that stays | `main`, `shutdown`, `panic`, console in and out | |

What makes each of them correct:

* process management: the run queue holds exactly the Ready processes; `current`
  is whoever holds the hart; the families are one tree under `init`; pids are
  unique; waiting parents return; Ready processes run.
* lists: after any mix of calls the pointers still spell the lists that were meant,
  in both directions.
* traps and context switch: every process sees a machine of its own; the kernel
  runs on the right stack and page table and is never interrupted.
* user programs: they keep to the rules the kernel relies on, and the shell
  prompts again.
* allocator: blocks never overlap, nothing is lost, buddies are merged, a request
  fails only when it must.
* address spaces: a process that can be scheduled has the kernel mapped; the page
  table in use is allocated; no frame has two owners; nothing of a dead address
  space stays allocated.
* image: every block has one use or is free; a file has a block for each byte;
  a call changes the bytes it is asked to change and no others.
* open files: the count of a file is the number of descriptors on it; offsets
  stay in the file; files and console are not mixed up.

Hard to test here: interrupts between any two user instructions; calls that
resume in the middle of a kernel loop; registers that are saved by one process's
trap and loaded after another's; long mixes of fork, exit and wait;
loops that change the list they walk; merges in any order of release; full
bitmaps, images, FATs and tables; offsets shared across fork. `PROJECT.json`
lists these hazards at their lines, with the properties that cover them.

## Modules

| Module | Models | Proved in |
|---|---|---|
| `Process` | process management, with the part of traps, console reads and address spaces it depends on | `ProcessProofs` |
| `ProcTree` | what fork, wait and exit promise: a tree of living and dead processes | |
| `ProcessTree` | the refinement mapping from `Process` to `ProcTree` | `ProcessLinksProofs` |
| `ListHead` | the list functions, as stores into `next` and `prev` | |
| `ProcessLinks` | `Process` with its list calls, on those pointers | `ProcessLinksProofs` |
| `Context` | registers and CSRs of the hart through traps, system calls, switches and boot, with the refinement mapping to `Harts` | `ContextProofs` |
| `Harts` | what `Context` promises programs: a hart of its own for each process | |
| `Userland` | `init.c`, `shell.c` and the programs they start, on `Process` | |
| `Buddy` | the allocator, one step per turn of each loop, with the refinement mapping to `Heap` | `BuddyProofs` |
| `Heap` | what `alloc` and `dealloc` promise: ranges with one owner at a time | |
| `SimpleFS` | mkfs and the image | `SimpleFSProofs` |
| `OpenFiles` | file tables and struct Files; composes with `SimpleFS` (`FS == INSTANCE SimpleFS`) | `OpenFilesProofs` |
| `AddressSpace` | address spaces, and `satp` across fork, exec, wait and `__switch`; with the refinement mapping to `VirtualMemory` | `AddressSpaceProofs` |
| `VirtualMemory` | what address spaces promise programs: private memory that fork copies and exec replaces | |
| `SequenceLemmas` | facts about sequences, and about sets of numbers and their ranks, that the proofs share | itself |
| `MCProcess`, `MCProcessLinks`, `MCContext`, `MCUserland`, `MCBuddy`, `MCSimpleFS`, `MCOpenFiles`, `MCAddressSpace` | values and symmetry sets for TLC | |

`PROJECT.json` maps each definition to the lines it stands for. Definitions
commented as mutants are used by no specification: each is a plausible bug, and
the property it belongs to fails when it takes the place of the real definition.

### Process

`Procs` are the memory blocks that can hold a process control block; a block is
"Unused" before fork takes it and after wait has freed it. The lists are
sequences: `runq` is `idle->list`, `children[p]` the children of `p`, newest
first, because `list_add` inserts at the front. `cpu` is whose code the hart
executes and `current` the global variable; the handlers name the process
through `current`, as the code does, and `CurrentHoldsHart` says that this is
right. `kpc` says where a process resumes: in user code, in the loop of
`sys_wait` or in the loop of `sys_read`. `Dispatch` also does what `schedule()`
does when `__switch` returns to it, since nothing reads `current` in between;
`ScheduleReturns` is the case in which the queue is empty.

Of an address space `Process` keeps two facts: whether the kernel's Linear
segments are on the segment list (`segs`) and whether the page table maps the
kernel (`mapped`). That is what decides whether `__switch` to the process
survives the write to `satp`.

`mode` is what the hart does beside running processes: `reparent` is the loop of
`exit_current()` over the children, one turn per step, with `pos` its loop
variable; `wedged` is a hart that fetches from an address space without the
kernel; `panic` and `shutdown` are the ends. Allocation failures, faults, unknown
system calls and files that are not ELF all end in `panic`, from any user
instruction (`TrapPanics`).

`Shipped` restricts the user programs to two rules: they fork only from an image
they were exec'ed with, and exit without children. `Userland` shows that
`init.c`, `shell.c` and the others keep to them (`KeepsShipped`), so the theorems
that assume `Shipped` hold of the shipped system.

### ListHead and ProcessLinks

A memory `m` gives `m.next` and `m.prev` of every `struct list_head`. Each
function is the memory it leaves behind, store by store: `list_del` reads
`entry->prev` for its second store after it has made the first one.
`ProcessLinks` gives each process control block its heads `list`, `children` and
`sibling` and conjoins to every action of `Process` the calls the code makes
there. `LinksExact` says that the circles of pointers spell the sequences of
`Process` in both directions, and that a node on no list points to itself. The
loop of `exit_current()` over a list that it changes is the action where this is
least obvious: `pos` of `Process` must be where `pos->sibling.next` leads.

### Context

`at` is the piece of code the hart is in, and `x` its registers. `ra`, `sp`, `s0`,
`a0` and `a1` have a part of their own; `s1` and `s2` stand for the rest. Values are
symbols that say where they come from, `<<"s0", v>>` from user code and
`<<"kstack", p>>` for an address on `p`'s kernel stack, so that a register that is
lost or mixed up is seen. What compiled C code leaves in the registers is the
symbol of the stack it runs on (`CCode`). `kstack[p]` is the part of the stack
that decides where `yield()` returns to. `sepc` and `pc` are halfwords modulo
`PcMod`, so that 2 for an `ecall` and 1 for an `ebreak` differ.

`Trap` is `__trap_entry` up to the call of `trap_handle()`, and one step because
interrupts are off; `RestoreCsrs` and `sret` are `__restore`. A new process enters
`__restore` from `__switch`, which leaves the address of its trap context in `a0`.
Calls that block put `sepc` behind the `ecall` first and the result into `a0` when
they are resumed. Who is next and who is reaped is any process that could be:
`Process` says which. `Init` leaves open what the firmware leaves in `sstatus`,
except that interrupts are off, as the SBI specification has it.

Faults are not masked. The calls pass pointers on as the program gives them
(`syscall.c:21-30`), and `sys_read`, `sys_write`, `sys_open` and `sys_exec` follow
them in S-mode, while `sscratch` holds the user's `sp`. A bad one is a trap of
kernel code, `KernelFault`: `__trap_entry` takes the user's stack for a trap
context, saves the registers over it, and calls `trap_handle()` on a stack pointer
it reads from there (`Found`). The model follows two outcomes: `trap_handle()`
gets far enough to panic in `fault()` (`at = "fault"`), or the entry or the
handler faults again or writes over the kernel and anything may happen (`at =
"wild"`, from where nothing is claimed). `TrapContextFound` is what the comments
of `__trap_entry` say of `sscratch`, and false there. `Masked` therefore speaks of
interrupts, and `StacksOwn` of the traps of user code. Only the faults of system
calls on user pointers are modelled; that the kernel does not fault on pointers of
its own is not shown.

`Harts` is what programs are promised: each process has registers and a program
counter that only its own instructions and calls change. The mapping takes the
registers of the hart while user code of the process runs, and its trap context
at any other time.

### Userland

`label[p]` is where a process is in its program: the places in `init.c` and
`shell.c` that make process calls, `work` for a program that starts no process
(`hello.c`, `ls.c`, `filetest.c`), `exit` for the return from `main` into
`_start()`. The calls are the actions of `Process`, conjoined with the branch the
program takes on what they return. `rootfs` is the set of programs mkfs has
packed: any that holds `init` and `filetest`, since a child of `init.c` that finds
no `filetest` goes on in `main` behind the `exec` and forks again from an image it
was not exec'ed with; `Packed_any`, a mutant, shows what happens then. The shell
execs any name: a packed program, `init` and itself included, or none. Besides,
`init` may be a program of another rootfs that makes any calls within the two
rules (`any`), with at most `MaxOthers` processes, so that the liveness properties
do not rest on the few families the shipped programs build.

### Buddy

The state is the free lists, the counters, the set `live` of blocks the kernel
has, with the size it asked for, and the call in progress (`call`, `block`,
`order`, `request`). Callers give back what they have with the size they asked
for: every `dealloc` in the kernel does. `MaxOrder` stands for an order without a
list, so a request that is larger than any list ends in the panic of `alloc()`.
A block pushed behind `free_list` would be `call = "overrun"`, which `TypeOK`
excludes.

### SimpleFS

A block is seen in two ways: `inode[b]` through a `struct Inode *`, `data[b]`
through a `char *`, or a `uint32 *` in an indirect block. `BlocksExact`, which
says that no block has two uses, is what makes the two views independent. A cell
holds a byte or a block number; the model counts cells where the code counts
bytes and entries. `alloc_free_block(n)` is what the n-th call from here on
returns, so that a handler that calls it in a loop stays one step.

The kernel tests neither the -1 of `alloc_free_block()` nor the length of a file.
What it does then is modelled up to the first write outside the image; from
there on (`mode = "wild"`) memory is arbitrary and the model stops, and the
invariants that need a sane image say `mode # "wild"`. A rootfs that is too large
for the image would make mkfs write outside its buffer, and a file with more
blocks than an inode can name would lose the rest in silence (`put_block`,
`mkfs.c:82-87`); the model packs only what fits. Names are model values: one of 32
bytes or more overflows `filename` in `create()` and in mkfs, which is not modelled.
`NFat` and `NIndirect` are independent of `BLOCK_SIZE` in the model
(the code derives them from it).

`inode->size` is unsigned, so `read_from_inode()` compares its count as unsigned
too (`Unsigned`, `Signed`, for an int of which `INT_MAX` is the largest). A count
below 0 passes the `!count` of `sys_read` and reads the whole rest of the file into
the buffer, where the comment at `fs.c:85` says "at most `count`" (至多 `count` 字节).
`ReadsExact` states what the code does for every int and thus contains this
disagreement; no violated run shows it apart. A write of a count below 0 copies
nothing and is left out: it changes no file, but on `"/"` it can take blocks as an
empty write does.

`"/"` has the static `ROOT_INODE`, which a write extends like any file's.

### OpenFiles

`file[f]` is the `struct File` in block `f`; `files[p]` the table of process `p`.
Any live process may make the next call. Reads are given counts of both signs, up
to `MaxCount`. `sys_wait` names only the child it
reaps. Blocks come from `alloc()`, which overwrites the first eight bytes of each
free block with a link, a multiple of eight or 0: `Leftovers` is what
`file->type` can therefore hold after `sys_open()`, which does not set it. When
no block for a `struct File` is left the calls that need one are not taken: a
bound, where the code would panic.

### AddressSpace

Memory is the blocks that an address space is made of, each with what it was
allocated for (`kind`); whatever differs in size or use is a block of its own:
`MemoryMap`, `Segment`, root table, lower table, user page, process control
block, the two stacks, the buffer of exec. `mm[p]` is the `MemoryMap` with the
page table it leads to: the tables by level and position, and the entries of the
leaves (`pte`). `find_entry()` allocates what `TablesFor` a page names and is not
there. `satp` and `cx_satp` hold root tables, so that what a store of a user
program changes depends on the table the register really names. `sys_exec` is
four steps although nothing runs in between: it frees the address space that was
active before, and the invariants look at each point. A stack that exec allocates
is not cleared, so its content is any. Who may be scheduled and who reaps whom is
left open here; `Process` restricts it. User pages hold what the file has for
them; the sizes in the ELF headers, flags, and the D1 bits are left out.
Programs do not cover the page of the user stack, and their segments may overlap,
on which `map_segment()` panics (`Loadable` are the programs without).

A handler says which objects it needs (`ProcessObjects`, `LoadObjects`,
`StackObjects`), and `Placements` puts them into free blocks, each into one of its
own: any way of doing so, as far as the module goes, since `Buddy` decides which.
The constant operator `Picks` says which of the ways are looked at. TLC looks at
one, the lowest blocks (`MCPicks`); the theorems hold for every `Picks`.

## Runs

| Run | Instance | Shows |
|---|---|---|
| `process_safety` | 4 blocks, 5 pids | seven safety properties, the pointers of the lists among them, what a step may do to the state of others, and that `Process` implements `ProcTree` |
| `userland_programs` | 4 blocks, 4 pids, at most 3 processes of another `init`, fair | the shipped programs keep to `Shipped`, so neither fault is reached and shutdown finds everyone reaped; Ready processes run, waiting parents return, the shell prompts again; `alloc_pid()` runs out of pids |
| `process_kernel_mapped` | 3 blocks | **violated**: a grandchild without exec has no kernel in its page table |
| `process_orphans` | 4 blocks, fair | **violated**: exit with children never ends |
| `buddy_calls` | 64 bytes from 8 to 72, orders 3 to 6 | six properties of the allocator |
| `simplefs_calls` | 8 blocks of 2 cells, 1 direct and 2 indirect entries, 2 FAT entries, 3 names | six properties of the image (`BlocksExact` contains the type) |
| `simplefs_full` | the same | **violated**: a block that was not allocated is counted |
| `openfiles_calls` | 2 processes, 3 descriptors, 3 files, 5 blocks, 2 names | five properties of open files, and that they use the image as `SimpleFS` assumes |
| `addressspace_memory` | 3 processes, 48 blocks, programs of one and two segments, one with overlapping segments | four properties of address spaces, and that they implement `VirtualMemory` |
| `addressspace_reclaimed` | the same | **violated**: `MemoryMap` and `Segment` blocks of a reaped process stay allocated |
| `context_registers` | 2 processes and `idle`, 2 register files, `PcMod` 3 | the kernel is not interrupted, uses the stack and contexts of `current`, and `Context` implements `Harts` |
| `context_kernel_fault` | the same | **violated**: a fault on a user pointer in a system call finds no trap context in `sscratch` |

Why these bounds are enough for the interesting cases. Four process blocks give
init, a child, a grandchild and a sibling, so chains, reparenting, several
zombies of one parent and reuse of a freed block all occur; the queue gets as
long as four. The region of 64 bytes starts and ends off its own alignment,
needs blocks of three orders, and the sizes ask for the smallest block, for two
middle ones (one of them just above a power of two) and for one that has no list.
Two cells per block make writes start and end inside blocks and span three of
them; one direct and two indirect entries put the boundary and the end of the
indirect block within a few writes; five free blocks let two files and `"/"`
compete for the last one. Three struct Files let two processes share one, open
the same file twice, and find no block for another. 48 blocks hold three
processes (idle takes 5, the others 11 to 16 each, exec as many again for a
while), and the leaks use them up after a few calls, so the panic of `alloc()` in
fork and in exec occurs; kernel, programs and stack have tables of their own, as
at their real addresses. Process blocks, names and
File blocks are interchangeable: symmetry sets permute them in the safety runs.

Two processes and `idle` are what a mix-up of contexts needs: whose registers are
loaded is a question between the one that leaves and the one that comes, both
pass through `idle`, and the second block is forked, reaped and forked again. Two
register files tell what was in the registers before a trap from what is there
after it. `StacksOwn` and `Masked` are proved for any number. Four blocks let the
shell run a program while `init` waits for both and a `filetest` is left to reap;
with four pids the bitmap is full when all of them live.

In the runs of the image an int is up to `INT_MAX` = 7, more than any file can
hold, so counts from -8 to 7 lie on both sides of every size.

Five runs are there to be violated; `PROJECT.json` quotes the comment each
disagrees with. What `context_kernel_fault` finds ends, at best, in the panic that a
fault of the program itself would have ended in. What `addressspace_reclaimed` shows
is not only a matter of wait: exec leaks the same blocks, and fork the Segments that
`copy_mm()` maps and does not link. `FramesReturned` says that no root table, lower
table or user page is lost with them; it speaks of no other memory, and since entry
flags are left out it takes from `dealloc_pagetable()` that it tells tables from
leaves.

A further disagreement has no run: `__switch` returns with the new `satp` in `s0`
(`switch.S:40`), where its comment says that it restores `s0`. It does no harm in
this build, since `s0` is the frame pointer, which the callers of `__switch` take
from their stacks.

### Fairness

`Fairness` of `Process` assumes weak fairness of `schedule`, `supervisor_timer`,
`WaitResumes`, `ReadResumes` and `ReparentTurn`: kernel code, once it has the
hart, runs to the next `__switch`, and user code is interrupted after at most
10 ms (`timer.c` arms the timer at boot, `supervisor_timer()` arms it again, and
interrupts are on in user mode, which is `Masked` of `Context`).

`UserFairness` assumes the same of the kernel's steps under `Userland`, and strong
fairness of the calls of each process: the timer takes the hart away again and
again, so a call is not enabled all the time, but a process that gets 10 ms over
and over comes to its next call. Characters on the console are not assumed: the
shell may read for ever, and `PromptReturns` is about a command that has been
given. It excludes commands that start a shell or an `init`, which need not end.
The liveness properties end with "or the kernel is no longer up" because panics,
shutdown and the two faults stop everything.

## Proofs

The proofs hold for every value of the constants that meets the named
assumptions: `ProcessAssumption`, `BuddyAssumption`, `ContextAssumption`,
`SimpleFSAssumption`, `OpenFilesAssumption` with `ImageAssumption`, and
`AddressSpaceAssumption`. They say what the code fixes (an indirect block has no
more entries than a block has cells, sizes of orders double) or what makes a model
value one (`NULL` is no block). `MaxOff`, a bound on the offsets of `"/"` in the
model, is at least as large as any file, so that it cuts no file short. `INT_MAX` is
at least the length of the longest file an inode can name (with 12 direct and 128
indirect entries of 512 bytes, 70 KB).
`AddressSpaceAssumption` asks that no program covers the page of the user stack,
which the linker script and `USER_STACK` see to.

**ProcessProofs.** `IInv` is inductive. The properties are not inductive one by
one: that a reaped child leaves no children behind (`NoDeadParent`) needs that
exit does not return while there are any; that the queue stays free of duplicates
needs that whoever yields is not in it, which is `CurrentHoldsHart` with
`RunQueueExact`; that the flag of `sys_wait` is harmless needs that only the
parent removes a child, hence `OneParent`; `FreeBlocksClean`, `InitStays` and
`Reparenting` carry what a free block, init and a half-done exit look like.
`Families` is what the three facts about the tree come to. `StepCases` sorts the
disjuncts of `Next` by effect, and each part of `IInv` is proved case by case.
From `IInv` follow the safety theorems and the action property `OwnStateOnly`.
`BitmapSuffices` assumes in addition that `Procs` is finite and `MaxPid >
Cardinality(Procs)`, with `MAX_PID` = 1024. Control blocks and stacks alone would
not justify that (about 25 KB, some 5000 processes in 128 MB); page tables do: a
process that maps the kernel maps 128 MB in pages of 4 KB, which takes 64 tables
of 4 KB, so memory ends near 500 processes. It holds for the shipped programs,
whose processes all map the kernel. No run states it, since the runs want the
bitmap to run out. The `Shipped...` theorems add `ShippedInv` and assume
`Shipped`.

**ProcessLinksProofs.** Up: `Refinement` maps each step to a step of `ProcTree`
or to a stutter: fork to `Fork`, exit to `Exit`, reaping to `Reap`, a turn of the
loop of exit to `Adopt`, all others to none. Down: `LinksStayExact`. A circle of
pointers is described by index (`Loop`: `next` of the i-th node is the i+1st, `prev`
the other way). `LoopAdd`, `LoopAddTail` and `LoopDel` show that the functions of
`list.h` turn the circle of one list into the circle of the changed list and store
nothing off it; the case that a neighbour is the head itself is where their order
of loads and stores matters. On top of that, six lemmas say what `process.c` does
with a queue and a set of families (prepare a process, queue it, dequeue the i-th,
make it a child, unlink it, hand it over), and every step of `ProcessLinks` is one
of these or two in a row. The lists have no node in common because no process is
on two of them, which comes from `ProcessProofs`: a step of `ProcessLinks` is one
of `Process`.

**ContextProofs.** Faults of system calls are among the steps: `FaultKeeps` shows
that they leave alone what the other processes rest on, and the states behind them
lead to no switch and no restore. `Masked` and `StacksOwn` speak of the registers
now; what makes them inductive is what the contexts hold that will be loaded
later. `IInv` says where the registers lead at each point (`Leads`), that the
process control block they lead to is `current`'s and that it is Running
(`Owner`), that every trap context of a living process leads back to U-mode, where
interrupts are taken whatever `SIE` says, and keeps `SUM` and its own kernel stack
(`TrapContexts`), and that every process context of a Ready process is either new
or that of its call in `yield()` (`ProcessContexts`). The lemmas of the first part
say what the helpers make of a context, `Switched` what `__switch` saves and
loads; then there is one lemma for each action or group of actions. That fork and
wait do not touch what is in use follows from the states: a child is "Unused" or
"Exited", and `current` is neither. `Refinement` adds `Calling`: a process in user
code, at the entry or the exit of a trap, or new is in no call, and `sret` jumps
to the `sepc` of the context whose registers it loads. A process's machine is then
in the registers exactly while its user code runs, and moves to and from its trap
context unchanged.

**BuddyProofs.** `IInv` adds to the type, `NoOverlap` and `NothingLost` what a
call in progress relies on: that a block is held once and cut to its size
(`LiveFits`) and where the block being split or merged is (`CallState`). Splitting
replaces a block by two halves, merging two buddies by their union, and the
bytes they cover stay the same. `TypeOK` contains the argument that the largest
order is never merged: two buddies of it would be longer than the region.
`Refinement` shows that the calls implement `Heap`.
`NoFreeBuddies` and `FailsOnlyWhenFull` need `MergedInv`: blocks are aligned to
their size (`Aligned`), `add_to_buddy()` cuts the largest block that fits
(`Largest`: of two buddies of one size it would have made one), no two free blocks
are buddies except for the one the call has in work (`AtWork`, `Merged`), and a call
that panics has seen empty lists from its order on (`NoneLeft`). Aligned blocks
nest or are disjoint, so an aligned range that holds no block of the kernel's and
is not part of a free block would consist of smaller free blocks, and the least of
them, or its buddy, would have been merged.

**SimpleFSProofs.** The theorems are about one conjunction of the four invariants
of the image with three more facts: no file is longer than the blocks an inode can
name (`SizesFit`, without which a size would not be an int), blocks that are no
files have zeroed inodes (`InodesNamed`), and of each file the entries up to its
size are blocks and the rest are zero (`Filled`). The operations call
`alloc_free_block()` in loops; the argument relates the number of a call to the
place its result is stored in. The calls return different free blocks
(`AllocGives`, by the ranks of a set of numbers), `increase_size()` fills the
entries in order (`Growth`), so after an operation a block has a use if it had one
or is the result of exactly one call (`WriteEffect`, `WrittenKeeps`). Where the
image is full the numbers of the calls run past the free blocks and the model says
`wild`: the proofs take both branches. `ReadsStayExact` is about the loop of
`read_from_inode()`: its pieces join to the bytes from the offset on, for every
int as its count. The flattening of a sequence of pieces is a fold, about which
the library has no facts, so `FlattenPieces` proves what is needed by induction
over a set of numbers (`NatSetInduction`: a set that holds 0 and with each number
the next holds all of them, which needs no operator parameter).

**OpenFilesProofs.** A call replaces the table of one process and perhaps the
struct Files it is about. `Recounted` says how the number of descriptors on a File
changes when one table is replaced; together with `TablesExact` (no File twice in a
table, no table of a free block) it turns each action into a check of one File's
count. `OffsetsInFile` follows the sizes: only `sys_write()` changes one, and it
only grows; `RootOffset` says the same of `"/"`, and `NoneOpen` that nothing is
open while mkfs runs. What the image guarantees comes from `SimpleFSProofs`, of
which the module takes an instance. `Refinement`: every call is a step of
`SimpleFS` or leaves the image alone, so the theorems about the image hold under
any mix of processes.

**AddressSpaceProofs.** The central object is the set `Holdings` of tuples
`<<owner, kind, which, block>>`, one for each block an owner can name: a process, or
`sys_exec()` for what it is building. `Kept(H, k)` says that the blocks are in step
with the holdings H: each is allocated as what it is held as, no two name one
block, and every frame is held by somebody. The first half of the module shows
what happens to it: `KeptNew` when objects are placed in free blocks, `KeptLess`
when blocks are given back with everything that names them, `KeptPassed` when exec
hands the new address space over to the process, and `KeptDropped` when a panic
forgets what exec held. The second half shows of each action that what it allocates
and frees is what the holdings gain and lose: for that a memory map's frames must
be those of the Framed segments on its list, its tables those of the pages it maps
(`WellFormed`), although fork loses the kernel's segments; and the user stack,
mapped but on no segment, must be in step with `ustack` except while exec replaces
it (`Stacks`). `Hart` says that whoever has the hart lives, so that nobody reaps
the table in `satp`; `Loaded` that what exec is about to install is a program.
`Refinement`: two user pages never share a block (`UserBlocksDiffer`), so a store
is seen in one place, and a child's pages are in blocks that were free.

Only model-checked. Liveness (`ReadyRuns`, `WaitReturns`, `PromptReturns`) is out of
the prover's reach. `KeepsShipped` and `CallsExact` are safety and within reach, but
have no proof yet. Every other property of a passing run is a theorem, except that
`NeverStuck` and `ShutdownReapedAll` are theorems under the assumption `Shipped`,
which `KeepsShipped` of the run justifies for the shipped programs.

## Not modelled, and the plan

Left out on purpose: formatting and SBI calls beyond what decides control, the
line buffer of the shell and what programs print, build files and the linker
script, ELF magic beyond its panic, the sizes of segments below a page (so that a
program's `.bss`, which the loader fills from the file, is not seen), the clearing
of `.bss`, faults of kernel code other than those of system calls on user pointers
(and `Process` lets every fault end in its panic), names that do not fit an inode,
writes of a count below 0, the flags of page table entries, the self test
`test_alloc()` (it uses the allocator as the model allows and leaves nothing
behind).

Planned, in this order:

1. That `Userland` keeps to `Shipped`, so that the theorems that assume it hold of
   the shipped programs for any number of processes.
2. `CallsExact`: a call changes the bytes it is asked to change and no others.
3. Pure functions against reference definitions: rounding and order of the
   allocator at 64 bits, virtual page numbers, segment flags.
