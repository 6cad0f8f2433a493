----------------------------- MODULE OpenFiles -----------------------------
(***************************************************************************)
(* The open files of the processes (kernel/fs.c from sys_open() on, and    *)
(* the lines of kernel/process.c that copy and close file tables), on the  *)
(* image of SimpleFS.                                                      *)
(*                                                                         *)
(* fork shares a struct File between processes, its offset included, so    *)
(* calls of different processes meet in one file.  Any live process may    *)
(* make the next call; which one does is the business of Process.          *)
(***************************************************************************)
EXTENDS Integers, Sequences, SequencesExt

CONSTANTS
    Procs, init,    \* the process control blocks, init's among them
    FileBlocks,     \* the memory blocks that can hold a struct File
    NULL,           \* the null pointer
    NR_OPEN,        \* length of ProcessControlBlock.files
    NStd,           \* stdin, stdout and stderr: 3
    InodeSize,      \* sizeof(struct Inode), the bytes an entry of "/" takes
    MaxCount,       \* bound: counts of a read are in -MaxCount .. MaxCount
    \* what the first 16 bits of a block can be when alloc() returns it
    Leftovers,
    \* the constants of SimpleFS
    BLOCK_NUM, BLOCK_SIZE, NDirect, NIndirect, NFat, Names, NoName, ROOT,
    Bufs, RootFs, MaxOff, INT_MAX

FILE_INODE == 0
FILE_STDIO == 1

\* A block from alloc() was on a free list: PUSH wrote the link to the next
\* block over its first bytes, the address of a multiple of 8 or NULL.
\* "/" cannot grow past its blocks, nor be read past the last entry of the FAT.
ASSUME OpenFilesAssumption ==
    /\ IsFiniteSet(Procs) /\ init \in Procs
    /\ NULL \notin FileBlocks \cup Nat \cup {ROOT}
    /\ NR_OPEN \in Nat /\ NStd \in 1 .. NR_OPEN - 1
    /\ InodeSize \in Nat \ {0} /\ MaxCount \in 0 .. INT_MAX
    /\ MaxOff >= (NDirect + NIndirect) * BLOCK_SIZE
    /\ MaxOff >= (NFat + 1) * InodeSize
    /\ Leftovers \subseteq Nat /\ \A t \in Leftovers : t % 8 = 0

VARIABLES
    proc,           \* "unused", "live" or "exited"
    files,          \* ProcessControlBlock.files
    file,           \* the struct Files: [type, count, off, inode]
    freemap, unused_blocks, fat, inode, data, mode      \* the image

FS == INSTANCE SimpleFS

ASSUME ImageAssumption == FS!SimpleFSAssumption

disk == <<freemap, unused_blocks, fat, inode, data, mode>>
vars == <<proc, files, file, disk>>

Fds == 0 .. NR_OPEN - 1
NoFiles == [fd \in Fds |-> NULL]

\* A block that holds no struct File.
Freed == [type |-> FILE_INODE, count |-> 0, off |-> 0, inode |-> NULL]

Stdio == [type |-> FILE_STDIO, count |-> 1, off |-> 0, inode |-> NULL]

-----------------------------------------------------------------------------
(* File tables                                                             *)

\* A table with stdin, stdout and stderr only, in the blocks std.
StdTable(std) == [fd \in Fds |-> IF fd < NStd THEN std[fd] ELSE NULL]

\* NStd blocks that alloc() may return when the struct Files are fs.
StdBlocks(fs) ==
    {std \in [0 .. NStd - 1 -> {f \in FileBlocks : fs[f].count = 0}] :
        IsInjective(std)}

WithStdio(fs, std) ==
    [f \in FileBlocks |-> IF \E fd \in DOMAIN std : std[fd] = f THEN Stdio ELSE fs[f]]

\* Mutant: the count is only decremented when it is not the last.
Dropped_last(fs, table) ==
    [f \in FileBlocks |->
        IF (\E fd \in Fds : table[fd] = f) /\ fs[f].count > 1
        THEN [fs[f] EXCEPT !.count = @ - 1]
        ELSE fs[f]]

\* The struct Files after dealloc_files(table): each one in it loses a
\* reference, and its block with the last.  A table holds a file once.
Dropped(fs, table) ==
    [f \in FileBlocks |->
        IF \A fd \in Fds : table[fd] # f THEN fs[f]
        ELSE IF fs[f].count = 1 THEN Freed
        ELSE [fs[f] EXCEPT !.count = @ - 1]]

\* Mutant: the count stays as it is.
Shared_uncounted(fs, table) == fs

\* The struct Files after fork has copied the table.
Shared(fs, table) ==
    [f \in FileBlocks |->
        IF \E fd \in Fds : table[fd] = f THEN [fs[f] EXCEPT !.count = @ + 1] ELSE fs[f]]

-----------------------------------------------------------------------------

Live(p) == mode = "run" /\ proc[p] = "live"

\* mkfs makes the image, with init's process not yet running on it.
Init ==
    /\ FS!Init
    /\ proc = [p \in Procs |-> IF p = init THEN "live" ELSE "unused"]
    /\ \E std \in StdBlocks([f \in FileBlocks |-> Freed]) :
        /\ files = [p \in Procs |-> IF p = init THEN StdTable(std) ELSE NoFiles]
        /\ file = WithStdio([f \in FileBlocks |-> Freed], std)

MakeImage ==
    /\ \/ \E name \in Names, content \in RootFs : FS!walk(name, content)
       \/ FS!boot
    /\ UNCHANGED <<proc, files, file>>

-----------------------------------------------------------------------------
(* The system calls of process p                                           *)

sys_fork(p, child) ==
    /\ Live(p) /\ proc[child] = "unused"
    /\ proc' = [proc EXCEPT ![child] = "live"]
    /\ files' = [files EXCEPT ![child] = files[p]]
    /\ file' = Shared(file, files[p])
    /\ UNCHANGED disk

\* The files are closed before the new ones are allocated.
sys_exec(p) ==
    /\ Live(p)
    /\ LET dropped == Dropped(file, files[p]) IN
       \E std \in StdBlocks(dropped) :
          /\ files' = [files EXCEPT ![p] = StdTable(std)]
          /\ file' = WithStdio(dropped, std)
    /\ UNCHANGED <<proc, disk>>

\* The files of an exited process stay open until it is reaped.
exit_current(p) ==
    /\ Live(p)
    /\ proc' = [proc EXCEPT ![p] = "exited"]
    /\ UNCHANGED <<files, file, disk>>

\* Some process reaps its exited child.
sys_wait(child) ==
    /\ mode = "run" /\ child # init /\ proc[child] = "exited"
    /\ proc' = [proc EXCEPT ![child] = "unused"]
    /\ files' = [files EXCEPT ![child] = NoFiles]
    /\ file' = Dropped(file, files[child])
    /\ UNCHANGED disk

FirstFree(p, fd) ==
    files[p][fd] = NULL /\ \A n \in Fds : n < fd => files[p][n] # NULL

\* Mutant: a File keeps the type it had in its last life.
Leftover_same(type) == type \in {FILE_INODE, FILE_STDIO}

\* What sys_open() leaves in file->type, which it does not set.
Leftover(type) == type \in Leftovers

\* The inode sys_open(name) gets, and what that does to the image.
Opens(name, flags, i) ==
    \/ name = "/" /\ i = ROOT /\ UNCHANGED disk
    \/ name # "/" /\ FS!Lookup(name, i) /\ UNCHANGED disk
    \/ name # "/" /\ flags = "O_CREATE" /\ FS!create(name, i)

\* The cases that return -1 change nothing: no free descriptor, or no such
\* file and no O_CREATE.
sys_open(p, name, flags) ==
    /\ Live(p)
    /\ \E fd \in Fds, i \in FS!Inodes \cup {FS!NoBlock} :
        /\ FirstFree(p, fd)
        /\ Opens(name, flags, i)
        /\ IF mode' = "wild"
           THEN UNCHANGED <<files, file>>
           ELSE \E f \in FileBlocks, type \in {FILE_INODE, FILE_STDIO} \cup Leftovers :
                  /\ file[f].count = 0 /\ Leftover(type)
                  /\ file' = [file EXCEPT ![f] =
                         [type |-> type, count |-> 1, off |-> 0, inode |-> i]]
                  /\ files' = [files EXCEPT ![p][fd] = f]
    /\ UNCHANGED proc

sys_close(p, fd) ==
    /\ Live(p) /\ files[p][fd] # NULL
    /\ file' = Dropped(file, [NoFiles EXCEPT ![fd] = files[p][fd]])
    /\ files' = [files EXCEPT ![p][fd] = NULL]
    /\ UNCHANGED <<proc, disk>>

\* Mutant: by what was asked for, where that is more.
Moved_asked(num, count) == Max({num, count})

\* How far a read that returned num of count bytes moves the offset.
Moved(num, count) == num

\* A count of 0 returns at once; one below 0 is less than InodeSize and more
\* than the rest of every file.  A read of the console changes nothing here:
\* type and inode of a File do not change while sys_read() yields with it.
sys_read(p, fd, count) ==
    /\ Live(p) /\ files[p][fd] # NULL
    /\ LET f == files[p][fd] IN
       \/ /\ file[f].inode = ROOT /\ count >= InodeSize
          /\ \E i \in FS!Fat : i >= file[f].off \div InodeSize /\ fat[i] # 0
          /\ file' = [file EXCEPT ![f].off = @ + InodeSize]
       \/ /\ file[f].inode # ROOT /\ file[f].type # FILE_STDIO
          /\ LET num == Len(FS!read_from_inode(file[f].inode, file[f].off, count)) IN
             file' = [file EXCEPT ![f].off = @ + Moved(num, count)]
    /\ UNCHANGED <<proc, files, disk>>

sys_write(p, fd, buf) ==
    /\ Live(p) /\ files[p][fd] # NULL
    /\ LET f == files[p][fd] IN
        /\ file[f].type # FILE_STDIO
        /\ FS!sys_write(file[f].inode, file[f].off, buf)
        /\ file' = [file EXCEPT ![f].off = IF mode' = "wild" THEN @ ELSE @ + Len(buf)]
    /\ UNCHANGED <<proc, files>>

\* The machine is down, or out of control.
Stopped ==
    /\ mode = "wild" \/ \A p \in Procs : proc[p] # "live"
    /\ UNCHANGED vars

Next ==
    \/ MakeImage
    \/ \E p \in Procs :
        \/ \E child \in Procs : sys_fork(p, child)
        \/ sys_exec(p)
        \/ exit_current(p)
        \/ sys_wait(p)
        \/ \E name \in Names \cup {"/"}, flags \in {"0", "O_CREATE"} : sys_open(p, name, flags)
        \/ \E fd \in Fds :
            \/ sys_close(p, fd)
            \/ \E count \in (-MaxCount .. MaxCount) \ {0} : sys_read(p, fd, count)
            \/ \E buf \in Bufs : sys_write(p, fd, buf)
    \/ Stopped

Spec == Init /\ [][Next]_vars

-----------------------------------------------------------------------------
(* What must hold                                                          *)

\* The type invariant of the file tables.
TypeOK ==
    /\ proc \in [Procs -> {"unused", "live", "exited"}]
    /\ files \in [Procs -> [Fds -> FileBlocks \cup {NULL}]]
    /\ file \in [FileBlocks ->
           [type  : {FILE_INODE, FILE_STDIO} \cup Leftovers,
            count : Nat,
            off   : Nat,
            inode : FS!Inodes \cup {NULL}]]

\* The count of a struct File is the number of descriptors that point to it,
\* those of exited processes included: the block is freed with the last of
\* them, never before and never twice, whoever closes, execs or reaps.
CountExact ==
    \A f \in FileBlocks :
        file[f].count = Cardinality({e \in Procs \X Fds : files[e[1]][e[2]] = f})

\* sys_read() and sys_write() take a File for the console exactly if it has no
\* inode, although sys_open() leaves the type to chance: what is in the block
\* cannot be FILE_STDIO, and no null inode is followed.
StdioExact ==
    \A f \in FileBlocks :
        file[f].count > 0 => (file[f].type = FILE_STDIO <=> file[f].inode = NULL)

\* An open file is in the directory and its offset is not behind its end:
\* inode->size - off, which is unsigned, does not wrap around, whichever of
\* the processes that share the file has moved it.
OffsetsInFile ==
    \A f \in FileBlocks :
        file[f].count > 0 /\ file[f].inode \notin {NULL, ROOT} =>
            /\ file[f].inode \in FS!Files
            /\ file[f].off <= inode[file[f].inode].size

\* The calls on open files make of the image what SimpleFS says can be made of
\* it, and so meet what it assumes of inodes, names and offsets.
ImplementsDisk == FS!Spec

-----------------------------------------------------------------------------
(* The inductive invariant: the above, with what it rests on.              *)

\* A process has a File at one descriptor only, and none before its first
\* fork: dealloc_files() takes one reference for each descriptor.
TablesExact ==
    \A p \in Procs :
        /\ proc[p] = "unused" => files[p] = NoFiles
        /\ \A fd, gd \in Fds :
              files[p][fd] = files[p][gd] /\ files[p][fd] # NULL => fd = gd

\* "/" is read from entry to entry and written inside its blocks.
RootOffset ==
    \A f \in FileBlocks :
        file[f].count > 0 /\ file[f].inode = ROOT => file[f].off <= MaxOff

\* No file is open while the image is made.
NoneOpen ==
    mode = "mkfs" => \A f \in FileBlocks : file[f].count > 0 => file[f].inode = NULL

IInv ==
    /\ TypeOK /\ CountExact /\ StdioExact /\ OffsetsInFile
    /\ TablesExact /\ RootOffset /\ NoneOpen
    /\ FS!IInv
=============================================================================
