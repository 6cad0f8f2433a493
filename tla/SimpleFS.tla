------------------------------ MODULE SimpleFS ------------------------------
(***************************************************************************)
(* The file system image: tool/mkfs.c packs rootfs into it, kernel/fs.c    *)
(* creates files on it and extends, writes and reads them.                 *)
(*                                                                         *)
(* A block is seen in two ways: inode[b] is what the code finds in b       *)
(* through a struct Inode *, data[b] what it finds through a char * or, in *)
(* an indirect block, through a uint32 *.  All memory starts as zeros.     *)
(* Every call runs to its end without giving up the hart.                  *)
(***************************************************************************)
EXTENDS Integers, Sequences, SequencesExt

CONSTANTS
    BLOCK_NUM,      \* blocks of the image
    BLOCK_SIZE,     \* cells of a block: a cell holds a byte or a block number
    NDirect,        \* length of Inode.direct, 12
    NIndirect,      \* entries of an indirect block
    NFat,           \* entries of the FAT
    Names,          \* file names
    NoName,         \* the name in an inode of zeros
    ROOT,           \* &ROOT_INODE, the inode of "/", which is not on the image
    Bufs,           \* what programs write: sequences of bytes
    RootFs,         \* contents of files in rootfs when the image is made
    MaxOff,         \* bound: the largest offset a write to "/" starts from
    INT_MAX         \* the largest int

Blocks == 0 .. BLOCK_NUM - 1
Cells == 0 .. BLOCK_SIZE - 1
Fat == 0 .. NFat - 1
Inodes == Blocks \cup {ROOT}
NoBlock == -1

ASSUME SimpleFSAssumption ==
    /\ BLOCK_NUM \in Nat /\ BLOCK_NUM > 3
    /\ BLOCK_SIZE \in Nat \ {0}
    /\ NDirect \in Nat \ {0}
    /\ NIndirect \in 1 .. BLOCK_SIZE
    /\ NFat \in 1 .. BLOCK_SIZE
    /\ NoName \notin Names
    /\ ROOT \notin Blocks \cup {NoBlock}
    /\ Bufs \subseteq Seq(Nat) /\ RootFs \subseteq Seq(Nat)
    /\ MaxOff \in Nat
    /\ INT_MAX \in Nat /\ INT_MAX >= (NDirect + NIndirect) * BLOCK_SIZE

VARIABLES
    freemap,        \* block 1: the blocks whose bit is set
    unused_blocks,  \* block 0: SuperBlock.unused_blocks
    fat,            \* block 2: the inode blocks, 0 for a free entry
    inode, data,    \* the blocks as inodes and as cells
    mode            \* "mkfs", "run", or "wild": written outside the image

disk == <<freemap, unused_blocks, fat, inode, data, mode>>

-----------------------------------------------------------------------------

Zeroed == [name     |-> NoName,
           size     |-> 0,
           blocks   |-> 0,
           direct   |-> [k \in 0 .. NDirect - 1 |-> 0],
           indirect |-> 0]

\* main() of mkfs: superblock, freemap and FAT have taken their blocks.
Init ==
    /\ freemap = {0, 1, 2}
    /\ unused_blocks = BLOCK_NUM - 3
    /\ fat = [i \in Fat |-> 0]
    /\ inode = [b \in Inodes |-> Zeroed]
    /\ data = [b \in Blocks |-> [c \in Cells |-> 0]]
    /\ mode = "mkfs"

-----------------------------------------------------------------------------
(* Allocation                                                              *)

\* The n-th of the elements of a set of numbers.
Nth(S, n) == CHOOSE x \in S : Cardinality({y \in S : y <= x}) = n

\* What the n-th call of alloc_free_block() from here on returns: the counter
\* is asked first, then the lowest clear bit is taken.
alloc_free_block(n) ==
    LET free == Blocks \ freemap IN
    IF n <= unused_blocks /\ n <= Cardinality(free) THEN Nth(free, n) ELSE NoBlock

\* Mutant: the bit is not set.
Allocated_unmarked(n) ==
    /\ UNCHANGED freemap
    /\ unused_blocks' = Max({unused_blocks - n, 0})

\* The superblock and the bitmap after n calls.
Allocated(n) ==
    /\ freemap' = freemap \cup ({alloc_free_block(m) : m \in 1 .. n} \ {NoBlock})
    /\ unused_blocks' = Max({unused_blocks - n, 0})

\* Mutant: not the first one.
FirstEmpty_any(i) == i \in Fat /\ fat[i] = 0

\* The FAT entry alloc_inode() fills.
FirstEmpty(i) == i \in Fat /\ fat[i] = 0 /\ \A j \in Fat : j < i => fat[j] # 0

\* lookup(name) returns inode b.
Lookup(name, b) ==
    \E i \in Fat :
        /\ fat[i] = b /\ b # 0
        /\ inode[b].name = name
        /\ \A j \in Fat : j < i /\ fat[j] # 0 => inode[fat[j]].name # name

Exists(name) == \E b \in Blocks : Lookup(name, b)

-----------------------------------------------------------------------------
(* Reading                                                                 *)

\* The block that holds the k-th part of a file, table being the entries of
\* the indirect block.
BlockOf(node, table, k) ==
    IF k < NDirect THEN node.direct[k] ELSE table[k - NDirect]

Table(node) == data[node.indirect]

\* The parts of a file that count bytes from off lie in.
Parts(off, count) ==
    IF count = 0 THEN {} ELSE off \div BLOCK_SIZE .. (off + count - 1) \div BLOCK_SIZE

\* Mutant: block_off is not set to 0 behind the first part.
Chunk_offset(off, count, k) ==
    LET from == off % BLOCK_SIZE
        num == (k - (off \div BLOCK_SIZE)) * BLOCK_SIZE
    IN  [from |-> from, num |-> num, len |-> Min({count - num, BLOCK_SIZE - from})]

\* What the turn of the copy loops for part k copies: len cells from cell
\* `from`, when num bytes have been copied.
Chunk(off, count, k) ==
    LET from == IF k = off \div BLOCK_SIZE THEN off % BLOCK_SIZE ELSE 0
        num == k * BLOCK_SIZE + from - off
    IN  [from |-> from, num |-> num, len |-> Min({count - num, BLOCK_SIZE - from})]

\* An int where the other side of an operator is unsigned, and the way back.
Unsigned(n) == IF n < 0 THEN n + 2 * (INT_MAX + 1) ELSE n
Signed(n) == IF n > INT_MAX THEN n - 2 * (INT_MAX + 1) ELSE n

\* The bytes read_from_inode() puts into the buffer.  inode->size is unsigned,
\* and so is the comparison in MIN: a count below 0 is more than every size.
read_from_inode(i, off, count) ==
    LET most == Signed(Min({Unsigned(inode[i].size - off), Unsigned(count)}))
        max_size == Max({most, 0})
        start_block == off \div BLOCK_SIZE
    IN  FlattenSeq([n \in 1 .. Cardinality(Parts(off, max_size)) |->
            LET k == start_block + n - 1
                chunk == Chunk(off, max_size, k)
            IN  [c \in 1 .. chunk.len |->
                    data[BlockOf(inode[i], Table(inode[i]), k)][chunk.from + c - 1]]])

-----------------------------------------------------------------------------
(* mkfs                                                                    *)

\* Mutant: rounded down.
Ceil_down(n) == n \div BLOCK_SIZE

\* The blocks of n bytes.  walk() computes (size - 1) / BLOCK_SIZE + 1 in 32
\* bits and keeps 16: 0 for an empty file too.
Ceil(n) == (n + BLOCK_SIZE - 1) \div BLOCK_SIZE

\* The n-th data block of a file with inode block call 1: put_block() takes
\* the indirect block right after the first data block that needs it.
DataCall(n) == IF n <= NDirect + 1 THEN n + 1 ELSE n + 2
IndirectCall == NDirect + 3

Calls(n) == IF n <= NDirect THEN n + 1 ELSE n + 2

\* walk() packs one file.  A rootfs that does not fit is not modelled: with too
\* few blocks or FAT entries mkfs writes outside its buffer, and of a file with
\* more blocks than an inode can name put_block() drops the rest in silence.
walk(name, content) ==
    LET n == Ceil(Len(content))
        b == alloc_free_block(1)
        part(k) == [c \in Cells |->
                       LET x == k * BLOCK_SIZE + c + 1
                       IN  IF x <= Len(content) THEN content[x] ELSE 0]
        ind == IF n > NDirect THEN alloc_free_block(IndirectCall) ELSE 0
    IN  /\ mode = "mkfs"
        /\ ~Exists(name)
        /\ n <= NDirect + NIndirect /\ alloc_free_block(Calls(n)) # NoBlock
        /\ \E i \in Fat : FirstEmpty(i) /\ fat' = [fat EXCEPT ![i] = b]
        /\ inode' = [inode EXCEPT ![b] =
               [name     |-> name,
                size     |-> Len(content),
                blocks   |-> n,
                direct   |-> [k \in 0 .. NDirect - 1 |->
                                 IF k < n THEN alloc_free_block(DataCall(k + 1)) ELSE 0],
                indirect |-> ind]]
        /\ data' = [x \in Blocks |->
               CASE \E k \in 1 .. n : x = alloc_free_block(DataCall(k)) ->
                       part((CHOOSE k \in 1 .. n : x = alloc_free_block(DataCall(k))) - 1)
                 [] ind # 0 /\ x = ind ->
                       [c \in Cells |-> IF c < n - NDirect
                                        THEN alloc_free_block(DataCall(NDirect + c + 1))
                                        ELSE 0]
                 [] OTHER -> data[x]]
        /\ Allocated(Calls(n))
        /\ UNCHANGED mode

\* main() of mkfs writes the image; the kernel is linked with it and boots.
boot ==
    /\ mode = "mkfs"
    /\ mode' = "run"
    /\ UNCHANGED <<freemap, unused_blocks, fat, inode, data>>

-----------------------------------------------------------------------------
(* create(), as sys_open() calls it with O_CREATE for a name lookup() does *)
(* not find.  Neither of its results is tested for -1.                     *)

\* b is the new inode block, or NoBlock when create() writes the inode to
\* get_inode(-1), in front of the image.
create(name, b) ==
    /\ mode = "run"
    /\ ~Exists(name)
    /\ b = IF \E i \in Fat : FirstEmpty(i) THEN alloc_free_block(1) ELSE NoBlock
    /\ Allocated(IF \E i \in Fat : FirstEmpty(i) THEN 1 ELSE 0)
    /\ \/ /\ b # NoBlock
          /\ \E i \in Fat : FirstEmpty(i) /\ fat' = [fat EXCEPT ![i] = b]
          /\ inode' = [inode EXCEPT ![b] = [Zeroed EXCEPT !.name = name]]
          /\ UNCHANGED <<data, mode>>
       \/ /\ b = NoBlock
          /\ mode' = "wild"
          /\ UNCHANGED <<fat, inode, data>>

-----------------------------------------------------------------------------
(* sys_write()                                                             *)

Rank(S, k) == Cardinality({j \in S : j <= k})

\* Mutant: the test is missing.
NoIndirect_untested(node) == TRUE

NoIndirect(node) == node.indirect = 0

\* The inode and the entries of its indirect block after increase_size(), the
\* number of blocks it has asked for, and whether it has taken a block
\* outside the image for an indirect one.  NoBlock stands for the -1 it stores when there is no
\* block: 65535 in the 16 bits of direct and indirect, outside the image all
\* the same.  A file that is too long for the entries of an indirect block gets
\* no more blocks than these.
increase_size(i, new_size) ==
    LET node == inode[i]
        num == IF node.blocks * BLOCK_SIZE >= new_size
               THEN 0 ELSE Ceil(new_size) - node.blocks
        unfilled == {k \in 0 .. NDirect - 1 : node.direct[k] = 0}
        d == Min({num, Cardinality(unfilled)})
        x == IF num > d /\ NoIndirect(node) THEN 1 ELSE 0
        indirect == IF x = 1 THEN alloc_free_block(d + 1) ELSE node.indirect
        table == IF indirect \in Blocks THEN data[indirect] ELSE [c \in Cells |-> 0]
        empty == {k \in 0 .. NIndirect - 1 : table[k] = 0}
        e == Min({num - d, Cardinality(empty)})
    IN  [node |-> [node EXCEPT
             !.blocks = @ + num,
             !.direct = [k \in DOMAIN @ |->
                 IF k \in unfilled /\ Rank(unfilled, k) <= d
                 THEN alloc_free_block(Rank(unfilled, k)) ELSE @[k]],
             !.indirect = indirect],
         table |-> [c \in Cells |->
             IF c \in empty /\ Rank(empty, c) <= e
             THEN alloc_free_block(d + x + Rank(empty, c)) ELSE table[c]],
         calls |-> d + x + e,
        outside |-> num > d /\ indirect = NoBlock]

\* The block that a write meets at the k-th part of a file, if it is known.
Target(grown, k) ==
    IF k < NDirect + NIndirect THEN BlockOf(grown.node, grown.table, k) ELSE NoBlock

\* A write that leaves the image.
Strays(grown, parts) ==
    grown.outside \/ \E k \in parts : Target(grown, k) \notin Blocks

\* The cells after the entries of the indirect block have been filled.
WithTable(grown) ==
    IF grown.node.indirect \in Blocks \ {0}
    THEN [data EXCEPT ![grown.node.indirect] = grown.table]
    ELSE data

\* Mutant: the size follows the offset down as well.
NewSize_always(size, end) == end

NewSize(size, end) == IF size < end THEN end ELSE size

\* The copy loop of sys_write() writes wherever the block number leads it.
Copy(i, off, buf, grown) ==
    LET count == Len(buf)
        parts == Parts(off, count)
    IN  \/ /\ ~Strays(grown, parts)
           /\ data' = [b \in Blocks |-> [c \in Cells |->
                  IF \E k \in parts : Target(grown, k) = b
                  THEN LET k == CHOOSE k \in parts : Target(grown, k) = b
                           at == Chunk(off, count, k)
                       IN  IF c \in at.from .. at.from + at.len - 1
                           THEN buf[at.num + c - at.from + 1]
                           ELSE WithTable(grown)[b][c]
                  ELSE WithTable(grown)[b][c]]]
           /\ inode' = [inode EXCEPT ![i] =
                  [grown.node EXCEPT !.size = NewSize(@, off + count)]]
           /\ UNCHANGED mode
        \/ /\ Strays(grown, parts)
           /\ data' = WithTable(grown)
           /\ inode' = [inode EXCEPT ![i] = grown.node]
           /\ mode' = "wild"

\* sys_write() of buf to a file that is open on inode i, from offset off.  A
\* count below 0 is not modelled: nothing is copied then, and no file changes.
sys_write(i, off, buf) ==
    LET grown == increase_size(i, off + Len(buf)) IN
    /\ mode = "run"
    /\ Allocated(grown.calls)
    /\ Copy(i, off, buf, grown)
    /\ UNCHANGED fat

-----------------------------------------------------------------------------

Files == {fat[i] : i \in Fat} \ {0}

\* The offsets an open file can have: not behind the end, except for "/",
\* whose offset sys_read() moves from entry to entry.
Offset(i, off) ==
    \/ i \in Files /\ off \in 0 .. inode[i].size
    \/ i = ROOT /\ off \in 0 .. MaxOff

\* Once it has written outside the image the kernel may do anything.
Wild == mode = "wild" /\ UNCHANGED disk

Next ==
    \/ \E name \in Names, content \in RootFs : walk(name, content)
    \/ boot
    \/ \E name \in Names, b \in Blocks \cup {NoBlock} : create(name, b)
    \/ \E i \in Files \cup {ROOT}, buf \in Bufs :
          \E off \in 0 .. Max({inode[i].size, MaxOff}) :
              Offset(i, off) /\ sys_write(i, off, buf)
    \/ Wild

Spec == Init /\ [][Next]_disk

-----------------------------------------------------------------------------
(* What must hold                                                          *)

\* The type invariant of the image.
TypeOK ==
    /\ freemap \in SUBSET Blocks
    /\ unused_blocks \in 0 .. BLOCK_NUM
    /\ fat \in [Fat -> Blocks]
    /\ inode \in [Inodes ->
           [name     : Names \cup {NoName},
            size     : Nat,
            blocks   : Nat,
            direct   : [0 .. NDirect - 1 -> Blocks \cup {NoBlock}],
            indirect : Blocks \cup {NoBlock}]]
    /\ data \in [Blocks -> [Cells -> Nat \cup {NoBlock}]]
    /\ mode \in {"mkfs", "run", "wild"}

\* Every place that names a block: [what, of, block].
Slots(i) == 0 .. NDirect + NIndirect - 1
Slot(i, k) ==
    IF k >= NDirect /\ inode[i].indirect \notin Blocks \ {0} THEN 0
    ELSE BlockOf(inode[i], Table(inode[i]), k)

Uses ==
    {[what |-> "system", of |-> b, block |-> b] : b \in 0 .. 2}
    \cup {[what |-> "fat", of |-> j, block |-> fat[j]] : j \in Fat}
    \cup {[what |-> "indirect", of |-> i, block |-> inode[i].indirect] : i \in Inodes}
    \cup UNION {{[what |-> "slot", of |-> <<i, k>>, block |-> Slot(i, k)]
                    : k \in Slots(i)} : i \in Files \cup {ROOT}}

\* No two places name the same block, the bitmap has exactly the blocks that
\* are named, and the counter of the superblock counts the others: nothing is
\* shared between files and nothing leaks, whatever a call runs out of.
BlocksExact ==
    /\ TypeOK
    /\ mode # "wild" =>
        LET uses == {u \in Uses : u.what = "system" \/ u.block \notin {0, NoBlock}} IN
        /\ freemap = {u.block : u \in uses}
        /\ \A u, v \in uses : u.block = v.block => u = v
        /\ unused_blocks = BLOCK_NUM - Cardinality(freemap)

\* A file has a block for every byte of its size, without gaps, and `blocks`
\* counts them: read_from_inode() follows the block numbers up to the size
\* without a look at them.
SizeCovered ==
    mode # "wild" =>
    \A i \in Files :
        /\ inode[i].size <= inode[i].blocks * BLOCK_SIZE
        /\ \A k \in Slots(i) :
              IF k < inode[i].blocks THEN Slot(i, k) \in Blocks \ {0} ELSE Slot(i, k) = 0

\* A block that is free has never been written: increase_size() takes a new
\* indirect block for an empty table without clearing it.
FreshBlocksZero ==
    mode # "wild" =>
    \A b \in Blocks \ freemap : data[b] = [c \in Cells |-> 0] /\ inode[b] = Zeroed

\* The FAT entries in use come first, so that the listing of "/" by offset
\* meets every file, and no two files have the same name.
DirectoryExact ==
    /\ \A i, j \in Fat : i < j /\ fat[j] # 0 => fat[i] # 0
    /\ \A i, j \in Fat :
          fat[i] # 0 /\ fat[j] # 0 =>
              /\ inode[fat[i]].name \in Names
              /\ inode[fat[i]].name = inode[fat[j]].name => i = j

\* The bytes of a file, one at a time.
Contents(i) ==
    [n \in 1 .. inode[i].size |->
        data[Slot(i, (n - 1) \div BLOCK_SIZE)][(n - 1) % BLOCK_SIZE]]

\* read_from_inode() returns the bytes from off on, none behind the end of the
\* file, and at most count of them when count is not below 0.  For every count
\* below 0 it returns the rest of the file, and so more than the "at most
\* count" of its comment.
ReadsExact ==
    mode # "wild" =>
    \A i \in Files : \A off \in 0 .. inode[i].size, count \in -INT_MAX - 1 .. INT_MAX :
        read_from_inode(i, off, count) =
            SubSeq(Contents(i), off + 1,
                   IF count < 0 THEN inode[i].size ELSE Min({off + count, inode[i].size}))

\* What the files of the image hold, by name.
Store ==
    [name \in {n \in Names : Exists(n)} |->
        Contents(CHOOSE b \in Blocks : Lookup(name, b))]

\* The bytes `old` after buf has been written over them from off on.
Overlay(old, off, buf) ==
    [n \in 1 .. Max({Len(old), off + Len(buf)}) |->
        IF n \in off + 1 .. off + Len(buf) THEN buf[n - off] ELSE old[n]]

\* Each call does to the files what it says and nothing else: walk() and
\* create() add one, sys_write() puts the buffer at the offset and leaves
\* every other byte of every file alone, and a write to "/" changes no file.
CallExact ==
    /\ \A name \in Names, content \in RootFs :
          walk(name, content) => Store' = Store @@ (name :> content)
    /\ mode' = "run" =>
       /\ \A name \in Names, b \in Files' :
             create(name, b) => Store' = Store @@ (name :> <<>>)
       /\ \A name \in DOMAIN Store, buf \in Bufs :
          LET i == CHOOSE b \in Blocks : Lookup(name, b) IN
          \A off \in 0 .. inode[i].size :
             sys_write(i, off, buf) =>
                 Store' = [Store EXCEPT ![name] = Overlay(@, off, buf)]
       /\ inode'[ROOT] # inode[ROOT] => Store' = Store

CallsExact == [][CallExact]_disk

-----------------------------------------------------------------------------
(* What a comment says and the code does not do                            *)

\* increase_size() says it extends the space of the file to at least the new
\* size: the blocks it counts are blocks of the image.
SpaceExtended ==
    \A i \in Inodes : \A k \in 0 .. inode[i].blocks - 1 :
        k < NDirect + NIndirect /\ Slot(i, k) \in Blocks \ {0}

-----------------------------------------------------------------------------
(* The inductive invariant: the above, without wild states, with what it    *)
(* rests on.                                                               *)

\* The entries of an inode and of its indirect block are taken in order, and
\* the indirect block exactly when the first entry in it is.
Filled(i) ==
    /\ inode[i].indirect \in Blocks
    /\ inode[i].indirect = 0 <=> inode[i].blocks <= NDirect
    /\ \A k \in Slots(i) : Slot(i, k) = 0 <=> k >= inode[i].blocks

\* No file is longer than the blocks an inode can name: its size is an int.
SizesFit ==
    mode # "wild" => \A i \in Files : inode[i].size <= (NDirect + NIndirect) * BLOCK_SIZE

\* Only the blocks that the FAT names are inodes.
InodesNamed == \A b \in Blocks \ Files : inode[b] = Zeroed

IInv ==
    /\ BlocksExact /\ SizeCovered /\ FreshBlocksZero /\ DirectoryExact /\ SizesFit
    /\ mode # "wild" => InodesNamed /\ \A i \in Files \cup {ROOT} : Filled(i)
=============================================================================
