--------------------------- MODULE OpenFilesProofs ---------------------------
(***************************************************************************)
(* The open files of the processes: the count of every struct File is      *)
(* right, an offset stays inside its file, and what the calls make of the  *)
(* image is what SimpleFS says.                                            *)
(*                                                                         *)
(* The argument: a call replaces the table of one process, so the number   *)
(* of descriptors that point to a File changes by what the two tables of   *)
(* that process say; offsets follow the sizes, which only sys_write()      *)
(* moves.  What the image itself guarantees comes from SimpleFSProofs.     *)
(***************************************************************************)
EXTENDS OpenFiles, FiniteSetTheorems, TLAPS

Image == INSTANCE SimpleFSProofs

-----------------------------------------------------------------------------
(* FS and Image are the same module                                        *)

LEMMA Constants ==
    /\ BLOCK_NUM \in Nat /\ BLOCK_NUM > 3
    /\ BLOCK_SIZE \in Nat \ {0}
    /\ NDirect \in Nat \ {0}
    /\ NIndirect \in 1 .. BLOCK_SIZE
    /\ NFat \in 1 .. BLOCK_SIZE
    /\ NoName \notin Names
    /\ ROOT \notin Image!Blocks \cup {Image!NoBlock}
    /\ Bufs \subseteq Seq(Nat) /\ RootFs \subseteq Seq(Nat)
    /\ MaxOff \in Nat
    /\ INT_MAX \in Nat /\ INT_MAX >= (NDirect + NIndirect) * BLOCK_SIZE
BY ImageAssumption DEF FS!Blocks, Image!Blocks, FS!NoBlock, Image!NoBlock

LEMMA SameState ==
    /\ FS!IInv <=> Image!IInv
    /\ FS!IInv' <=> Image!IInv'
    /\ FS!Init <=> Image!Init
    /\ FS!Files = Image!Files /\ FS!Files' = Image!Files'
    /\ FS!Inodes = Image!Inodes /\ FS!Blocks = Image!Blocks /\ FS!NoBlock = Image!NoBlock
    /\ FS!disk = Image!disk /\ FS!disk' = Image!disk'
BY DEF FS!IInv, Image!IInv, FS!BlocksExact, Image!BlocksExact, FS!SizeCovered, Image!SizeCovered,
       FS!SizesFit, Image!SizesFit,
       FS!FreshBlocksZero, Image!FreshBlocksZero, FS!DirectoryExact, Image!DirectoryExact,
       FS!InodesNamed, Image!InodesNamed, FS!Filled, Image!Filled,
       FS!TypeOK, Image!TypeOK, FS!Uses, Image!Uses, FS!Slots, Image!Slots, FS!Slot, Image!Slot,
       FS!BlockOf, Image!BlockOf, FS!Table, Image!Table, FS!Files, Image!Files,
       FS!Blocks, Image!Blocks, FS!Inodes, Image!Inodes, FS!Cells, Image!Cells, FS!Fat, Image!Fat,
       FS!NoBlock, Image!NoBlock, FS!Zeroed, Image!Zeroed, FS!Init, Image!Init,
       FS!Cardinality, Image!Cardinality, FS!disk, Image!disk

LEMMA SameWalk ==
    ASSUME NEW name, NEW content
    PROVE  FS!walk(name, content) <=> Image!walk(name, content)
BY DEF FS!walk, Image!walk, FS!Ceil, Image!Ceil, FS!Calls, Image!Calls,
       FS!DataCall, Image!DataCall, FS!IndirectCall, Image!IndirectCall,
       FS!Allocated, Image!Allocated, FS!alloc_free_block, Image!alloc_free_block,
       FS!Nth, Image!Nth, FS!Cardinality, Image!Cardinality, FS!Max, Image!Max,
       FS!Exists, Image!Exists, FS!FirstEmpty, Image!FirstEmpty, FS!Lookup, Image!Lookup,
       FS!Blocks, Image!Blocks, FS!Cells, Image!Cells, FS!Fat, Image!Fat, FS!NoBlock, Image!NoBlock

LEMMA SameBoot == FS!boot <=> Image!boot
BY DEF FS!boot, Image!boot

LEMMA SameLookup ==
    ASSUME NEW name, NEW i
    PROVE  FS!Lookup(name, i) <=> Image!Lookup(name, i)
BY DEF FS!Lookup, Image!Lookup, FS!Fat, Image!Fat

LEMMA SameCreate ==
    ASSUME NEW name, NEW i
    PROVE  FS!create(name, i) <=> Image!create(name, i)
BY DEF FS!create, Image!create, FS!Allocated, Image!Allocated,
       FS!alloc_free_block, Image!alloc_free_block, FS!Nth, Image!Nth,
       FS!Cardinality, Image!Cardinality, FS!Max, Image!Max, FS!Exists, Image!Exists,
       FS!FirstEmpty, Image!FirstEmpty, FS!Lookup, Image!Lookup, FS!Zeroed, Image!Zeroed,
       FS!Blocks, Image!Blocks, FS!Fat, Image!Fat, FS!NoBlock, Image!NoBlock

LEMMA SameRead ==
    ASSUME NEW i, NEW off, NEW count
    PROVE  FS!read_from_inode(i, off, count) = Image!read_from_inode(i, off, count)
BY DEF FS!read_from_inode, Image!read_from_inode, FS!Parts, Image!Parts,
       FS!Unsigned, Image!Unsigned, FS!Signed, Image!Signed,
       FS!Chunk, Image!Chunk, FS!BlockOf, Image!BlockOf, FS!Table, Image!Table,
       FS!Cardinality, Image!Cardinality, FS!Min, Image!Min, FS!Max, Image!Max,
       FS!FlattenSeq, Image!FlattenSeq

LEMMA SameWrite ==
    ASSUME NEW i, NEW off, NEW buf
    PROVE  FS!sys_write(i, off, buf) <=> Image!sys_write(i, off, buf)
<1>1. ASSUME NEW n PROVE FS!alloc_free_block(n) = Image!alloc_free_block(n)
  BY DEF FS!alloc_free_block, Image!alloc_free_block, FS!Nth, Image!Nth,
         FS!Cardinality, Image!Cardinality, FS!Blocks, Image!Blocks, FS!NoBlock, Image!NoBlock
<1>2. ASSUME NEW n PROVE FS!increase_size(i, n) = Image!increase_size(i, n)
  BY DEF FS!increase_size, Image!increase_size, FS!Ceil, Image!Ceil, FS!Rank, Image!Rank,
         FS!NoIndirect, Image!NoIndirect, FS!Cardinality, Image!Cardinality,
         FS!Min, Image!Min, FS!Blocks, Image!Blocks, FS!Cells, Image!Cells,
         FS!alloc_free_block, Image!alloc_free_block, FS!Nth, Image!Nth,
         FS!NoBlock, Image!NoBlock
<1>3. ASSUME NEW n PROVE FS!Allocated(n) <=> Image!Allocated(n)
  BY DEF FS!Allocated, Image!Allocated, FS!alloc_free_block, Image!alloc_free_block,
         FS!Nth, Image!Nth, FS!Cardinality, Image!Cardinality, FS!Max, Image!Max,
         FS!Blocks, Image!Blocks, FS!NoBlock, Image!NoBlock
<1>4. ASSUME NEW g PROVE FS!Copy(i, off, buf, g) <=> Image!Copy(i, off, buf, g)
  BY DEF FS!Copy, Image!Copy, FS!Strays, Image!Strays, FS!Target, Image!Target,
         FS!WithTable, Image!WithTable, FS!NewSize, Image!NewSize, FS!Parts, Image!Parts,
         FS!Chunk, Image!Chunk, FS!BlockOf, Image!BlockOf, FS!Min, Image!Min,
         FS!Blocks, Image!Blocks, FS!Cells, Image!Cells, FS!NoBlock, Image!NoBlock
<1>5. PICK g : g = FS!increase_size(i, off + Len(buf)) OBVIOUS
<1>6. FS!sys_write(i, off, buf)
         <=> mode = "run" /\ FS!Allocated(g.calls) /\ FS!Copy(i, off, buf, g) /\ UNCHANGED fat
  BY <1>5 DEF FS!sys_write
<1>7. Image!sys_write(i, off, buf)
         <=> mode = "run" /\ Image!Allocated(g.calls) /\ Image!Copy(i, off, buf, g) /\ UNCHANGED fat
  BY <1>2, <1>5 DEF Image!sys_write
<1> QED BY <1>3, <1>4, <1>6, <1>7

-----------------------------------------------------------------------------
(* Tables and counts                                                       *)

Points(t, f) == \E fd \in Fds : t[fd] = f

One(t, f) == IF Points(t, f) THEN 1 ELSE 0

\* The descriptors that point to f in the tables fs.
Refs(fs, f) == {e \in Procs \X Fds : fs[e[1]][e[2]] = f}

\* Those that are not of process p.
Others(fs, p, f) == {e \in Procs \X Fds : e[1] # p /\ fs[e[1]][e[2]] = f}

\* A table in which f comes once at most.
Once(t, f) == \A fd, gd \in Fds : t[fd] = f /\ t[gd] = f => fd = gd

Table == [Fds -> FileBlocks \cup {NULL}]

AFile == [type  : {FILE_INODE, FILE_STDIO} \cup Leftovers,
          count : Nat,
          off   : Nat,
          inode : FS!Inodes \cup {NULL}]

LEMMA Numbers ==
    /\ Fds \in SUBSET Nat /\ IsFiniteSet(Fds) /\ NR_OPEN \in Nat /\ NStd \in Nat
    /\ NStd > 0 /\ NStd < NR_OPEN
    /\ IsFiniteSet(Procs) /\ IsFiniteSet(Procs \X Fds)
    /\ NULL \notin FileBlocks /\ NULL \notin Nat /\ NULL \notin FS!Inodes
    /\ NoFiles \in Table /\ Freed \in AFile /\ Stdio \in AFile
<1>1. NR_OPEN \in Nat /\ NStd \in Nat /\ NStd > 0 /\ NStd < NR_OPEN
      /\ IsFiniteSet(Procs) /\ NULL \notin FileBlocks /\ NULL \notin Nat /\ NULL # ROOT
  BY OpenFilesAssumption
<1>2. IsFiniteSet(Fds) /\ Fds \in SUBSET Nat BY <1>1, FS_Interval DEF Fds
<1>3. IsFiniteSet(Procs \X Fds) BY <1>1, <1>2, FS_Product
<1>4. NULL \notin FS!Inodes
  <2>1. FS!Blocks \in SUBSET Nat BY ImageAssumption DEF FS!Blocks
  <2> QED BY <1>1, <2>1 DEF FS!Inodes
<1>5. NoFiles \in Table BY DEF NoFiles, Table
<1>6. Freed \in AFile /\ Stdio \in AFile
  BY DEF Freed, Stdio, AFile, FILE_INODE, FILE_STDIO
<1> QED BY <1>1, <1>2, <1>3, <1>4, <1>5, <1>6

\* The descriptors of one process, and those of the others.
LEMMA TableRefs ==
    ASSUME NEW fs, NEW p \in Procs, NEW f, Once(fs[p], f)
    PROVE  /\ Cardinality(Others(fs, p, f)) \in Nat
           /\ Cardinality(Refs(fs, f)) = Cardinality(Others(fs, p, f)) + One(fs[p], f)
<1> DEFINE others == Others(fs, p, f)
<1>1. IsFiniteSet(others)
  <2>1. others \in SUBSET (Procs \X Fds) BY DEF Others
  <2> HIDE DEF others
  <2> QED BY <2>1, Numbers, FS_Subset
<1>2. Cardinality(others) \in Nat
  <2> HIDE DEF others
  <2> QED BY <1>1, FS_CardinalityType
<1>3. CASE ~Points(fs[p], f)
  <2>1. Refs(fs, f) = others BY <1>3 DEF Refs, Points, Others
  <2> HIDE DEF others
  <2> QED BY <1>2, <1>3, <2>1 DEF One, others
<1>4. CASE Points(fs[p], f)
  <2>1. PICK fd \in Fds : fs[p][fd] = f BY <1>4 DEF Points
  <2>2. Refs(fs, f) = others \cup {<<p, fd>>}
    <3>1. ASSUME NEW e \in Refs(fs, f) PROVE e \in others \cup {<<p, fd>>}
      <4>1. e \in Procs \X Fds /\ fs[e[1]][e[2]] = f BY <3>1 DEF Refs
      <4>2. e = <<e[1], e[2]>> /\ e[2] \in Fds BY <4>1
      <4>3. e[1] = p => e[2] = fd BY <2>1, <4>1, <4>2 DEF Once
      <4> QED BY <4>1, <4>2, <4>3 DEF Others
    <3>2. others \in SUBSET Refs(fs, f) BY DEF Refs, Others
    <3>3. <<p, fd>> \in Refs(fs, f) BY <2>1 DEF Refs
    <3> QED BY <3>1, <3>2, <3>3
  <2>3. <<p, fd>> \notin others BY DEF Others
  <2> HIDE DEF others
  <2>4. Cardinality(others \cup {<<p, fd>>}) = Cardinality(others) + 1
    BY <1>1, <2>3, FS_AddElement
  <2> QED BY <1>2, <1>4, <2>2, <2>4 DEF One, others
<1> QED BY <1>3, <1>4

\* A File in a table has a reference.
LEMMA Counted ==
    ASSUME TypeOK, CountExact, TablesExact, NEW p \in Procs, NEW f \in FileBlocks
    PROVE  /\ file[f].count \in Nat /\ file[f].count = Cardinality(Refs(files, f))
           /\ Once(files[p], f)
           /\ Points(files[p], f) => file[f].count > 0
<1>1. Once(files[p], f)
  <2>1. f # NULL BY Numbers
  <2> QED BY <2>1 DEF Once, TablesExact
<1>2. file[f].count = Cardinality(Refs(files, f)) BY DEF CountExact, Refs
<1>3. file[f].count \in Nat BY DEF TypeOK
<1>4. Points(files[p], f) => file[f].count > 0
  <2>1. /\ Cardinality(Others(files, p, f)) \in Nat
        /\ Cardinality(Refs(files, f)) = Cardinality(Others(files, p, f)) + One(files[p], f)
    BY <1>1, TableRefs
  <2> QED BY <1>2, <2>1 DEF One
<1> QED BY <1>1, <1>2, <1>3, <1>4

\* The counts are still right when process p has got the table t, and the
\* counts have moved by the difference of the two tables.
LEMMA Recounted ==
    ASSUME TypeOK, CountExact, TablesExact, NEW p \in Procs, NEW t,
           files' = [files EXCEPT ![p] = t],
           \A f \in FileBlocks :
              /\ Once(t, f) /\ file'[f].count \in Nat
              /\ file'[f].count + One(files[p], f) = file[f].count + One(t, f)
    PROVE  CountExact'
<1>1. ASSUME NEW f \in FileBlocks
      PROVE  file'[f].count = Cardinality({e \in Procs \X Fds : files'[e[1]][e[2]] = f})
  <2> DEFINE others(fs) == Others(fs, p, f)
  <2>1. file[f].count = Cardinality(Refs(files, f)) /\ Once(files[p], f) BY Counted
  <2>2. files'[p] = t /\ \A q \in Procs : q # p => files'[q] = files[q]
    <3>1. DOMAIN files = Procs BY DEF TypeOK
    <3> QED BY <3>1
  <2>3. others(files') = others(files)
    <3>1. \A e \in Procs \X Fds : e[1] # p => files'[e[1]] = files[e[1]] BY <2>2
    <3> QED BY <3>1 DEF Others
  <2>4. /\ Cardinality(others(files)) \in Nat
        /\ Cardinality(Refs(files, f)) = Cardinality(others(files)) + One(files[p], f)
    BY <2>1, TableRefs
  <2>5. Cardinality(Refs(files', f)) = Cardinality(others(files')) + One(files'[p], f)
    <3>1. PICK fs : fs = files' OBVIOUS
    <3>2. Once(fs[p], f) BY <2>2, <3>1
    <3>3. Cardinality(Refs(fs, f)) = Cardinality(others(fs)) + One(fs[p], f)
      BY <3>2, TableRefs
    <3> QED BY <3>1, <3>3
  <2> HIDE DEF others
  <2>6. One(files[p], f) \in Nat /\ One(t, f) \in Nat BY DEF One
  <2>7. Cardinality(Refs(files', f)) = Cardinality(others(files)) + One(t, f)
    BY <2>2, <2>3, <2>5
  <2>8. file'[f].count = Cardinality(Refs(files', f))
    BY <2>1, <2>4, <2>6, <2>7
  <2> QED BY <2>8 DEF Refs
<1> QED BY <1>1 DEF CountExact

-----------------------------------------------------------------------------
(* What closing, sharing and opening do to the struct Files                *)

\* The type, offset and inode of f, if it is in use, are those it had, or
\* those of the console.
Held(f) ==
    file'[f].count > 0 =>
        \/ /\ file[f].count > 0 /\ file'[f].type = file[f].type
           /\ file'[f].off = file[f].off /\ file'[f].inode = file[f].inode
        \/ file'[f].type = FILE_STDIO /\ file'[f].inode = NULL

LEMMA DroppedIs ==
    ASSUME NEW fs \in [FileBlocks -> AFile], NEW table, NEW f \in FileBlocks,
           Points(table, f) => fs[f].count > 0
    PROVE  /\ Dropped(fs, table)[f] \in AFile
           /\ Dropped(fs, table)[f].count + One(table, f) = fs[f].count
           /\ Dropped(fs, table)[f].count > 0 =>
                 /\ Dropped(fs, table)[f].type = fs[f].type
                 /\ Dropped(fs, table)[f].off = fs[f].off
                 /\ Dropped(fs, table)[f].inode = fs[f].inode
<1> DEFINE d == Dropped(fs, table)[f]
<1>1. fs[f] \in AFile /\ fs[f].count \in Nat BY DEF AFile
<1>2. CASE ~Points(table, f)
  <2>1. d = fs[f] BY <1>2 DEF Dropped, Points
  <2> HIDE DEF d
  <2>2. d \in AFile /\ d.count + One(table, f) = fs[f].count BY <1>1, <1>2, <2>1 DEF One
  <2> QED BY <2>1, <2>2 DEF d
<1>3. CASE Points(table, f) /\ fs[f].count = 1
  <2>1. d = Freed BY <1>3 DEF Dropped, Points
  <2> HIDE DEF d
  <2>2. d \in AFile /\ d.count = 0 BY <2>1, Numbers DEF Freed
  <2> QED BY <1>1, <1>3, <2>2 DEF d, One
<1>4. CASE Points(table, f) /\ fs[f].count # 1
  <2>1. d = [fs[f] EXCEPT !.count = @ - 1] BY <1>4 DEF Dropped, Points
  <2> HIDE DEF d
  <2>2. fs[f].count - 1 \in Nat BY <1>1, <1>4
  <2>3. d \in AFile /\ d.count = fs[f].count - 1 /\ d.type = fs[f].type
        /\ d.off = fs[f].off /\ d.inode = fs[f].inode
    BY <1>1, <2>1, <2>2 DEF AFile
  <2> QED BY <1>1, <1>4, <2>3 DEF d, One
<1> QED BY <1>2, <1>3, <1>4

LEMMA SharedIs ==
    ASSUME NEW fs \in [FileBlocks -> AFile], NEW table, NEW f \in FileBlocks
    PROVE  /\ Shared(fs, table)[f] \in AFile
           /\ Shared(fs, table)[f].count = fs[f].count + One(table, f)
           /\ Shared(fs, table)[f].type = fs[f].type
           /\ Shared(fs, table)[f].off = fs[f].off
           /\ Shared(fs, table)[f].inode = fs[f].inode
<1> DEFINE s == Shared(fs, table)[f]
<1>1. fs[f] \in AFile /\ fs[f].count \in Nat BY DEF AFile
<1>2. CASE ~Points(table, f)
  <2>1. s = fs[f] BY <1>2 DEF Shared, Points
  <2> HIDE DEF s
  <2> QED BY <1>1, <1>2, <2>1 DEF s, One
<1>3. CASE Points(table, f)
  <2>1. s = [fs[f] EXCEPT !.count = @ + 1] BY <1>3 DEF Shared, Points
  <2> HIDE DEF s
  <2>2. fs[f].count + 1 \in Nat BY <1>1
  <2>3. s \in AFile /\ s.count = fs[f].count + 1 /\ s.type = fs[f].type
        /\ s.off = fs[f].off /\ s.inode = fs[f].inode
    BY <1>1, <2>1, <2>2 DEF AFile
  <2> QED BY <1>3, <2>3 DEF s, One
<1> QED BY <1>2, <1>3

\* stdin, stdout and stderr in blocks that hold no File.
LEMMA StdioIs ==
    ASSUME NEW fs \in [FileBlocks -> AFile], NEW std \in StdBlocks(fs)
    PROVE  /\ StdTable(std) \in Table
           /\ \A fd, gd \in Fds :
                 StdTable(std)[fd] = StdTable(std)[gd] /\ StdTable(std)[fd] # NULL => fd = gd
           /\ \A f \in FileBlocks :
                 /\ Once(StdTable(std), f)
                 /\ Points(StdTable(std), f) => fs[f].count = 0
                 /\ WithStdio(fs, std)[f] \in AFile
                 /\ WithStdio(fs, std)[f].count = fs[f].count + One(StdTable(std), f)
                 /\ WithStdio(fs, std)[f]
                       = IF Points(StdTable(std), f) THEN Stdio ELSE fs[f]
<1> DEFINE t == StdTable(std)
           w == WithStdio(fs, std)
<1>1. /\ std \in [0 .. NStd - 1 -> FileBlocks] /\ \A fd \in 0 .. NStd - 1 : fs[std[fd]].count = 0
      /\ IsInjective(std)
  BY DEF StdBlocks
<1>2. \A fd, gd \in 0 .. NStd - 1 : std[fd] = std[gd] => fd = gd
  BY <1>1 DEF IsInjective
<1>3. \A fd \in Fds : fd \in Nat /\ (fd < NStd <=> fd \in 0 .. NStd - 1) BY Numbers
<1>4. \A fd \in Fds : t[fd] = IF fd < NStd THEN std[fd] ELSE NULL BY DEF StdTable
<1>5. t \in Table
  <2>1. \A fd \in Fds : t[fd] \in FileBlocks \cup {NULL} BY <1>1, <1>3, <1>4
  <2>2. t = [fd \in Fds |-> t[fd]] BY DEF StdTable
  <2> HIDE DEF t
  <2> QED BY <2>1, <2>2 DEF Table
<1> HIDE DEF t
<1>6. ASSUME NEW fd \in Fds, NEW gd \in Fds, t[fd] = t[gd], t[fd] # NULL PROVE fd = gd
  <2>1. fd < NStd /\ gd < NStd /\ t[fd] = std[fd] /\ t[gd] = std[gd] BY <1>4, <1>6
  <2> QED BY <1>2, <1>3, <1>6, <2>1
<1>7. ASSUME NEW f \in FileBlocks
      PROVE  /\ Points(t, f) <=> \E fd \in DOMAIN std : std[fd] = f
             /\ Points(t, f) => fs[f].count = 0
  <2>1. DOMAIN std = 0 .. NStd - 1 /\ f # NULL BY <1>1, Numbers
  <2>2. ASSUME NEW fd \in Fds, t[fd] = f PROVE fd \in 0 .. NStd - 1 /\ std[fd] = f
    BY <1>3, <1>4, <2>1, <2>2
  <2>3. ASSUME NEW fd \in 0 .. NStd - 1, std[fd] = f PROVE fd \in Fds /\ t[fd] = f
    <3>1. fd \in Fds BY Numbers DEF Fds
    <3> QED BY <1>3, <1>4, <2>3, <3>1
  <2> QED BY <1>1, <2>1, <2>2, <2>3 DEF Points
<1>8. ASSUME NEW f \in FileBlocks
      PROVE  /\ Once(t, f) /\ w[f] = IF Points(t, f) THEN Stdio ELSE fs[f]
             /\ w[f] \in AFile /\ w[f].count = fs[f].count + One(t, f)
  <2>1. Once(t, f) BY <1>6, Numbers DEF Once
  <2>2. w[f] = IF Points(t, f) THEN Stdio ELSE fs[f] BY <1>7 DEF WithStdio
  <2> HIDE DEF w
  <2>3. fs[f] \in AFile /\ fs[f].count \in Nat BY DEF AFile
  <2>4. w[f] \in AFile BY <2>2, <2>3, Numbers
  <2>5. Stdio.count = 1 BY DEF Stdio
  <2> QED BY <1>7, <2>1, <2>2, <2>3, <2>4, <2>5 DEF One
<1> QED BY <1>5, <1>6, <1>7, <1>8 DEF t

-----------------------------------------------------------------------------
(* Steps that leave the image as it is                                     *)

LEMMA HeldKeeps ==
    ASSUME IInv, UNCHANGED disk, \A f \in FileBlocks : Held(f)
    PROVE  StdioExact' /\ OffsetsInFile' /\ RootOffset' /\ NoneOpen'
<1>1. /\ freemap' = freemap /\ unused_blocks' = unused_blocks /\ fat' = fat
      /\ inode' = inode /\ data' = data /\ mode' = mode
  BY DEF disk
<1>2. FS!Files' = FS!Files BY <1>1 DEF FS!Files
<1>3. StdioExact'
  <2>1. ASSUME NEW f \in FileBlocks, file'[f].count > 0
        PROVE  file'[f].type = FILE_STDIO <=> file'[f].inode = NULL
    BY <2>1 DEF Held, IInv, StdioExact
  <2> QED BY <2>1 DEF StdioExact
<1>4. OffsetsInFile'
  <2>1. ASSUME NEW f \in FileBlocks, file'[f].count > 0, file'[f].inode \notin {NULL, ROOT}
        PROVE  file'[f].inode \in FS!Files' /\ file'[f].off <= inode'[file'[f].inode].size
    <3>1. /\ file[f].count > 0 /\ file'[f].off = file[f].off /\ file'[f].inode = file[f].inode
      BY <2>1 DEF Held
    <3>2. file[f].inode \in FS!Files /\ file[f].off <= inode[file[f].inode].size
      BY <2>1, <3>1 DEF IInv, OffsetsInFile
    <3> QED BY <1>1, <1>2, <3>1, <3>2
  <2> QED BY <2>1 DEF OffsetsInFile
<1>5. RootOffset'
  <2>1. ROOT # NULL BY OpenFilesAssumption
  <2> QED BY <2>1 DEF Held, IInv, RootOffset
<1>6. NoneOpen' BY <1>1 DEF Held, IInv, NoneOpen
<1> QED BY <1>3, <1>4, <1>5, <1>6

LEMMA DiskKeeps ==
    ASSUME IInv, UNCHANGED disk
    PROVE  FS!IInv'
<1>1. [Image!Next]_(Image!disk) BY DEF disk, Image!disk
<1>2. Image!IInv BY SameState DEF IInv
<1>3. Image!IInv' BY <1>1, <1>2, Constants, Image!NextIInv
<1> QED BY <1>3, SameState

-----------------------------------------------------------------------------
(* A call replaces one table                                               *)

LEMMA TypeIs ==
    /\ TypeOK <=> /\ proc \in [Procs -> {"unused", "live", "exited"}]
                  /\ files \in [Procs -> Table] /\ file \in [FileBlocks -> AFile]
    /\ TypeOK' <=> /\ proc' \in [Procs -> {"unused", "live", "exited"}]
                   /\ files' \in [Procs -> Table] /\ file' \in [FileBlocks -> AFile]
BY DEF TypeOK, Table, AFile, FS!Inodes, FS!Blocks, Fds

\* A File comes once at most in t, and so does no pointer but NULL.
Distinct(t) == \A fd, gd \in Fds : t[fd] = t[gd] /\ t[fd] # NULL => fd = gd

LEMMA Retabled ==
    ASSUME TypeOK, CountExact, TablesExact, NEW p \in Procs, NEW t \in Table, Distinct(t),
           proc' \in [Procs -> {"unused", "live", "exited"}],
           \A q \in Procs : q # p => proc'[q] = proc[q],
           proc'[p] = "unused" => t = NoFiles,
           files' = [files EXCEPT ![p] = t],
           file' \in [FileBlocks -> AFile],
           \A f \in FileBlocks : file'[f].count + One(files[p], f) = file[f].count + One(t, f)
    PROVE  TypeOK' /\ CountExact' /\ TablesExact'
<1>1. files \in [Procs -> Table] BY TypeIs
<1>2. files' \in [Procs -> Table] BY <1>1
<1>3. TypeOK' BY <1>2, TypeIs
<1>4. ASSUME NEW f \in FileBlocks PROVE Once(t, f) /\ file'[f].count \in Nat
  <2>1. f # NULL BY Numbers
  <2>2. file'[f] \in AFile OBVIOUS
  <2> QED BY <2>1, <2>2 DEF Once, Distinct, AFile
<1>5. CountExact'
  <2>1. \A f \in FileBlocks :
           /\ Once(t, f) /\ file'[f].count \in Nat
           /\ file'[f].count + One(files[p], f) = file[f].count + One(t, f)
    BY <1>4
  <2>2. files' = [files EXCEPT ![p] = t] OBVIOUS
  <2> QED BY <2>1, <2>2, Recounted
<1>6. TablesExact'
  <2>1. ASSUME NEW q \in Procs
        PROVE  /\ proc'[q] = "unused" => files'[q] = NoFiles
               /\ \A fd, gd \in Fds :
                     files'[q][fd] = files'[q][gd] /\ files'[q][fd] # NULL => fd = gd
    <3>1. CASE q = p
      <4>1. files'[q] = t BY <1>1, <3>1
      <4> QED BY <3>1, <4>1 DEF Distinct
    <3>2. CASE q # p
      <4>1. files'[q] = files[q] /\ proc'[q] = proc[q] BY <1>1, <3>2
      <4> QED BY <4>1 DEF TablesExact
    <3> QED BY <3>1, <3>2
  <2> QED BY <2>1 DEF TablesExact
<1> QED BY <1>3, <1>5, <1>6

LEMMA CallKeeps ==
    ASSUME IInv, UNCHANGED disk, \A f \in FileBlocks : Held(f),
           TypeOK' /\ CountExact' /\ TablesExact'
    PROVE  IInv'
<1>1. StdioExact' /\ OffsetsInFile' /\ RootOffset' /\ NoneOpen' BY HeldKeeps
<1>2. FS!IInv' BY DiskKeeps
<1> QED BY <1>1, <1>2 DEF IInv

LEMMA NoFilesIs ==
    /\ NoFiles \in Table /\ Distinct(NoFiles)
    /\ \A f \in FileBlocks : One(NoFiles, f) = 0
<1>1. \A f \in FileBlocks : f # NULL BY Numbers
<1>2. \A fd \in Fds : NoFiles[fd] = NULL BY DEF NoFiles
<1> QED BY <1>1, <1>2, Numbers DEF Distinct, One, Points

LEMMA InitIInv == Init => IInv
<1> SUFFICES ASSUME Init PROVE IInv OBVIOUS
<1> DEFINE none == [f \in FileBlocks |-> Freed]
<1>1. PICK std \in StdBlocks(none) :
         /\ files = [p \in Procs |-> IF p = init THEN StdTable(std) ELSE NoFiles]
         /\ file = WithStdio(none, std)
  BY DEF Init
<1>2. /\ proc = [p \in Procs |-> IF p = init THEN "live" ELSE "unused"]
      /\ FS!Init
  BY DEF Init
<1>3. none \in [FileBlocks -> AFile] /\ \A f \in FileBlocks : none[f] = Freed BY Numbers
<1> HIDE DEF none
<1>4. /\ StdTable(std) \in Table /\ Distinct(StdTable(std))
      /\ \A f \in FileBlocks :
            /\ Once(StdTable(std), f)
            /\ file[f] \in AFile
            /\ file[f].count = none[f].count + One(StdTable(std), f)
            /\ file[f] = IF Points(StdTable(std), f) THEN Stdio ELSE none[f]
  BY <1>1, <1>3, StdioIs DEF Distinct
<1> DEFINE t == StdTable(std)
<1> HIDE DEF t
<1>5. init \in Procs BY OpenFilesAssumption
<1>6. TypeOK
  <2>1. files \in [Procs -> Table] BY <1>1, <1>4, NoFilesIs
  <2>2. file \in [FileBlocks -> AFile]
    <3>1. file = [f \in FileBlocks |-> file[f]] BY <1>1 DEF WithStdio
    <3> QED BY <1>4, <3>1
  <2>3. proc \in [Procs -> {"unused", "live", "exited"}] BY <1>2
  <2> QED BY <2>1, <2>2, <2>3, TypeIs
<1>7. CountExact
  <2>1. ASSUME NEW f \in FileBlocks PROVE file[f].count = Cardinality(Refs(files, f))
    <3>1. files[init] = t BY <1>1, <1>5 DEF t
    <3>2. Once(files[init], f) BY <1>4, <3>1 DEF t
    <3>3. Cardinality(Refs(files, f))
             = Cardinality(Others(files, init, f)) + One(files[init], f)
      BY <1>5, <3>2, TableRefs
    <3>4. Others(files, init, f) = {}
      <4>1. \A q \in Procs : q # init => files[q] = NoFiles BY <1>1
      <4>2. f # NULL BY Numbers
      <4> QED BY <4>1, <4>2 DEF Others, NoFiles
    <3>5. Cardinality(Others(files, init, f)) = 0 BY <3>4, FS_EmptySet
    <3>6. none[f].count = 0 BY <1>3 DEF Freed
    <3>7. One(t, f) \in Nat BY DEF One
    <3>8. file[f].count = One(t, f) BY <1>4, <3>6, <3>7 DEF t
    <3> QED BY <3>1, <3>3, <3>5, <3>7, <3>8
  <2> QED BY <2>1 DEF CountExact, Refs
<1>8. ASSUME NEW f \in FileBlocks
      PROVE  /\ file[f].inode = NULL
             /\ file[f].count > 0 => file[f].type = FILE_STDIO
  BY <1>3, <1>4 DEF Freed, Stdio
<1>9. StdioExact BY <1>8 DEF StdioExact
<1>10. OffsetsInFile BY <1>8 DEF OffsetsInFile
<1>11. TablesExact
  <2>1. \A p \in Procs : /\ proc[p] = "unused" => p # init
                         /\ p = init => files[p] = StdTable(std)
                         /\ p # init => files[p] = NoFiles
    BY <1>1, <1>2
  <2> QED BY <1>4, <2>1, NoFilesIs DEF TablesExact, Distinct
<1>12. RootOffset
  <2>1. ROOT # NULL BY OpenFilesAssumption
  <2> QED BY <1>8, <2>1 DEF RootOffset
<1>13. NoneOpen BY <1>8 DEF NoneOpen
<1>14. FS!IInv BY <1>2, SameState, Constants, Image!InitIInv
<1> QED BY <1>6, <1>7, <1>9, <1>10, <1>11, <1>12, <1>13, <1>14 DEF IInv

-----------------------------------------------------------------------------
(* The calls that leave the image alone                                    *)

LEMMA ForkKeeps ==
    ASSUME IInv, NEW p \in Procs, NEW child \in Procs, sys_fork(p, child)
    PROVE  IInv'
<1>1. /\ proc[p] = "live" /\ proc[child] = "unused"
      /\ proc' = [proc EXCEPT ![child] = "live"]
      /\ files' = [files EXCEPT ![child] = files[p]]
      /\ file' = Shared(file, files[p]) /\ UNCHANGED disk
  BY DEF sys_fork, Live
<1>2. /\ TypeOK /\ CountExact /\ TablesExact BY DEF IInv
<1>3. /\ proc \in [Procs -> {"unused", "live", "exited"}]
      /\ files \in [Procs -> Table] /\ file \in [FileBlocks -> AFile]
  BY <1>2, TypeIs
<1>4. files[child] = NoFiles /\ Distinct(files[p]) BY <1>1, <1>2 DEF TablesExact, Distinct
<1>5. ASSUME NEW f \in FileBlocks
      PROVE  /\ file'[f] \in AFile /\ Held(f)
             /\ file'[f].count + One(files[child], f) = file[f].count + One(files[p], f)
  <2>1. /\ file'[f] \in AFile /\ file'[f].count = file[f].count + One(files[p], f)
        /\ file'[f].type = file[f].type /\ file'[f].off = file[f].off
        /\ file'[f].inode = file[f].inode
    BY <1>1, <1>3, SharedIs
  <2>2. Points(files[p], f) => file[f].count > 0 BY <1>2, Counted
  <2>3. file[f].count \in Nat BY <1>2, Counted
  <2>4. Held(f) BY <2>1, <2>2, <2>3 DEF Held, One
  <2>5. One(files[child], f) = 0 BY <1>4, NoFilesIs
  <2>6. One(files[p], f) \in Nat BY DEF One
  <2> QED BY <2>1, <2>3, <2>4, <2>5, <2>6
<1>6. file' \in [FileBlocks -> AFile]
  <2>1. file' = [f \in FileBlocks |-> file'[f]] BY <1>1 DEF Shared
  <2> QED BY <1>5, <2>1
<1>7. files[p] \in Table /\ proc' \in [Procs -> {"unused", "live", "exited"}]
      /\ proc'[child] = "live" /\ \A q \in Procs : q # child => proc'[q] = proc[q]
  BY <1>1, <1>3
<1>8. TypeOK' /\ CountExact' /\ TablesExact'
  BY <1>1, <1>2, <1>4, <1>5, <1>6, <1>7, Retabled
<1> QED BY <1>1, <1>5, <1>8, CallKeeps

LEMMA ExecKeeps ==
    ASSUME IInv, NEW p \in Procs, sys_exec(p)
    PROVE  IInv'
<1> DEFINE dropped == Dropped(file, files[p])
<1>1. PICK std \in StdBlocks(dropped) :
         files' = [files EXCEPT ![p] = StdTable(std)] /\ file' = WithStdio(dropped, std)
  BY DEF sys_exec
<1>2. UNCHANGED disk /\ proc' = proc /\ proc[p] = "live" BY DEF sys_exec, Live
<1>3. /\ TypeOK /\ CountExact /\ TablesExact BY DEF IInv
<1>4. /\ proc \in [Procs -> {"unused", "live", "exited"}]
      /\ files \in [Procs -> Table] /\ file \in [FileBlocks -> AFile]
  BY <1>3, TypeIs
<1>5. ASSUME NEW f \in FileBlocks
      PROVE  /\ dropped[f] \in AFile /\ dropped[f].count + One(files[p], f) = file[f].count
             /\ dropped[f].count > 0 => /\ dropped[f].type = file[f].type
                                        /\ dropped[f].off = file[f].off
                                        /\ dropped[f].inode = file[f].inode
  <2>1. Points(files[p], f) => file[f].count > 0 BY <1>3, Counted
  <2> QED BY <1>4, <2>1, DroppedIs
<1>6. dropped \in [FileBlocks -> AFile]
  <2>1. dropped = [f \in FileBlocks |-> dropped[f]] BY DEF Dropped
  <2> QED BY <1>5, <2>1
<1> HIDE DEF dropped
<1>7. /\ StdTable(std) \in Table /\ Distinct(StdTable(std))
      /\ \A f \in FileBlocks :
            /\ file'[f] \in AFile
            /\ file'[f].count = dropped[f].count + One(StdTable(std), f)
            /\ file'[f] = IF Points(StdTable(std), f) THEN Stdio ELSE dropped[f]
  BY <1>1, <1>6, StdioIs DEF Distinct
<1>8. file' \in [FileBlocks -> AFile]
  <2>1. file' = [f \in FileBlocks |-> file'[f]] BY <1>1 DEF WithStdio
  <2> QED BY <1>7, <2>1
<1>9. ASSUME NEW f \in FileBlocks
      PROVE  /\ Held(f)
             /\ file'[f].count + One(files[p], f) = file[f].count + One(StdTable(std), f)
  <2>1. One(files[p], f) \in Nat /\ One(StdTable(std), f) \in Nat
        /\ dropped[f].count \in Nat
    BY <1>5 DEF One, AFile
  <2>2. file'[f].count + One(files[p], f) = file[f].count + One(StdTable(std), f)
    BY <1>5, <1>7, <2>1
  <2>3. CASE Points(StdTable(std), f)
    BY <1>7, <2>2, <2>3 DEF Held, Stdio
  <2>4. CASE ~Points(StdTable(std), f)
    <3>1. file'[f] = dropped[f] BY <1>7, <2>4
    <3>2. dropped[f].count > 0 => file[f].count > 0 BY <1>5, <2>1
    <3> QED BY <1>5, <2>2, <3>1, <3>2 DEF Held
  <2> QED BY <2>3, <2>4
<1>10. TypeOK' /\ CountExact' /\ TablesExact'
  BY <1>1, <1>2, <1>3, <1>4, <1>7, <1>8, <1>9, Retabled
<1> QED BY <1>2, <1>9, <1>10, CallKeeps

LEMMA ExitKeeps ==
    ASSUME IInv, NEW p \in Procs, exit_current(p)
    PROVE  IInv'
<1>1. proc[p] = "live" /\ proc' = [proc EXCEPT ![p] = "exited"]
      /\ files' = files /\ file' = file /\ UNCHANGED disk
  BY DEF exit_current, Live
<1>2. /\ TypeOK /\ CountExact /\ TablesExact BY DEF IInv
<1>3. /\ proc \in [Procs -> {"unused", "live", "exited"}]
      /\ files \in [Procs -> Table] /\ file \in [FileBlocks -> AFile]
  BY <1>2, TypeIs
<1>4. files' = [files EXCEPT ![p] = files[p]] BY <1>1, <1>3
<1>5. Distinct(files[p]) BY <1>2 DEF TablesExact, Distinct
<1>6. \A f \in FileBlocks : file'[f].count + One(files[p], f) = file[f].count + One(files[p], f)
  BY <1>1
<1>7. proc' \in [Procs -> {"unused", "live", "exited"}] /\ proc'[p] = "exited"
      /\ \A q \in Procs : q # p => proc'[q] = proc[q]
  BY <1>1, <1>3
<1>8. TypeOK' /\ CountExact' /\ TablesExact'
  BY <1>1, <1>2, <1>3, <1>4, <1>5, <1>6, <1>7, Retabled
<1>9. \A f \in FileBlocks : Held(f) BY <1>1 DEF Held
<1> QED BY <1>1, <1>8, <1>9, CallKeeps

LEMMA WaitKeeps ==
    ASSUME IInv, NEW child \in Procs, sys_wait(child)
    PROVE  IInv'
<1>1. /\ proc' = [proc EXCEPT ![child] = "unused"]
      /\ files' = [files EXCEPT ![child] = NoFiles]
      /\ file' = Dropped(file, files[child]) /\ UNCHANGED disk
  BY DEF sys_wait
<1>2. /\ TypeOK /\ CountExact /\ TablesExact BY DEF IInv
<1>3. /\ proc \in [Procs -> {"unused", "live", "exited"}]
      /\ files \in [Procs -> Table] /\ file \in [FileBlocks -> AFile]
  BY <1>2, TypeIs
<1>4. ASSUME NEW f \in FileBlocks
      PROVE  /\ file'[f] \in AFile /\ Held(f)
             /\ file'[f].count + One(files[child], f) = file[f].count + One(NoFiles, f)
  <2>1. Points(files[child], f) => file[f].count > 0 BY <1>2, Counted
  <2>2. /\ file'[f] \in AFile /\ file'[f].count + One(files[child], f) = file[f].count
        /\ file'[f].count > 0 => /\ file'[f].type = file[f].type
                                 /\ file'[f].off = file[f].off
                                 /\ file'[f].inode = file[f].inode
    BY <1>1, <1>3, <2>1, DroppedIs
  <2>3. file'[f].count \in Nat /\ file[f].count \in Nat /\ One(files[child], f) \in Nat
    BY <1>2, <2>2, Counted DEF AFile, One
  <2>4. Held(f) BY <2>2, <2>3 DEF Held
  <2>5. One(NoFiles, f) = 0 BY NoFilesIs
  <2> QED BY <2>2, <2>3, <2>4, <2>5
<1>5. file' \in [FileBlocks -> AFile]
  <2>1. file' = [f \in FileBlocks |-> file'[f]] BY <1>1 DEF Dropped
  <2> QED BY <1>4, <2>1
<1>6. proc' \in [Procs -> {"unused", "live", "exited"}]
      /\ \A q \in Procs : q # child => proc'[q] = proc[q]
  BY <1>1, <1>3
<1>7. TypeOK' /\ CountExact' /\ TablesExact'
  BY <1>1, <1>2, <1>4, <1>5, <1>6, NoFilesIs, Retabled
<1> QED BY <1>1, <1>4, <1>7, CallKeeps

LEMMA CloseKeeps ==
    ASSUME IInv, NEW p \in Procs, NEW fd \in Fds, sys_close(p, fd)
    PROVE  IInv'
<1> DEFINE g == files[p][fd]
           one == [NoFiles EXCEPT ![fd] = g]
           t == [files[p] EXCEPT ![fd] = NULL]
<1>1. /\ proc[p] = "live" /\ g # NULL /\ file' = Dropped(file, one)
      /\ files' = [files EXCEPT ![p][fd] = NULL] /\ UNCHANGED <<proc, disk>>
  BY DEF sys_close, Live
<1>2. /\ TypeOK /\ CountExact /\ TablesExact BY DEF IInv
<1>3. /\ proc \in [Procs -> {"unused", "live", "exited"}]
      /\ files \in [Procs -> Table] /\ file \in [FileBlocks -> AFile]
  BY <1>2, TypeIs
<1>4. files[p] \in Table BY <1>3
<1>5. /\ t \in Table /\ t[fd] = NULL /\ \A gd \in Fds : gd # fd => t[gd] = files[p][gd]
  BY <1>4 DEF Table
<1>6. /\ one[fd] = g /\ \A gd \in Fds : gd # fd => one[gd] = NULL
  <2>1. NoFiles = [x \in Fds |-> NULL] BY DEF NoFiles
  <2> QED BY <2>1
<1>7. files' = [files EXCEPT ![p] = t] BY <1>1, <1>3
<1>8. \A x, y \in Fds : files[p][x] = files[p][y] /\ files[p][x] # NULL => x = y
  BY <1>2 DEF TablesExact
<1> HIDE DEF t, one
<1>9. Distinct(t) BY <1>5, <1>8 DEF Distinct
<1>10. ASSUME NEW f \in FileBlocks
      PROVE  /\ file'[f] \in AFile /\ Held(f)
             /\ file'[f].count + One(files[p], f) = file[f].count + One(t, f)
  <2>1. f # NULL BY Numbers
  <2>2. Points(one, f) <=> f = g BY <1>6, <2>1 DEF Points
  <2>3. Points(files[p], f) => file[f].count > 0 BY <1>2, Counted
  <2>4. f = g => Points(files[p], f) BY DEF Points
  <2>5. /\ file'[f] \in AFile /\ file'[f].count + One(one, f) = file[f].count
        /\ file'[f].count > 0 => /\ file'[f].type = file[f].type
                                 /\ file'[f].off = file[f].off
                                 /\ file'[f].inode = file[f].inode
    BY <1>1, <1>3, <2>2, <2>3, <2>4, DroppedIs
  <2>6. One(files[p], f) = One(one, f) + One(t, f)
    <3>1. f = g => ~Points(t, f) BY <1>5, <1>8, <2>1 DEF Points
    <3>2. f # g => (Points(t, f) <=> Points(files[p], f)) BY <1>5, <2>1 DEF Points
    <3> QED BY <2>2, <2>4, <3>1, <3>2 DEF One
  <2>7. file'[f].count \in Nat /\ file[f].count \in Nat /\ One(one, f) \in Nat
        /\ One(t, f) \in Nat
    BY <1>2, <2>5, Counted DEF AFile, One
  <2>8. Held(f) BY <2>5, <2>7 DEF Held
  <2> QED BY <2>5, <2>6, <2>7, <2>8
<1>11. file' \in [FileBlocks -> AFile]
  <2>1. file' = [f \in FileBlocks |-> file'[f]] BY <1>1 DEF Dropped
  <2> QED BY <1>10, <2>1
<1>12. TypeOK' /\ CountExact' /\ TablesExact'
  BY <1>1, <1>2, <1>3, <1>5, <1>7, <1>9, <1>10, <1>11, Retabled
<1> QED BY <1>1, <1>10, <1>12, CallKeeps

-----------------------------------------------------------------------------
(* The calls that change the image                                         *)

\* Every file is still there, and at most i has another size.
Kept(i) == FS!Files \subseteq FS!Files'
           /\ \A j \in FS!Files : j # i => inode'[j].size = inode[j].size

LEMMA DiskMoves ==
    ASSUME IInv
    PROVE  /\ \A name \in Names, content \in RootFs : FS!walk(name, content) => FS!IInv'
           /\ FS!boot => FS!IInv'
           /\ \A name \in Names, i \in FS!Blocks \cup {FS!NoBlock} :
                 FS!create(name, i) => FS!IInv'
<1>1. Image!IInv /\ Image!Blocks = FS!Blocks /\ Image!NoBlock = FS!NoBlock
      /\ (Image!IInv' => FS!IInv')
  BY SameState DEF IInv
<1>2. Image!Next => FS!IInv'
  <2>1. Image!Next => [Image!Next]_(Image!disk) OBVIOUS
  <2> HIDE DEF Image!disk
  <2> QED BY <1>1, <2>1, Constants, Image!NextIInv
<1>3. ASSUME NEW name \in Names, NEW content \in RootFs, FS!walk(name, content)
      PROVE  FS!IInv'
  <2>1. Image!walk(name, content) BY <1>3, SameWalk
  <2> QED BY <1>2, <2>1 DEF Image!Next
<1>4. ASSUME FS!boot PROVE FS!IInv'
  <2>1. Image!boot BY <1>4, SameBoot
  <2> QED BY <1>2, <2>1 DEF Image!Next
<1>5. ASSUME NEW name \in Names, NEW i \in FS!Blocks \cup {FS!NoBlock}, FS!create(name, i)
      PROVE  FS!IInv'
  <2>1. Image!create(name, i) BY <1>5, SameCreate
  <2> QED BY <1>1, <1>2, <2>1 DEF Image!Next
<1> QED BY <1>3, <1>4, <1>5

LEMMA MakeKeeps ==
    ASSUME IInv, MakeImage
    PROVE  IInv'
<1>1. /\ mode = "mkfs" /\ proc' = proc /\ files' = files /\ file' = file
  BY DEF MakeImage, FS!walk, FS!boot
<1>2. FS!IInv' BY DiskMoves DEF MakeImage
<1>3. \A f \in FileBlocks : file'[f].count > 0 => file'[f].inode = NULL
  BY <1>1 DEF IInv, NoneOpen
<1>4. TypeOK' /\ CountExact' /\ TablesExact' /\ StdioExact'
  BY <1>1, TypeIs DEF IInv, CountExact, TablesExact, StdioExact
<1>5. OffsetsInFile' BY <1>3 DEF OffsetsInFile
<1>6. RootOffset'
  <2>1. ROOT # NULL BY OpenFilesAssumption
  <2> QED BY <1>3, <2>1 DEF RootOffset
<1>7. NoneOpen' BY <1>3 DEF NoneOpen
<1> QED BY <1>2, <1>4, <1>5, <1>6, <1>7 DEF IInv

LEMMA BlockNumbers ==
    /\ ROOT \notin FS!Blocks /\ FS!NoBlock \notin FS!Blocks /\ ROOT # FS!NoBlock
    /\ FS!Blocks \in SUBSET Nat /\ NULL \notin FS!Inodes /\ NULL # ROOT
BY ImageAssumption, Numbers, OpenFilesAssumption DEF FS!Blocks, FS!NoBlock

\* What sys_open() finds or makes is an inode: "/", or one in the directory.
LEMMA OpensWhat ==
    ASSUME IInv, mode = "run", NEW name \in Names \cup {"/"}, NEW flags,
           NEW i \in FS!Inodes \cup {FS!NoBlock}, Opens(name, flags, i)
    PROVE  /\ FS!IInv' /\ Kept(NULL) /\ mode' # "mkfs"
           /\ mode' # "wild" => i \in FS!Inodes /\ i # NULL
                                /\ (i # ROOT => i \in FS!Files' /\ inode'[i].size \in Nat)
           /\ \/ UNCHANGED disk
              \/ name \in Names /\ i \in FS!Blocks \cup {FS!NoBlock} /\ FS!create(name, i)
<1>1. CASE UNCHANGED disk
  <2>1. FS!IInv' BY <1>1, DiskKeeps
  <2>2. /\ fat' = fat /\ inode' = inode /\ mode' = mode BY <1>1 DEF disk
  <2>3. FS!Files' = FS!Files BY <2>2 DEF FS!Files
  <2>4. ASSUME i # ROOT, mode' # "wild"
        PROVE  i \in FS!Files /\ i \in FS!Inodes /\ inode[i].size \in Nat
    <3>1. CASE name = "/" \/ ~FS!create(name, i)
      <4>1. FS!Lookup(name, i) BY <2>4, <3>1 DEF Opens
      <4>2. i \in FS!Files BY <4>1 DEF FS!Lookup, FS!Files
      <4>3. Image!TypeOK /\ i \in Image!Files
        <5>1. Image!IInv /\ FS!Files = Image!Files BY SameState DEF IInv
        <5> QED BY <4>2, <5>1 DEF Image!IInv, Image!BlocksExact
      <4>4. i \in Image!Inodes /\ Image!Inodes = FS!Inodes
        BY <4>3, Constants, Image!FilesAreBlocks, SameState DEF Image!Inodes
      <4>5. inode[i].size \in Nat BY <4>3, <4>4, Constants, Image!NodeTypes
      <4> QED BY <4>2, <4>4, <4>5
    <3>2. CASE name # "/" /\ FS!create(name, i)
      <4>1. i = FS!NoBlock \/ inode' = [inode EXCEPT ![i] = [FS!Zeroed EXCEPT !.name = name]]
        BY <3>2 DEF FS!create
      <4>2. Image!create(name, i) /\ Image!IInv /\ name \in Names
        BY <3>2, SameCreate, SameState DEF IInv
      <4>3. i \in Image!Files' /\ i \in Image!Blocks /\ inode'[i].size = 0
        BY <2>4, <4>2, Constants, Image!CreateMoves
      <4> QED BY <2>2, <2>3, <4>3, SameState DEF FS!Inodes
    <3> QED BY <3>1, <3>2
  <2>5. ROOT \in FS!Inodes /\ NULL \notin FS!Inodes BY BlockNumbers DEF FS!Inodes
  <2>6. Kept(NULL) BY <2>2, <2>3 DEF Kept
  <2>7. mode' # "wild" => i \in FS!Inodes /\ i # NULL
                          /\ (i # ROOT => i \in FS!Files' /\ inode'[i].size \in Nat)
    BY <2>2, <2>3, <2>4, <2>5
  <2> QED BY <1>1, <2>1, <2>2, <2>6, <2>7
<1>2. CASE name # "/" /\ FS!create(name, i)
  <2>1. Image!create(name, i) /\ Image!IInv /\ name \in Names
    BY <1>2, SameCreate, SameState DEF IInv
  <2>2. /\ i \in Image!Blocks \cup {Image!NoBlock} /\ Image!Files \subseteq Image!Files'
        /\ \A j \in Image!Files : inode'[j].size = inode[j].size
        /\ mode' # "wild" => i \in Image!Files' /\ i \in Image!Blocks /\ inode'[i].size = 0
    BY <2>1, Constants, Image!CreateMoves
  <2>3. i \in FS!Blocks \cup {FS!NoBlock} BY <2>2, SameState
  <2>4. FS!IInv' BY <1>2, <2>1, <2>3, DiskMoves
  <2>5. mode' # "mkfs" BY <1>2 DEF FS!create
  <2>6. Kept(NULL) BY <2>2, SameState DEF Kept
  <2>7. mode' # "wild" => i \in FS!Inodes /\ i # NULL /\ i \in FS!Files'
                          /\ inode'[i].size \in Nat
    BY <2>2, SameState, BlockNumbers DEF FS!Inodes
  <2> QED BY <1>2, <2>1, <2>3, <2>4, <2>5, <2>6, <2>7
<1> QED BY <1>1, <1>2 DEF Opens

LEMMA OpenKeeps ==
    ASSUME IInv, NEW p \in Procs, NEW name \in Names \cup {"/"}, NEW flags,
           sys_open(p, name, flags)
    PROVE  IInv'
<1>1. PICK fd \in Fds, i \in FS!Inodes \cup {FS!NoBlock} :
        /\ FirstFree(p, fd)
        /\ Opens(name, flags, i)
        /\ IF mode' = "wild"
           THEN UNCHANGED <<files, file>>
           ELSE \E f \in FileBlocks, type \in {FILE_INODE, FILE_STDIO} \cup Leftovers :
                  /\ file[f].count = 0 /\ Leftover(type)
                  /\ file' = [file EXCEPT ![f] =
                         [type |-> type, count |-> 1, off |-> 0, inode |-> i]]
                  /\ files' = [files EXCEPT ![p][fd] = f]
  BY DEF sys_open
<1>2. mode = "run" /\ proc[p] = "live" /\ proc' = proc BY DEF sys_open, Live
<1>3. /\ FS!IInv' /\ Kept(NULL) /\ mode' # "mkfs"
      /\ mode' # "wild" => i \in FS!Inodes /\ i # NULL
                           /\ (i # ROOT => i \in FS!Files' /\ inode'[i].size \in Nat)
  BY <1>1, <1>2, OpensWhat
<1>4. /\ TypeOK /\ CountExact /\ TablesExact /\ StdioExact /\ OffsetsInFile /\ RootOffset
  BY DEF IInv
<1>5. /\ proc \in [Procs -> {"unused", "live", "exited"}]
      /\ files \in [Procs -> Table] /\ file \in [FileBlocks -> AFile]
  BY <1>4, TypeIs
<1>6. ASSUME NEW f \in FileBlocks, file[f].count > 0, file[f].inode \notin {NULL, ROOT}
      PROVE  file[f].inode \in FS!Files' /\ file[f].off <= inode'[file[f].inode].size
  <2>1. file[f].inode \in FS!Files /\ file[f].off <= inode[file[f].inode].size
    BY <1>4, <1>6 DEF OffsetsInFile
  <2> QED BY <1>3, <1>6, <2>1 DEF Kept
<1>7. NoneOpen' BY <1>3 DEF NoneOpen
<1>8. CASE mode' = "wild"
  <2>1. files' = files /\ file' = file BY <1>1, <1>8
  <2>2. TypeOK' /\ CountExact' /\ TablesExact' /\ StdioExact' /\ RootOffset'
    BY <1>2, <1>4, <2>1, TypeIs DEF CountExact, TablesExact, StdioExact, RootOffset
  <2>3. OffsetsInFile' BY <1>6, <2>1 DEF OffsetsInFile
  <2> QED BY <1>3, <1>7, <2>2, <2>3 DEF IInv
<1>9. CASE mode' # "wild"
  <2>1. PICK g \in FileBlocks, type \in {FILE_INODE, FILE_STDIO} \cup Leftovers :
           /\ file[g].count = 0 /\ Leftover(type)
           /\ file' = [file EXCEPT ![g] =
                  [type |-> type, count |-> 1, off |-> 0, inode |-> i]]
           /\ files' = [files EXCEPT ![p][fd] = g]
    BY <1>1, <1>9
  <2> DEFINE t == [files[p] EXCEPT ![fd] = g]
  <2>2. files[p] \in Table BY <1>5
  <2>3. t \in Table /\ t[fd] = g /\ \A x \in Fds : x # fd => t[x] = files[p][x]
    BY <2>2 DEF Table
  <2>4. files' = [files EXCEPT ![p] = t] BY <1>5, <2>1
  <2>5. \A x, y \in Fds : files[p][x] = files[p][y] /\ files[p][x] # NULL => x = y
    BY <1>4 DEF TablesExact
  <2> HIDE DEF t
  <2>6. ~Points(files[p], g) /\ g # NULL BY <1>4, <2>1, Counted, Numbers
  <2>7. Distinct(t) BY <2>3, <2>5, <2>6 DEF Distinct, Points
  <2>8. files[p][fd] = NULL BY <1>1 DEF FirstFree
  <2>9. i \in FS!Inodes /\ i # NULL /\ (i # ROOT => i \in FS!Files' /\ inode'[i].size \in Nat)
    BY <1>3, <1>9
  <2>10. type \in Nat /\ type # FILE_STDIO
    <3>1. type \in Leftovers BY <2>1 DEF Leftover
    <3>2. type \in Nat /\ type % 8 = 0 BY <3>1, OpenFilesAssumption
    <3> QED BY <3>2 DEF FILE_STDIO
  <2>11. /\ file'[g] = [type |-> type, count |-> 1, off |-> 0, inode |-> i]
         /\ \A f \in FileBlocks : f # g => file'[f] = file[f]
    BY <1>5, <2>1
  <2>12. file' \in [FileBlocks -> AFile] BY <1>5, <2>1, <2>9 DEF AFile
  <2>13. ASSUME NEW f \in FileBlocks
         PROVE  file'[f].count + One(files[p], f) = file[f].count + One(t, f)
    <3>1. file[f].count \in Nat BY <1>4, Counted
    <3>2. f # NULL BY Numbers
    <3>3. f # g => (Points(t, f) <=> Points(files[p], f)) BY <2>3, <2>8, <3>2 DEF Points
    <3>4. Points(t, g) BY <2>3 DEF Points
    <3>5. CASE f = g BY <2>1, <2>6, <2>11, <3>4, <3>5 DEF One
    <3>6. CASE f # g BY <2>11, <3>3, <3>6 DEF One
    <3> QED BY <3>5, <3>6
  <2>14. TypeOK' /\ CountExact' /\ TablesExact'
    BY <1>2, <1>4, <1>5, <2>3, <2>4, <2>7, <2>12, <2>13, Retabled
  <2>15. StdioExact' BY <1>4, <2>9, <2>10, <2>11 DEF StdioExact
  <2>16. OffsetsInFile'
    <3>1. ASSUME NEW f \in FileBlocks, file'[f].count > 0, file'[f].inode \notin {NULL, ROOT}
          PROVE  file'[f].inode \in FS!Files' /\ file'[f].off <= inode'[file'[f].inode].size
      <4>1. CASE f = g BY <2>9, <2>11, <3>1, <4>1
      <4>2. CASE f # g
        <5>1. file'[f] = file[f] BY <2>11, <4>2
        <5> QED BY <1>6, <3>1, <5>1
      <4> QED BY <4>1, <4>2
    <3> QED BY <3>1 DEF OffsetsInFile
  <2>17. RootOffset'
    <3>1. 0 <= MaxOff BY ImageAssumption
    <3> QED BY <1>4, <2>11, <3>1 DEF RootOffset
  <2> QED BY <1>3, <1>7, <2>14, <2>15, <2>16, <2>17 DEF IInv
<1> QED BY <1>8, <1>9

\* Only the offset of a File in use moves, and its inode is not null.
OffsetMoves(g) ==
    /\ proc' = proc /\ files' = files
    /\ file[g].count > 0 /\ file[g].type # FILE_STDIO /\ file[g].inode # NULL
    /\ file'[g].off \in Nat
    /\ file'[g] = [file[g] EXCEPT !.off = file'[g].off]
    /\ file' \in [FileBlocks -> AFile]
    /\ \A f \in FileBlocks : f # g => file'[f] = file[f]

LEMMA MovedKeeps ==
    ASSUME IInv, NEW g \in FileBlocks, OffsetMoves(g)
    PROVE  /\ TypeOK' /\ CountExact' /\ TablesExact' /\ StdioExact'
           /\ \A f \in FileBlocks : file'[f].inode = file[f].inode /\ file'[f].count = file[f].count
<1>1. /\ TypeOK /\ CountExact /\ TablesExact /\ StdioExact BY DEF IInv
<1>2. /\ proc' = proc /\ files' = files /\ file' \in [FileBlocks -> AFile]
      /\ file'[g] = [file[g] EXCEPT !.off = file'[g].off]
      /\ \A f \in FileBlocks : f # g => file'[f] = file[f]
  BY DEF OffsetMoves
<1>3. file[g] \in AFile BY <1>1, TypeIs
<1>4. /\ file'[g].inode = file[g].inode /\ file'[g].count = file[g].count
      /\ file'[g].type = file[g].type
  <2>1. PICK off : file'[g] = [file[g] EXCEPT !.off = off] BY <1>2
  <2> QED BY <1>3, <2>1 DEF AFile
<1>5. \A f \in FileBlocks : /\ file'[f].inode = file[f].inode /\ file'[f].count = file[f].count
                            /\ file'[f].type = file[f].type
  BY <1>2, <1>4
<1>6. TypeOK' BY <1>1, <1>2, TypeIs
<1>7. CountExact' BY <1>1, <1>2, <1>5 DEF CountExact
<1>8. TablesExact' BY <1>1, <1>2 DEF TablesExact
<1>9. StdioExact' BY <1>1, <1>5 DEF StdioExact
<1> QED BY <1>5, <1>6, <1>7, <1>8, <1>9

\* A descriptor in a table leads to a File in use.
LEMMA InUse ==
    ASSUME IInv, NEW p \in Procs, NEW fd \in Fds, files[p][fd] # NULL
    PROVE  /\ files[p][fd] \in FileBlocks /\ file[files[p][fd]].count > 0
           /\ file[files[p][fd]] \in AFile
<1>1. TypeOK /\ CountExact /\ TablesExact BY DEF IInv
<1>2. files[p] \in Table /\ file \in [FileBlocks -> AFile] BY <1>1, TypeIs
<1>3. files[p][fd] \in FileBlocks BY <1>2 DEF Table
<1>4. Points(files[p], files[p][fd]) BY DEF Points
<1> QED BY <1>1, <1>2, <1>3, <1>4, Counted

LEMMA ReadKeeps ==
    ASSUME IInv, NEW p \in Procs, NEW fd \in Fds, NEW count \in -MaxCount .. MaxCount,
           sys_read(p, fd, count)
    PROVE  IInv' /\ UNCHANGED disk
<1> DEFINE g == files[p][fd]
           f == file[g]
<1>1. /\ mode = "run" /\ g # NULL /\ UNCHANGED <<proc, files, disk>>
      /\ \/ /\ f.inode = ROOT
            /\ \E i \in FS!Fat : i >= f.off \div InodeSize
            /\ file' = [file EXCEPT ![g].off = @ + InodeSize]
         \/ /\ f.inode # ROOT /\ f.type # FILE_STDIO
            /\ file' = [file EXCEPT ![g].off =
                           @ + Len(FS!read_from_inode(f.inode, f.off, count))]
  BY DEF sys_read, Live, Moved
<1>2. /\ TypeOK /\ StdioExact /\ OffsetsInFile /\ RootOffset BY DEF IInv
<1>3. g \in FileBlocks /\ f.count > 0 /\ f \in AFile BY <1>1, InUse
<1>4. f.off \in Nat BY <1>3 DEF AFile
<1>5. file \in [FileBlocks -> AFile] BY <1>2, TypeIs
<1>6. ASSUME NEW n \in Nat, file' = [file EXCEPT ![g].off = @ + n],
             f.type # FILE_STDIO, f.inode # NULL,
             f.inode = ROOT => f.off + n <= MaxOff,
             f.inode # ROOT => f.off + n <= inode[f.inode].size
      PROVE  IInv'
  <2>1. file'[g].off = f.off + n /\ f.off + n \in Nat
        /\ file'[g] = [f EXCEPT !.off = f.off + n]
        /\ \A h \in FileBlocks : h # g => file'[h] = file[h]
    BY <1>3, <1>4, <1>5, <1>6 DEF AFile
  <2>2. file' \in [FileBlocks -> AFile]
    <3>1. [f EXCEPT !.off = f.off + n] \in AFile BY <1>3, <2>1 DEF AFile
    <3> QED BY <1>5, <1>6, <2>1, <3>1
  <2>3. proc' = proc /\ files' = files /\ UNCHANGED disk BY <1>1
  <2>4. OffsetMoves(g) BY <1>3, <1>6, <2>1, <2>2, <2>3 DEF OffsetMoves
  <2>5. /\ TypeOK' /\ CountExact' /\ TablesExact' /\ StdioExact'
        /\ \A h \in FileBlocks : file'[h].inode = file[h].inode
                                 /\ file'[h].count = file[h].count
    BY <1>3, <2>4, MovedKeeps
  <2>6. FS!IInv' BY <2>3, DiskKeeps
  <2>7. inode' = inode /\ fat' = fat /\ mode' = mode BY <1>1 DEF disk
  <2>8. FS!Files' = FS!Files BY <2>7 DEF FS!Files
  <2> HIDE DEF g, f
  <2>9. OffsetsInFile'
    <3>1. ASSUME NEW h \in FileBlocks, file'[h].count > 0, file'[h].inode \notin {NULL, ROOT}
          PROVE  file'[h].inode \in FS!Files' /\ file'[h].off <= inode'[file'[h].inode].size
      <4>1. file[h].inode = file'[h].inode /\ file[h].count > 0 BY <2>5, <3>1
      <4>2. file[h].inode \in FS!Files /\ file[h].off <= inode[file[h].inode].size
        BY <1>2, <3>1, <4>1 DEF OffsetsInFile
      <4>3. CASE h = g
        <5>1. f.inode = file[h].inode /\ file'[h].off = f.off + n BY <2>1, <4>3 DEF f
        <5> QED BY <1>6, <2>7, <2>8, <3>1, <4>1, <4>2, <5>1
      <4>4. CASE h # g BY <2>1, <2>7, <2>8, <4>1, <4>2, <4>4
      <4> QED BY <4>3, <4>4
    <3> QED BY <3>1 DEF OffsetsInFile
  <2>10. RootOffset'
    <3>1. ASSUME NEW h \in FileBlocks, file'[h].count > 0, file'[h].inode = ROOT
          PROVE  file'[h].off <= MaxOff
      <4>1. file[h].inode = ROOT /\ file[h].count > 0 BY <2>5, <3>1
      <4>2. CASE h = g BY <1>6, <2>1, <4>1, <4>2 DEF f
      <4>3. CASE h # g BY <1>2, <2>1, <4>1, <4>3 DEF RootOffset
      <4> QED BY <4>2, <4>3
    <3> QED BY <3>1 DEF RootOffset
  <2>11. NoneOpen' BY <1>1, <2>7 DEF NoneOpen
  <2> QED BY <2>5, <2>6, <2>9, <2>10, <2>11 DEF IInv
<1>7. f.type = FILE_STDIO <=> f.inode = NULL BY <1>2, <1>3 DEF StdioExact
<1>8. NULL # ROOT BY OpenFilesAssumption
<1>9. CASE /\ f.inode = ROOT
           /\ \E i \in FS!Fat : i >= f.off \div InodeSize
           /\ file' = [file EXCEPT ![g].off = @ + InodeSize]
  <2>1. /\ InodeSize \in Nat /\ InodeSize > 0 /\ NFat \in Nat
        /\ MaxOff >= (NFat + 1) * InodeSize
    BY OpenFilesAssumption, ImageAssumption
  <2>2. PICK i \in FS!Fat : i >= f.off \div InodeSize BY <1>9
  <2> DEFINE q == f.off \div InodeSize
  <2> HIDE DEF f
  <2>3. q \in Nat /\ f.off < InodeSize * q + InodeSize /\ q <= i /\ i <= NFat - 1 /\ i \in Nat
    <3>1. i \in Nat /\ i <= NFat - 1 BY <2>1, <2>2 DEF FS!Fat
    <3>2. ASSUME NEW n \in Nat
          PROVE  n \div InodeSize \in Nat /\ n < InodeSize * (n \div InodeSize) + InodeSize
      BY <2>1
    <3> QED BY <1>4, <2>2, <3>1, <3>2
  <2> HIDE DEF q
  <2>4. InodeSize * (q + 1) <= InodeSize * NFat
    <3>1. q + 1 <= NFat /\ q + 1 \in Nat BY <2>1, <2>3
    <3>2. PICK r : r = q + 1 OBVIOUS
    <3>3. \E d \in Nat : NFat = r + d
      <4>1. NFat - r \in Nat /\ NFat = r + (NFat - r) BY <2>1, <3>1, <3>2
      <4> QED BY <4>1
    <3>4. PICK d \in Nat : NFat = r + d BY <3>3
    <3>5. InodeSize * d >= 0 BY <2>1
    <3>6. InodeSize * NFat = InodeSize * r + InodeSize * d BY <2>1, <3>1, <3>2, <3>4
    <3>7. InodeSize * r \in Int /\ InodeSize * d \in Int BY <2>1, <3>1, <3>2
    <3> QED BY <3>2, <3>5, <3>6, <3>7
  <2>5. (NFat + 1) * InodeSize = InodeSize * NFat + InodeSize
        /\ InodeSize * (q + 1) = InodeSize * q + InodeSize
        /\ InodeSize * NFat \in Int /\ InodeSize * q \in Int
    BY <2>1, <2>3
  <2>6. MaxOff \in Nat BY ImageAssumption
  <2>7. f.off + InodeSize <= MaxOff BY <1>4, <2>1, <2>3, <2>4, <2>5, <2>6
  <2>8. IInv' BY <1>6, <1>7, <1>8, <1>9, <2>1, <2>7 DEF f
  <2> QED BY <1>1, <2>8
<1>10. CASE /\ f.inode # ROOT /\ f.type # FILE_STDIO
            /\ file' = [file EXCEPT ![g].off =
                           @ + Len(FS!read_from_inode(f.inode, f.off, count))]
  <2> DEFINE num == Len(FS!read_from_inode(f.inode, f.off, count))
  <2>1. f.inode # NULL /\ f.inode \in FS!Files /\ f.off <= inode[f.inode].size
    BY <1>2, <1>3, <1>7, <1>10 DEF OffsetsInFile
  <2>2. /\ Image!TypeOK /\ Image!Sound /\ Image!SizeCovered /\ Image!SizesFit
        /\ f.inode \in Image!Files
    <3>1. Image!IInv /\ Image!Files = FS!Files BY SameState DEF IInv
    <3> QED BY <1>1, <2>1, <3>1, Constants, Image!IInvIs
  <2>3. inode[f.inode].size \in Nat
    <3>1. f.inode \in Image!Inodes BY <2>2, Constants, Image!FilesAreBlocks
    <3> QED BY <2>2, <3>1, Constants, Image!NodeTypes
  <2>4. f.off \in 0 .. inode[f.inode].size BY <1>4, <2>1, <2>3
  <2>5. num = Len(Image!read_from_inode(f.inode, f.off, count)) BY SameRead
  <2>6. num \in Nat /\ f.off + num <= inode[f.inode].size
    <3> HIDE DEF f
    <3>1. PICK i, off : i = f.inode /\ off = f.off OBVIOUS
    <3>2. i \in Image!Files /\ off \in 0 .. inode[i].size BY <2>2, <2>4, <3>1
    <3>3. count \in -INT_MAX - 1 .. INT_MAX
      BY OpenFilesAssumption, ImageAssumption DEF FS!SimpleFSAssumption
    <3>4. /\ Len(Image!read_from_inode(i, off, count)) \in Nat
          /\ off + Len(Image!read_from_inode(i, off, count)) <= inode[i].size
      BY <2>2, <3>2, <3>3, Constants, Image!ReadLength
    <3> QED BY <2>5, <3>1, <3>4
  <2>7. file' = [file EXCEPT ![g].off = @ + num] BY <1>10
  <2> HIDE DEF num
  <2>8. IInv' BY <1>6, <1>10, <2>1, <2>6, <2>7
  <2> QED BY <1>1, <2>8
<1> QED BY <1>1, <1>9, <1>10

\* A write goes to a file of the directory or to "/", from an offset that
\* SimpleFS allows.
LEMMA WriteWhere ==
    ASSUME IInv, NEW p \in Procs, NEW fd \in Fds, NEW buf, sys_write(p, fd, buf)
    PROVE  LET g == files[p][fd]
               i == file[g].inode
           IN  /\ mode = "run" /\ g \in FileBlocks /\ file[g].count > 0
               /\ file[g].type # FILE_STDIO /\ i # NULL
               /\ i \in FS!Files \cup {ROOT} /\ inode[i].size \in Nat
               /\ file[g].off \in 0 .. IF i = ROOT THEN MaxOff ELSE inode[i].size
               /\ FS!Offset(i, file[g].off) /\ FS!sys_write(i, file[g].off, buf)
<1> DEFINE g == files[p][fd]
           i == file[g].inode
<1>1. /\ mode = "run" /\ g # NULL /\ file[g].type # FILE_STDIO
      /\ FS!sys_write(i, file[g].off, buf)
  BY DEF sys_write, Live
<1>2. g \in FileBlocks /\ file[g].count > 0 /\ file[g] \in AFile BY <1>1, InUse
<1>3. i # NULL BY <1>1, <1>2 DEF IInv, StdioExact
<1>4. file[g].off \in Nat BY <1>2 DEF AFile
<1> HIDE DEF g, i
<1>5. i \in FS!Files \cup {ROOT} BY <1>2, <1>3 DEF IInv, OffsetsInFile, i
<1>6. inode[i].size \in Nat
  <2>1. Image!TypeOK /\ FS!Files = Image!Files
    BY SameState DEF IInv, Image!IInv, Image!BlocksExact
  <2>2. i \in Image!Inodes BY <1>5, <2>1, Constants, Image!FilesAreBlocks
  <2> QED BY <2>1, <2>2, Constants, Image!NodeTypes
<1>7. MaxOff \in Nat /\ ROOT # NULL BY ImageAssumption, OpenFilesAssumption
<1>8. CASE i = ROOT
  <2>1. file[g].off <= MaxOff BY <1>2, <1>8 DEF IInv, RootOffset, i
  <2>2. file[g].off \in 0 .. MaxOff BY <1>4, <1>7, <2>1
  <2>3. FS!Offset(i, file[g].off) BY <1>8, <2>2 DEF FS!Offset
  <2> QED BY <1>1, <1>2, <1>3, <1>5, <1>6, <1>8, <2>2, <2>3 DEF g, i
<1>9. CASE i # ROOT
  <2>1. i \in FS!Files /\ file[g].off <= inode[i].size
    BY <1>2, <1>3, <1>9 DEF IInv, OffsetsInFile, i
  <2>2. file[g].off \in 0 .. inode[i].size BY <1>4, <1>6, <2>1
  <2>3. FS!Offset(i, file[g].off) BY <2>1, <2>2 DEF FS!Offset
  <2> QED BY <1>1, <1>2, <1>3, <1>5, <1>6, <1>9, <2>2, <2>3 DEF g, i
<1> QED BY <1>8, <1>9

\* So it is a step of SimpleFS.
LEMMA WriteImage ==
    ASSUME IInv, NEW p \in Procs, NEW fd \in Fds, NEW buf \in Bufs, sys_write(p, fd, buf)
    PROVE  Image!Next /\ FS!Next
<1> DEFINE g == files[p][fd]
           i == file[g].inode
           off == file[g].off
<1>1. /\ i \in FS!Files \cup {ROOT} /\ inode[i].size \in Nat
      /\ off \in 0 .. IF i = ROOT THEN MaxOff ELSE inode[i].size
      /\ FS!Offset(i, off) /\ FS!sys_write(i, off, buf)
  BY WriteWhere
<1> HIDE DEF g, i, off
<1>2. MaxOff \in Nat BY ImageAssumption
<1>3. off \in 0 .. Image!Max({inode[i].size, MaxOff})
  <2>1. Image!Max({inode[i].size, MaxOff})
           = IF inode[i].size >= MaxOff THEN inode[i].size ELSE MaxOff
    <3>1. \A a, b \in Int : Image!Max({a, b}) = IF a >= b THEN a ELSE b
      BY Constants, Image!MinMax
    <3>2. inode[i].size \in Int /\ MaxOff \in Int BY <1>1, <1>2
    <3> QED BY <3>1, <3>2
  <2> QED BY <1>1, <1>2, <2>1
<1>4. /\ Image!Offset(i, off) /\ Image!sys_write(i, off, buf) /\ i \in Image!Files \cup {ROOT}
  BY <1>1, SameState, SameWrite DEF FS!Offset, Image!Offset
<1>5. Image!Next BY <1>3, <1>4 DEF Image!Next
<1>6. off \in 0 .. FS!Max({inode[i].size, MaxOff})
  BY <1>3 DEF FS!Max, Image!Max
<1>7. FS!Next BY <1>1, <1>6 DEF FS!Next
<1> QED BY <1>5, <1>7

LEMMA WriteKeeps ==
    ASSUME IInv, NEW p \in Procs, NEW fd \in Fds, NEW buf \in Bufs, sys_write(p, fd, buf)
    PROVE  IInv'
<1> DEFINE g == files[p][fd]
           i == file[g].inode
           off == file[g].off
           wild == mode' = "wild"
           to == IF wild THEN off ELSE off + Len(buf)
<1>1. /\ mode = "run" /\ g \in FileBlocks /\ file[g].count > 0
      /\ file[g].type # FILE_STDIO /\ i # NULL
      /\ i \in FS!Files \cup {ROOT} /\ inode[i].size \in Nat
      /\ off \in 0 .. IF i = ROOT THEN MaxOff ELSE inode[i].size
      /\ FS!Offset(i, off) /\ FS!sys_write(i, off, buf)
  BY WriteWhere
<1>2. /\ proc' = proc /\ files' = files
      /\ file' = [file EXCEPT ![g].off = IF wild THEN @ ELSE @ + Len(buf)]
  BY DEF sys_write
<1>3. /\ TypeOK /\ StdioExact /\ OffsetsInFile /\ RootOffset /\ FS!IInv BY DEF IInv
<1>4. file \in [FileBlocks -> AFile] /\ file[g] \in AFile BY <1>1, <1>3, TypeIs
<1>5. file' = [file EXCEPT ![g] = [file[g] EXCEPT !.off = to]] BY <1>1, <1>2, <1>4
<1> HIDE DEF g, i, off
<1>6. MaxOff \in Nat /\ off \in Nat
  <2>1. MaxOff \in Nat BY ImageAssumption
  <2> QED BY <1>1, <2>1
<1>7. /\ FS!Files' = FS!Files /\ Len(buf) \in Nat
      /\ \A j \in FS!Files : j # i => inode'[j].size = inode[j].size
      /\ wild => inode'[i].size = inode[i].size
      /\ ~wild => inode'[i].size = IF inode[i].size < off + Len(buf)
                                   THEN off + Len(buf) ELSE inode[i].size
      /\ ~wild /\ Len(buf) > 0 => off + Len(buf) <= (NDirect + NIndirect) * BLOCK_SIZE
  <2>1. Image!IInv /\ i \in Image!Files \cup {ROOT} BY <1>1, <1>3, SameState
  <2>2. Image!Offset(i, off) /\ Image!sys_write(i, off, buf)
    BY <1>1, SameState, SameWrite DEF FS!Offset, Image!Offset
  <2>3. /\ Image!Files' = Image!Files /\ Len(buf) \in Nat
        /\ \A j \in Image!Files : j # i => inode'[j].size = inode[j].size
        /\ mode' = "wild" => inode'[i].size = inode[i].size
        /\ mode' # "wild" => inode'[i].size = Image!NewSize(inode[i].size, off + Len(buf))
        /\ mode' # "wild" /\ Len(buf) > 0 =>
              off + Len(buf) <= (NDirect + NIndirect) * BLOCK_SIZE
    BY <1>6, <2>1, <2>2, Constants, Image!WriteMoves
  <2> QED BY <2>3, SameState DEF Image!NewSize
<1>8. to \in Nat BY <1>6, <1>7
<1>9. i # ROOT => to <= inode'[i].size /\ inode[i].size <= inode'[i].size
                  /\ inode'[i].size \in Nat
  BY <1>1, <1>6, <1>7
<1>10. i = ROOT => to <= MaxOff
  <2> DEFINE most == (NDirect + NIndirect) * BLOCK_SIZE
  <2>1. MaxOff >= most /\ most \in Int BY OpenFilesAssumption, ImageAssumption
  <2>2. ~wild /\ Len(buf) > 0 => off + Len(buf) <= most BY <1>7
  <2> HIDE DEF most
  <2> QED BY <1>1, <1>6, <1>7, <2>1, <2>2
<1> HIDE DEF to
<1>11. /\ file'[g] = [file[g] EXCEPT !.off = to] /\ file'[g].off = to
       /\ \A h \in FileBlocks : h # g => file'[h] = file[h]
  BY <1>1, <1>4, <1>5 DEF AFile
<1>12. file' \in [FileBlocks -> AFile]
  <2>1. [file[g] EXCEPT !.off = to] \in AFile BY <1>4, <1>8 DEF AFile
  <2> QED BY <1>4, <1>5, <2>1
<1>13. OffsetMoves(g) BY <1>1, <1>2, <1>8, <1>11, <1>12 DEF OffsetMoves, i
<1>14. /\ TypeOK' /\ CountExact' /\ TablesExact' /\ StdioExact'
       /\ \A h \in FileBlocks : file'[h].inode = file[h].inode /\ file'[h].count = file[h].count
  BY <1>1, <1>13, MovedKeeps
<1>15. OffsetsInFile'
  <2>1. ASSUME NEW h \in FileBlocks, file'[h].count > 0, file'[h].inode \notin {NULL, ROOT}
        PROVE  file'[h].inode \in FS!Files' /\ file'[h].off <= inode'[file'[h].inode].size
    <3>1. file[h].inode = file'[h].inode /\ file[h].count > 0 BY <1>14, <2>1
    <3>2. file[h].inode \in FS!Files /\ file[h].off <= inode[file[h].inode].size
      BY <1>3, <2>1, <3>1 DEF OffsetsInFile
    <3>3. CASE h = g
      <4>1. file[h].inode = i BY <3>3 DEF i
      <4> QED BY <1>7, <1>9, <1>11, <2>1, <3>1, <3>2, <3>3, <4>1
    <3>4. CASE h # g
      <4>1. file'[h].off = file[h].off /\ file[h].off \in Nat BY <1>4, <1>11, <3>4 DEF AFile
      <4>2. CASE file[h].inode = i BY <1>1, <1>7, <1>9, <2>1, <3>1, <3>2, <4>1, <4>2
      <4>3. CASE file[h].inode # i BY <1>7, <3>1, <3>2, <4>1, <4>3
      <4> QED BY <4>2, <4>3
    <3> QED BY <3>3, <3>4
  <2> QED BY <2>1 DEF OffsetsInFile
<1>16. RootOffset'
  <2>1. ASSUME NEW h \in FileBlocks, file'[h].count > 0, file'[h].inode = ROOT
        PROVE  file'[h].off <= MaxOff
    <3>1. file[h].inode = ROOT /\ file[h].count > 0 BY <1>14, <2>1
    <3>2. CASE h = g BY <1>10, <1>11, <3>1, <3>2 DEF i
    <3>3. CASE h # g BY <1>3, <1>11, <3>1, <3>3 DEF RootOffset
    <3> QED BY <3>2, <3>3
  <2> QED BY <2>1 DEF RootOffset
<1>17. NoneOpen'
  <2>1. mode' # "mkfs" BY <1>1 DEF FS!sys_write, FS!Copy
  <2> QED BY <2>1 DEF NoneOpen
<1>18. FS!IInv'
  <2>1. Image!Next BY WriteImage
  <2>2. Image!IInv BY <1>3, SameState
  <2>3. [Image!Next]_(Image!disk) BY <2>1
  <2> HIDE DEF Image!disk
  <2>4. Image!IInv' BY <2>2, <2>3, Constants, Image!NextIInv
  <2> QED BY <2>4, SameState
<1> QED BY <1>14, <1>15, <1>16, <1>17, <1>18 DEF IInv

-----------------------------------------------------------------------------
(* The theorems                                                            *)

LEMMA NextIInv == IInv /\ [Next]_vars => IInv'
<1> SUFFICES ASSUME IInv, [Next]_vars PROVE IInv' OBVIOUS
<1>1. CASE UNCHANGED vars
  <2>1. proc' = proc /\ files' = files /\ file' = file /\ UNCHANGED disk BY <1>1 DEF vars
  <2>2. TypeOK' /\ CountExact' /\ TablesExact'
    BY <2>1, TypeIs DEF IInv, CountExact, TablesExact
  <2>3. \A f \in FileBlocks : Held(f) BY <2>1 DEF Held
  <2> QED BY <2>1, <2>2, <2>3, CallKeeps
<1>2. CASE MakeImage BY <1>2, MakeKeeps
<1>3. ASSUME NEW p \in Procs, NEW child \in Procs, sys_fork(p, child) PROVE IInv'
  BY <1>3, ForkKeeps
<1>4. ASSUME NEW p \in Procs, sys_exec(p) PROVE IInv' BY <1>4, ExecKeeps
<1>5. ASSUME NEW p \in Procs, exit_current(p) PROVE IInv' BY <1>5, ExitKeeps
<1>6. ASSUME NEW p \in Procs, sys_wait(p) PROVE IInv' BY <1>6, WaitKeeps
<1>7. ASSUME NEW p \in Procs, NEW name \in Names \cup {"/"}, NEW flags \in {"0", "O_CREATE"},
             sys_open(p, name, flags)
      PROVE  IInv'
  BY <1>7, OpenKeeps
<1>8. ASSUME NEW p \in Procs, NEW fd \in Fds, sys_close(p, fd) PROVE IInv'
  BY <1>8, CloseKeeps
<1>9. ASSUME NEW p \in Procs, NEW fd \in Fds, NEW count \in (-MaxCount .. MaxCount) \ {0},
             sys_read(p, fd, count)
      PROVE  IInv'
  BY <1>9, ReadKeeps
<1>10. ASSUME NEW p \in Procs, NEW fd \in Fds, NEW buf \in Bufs, sys_write(p, fd, buf)
       PROVE  IInv'
  BY <1>10, WriteKeeps
<1> QED
  BY <1>1, <1>2, <1>3, <1>4, <1>5, <1>6, <1>7, <1>8, <1>9, <1>10 DEF Next, Stopped

LEMMA Invariant == Spec => []IInv
<1>1. Init => IInv BY InitIInv
<1>2. IInv /\ [Next]_vars => IInv' BY NextIInv
<1> QED BY <1>1, <1>2, PTL DEF Spec

\* The tables, the counts and the offsets have the types the code gives them.
THEOREM Typed == Spec => []TypeOK
<1>1. IInv => TypeOK BY DEF IInv
<1> QED BY <1>1, Invariant, PTL

\* The count of every struct File is the number of descriptors that point to
\* it, so that dealloc_files() frees it with the last, in whatever order the
\* processes that share it close it, exec, exit and are reaped.
THEOREM CountsStayExact == Spec => []CountExact
<1>1. IInv => CountExact BY DEF IInv
<1> QED BY <1>1, Invariant, PTL

\* What alloc() leaves in the type field, which sys_open() does not set, is
\* never taken for the console.
THEOREM StdioStaysExact == Spec => []StdioExact
<1>1. IInv => StdioExact BY DEF IInv
<1> QED BY <1>1, Invariant, PTL

\* The offset of an open file does not pass its end: sys_read() computes
\* inode->size - off without a borrow.
THEOREM OffsetsStayInFile == Spec => []OffsetsInFile
<1>1. IInv => OffsetsInFile BY DEF IInv
<1> QED BY <1>1, Invariant, PTL

\* Every step of the open files is a step of the image, or leaves it alone.
LEMMA StepImplements == IInv /\ [Next]_vars => [FS!Next]_(FS!disk)
<1> SUFFICES ASSUME IInv, [Next]_vars PROVE FS!Next \/ UNCHANGED disk
  BY DEF disk, FS!disk
<1>1. CASE UNCHANGED vars BY <1>1 DEF vars
<1>2. CASE MakeImage BY <1>2 DEF MakeImage, FS!Next
<1>3. ASSUME NEW p \in Procs,
             \/ \E child \in Procs : sys_fork(p, child)
             \/ sys_exec(p) \/ exit_current(p) \/ sys_wait(p)
             \/ \E fd \in Fds : sys_close(p, fd)
      PROVE  UNCHANGED disk
  BY <1>3 DEF sys_fork, sys_exec, exit_current, sys_wait, sys_close
<1>4. ASSUME NEW p \in Procs, NEW name \in Names \cup {"/"}, NEW flags \in {"0", "O_CREATE"},
             sys_open(p, name, flags)
      PROVE  FS!Next \/ UNCHANGED disk
  <2>1. PICK i \in FS!Inodes \cup {FS!NoBlock} : Opens(name, flags, i) BY <1>4 DEF sys_open
  <2>2. mode = "run" BY <1>4 DEF sys_open, Live
  <2>3. \/ UNCHANGED disk
        \/ name \in Names /\ i \in FS!Blocks \cup {FS!NoBlock} /\ FS!create(name, i)
    BY <2>1, <2>2, OpensWhat
  <2> QED BY <2>3 DEF FS!Next
<1>5. ASSUME NEW p \in Procs, NEW fd \in Fds, NEW count \in (-MaxCount .. MaxCount) \ {0},
             sys_read(p, fd, count)
      PROVE  UNCHANGED disk
  BY <1>5 DEF sys_read
<1>6. ASSUME NEW p \in Procs, NEW fd \in Fds, NEW buf \in Bufs, sys_write(p, fd, buf)
      PROVE  FS!Next
  BY <1>6, WriteImage
<1> QED BY <1>1, <1>2, <1>3, <1>4, <1>5, <1>6 DEF Next, Stopped

\* Whatever the processes do with their open files, the image behaves as
\* SimpleFS: the calls meet what it assumes of inodes, names and offsets.
THEOREM Refinement == Spec => ImplementsDisk
<1>1. Init => FS!Init BY DEF Init
<1>2. IInv /\ [Next]_vars => [FS!Next]_(FS!disk) BY StepImplements
<1> QED BY <1>1, <1>2, Invariant, PTL DEF Spec, ImplementsDisk, FS!Spec
=============================================================================
