--------------------------- MODULE SimpleFSProofs ---------------------------
(***************************************************************************)
(* The image stays consistent, whatever its size and whatever is written:  *)
(* no block is named twice or lost, every file has the blocks its size     *)
(* calls for, and blocks that are handed out are zeros.                    *)
(*                                                                         *)
(* The argument: the calls of alloc_free_block() that an operation makes   *)
(* return different free blocks, and an operation names each of them in    *)
(* one place and no other.  increase_size() fills the entries of an inode  *)
(* in order, so that the number of a call tells the entry it fills.        *)
(***************************************************************************)
EXTENDS SimpleFS, SequenceLemmas, FiniteSetTheorems, TLAPS

Free == Blocks \ freemap

\* The bitmap and the counter of the superblock agree.
Accounted ==
    /\ freemap \in SUBSET Blocks
    /\ unused_blocks = BLOCK_NUM - Cardinality(freemap)

-----------------------------------------------------------------------------
(* Numbers                                                                 *)

LEMMA MinMax ==
    ASSUME NEW a \in Int, NEW b \in Int
    PROVE  /\ Min({a, b}) = IF a <= b THEN a ELSE b
           /\ Max({a, b}) = IF a >= b THEN a ELSE b
<1>1. \E x \in {a, b} : \A y \in {a, b} : x <= y OBVIOUS
<1>2. \E x \in {a, b} : \A y \in {a, b} : x >= y OBVIOUS
<1>3. Min({a, b}) \in {a, b} /\ \A y \in {a, b} : Min({a, b}) <= y BY <1>1 DEF Min
<1>4. Max({a, b}) \in {a, b} /\ \A y \in {a, b} : Max({a, b}) >= y BY <1>2 DEF Max
<1> QED BY <1>3, <1>4

LEMMA Constants ==
    /\ BLOCK_NUM \in Nat /\ BLOCK_NUM > 3 /\ BLOCK_SIZE \in Nat /\ BLOCK_SIZE > 0
    /\ NDirect \in Nat /\ NDirect > 0 /\ NIndirect \in Nat /\ NIndirect > 0
    /\ NIndirect <= BLOCK_SIZE /\ NFat \in Nat
    /\ IsFiniteSet(Blocks) /\ Cardinality(Blocks) = BLOCK_NUM
    /\ Blocks \in SUBSET Nat /\ 0 \in Blocks /\ NoBlock \notin Blocks
    /\ ROOT \notin Blocks /\ ROOT # NoBlock
    /\ INT_MAX \in Nat /\ INT_MAX >= (NDirect + NIndirect) * BLOCK_SIZE
<1>1. /\ BLOCK_NUM \in Nat /\ BLOCK_NUM > 3 /\ BLOCK_SIZE \in Nat /\ BLOCK_SIZE > 0
      /\ NDirect \in Nat /\ NDirect > 0 /\ NIndirect \in Nat /\ NIndirect > 0
      /\ NIndirect <= BLOCK_SIZE /\ NFat \in Nat
      /\ ROOT \notin Blocks /\ ROOT # NoBlock
      /\ INT_MAX \in Nat /\ INT_MAX >= (NDirect + NIndirect) * BLOCK_SIZE
  BY SimpleFSAssumption
<1>2. IsFiniteSet(Blocks) /\ Cardinality(Blocks) = BLOCK_NUM
  BY <1>1, FS_Interval DEF Blocks
<1> QED BY <1>1, <1>2 DEF Blocks, NoBlock

LEMMA DivMod ==
    ASSUME NEW n \in Nat
    PROVE  /\ n \div BLOCK_SIZE \in Nat /\ n % BLOCK_SIZE \in 0 .. BLOCK_SIZE - 1
           /\ n = BLOCK_SIZE * (n \div BLOCK_SIZE) + (n % BLOCK_SIZE)
<1> DEFINE q == n \div BLOCK_SIZE
           r == n - BLOCK_SIZE * q
<1>1. BLOCK_SIZE \in Nat /\ BLOCK_SIZE > 0 BY Constants
<1>2. q \in Nat /\ BLOCK_SIZE * q <= n /\ n < BLOCK_SIZE * q + BLOCK_SIZE BY <1>1
<1>3. BLOCK_SIZE * q \in Nat BY <1>1, <1>2
<1> HIDE DEF q
<1>4. r \in 0 .. BLOCK_SIZE - 1 /\ n = BLOCK_SIZE * q + r BY <1>1, <1>2, <1>3
<1> HIDE DEF r
<1>5. n % BLOCK_SIZE = r BY <1>1, <1>2, <1>4
<1> QED BY <1>2, <1>4, <1>5 DEF q

LEMMA MulMono ==
    ASSUME NEW p \in Nat, NEW q \in Nat
    PROVE  /\ BLOCK_SIZE * p \in Nat
           /\ p <= q => BLOCK_SIZE * p <= BLOCK_SIZE * q
           /\ p < q => BLOCK_SIZE * p + BLOCK_SIZE <= BLOCK_SIZE * q
<1>1. BLOCK_SIZE \in Nat /\ BLOCK_SIZE > 0 BY Constants
<1>2. BLOCK_SIZE * p \in Nat BY <1>1
<1>3. ASSUME p <= q PROVE BLOCK_SIZE * p <= BLOCK_SIZE * q
  <2>1. PICK d \in Nat : q = p + d
    <3>1. q - p \in Nat /\ q = p + (q - p) BY <1>3
    <3> QED BY <3>1
  <2>2. BLOCK_SIZE * q = BLOCK_SIZE * p + BLOCK_SIZE * d BY <1>1, <2>1
  <2>3. BLOCK_SIZE * d \in Nat BY <1>1
  <2> QED BY <1>1, <1>2, <2>2, <2>3
<1>4. ASSUME p < q PROVE BLOCK_SIZE * p + BLOCK_SIZE <= BLOCK_SIZE * q
  <2>1. PICK d \in Nat : q = p + 1 + d
    <3>1. q - p - 1 \in Nat /\ q = p + 1 + (q - p - 1) BY <1>4
    <3> QED BY <3>1
  <2>2. BLOCK_SIZE * q = BLOCK_SIZE * p + BLOCK_SIZE + BLOCK_SIZE * d BY <1>1, <2>1
  <2>3. BLOCK_SIZE * d \in Nat BY <1>1
  <2> QED BY <1>1, <1>2, <2>2, <2>3
<1> QED BY <1>2, <1>3, <1>4

LEMMA CeilIs ==
    ASSUME NEW n \in Nat
    PROVE  /\ Ceil(n) \in Nat /\ n <= Ceil(n) * BLOCK_SIZE
           /\ \A m \in Nat : m * BLOCK_SIZE < n <=> m < Ceil(n)
<1> DEFINE q == (n + BLOCK_SIZE - 1) \div BLOCK_SIZE
<1>1. BLOCK_SIZE \in Nat /\ BLOCK_SIZE > 0 BY Constants
<1>2. n + BLOCK_SIZE - 1 \in Nat BY <1>1
<1>3. /\ q \in Nat /\ BLOCK_SIZE * q <= n + BLOCK_SIZE - 1
      /\ n + BLOCK_SIZE - 1 < BLOCK_SIZE * q + BLOCK_SIZE
  BY <1>1, <1>2
<1> HIDE DEF q
<1>4. ASSUME NEW m \in Nat PROVE BLOCK_SIZE * m < n <=> m < q
  <2>1. CASE m < q
    <3>1. BLOCK_SIZE * m + BLOCK_SIZE <= BLOCK_SIZE * q BY <1>3, <2>1, MulMono
    <3>2. BLOCK_SIZE * m \in Nat /\ BLOCK_SIZE * q \in Nat BY <1>3, MulMono
    <3> QED BY <1>1, <1>3, <2>1, <3>1, <3>2
  <2>2. CASE q <= m
    <3>1. BLOCK_SIZE * q <= BLOCK_SIZE * m BY <1>3, <2>2, MulMono
    <3>2. BLOCK_SIZE * m \in Nat /\ BLOCK_SIZE * q \in Nat BY <1>3, MulMono
    <3> QED BY <1>1, <1>3, <2>2, <3>1, <3>2
  <2> QED BY <1>3, <2>1, <2>2
<1>5. n <= BLOCK_SIZE * q
  <2>1. BLOCK_SIZE * q \in Nat BY <1>3, MulMono
  <2> QED BY <1>1, <1>3, <2>1
<1>6. Ceil(n) = q BY DEF Ceil, q
<1>7. \A m \in Nat : m * BLOCK_SIZE = BLOCK_SIZE * m BY <1>1
<1> QED BY <1>3, <1>4, <1>5, <1>6, <1>7

\* The parts of count bytes from off on, and what lies in each of them.
LEMMA PartsAre ==
    ASSUME NEW off \in Nat, NEW count \in Nat
    PROVE  /\ \A k \in Parts(off, count) :
                 /\ k \in Nat /\ k < Ceil(off + count) /\ count > 0
                 /\ LET c == Chunk(off, count, k) IN
                       /\ c.from \in Nat /\ c.num \in Nat /\ c.len \in Nat /\ c.len > 0
                       /\ c.from + c.len <= BLOCK_SIZE /\ c.num + c.len <= count
                       /\ k * BLOCK_SIZE + c.from = off + c.num
           /\ count > 0 => Ceil(off + count) - 1 \in Parts(off, count)
<1> DEFINE b == BLOCK_SIZE
           first == off \div b
           last == (off + count - 1) \div b
           r == off % b
<1>1. b \in Nat /\ b > 0 BY Constants
<1>2. /\ first \in Nat /\ r \in 0 .. b - 1 /\ off = b * first + r /\ b * first \in Nat
  <2>1. first \in Nat /\ r \in 0 .. b - 1 /\ off = b * first + r BY DivMod
  <2> HIDE DEF first
  <2>2. b * first \in Nat BY <2>1, MulMono
  <2> QED BY <2>1, <2>2
<1>3. Parts(off, count) = IF count = 0 THEN {} ELSE first .. last
  BY DEF Parts
<1>4. ASSUME count > 0
      PROVE  /\ last \in Nat /\ b * last \in Nat /\ b * last <= off + count - 1
             /\ off + count - 1 < b * last + b /\ first <= last
             /\ Ceil(off + count) = last + 1
  <2>1. off + count - 1 \in Nat BY <1>4
  <2>2. /\ last \in Nat /\ b * last \in Nat /\ b * last <= off + count - 1
        /\ off + count - 1 < b * last + b
    BY <1>1, <2>1, DivMod, MulMono
  <2> HIDE DEF last, first, r
  <2>3. first <= last
    <3>1. CASE last < first
      <4>1. b * last + b <= b * first BY <1>2, <2>2, <3>1, MulMono
      <4> QED BY <1>1, <1>2, <1>4, <2>2, <4>1
    <3> QED BY <1>2, <2>2, <3>1
  <2>4. Ceil(off + count) = last + 1
    <3>1. off + count \in Nat OBVIOUS
    <3>2. \A m \in Nat : b * m < off + count <=> m < Ceil(off + count)
      BY <1>1, <3>1, CeilIs
    <3>3. b * last < off + count BY <2>2
    <3>4. last + 1 \in Nat /\ b * (last + 1) = b * last + b BY <1>1, <2>2
    <3>5. ~ (b * (last + 1) < off + count) BY <1>1, <2>2, <3>4
    <3>6. Ceil(off + count) \in Nat BY <3>1, CeilIs
    <3>7. last < Ceil(off + count) BY <2>2, <3>2, <3>3
    <3>8. ~ (last + 1 < Ceil(off + count)) BY <3>2, <3>4, <3>5
    <3> QED BY <2>2, <3>6, <3>7, <3>8
  <2> QED BY <2>2, <2>3, <2>4
<1> HIDE DEF last, first, r, b
<1>5. ASSUME NEW k \in Parts(off, count)
      PROVE  /\ k \in Nat /\ k < Ceil(off + count) /\ count > 0
             /\ LET c == Chunk(off, count, k) IN
                   /\ c.from \in Nat /\ c.num \in Nat /\ c.len \in Nat /\ c.len > 0
                   /\ c.from + c.len <= BLOCK_SIZE /\ c.num + c.len <= count
                   /\ k * BLOCK_SIZE + c.from = off + c.num
  <2>1. count > 0 /\ k \in first .. last BY <1>3, <1>5
  <2>2. k \in Nat /\ first <= k /\ k <= last BY <1>2, <1>4, <2>1
  <2>3. b * k \in Nat /\ b * k <= b * last BY <1>4, <2>1, <2>2, MulMono DEF b
  <2> DEFINE from == IF k = first THEN r ELSE 0
             num == k * b + from - off
             len == Min({count - num, b - from})
  <2>4. Chunk(off, count, k) = [from |-> from, num |-> num, len |-> len]
    BY DEF Chunk, first, r, b
  <2>5. from \in 0 .. b - 1 /\ num \in Nat /\ num < count
    <3>0. k * b = b * k BY <1>1, <2>2
    <3>1. CASE k = first BY <1>1, <1>2, <2>1, <3>0, <3>1
    <3>2. CASE first < k
      <4>1. b * first + b <= b * k BY <1>2, <2>2, <3>2, MulMono DEF b
      <4> QED BY <1>1, <1>2, <1>4, <2>1, <2>3, <3>0, <3>2, <4>1
    <3> QED BY <1>2, <2>2, <3>1, <3>2
  <2>6. k * b \in Nat /\ k * b + from = off + num BY <1>1, <2>2, <2>5
  <2> HIDE DEF from, num
  <2>7. len = IF count - num <= b - from THEN count - num ELSE b - from
    BY <1>1, <2>5, MinMax
  <2>8. len \in Nat /\ len > 0 /\ from + len <= b /\ num + len <= count
    BY <1>1, <2>5, <2>7
  <2> HIDE DEF len
  <2> QED BY <1>4, <2>1, <2>2, <2>4, <2>5, <2>6, <2>8 DEF b
<1>6. ASSUME count > 0 PROVE Ceil(off + count) - 1 \in Parts(off, count)
  BY <1>2, <1>3, <1>4, <1>6
<1> QED BY <1>5, <1>6

-----------------------------------------------------------------------------
(* Allocation                                                              *)

\* The n-th call returns a free block if the counter reaches that far, and
\* different calls return different blocks.
LEMMA AllocGives ==
    ASSUME Accounted
    PROVE  /\ IsFiniteSet(freemap) /\ unused_blocks \in 0 .. BLOCK_NUM
           /\ \A n \in 1 .. unused_blocks : alloc_free_block(n) \in Free
           /\ \A n \in Nat : n > unused_blocks => alloc_free_block(n) = NoBlock
           /\ \A m, n \in 1 .. unused_blocks :
                 alloc_free_block(m) = alloc_free_block(n) => m = n
<1> DEFINE rank(x) == Cardinality({y \in Free : y <= x})
<1>1. IsFiniteSet(freemap) /\ Cardinality(freemap) \in Nat /\ Cardinality(freemap) <= BLOCK_NUM
  BY Constants, FS_Subset, FS_CardinalityType DEF Accounted
<1>2. IsFiniteSet(Free) /\ Free \in SUBSET Int
  <2>1. IsFiniteSet(Free) BY Constants, FS_Difference DEF Free
  <2>2. \A x \in Free : x \in Int BY Constants DEF Free
  <2> QED BY <2>1, <2>2
<1>3. Cardinality(Free) = BLOCK_NUM - Cardinality(freemap)
  <2>1. freemap \cap Blocks = freemap BY DEF Accounted
  <2>2. Cardinality(Free) = Cardinality(Blocks) - Cardinality(Blocks \cap freemap)
    BY <1>1, Constants, FS_Difference DEF Free
  <2>3. Blocks \cap freemap = freemap BY DEF Accounted
  <2> QED BY <2>2, <2>3, Constants
<1>4. unused_blocks = Cardinality(Free) /\ unused_blocks \in 0 .. BLOCK_NUM
  BY <1>1, <1>3, Constants DEF Accounted
<1>5. \A n \in 1 .. unused_blocks :
         alloc_free_block(n) \in Free /\ rank(alloc_free_block(n)) = n
  <2>1. ASSUME NEW n \in 1 .. unused_blocks
        PROVE  alloc_free_block(n) \in Free /\ rank(alloc_free_block(n)) = n
    <3>1. \E x \in Free : rank(x) = n BY <1>2, <1>4, <2>1, Ranks
    <3>2. Nth(Free, n) \in Free /\ rank(Nth(Free, n)) = n BY <3>1 DEF Nth
    <3>3. alloc_free_block(n) = Nth(Free, n) BY <1>4, <2>1 DEF alloc_free_block, Free
    <3> QED BY <3>2, <3>3
  <2> QED BY <2>1
<1>6. \A n \in Nat : n > unused_blocks => alloc_free_block(n) = NoBlock
  BY <1>4 DEF alloc_free_block
<1> HIDE DEF rank
<1>7. \A m, n \in 1 .. unused_blocks : alloc_free_block(m) = alloc_free_block(n) => m = n
  BY <1>5
<1> QED BY <1>1, <1>4, <1>5, <1>6, <1>7

LEMMA AllocTypes ==
    ASSUME Accounted
    PROVE  /\ \A n \in Nat : alloc_free_block(n + 1) \in Blocks \cup {NoBlock}
           /\ \A n \in Nat : alloc_free_block(n + 1) \in Blocks =>
                 n + 1 \in 1 .. unused_blocks /\ alloc_free_block(n + 1) \in Free
<1>1. /\ unused_blocks \in Nat
      /\ \A n \in 1 .. unused_blocks : alloc_free_block(n) \in Free
      /\ \A n \in Nat : n > unused_blocks => alloc_free_block(n) = NoBlock
  BY AllocGives, Constants
<1>2. \A n \in Nat : n + 1 \in Nat /\ (n + 1 \in 1 .. unused_blocks \/ n + 1 > unused_blocks)
  BY <1>1
<1> QED BY <1>1, <1>2, Constants DEF Free

LEMMA AllocRange ==
    Accounted' => unused_blocks' \in 0 .. BLOCK_NUM
<1>1. SUFFICES ASSUME freemap' \in SUBSET Blocks,
                      unused_blocks' = BLOCK_NUM - Cardinality(freemap')
               PROVE  unused_blocks' \in 0 .. BLOCK_NUM
  BY DEF Accounted, Blocks
<1>2. Cardinality(freemap') \in Nat /\ Cardinality(freemap') <= BLOCK_NUM
  BY <1>1, Constants, FS_Subset, FS_CardinalityType
<1> QED BY <1>1, <1>2, Constants

\* What n calls leave behind.
LEMMA AllocatedCounts ==
    ASSUME Accounted, NEW n \in Nat, Allocated(n)
    PROVE  /\ Accounted'
           /\ \A b : b \in freemap' <=>
                 \/ b \in freemap
                 \/ \E m \in 1 .. n : m <= unused_blocks /\ b = alloc_free_block(m)
           /\ n >= unused_blocks => unused_blocks' = 0
<1> DEFINE k == IF n <= unused_blocks THEN n ELSE unused_blocks
           got == {alloc_free_block(m) : m \in 1 .. k}
<1>1. /\ IsFiniteSet(freemap) /\ unused_blocks \in 0 .. BLOCK_NUM /\ k \in Nat /\ k <= unused_blocks
      /\ \A m \in 1 .. unused_blocks : alloc_free_block(m) \in Free
      /\ \A m \in Nat : m > unused_blocks => alloc_free_block(m) = NoBlock
      /\ \A l, m \in 1 .. unused_blocks :
            alloc_free_block(l) = alloc_free_block(m) => l = m
  BY AllocGives, Constants
<1>2. \A m \in 1 .. n : m <= unused_blocks <=> m \in 1 .. k BY <1>1
<1>3. \A m \in 1 .. k : alloc_free_block(m) \in Blocks /\ alloc_free_block(m) \notin freemap
                        /\ m \in 1 .. n
  BY <1>1 DEF Free
<1>4. freemap' = freemap \cup got
  <2>1. \A m \in 1 .. n : m \notin 1 .. k => alloc_free_block(m) = NoBlock BY <1>1
  <2>2. NoBlock \notin Blocks BY Constants
  <2>3. {alloc_free_block(m) : m \in 1 .. n} \ {NoBlock} = got
    BY <1>3, <2>1, <2>2
  <2> QED BY <2>3 DEF Allocated
<1>5. got \in SUBSET Blocks /\ got \cap freemap = {} BY <1>3
<1>6. IsFiniteSet(got) /\ Cardinality(got) = k
  <2> DEFINE f == [m \in 1 .. k |-> alloc_free_block(m)]
  <2>1. f \in Surjection(1 .. k, got) BY DEF Surjection
  <2>2. f \in Injection(1 .. k, got)
    <3>1. f \in [1 .. k -> got] OBVIOUS
    <3>2. \A l, m \in 1 .. k : f[l] = f[m] => l = m BY <1>1
    <3> QED BY <3>1, <3>2 DEF Injection, IsInjective
  <2> HIDE DEF got, k
  <2>3. IsFiniteSet(1 .. k) /\ Cardinality(1 .. k) = k BY <1>1, FS_Interval
  <2> QED BY <2>1, <2>2, <2>3, FS_Surjection
<1> HIDE DEF got
<1>7. Cardinality(freemap') = Cardinality(freemap) + k
  <2>1. Cardinality(freemap \cup got)
          = Cardinality(freemap) + Cardinality(got) - Cardinality(freemap \cap got)
    BY <1>1, <1>6, FS_Union
  <2>2. Cardinality(freemap \cap got) = 0 BY <1>5, FS_EmptySet
  <2>3. Cardinality(freemap) \in Nat BY <1>1, FS_CardinalityType
  <2> QED BY <1>1, <1>4, <1>6, <2>1, <2>2, <2>3
<1>8. unused_blocks' = unused_blocks - k
  <2>1. unused_blocks' = Max({unused_blocks - n, 0}) BY DEF Allocated
  <2>2. unused_blocks \in Int /\ unused_blocks - n \in Int /\ 0 \in Int BY <1>1
  <2>3. unused_blocks' = IF unused_blocks - n >= 0 THEN unused_blocks - n ELSE 0
    BY <2>1, <2>2, MinMax
  <2> QED BY <2>2, <2>3
<1>9. Accounted'
  <2>1. Cardinality(freemap) \in Nat BY <1>1, FS_CardinalityType
  <2>2. freemap' \in SUBSET Blocks BY <1>4, <1>5 DEF Accounted
  <2>3. unused_blocks' = BLOCK_NUM - Cardinality(freemap')
    BY <1>1, <1>7, <1>8, <2>1, Constants DEF Accounted
  <2> QED BY <2>2, <2>3 DEF Accounted, Blocks
<1>10. \A b : b \in got <=> \E m \in 1 .. n : m <= unused_blocks /\ b = alloc_free_block(m)
  BY <1>2, <1>3 DEF got
<1> QED BY <1>1, <1>4, <1>8, <1>9, <1>10

-----------------------------------------------------------------------------
(* The places that name blocks                                             *)

SystemUse(b) == [what |-> "system", of |-> b, block |-> b]
FatUse(j) == [what |-> "fat", of |-> j, block |-> fat[j]]
IndirectUse(i) == [what |-> "indirect", of |-> i, block |-> inode[i].indirect]
SlotUse(i, k) == [what |-> "slot", of |-> <<i, k>>, block |-> Slot(i, k)]

Named == {u \in Uses : u.what = "system" \/ u.block \notin {0, NoBlock}}

\* BlocksExact without the types.
Consistent ==
    /\ Accounted
    /\ freemap = {u.block : u \in Named}
    /\ \A u, v \in Named : u.block = v.block => u = v

IsNamed(u) ==
    \/ \E b \in 0 .. 2 : u = SystemUse(b)
    \/ \E j \in Fat : u = FatUse(j) /\ fat[j] \notin {0, NoBlock}
    \/ \E i \in Inodes : u = IndirectUse(i) /\ inode[i].indirect \notin {0, NoBlock}
    \/ \E i \in Files \cup {ROOT} : \E k \in Slots(i) :
          u = SlotUse(i, k) /\ Slot(i, k) \notin {0, NoBlock}

LEMMA NamedIs ==
    /\ \A u : u \in Named <=> IsNamed(u)
    /\ \A u : u \in Named' <=> IsNamed(u)'
<1>1. \A u : u \in Named <=> IsNamed(u)
  BY DEF Named, Uses, IsNamed, SystemUse, FatUse, IndirectUse, SlotUse
<1>2. \A u : u \in Named' <=> IsNamed(u)'
  BY DEF Named, Uses, IsNamed, SystemUse, FatUse, IndirectUse, SlotUse
<1> QED BY <1>1, <1>2

\* An operation that puts what its n calls return into n places that were
\* empty, and changes no other, leaves the image consistent.
LEMMA PlacesTaken ==
    ASSUME Consistent, NEW n \in Nat, Allocated(n), NEW At,
           \A u \in Named : u \in Named',
           \A u \in Named' :
              u \in Named \/ \E m \in 1 .. n : u = At[m] /\ u.block = alloc_free_block(m),
           \A m \in 1 .. n :
              m <= unused_blocks => At[m] \in Named' /\ At[m].block = alloc_free_block(m)
    PROVE  Consistent'
<1>1. /\ unused_blocks \in 0 .. BLOCK_NUM
      /\ \A m \in 1 .. unused_blocks : alloc_free_block(m) \in Free
      /\ \A m \in Nat : m > unused_blocks => alloc_free_block(m) = NoBlock
      /\ \A l, m \in 1 .. unused_blocks :
            alloc_free_block(l) = alloc_free_block(m) => l = m
  BY AllocGives DEF Consistent
<1>2. /\ Accounted'
      /\ \A b : b \in freemap' <=>
            \/ b \in freemap
            \/ \E m \in 1 .. n : m <= unused_blocks /\ b = alloc_free_block(m)
  BY AllocatedCounts DEF Consistent
<1>3. \A u \in Named' : u.block # NoBlock
  <2>1. 0 # NoBlock /\ 1 # NoBlock /\ 2 # NoBlock BY DEF NoBlock
  <2>2. \A b \in 0 .. 2 : b # NoBlock BY <2>1
  <2> QED BY <2>2, NamedIs DEF IsNamed, SystemUse, FatUse, IndirectUse, SlotUse
<1>4. \A u \in Named' : u \in Named \/ \E m \in 1 .. unused_blocks :
          m \in 1 .. n /\ u = At[m] /\ u.block = alloc_free_block(m)
  <2>1. ASSUME NEW u \in Named', NEW m \in 1 .. n, u = At[m], u.block = alloc_free_block(m)
        PROVE  m \in 1 .. unused_blocks
    BY <1>1, <1>3, <2>1
  <2> QED BY <2>1
<1>5. \A u \in Named : u.block \in freemap BY DEF Consistent
<1>6. \A m \in 1 .. unused_blocks : alloc_free_block(m) \notin freemap
  BY <1>1 DEF Free
<1>7. ASSUME NEW u \in Named', NEW v \in Named', u.block = v.block
      PROVE  u = v
  <2>1. CASE u \in Named /\ v \in Named BY <1>7, <2>1 DEF Consistent
  <2>2. CASE u \in Named /\ v \notin Named BY <1>4, <1>5, <1>6, <1>7, <2>2
  <2>3. CASE u \notin Named /\ v \in Named BY <1>4, <1>5, <1>6, <1>7, <2>3
  <2>4. CASE u \notin Named /\ v \notin Named BY <1>1, <1>4, <1>7, <2>4
  <2> QED BY <2>1, <2>2, <2>3, <2>4
<1>8. freemap' = {u.block : u \in Named'}
  <2>1. ASSUME NEW b \in freemap' PROVE \E u \in Named' : b = u.block
    <3>1. CASE b \in freemap BY <3>1 DEF Consistent
    <3>2. CASE \E m \in 1 .. n : m <= unused_blocks /\ b = alloc_free_block(m)
      BY <3>2
    <3> QED BY <1>2, <2>1, <3>1, <3>2
  <2>2. ASSUME NEW u \in Named' PROVE u.block \in freemap'
    <3>1. CASE u \in Named BY <1>2, <1>5, <3>1
    <3>2. CASE u \notin Named BY <1>2, <1>4, <3>2
    <3> QED BY <3>1, <3>2
  <2> QED BY <2>1, <2>2
<1> QED BY <1>2, <1>7, <1>8 DEF Consistent

\* What being consistent says of two places.
LEMMA Apart ==
    ASSUME Consistent
    PROVE  /\ \A j \in Fat : fat[j] \notin {0, NoBlock} =>
                 fat[j] \in freemap /\ fat[j] \notin 0 .. 2
           /\ \A i \in Inodes : inode[i].indirect \notin {0, NoBlock} =>
                 inode[i].indirect \in freemap /\ inode[i].indirect \notin 0 .. 2
           /\ \A i, j \in Inodes :
                 inode[i].indirect \notin {0, NoBlock} /\ inode[i].indirect = inode[j].indirect
                 => i = j
           /\ \A i \in Files \cup {ROOT} : \A k \in Slots(i) : Slot(i, k) \notin {0, NoBlock} =>
                 /\ Slot(i, k) \in freemap /\ Slot(i, k) \notin 0 .. 2
                 /\ \A j \in Inodes : Slot(i, k) # inode[j].indirect
                 /\ \A j \in Files \cup {ROOT} : \A l \in Slots(j) :
                       Slot(i, k) = Slot(j, l) => i = j /\ k = l
<1>1. \A b \in 0 .. 2 : SystemUse(b) \in Named /\ SystemUse(b).block = b
                        /\ SystemUse(b).what = "system"
  BY NamedIs DEF IsNamed, SystemUse
<1>2. \A j \in Fat : fat[j] \notin {0, NoBlock} =>
         FatUse(j) \in Named /\ FatUse(j).block = fat[j] /\ FatUse(j).what = "fat"
  BY NamedIs DEF IsNamed, FatUse
<1>3. \A i \in Inodes : inode[i].indirect \notin {0, NoBlock} =>
         /\ IndirectUse(i) \in Named /\ IndirectUse(i).block = inode[i].indirect
         /\ IndirectUse(i).what = "indirect" /\ IndirectUse(i).of = i
  BY NamedIs DEF IsNamed, IndirectUse
<1>4. \A i \in Files \cup {ROOT} : \A k \in Slots(i) : Slot(i, k) \notin {0, NoBlock} =>
         /\ SlotUse(i, k) \in Named /\ SlotUse(i, k).block = Slot(i, k)
         /\ SlotUse(i, k).what = "slot" /\ SlotUse(i, k).of = <<i, k>>
  BY NamedIs DEF IsNamed, SlotUse
<1>5. \A u \in Named : u.block \in freemap /\ \A v \in Named : u.block = v.block => u = v
  BY DEF Consistent
<1>6. \A j \in Fat : fat[j] \notin {0, NoBlock} =>
                 fat[j] \in freemap /\ fat[j] \notin 0 .. 2
  BY <1>1, <1>2, <1>5
<1>7. \A i \in Inodes : inode[i].indirect \notin {0, NoBlock} =>
                 inode[i].indirect \in freemap /\ inode[i].indirect \notin 0 .. 2
  BY <1>1, <1>3, <1>5
<1>8. \A i, j \in Inodes :
         inode[i].indirect \notin {0, NoBlock} /\ inode[i].indirect = inode[j].indirect
         => i = j
  BY <1>3, <1>5
<1>9. ASSUME NEW i \in Files \cup {ROOT}, NEW k \in Slots(i), Slot(i, k) \notin {0, NoBlock}
      PROVE  /\ Slot(i, k) \in freemap /\ Slot(i, k) \notin 0 .. 2
             /\ \A j \in Inodes : Slot(i, k) # inode[j].indirect
             /\ \A j \in Files \cup {ROOT} : \A l \in Slots(j) :
                   Slot(i, k) = Slot(j, l) => i = j /\ k = l
  <2>1. Slot(i, k) \in freemap /\ Slot(i, k) \notin 0 .. 2 BY <1>1, <1>4, <1>5, <1>9
  <2>2. \A j \in Inodes : Slot(i, k) # inode[j].indirect BY <1>3, <1>4, <1>5, <1>9
  <2>3. \A j \in Files \cup {ROOT} : \A l \in Slots(j) :
           Slot(i, k) = Slot(j, l) => i = j /\ k = l
    BY <1>4, <1>5, <1>9
  <2> QED BY <2>1, <2>2, <2>3
<1> QED BY <1>6, <1>7, <1>8, <1>9

\* Block 0 is the superblock, so that no call returns it.
LEMMA ZeroTaken ==
    ASSUME Consistent
    PROVE  0 \in freemap /\ 0 \notin Free
<1>1. SystemUse(0) \in Named /\ SystemUse(0).block = 0
  BY NamedIs DEF IsNamed, SystemUse
<1>2. 0 \in freemap BY <1>1 DEF Consistent
<1> QED BY <1>2 DEF Free

-----------------------------------------------------------------------------
(* What increase_size() does to an inode whose entries are filled in order *)

\* The number of blocks of inode i after increase_size().
NewBlocks(i, size) ==
    IF inode[i].blocks * BLOCK_SIZE >= size THEN inode[i].blocks ELSE Ceil(size)

\* The entries it fills, the call that gives the k-th of them its block, and
\* whether, and by which call, the inode gets its indirect block.
NewSlots(i, size) ==
    {k \in Slots(i) : inode[i].blocks <= k /\ k < NewBlocks(i, size)}
SlotCall(i, k) ==
    k - inode[i].blocks + (IF inode[i].blocks <= NDirect /\ NDirect <= k THEN 2 ELSE 1)
NewIndirect(i, size) == inode[i].blocks <= NDirect /\ NDirect < NewBlocks(i, size)
NodeCall(i) == NDirect - inode[i].blocks + 1

\* The elements of an interval are ranked from 1 on.
LEMMA RankInInterval ==
    ASSUME NEW a \in Nat, NEW b \in Nat
    PROVE  /\ Cardinality(a .. b - 1) = IF a <= b THEN b - a ELSE 0
           /\ \A k \in a .. b - 1 : Rank(a .. b - 1, k) = k - a + 1
<1>1. Cardinality(a .. b - 1) = IF a <= b THEN b - a ELSE 0
  <2>1. Cardinality(a .. b - 1) = IF a > b - 1 THEN 0 ELSE b - 1 - a + 1
    BY FS_Interval
  <2> QED BY <2>1
<1>2. ASSUME NEW k \in a .. b - 1 PROVE Rank(a .. b - 1, k) = k - a + 1
  <2>1. {j \in a .. b - 1 : j <= k} = a .. k OBVIOUS
  <2>2. Cardinality(a .. k) = k - a + 1 BY FS_Interval
  <2> QED BY <2>1, <2>2 DEF Rank
<1> QED BY <1>1, <1>2

\* What the types say of one inode and of one block.
\* The cell c of a chunk that starts at cell `from` of its block and at number
\* num of the count bytes.
LEMMA InChunk ==
    ASSUME NEW count \in Nat, NEW from \in Nat, NEW num \in Nat, NEW len \in Nat,
           NEW c \in Int, num + len <= count, from <= c, c <= from + len - 1
    PROVE  num + c - from + 1 \in 1 .. count
  OBVIOUS

LEMMA NodeTypes ==
    ASSUME TypeOK, NEW i \in Inodes
    PROVE  /\ inode[i].name \in Names \cup {NoName} /\ inode[i].size \in Nat
           /\ inode[i].blocks \in Nat /\ inode[i].indirect \in Blocks \cup {NoBlock}
           /\ DOMAIN inode[i].direct = 0 .. NDirect - 1
           /\ \A k \in 0 .. NDirect - 1 : inode[i].direct[k] \in Blocks \cup {NoBlock}
           /\ inode[i] = [name |-> inode[i].name, size |-> inode[i].size,
                          blocks |-> inode[i].blocks, direct |-> inode[i].direct,
                          indirect |-> inode[i].indirect]
           /\ inode[i].direct \in [0 .. NDirect - 1 -> Blocks \cup {NoBlock}]
<1>1. inode[i] \in [name     : Names \cup {NoName},
                    size     : Nat,
                    blocks   : Nat,
                    direct   : [0 .. NDirect - 1 -> Blocks \cup {NoBlock}],
                    indirect : Blocks \cup {NoBlock}]
  BY DEF TypeOK
<1>2. /\ inode[i].name \in Names \cup {NoName} /\ inode[i].size \in Nat
      /\ inode[i].blocks \in Nat /\ inode[i].indirect \in Blocks \cup {NoBlock}
      /\ inode[i].direct \in [0 .. NDirect - 1 -> Blocks \cup {NoBlock}]
  BY <1>1
<1>3. /\ DOMAIN inode[i].direct = 0 .. NDirect - 1
      /\ \A k \in 0 .. NDirect - 1 : inode[i].direct[k] \in Blocks \cup {NoBlock}
  BY <1>2
<1>4. inode[i] = [name |-> inode[i].name, size |-> inode[i].size,
                  blocks |-> inode[i].blocks, direct |-> inode[i].direct,
                  indirect |-> inode[i].indirect]
  BY <1>1
<1> QED BY <1>2, <1>3, <1>4

LEMMA FilesAreBlocks ==
    ASSUME TypeOK
    PROVE  /\ Files \in SUBSET Blocks /\ Files \cup {ROOT} \in SUBSET Inodes
           /\ 0 \notin Files /\ ROOT \notin Files
           /\ \A f : f \in Files <=> \E j \in Fat : f = fat[j] /\ fat[j] # 0
<1>1. \A j \in Fat : fat[j] \in Blocks BY DEF TypeOK
<1>2. \A f : f \in Files <=> \E j \in Fat : f = fat[j] /\ fat[j] # 0 BY DEF Files
<1> QED BY <1>1, <1>2, Constants DEF Inodes

\* The numbers of blocks before and after.
GrownSize(i, size) ==
    /\ NewBlocks(i, size) \in Nat /\ inode[i].blocks <= NewBlocks(i, size)
    /\ inode[i].blocks * BLOCK_SIZE < size => NewBlocks(i, size) = Ceil(size)

\* The inode, and the entries in it.
GrownNode(g, i, size) ==
    /\ g.node.name = inode[i].name /\ g.node.size = inode[i].size
    /\ g.node.blocks = NewBlocks(i, size)
    /\ g.node = [inode[i] EXCEPT !.blocks = g.node.blocks, !.direct = g.node.direct,
                                 !.indirect = g.node.indirect]
    /\ g.node.direct \in [0 .. NDirect - 1 -> Blocks \cup {NoBlock}]
    /\ g.node.indirect = IF NewIndirect(i, size)
                         THEN alloc_free_block(NodeCall(i)) ELSE inode[i].indirect
    /\ \A k \in 0 .. NDirect - 1 :
          g.node.direct[k] = IF k \in NewSlots(i, size)
                             THEN alloc_free_block(SlotCall(i, k)) ELSE inode[i].direct[k]
    /\ g.outside <=> NewIndirect(i, size) /\ alloc_free_block(NodeCall(i)) = NoBlock

\* The entries of the indirect block.
GrownTable(g, i, size) ==
    /\ g.table \in [Cells -> Nat \cup {NoBlock}]
    /\ g.node.indirect # 0 =>
          \A k \in NDirect .. NDirect + NIndirect - 1 :
             g.table[k - NDirect] = IF k \in NewSlots(i, size)
                                    THEN alloc_free_block(SlotCall(i, k)) ELSE Slot(i, k)

\* The calls of alloc_free_block(): one for each entry and for the indirect block.
GrownCalls(g, i, size) ==
    /\ g.calls \in Nat
    /\ NewIndirect(i, size) => NodeCall(i) \in 1 .. g.calls
    /\ \A k \in NewSlots(i, size) : SlotCall(i, k) \in 1 .. g.calls
    /\ \A m \in 1 .. g.calls : \/ NewIndirect(i, size) /\ m = NodeCall(i)
                               \/ \E k \in NewSlots(i, size) : m = SlotCall(i, k)

LEMMA Growth ==
    ASSUME TypeOK, Consistent, mode # "wild", FreshBlocksZero,
           NEW i \in Files \cup {ROOT}, Filled(i), NEW size \in Nat,
           NEW g, g = increase_size(i, size)
    PROVE  /\ GrownSize(i, size) /\ GrownNode(g, i, size)
           /\ GrownTable(g, i, size) /\ GrownCalls(g, i, size)
<1> DEFINE node == inode[i]
           B == node.blocks
           N == NewBlocks(i, size)
           num == IF node.blocks * BLOCK_SIZE >= size THEN 0 ELSE Ceil(size) - node.blocks
           unfilled == {k \in 0 .. NDirect - 1 : node.direct[k] = 0}
           d == Min({num, Cardinality(unfilled)})
           x == IF num > d /\ NoIndirect(node) THEN 1 ELSE 0
           indirect == IF x = 1 THEN alloc_free_block(d + 1) ELSE node.indirect
           table == IF indirect \in Blocks THEN data[indirect] ELSE [c \in Cells |-> 0]
           empty == {k \in 0 .. NIndirect - 1 : table[k] = 0}
           e == Min({num - d, Cardinality(empty)})
           direct == [k \in DOMAIN node.direct |->
                         IF k \in unfilled /\ Rank(unfilled, k) <= d
                         THEN alloc_free_block(Rank(unfilled, k)) ELSE node.direct[k]]
           newtable == [c \in Cells |->
                           IF c \in empty /\ Rank(empty, c) <= e
                           THEN alloc_free_block(d + x + Rank(empty, c)) ELSE table[c]]
<1>1. /\ g.node = [node EXCEPT !.blocks = B + num, !.direct = direct, !.indirect = indirect]
      /\ g.table = newtable /\ g.calls = d + x + e
      /\ g.outside <=> num > d /\ indirect = NoBlock
  BY DEF increase_size
<1> HIDE DEF newtable, direct
<1>2. /\ i \in Inodes /\ B \in Nat /\ node.indirect \in Blocks
      /\ DOMAIN node.direct = 0 .. NDirect - 1 /\ 0 \in Blocks
      /\ node = [name |-> node.name, size |-> node.size, blocks |-> node.blocks,
                 direct |-> node.direct, indirect |-> node.indirect]
      /\ NDirect \in Nat /\ NIndirect \in Nat /\ NIndirect <= BLOCK_SIZE /\ BLOCK_SIZE \in Nat
      /\ NDirect > 0 /\ NIndirect > 0 /\ NoBlock \notin Blocks
  <2>1. i \in Inodes BY FilesAreBlocks
  <2>2. B \in Nat BY <2>1, NodeTypes
  <2>3. node.indirect \in Blocks BY DEF Filled
  <2>4. /\ DOMAIN node.direct = 0 .. NDirect - 1
        /\ node = [name |-> node.name, size |-> node.size, blocks |-> node.blocks,
                   direct |-> node.direct, indirect |-> node.indirect]
    BY <2>1, NodeTypes
  <2> QED BY <2>1, <2>2, <2>3, <2>4, Constants
<1>3. /\ node.indirect = 0 <=> B <= NDirect
      /\ \A k \in 0 .. NDirect - 1 : node.direct[k] = 0 <=> k >= B
      /\ \A k \in NDirect .. NDirect + NIndirect - 1 : Slot(i, k) = 0 <=> k >= B
  <2>1. \A k \in 0 .. NDirect - 1 : k \in Slots(i) /\ Slot(i, k) = node.direct[k]
    BY <1>2 DEF Slots, Slot, BlockOf
  <2>2. \A k \in NDirect .. NDirect + NIndirect - 1 : k \in Slots(i) BY <1>2 DEF Slots
  <2> QED BY <2>1, <2>2 DEF Filled
<1>4. /\ N \in Nat /\ num \in Nat /\ N = B + num
      /\ B * BLOCK_SIZE < size => N = Ceil(size)
  <2>1. Ceil(size) \in Nat /\ \A m \in Nat : m * BLOCK_SIZE < size <=> m < Ceil(size)
    BY CeilIs
  <2>2. B * BLOCK_SIZE \in Nat BY <1>2
  <2> QED BY <1>2, <2>1, <2>2 DEF NewBlocks
<1> DEFINE dtop == IF B <= NDirect THEN NDirect - B ELSE 0
<1>5. /\ unfilled = B .. NDirect - 1 /\ Cardinality(unfilled) = dtop
      /\ \A k \in B .. NDirect - 1 : Rank(unfilled, k) = k - B + 1
  <2>1. unfilled = B .. NDirect - 1 BY <1>2, <1>3
  <2>2. /\ Cardinality(B .. NDirect - 1) = dtop
        /\ \A k \in B .. NDirect - 1 : Rank(B .. NDirect - 1, k) = k - B + 1
    BY <1>2, RankInInterval
  <2> QED BY <2>1, <2>2
<1> HIDE DEF unfilled, N, num
<1>6. d \in Nat /\ d = IF num <= dtop THEN num ELSE dtop
  <2>1. dtop \in Nat BY <1>2
  <2> HIDE DEF dtop
  <2> QED BY <1>4, <1>5, <2>1, MinMax
<1> HIDE DEF d, B
<1>7. num > d /\ NoIndirect(node) <=> NewIndirect(i, size)
  BY <1>2, <1>3, <1>4, <1>6 DEF NoIndirect, NewIndirect, N, B
<1>8. NewIndirect(i, size) => d + 1 = NodeCall(i) /\ d = NDirect - B /\ num > d
  BY <1>2, <1>4, <1>6 DEF NewIndirect, NodeCall, N, B
<1>9. x = (IF NewIndirect(i, size) THEN 1 ELSE 0)
  BY <1>7
<1> HIDE DEF x, dtop
<1>10. indirect = IF NewIndirect(i, size) THEN alloc_free_block(NodeCall(i)) ELSE node.indirect
  BY <1>8, <1>9
<1> HIDE DEF indirect, table
<1>11. empty \in SUBSET Nat /\ Cardinality(empty) \in Nat
  <2>1. empty \in SUBSET (0 .. NIndirect - 1) OBVIOUS
  <2> HIDE DEF empty
  <2>2. IsFiniteSet(0 .. NIndirect - 1) BY <1>2, FS_Interval
  <2>3. IsFiniteSet(empty) BY <2>1, <2>2, FS_Subset
  <2>4. Cardinality(empty) \in Nat BY <2>3, FS_CardinalityType
  <2>5. 0 .. NIndirect - 1 \in SUBSET Nat OBVIOUS
  <2> QED BY <2>1, <2>4, <2>5
<1>12. e \in Nat /\ e = IF num - d <= Cardinality(empty) THEN num - d ELSE Cardinality(empty)
  <2> DEFINE rest == num - d
             all == Cardinality(empty)
  <2>1. rest \in Nat /\ all \in Nat BY <1>2, <1>4, <1>6, <1>11 DEF dtop
  <2> HIDE DEF rest, all
  <2>2. e = Min({rest, all}) BY DEF rest, all
  <2> HIDE DEF e
  <2>3. e = IF rest <= all THEN rest ELSE all BY <2>1, <2>2, MinMax
  <2>4. e \in Nat BY <2>1, <2>3
  <2> QED BY <2>3, <2>4 DEF rest, all
<1> HIDE DEF empty, e
<1> DEFINE first == IF B <= NDirect THEN 0 ELSE B - NDirect
<1>13. NewIndirect(i, size) => table = [c \in Cells |-> 0]
  <2>1. ASSUME NewIndirect(i, size), indirect \in Blocks
        PROVE  indirect \in Blocks \ freemap
    <3>1. d \in Nat /\ indirect = alloc_free_block(d + 1) BY <1>6, <1>8, <1>10, <2>1
    <3> QED BY <2>1, <3>1, AllocTypes DEF Consistent, Free
  <2> QED BY <2>1 DEF table, FreshBlocksZero
<1>14. ASSUME ~NewIndirect(i, size), node.indirect # 0
       PROVE  /\ table = data[node.indirect] /\ B > NDirect /\ d = 0
              /\ \A k \in NDirect .. NDirect + NIndirect - 1 : table[k - NDirect] = Slot(i, k)
  <2>1. indirect = node.indirect BY <1>10, <1>14
  <2>2. table = data[node.indirect] BY <1>2, <2>1 DEF table
  <2>3. \A k \in NDirect .. NDirect + NIndirect - 1 : Slot(i, k) = table[k - NDirect]
    BY <1>2, <1>14, <2>2 DEF Slot, BlockOf, Table
  <2>4. B > NDirect /\ d = 0 BY <1>2, <1>3, <1>4, <1>6, <1>14 DEF dtop, B
  <2> QED BY <2>2, <2>3, <2>4
<1>15. ASSUME NewIndirect(i, size) \/ node.indirect # 0
       PROVE  /\ empty = first .. NIndirect - 1 /\ first \in Nat
              /\ Cardinality(empty) = IF first <= NIndirect THEN NIndirect - first ELSE 0
              /\ \A c \in first .. NIndirect - 1 : Rank(empty, c) = c - first + 1
  <2>1. first \in Nat BY <1>2 DEF B
  <2>2. \A c \in 0 .. NIndirect - 1 : table[c] = 0 <=> c >= first
    <3>1. CASE NewIndirect(i, size)
      <4>1. first = 0 BY <3>1 DEF NewIndirect, B
      <4>2. \A c \in 0 .. NIndirect - 1 : c \in Cells BY <1>2 DEF Cells
      <4> QED BY <1>13, <3>1, <4>1, <4>2
    <3>2. CASE ~NewIndirect(i, size)
      <4>1. node.indirect # 0 BY <1>15, <3>2
      <4>2. ASSUME NEW c \in 0 .. NIndirect - 1 PROVE table[c] = 0 <=> c >= first
        <5>1. NDirect + c \in NDirect .. NDirect + NIndirect - 1 /\ NDirect + c - NDirect = c
          BY <1>2
        <5>2. table[c] = Slot(i, NDirect + c)
          <6>1. table[(NDirect + c) - NDirect] = Slot(i, NDirect + c)
            BY <1>14, <3>2, <4>1, <5>1
          <6>2. (NDirect + c) - NDirect = c BY <1>2
          <6> QED BY <6>1, <6>2
        <5>3. Slot(i, NDirect + c) = 0 <=> NDirect + c >= B BY <1>3, <5>1 DEF B
        <5> QED BY <1>2, <1>14, <3>2, <4>1, <5>2, <5>3 DEF B
      <4> QED BY <4>2
    <3> QED BY <3>1, <3>2
  <2>3. empty = first .. NIndirect - 1 BY <1>2, <2>1, <2>2 DEF empty
  <2> HIDE DEF first
  <2>4. /\ Cardinality(first .. NIndirect - 1) = IF first <= NIndirect THEN NIndirect - first ELSE 0
        /\ \A c \in first .. NIndirect - 1 : Rank(first .. NIndirect - 1, c) = c - first + 1
    BY <1>2, <2>1, RankInInterval
  <2> QED BY <2>1, <2>3, <2>4
<1>16. ASSUME ~NewIndirect(i, size), node.indirect = 0
       PROVE  N <= NDirect /\ d = num /\ e = 0
  <2>1. B <= NDirect BY <1>3, <1>16 DEF B
  <2>2. N <= NDirect BY <1>2, <1>4, <1>16, <2>1 DEF NewIndirect, N, B
  <2>3. d = num BY <1>2, <1>4, <1>6, <2>1, <2>2 DEF dtop, B
  <2>4. num - d = 0 BY <1>4, <2>3
  <2> QED BY <1>11, <1>12, <2>2, <2>3, <2>4
<1>17. ASSUME NEW k \in Slots(i)
       PROVE  /\ k \in NewSlots(i, size) <=> B <= k /\ k < N
              /\ k \in Nat /\ k < NDirect + NIndirect
              /\ SlotCall(i, k) = k - B + (IF B <= NDirect /\ NDirect <= k THEN 2 ELSE 1)
  BY <1>2, <1>17 DEF NewSlots, SlotCall, Slots, N, B
<1>18. ASSUME NEW k \in 0 .. NDirect - 1
       PROVE  direct[k] = IF k \in NewSlots(i, size)
                          THEN alloc_free_block(SlotCall(i, k)) ELSE node.direct[k]
  <2>1. k \in Slots(i) /\ k \in Nat /\ k < NDirect BY <1>2, <1>18 DEF Slots
  <2>2. direct[k] = IF k \in unfilled /\ Rank(unfilled, k) <= d
                    THEN alloc_free_block(Rank(unfilled, k)) ELSE node.direct[k]
    BY <1>2, <1>18 DEF direct
  <2>3. CASE k \in NewSlots(i, size)
    <3>1. B <= k /\ k < N /\ SlotCall(i, k) = k - B + 1 BY <1>2, <1>17, <2>1, <2>3 DEF B
    <3>2. k \in unfilled /\ Rank(unfilled, k) = k - B + 1 BY <1>2, <1>5, <2>1, <3>1 DEF B
    <3>3. k - B + 1 <= d BY <1>2, <1>4, <1>6, <2>1, <3>1 DEF B, dtop
    <3> QED BY <2>2, <2>3, <3>1, <3>2, <3>3
  <2>4. CASE k \notin NewSlots(i, size)
    <3>1. ~(B <= k /\ k < N) BY <1>17, <2>1, <2>4
    <3>2. ~(k \in unfilled /\ Rank(unfilled, k) <= d)
      <4>1. ASSUME k \in unfilled PROVE ~(Rank(unfilled, k) <= d)
        <5>1. Rank(unfilled, k) = k - B + 1 /\ B <= k BY <1>2, <1>5, <4>1 DEF B
        <5>2. k >= N BY <1>2, <1>4, <2>1, <3>1, <5>1 DEF B
        <5> QED BY <1>2, <1>4, <1>6, <2>1, <5>1, <5>2 DEF B, dtop
      <4> QED BY <4>1
    <3> QED BY <2>2, <2>4, <3>2
  <2> QED BY <2>3, <2>4
<1>19. ASSUME NewIndirect(i, size) \/ node.indirect # 0,
              NEW k \in NDirect .. NDirect + NIndirect - 1
       PROVE  newtable[k - NDirect] = IF k \in NewSlots(i, size)
                                      THEN alloc_free_block(SlotCall(i, k)) ELSE Slot(i, k)
  <2> DEFINE c == k - NDirect
  <2>1. k \in Slots(i) /\ c \in Cells /\ c \in 0 .. NIndirect - 1 /\ k \in Nat /\ k >= NDirect
    BY <1>2, <1>19 DEF Slots, Cells
  <2>2. newtable[c] = IF c \in empty /\ Rank(empty, c) <= e
                      THEN alloc_free_block(d + x + Rank(empty, c)) ELSE table[c]
    BY <2>1 DEF newtable
  <2>3. /\ c \in empty <=> k >= B
        /\ c \in empty => Rank(empty, c) = c - first + 1
    BY <1>2, <1>15, <1>19, <2>1 DEF B
  <2>4. d = (IF NewIndirect(i, size) THEN NDirect - B ELSE 0)
        /\ (NewIndirect(i, size) <=> B <= NDirect)
    BY <1>2, <1>8, <1>14, <1>19 DEF NewIndirect, B
  <2>5. CASE k \in NewSlots(i, size)
    <3>1. B <= k /\ k < N BY <1>17, <2>1, <2>5
    <3>2. c - first + 1 <= num - d /\ c - first + 1 <= NIndirect - first /\ first <= NIndirect
      <4>1. num = N - B /\ B \in Nat /\ N \in Nat BY <1>2, <1>4 DEF B
      <4>2. CASE B <= NDirect BY <1>2, <2>1, <2>4, <3>1, <4>1, <4>2
      <4>3. CASE B > NDirect BY <1>2, <2>1, <2>4, <3>1, <4>1, <4>3
      <4> QED BY <1>2, <4>1, <4>2, <4>3
    <3>3. Cardinality(empty) = NIndirect - first BY <1>15, <1>19, <3>2
    <3>4. c - first + 1 <= e BY <1>12, <3>2, <3>3
    <3>5. d + x + (c - first + 1) = SlotCall(i, k)
      <4>1. SlotCall(i, k) = k - B + (IF B <= NDirect /\ NDirect <= k THEN 2 ELSE 1)
        BY <1>17, <2>1
      <4>2. B \in Nat /\ NDirect \in Nat /\ k \in Nat /\ k >= NDirect BY <1>2, <2>1 DEF B
      <4>3. CASE B <= NDirect
        <5>1. x = 1 /\ d = NDirect - B /\ first = 0 BY <1>9, <2>4, <4>3
        <5> QED BY <4>1, <4>2, <4>3, <5>1
      <4>4. CASE B > NDirect
        <5>1. x = 0 /\ d = 0 /\ first = B - NDirect BY <1>9, <2>4, <4>2, <4>4
        <5> QED BY <4>1, <4>2, <4>4, <5>1
      <4> QED BY <4>2, <4>3, <4>4
    <3> QED BY <2>2, <2>3, <2>5, <3>1, <3>4, <3>5
  <2>6. CASE k \notin NewSlots(i, size)
    <3>1. ~(B <= k /\ k < N) BY <1>17, <2>1, <2>6
    <3>2. ~(c \in empty /\ Rank(empty, c) <= e)
      <4>1. ASSUME c \in empty PROVE ~(c - first + 1 <= e)
        <5>0. first \in Int BY <1>15, <1>19
        <5>1. k >= N /\ k >= B BY <1>2, <1>4, <2>1, <2>3, <3>1, <4>1 DEF B
        <5>2. e <= num - d BY <1>2, <1>4, <1>6, <1>11, <1>12
        <5>3. num - d < c - first + 1 BY <1>2, <1>4, <2>1, <2>4, <5>1 DEF B
        <5> HIDE DEF first
        <5> QED BY <1>2, <1>4, <1>6, <1>12, <2>1, <5>0, <5>2, <5>3
      <4> QED BY <2>3, <4>1
    <3>3. newtable[c] = table[c] BY <2>2, <3>2
    <3>4. table[c] = Slot(i, k)
      <4>1. CASE NewIndirect(i, size)
        <5>1. table[c] = 0 BY <1>13, <2>1, <4>1
        <5>2. k >= N /\ B <= N
          <6>1. B \in Nat /\ NDirect \in Nat /\ k \in Nat /\ k >= NDirect BY <1>2, <2>1 DEF B
          <6>2. N \in Nat /\ B <= N BY <1>4, <6>1
          <6>3. B <= NDirect BY <2>4, <4>1
          <6> QED BY <3>1, <6>1, <6>2, <6>3
        <5>3. Slot(i, k) = 0 BY <1>2, <1>3, <1>4, <1>19, <2>1, <5>2 DEF B
        <5> QED BY <5>1, <5>3
      <4>2. CASE ~NewIndirect(i, size) BY <1>14, <1>19, <4>2
      <4> QED BY <4>1, <4>2
    <3> QED BY <2>6, <3>3, <3>4
  <2> QED BY <2>5, <2>6
<1>21. g.outside <=> NewIndirect(i, size) /\ alloc_free_block(NodeCall(i)) = NoBlock
  <2>1. ASSUME ~NewIndirect(i, size) PROVE indirect # NoBlock BY <1>2, <1>10, <2>1
  <2>2. NewIndirect(i, size) => num > d BY <1>8
  <2> QED BY <1>1, <1>10, <2>1, <2>2
<1>22. g.calls \in Nat
  BY <1>1, <1>6, <1>9, <1>12
<1>23. NewIndirect(i, size) => NodeCall(i) \in 1 .. g.calls
  BY <1>1, <1>6, <1>8, <1>9, <1>12
<1>24. g.calls = d + x + e BY <1>1
<1>25. ASSUME NEW k \in NewSlots(i, size) PROVE SlotCall(i, k) \in 1 .. g.calls
  <2>1. /\ k \in Slots(i) /\ B <= k /\ k < N /\ k \in Nat /\ k < NDirect + NIndirect
        /\ SlotCall(i, k) = k - B + (IF B <= NDirect /\ NDirect <= k THEN 2 ELSE 1)
    BY <1>17, <1>25 DEF NewSlots
  <2>2. num = N - B /\ B \in Nat /\ N \in Nat BY <1>2, <1>4 DEF B
  <2>3. CASE NewIndirect(i, size)
    <3>1. B <= NDirect /\ NDirect < N /\ d = NDirect - B /\ x = 1
      BY <1>8, <1>9, <2>3 DEF NewIndirect, N, B
    <3>2. e = IF N - NDirect <= NIndirect THEN N - NDirect ELSE NIndirect
      <4>1. Cardinality(empty) = NIndirect BY <1>2, <1>15, <2>3, <3>1
      <4> QED BY <1>2, <1>12, <2>2, <3>1, <4>1
    <3>3. g.calls = NDirect - B + 1 + e BY <1>24, <3>1
    <3>4. CASE k < NDirect
      <4>1. SlotCall(i, k) = k - B + 1 BY <1>2, <2>1, <3>4
      <4>2. k - B + 1 <= NDirect - B + 1 + e BY <1>2, <1>12, <2>1, <2>2, <3>4
      <4> QED BY <1>22, <2>1, <2>2, <3>3, <4>1, <4>2
    <3>5. CASE NDirect <= k
      <4>1. SlotCall(i, k) = k - B + 2 BY <2>1, <3>1, <3>5
      <4>2. k - B + 2 <= NDirect - B + 1 + e BY <1>2, <2>1, <2>2, <3>2, <3>5
      <4> QED BY <1>22, <2>1, <2>2, <3>3, <4>1, <4>2
    <3> QED BY <1>2, <2>1, <3>4, <3>5
  <2>4. CASE ~NewIndirect(i, size) /\ node.indirect # 0
    <3>1. B > NDirect /\ d = 0 /\ x = 0 BY <1>9, <1>14, <2>4
    <3>2. Cardinality(empty) = NIndirect - (B - NDirect)
      BY <1>2, <1>15, <2>1, <2>2, <2>4, <3>1
    <3>3. e = IF N - B <= NIndirect - (B - NDirect) THEN N - B ELSE NIndirect - (B - NDirect)
      BY <1>2, <1>12, <2>2, <3>1, <3>2
    <3> QED BY <1>2, <1>24, <2>1, <2>2, <3>1, <3>3
  <2>5. CASE ~NewIndirect(i, size) /\ node.indirect = 0
    BY <1>2, <1>9, <1>16, <1>24, <2>1, <2>2, <2>5
  <2> QED BY <2>3, <2>4, <2>5
<1>26. ASSUME NEW m \in 1 .. g.calls
       PROVE  \/ NewIndirect(i, size) /\ m = NodeCall(i)
              \/ \E k \in NewSlots(i, size) : m = SlotCall(i, k)
  <2>1. m \in Nat /\ m > 0 /\ m <= d + x + e BY <1>22, <1>24, <1>26
  <2>2. num = N - B /\ B \in Nat /\ N \in Nat BY <1>2, <1>4 DEF B
  <2>3. ASSUME NEW k \in Slots(i), B <= k, k < N,
               m = k - B + (IF B <= NDirect /\ NDirect <= k THEN 2 ELSE 1)
        PROVE  \E l \in NewSlots(i, size) : m = SlotCall(i, l)
    BY <1>17, <2>3
  <2>4. Slots(i) = 0 .. NDirect + NIndirect - 1 BY DEF Slots
  <2>5. CASE NewIndirect(i, size)
    <3>1. B <= NDirect /\ NDirect < N /\ d = NDirect - B /\ x = 1 /\ NodeCall(i) = NDirect - B + 1
      BY <1>8, <1>9, <2>5 DEF NewIndirect, NodeCall, N, B
    <3>2. e <= N - NDirect /\ e <= NIndirect
      <4>1. Cardinality(empty) = NIndirect BY <1>2, <1>15, <2>5, <3>1
      <4> QED BY <1>2, <1>12, <2>2, <3>1, <4>1
    <3>3. CASE m <= d
      <4>1. /\ B + m - 1 \in Slots(i) /\ B <= B + m - 1 /\ B + m - 1 < N
            /\ m = (B + m - 1) - B + 1 /\ B + m - 1 < NDirect
        BY <1>2, <2>1, <2>2, <2>4, <3>1, <3>3
      <4> QED BY <1>2, <2>2, <2>3, <4>1
    <3>4. CASE m = d + 1 BY <2>5, <3>1, <3>4
    <3>5. CASE m > d + 1
      <4> DEFINE l == B + m - 2
      <4>1. l \in Nat /\ m = l - B + 2 /\ B <= l /\ NDirect <= l
        BY <1>2, <2>1, <2>2, <3>1, <3>5
      <4>2. m <= NDirect - B + 1 + e BY <2>1, <3>1
      <4>3. l < N /\ l < NDirect + NIndirect BY <1>2, <1>12, <2>1, <2>2, <3>1, <3>2, <4>1, <4>2
      <4> HIDE DEF l
      <4>4. l \in Slots(i) BY <1>2, <2>4, <4>1, <4>3
      <4> QED BY <2>3, <3>1, <4>1, <4>3, <4>4
    <3> QED BY <1>6, <2>1, <3>3, <3>4, <3>5
  <2>6. CASE ~NewIndirect(i, size) /\ node.indirect # 0
    <3>1. B > NDirect /\ d = 0 /\ x = 0 BY <1>9, <1>14, <2>6
    <3>2. e <= N - B /\ e <= NIndirect - (B - NDirect)
      <4>1. e > 0 BY <1>12, <2>1, <3>1
      <4>2. Cardinality(empty) = NIndirect - (B - NDirect)
        BY <1>2, <1>12, <1>15, <2>2, <2>6, <3>1, <4>1
      <4> QED BY <1>2, <1>12, <2>2, <3>1, <4>2
    <3> DEFINE l == B + m - 1
    <3>3. l \in Nat /\ m = l - B + 1 /\ B <= l BY <2>1, <2>2
    <3>4. m <= e BY <1>12, <2>1, <3>1
    <3>5. l < N /\ l < NDirect + NIndirect BY <1>2, <1>12, <2>2, <3>1, <3>2, <3>3, <3>4
    <3> HIDE DEF l
    <3>6. l \in Slots(i) BY <1>2, <2>4, <3>3, <3>5
    <3>7. ~(B <= NDirect) BY <1>2, <2>2, <3>1
    <3> QED BY <2>3, <3>3, <3>5, <3>6, <3>7
  <2>7. CASE ~NewIndirect(i, size) /\ node.indirect = 0
    <3>1. N <= NDirect /\ d = N - B /\ e = 0 /\ x = 0 BY <1>9, <1>16, <2>2, <2>7
    <3> DEFINE l == B + m - 1
    <3>2. l \in Nat /\ m = l - B + 1 /\ B <= l BY <2>1, <2>2
    <3>3. m <= N - B BY <2>1, <2>2, <3>1
    <3>4. l < N /\ l < NDirect BY <1>2, <2>2, <3>1, <3>2, <3>3
    <3> HIDE DEF l
    <3>5. l \in Slots(i) BY <1>2, <2>4, <3>2, <3>4
    <3>6. ~(NDirect <= l) BY <1>2, <3>2, <3>4
    <3> QED BY <2>3, <3>2, <3>4, <3>5, <3>6
  <2> QED BY <2>5, <2>6, <2>7
<1>27. /\ g.node.name = node.name /\ g.node.size = node.size /\ g.node.blocks = N
       /\ g.node.direct = direct /\ g.node.indirect = indirect
       /\ g.node = [node EXCEPT !.blocks = g.node.blocks, !.direct = g.node.direct,
                                !.indirect = g.node.indirect]
  <2> DEFINE name == node.name
             sz == node.size
             dir == node.direct
             ind == node.indirect
             B2 == B + num
  <2>1. node = [name |-> name, size |-> sz, blocks |-> B, direct |-> dir, indirect |-> ind]
    BY <1>2 DEF B
  <2>2. N = B2 BY <1>4 DEF B
  <2>3. g.node = [node EXCEPT !.blocks = B2, !.direct = direct, !.indirect = indirect]
    BY <1>1 DEF B
  <2> HIDE DEF node, name, sz, dir, ind, B2
  <2>4. [node EXCEPT !.blocks = B2, !.direct = direct, !.indirect = indirect]
          = [name |-> name, size |-> sz, blocks |-> B2, direct |-> direct, indirect |-> indirect]
    <3> DEFINE n1 == [node EXCEPT !.blocks = B2]
               n2 == [n1 EXCEPT !.direct = direct]
    <3>1. n1 = [name |-> name, size |-> sz, blocks |-> B2, direct |-> dir, indirect |-> ind]
      BY <2>1
    <3> HIDE DEF n1
    <3>2. n2 = [name |-> name, size |-> sz, blocks |-> B2, direct |-> direct, indirect |-> ind]
      BY <3>1
    <3> HIDE DEF n2
    <3>3. [n2 EXCEPT !.indirect = indirect]
            = [name |-> name, size |-> sz, blocks |-> B2, direct |-> direct, indirect |-> indirect]
      BY <3>2
    <3>4. [node EXCEPT !.blocks = B2, !.direct = direct, !.indirect = indirect]
            = [n2 EXCEPT !.indirect = indirect]
      BY DEF n1, n2
    <3> QED BY <3>3, <3>4
  <2>5. /\ g.node.name = name /\ g.node.size = sz /\ g.node.blocks = B2
        /\ g.node.direct = direct /\ g.node.indirect = indirect
    BY <2>3, <2>4
  <2>6. name = node.name /\ sz = node.size BY DEF name, sz
  <2> QED BY <2>2, <2>3, <2>5, <2>6
<1>28. /\ direct \in [0 .. NDirect - 1 -> Blocks \cup {NoBlock}]
       /\ newtable \in [Cells -> Nat \cup {NoBlock}]
  <2>1. \A n \in Nat : alloc_free_block(n + 1) \in Blocks \cup {NoBlock}
    BY AllocTypes DEF Consistent
  <2>2. ASSUME NEW k \in 0 .. NDirect - 1 PROVE direct[k] \in Blocks \cup {NoBlock}
    <3>1. node.direct[k] \in Blocks \cup {NoBlock} BY <1>2, NodeTypes
    <3>2. CASE k \in unfilled
      <4>1. k - B \in Nat /\ Rank(unfilled, k) = (k - B) + 1 BY <1>2, <1>5, <3>2 DEF B
      <4> QED BY <1>2, <2>1, <2>2, <3>1, <4>1 DEF direct
    <3> QED BY <1>2, <2>2, <3>1, <3>2 DEF direct
  <2>3. ASSUME NEW c \in Cells PROVE newtable[c] \in Nat \cup {NoBlock}
    <3>1. Blocks \in SUBSET Nat BY Constants
    <3>2. table[c] \in Nat \cup {NoBlock}
      <4>1. indirect \in Blocks => data[indirect][c] \in Nat \cup {NoBlock} BY <2>3 DEF TypeOK
      <4> QED BY <2>3, <4>1 DEF table
    <3>3. ASSUME c \in empty
          PROVE  alloc_free_block(d + x + Rank(empty, c)) \in Nat \cup {NoBlock}
      <4> DEFINE below == {j \in empty : j <= c}
      <4>1. below \in SUBSET (0 .. NIndirect - 1) BY DEF empty
      <4>2. IsFiniteSet(below)
        <5>1. IsFiniteSet(0 .. NIndirect - 1) BY <1>2, FS_Interval
        <5> HIDE DEF below
        <5> QED BY <4>1, <5>1, FS_Subset
      <4>3. c \in below BY <1>11, <3>3
      <4>4. below # {} BY <4>3
      <4>5. Rank(empty, c) \in Nat /\ Rank(empty, c) # 0
        <5>1. Rank(empty, c) = Cardinality(below) BY DEF Rank
        <5> HIDE DEF below
        <5> QED BY <4>2, <4>4, <5>1, FS_CardinalityType, FS_EmptySet
      <4>6. d + x + Rank(empty, c) - 1 \in Nat BY <1>6, <1>9, <4>5
      <4>7. (d + x + Rank(empty, c) - 1) + 1 = d + x + Rank(empty, c) BY <1>6, <1>9, <4>5
      <4>8. alloc_free_block(d + x + Rank(empty, c)) \in Blocks \cup {NoBlock}
        BY <2>1, <4>6, <4>7
      <4> QED BY <3>1, <4>8
    <3> QED BY <2>3, <3>2, <3>3 DEF newtable
  <2>4. direct = [k \in 0 .. NDirect - 1 |-> direct[k]] BY <1>2 DEF direct
  <2>5. newtable = [c \in Cells |-> newtable[c]] BY DEF newtable
  <2> HIDE DEF direct, newtable
  <2> QED BY <2>2, <2>3, <2>4, <2>5
<1>29. indirect # 0 => NewIndirect(i, size) \/ node.indirect # 0
  BY <1>10
<1>30. N \in Nat /\ B <= N /\ (B * BLOCK_SIZE < size => N = Ceil(size))
  BY <1>2, <1>4 DEF B
<1>31. GrownSize(i, size) BY <1>30 DEF GrownSize, B, N
<1>32. GrownNode(g, i, size)
  BY <1>10, <1>18, <1>21, <1>27, <1>28 DEF GrownNode, N
<1>33. GrownTable(g, i, size) BY <1>1, <1>19, <1>27, <1>28, <1>29 DEF GrownTable
<1>34. GrownCalls(g, i, size) BY <1>22, <1>23, <1>25, <1>26 DEF GrownCalls
<1> QED BY <1>31, <1>32, <1>33, <1>34

-----------------------------------------------------------------------------
(* sys_write() inside the image                                            *)

\* What holds of the image before a call.
Sound ==
    /\ TypeOK /\ mode # "wild"
    /\ Consistent /\ FreshBlocksZero /\ InodesNamed
    /\ \A i \in Files \cup {ROOT} : Filled(i)

\* The indirect block of any inode is the block of an inode in use.
LEMMA IndirectOwned ==
    ASSUME Sound, NEW i \in Inodes, inode[i].indirect # 0
    PROVE  i \in Files \cup {ROOT} /\ inode[i].indirect \in Blocks
BY DEF Sound, InodesNamed, Filled, Inodes, Zeroed

\* The calls of increase_size() have different numbers.
LEMMA CallsDiffer ==
    ASSUME TypeOK, NEW i \in Inodes, NEW size \in Nat
    PROVE  /\ \A k, l \in NewSlots(i, size) :
                 /\ k < l => SlotCall(i, k) < SlotCall(i, l)
                 /\ SlotCall(i, k) = SlotCall(i, l) => k = l
           /\ \A k \in NewSlots(i, size) :
                 NewIndirect(i, size) => SlotCall(i, k) # NodeCall(i)
           /\ \A k \in NewSlots(i, size) : SlotCall(i, k) \in Nat /\ SlotCall(i, k) > 0
           /\ NewIndirect(i, size) => NodeCall(i) \in Nat /\ NodeCall(i) > 0
<1>1. inode[i].blocks \in Nat BY NodeTypes
<1>2. \A k \in NewSlots(i, size) : k \in Nat /\ inode[i].blocks <= k
  BY Constants DEF NewSlots, Slots
<1>3. NDirect \in Nat BY Constants
<1>4. \A k, l \in NewSlots(i, size) : k < l => SlotCall(i, k) < SlotCall(i, l)
  BY <1>1, <1>2, <1>3 DEF SlotCall
<1>5. \A k \in NewSlots(i, size) : NewIndirect(i, size) => SlotCall(i, k) # NodeCall(i)
  BY <1>1, <1>2, <1>3 DEF SlotCall, NodeCall, NewIndirect
<1>6. \A k \in NewSlots(i, size) : SlotCall(i, k) \in Nat /\ SlotCall(i, k) > 0
  BY <1>1, <1>2, <1>3 DEF SlotCall
<1>7. NewIndirect(i, size) => NodeCall(i) \in Nat /\ NodeCall(i) > 0
  BY <1>1, <1>3 DEF NodeCall, NewIndirect
<1>8. ASSUME NEW k \in NewSlots(i, size), NEW l \in NewSlots(i, size),
             SlotCall(i, k) = SlotCall(i, l)
      PROVE  k = l
  <2>1. ~(k < l) /\ ~(l < k) BY <1>4, <1>6, <1>8
  <2> QED BY <1>2, <2>1
<1> QED BY <1>4, <1>5, <1>6, <1>7, <1>8

\* The copy loop meets blocks of the file, old ones or ones it has just taken,
\* and never an indirect block.  If it copies anything, no call has failed.
Aimed(g, i, off, count) ==
    /\ \A k \in Parts(off, count) :
          /\ k \in Slots(i) /\ k < NewBlocks(i, off + count) /\ k \in Nat
          /\ Target(g, k) \in Blocks
          /\ \/ /\ k \notin NewSlots(i, off + count)
                /\ Target(g, k) = Slot(i, k) /\ Slot(i, k) # 0
                /\ Target(g, k) \in freemap
             \/ /\ k \in NewSlots(i, off + count)
                /\ Target(g, k) = alloc_free_block(SlotCall(i, k))
                /\ Target(g, k) \notin freemap
          /\ \A j \in Inodes : Target(g, k) # inode[j].indirect
          /\ Target(g, k) # g.node.indirect
    /\ NewIndirect(i, off + count) =>
          g.node.indirect \in Free /\ NodeCall(i) \in 1 .. unused_blocks
    /\ g.node.indirect \in Blocks
    /\ count > 0 => \A k \in NewSlots(i, off + count) : SlotCall(i, k) \in 1 .. unused_blocks

LEMMA TargetsAre ==
    ASSUME Sound, NEW i \in Files \cup {ROOT}, NEW off \in Nat, NEW count \in Nat,
           NEW g, g = increase_size(i, off + count), ~Strays(g, Parts(off, count))
    PROVE  Aimed(g, i, off, count)
<1> DEFINE size == off + count
           old == inode[i].blocks
           new == NewBlocks(i, size)
<1>1. /\ TypeOK /\ mode # "wild" /\ Consistent /\ FreshBlocksZero /\ Filled(i)
      /\ i \in Inodes /\ size \in Nat /\ Accounted
  BY FilesAreBlocks DEF Sound, Consistent
<1>2. /\ new \in Nat /\ old <= new /\ old \in Nat
      /\ old * BLOCK_SIZE < size => new = Ceil(size)
      /\ g.node.indirect = IF NewIndirect(i, size)
                           THEN alloc_free_block(NodeCall(i)) ELSE inode[i].indirect
      /\ \A k \in 0 .. NDirect - 1 :
            g.node.direct[k] = IF k \in NewSlots(i, size)
                               THEN alloc_free_block(SlotCall(i, k)) ELSE inode[i].direct[k]
      /\ g.node.indirect # 0 =>
            \A k \in NDirect .. NDirect + NIndirect - 1 :
                  g.table[k - NDirect] = IF k \in NewSlots(i, size)
                                         THEN alloc_free_block(SlotCall(i, k)) ELSE Slot(i, k)
      /\ g.outside <=> NewIndirect(i, size) /\ alloc_free_block(NodeCall(i)) = NoBlock
  <2>1. old \in Nat BY <1>1, NodeTypes
  <2>2. g = increase_size(i, size) OBVIOUS
  <2> HIDE DEF size
  <2>3. GrownSize(i, size) /\ GrownNode(g, i, size) /\ GrownTable(g, i, size)
    BY <1>1, <2>2, Growth
  <2> QED BY <2>1, <2>3 DEF GrownSize, GrownNode, GrownTable
<1>3. Slots(i) = 0 .. NDirect + NIndirect - 1 /\ NDirect \in Nat /\ NIndirect \in Nat
      /\ Blocks \in SUBSET Nat /\ NoBlock \notin Blocks /\ 0 \in Blocks
  BY Constants DEF Slots
<1>4. /\ \A n \in Nat : alloc_free_block(n + 1) \in Blocks \cup {NoBlock}
      /\ \A n \in Nat : alloc_free_block(n + 1) \in Blocks =>
            n + 1 \in 1 .. unused_blocks /\ alloc_free_block(n + 1) \in Free
  BY <1>1, AllocTypes
<1>5. \A n \in Nat : n > 0 =>
         /\ alloc_free_block(n) \in Blocks \cup {NoBlock}
         /\ alloc_free_block(n) \in Blocks =>
               n \in 1 .. unused_blocks /\ alloc_free_block(n) \in Free
  <2>1. ASSUME NEW n \in Nat, n > 0 PROVE n - 1 \in Nat /\ (n - 1) + 1 = n BY <2>1
  <2> QED BY <1>4, <2>1
<1> HIDE DEF size, new, old
<1>6. /\ \A k \in Parts(off, count) : k \in Nat /\ k < Ceil(size) /\ count > 0
      /\ count > 0 => Ceil(size) - 1 \in Parts(off, count)
      /\ Ceil(size) \in Nat
      /\ \A m \in Nat : m * BLOCK_SIZE < size <=> m < Ceil(size)
  <2>1. /\ \A k \in Parts(off, count) : k \in Nat /\ k < Ceil(size) /\ count > 0
        /\ count > 0 => Ceil(size) - 1 \in Parts(off, count)
    BY PartsAre DEF size
  <2> QED BY <1>1, <2>1, CeilIs
<1>7. Ceil(size) <= new
  <2>1. ~(old * BLOCK_SIZE < size) => ~(old < Ceil(size)) BY <1>2, <1>6
  <2> QED BY <1>2, <1>6, <2>1
<1>8. ~g.outside /\ \A k \in Parts(off, count) : Target(g, k) \in Blocks
  BY DEF Strays
<1>9. NewIndirect(i, size) => g.node.indirect \in Free /\ NodeCall(i) \in 1 .. unused_blocks
  <2>1. NewIndirect(i, size) => NodeCall(i) \in Nat /\ NodeCall(i) > 0
    BY <1>1, CallsDiffer
  <2> QED BY <1>2, <1>5, <1>8, <2>1
<1>10. g.node.indirect \in Blocks
  BY <1>1, <1>2, <1>9 DEF Free, Filled
<1>11. \A k \in Slots(i) : k \in NewSlots(i, size) <=> old <= k /\ k < new
  BY DEF NewSlots, old, new
<1>12. ASSUME NEW k \in Parts(off, count)
       PROVE  /\ k \in Slots(i) /\ k < new /\ k \in Nat
              /\ Target(g, k) = IF k \in NewSlots(i, size)
                                THEN alloc_free_block(SlotCall(i, k)) ELSE Slot(i, k)
  <2>1. k \in Nat /\ k < new BY <1>2, <1>6, <1>7
  <2>2. k < NDirect + NIndirect /\ Target(g, k) = BlockOf(g.node, g.table, k)
    BY <1>3, <1>8 DEF Target
  <2>3. k \in Slots(i) BY <1>3, <2>1, <2>2
  <2>4. CASE k < NDirect
    <3>1. k \in 0 .. NDirect - 1 BY <1>3, <2>1, <2>4
    <3>2. Target(g, k) = g.node.direct[k] BY <2>2, <2>4 DEF BlockOf
    <3>3. Slot(i, k) = inode[i].direct[k] BY <1>3, <2>1, <2>4 DEF Slot, BlockOf
    <3> QED BY <1>2, <2>1, <2>3, <3>1, <3>2, <3>3
  <2>5. CASE NDirect <= k
    <3>1. k \in NDirect .. NDirect + NIndirect - 1 BY <1>3, <2>1, <2>2, <2>5
    <3>2. Target(g, k) = g.table[k - NDirect] BY <1>3, <2>1, <2>2, <2>5 DEF BlockOf
    <3>3. g.node.indirect # 0
      <4>1. CASE NewIndirect(i, size)
        <5>1. 0 \in freemap BY <1>1, ZeroTaken
        <5> QED BY <1>9, <4>1, <5>1 DEF Free
      <4>2. CASE ~NewIndirect(i, size)
        <5>1. NDirect < old BY <1>2, <1>3, <2>1, <2>5, <4>2 DEF NewIndirect, old, new
        <5>2. inode[i].indirect # 0 BY <1>1, <1>2, <1>3, <5>1 DEF Filled, old
        <5> QED BY <1>2, <4>2, <5>2
      <4> QED BY <4>1, <4>2
    <3> QED BY <1>2, <2>1, <2>3, <3>1, <3>2, <3>3
  <2> QED BY <1>3, <2>1, <2>3, <2>4, <2>5
<1>13. ASSUME NEW k \in Parts(off, count)
       PROVE  /\ Target(g, k) \in Blocks
              /\ \/ /\ k \notin NewSlots(i, size)
                    /\ Target(g, k) = Slot(i, k) /\ Slot(i, k) # 0
                    /\ Target(g, k) \in freemap
                 \/ /\ k \in NewSlots(i, size)
                    /\ Target(g, k) = alloc_free_block(SlotCall(i, k))
                    /\ Target(g, k) \notin freemap
              /\ \A j \in Inodes : Target(g, k) # inode[j].indirect
              /\ Target(g, k) # g.node.indirect
  <2>1. Target(g, k) \in Blocks BY <1>8
  <2>2. /\ k \in Slots(i) /\ k < new /\ k \in Nat
        /\ Target(g, k) = IF k \in NewSlots(i, size)
                          THEN alloc_free_block(SlotCall(i, k)) ELSE Slot(i, k)
    BY <1>12
  <2>3. CASE k \notin NewSlots(i, size)
    <3>1. Target(g, k) = Slot(i, k) /\ k < old BY <1>2, <1>11, <2>2, <2>3 DEF old
    <3>2. Slot(i, k) # 0 BY <1>1, <1>2, <2>2, <3>1 DEF Filled, old
    <3>3. Slot(i, k) \notin {0, NoBlock} BY <1>3, <2>1, <3>1, <3>2
    <3>4. Slot(i, k) \in freemap /\ \A j \in Inodes : Slot(i, k) # inode[j].indirect
      BY <1>1, <2>2, <3>3, Apart
    <3>5. Target(g, k) # g.node.indirect BY <1>1, <1>2, <1>9, <3>1, <3>4 DEF Free
    <3> QED BY <2>1, <2>3, <3>1, <3>2, <3>4, <3>5
  <2>4. CASE k \in NewSlots(i, size)
    <3>1. Target(g, k) = alloc_free_block(SlotCall(i, k)) BY <2>2, <2>4
    <3>2. SlotCall(i, k) \in 1 .. unused_blocks /\ Target(g, k) \in Free
      BY <1>1, <1>5, <2>1, <2>4, <3>1, CallsDiffer
    <3>3. ASSUME NEW j \in Inodes PROVE Target(g, k) # inode[j].indirect
      <4>1. CASE inode[j].indirect = 0 BY <1>1, <3>2, <4>1, ZeroTaken DEF Free
      <4>2. CASE inode[j].indirect # 0
        <5>1. inode[j].indirect \in Blocks BY <4>2, IndirectOwned
        <5>2. inode[j].indirect \in freemap BY <1>1, <1>3, <4>2, <5>1, Apart
        <5> QED BY <3>2, <5>2 DEF Free
      <4> QED BY <4>1, <4>2
    <3>4. Target(g, k) # g.node.indirect
      <4>1. CASE NewIndirect(i, size)
        BY <1>1, <1>2, <1>9, <2>4, <3>1, <3>2, <4>1, AllocGives, CallsDiffer
      <4>2. CASE ~NewIndirect(i, size) BY <1>1, <1>2, <3>3, <4>2
      <4> QED BY <4>1, <4>2
    <3> QED BY <2>1, <2>4, <3>1, <3>2, <3>3, <3>4 DEF Free
  <2> QED BY <2>3, <2>4
<1>14. ASSUME count > 0, NEW k \in NewSlots(i, size)
       PROVE  SlotCall(i, k) \in 1 .. unused_blocks
  <2> DEFINE last == Ceil(size) - 1
  <2>1. k \in Slots(i) /\ k \in Nat /\ old <= k /\ k < new BY <1>3, <1>11, <1>14 DEF NewSlots
  <2>2. new = Ceil(size)
    <3>1. old < new BY <1>2, <2>1 DEF old
    <3>2. new # old => old * BLOCK_SIZE < size
      <4>1. old * BLOCK_SIZE \in Nat /\ size \in Nat BY <1>1, <1>2, Constants DEF old
      <4> QED BY <4>1 DEF NewBlocks, new, old
    <3> QED BY <1>2, <3>1, <3>2 DEF old
  <2>3. last \in Parts(off, count) BY <1>6, <1>14
  <2>4. last \in Slots(i) /\ last \in Nat /\ k <= last /\ last < new
    BY <1>6, <1>12, <2>1, <2>2, <2>3
  <2>5. last \in NewSlots(i, size) BY <1>2, <1>11, <2>1, <2>4 DEF old
  <2>6. SlotCall(i, last) \in 1 .. unused_blocks
    BY <1>1, <1>5, <1>13, <2>3, <2>5, CallsDiffer
  <2>7. SlotCall(i, k) <= SlotCall(i, last) /\ SlotCall(i, k) \in Nat /\ SlotCall(i, k) > 0
    BY <1>1, <1>14, <2>1, <2>4, <2>5, CallsDiffer
  <2>8. unused_blocks \in Nat BY <1>1, AllocGives, Constants
  <2> QED BY <2>6, <2>7, <2>8
<1> QED BY <1>9, <1>10, <1>12, <1>13, <1>14 DEF size, new, Aimed

\* What a write inside the image does: new entries of inode i get the blocks of
\* the calls, no other entry of any inode changes, and free blocks stay as they
\* are.
Written(g, i, size) ==
    /\ Allocated(g.calls) /\ GrownSize(i, size) /\ GrownCalls(g, i, size)
    /\ fat' = fat /\ mode' = mode
    /\ \A j \in Inodes \ {i} : inode'[j] = inode[j]
    /\ inode'[i].name = inode[i].name
    /\ inode'[i].size = NewSize(inode[i].size, size)
    /\ inode'[i].blocks = NewBlocks(i, size)
    /\ inode'[i].indirect = IF NewIndirect(i, size)
                            THEN alloc_free_block(NodeCall(i)) ELSE inode[i].indirect
    /\ inode'[i].indirect \in Blocks
    /\ NewIndirect(i, size) => inode'[i].indirect \in Free /\ NodeCall(i) \in 1 .. unused_blocks
    /\ \A k \in Slots(i) :
          Slot(i, k)' = IF k \in NewSlots(i, size)
                        THEN alloc_free_block(SlotCall(i, k)) ELSE Slot(i, k)
    /\ \A j \in (Files \cup {ROOT}) \ {i} : \A k \in Slots(j) : Slot(j, k)' = Slot(j, k)
    /\ i \in Files => \A k \in NewSlots(i, size) : SlotCall(i, k) \in 1 .. unused_blocks
    /\ \A b \in Blocks \ freemap' : data'[b] = data[b]
    /\ TypeOK'

LEMMA WriteEffect ==
    ASSUME Sound, NEW i \in Files \cup {ROOT}, NEW off \in Nat, NEW buf \in Bufs,
           i \in Files => off <= inode[i].blocks * BLOCK_SIZE,
           sys_write(i, off, buf), mode' # "wild"
    PROVE  Written(increase_size(i, off + Len(buf)), i, off + Len(buf))
<1> DEFINE count == Len(buf)
           size == off + count
           parts == Parts(off, count)
           g == increase_size(i, size)
<1>1. g = increase_size(i, off + count) OBVIOUS
<1>2. /\ TypeOK /\ mode # "wild" /\ Consistent /\ FreshBlocksZero /\ Filled(i)
      /\ i \in Inodes /\ Accounted
  BY FilesAreBlocks DEF Sound, Consistent
<1>3. buf \in Seq(Nat) /\ count \in Nat /\ size \in Nat
  <2>1. buf \in Seq(Nat) BY SimpleFSAssumption
  <2> QED BY <2>1
<1>4. /\ ~Strays(g, parts) /\ Allocated(g.calls) /\ fat' = fat /\ mode' = mode
      /\ data' = [b \in Blocks |-> [c \in Cells |->
             IF \E k \in parts : Target(g, k) = b
             THEN LET k == CHOOSE k \in parts : Target(g, k) = b
                      at == Chunk(off, count, k)
                  IN  IF c \in at.from .. at.from + at.len - 1
                      THEN buf[at.num + c - at.from + 1]
                      ELSE WithTable(g)[b][c]
             ELSE WithTable(g)[b][c]]]
      /\ inode' = [inode EXCEPT ![i] = [g.node EXCEPT !.size = NewSize(@, off + count)]]
  <2>1. CASE Strays(g, parts) BY <2>1 DEF sys_write, Copy
  <2>2. CASE ~Strays(g, parts) BY <2>2 DEF sys_write, Copy
  <2> QED BY <2>1, <2>2
<1> HIDE DEF size, count, parts, g
<1>5. /\ GrownSize(i, size) /\ GrownNode(g, i, size)
     /\ GrownTable(g, i, size) /\ GrownCalls(g, i, size)
  BY <1>2, <1>3, Growth DEF g
<1>51. Aimed(g, i, off, count)
  <2>1. g = increase_size(i, off + count) BY <1>1
  <2>2. ~Strays(g, Parts(off, count)) BY <1>4 DEF parts
  <2> HIDE DEF g
  <2> QED BY <1>3, <2>1, <2>2, TargetsAre
<1>6. /\ \A k \in parts : Target(g, k) \in Blocks /\ Target(g, k) # g.node.indirect
      /\ \A k \in parts : \A j \in Inodes : Target(g, k) # inode[j].indirect
      /\ NewIndirect(i, size) => g.node.indirect \in Free /\ NodeCall(i) \in 1 .. unused_blocks
      /\ g.node.indirect \in Blocks
  BY <1>51 DEF Aimed, parts, size
<1>7. \A k \in parts :
         \/ Target(g, k) \in freemap
         \/ \E l \in NewSlots(i, size) :
               /\ SlotCall(i, l) \in 1 .. unused_blocks
               /\ Target(g, k) = alloc_free_block(SlotCall(i, l))
  <2>2. \A k \in parts : \/ Target(g, k) \in freemap
                         \/ /\ k \in NewSlots(i, size)
                            /\ Target(g, k) = alloc_free_block(SlotCall(i, k))
    BY <1>51 DEF Aimed, parts, size
  <2>3. count > 0 => \A k \in NewSlots(i, size) : SlotCall(i, k) \in 1 .. unused_blocks
    BY <1>51 DEF Aimed, parts, size
  <2>4. parts # {} => count > 0 BY <1>3 DEF Parts, parts
  <2> QED BY <2>2, <2>3, <2>4
<1>8. WithTable(g) \in [Blocks -> [Cells -> Nat \cup {NoBlock}]]
  <2>1. data \in [Blocks -> [Cells -> Nat \cup {NoBlock}]] BY <1>2 DEF TypeOK
  <2>2. g.table \in [Cells -> Nat \cup {NoBlock}] BY <1>5 DEF GrownTable
  <2> QED BY <2>1, <2>2 DEF WithTable
<1>9. \A b \in Blocks :
         (\A k \in parts : Target(g, k) # b) => data'[b] = WithTable(g)[b]
  <2>1. ASSUME NEW b \in Blocks, \A k \in parts : Target(g, k) # b
        PROVE  data'[b] = WithTable(g)[b]
    <3>1. data'[b] = [c \in Cells |-> WithTable(g)[b][c]] BY <1>4, <2>1
    <3>2. WithTable(g)[b] \in [Cells -> Nat \cup {NoBlock}] BY <1>8
    <3> QED BY <3>1, <3>2
  <2> QED BY <2>1
<1>10. data' \in [Blocks -> [Cells -> Nat \cup {NoBlock}]]
  <2>1. ASSUME NEW b \in Blocks, NEW c \in Cells PROVE data'[b][c] \in Nat \cup {NoBlock}
    <3>1. WithTable(g)[b][c] \in Nat \cup {NoBlock} BY <1>8
    <3>2. CASE \E k \in parts : Target(g, k) = b
      <4> DEFINE k == CHOOSE k \in parts : Target(g, k) = b
                 at == Chunk(off, count, k)
      <4>1. k \in parts BY <3>2
      <4>2. data'[b][c] = IF c \in at.from .. at.from + at.len - 1
                          THEN buf[at.num + c - at.from + 1] ELSE WithTable(g)[b][c]
        BY <1>4, <3>2
      <4> HIDE DEF k
      <4>3. /\ at.from \in Nat /\ at.num \in Nat /\ at.len \in Nat /\ at.num + at.len <= count
        BY <1>3, <4>1, PartsAre DEF parts
      <4> HIDE DEF at
      <4>4. ASSUME c \in at.from .. at.from + at.len - 1
            PROVE  buf[at.num + c - at.from + 1] \in Nat
        <5>1. c \in Int /\ at.from <= c /\ c <= at.from + at.len - 1 BY <4>3, <4>4
        <5>2. at.num + c - at.from + 1 \in 1 .. count
          <6>1. count \in Nat BY <1>3
          <6> QED BY ONLY <6>1, <4>3, <5>1, InChunk
        <5>3. at.num + c - at.from + 1 \in 1 .. Len(buf) BY <5>2 DEF count
        <5> QED BY <1>3, <5>3, ElementOfSeq
      <4> QED BY <3>1, <4>2, <4>4
    <3>3. CASE ~\E k \in parts : Target(g, k) = b BY <1>4, <3>1, <3>3
    <3> QED BY <3>2, <3>3
  <2>2. data' = [b \in Blocks |-> [c \in Cells |-> data'[b][c]]] BY <1>4
  <2> QED BY <2>1, <2>2
<1>11. /\ \A j \in Inodes \ {i} : inode'[j] = inode[j]
       /\ inode'[i] = [name |-> inode[i].name, size |-> NewSize(inode[i].size, size),
                       blocks |-> g.node.blocks, direct |-> g.node.direct,
                       indirect |-> g.node.indirect]
       /\ DOMAIN inode' = Inodes
  <2>1. DOMAIN inode = Inodes BY <1>2 DEF TypeOK
  <2>2. inode'[i] = [g.node EXCEPT !.size = NewSize(@, size)]
    BY <1>2, <1>4, <2>1 DEF size
  <2>3. \A j \in Inodes \ {i} : inode'[j] = inode[j] BY <1>4, <2>1
  <2>4. DOMAIN inode' = Inodes BY <1>4, <2>1
  <2>5. g.node = [name |-> inode[i].name, size |-> inode[i].size, blocks |-> g.node.blocks,
                  direct |-> g.node.direct, indirect |-> g.node.indirect]
    <3> DEFINE node == inode[i]
               name == node.name
               sz == node.size
               bl == node.blocks
               dir == node.direct
               ind == node.indirect
               bl2 == g.node.blocks
               dir2 == g.node.direct
               ind2 == g.node.indirect
    <3>1. node = [name |-> name, size |-> sz, blocks |-> bl, direct |-> dir, indirect |-> ind]
      BY <1>2, NodeTypes
    <3>2. g.node = [node EXCEPT !.blocks = bl2, !.direct = dir2, !.indirect = ind2]
      BY <1>5 DEF GrownNode
    <3> HIDE DEF node, name, sz, bl, dir, ind, bl2, dir2, ind2
    <3> DEFINE n1 == [node EXCEPT !.blocks = bl2]
               n2 == [n1 EXCEPT !.direct = dir2]
    <3>3. n1 = [name |-> name, size |-> sz, blocks |-> bl2, direct |-> dir, indirect |-> ind]
      BY <3>1
    <3>4. [node EXCEPT !.blocks = bl2, !.direct = dir2, !.indirect = ind2]
            = [n2 EXCEPT !.indirect = ind2]
      OBVIOUS
    <3> HIDE DEF n1
    <3>5. n2 = [name |-> name, size |-> sz, blocks |-> bl2, direct |-> dir2, indirect |-> ind]
      BY <3>3
    <3> HIDE DEF n2
    <3>6. [n2 EXCEPT !.indirect = ind2]
            = [name |-> name, size |-> sz, blocks |-> bl2, direct |-> dir2, indirect |-> ind2]
      BY <3>5
    <3>7. g.node = [name |-> name, size |-> sz, blocks |-> bl2, direct |-> dir2, indirect |-> ind2]
      BY <3>2, <3>4, <3>6
    <3> QED BY <3>7, Zenon DEF node, name, sz, bl2, dir2, ind2
  <2>6. g.node.size = inode[i].size BY <1>5 DEF GrownNode
  <2> DEFINE bl2 == g.node.blocks
             dir2 == g.node.direct
             ind2 == g.node.indirect
             name == inode[i].name
             sz == inode[i].size
             nw == NewSize(inode[i].size, size)
             node == g.node
  <2>7. node = [name |-> name, size |-> sz, blocks |-> bl2, direct |-> dir2, indirect |-> ind2]
    BY <2>5
  <2>8. inode'[i] = [node EXCEPT !.size = nw] BY <2>2, <2>6
  <2> HIDE DEF bl2, dir2, ind2, name, sz, nw, node
  <2>9. [node EXCEPT !.size = nw]
          = [name |-> name, size |-> nw, blocks |-> bl2, direct |-> dir2, indirect |-> ind2]
    BY <2>7
  <2>10. inode'[i] = [name |-> name, size |-> nw, blocks |-> bl2,
                      direct |-> dir2, indirect |-> ind2]
    BY <2>8, <2>9
  <2> QED BY <2>3, <2>4, <2>10, Zenon DEF bl2, dir2, ind2, name, nw
<1>12. /\ inode'[i].name = inode[i].name
       /\ inode'[i].size = NewSize(inode[i].size, size)
       /\ inode'[i].blocks = NewBlocks(i, size)
       /\ inode'[i].direct = g.node.direct /\ inode'[i].indirect = g.node.indirect
       /\ inode'[i].indirect = IF NewIndirect(i, size)
                               THEN alloc_free_block(NodeCall(i)) ELSE inode[i].indirect
  BY <1>5, <1>11 DEF GrownNode
<1>13. freemap' \in SUBSET Blocks /\ unused_blocks' \in 0 .. BLOCK_NUM
       /\ \A b : b \in freemap' <=>
             \/ b \in freemap
             \/ \E m \in 1 .. g.calls : m <= unused_blocks /\ b = alloc_free_block(m)
  <2>1. g.calls \in Nat BY <1>5 DEF GrownCalls
  <2>2. /\ Accounted'
        /\ \A b : b \in freemap' <=>
             \/ b \in freemap
             \/ \E m \in 1 .. g.calls : m <= unused_blocks /\ b = alloc_free_block(m)
    BY <1>2, <1>4, <2>1, AllocatedCounts
  <2>3. unused_blocks' \in 0 .. BLOCK_NUM BY <2>2, AllocRange
  <2> QED BY <2>2, <2>3 DEF Accounted, Blocks
<1>14. TypeOK'
  <2>1. fat' \in [Fat -> Blocks] BY <1>2, <1>4 DEF TypeOK
  <2>2. mode' \in {"mkfs", "run", "wild"} BY <1>2, <1>4 DEF TypeOK
  <2>3. inode' \in [Inodes -> [name     : Names \cup {NoName},
                               size     : Nat,
                               blocks   : Nat,
                               direct   : [0 .. NDirect - 1 -> Blocks \cup {NoBlock}],
                               indirect : Blocks \cup {NoBlock}]]
    <3> DEFINE Node == [name     : Names \cup {NoName},
                        size     : Nat,
                        blocks   : Nat,
                        direct   : [0 .. NDirect - 1 -> Blocks \cup {NoBlock}],
                        indirect : Blocks \cup {NoBlock}]
    <3>1. inode'[i] \in Node
      <4>1. inode[i].name \in Names \cup {NoName} /\ inode[i].size \in Nat
        BY <1>2, NodeTypes
      <4>2. NewSize(inode[i].size, size) \in Nat BY <1>3, <4>1 DEF NewSize
      <4>3. g.node.blocks \in Nat BY <1>5 DEF GrownNode, GrownSize
      <4>4. g.node.direct \in [0 .. NDirect - 1 -> Blocks \cup {NoBlock}] BY <1>5 DEF GrownNode
      <4>5. g.node.indirect \in Blocks \cup {NoBlock} BY <1>6
      <4> QED BY <1>11, <4>1, <4>2, <4>3, <4>4, <4>5
    <3>2. \A j \in Inodes \ {i} : inode'[j] \in Node BY <1>2, <1>11 DEF TypeOK
    <3>3. inode' = [j \in Inodes |-> inode'[j]] BY <1>2, <1>4 DEF TypeOK
    <3> HIDE DEF Node
    <3>4. \A j \in Inodes : inode'[j] \in Node BY <3>1, <3>2
    <3>5. inode' \in [Inodes -> Node] BY <3>3, <3>4
    <3> QED BY <3>5 DEF Node
  <2> QED BY <1>10, <1>13, <2>1, <2>2, <2>3 DEF TypeOK, Inodes, Blocks, Cells, Fat
<1>15. \A j \in Inodes : inode'[j].indirect \in Blocks \ {0} =>
          data'[inode'[j].indirect] = IF j = i THEN g.table ELSE data[inode[j].indirect]
  <2>1. ASSUME NEW j \in Inodes, inode'[j].indirect \in Blocks \ {0}
        PROVE  data'[inode'[j].indirect] = IF j = i THEN g.table ELSE data[inode[j].indirect]
    <3>0. data \in [Blocks -> [Cells -> Nat \cup {NoBlock}]] BY <1>2 DEF TypeOK
    <3>1. CASE j = i
      <4>1. inode'[j].indirect = g.node.indirect BY <1>12, <3>1
      <4>2. data'[g.node.indirect] = WithTable(g)[g.node.indirect] BY <1>6, <1>9
      <4>3. WithTable(g)[g.node.indirect] = g.table BY <2>1, <3>0, <4>1 DEF WithTable
      <4> QED BY <3>1, <4>1, <4>2, <4>3
    <3>2. CASE j # i
      <4>1. inode'[j].indirect = inode[j].indirect BY <1>11, <2>1, <3>2
      <4>2. data'[inode[j].indirect] = WithTable(g)[inode[j].indirect]
        BY <1>6, <1>9, <2>1, <4>1
      <4>3. inode[j].indirect # g.node.indirect
        <5>1. inode[j].indirect \in freemap
          <6>1. inode[j].indirect \notin {0, NoBlock} BY <2>1, <4>1, Constants
          <6> QED BY <1>2, <2>1, <6>1, Apart
        <5>2. CASE NewIndirect(i, size) BY <1>6, <5>1, <5>2 DEF Free
        <5>3. CASE ~NewIndirect(i, size)
          <6>1. g.node.indirect = inode[i].indirect BY <1>12, <5>3
          <6>2. inode[j].indirect \notin {0, NoBlock} BY <2>1, <4>1, Constants
          <6> QED BY <1>2, <2>1, <3>2, <6>1, <6>2, Apart
        <5> QED BY <5>2, <5>3
      <4>4. WithTable(g)[inode[j].indirect] = data[inode[j].indirect]
        BY <2>1, <3>0, <4>1, <4>3 DEF WithTable
      <4> QED BY <3>2, <4>1, <4>2, <4>4
    <3> QED BY <3>1, <3>2
  <2> QED BY <2>1
<1>16. ASSUME NEW k \in Slots(i)
       PROVE  Slot(i, k)' = IF k \in NewSlots(i, size)
                            THEN alloc_free_block(SlotCall(i, k)) ELSE Slot(i, k)
  <2>1. k \in Nat /\ k < NDirect + NIndirect /\ NDirect \in Nat /\ NIndirect \in Nat
    BY <1>16, Constants DEF Slots
  <2>2. CASE k < NDirect
    <3>1. Slot(i, k)' = inode'[i].direct[k] BY <2>1, <2>2 DEF Slot, BlockOf
    <3>2. Slot(i, k) = inode[i].direct[k] BY <2>1, <2>2 DEF Slot, BlockOf
    <3>3. k \in 0 .. NDirect - 1 BY <2>1, <2>2
    <3> QED BY <1>5, <1>12, <3>1, <3>2, <3>3 DEF GrownNode
  <2>3. CASE NDirect <= k /\ g.node.indirect # 0
    <3>1. inode'[i].indirect \in Blocks \ {0} BY <1>6, <1>12, <2>3
    <3>2. Slot(i, k)' = data'[inode'[i].indirect][k - NDirect]
      BY <2>1, <2>3, <3>1 DEF Slot, BlockOf, Table
    <3>3. Slot(i, k)' = g.table[k - NDirect] BY <1>2, <1>15, <3>1, <3>2
    <3>4. k \in NDirect .. NDirect + NIndirect - 1 BY <2>1, <2>3
    <3> QED BY <1>5, <2>3, <3>3, <3>4 DEF GrownTable
  <2>4. CASE NDirect <= k /\ g.node.indirect = 0
    <3>1. ~NewIndirect(i, size) BY <1>2, <1>6, <2>4, ZeroTaken
    <3>2. inode[i].indirect = 0 /\ inode'[i].indirect = 0 BY <1>12, <2>4, <3>1
    <3>3. Slot(i, k)' = 0 /\ Slot(i, k) = 0 BY <2>1, <2>4, <3>2 DEF Slot
    <3>4. inode[i].blocks <= NDirect BY <1>2, <3>2 DEF Filled
    <3>5. NewBlocks(i, size) <= NDirect
      BY <1>5, <2>1, <3>1, <3>4 DEF NewIndirect, GrownSize
    <3>6. k \notin NewSlots(i, size) BY <1>5, <2>1, <2>4, <3>5 DEF NewSlots, GrownSize
    <3> QED BY <3>3, <3>6
  <2> QED BY <2>1, <2>2, <2>3, <2>4
<1>17. ASSUME NEW j \in (Files \cup {ROOT}) \ {i}, NEW k \in Slots(j)
       PROVE  Slot(j, k)' = Slot(j, k)
  <2>1. j \in Inodes /\ inode'[j] = inode[j] BY <1>2, <1>11, FilesAreBlocks
  <2>2. k \in Nat /\ NDirect \in Nat BY <1>17, Constants DEF Slots
  <2>3. CASE k < NDirect
    <3>1. Slot(j, k)' = inode'[j].direct[k] BY <2>2, <2>3 DEF Slot, BlockOf
    <3>2. Slot(j, k) = inode[j].direct[k] BY <2>2, <2>3 DEF Slot, BlockOf
    <3> QED BY <2>1, <3>1, <3>2
  <2>4. CASE NDirect <= k /\ inode[j].indirect \in Blocks \ {0}
    <3>1. Slot(j, k)' = data'[inode'[j].indirect][k - NDirect]
      BY <2>1, <2>2, <2>4 DEF Slot, BlockOf, Table
    <3>2. Slot(j, k) = data[inode[j].indirect][k - NDirect]
      BY <2>2, <2>4 DEF Slot, BlockOf, Table
    <3> QED BY <1>15, <2>1, <2>4, <3>1, <3>2
  <2>5. CASE NDirect <= k /\ inode[j].indirect \notin Blocks \ {0}
    BY <2>1, <2>2, <2>5 DEF Slot
  <2> QED BY <2>2, <2>3, <2>4, <2>5
<1>18. ASSUME NEW b \in Blocks \ freemap' PROVE data'[b] = data[b]
  <2>1. b \notin freemap BY <1>13
  <2>2. \A m \in 1 .. g.calls : m <= unused_blocks => b # alloc_free_block(m) BY <1>13
  <2>3. \A k \in parts : Target(g, k) # b
    <3>1. ASSUME NEW l \in NewSlots(i, size), SlotCall(i, l) \in 1 .. unused_blocks
          PROVE  b # alloc_free_block(SlotCall(i, l))
      <4>1. SlotCall(i, l) \in 1 .. g.calls BY <1>5 DEF GrownCalls
      <4> QED BY <2>2, <3>1, <4>1
    <3> QED BY <1>7, <2>1, <3>1
  <2>4. g.node.indirect = b => b = 0
    <3>1. ASSUME NewIndirect(i, size), g.node.indirect = b PROVE FALSE
      <4>1. NodeCall(i) \in 1 .. g.calls BY <1>5, <3>1 DEF GrownCalls
      <4>2. b = alloc_free_block(NodeCall(i)) BY <1>12, <3>1
      <4> QED BY <1>6, <2>2, <3>1, <4>1, <4>2
    <3>2. ASSUME ~NewIndirect(i, size), g.node.indirect = b, b # 0 PROVE FALSE
      <4>1. inode[i].indirect = b BY <1>12, <3>2
      <4>2. b # NoBlock BY Constants
      <4> QED BY <1>2, <2>1, <3>2, <4>1, <4>2, Apart
    <3> QED BY <3>1, <3>2
  <2>5. WithTable(g)[b] = data[b]
    <3>1. data \in [Blocks -> [Cells -> Nat \cup {NoBlock}]] BY <1>2 DEF TypeOK
    <3> QED BY <2>4, <3>1 DEF WithTable
  <2> QED BY <1>9, <2>3, <2>5
<1>19. i \in Files => \A k \in NewSlots(i, size) : SlotCall(i, k) \in 1 .. unused_blocks
  <2>1. CASE count > 0 BY <1>51, <2>1 DEF Aimed, size
  <2>2. CASE count = 0
    <3>1. i \in Files => size <= inode[i].blocks * BLOCK_SIZE BY <2>2 DEF size
    <3>2. i \in Files => NewBlocks(i, size) = inode[i].blocks BY <3>1 DEF NewBlocks
    <3>3. inode[i].blocks \in Nat BY <1>2, NodeTypes
    <3>4. i \in Files => NewSlots(i, size) = {} BY <3>2, <3>3, Constants DEF NewSlots, Slots
    <3> QED BY <3>4
  <2> QED BY <1>3, <2>1, <2>2
<1> QED
  <2>1. Written(g, i, size)
    BY <1>4, <1>5, <1>6, <1>11, <1>12, <1>14, <1>16, <1>17, <1>18, <1>19 DEF Written
  <2> QED BY <2>1 DEF g, size, count

LEMMA WrittenKeeps ==
    ASSUME Sound, SizeCovered, DirectoryExact,
           NEW i \in Files \cup {ROOT}, NEW g, NEW size \in Nat, Written(g, i, size)
    PROVE  Sound' /\ SizeCovered' /\ DirectoryExact'
<1> DEFINE old == inode[i].blocks
           new == NewBlocks(i, size)
           place == [m \in 1 .. g.calls |->
                        IF NewIndirect(i, size) /\ m = NodeCall(i)
                        THEN [what |-> "indirect", of |-> i, block |-> alloc_free_block(m)]
                        ELSE [what |-> "slot",
                              of |-> <<i, CHOOSE k \in NewSlots(i, size) : m = SlotCall(i, k)>>,
                              block |-> alloc_free_block(m)]]
<1>1. /\ TypeOK /\ mode # "wild" /\ Consistent /\ FreshBlocksZero /\ InodesNamed
      /\ \A j \in Files \cup {ROOT} : Filled(j)
      /\ i \in Inodes /\ Accounted /\ old \in Nat
  BY FilesAreBlocks, NodeTypes DEF Sound, Consistent
<1>2. /\ new \in Nat /\ old <= new
      /\ old * BLOCK_SIZE < size => new = Ceil(size)
  BY DEF Written, GrownSize
<1>3. /\ \A j \in Inodes \ {i} : inode'[j] = inode[j]
      /\ inode'[i].name = inode[i].name
      /\ inode'[i].size = NewSize(inode[i].size, size)
      /\ inode'[i].blocks = new
      /\ inode'[i].indirect = IF NewIndirect(i, size)
                              THEN alloc_free_block(NodeCall(i)) ELSE inode[i].indirect
      /\ inode'[i].indirect \in Blocks
      /\ NewIndirect(i, size) => inode'[i].indirect \in Free
  BY DEF Written
<1>4. /\ \A k \in Slots(i) :
            Slot(i, k)' = IF k \in NewSlots(i, size)
                          THEN alloc_free_block(SlotCall(i, k)) ELSE Slot(i, k)
      /\ \A j \in (Files \cup {ROOT}) \ {i} : \A k \in Slots(j) : Slot(j, k)' = Slot(j, k)
  BY DEF Written
<1>5. /\ TypeOK' /\ mode' = mode /\ fat' = fat /\ Allocated(g.calls)
      /\ \A b \in Blocks \ freemap' : data'[b] = data[b]
  BY DEF Written
<1>6. GrownCalls(g, i, size) /\ g.calls \in Nat BY DEF Written, GrownCalls
<1>7. /\ \A k \in Slots(i) : k \in Nat /\ (k \in NewSlots(i, size) <=> old <= k /\ k < new)
      /\ \A k \in NewSlots(i, size) : k \in Slots(i)
  BY Constants DEF NewSlots, Slots
<1> HIDE DEF old, new
<1>8. Files' = Files BY <1>5 DEF Files
<1>9. \A k \in Slots(i) : Slot(i, k) \notin {0, NoBlock} => k \notin NewSlots(i, size)
  BY <1>1, <1>7 DEF Filled, old
<1>10. Consistent'
  <2>1. \A u \in Named : u \in Named'
    <3>1. ASSUME NEW u \in Named PROVE IsNamed(u)'
      <4>1. IsNamed(u) BY NamedIs
      <4>2. CASE \E b \in 0 .. 2 : u = SystemUse(b)
        BY <4>2 DEF IsNamed, SystemUse
      <4>3. CASE \E j \in Fat : u = FatUse(j) /\ fat[j] \notin {0, NoBlock}
        BY <1>5, <4>3 DEF IsNamed, FatUse
      <4>4. ASSUME NEW j \in Inodes, u = IndirectUse(j), inode[j].indirect \notin {0, NoBlock}
            PROVE  IsNamed(u)'
        <5>1. inode'[j].indirect = inode[j].indirect
          <6>1. CASE j = i
            <7>1. ~NewIndirect(i, size) BY <1>1, <4>4, <6>1 DEF Filled, NewIndirect
            <7> QED BY <1>3, <6>1, <7>1
          <6>2. CASE j # i BY <1>3, <6>2
          <6> QED BY <6>1, <6>2
        <5> QED BY <4>4, <5>1 DEF IsNamed, IndirectUse
      <4>5. ASSUME NEW j \in Files \cup {ROOT}, NEW k \in Slots(j),
                   u = SlotUse(j, k), Slot(j, k) \notin {0, NoBlock}
            PROVE  IsNamed(u)'
        <5>1. Slot(j, k)' = Slot(j, k) BY <1>4, <1>9, <4>5
        <5>2. u = [what |-> "slot", of |-> <<j, k>>, block |-> Slot(j, k)']
          BY <4>5, <5>1 DEF SlotUse
        <5>3. Slot(j, k)' \notin {0, NoBlock} BY <4>5, <5>1
        <5>4. j \in Files' \cup {ROOT} BY <1>8
        <5>5. \E jj \in Files' \cup {ROOT} : \E kk \in Slots(jj) :
                 u = [what |-> "slot", of |-> <<jj, kk>>, block |-> Slot(jj, kk)']
                 /\ Slot(jj, kk)' \notin {0, NoBlock}
          BY <4>5, <5>2, <5>3, <5>4
        <5> QED BY <5>5 DEF IsNamed, SlotUse, Slots
      <4> QED BY <4>1, <4>2, <4>3, <4>4, <4>5 DEF IsNamed
    <3> QED BY <3>1, NamedIs
  <2>2. \A m \in 1 .. g.calls : place[m].block = alloc_free_block(m) OBVIOUS
  <2>3. ASSUME NewIndirect(i, size)
        PROVE  /\ NodeCall(i) \in 1 .. g.calls
               /\ place[NodeCall(i)] = [what |-> "indirect", of |-> i,
                                        block |-> inode'[i].indirect]
    <3>1. NodeCall(i) \in 1 .. g.calls BY <1>6, <2>3 DEF GrownCalls
    <3> QED BY <1>3, <2>3, <3>1
  <2>4. ASSUME NEW k \in NewSlots(i, size)
        PROVE  /\ SlotCall(i, k) \in 1 .. g.calls
               /\ place[SlotCall(i, k)] = [what |-> "slot", of |-> <<i, k>>, block |-> Slot(i, k)']
    <3>1. SlotCall(i, k) \in 1 .. g.calls BY <1>6 DEF GrownCalls
    <3>2. ~(NewIndirect(i, size) /\ SlotCall(i, k) = NodeCall(i)) BY <1>1, CallsDiffer
    <3>3. (CHOOSE l \in NewSlots(i, size) : SlotCall(i, k) = SlotCall(i, l)) = k
      BY <1>1, CallsDiffer
    <3>4. Slot(i, k)' = alloc_free_block(SlotCall(i, k)) BY <1>4, <1>7
    <3>5. place[SlotCall(i, k)] = [what |-> "slot",
              of |-> <<i, CHOOSE l \in NewSlots(i, size) : SlotCall(i, k) = SlotCall(i, l)>>,
              block |-> alloc_free_block(SlotCall(i, k))]
      BY <3>1, <3>2
    <3> QED BY <3>1, <3>3, <3>4, <3>5
  <2> HIDE DEF place
  <2>5. \A u \in Named' :
           u \in Named \/ \E m \in 1 .. g.calls : u = place[m] /\ u.block = alloc_free_block(m)
    <3>1. ASSUME NEW u, IsNamed(u)', u \notin Named
          PROVE  \E m \in 1 .. g.calls : u = place[m] /\ u.block = alloc_free_block(m)
      <4>0. ~IsNamed(u) BY <3>1, NamedIs
      <4>1. CASE \E b \in 0 .. 2 : u = SystemUse(b)
        BY <4>0, <4>1 DEF IsNamed
      <4>2. CASE \E j \in Fat : u = FatUse(j)' /\ fat'[j] \notin {0, NoBlock}
        BY <1>5, <4>0, <4>2 DEF IsNamed, FatUse
      <4>3. ASSUME NEW j \in Inodes, u = IndirectUse(j)', inode'[j].indirect \notin {0, NoBlock}
            PROVE  \E m \in 1 .. g.calls : u = place[m] /\ u.block = alloc_free_block(m)
        <5>1. inode'[j].indirect # inode[j].indirect
          BY <4>0, <4>3 DEF IsNamed, IndirectUse
        <5>2. j = i /\ NewIndirect(i, size) BY <1>3, <5>1
        <5>3. u = place[NodeCall(i)] BY <2>3, <4>3, <5>2 DEF IndirectUse
        <5> QED BY <2>2, <2>3, <5>2, <5>3
      <4>4. ASSUME NEW j \in Files' \cup {ROOT}, NEW k \in Slots(j),
                   u = SlotUse(j, k)', Slot(j, k)' \notin {0, NoBlock}
            PROVE  \E m \in 1 .. g.calls : u = place[m] /\ u.block = alloc_free_block(m)
        <5>0. j \in Files \cup {ROOT} BY <1>8
        <5>1. Slot(j, k)' # Slot(j, k)
          <6>1. ASSUME Slot(j, k)' = Slot(j, k) PROVE FALSE
            <7>1. u = SlotUse(j, k) BY <4>4, <6>1 DEF SlotUse
            <7>2. Slot(j, k) \notin {0, NoBlock} BY <4>4, <6>1
            <7> QED BY <4>0, <5>0, <7>1, <7>2 DEF IsNamed
          <6> QED BY <6>1
        <5>2. j = i /\ k \in NewSlots(i, size) BY <1>4, <5>0, <5>1
        <5>3. u = place[SlotCall(i, k)] BY <2>4, <4>4, <5>2 DEF SlotUse
        <5> QED BY <2>2, <2>4, <5>2, <5>3
      <4>5. \/ \E b \in 0 .. 2 : u = SystemUse(b)
            \/ \E j \in Fat : u = FatUse(j)' /\ fat'[j] \notin {0, NoBlock}
            \/ \E j \in Inodes : u = IndirectUse(j)' /\ inode'[j].indirect \notin {0, NoBlock}
            \/ \E j \in Files' \cup {ROOT} : \E k \in Slots(j) :
                  u = SlotUse(j, k)' /\ Slot(j, k)' \notin {0, NoBlock}
        BY <3>1 DEF IsNamed, SystemUse, FatUse, IndirectUse, SlotUse, Slots
      <4> QED BY <4>1, <4>2, <4>3, <4>4, <4>5
    <3> QED BY <3>1, NamedIs
  <2>6. \A m \in 1 .. g.calls :
           m <= unused_blocks => place[m] \in Named' /\ place[m].block = alloc_free_block(m)
    <3>1. ASSUME NEW m \in 1 .. g.calls, m <= unused_blocks, NEW u, u = place[m]
          PROVE  IsNamed(u)'
      <4>0. alloc_free_block(m) \notin {0, NoBlock}
        <5>1. m \in 1 .. unused_blocks BY <1>1, <1>6, <3>1, AllocGives
        <5>2. alloc_free_block(m) \in Free BY <1>1, <5>1, AllocGives
        <5> QED BY <1>1, <5>2, ZeroTaken, Constants DEF Free
      <4>1. CASE NewIndirect(i, size) /\ m = NodeCall(i)
        <5>1. u = [what |-> "indirect", of |-> i, block |-> inode'[i].indirect]
          BY <2>3, <3>1, <4>1
        <5>2. inode'[i].indirect \notin {0, NoBlock} BY <1>3, <4>0, <4>1
        <5> QED BY <1>1, <5>1, <5>2 DEF IsNamed, IndirectUse
      <4>2. ASSUME NEW k \in NewSlots(i, size), m = SlotCall(i, k) PROVE IsNamed(u)'
        <5>1. u = [what |-> "slot", of |-> <<i, k>>, block |-> Slot(i, k)'] BY <2>4, <3>1, <4>2
        <5>2. Slot(i, k)' \notin {0, NoBlock} /\ k \in Slots(i) BY <1>4, <1>7, <4>0, <4>2
        <5>3. \E jj \in Files' \cup {ROOT} : \E kk \in Slots(jj) :
                 u = [what |-> "slot", of |-> <<jj, kk>>, block |-> Slot(jj, kk)']
                 /\ Slot(jj, kk)' \notin {0, NoBlock}
          BY <1>8, <5>1, <5>2
        <5> QED BY <5>3 DEF IsNamed, SlotUse, Slots
      <4> QED BY <1>6, <4>1, <4>2 DEF GrownCalls
    <3> QED BY <2>2, <3>1, NamedIs
  <2> QED BY <1>1, <1>5, <1>6, <2>1, <2>5, <2>6, PlacesTaken
<1>11. /\ freemap \in SUBSET freemap'
       /\ \A k \in Slots(i) : Slot(i, k)' = 0 <=> k >= new
  <2>1. freemap \in SUBSET freemap' BY <1>1, <1>5, <1>6, AllocatedCounts
  <2>2. ASSUME NEW k \in NewSlots(i, size) PROVE alloc_free_block(SlotCall(i, k)) # 0
    <3>1. SlotCall(i, k) \in Nat /\ SlotCall(i, k) > 0 BY <1>1, CallsDiffer
    <3>2. SlotCall(i, k) - 1 \in Nat /\ (SlotCall(i, k) - 1) + 1 = SlotCall(i, k) BY <3>1
    <3>3. alloc_free_block(SlotCall(i, k)) \in Blocks =>
             alloc_free_block(SlotCall(i, k)) \in Free
      BY <1>1, <3>2, AllocTypes
    <3> QED BY <1>1, <3>3, ZeroTaken, Constants
  <2>3. \A k \in Slots(i) : Slot(i, k) = 0 <=> k >= old BY <1>1 DEF Filled, old
  <2>4. ASSUME NEW k \in Slots(i) PROVE Slot(i, k)' = 0 <=> k >= new
    <3>1. CASE k \in NewSlots(i, size) BY <1>2, <1>4, <1>7, <2>2, <3>1 DEF old
    <3>2. CASE k \notin NewSlots(i, size) BY <1>1, <1>2, <1>4, <1>7, <2>3, <3>2 DEF old
    <3> QED BY <3>1, <3>2
  <2> QED BY <2>1, <2>4
<1>12. ASSUME NEW j \in Files \cup {ROOT} PROVE Filled(j)'
  <2>0. j \in Inodes BY <1>1, FilesAreBlocks
  <2>1. CASE j = i
    <3>1. inode'[i].indirect = 0 <=> inode'[i].blocks <= NDirect
      <4>1. inode[i].indirect = 0 <=> old <= NDirect BY <1>1 DEF Filled, old
      <4>2. NewIndirect(i, size) => inode'[i].indirect # 0
        BY <1>1, <1>3, ZeroTaken
      <4> QED BY <1>1, <1>2, <1>3, <4>1, <4>2, Constants DEF NewIndirect, old, new
    <3>2. \A k \in Slots(i) : Slot(i, k)' = 0 <=> k >= inode'[i].blocks BY <1>3, <1>11
    <3>3. \A k \in Slots(j) : Slot(j, k)' = 0 <=> k >= inode'[j].blocks BY <2>1, <3>2
    <3>4. inode'[j].indirect \in Blocks BY <1>3, <2>1
    <3>5. inode'[j].indirect = 0 <=> inode'[j].blocks <= NDirect BY <2>1, <3>1
    <3> QED BY <3>3, <3>4, <3>5 DEF Filled, Slots, Blocks
  <2>2. CASE j # i
    <3>1. Filled(j) /\ inode'[j] = inode[j] BY <1>1, <1>3, <2>0, <2>2
    <3>2. \A k \in Slots(j) : Slot(j, k)' = Slot(j, k) BY <1>4, <2>2
    <3> QED BY <3>1, <3>2 DEF Filled, Slots, Blocks
  <2> QED BY <2>1, <2>2
<1>13. SizeCovered'
  <2>1. ASSUME NEW j \in Files
        PROVE  /\ inode'[j].size <= inode'[j].blocks * BLOCK_SIZE
               /\ \A k \in Slots(j) : IF k < inode'[j].blocks
                                      THEN Slot(j, k)' \in Blocks \ {0} ELSE Slot(j, k)' = 0
    <3>0. j \in Inodes /\ inode[j].size \in Nat /\ inode[j].blocks \in Nat
      BY <1>1, FilesAreBlocks, NodeTypes
    <3>1. /\ inode[j].size <= inode[j].blocks * BLOCK_SIZE
          /\ \A k \in Slots(j) : IF k < inode[j].blocks
                                 THEN Slot(j, k) \in Blocks \ {0} ELSE Slot(j, k) = 0
      BY <1>1, <2>1 DEF SizeCovered
    <3>2. CASE j = i
      <4>1. size <= new * BLOCK_SIZE
        <5>1. size <= Ceil(size) * BLOCK_SIZE BY CeilIs
        <5>2. CASE old * BLOCK_SIZE < size BY <1>2, <5>1, <5>2
        <5>3. CASE ~(old * BLOCK_SIZE < size)
          <6>1. old * BLOCK_SIZE \in Nat BY <1>1, Constants DEF old
          <6>2. old * BLOCK_SIZE >= size BY <5>3, <6>1
          <6> QED BY <6>2 DEF new, NewBlocks, old
        <5> QED BY <5>2, <5>3
      <4>2. old * BLOCK_SIZE <= new * BLOCK_SIZE
        <5>1. BLOCK_SIZE * old <= BLOCK_SIZE * new
          <6>1. old \in Nat /\ new \in Nat /\ old <= new BY <1>1, <1>2 DEF old
          <6> QED BY <6>1, MulMono
        <5>2. BLOCK_SIZE * old = old * BLOCK_SIZE /\ BLOCK_SIZE * new = new * BLOCK_SIZE
          BY <1>1, <1>2, Constants DEF old
        <5> QED BY <5>1, <5>2
      <4>3. inode[i].size <= old * BLOCK_SIZE BY <3>1, <3>2 DEF old
      <4>4. inode'[i].size <= new * BLOCK_SIZE
        <5> DEFINE a == old * BLOCK_SIZE
                   b == new * BLOCK_SIZE
        <5>1. a \in Nat /\ b \in Nat BY <1>1, <1>2, Constants DEF old
        <5>2. inode[i].size <= a /\ a <= b /\ size <= b BY <4>1, <4>2, <4>3
        <5>3. inode[i].size \in Nat BY <3>0, <3>2
        <5> HIDE DEF a, b
        <5>4. inode[i].size <= b BY <5>1, <5>2, <5>3
        <5>5. NewSize(inode[i].size, size) <= b BY <5>2, <5>4 DEF NewSize
        <5> QED BY <1>3, <5>5 DEF b
      <4>5. ASSUME NEW k \in Slots(i)
            PROVE  IF k < new THEN Slot(i, k)' \in Blocks \ {0} ELSE Slot(i, k)' = 0
        <5>1. k \in Nat /\ new \in Nat BY <1>2, <1>7
        <5>2. CASE k >= new BY <1>11, <5>1, <5>2
        <5>3. CASE k < new /\ k \in NewSlots(i, size)
          <6>1. SlotCall(i, k) \in 1 .. unused_blocks BY <2>1, <3>2, <5>3 DEF Written
          <6>2. alloc_free_block(SlotCall(i, k)) \in Free BY <1>1, <6>1, AllocGives
          <6>3. alloc_free_block(SlotCall(i, k)) \in Blocks \ {0}
            BY <1>1, <6>2, ZeroTaken DEF Free
          <6> QED BY <1>4, <5>3, <6>3
        <5>4. CASE k < new /\ k \notin NewSlots(i, size)
          <6>1. k < old BY <1>1, <1>7, <5>1, <5>4 DEF old
          <6>2. Slot(i, k) \in Blocks \ {0} BY <3>1, <3>2, <6>1 DEF old
          <6> QED BY <1>4, <5>4, <6>2
        <5> QED BY <5>1, <5>2, <5>3, <5>4
      <4> QED BY <1>3, <3>2, <4>4, <4>5
    <3>3. CASE j # i
      <4>1. inode'[j] = inode[j] /\ \A k \in Slots(j) : Slot(j, k)' = Slot(j, k)
        BY <1>3, <1>4, <3>0, <3>3
      <4> QED BY <3>1, <4>1
    <3> QED BY <3>2, <3>3
  <2> QED BY <1>8, <2>1 DEF SizeCovered, Slots, Blocks
<1>14. FreshBlocksZero'
  <2>1. ASSUME NEW b \in Blocks \ freemap'
        PROVE  data'[b] = [c \in Cells |-> 0] /\ inode'[b] = Zeroed
    <3>1. b \notin freemap BY <1>11
    <3>2. data[b] = [c \in Cells |-> 0] /\ inode[b] = Zeroed BY <1>1, <3>1 DEF FreshBlocksZero
    <3>3. b # i
      <4>1. b = i => \E j \in Fat : fat[j] = b /\ fat[j] # 0 BY <1>1, FilesAreBlocks, Constants
      <4>2. \A j \in Fat : fat[j] # 0 => fat[j] \in freemap
        <5>1. \A j \in Fat : fat[j] # NoBlock BY <1>1, Constants DEF TypeOK
        <5> QED BY <1>1, <5>1, Apart
      <4> QED BY <3>1, <4>1, <4>2
    <3>4. b \in Inodes BY DEF Inodes
    <3> QED BY <1>3, <1>5, <3>2, <3>3, <3>4
  <2> QED BY <2>1 DEF FreshBlocksZero, Blocks, Cells, Zeroed
<1>15. InodesNamed'
  <2>1. ASSUME NEW b \in Blocks \ Files PROVE inode'[b] = Zeroed
    <3>1. b # i /\ b \in Inodes BY <2>1, Constants DEF Inodes
    <3> QED BY <1>1, <1>3, <3>1 DEF InodesNamed
  <2> QED BY <1>8, <2>1 DEF InodesNamed, Blocks, Zeroed
<1>16. DirectoryExact'
  <2>1. \A j \in Inodes : inode'[j].name = inode[j].name BY <1>3
  <2>2. \A e \in Fat : fat[e] \in Inodes BY <1>1 DEF TypeOK, Inodes
  <2>3. \A e \in Fat : inode'[fat[e]].name = inode[fat[e]].name BY <2>1, <2>2
  <2> QED BY <1>5, <2>3 DEF DirectoryExact, Fat
<1> QED
  <2>1. \A j \in Files' \cup {ROOT} : Filled(j)' BY <1>8, <1>12
  <2>2. mode' # "wild" BY <1>1, <1>5
  <2> QED BY <1>5, <1>10, <1>13, <1>14, <1>15, <1>16, <2>1, <2>2 DEF Sound

-----------------------------------------------------------------------------
(* walk() and create(): a new file                                         *)

\* The calls of walk() for a file of n blocks have different numbers, and all
\* of them are for the inode block, the indirect block or a data block.
LEMMA DataCalls ==
    ASSUME NEW n \in Nat
    PROVE  /\ Calls(n) \in Nat /\ Calls(n) > 0 /\ IndirectCall \in Nat /\ IndirectCall > 1
           /\ \A k \in 0 .. n - 1 :
                 /\ DataCall(k + 1) \in 2 .. Calls(n)
                 /\ DataCall(k + 1) # IndirectCall
           /\ \A k, l \in 0 .. n - 1 : DataCall(k + 1) = DataCall(l + 1) => k = l
           /\ n > NDirect => IndirectCall \in 2 .. Calls(n)
           /\ \A m \in 1 .. Calls(n) : \/ m = 1
                                       \/ n > NDirect /\ m = IndirectCall
                                       \/ \E k \in 0 .. n - 1 : m = DataCall(k + 1)
<1>1. NDirect \in Nat /\ NDirect > 0 BY Constants
<1>2. Calls(n) \in Nat /\ Calls(n) > 0 /\ IndirectCall \in Nat /\ IndirectCall > 1
  BY <1>1 DEF Calls, IndirectCall
<1>3. \A k \in 0 .. n - 1 : DataCall(k + 1) \in 2 .. Calls(n) /\ DataCall(k + 1) # IndirectCall
  BY <1>1 DEF Calls, DataCall, IndirectCall
<1>4. \A k, l \in 0 .. n - 1 : DataCall(k + 1) = DataCall(l + 1) => k = l
  BY <1>1 DEF DataCall
<1>5. n > NDirect => IndirectCall \in 2 .. Calls(n)
  BY <1>1 DEF Calls, IndirectCall
<1>6. ASSUME NEW m \in 1 .. Calls(n), m # 1, ~(n > NDirect /\ m = IndirectCall)
      PROVE  \E k \in 0 .. n - 1 : m = DataCall(k + 1)
  <2> DEFINE k == IF m <= NDirect + 2 THEN m - 2 ELSE m - 3
  <2>1. k \in 0 .. n - 1 /\ k \in Nat BY <1>1, <1>6 DEF Calls, IndirectCall
  <2>2. m = DataCall(k + 1) BY <1>1, <1>6 DEF Calls, IndirectCall, DataCall
  <2> HIDE DEF k
  <2> QED BY <2>1, <2>2
<1> QED BY <1>2, <1>3, <1>4, <1>5, <1>6

\* If lookup() finds no file of that name, no entry of the FAT has one.
LEMMA NotFound ==
    ASSUME TypeOK, NEW name, ~Exists(name)
    PROVE  \A j \in Fat : fat[j] # 0 => inode[fat[j]].name # name
<1> DEFINE T == {j \in Fat : fat[j] # 0 /\ inode[fat[j]].name = name}
<1>1. Fat \in SUBSET Nat BY Constants DEF Fat
<1>2. SUFFICES ASSUME T # {} PROVE FALSE OBVIOUS
<1>3. T \in SUBSET Nat BY <1>1
<1> HIDE DEF T
<1>4. PICK i \in T : \A j \in T : i <= j BY <1>2, <1>3, LeastNat
<1> USE DEF T
<1>5. i \in Fat /\ fat[i] # 0 /\ inode[fat[i]].name = name BY <1>4
<1>6. ASSUME NEW j \in Fat, j < i, fat[j] # 0 PROVE inode[fat[j]].name # name
  <2>1. i \in Nat /\ j \in Nat BY <1>1, <1>5
  <2> QED BY <1>4, <1>6, <2>1
<1>7. fat[i] \in Blocks BY <1>5 DEF TypeOK
<1>8. Lookup(name, fat[i]) BY <1>5, <1>6 DEF Lookup
<1> QED BY <1>7, <1>8 DEF Exists

\* What a call that makes a file of n blocks does.
Added(b, n, size, name) ==
    /\ Allocated(Calls(n)) /\ Calls(n) <= unused_blocks
    /\ b = alloc_free_block(1) /\ b \in Free
    /\ n \in Nat /\ n <= NDirect + NIndirect
    /\ size \in Nat /\ size <= n * BLOCK_SIZE
    /\ name \in Names /\ ~Exists(name)
    /\ \E e \in Fat : FirstEmpty(e) /\ fat' = [fat EXCEPT ![e] = b]
    /\ \A j \in Inodes \ {b} : inode'[j] = inode[j]
    /\ inode'[b].name = name /\ inode'[b].size = size /\ inode'[b].blocks = n
    /\ inode'[b].indirect = IF n > NDirect THEN alloc_free_block(IndirectCall) ELSE 0
    /\ \A k \in Slots(b) :
          Slot(b, k)' = IF k < n THEN alloc_free_block(DataCall(k + 1)) ELSE 0
    /\ \A j \in Files \cup {ROOT} : \A k \in Slots(j) : Slot(j, k)' = Slot(j, k)
    /\ \A x \in Blocks \ freemap' : data'[x] = data[x]
    /\ TypeOK' /\ mode' = mode

LEMMA AddedKeeps ==
    ASSUME Sound, SizeCovered, DirectoryExact,
           NEW b, NEW n, NEW size, NEW name, Added(b, n, size, name)
    PROVE  Sound' /\ SizeCovered' /\ DirectoryExact'
<1> DEFINE calls == Calls(n)
           place == [m \in 1 .. calls |->
                        IF m = 1 THEN [what |-> "fat",
                                       of |-> CHOOSE e \in Fat : FirstEmpty(e),
                                       block |-> alloc_free_block(m)]
                        ELSE IF n > NDirect /\ m = IndirectCall
                        THEN [what |-> "indirect", of |-> b, block |-> alloc_free_block(m)]
                        ELSE [what |-> "slot",
                              of |-> <<b, CHOOSE k \in 0 .. n - 1 : m = DataCall(k + 1)>>,
                              block |-> alloc_free_block(m)]]
<1>1. /\ TypeOK /\ mode # "wild" /\ Consistent /\ FreshBlocksZero /\ InodesNamed
      /\ \A j \in Files \cup {ROOT} : Filled(j)
      /\ Accounted
  BY DEF Sound, Consistent
<1>2. /\ Allocated(calls) /\ calls <= unused_blocks /\ b = alloc_free_block(1) /\ b \in Free
      /\ n \in Nat /\ n <= NDirect + NIndirect
      /\ size \in Nat /\ size <= n * BLOCK_SIZE /\ name \in Names /\ ~Exists(name)
      /\ \A j \in Inodes \ {b} : inode'[j] = inode[j]
      /\ inode'[b].name = name /\ inode'[b].size = size /\ inode'[b].blocks = n
      /\ inode'[b].indirect = IF n > NDirect THEN alloc_free_block(IndirectCall) ELSE 0
      /\ TypeOK' /\ mode' = mode
      /\ \A x \in Blocks \ freemap' : data'[x] = data[x]
  BY DEF Added
<1>3. /\ \A k \in Slots(b) :
            Slot(b, k)' = IF k < n THEN alloc_free_block(DataCall(k + 1)) ELSE 0
      /\ \A j \in Files \cup {ROOT} : \A k \in Slots(j) : Slot(j, k)' = Slot(j, k)
  BY DEF Added
<1>4. PICK e \in Fat : FirstEmpty(e) /\ fat' = [fat EXCEPT ![e] = b] BY DEF Added
<1>5. /\ calls \in Nat /\ calls > 0 /\ unused_blocks \in Nat
      /\ \A m \in 1 .. calls : alloc_free_block(m) \in Free
      /\ \A l, m \in 1 .. calls : alloc_free_block(l) = alloc_free_block(m) => l = m
  <2>1. calls \in Nat /\ calls > 0 BY <1>2, DataCalls
  <2>2. /\ unused_blocks \in Nat
        /\ \A m \in 1 .. unused_blocks : alloc_free_block(m) \in Free
        /\ \A l, m \in 1 .. unused_blocks :
              alloc_free_block(l) = alloc_free_block(m) => l = m
    BY <1>1, AllocGives, Constants
  <2> HIDE DEF calls
  <2>3. \A m \in 1 .. calls : m \in 1 .. unused_blocks BY <1>2, <2>1, <2>2
  <2> QED BY <2>1, <2>2, <2>3
<1>6. \A m \in 1 .. calls : alloc_free_block(m) \in Blocks /\ alloc_free_block(m) \notin freemap
                            /\ alloc_free_block(m) \notin {0, NoBlock}
  BY <1>1, <1>5, ZeroTaken, Constants DEF Free
<1>7. b \in Blocks /\ b \notin freemap /\ b \notin {0, NoBlock} /\ b \in Inodes /\ b # ROOT
  BY <1>1, <1>2, ZeroTaken, Constants DEF Free, Inodes
<1>8. /\ \A j \in Fat : fat[j] \in Blocks /\ (fat[j] # 0 => fat[j] \in freemap /\ fat[j] # b)
      /\ b \notin Files
  <2>1. \A j \in Fat : fat[j] \in Blocks BY <1>1 DEF TypeOK
  <2>2. \A j \in Fat : fat[j] # 0 => fat[j] \in freemap BY <1>1, <2>1, Apart, Constants
  <2>3. b \notin Files BY <1>1, <1>7, <2>2, FilesAreBlocks
  <2> QED BY <1>7, <2>1, <2>2, <2>3
<1>9. /\ e \in Fat /\ fat[e] = 0 /\ \A j \in Fat : j < e => fat[j] # 0
      /\ fat'[e] = b /\ \A j \in Fat \ {e} : fat'[j] = fat[j]
  <2>1. DOMAIN fat = Fat BY <1>1 DEF TypeOK
  <2> QED BY <1>4, <2>1 DEF FirstEmpty
<1>10. Files' = Files \cup {b}
  <2>1. \A f : f \in Files' <=> \E j \in Fat : f = fat'[j] /\ fat'[j] # 0 BY DEF Files, Fat
  <2>2. \A f : f \in Files <=> \E j \in Fat : f = fat[j] /\ fat[j] # 0 BY <1>1, FilesAreBlocks
  <2> QED BY <1>7, <1>9, <2>1, <2>2
<1>11. (CHOOSE i \in Fat : FirstEmpty(i)) = e
  <2>1. ASSUME NEW i \in Fat, FirstEmpty(i) PROVE i = e
    <3>1. i \in Nat /\ e \in Nat BY <1>9, Constants DEF Fat
    <3>2. ~(i < e) /\ ~(e < i) BY <1>9, <2>1 DEF FirstEmpty
    <3> QED BY <3>1, <3>2
  <2> QED BY <1>4, <2>1
<1>12. inode[b] = Zeroed BY <1>1, <1>7, <1>8 DEF InodesNamed
<1>13. /\ Slots(b) = 0 .. NDirect + NIndirect - 1 /\ NDirect \in Nat /\ NIndirect \in Nat
       /\ \A k \in 0 .. n - 1 : k \in Slots(b) /\ k < n
       /\ \A k \in Slots(b) : k < n => k \in 0 .. n - 1
  BY <1>2, Constants DEF Slots
<1>14. /\ \A k \in 0 .. n - 1 : DataCall(k + 1) \in 2 .. calls /\ DataCall(k + 1) # IndirectCall
       /\ \A k, l \in 0 .. n - 1 : DataCall(k + 1) = DataCall(l + 1) => k = l
       /\ n > NDirect => IndirectCall \in 2 .. calls
       /\ \A m \in 1 .. calls : \/ m = 1
                                \/ n > NDirect /\ m = IndirectCall
                                \/ \E k \in 0 .. n - 1 : m = DataCall(k + 1)
  BY <1>2, DataCalls
<1> HIDE DEF calls
<1>15. 1 \in 1 .. calls /\ \A m \in 2 .. calls : m \in 1 .. calls /\ m # 1
  BY <1>5
<1>16. \A k \in Slots(b) :
          IF k < n THEN Slot(b, k)' \in Blocks \ {0} ELSE Slot(b, k)' = 0
  <2>1. \A k \in 0 .. n - 1 : alloc_free_block(DataCall(k + 1)) \in Blocks \ {0}
    BY <1>6, <1>14, <1>15
  <2>2. \A k \in Slots(b) : k < n => k \in 0 .. n - 1 BY <1>2, <1>13
  <2>3. ASSUME NEW k \in Slots(b)
        PROVE  IF k < n THEN Slot(b, k)' \in Blocks \ {0} ELSE Slot(b, k)' = 0
    <3>1. Slot(b, k)' = (IF k < n THEN alloc_free_block(DataCall(k + 1)) ELSE 0) BY <1>3
    <3>2. CASE k < n
      <4>1. k \in 0 .. n - 1 BY <2>2, <3>2
      <4>2. alloc_free_block(DataCall(k + 1)) \in Blocks \ {0} BY <2>1, <4>1
      <4> QED BY <3>1, <3>2, <4>2
    <3>3. CASE ~(k < n) BY <3>1, <3>3
    <3> QED BY <3>2, <3>3
  <2> QED BY <2>3
<1>17. Consistent'
  <2>1. \A u \in Named : u \in Named'
    <3>1. ASSUME NEW u \in Named PROVE IsNamed(u)'
      <4>1. IsNamed(u) BY NamedIs
      <4>2. CASE \E x \in 0 .. 2 : u = SystemUse(x)
        BY <4>2 DEF IsNamed, SystemUse
      <4>3. ASSUME NEW j \in Fat, u = FatUse(j), fat[j] \notin {0, NoBlock} PROVE IsNamed(u)'
        <5>1. fat'[j] = fat[j] BY <1>9, <4>3
        <5> QED BY <4>3, <5>1 DEF IsNamed, FatUse
      <4>4. ASSUME NEW j \in Inodes, u = IndirectUse(j), inode[j].indirect \notin {0, NoBlock}
            PROVE  IsNamed(u)'
        <5>1. j # b BY <1>12, <4>4 DEF Zeroed
        <5>2. inode'[j].indirect = inode[j].indirect BY <1>2, <5>1
        <5> QED BY <4>4, <5>2 DEF IsNamed, IndirectUse
      <4>5. ASSUME NEW j \in Files \cup {ROOT}, NEW k \in Slots(j),
                   u = SlotUse(j, k), Slot(j, k) \notin {0, NoBlock}
            PROVE  IsNamed(u)'
        <5>1. Slot(j, k)' = Slot(j, k) BY <1>3, <4>5
        <5>2. u = [what |-> "slot", of |-> <<j, k>>, block |-> Slot(j, k)']
          BY <4>5, <5>1 DEF SlotUse
        <5>3. Slot(j, k)' \notin {0, NoBlock} BY <4>5, <5>1
        <5>4. j \in Files' \cup {ROOT} BY <1>10
        <5>5. \E jj \in Files' \cup {ROOT} : \E kk \in Slots(jj) :
                 u = [what |-> "slot", of |-> <<jj, kk>>, block |-> Slot(jj, kk)']
                 /\ Slot(jj, kk)' \notin {0, NoBlock}
          BY <4>5, <5>2, <5>3, <5>4
        <5> QED BY <5>5 DEF IsNamed, SlotUse, Slots
      <4> QED BY <4>1, <4>2, <4>3, <4>4, <4>5 DEF IsNamed
    <3> QED BY <3>1, NamedIs
  <2>2. \A m \in 1 .. calls : place[m].block = alloc_free_block(m) OBVIOUS
  <2>3. place[1] = [what |-> "fat", of |-> e, block |-> fat'[e]]
    BY <1>2, <1>9, <1>11, <1>15
  <2>4. ASSUME n > NDirect
        PROVE  /\ IndirectCall \in 1 .. calls
               /\ place[IndirectCall] = [what |-> "indirect", of |-> b,
                                         block |-> inode'[b].indirect]
    <3>1. IndirectCall \in 1 .. calls /\ IndirectCall # 1 BY <1>14, <1>15, <2>4
    <3> QED BY <1>2, <2>4, <3>1
  <2>5. ASSUME NEW k \in 0 .. n - 1
        PROVE  /\ DataCall(k + 1) \in 1 .. calls
               /\ place[DataCall(k + 1)] = [what |-> "slot", of |-> <<b, k>>,
                                            block |-> Slot(b, k)']
    <3>1. DataCall(k + 1) \in 1 .. calls /\ DataCall(k + 1) # 1 /\ DataCall(k + 1) # IndirectCall
      BY <1>14, <1>15
    <3>2. (CHOOSE l \in 0 .. n - 1 : DataCall(k + 1) = DataCall(l + 1)) = k BY <1>14
    <3>3. Slot(b, k)' = alloc_free_block(DataCall(k + 1)) BY <1>3, <1>13
    <3>4. place[DataCall(k + 1)] = [what |-> "slot",
              of |-> <<b, CHOOSE l \in 0 .. n - 1 : DataCall(k + 1) = DataCall(l + 1)>>,
              block |-> alloc_free_block(DataCall(k + 1))]
      BY <3>1
    <3> QED BY <3>1, <3>2, <3>3, <3>4
  <2> HIDE DEF place
  <2>6. \A u \in Named' :
           u \in Named \/ \E m \in 1 .. calls : u = place[m] /\ u.block = alloc_free_block(m)
    <3>1. ASSUME NEW u, IsNamed(u)', u \notin Named
          PROVE  \E m \in 1 .. calls : u = place[m] /\ u.block = alloc_free_block(m)
      <4>0. ~IsNamed(u) BY <3>1, NamedIs
      <4>1. CASE \E x \in 0 .. 2 : u = SystemUse(x)
        BY <4>0, <4>1 DEF IsNamed
      <4>2. ASSUME NEW j \in Fat, u = FatUse(j)', fat'[j] \notin {0, NoBlock}
            PROVE  \E m \in 1 .. calls : u = place[m] /\ u.block = alloc_free_block(m)
        <5>1. CASE j = e
          <6>1. u = place[1] BY <2>3, <4>2, <5>1 DEF FatUse
          <6> QED BY <1>15, <2>2, <6>1
        <5>2. CASE j # e
          <6>1. fat'[j] = fat[j] BY <1>9, <5>2
          <6> QED BY <4>0, <4>2, <6>1 DEF IsNamed, FatUse
        <5> QED BY <5>1, <5>2
      <4>3. ASSUME NEW j \in Inodes, u = IndirectUse(j)', inode'[j].indirect \notin {0, NoBlock}
            PROVE  \E m \in 1 .. calls : u = place[m] /\ u.block = alloc_free_block(m)
        <5>1. CASE j = b
          <6>1. n > NDirect BY <1>2, <4>3, <5>1
          <6>2. u = place[IndirectCall] BY <2>4, <4>3, <5>1, <6>1 DEF IndirectUse
          <6> QED BY <2>2, <2>4, <6>1, <6>2
        <5>2. CASE j # b
          <6>1. inode'[j].indirect = inode[j].indirect BY <1>2, <5>2
          <6> QED BY <4>0, <4>3, <6>1 DEF IsNamed, IndirectUse
        <5> QED BY <5>1, <5>2
      <4>4. ASSUME NEW j \in Files' \cup {ROOT}, NEW k \in Slots(j),
                   u = SlotUse(j, k)', Slot(j, k)' \notin {0, NoBlock}
            PROVE  \E m \in 1 .. calls : u = place[m] /\ u.block = alloc_free_block(m)
        <5>1. CASE j = b
          <6>1. Slot(b, k)' = (IF k < n THEN alloc_free_block(DataCall(k + 1)) ELSE 0)
            BY <1>3, <4>4, <5>1
          <6>2. k < n BY <4>4, <5>1, <6>1
          <6>3. k \in 0 .. n - 1
            <7>1. k \in Slots(b) BY <4>4, <5>1
            <7>2. \A kk \in Slots(b) : kk < n => kk \in 0 .. n - 1 BY <1>2, <1>13
            <7> QED BY <6>2, <7>1, <7>2
          <6>4. u = place[DataCall(k + 1)] BY <2>5, <4>4, <5>1, <6>3 DEF SlotUse
          <6> QED BY <2>2, <2>5, <6>3, <6>4
        <5>2. CASE j # b
          <6>0. j \in Files \cup {ROOT} BY <1>10, <5>2
          <6>1. Slot(j, k)' = Slot(j, k) BY <1>3, <6>0
          <6>2. u = SlotUse(j, k) BY <4>4, <6>1 DEF SlotUse
          <6>3. Slot(j, k) \notin {0, NoBlock} BY <4>4, <6>1
          <6> QED BY <4>0, <6>0, <6>2, <6>3 DEF IsNamed
        <5> QED BY <5>1, <5>2
      <4>5. \/ \E x \in 0 .. 2 : u = SystemUse(x)
            \/ \E j \in Fat : u = FatUse(j)' /\ fat'[j] \notin {0, NoBlock}
            \/ \E j \in Inodes : u = IndirectUse(j)' /\ inode'[j].indirect \notin {0, NoBlock}
            \/ \E j \in Files' \cup {ROOT} : \E k \in Slots(j) :
                  u = SlotUse(j, k)' /\ Slot(j, k)' \notin {0, NoBlock}
        BY <3>1 DEF IsNamed, SystemUse, FatUse, IndirectUse, SlotUse, Slots
      <4> QED BY <4>1, <4>2, <4>3, <4>4, <4>5
    <3> QED BY <3>1, NamedIs
  <2>7. \A m \in 1 .. calls :
           m <= unused_blocks => place[m] \in Named' /\ place[m].block = alloc_free_block(m)
    <3>1. ASSUME NEW m \in 1 .. calls, NEW u, u = place[m] PROVE IsNamed(u)'
      <4>1. CASE m = 1
        <5>1. u = [what |-> "fat", of |-> e, block |-> fat'[e]] BY <2>3, <3>1, <4>1
        <5>2. fat'[e] \notin {0, NoBlock} BY <1>7, <1>9
        <5> QED BY <1>9, <5>1, <5>2 DEF IsNamed, FatUse
      <4>2. CASE n > NDirect /\ m = IndirectCall
        <5>1. u = [what |-> "indirect", of |-> b, block |-> inode'[b].indirect]
          BY <2>4, <3>1, <4>2
        <5>2. inode'[b].indirect \notin {0, NoBlock} BY <1>2, <1>6, <3>1, <4>2
        <5> QED BY <1>7, <5>1, <5>2 DEF IsNamed, IndirectUse
      <4>3. ASSUME NEW k \in 0 .. n - 1, m = DataCall(k + 1) PROVE IsNamed(u)'
        <5>1. u = [what |-> "slot", of |-> <<b, k>>, block |-> Slot(b, k)']
          BY <2>5, <3>1, <4>3
        <5>2. Slot(b, k)' \notin {0, NoBlock} /\ k \in Slots(b)
          BY <1>3, <1>6, <1>13, <3>1, <4>3
        <5>3. \E jj \in Files' \cup {ROOT} : \E kk \in Slots(jj) :
                 u = [what |-> "slot", of |-> <<jj, kk>>, block |-> Slot(jj, kk)']
                 /\ Slot(jj, kk)' \notin {0, NoBlock}
          BY <1>10, <5>1, <5>2
        <5> QED BY <5>3 DEF IsNamed, SlotUse, Slots
      <4> QED BY <1>14, <4>1, <4>2, <4>3
    <3> QED BY <2>2, <3>1, NamedIs
  <2> QED BY <1>1, <1>2, <1>5, <2>1, <2>6, <2>7, PlacesTaken
<1>18. freemap \in SUBSET freemap' /\ b \in freemap'
  <2>1. \A x : x \in freemap' <=>
           \/ x \in freemap
           \/ \E m \in 1 .. calls : m <= unused_blocks /\ x = alloc_free_block(m)
    BY <1>1, <1>2, <1>5, AllocatedCounts
  <2> QED BY <1>2, <1>5, <1>15, <2>1
<1>19. ASSUME NEW j \in Files' \cup {ROOT} PROVE Filled(j)'
  <2>1. CASE j = b
    <3>1. inode'[b].indirect \in Blocks /\ (inode'[b].indirect = 0 <=> n <= NDirect)
      BY <1>2, <1>6, <1>13, <1>14, <1>15, Constants
    <3>2. \A k \in Slots(b) : Slot(b, k)' = 0 <=> k >= n BY <1>2, <1>13, <1>16
    <3>3. \A k \in Slots(j) : Slot(j, k)' = 0 <=> k >= inode'[j].blocks
      BY <1>2, <2>1, <3>2
    <3>4. inode'[j].indirect \in Blocks BY <2>1, <3>1
    <3>5. inode'[j].indirect = 0 <=> inode'[j].blocks <= NDirect BY <1>2, <2>1, <3>1
    <3> QED BY <3>3, <3>4, <3>5 DEF Filled, Slots, Blocks
  <2>2. CASE j # b
    <3>0. j \in Files \cup {ROOT} BY <1>10, <2>2
    <3>1. Filled(j) /\ inode'[j] = inode[j] BY <1>1, <1>2, <2>2, <3>0, FilesAreBlocks
    <3>2. \A k \in Slots(j) : Slot(j, k)' = Slot(j, k) BY <1>3, <3>0
    <3> QED BY <3>1, <3>2 DEF Filled, Slots, Blocks
  <2> QED BY <2>1, <2>2
<1>20. SizeCovered'
  <2>1. ASSUME NEW j \in Files'
        PROVE  /\ inode'[j].size <= inode'[j].blocks * BLOCK_SIZE
               /\ \A k \in Slots(j) : IF k < inode'[j].blocks
                                      THEN Slot(j, k)' \in Blocks \ {0} ELSE Slot(j, k)' = 0
    <3>1. CASE j = b
      <4>1. ASSUME NEW k \in Slots(b)
            PROVE  IF k < n THEN Slot(b, k)' \in Blocks \ {0} ELSE Slot(b, k)' = 0
        BY <1>16
      <4> QED BY <1>2, <3>1, <4>1
    <3>2. CASE j # b
      <4>0. j \in Files /\ j \in Inodes BY <1>1, <1>10, <2>1, <3>2, FilesAreBlocks
      <4>1. inode'[j] = inode[j] /\ \A k \in Slots(j) : Slot(j, k)' = Slot(j, k)
        BY <1>2, <1>3, <3>2, <4>0
      <4> QED BY <1>1, <4>0, <4>1 DEF SizeCovered
    <3> QED BY <3>1, <3>2
  <2> QED BY <2>1 DEF SizeCovered, Slots, Blocks
<1>21. FreshBlocksZero'
  <2>1. ASSUME NEW x \in Blocks \ freemap'
        PROVE  data'[x] = [c \in Cells |-> 0] /\ inode'[x] = Zeroed
    <3>1. x \notin freemap /\ x # b /\ x \in Inodes BY <1>18 DEF Inodes
    <3>2. data[x] = [c \in Cells |-> 0] /\ inode[x] = Zeroed BY <1>1, <3>1 DEF FreshBlocksZero
    <3> QED BY <1>2, <3>1, <3>2
  <2> QED BY <2>1 DEF FreshBlocksZero, Blocks, Cells, Zeroed
<1>22. InodesNamed'
  <2>1. ASSUME NEW x \in Blocks \ Files' PROVE inode'[x] = Zeroed
    <3>1. x # b /\ x \in Inodes /\ x \notin Files BY <1>10 DEF Inodes
    <3> QED BY <1>1, <1>2, <3>1 DEF InodesNamed
  <2> QED BY <2>1 DEF InodesNamed, Blocks, Zeroed
<1>23. DirectoryExact'
  <2>0. \A j \in Fat : j \in Nat BY Constants DEF Fat
  <2>1. \A j \in Fat : fat[j] # 0 => inode'[fat[j]] = inode[fat[j]]
    BY <1>2, <1>8 DEF Inodes
  <2>2. \A j \in Fat : fat[j] # 0 => inode[fat[j]].name # name BY <1>1, <1>2, NotFound
  <2>3. ASSUME NEW i \in Fat, NEW j \in Fat, i < j, fat'[j] # 0 PROVE fat'[i] # 0
    <3>1. CASE i = e BY <1>7, <1>9, <3>1
    <3>2. CASE i # e /\ j = e BY <1>9, <2>3, <3>2
    <3>3. CASE i # e /\ j # e BY <1>9, <2>3, <3>3 DEF DirectoryExact
    <3> QED BY <3>1, <3>2, <3>3
  <2>4. ASSUME NEW i \in Fat, fat'[i] # 0 PROVE inode'[fat'[i]].name \in Names
    <3>1. CASE i = e BY <1>2, <1>9, <3>1
    <3>2. CASE i # e BY <1>9, <2>1, <2>4, <3>2 DEF DirectoryExact
    <3> QED BY <3>1, <3>2
  <2>5. ASSUME NEW i \in Fat, NEW j \in Fat, fat'[i] # 0, fat'[j] # 0,
               inode'[fat'[i]].name = inode'[fat'[j]].name
        PROVE  i = j
    <3>1. CASE i = e /\ j # e BY <1>2, <1>9, <2>1, <2>2, <2>5, <3>1
    <3>2. CASE i # e /\ j = e BY <1>2, <1>9, <2>1, <2>2, <2>5, <3>2
    <3>3. CASE i # e /\ j # e BY <1>9, <2>1, <2>5, <3>3 DEF DirectoryExact
    <3> QED BY <3>1, <3>2, <3>3
  <2> QED BY <2>3, <2>4, <2>5 DEF DirectoryExact, Fat
<1> QED
  <2>1. \A j \in Files' \cup {ROOT} : Filled(j)' BY <1>19
  <2>2. mode' # "wild" BY <1>1, <1>2
  <2> QED BY <1>2, <1>17, <1>20, <1>21, <1>22, <1>23, <2>1, <2>2 DEF Sound

LEMMA WalkAdds ==
    ASSUME Sound, NEW name \in Names, NEW content \in RootFs, walk(name, content)
    PROVE  \E b : Added(b, Ceil(Len(content)), Len(content), name)
<1> DEFINE n == Ceil(Len(content))
           first == alloc_free_block(1)
           part(k) == [c \in Cells |->
                          LET x == k * BLOCK_SIZE + c + 1
                          IN  IF x <= Len(content) THEN content[x] ELSE 0]
           ind == IF n > NDirect THEN alloc_free_block(IndirectCall) ELSE 0
           hit(x) == \E k \in 1 .. n : x = alloc_free_block(DataCall(k))
           table == [c \in Cells |-> IF c < n - NDirect
                                     THEN alloc_free_block(DataCall(NDirect + c + 1))
                                     ELSE 0]
           node == [name     |-> name,
                    size     |-> Len(content),
                    blocks   |-> n,
                    direct   |-> [k \in 0 .. NDirect - 1 |->
                                     IF k < n THEN alloc_free_block(DataCall(k + 1)) ELSE 0],
                    indirect |-> ind]
<1>1. /\ TypeOK /\ mode # "wild" /\ Consistent /\ Accounted
      /\ NDirect \in Nat /\ NIndirect \in Nat /\ NIndirect <= BLOCK_SIZE /\ BLOCK_SIZE \in Nat
      /\ NoBlock \notin Blocks /\ Blocks \in SUBSET Nat /\ 0 \in Blocks
  BY Constants DEF Sound, Consistent
<1>2. content \in Seq(Nat) /\ Len(content) \in Nat
  <2>1. content \in Seq(Nat) BY SimpleFSAssumption
  <2> QED BY <2>1
<1>3. n \in Nat /\ Len(content) <= n * BLOCK_SIZE BY <1>2, CeilIs
<1>4. /\ ~Exists(name) /\ n <= NDirect + NIndirect /\ alloc_free_block(Calls(n)) # NoBlock
      /\ \E e \in Fat : FirstEmpty(e) /\ fat' = [fat EXCEPT ![e] = first]
      /\ inode' = [inode EXCEPT ![first] = node]
      /\ Allocated(Calls(n)) /\ mode' = mode
  BY DEF walk
<1>5. data' = [x \in Blocks |->
         CASE hit(x) -> part((CHOOSE k \in 1 .. n : x = alloc_free_block(DataCall(k))) - 1)
           [] ind # 0 /\ x = ind -> table
           [] OTHER -> data[x]]
  BY DEF walk
<1> HIDE DEF n
<1>6. /\ Calls(n) \in Nat /\ Calls(n) > 0
      /\ \A k \in 1 .. n : DataCall(k) \in 1 .. Calls(n) /\ DataCall(k) # IndirectCall
      /\ n > NDirect => IndirectCall \in 1 .. Calls(n)
  <2>1. /\ Calls(n) \in Nat /\ Calls(n) > 0
        /\ \A k \in 0 .. n - 1 : DataCall(k + 1) \in 2 .. Calls(n) /\ DataCall(k + 1) # IndirectCall
        /\ n > NDirect => IndirectCall \in 2 .. Calls(n)
    BY <1>3, DataCalls
  <2>2. ASSUME NEW k \in 1 .. n PROVE DataCall(k) \in 1 .. Calls(n) /\ DataCall(k) # IndirectCall
    <3>1. k - 1 \in 0 .. n - 1 /\ (k - 1) + 1 = k BY <1>3
    <3>2. DataCall((k - 1) + 1) \in 2 .. Calls(n) /\ DataCall((k - 1) + 1) # IndirectCall
      BY <2>1, <3>1
    <3>3. DataCall(k) \in 2 .. Calls(n) /\ DataCall(k) # IndirectCall BY <3>1, <3>2
    <3> QED BY <2>1, <3>3
  <2> QED BY <2>1, <2>2
<1>7. /\ Calls(n) <= unused_blocks /\ unused_blocks \in Nat
      /\ \A m \in 1 .. Calls(n) : alloc_free_block(m) \in Free
      /\ \A l, m \in 1 .. Calls(n) : alloc_free_block(l) = alloc_free_block(m) => l = m
  <2>1. /\ unused_blocks \in Nat
        /\ \A m \in 1 .. unused_blocks : alloc_free_block(m) \in Free
        /\ \A m \in Nat : m > unused_blocks => alloc_free_block(m) = NoBlock
        /\ \A l, m \in 1 .. unused_blocks : alloc_free_block(l) = alloc_free_block(m) => l = m
    BY <1>1, AllocGives, Constants
  <2>2. Calls(n) <= unused_blocks BY <1>4, <1>6, <2>1
  <2>3. \A m \in 1 .. Calls(n) : m \in 1 .. unused_blocks BY <1>6, <2>1, <2>2
  <2> QED BY <2>1, <2>2, <2>3
<1>8. PICK b \in Free : b = first /\ b \in Inodes
  <2>1. 1 \in 1 .. Calls(n) BY <1>6
  <2> QED BY <1>7, <2>1 DEF Free, Inodes
<1>9. /\ inode'[b] = node /\ \A j \in Inodes \ {b} : inode'[j] = inode[j]
      /\ inode' = [j \in Inodes |-> inode'[j]]
  <2>1. DOMAIN inode = Inodes BY <1>1 DEF TypeOK
  <2> HIDE DEF node
  <2> QED BY <1>4, <1>8, <2>1
<1>10. /\ inode'[b].name = name /\ inode'[b].size = Len(content) /\ inode'[b].blocks = n
       /\ inode'[b].direct = [k \in 0 .. NDirect - 1 |->
                                 IF k < n THEN alloc_free_block(DataCall(k + 1)) ELSE 0]
       /\ inode'[b].indirect = ind
  BY <1>9
<1>11. n > NDirect => ind \in Free /\ ind \in Blocks /\ ind # 0
  BY <1>1, <1>6, <1>7, ZeroTaken DEF Free
<1>12. \A x \in Blocks : hit(x) => x \in Free /\ (n > NDirect => x # ind)
  <2>1. ASSUME NEW k \in 1 .. n
        PROVE  /\ alloc_free_block(DataCall(k)) \in Free
               /\ n > NDirect => alloc_free_block(DataCall(k)) # ind
    <3>1. DataCall(k) \in 1 .. Calls(n) /\ DataCall(k) # IndirectCall BY <1>6
    <3>2. ASSUME n > NDirect PROVE alloc_free_block(DataCall(k)) # ind
      <4>1. IndirectCall \in 1 .. Calls(n) BY <1>6, <3>2
      <4> QED BY <1>7, <3>1, <3>2, <4>1
    <3> QED BY <1>7, <3>1, <3>2
  <2> QED BY <2>1
<1>13. \A c \in Cells : c < n - NDirect => alloc_free_block(DataCall(NDirect + c + 1)) \in Free
  <2>1. ASSUME NEW c \in Cells, c < n - NDirect
        PROVE  alloc_free_block(DataCall(NDirect + c + 1)) \in Free
    <3>1. NDirect + c + 1 \in 1 .. n BY <1>1, <1>3, <2>1 DEF Cells
    <3> QED BY <1>6, <1>7, <3>1
  <2> QED BY <2>1
<1>14. /\ \A x \in Blocks : x \notin Free => data'[x] = data[x]
       /\ n > NDirect => data'[ind] = table
       /\ \A x \in Blocks : ~hit(x) /\ ~(n > NDirect /\ x = ind) => data'[x] = data[x]
  <2> HIDE DEF part, hit, table
  <2>1. ASSUME NEW x \in Blocks, ~hit(x), ~(n > NDirect /\ x = ind) PROVE data'[x] = data[x]
    <3>1. ~(ind # 0 /\ x = ind) BY <2>1
    <3> HIDE DEF ind
    <3> QED BY <1>5, <2>1, <3>1
  <2>2. ASSUME NEW x \in Blocks, x \notin Free PROVE data'[x] = data[x]
    <3>1. ~hit(x) BY <1>12, <2>2
    <3>2. ~(n > NDirect /\ x = ind) BY <1>11, <2>2
    <3> QED BY <2>1, <3>1, <3>2
  <2>3. ASSUME n > NDirect PROVE data'[ind] = table
    <3>1. ind \in Blocks /\ ind # 0 /\ ~hit(ind) BY <1>11, <1>12, <2>3
    <3> HIDE DEF ind
    <3> QED BY <1>5, <3>1
  <2> QED BY <2>1, <2>2, <2>3
<1>15. data' \in [Blocks -> [Cells -> Nat \cup {NoBlock}]]
  <2>1. ASSUME NEW k \in Nat PROVE part(k) \in [Cells -> Nat \cup {NoBlock}]
    <3>1. ASSUME NEW c \in Cells PROVE part(k)[c] \in Nat
      <4> DEFINE x == k * BLOCK_SIZE + c + 1
      <4>1. part(k)[c] = IF x <= Len(content) THEN content[x] ELSE 0 BY <3>1
      <4>2. x \in Nat /\ x > 0
        <5>1. k * BLOCK_SIZE \in Nat /\ c \in Nat BY <1>1, <3>1 DEF Cells
        <5> QED BY <5>1
      <4> HIDE DEF x, part
      <4>3. x <= Len(content) => content[x] \in Nat BY <1>2, <4>2, ElementOfSeq
      <4> QED BY <4>1, <4>3
    <3>2. part(k) = [c \in Cells |-> part(k)[c]] OBVIOUS
    <3> HIDE DEF part
    <3> QED BY <3>1, <3>2
  <2>2. table \in [Cells -> Nat \cup {NoBlock}] BY <1>1, <1>13 DEF Free
  <2>3. data \in [Blocks -> [Cells -> Nat \cup {NoBlock}]] BY <1>1 DEF TypeOK
  <2> DEFINE at(x) == (CHOOSE k \in 1 .. n : x = alloc_free_block(DataCall(k))) - 1
  <2>4. \A x \in Blocks : hit(x) => at(x) \in Nat
    <3>1. ASSUME NEW x \in Blocks, hit(x) PROVE at(x) \in Nat
      <4>1. PICK k \in 1 .. n : k = CHOOSE l \in 1 .. n : x = alloc_free_block(DataCall(l))
        BY <3>1
      <4>2. k \in 1 .. n /\ k - 1 \in Nat BY <1>3
      <4>3. at(x) = k - 1 BY <4>1
      <4> QED BY <4>2, <4>3
    <3> QED BY <3>1
  <2>5. data' = [x \in Blocks |-> CASE hit(x) -> part(at(x))
                                    [] ind # 0 /\ x = ind -> table
                                    [] OTHER -> data[x]]
    BY <1>5
  <2> HIDE DEF part, hit, table, at, ind
  <2>6. ASSUME NEW x \in Blocks PROVE data'[x] \in [Cells -> Nat \cup {NoBlock}]
    <3>1. CASE hit(x)
      <4>1. at(x) \in Nat BY <2>4, <3>1
      <4>2. data'[x] = part(at(x)) \/ data'[x] = table BY <2>5, <3>1
      <4> QED BY <2>1, <2>2, <4>1, <4>2
    <3>2. CASE ~hit(x) /\ ind # 0 /\ x = ind
      <4>1. data'[x] = table BY <2>5, <3>2
      <4> QED BY <2>2, <4>1
    <3>3. CASE ~hit(x) /\ ~(ind # 0 /\ x = ind)
      <4>1. data'[x] = data[x] BY <2>5, <3>3
      <4> QED BY <2>3, <4>1
    <3> QED BY <3>1, <3>2, <3>3
  <2>7. data' = [x \in Blocks |-> data'[x]] BY <2>5
  <2> HIDE DEF Cells
  <2> QED BY <2>6, <2>7
<1>16. /\ freemap' \in SUBSET Blocks /\ unused_blocks' \in 0 .. BLOCK_NUM
       /\ \A x : x \in freemap' <=>
             \/ x \in freemap
             \/ \E m \in 1 .. Calls(n) : m <= unused_blocks /\ x = alloc_free_block(m)
  <2>1. /\ Accounted'
        /\ \A x : x \in freemap' <=>
              \/ x \in freemap
              \/ \E m \in 1 .. Calls(n) : m <= unused_blocks /\ x = alloc_free_block(m)
    BY <1>1, <1>4, <1>6, AllocatedCounts
  <2>2. unused_blocks' \in 0 .. BLOCK_NUM BY <2>1, AllocRange
  <2> QED BY <2>1, <2>2 DEF Accounted, Blocks
<1>17. TypeOK'
  <2>1. fat' \in [Fat -> Blocks]
    <3>1. first \in Blocks BY <1>8 DEF Free
    <3> HIDE DEF first
    <3> QED BY <1>1, <1>4, <3>1 DEF TypeOK
  <2>2. mode' \in {"mkfs", "run", "wild"} BY <1>1, <1>4 DEF TypeOK
  <2> DEFINE Node == [name     : Names \cup {NoName},
                      size     : Nat,
                      blocks   : Nat,
                      direct   : [0 .. NDirect - 1 -> Blocks \cup {NoBlock}],
                      indirect : Blocks \cup {NoBlock}]
  <2>3. node \in Node
    <3>1. ind \in Blocks BY <1>1, <1>11
    <3>2. \A k \in 0 .. NDirect - 1 : k < n => alloc_free_block(DataCall(k + 1)) \in Blocks
      <4>1. \A k \in 0 .. NDirect - 1 : k < n => k + 1 \in 1 .. n BY <1>1, <1>3
      <4> QED BY <1>6, <1>7, <4>1 DEF Free
    <3>3. [k \in 0 .. NDirect - 1 |-> IF k < n THEN alloc_free_block(DataCall(k + 1)) ELSE 0]
             \in [0 .. NDirect - 1 -> Blocks \cup {NoBlock}]
      BY <1>1, <3>2
    <3> HIDE DEF ind
    <3> QED BY <1>2, <1>3, <3>1, <3>3
  <2>4. \A j \in Inodes \ {b} : inode'[j] \in Node BY <1>1, <1>9 DEF TypeOK
  <2> HIDE DEF Node, node
  <2>5. \A j \in Inodes : inode'[j] \in Node BY <1>9, <2>3, <2>4
  <2>6. inode' \in [Inodes -> Node] BY <1>9, <2>5
  <2> QED BY <1>15, <1>16, <2>1, <2>2, <2>6 DEF TypeOK, Inodes, Blocks, Cells, Fat, Node
<1>18. ASSUME NEW k \in Slots(b)
       PROVE  Slot(b, k)' = IF k < n THEN alloc_free_block(DataCall(k + 1)) ELSE 0
  <2>1. k \in Nat /\ k < NDirect + NIndirect BY <1>1, <1>18 DEF Slots
  <2>2. CASE k < NDirect
    <3>1. Slot(b, k)' = inode'[b].direct[k] BY <1>1, <2>1, <2>2 DEF Slot, BlockOf
    <3>2. k \in 0 .. NDirect - 1 BY <1>1, <2>1, <2>2
    <3> QED BY <1>10, <3>1, <3>2
  <2>3. CASE NDirect <= k /\ n > NDirect
    <3>1. inode'[b].indirect \in Blocks \ {0} BY <1>10, <1>11, <2>3
    <3>2. Slot(b, k)' = data'[inode'[b].indirect][k - NDirect]
      BY <1>1, <2>1, <2>3, <3>1 DEF Slot, BlockOf, Table
    <3>3. Slot(b, k)' = table[k - NDirect] BY <1>10, <1>14, <2>3, <3>2
    <3>4. k - NDirect \in Cells /\ NDirect + (k - NDirect) + 1 = k + 1
          /\ (k - NDirect < n - NDirect <=> k < n)
      BY <1>1, <1>3, <2>1, <2>3 DEF Cells
    <3> QED BY <3>3, <3>4
  <2>4. CASE NDirect <= k /\ ~(n > NDirect)
    <3>1. inode'[b].indirect = 0 BY <1>10, <2>4
    <3>2. Slot(b, k)' = 0 BY <1>1, <2>1, <2>4, <3>1 DEF Slot
    <3> QED BY <1>1, <1>3, <2>1, <2>4, <3>2
  <2> QED BY <1>1, <2>1, <2>2, <2>3, <2>4
<1>19. ASSUME NEW j \in Files \cup {ROOT}, NEW k \in Slots(j)
       PROVE  Slot(j, k)' = Slot(j, k)
  <2>0. j \in Inodes BY <1>1, FilesAreBlocks
  <2>1. j # b
    <3>1. \A e \in Fat : fat[e] \in Blocks BY <1>1 DEF TypeOK
    <3>2. \A e \in Fat : fat[e] # 0 => fat[e] \in freemap BY <1>1, <3>1, Apart
    <3> QED BY <1>1, <1>8, <3>2, FilesAreBlocks, Constants DEF Free
  <2>2. inode'[j] = inode[j] BY <1>9, <2>0, <2>1
  <2>3. k \in Nat BY <1>1, <1>19 DEF Slots
  <2>4. CASE k < NDirect
    <3>1. Slot(j, k)' = inode'[j].direct[k] BY <1>1, <2>3, <2>4 DEF Slot, BlockOf
    <3>2. Slot(j, k) = inode[j].direct[k] BY <1>1, <2>3, <2>4 DEF Slot, BlockOf
    <3> QED BY <2>2, <3>1, <3>2
  <2>5. CASE NDirect <= k /\ inode[j].indirect \in Blocks \ {0}
    <3>1. Slot(j, k)' = data'[inode'[j].indirect][k - NDirect]
      BY <1>1, <2>2, <2>3, <2>5 DEF Slot, BlockOf, Table
    <3>2. Slot(j, k) = data[inode[j].indirect][k - NDirect]
      BY <1>1, <2>3, <2>5 DEF Slot, BlockOf, Table
    <3>3. inode[j].indirect \in freemap BY <1>1, <2>0, <2>5, Apart
    <3>4. data'[inode[j].indirect] = data[inode[j].indirect]
      BY <1>14, <2>5, <3>3 DEF Free
    <3> QED BY <2>2, <3>1, <3>2, <3>4
  <2>6. CASE NDirect <= k /\ inode[j].indirect \notin Blocks \ {0}
    BY <1>1, <2>2, <2>3, <2>6 DEF Slot
  <2> QED BY <1>1, <2>3, <2>4, <2>5, <2>6
<1>20. ASSUME NEW x \in Blocks \ freemap' PROVE data'[x] = data[x]
  <2>1. \A m \in 1 .. Calls(n) : x # alloc_free_block(m) BY <1>6, <1>7, <1>16, <1>20
  <2>2. ~hit(x) BY <1>6, <2>1
  <2>3. ~(n > NDirect /\ x = ind) BY <1>6, <2>1
  <2> QED BY <1>14, <2>2, <2>3
<1>21. \E e \in Fat : FirstEmpty(e) /\ fat' = [fat EXCEPT ![e] = b]
  BY <1>4, <1>8
<1> QED
  <2>1. inode'[b].indirect = IF n > NDirect THEN alloc_free_block(IndirectCall) ELSE 0
    BY <1>10
  <2> HIDE DEF ind
  <2>2. Added(b, n, Len(content), name)
    BY <1>2, <1>3, <1>4, <1>7, <1>8, <1>9, <1>10, <1>17, <1>18, <1>19, <1>20, <1>21, <2>1
    DEF Added
  <2> QED BY <2>2 DEF n

LEMMA CreateAdds ==
    ASSUME Sound, NEW name \in Names, NEW b, create(name, b), b # NoBlock
    PROVE  Added(b, 0, 0, name)
<1>1. /\ TypeOK /\ mode # "wild" /\ Consistent /\ Accounted
      /\ NDirect \in Nat /\ NDirect > 0 /\ NIndirect \in Nat /\ BLOCK_SIZE \in Nat
      /\ NoBlock \notin Blocks /\ 0 \in Blocks
  BY Constants DEF Sound, Consistent
<1>2. \E e \in Fat : FirstEmpty(e)
  <2>1. \E e : FirstEmpty(e) BY DEF create
  <2> QED BY <2>1 DEF FirstEmpty
<1>3. /\ ~Exists(name) /\ b = alloc_free_block(1) /\ Allocated(1)
      /\ \E e \in Fat : FirstEmpty(e) /\ fat' = [fat EXCEPT ![e] = b]
      /\ inode' = [inode EXCEPT ![b] = [Zeroed EXCEPT !.name = name]]
      /\ data' = data /\ mode' = mode
  BY <1>2 DEF create
<1>4. Calls(0) = 1 BY <1>1 DEF Calls
<1>5. b \in Free /\ b \in Blocks /\ b \in Inodes /\ 1 <= unused_blocks
  <2>1. alloc_free_block(0 + 1) = b BY <1>3
  <2>2. b \in Blocks /\ 0 + 1 \in 1 .. unused_blocks /\ b \in Free
    BY <1>1, <2>1, AllocTypes
  <2>3. unused_blocks \in Nat BY <1>1, AllocGives, Constants
  <2> QED BY <2>2, <2>3 DEF Inodes
<1>6. /\ \A j \in Inodes \ {b} : inode'[j] = inode[j]
      /\ inode'[b] = [name |-> name, size |-> 0, blocks |-> 0,
                      direct |-> [k \in 0 .. NDirect - 1 |-> 0], indirect |-> 0]
      /\ inode' = [j \in Inodes |-> inode'[j]]
  <2>1. DOMAIN inode = Inodes BY <1>1 DEF TypeOK
  <2>2. [Zeroed EXCEPT !.name = name]
           = [name |-> name, size |-> 0, blocks |-> 0,
              direct |-> [k \in 0 .. NDirect - 1 |-> 0], indirect |-> 0]
    <3> DEFINE d == [k \in 0 .. NDirect - 1 |-> 0]
    <3>1. Zeroed = [name |-> NoName, size |-> 0, blocks |-> 0, direct |-> d, indirect |-> 0]
      BY DEF Zeroed
    <3> HIDE DEF d
    <3>2. [Zeroed EXCEPT !.name = name]
             = [name |-> name, size |-> 0, blocks |-> 0, direct |-> d, indirect |-> 0]
      BY <3>1
    <3> QED BY <3>2 DEF d
  <2> QED BY <1>3, <1>5, <2>1, <2>2
<1>7. TypeOK'
  <2>1. fat' \in [Fat -> Blocks] BY <1>1, <1>3, <1>5 DEF TypeOK
  <2>2. mode' \in {"mkfs", "run", "wild"} BY <1>1, <1>3 DEF TypeOK
  <2>3. freemap' \in SUBSET Blocks /\ unused_blocks' \in 0 .. BLOCK_NUM
    <3>1. Accounted' BY <1>1, <1>3, AllocatedCounts
    <3> QED BY <3>1, AllocRange DEF Accounted, Blocks
  <2> DEFINE Node == [name     : Names \cup {NoName},
                      size     : Nat,
                      blocks   : Nat,
                      direct   : [0 .. NDirect - 1 -> Blocks \cup {NoBlock}],
                      indirect : Blocks \cup {NoBlock}]
  <2>4. inode'[b] \in Node BY <1>1, <1>6
  <2>5. \A j \in Inodes \ {b} : inode'[j] \in Node BY <1>1, <1>6 DEF TypeOK
  <2> HIDE DEF Node
  <2>6. inode' \in [Inodes -> Node] BY <1>6, <2>4, <2>5
  <2>7. data' \in [Blocks -> [Cells -> Nat \cup {NoBlock}]] BY <1>1, <1>3 DEF TypeOK
  <2> QED BY <2>1, <2>2, <2>3, <2>6, <2>7 DEF TypeOK, Inodes, Blocks, Cells, Fat, Node
<1>8. ASSUME NEW k \in Slots(b) PROVE Slot(b, k)' = 0
  <2>1. k \in Nat BY <1>1, <1>8 DEF Slots
  <2>2. CASE k < NDirect
    <3>1. Slot(b, k)' = inode'[b].direct[k] BY <1>1, <2>1, <2>2 DEF Slot, BlockOf
    <3>2. k \in 0 .. NDirect - 1 BY <1>1, <2>1, <2>2
    <3> QED BY <1>6, <3>1, <3>2
  <2>3. CASE NDirect <= k
    <3>1. inode'[b].indirect = 0 BY <1>6
    <3> QED BY <1>1, <2>1, <2>3, <3>1 DEF Slot
  <2> QED BY <1>1, <2>1, <2>2, <2>3
<1>9. ASSUME NEW j \in Files \cup {ROOT}, NEW k \in Slots(j)
      PROVE  Slot(j, k)' = Slot(j, k)
  <2>0. j \in Inodes BY <1>1, FilesAreBlocks
  <2>1. j # b
    <3>1. \A e \in Fat : fat[e] \in Blocks BY <1>1 DEF TypeOK
    <3>2. \A e \in Fat : fat[e] # 0 => fat[e] \in freemap BY <1>1, <3>1, Apart
    <3> QED BY <1>1, <1>5, <3>2, FilesAreBlocks, Constants DEF Free
  <2>2. inode'[j] = inode[j] /\ data' = data BY <1>3, <1>6, <2>0, <2>1
  <2>3. (inode'[j].indirect \notin Blocks \ {0}) <=> (inode[j].indirect \notin Blocks \ {0})
    BY <2>2
  <2>4. Slot(j, k)' = IF k >= NDirect /\ inode'[j].indirect \notin Blocks \ {0} THEN 0
                      ELSE IF k < NDirect THEN inode'[j].direct[k]
                           ELSE data'[inode'[j].indirect][k - NDirect]
    BY DEF Slot, BlockOf, Table
  <2>5. Slot(j, k) = IF k >= NDirect /\ inode[j].indirect \notin Blocks \ {0} THEN 0
                     ELSE IF k < NDirect THEN inode[j].direct[k]
                          ELSE data[inode[j].indirect][k - NDirect]
    BY DEF Slot, BlockOf, Table
  <2> QED BY <2>2, <2>3, <2>4, <2>5
<1>10. \A k \in Slots(b) : ~(k < 0) BY <1>1 DEF Slots
<1>11. /\ inode'[b].name = name /\ inode'[b].size = 0 /\ inode'[b].blocks = 0
       /\ inode'[b].indirect = 0
  BY <1>6
<1>12. 0 <= 0 * BLOCK_SIZE /\ 0 <= NDirect + NIndirect /\ ~(0 > NDirect) /\ 0 \in Nat BY <1>1
<1> QED
  BY <1>3, <1>4, <1>5, <1>6, <1>7, <1>8, <1>9, <1>10, <1>11, <1>12 DEF Added

-----------------------------------------------------------------------------
(* Calls that leave the image                                              *)

LEMMA StrayKeeps ==
    ASSUME Sound, DirectoryExact, NEW i \in Files \cup {ROOT}, NEW off \in Nat, NEW buf \in Bufs,
           sys_write(i, off, buf), mode' = "wild"
    PROVE  TypeOK' /\ DirectoryExact'
<1> DEFINE size == off + Len(buf)
           g == increase_size(i, size)
<1>1. /\ TypeOK /\ mode # "wild" /\ Consistent /\ FreshBlocksZero /\ Filled(i)
      /\ i \in Inodes /\ Accounted
  BY FilesAreBlocks DEF Sound, Consistent
<1>2. size \in Nat
  <2>1. buf \in Seq(Nat) BY SimpleFSAssumption
  <2> QED BY <2>1
<1>3. /\ Allocated(g.calls) /\ fat' = fat
      /\ data' = WithTable(g) /\ inode' = [inode EXCEPT ![i] = g.node]
  <2>1. mode = "run" BY DEF sys_write
  <2>2. Strays(g, Parts(off, Len(buf))) BY <2>1 DEF sys_write, Copy
  <2> QED BY <2>2 DEF sys_write, Copy
<1> HIDE DEF size, g
<1>4. /\ GrownSize(i, size) /\ GrownNode(g, i, size)
     /\ GrownTable(g, i, size) /\ GrownCalls(g, i, size)
  BY <1>1, <1>2, Growth DEF g
<1>5. g.node.indirect \in Blocks \cup {NoBlock}
  <2>1. CASE NewIndirect(i, size)
    <3>1. NodeCall(i) - 1 \in Nat /\ (NodeCall(i) - 1) + 1 = NodeCall(i)
      BY <1>1, <1>2, <2>1, CallsDiffer
    <3>2. alloc_free_block(NodeCall(i)) \in Blocks \cup {NoBlock}
      BY <1>1, <3>1, AllocTypes
    <3> QED BY <1>4, <2>1, <3>2 DEF GrownNode
  <2>2. CASE ~NewIndirect(i, size)
    <3>1. inode[i].indirect \in Blocks \cup {NoBlock} BY <1>1, NodeTypes
    <3> QED BY <1>4, <2>2, <3>1 DEF GrownNode
  <2> QED BY <2>1, <2>2
<1>6. data' \in [Blocks -> [Cells -> Nat \cup {NoBlock}]]
  <2>1. data \in [Blocks -> [Cells -> Nat \cup {NoBlock}]] BY <1>1 DEF TypeOK
  <2>2. g.table \in [Cells -> Nat \cup {NoBlock}] BY <1>4 DEF GrownTable
  <2> QED BY <1>3, <2>1, <2>2 DEF WithTable
<1>7. freemap' \in SUBSET Blocks /\ unused_blocks' \in 0 .. BLOCK_NUM
  <2>1. g.calls \in Nat BY <1>4 DEF GrownCalls
  <2>2. Accounted' BY <1>1, <1>3, <2>1, AllocatedCounts
  <2> QED BY <2>2, AllocRange DEF Accounted, Blocks
<1>8. /\ \A j \in Inodes \ {i} : inode'[j] = inode[j]
      /\ inode'[i] = g.node /\ inode' = [j \in Inodes |-> inode'[j]]
  <2>1. DOMAIN inode = Inodes BY <1>1 DEF TypeOK
  <2> QED BY <1>1, <1>3, <2>1
<1>9. g.node.name = inode[i].name BY <1>4 DEF GrownNode
<1>10. TypeOK'
  <2> DEFINE Node == [name     : Names \cup {NoName},
                      size     : Nat,
                      blocks   : Nat,
                      direct   : [0 .. NDirect - 1 -> Blocks \cup {NoBlock}],
                      indirect : Blocks \cup {NoBlock}]
             node == inode[i]
             blocks == g.node.blocks
             direct == g.node.direct
             indirect == g.node.indirect
  <2>1. node \in Node BY <1>1 DEF TypeOK
  <2>2. blocks \in Nat /\ direct \in [0 .. NDirect - 1 -> Blocks \cup {NoBlock}]
        /\ indirect \in Blocks \cup {NoBlock}
    BY <1>4, <1>5 DEF GrownNode, GrownSize
  <2>3. g.node = [node EXCEPT !.blocks = blocks, !.direct = direct, !.indirect = indirect]
    BY <1>4 DEF GrownNode
  <2> HIDE DEF node, blocks, direct, indirect
  <2>4. g.node \in Node
    <3> DEFINE n1 == [node EXCEPT !.blocks = blocks]
               n2 == [n1 EXCEPT !.direct = direct]
    <3>1. n1 \in Node BY <2>1, <2>2
    <3>2. [node EXCEPT !.blocks = blocks, !.direct = direct, !.indirect = indirect]
            = [n2 EXCEPT !.indirect = indirect]
      OBVIOUS
    <3> HIDE DEF n1
    <3>3. n2 \in Node BY <2>2, <3>1
    <3> HIDE DEF n2
    <3>4. [n2 EXCEPT !.indirect = indirect] \in Node BY <2>2, <3>3
    <3> HIDE DEF Node
    <3> QED BY <2>3, <3>2, <3>4
  <2>5. \A j \in Inodes \ {i} : inode'[j] \in Node BY <1>1, <1>8 DEF TypeOK
  <2> HIDE DEF Node
  <2>6. inode' \in [Inodes -> Node] BY <1>8, <2>4, <2>5
  <2>7. fat' \in [Fat -> Blocks] BY <1>1, <1>3 DEF TypeOK
  <2> QED BY <1>6, <1>7, <2>6, <2>7 DEF TypeOK, Inodes, Blocks, Cells, Fat, Node
<1>11. DirectoryExact'
  <2>1. \A j \in Inodes : inode'[j].name = inode[j].name BY <1>8, <1>9
  <2>2. \A e \in Fat : fat[e] \in Inodes BY <1>1 DEF TypeOK, Inodes
  <2>3. \A e \in Fat : inode'[fat[e]].name = inode[fat[e]].name BY <2>1, <2>2
  <2> QED BY <1>3, <2>3 DEF DirectoryExact, Fat
<1> QED BY <1>10, <1>11

-----------------------------------------------------------------------------
(* The invariant                                                           *)

\* IInv in the terms of the lemmas.
LEMMA IInvIs ==
    /\ IInv <=> /\ TypeOK /\ DirectoryExact /\ SizeCovered /\ SizesFit
                /\ mode # "wild" => Sound
    /\ IInv' <=> /\ TypeOK' /\ DirectoryExact' /\ SizeCovered' /\ SizesFit'
                 /\ mode' # "wild" => Sound'
<1>2. BlocksExact <=> TypeOK /\ (mode # "wild" => Consistent)
  BY DEF BlocksExact, Consistent, Accounted, Named, TypeOK
<1>3. BlocksExact' <=> TypeOK' /\ (mode' # "wild" => Consistent')
  BY DEF BlocksExact, Consistent, Accounted, Named, TypeOK
<1>4. (mode = "wild" => FreshBlocksZero) /\ (mode' = "wild" => FreshBlocksZero')
  BY DEF FreshBlocksZero
<1> QED BY <1>2, <1>3, <1>4 DEF IInv, Sound

LEMMA InitIInv == Init => IInv
<1> SUFFICES ASSUME Init PROVE IInv OBVIOUS
<1>1. /\ BLOCK_NUM \in Nat /\ BLOCK_NUM > 3 /\ NDirect \in Nat /\ NIndirect \in Nat
      /\ 0 \in Blocks /\ ROOT \notin Blocks /\ NoBlock \notin Blocks
  BY Constants
<1>2. TypeOK BY <1>1 DEF TypeOK, Init, Zeroed, Blocks, Inodes
<1>3. Files = {} BY DEF Init, Files
<1>4. \A i \in Inodes : inode[i] = Zeroed BY DEF Init
<1>5. \A i \in Inodes : \A k \in Slots(i) : Slot(i, k) = 0
  <2>1. ASSUME NEW i \in Inodes, NEW k \in Slots(i) PROVE Slot(i, k) = 0
    <3>1. k \in Nat /\ inode[i].indirect = 0 BY <1>1, <1>4, <2>1 DEF Slots, Zeroed
    <3>2. CASE k < NDirect
      <4>1. k \in 0 .. NDirect - 1 BY <1>1, <3>1, <3>2
      <4>2. Slot(i, k) = inode[i].direct[k] BY <1>1, <3>1, <3>2 DEF Slot, BlockOf
      <4>3. inode[i].direct = Zeroed.direct BY <1>4, <2>1
      <4>4. Zeroed.direct = [m \in 0 .. NDirect - 1 |-> 0] BY DEF Zeroed
      <4>5. Zeroed.direct[k] = 0 BY <4>1, <4>4
      <4> QED BY <4>2, <4>3, <4>5
    <3>3. CASE NDirect <= k BY <1>1, <3>1, <3>3 DEF Slot
    <3> QED BY <1>1, <3>1, <3>2, <3>3
  <2> QED BY <2>1
<1>6. \A u : u \in Named <=> \E b \in 0 .. 2 : u = SystemUse(b)
  <2>1. \A j \in Fat : fat[j] = 0 BY DEF Init
  <2>2. \A i \in Inodes : inode[i].indirect = 0 BY <1>4 DEF Zeroed
  <2>3. \A i \in Files \cup {ROOT} : i \in Inodes BY <1>3 DEF Inodes
  <2> QED BY <1>5, <2>1, <2>2, <2>3, NamedIs DEF IsNamed
<1>7. Consistent
  <2>1. freemap = 0 .. 2 BY DEF Init
  <2>2. Cardinality(freemap) = 3
    <3>1. 0 \in Int /\ 2 \in Int OBVIOUS
    <3>2. Cardinality(0 .. 2) = IF 0 > 2 THEN 0 ELSE 2 - 0 + 1 BY <3>1, FS_Interval
    <3> QED BY <2>1, <3>2
  <2>3. freemap = {u.block : u \in Named}
    <3>1. \A b : SystemUse(b).block = b BY DEF SystemUse
    <3>2. ASSUME NEW b \in freemap PROVE b \in {u.block : u \in Named}
      <4>1. SystemUse(b) \in Named BY <1>6, <2>1, <3>2
      <4> QED BY <3>1, <4>1
    <3>3. ASSUME NEW u \in Named PROVE u.block \in freemap
      <4>1. PICK b \in 0 .. 2 : u = SystemUse(b) BY <1>6, <3>3
      <4> QED BY <2>1, <3>1, <4>1
    <3> QED BY <3>2, <3>3
  <2>4. \A u, v \in Named : u.block = v.block => u = v BY <1>6 DEF SystemUse
  <2>5. unused_blocks = BLOCK_NUM - Cardinality(freemap) BY <2>2 DEF Init
  <2> QED BY <1>2, <2>3, <2>4, <2>5 DEF Consistent, Accounted, TypeOK
<1>8. FreshBlocksZero BY <1>4 DEF FreshBlocksZero, Init, Inodes
<1>9. InodesNamed BY <1>4 DEF InodesNamed, Inodes
<1>10. \A i \in Files \cup {ROOT} : Filled(i)
  <2>1. ROOT \in Inodes BY DEF Inodes
  <2>2. \A k \in Slots(ROOT) : k >= 0 BY <1>1 DEF Slots
  <2>3. Filled(ROOT) BY <1>1, <1>4, <1>5, <2>1, <2>2 DEF Filled, Zeroed
  <2> QED BY <1>3, <2>3
<1>11. SizeCovered BY <1>3 DEF SizeCovered
<1>12. DirectoryExact BY DEF DirectoryExact, Init
<1>13. SizesFit BY <1>3 DEF SizesFit
<1> QED BY <1>2, <1>7, <1>8, <1>9, <1>10, <1>11, <1>12, <1>13, IInvIs DEF Sound

-----------------------------------------------------------------------------
(* What a call moves, for this module and for the callers of the image     *)

\* sys_write() moves the end of the file it writes to, and no other.
LEMMA WriteMoves ==
    ASSUME IInv, NEW i \in Files \cup {ROOT}, NEW off \in Nat, NEW buf \in Bufs,
           Offset(i, off), sys_write(i, off, buf)
    PROVE  /\ Files' = Files /\ Len(buf) \in Nat
           /\ \A j \in Files : j # i => inode'[j].size = inode[j].size
           /\ mode' = "wild" => inode'[i].size = inode[i].size
           /\ mode' # "wild" => inode'[i].size = NewSize(inode[i].size, off + Len(buf))
           /\ mode' # "wild" /\ Len(buf) > 0 =>
                 off + Len(buf) <= (NDirect + NIndirect) * BLOCK_SIZE
<1> DEFINE count == Len(buf)
           size == off + count
           g == increase_size(i, size)
           parts == Parts(off, count)
<1>1. /\ Sound /\ SizeCovered /\ TypeOK /\ mode = "run" /\ i \in Inodes
      /\ Files \in SUBSET Inodes /\ Consistent /\ FreshBlocksZero /\ Filled(i)
  <2>1. mode = "run" BY DEF sys_write
  <2>2. Sound /\ SizeCovered BY <2>1, IInvIs
  <2> QED BY <2>1, <2>2, FilesAreBlocks DEF Sound
<1>2. count \in Nat /\ size \in Nat
  <2>1. buf \in Seq(Nat) BY SimpleFSAssumption
  <2> QED BY <2>1
<1>3. fat' = fat BY DEF sys_write
<1>4. Files' = Files BY <1>3 DEF Files
<1>5. ASSUME mode' = "wild"
      PROVE  \A j \in Inodes : inode'[j].size = inode[j].size
  <2>1. Strays(g, parts) BY <1>1, <1>5 DEF sys_write, Copy
  <2>2. inode' = [inode EXCEPT ![i] = g.node] BY <2>1 DEF sys_write, Copy
  <2> HIDE DEF g, size
  <2>3. g.node.size = inode[i].size
    <3>1. GrownNode(g, i, size) BY <1>1, <1>2, Growth DEF g
    <3> QED BY <3>1 DEF GrownNode
  <2>4. DOMAIN inode = Inodes BY <1>1 DEF TypeOK
  <2> QED BY <2>2, <2>3, <2>4
<1>6. i \in Files => off <= inode[i].blocks * BLOCK_SIZE
  <2>1. ASSUME i \in Files PROVE off <= inode[i].blocks * BLOCK_SIZE
    <3>1. i # ROOT BY <1>1, <2>1, FilesAreBlocks
    <3>2. off <= inode[i].size BY <3>1 DEF Offset
    <3>3. inode[i].size <= inode[i].blocks * BLOCK_SIZE BY <1>1, <2>1 DEF SizeCovered
    <3>4. inode[i].size \in Nat /\ inode[i].blocks \in Nat BY <1>1, NodeTypes
    <3>5. inode[i].blocks * BLOCK_SIZE \in Nat BY <3>4, Constants
    <3> QED BY <3>2, <3>3, <3>4, <3>5
  <2> QED BY <2>1
<1>7. ASSUME mode' # "wild"
      PROVE  /\ \A j \in Inodes \ {i} : inode'[j] = inode[j]
             /\ inode'[i].size = NewSize(inode[i].size, size)
  <2>1. Written(g, i, size) BY <1>1, <1>6, <1>7, WriteEffect
  <2> QED BY <2>1 DEF Written
<1>8. ASSUME mode' # "wild", count > 0
      PROVE  size <= (NDirect + NIndirect) * BLOCK_SIZE
  <2>1. ~Strays(g, parts) BY <1>8 DEF sys_write, Copy
  <2> HIDE DEF g
  <2>2. Ceil(size) - 1 \in parts BY <1>2, <1>8, PartsAre
  <2>3. Target(g, Ceil(size) - 1) \in Blocks BY <2>1, <2>2 DEF Strays
  <2> HIDE DEF parts, size
  <2>4. Ceil(size) - 1 < NDirect + NIndirect BY <2>3, Constants DEF Target
  <2>5. Ceil(size) \in Nat /\ size <= Ceil(size) * BLOCK_SIZE BY <1>2, CeilIs
  <2> DEFINE m == Ceil(size)
             n == NDirect + NIndirect
  <2>6. n \in Nat /\ BLOCK_SIZE \in Nat BY Constants
  <2>7. m \in Nat /\ m <= n BY <2>4, <2>5, <2>6
  <2> HIDE DEF m, n
  <2>8. BLOCK_SIZE * m <= BLOCK_SIZE * n /\ BLOCK_SIZE * m \in Nat /\ BLOCK_SIZE * n \in Nat
    BY <2>6, <2>7, MulMono
  <2>9. BLOCK_SIZE * m = m * BLOCK_SIZE /\ BLOCK_SIZE * n = n * BLOCK_SIZE BY <2>6, <2>7
  <2>10. size <= m * BLOCK_SIZE BY <2>5 DEF m
  <2>11. size <= n * BLOCK_SIZE BY <1>2, <2>8, <2>9, <2>10
  <2> QED BY <2>11 DEF n
<1>9. \A j \in Files : j # i => inode'[j].size = inode[j].size
  <2>1. CASE mode' = "wild" BY <1>1, <1>5, <2>1
  <2>2. CASE mode' # "wild" BY <1>1, <1>7, <2>2
  <2> QED BY <2>1, <2>2
<1> QED BY <1>1, <1>2, <1>4, <1>5, <1>7, <1>8, <1>9

\* create() leaves every file as it is, and the new one is an empty file.
LEMMA CreateMoves ==
    ASSUME IInv, NEW name \in Names, NEW b, create(name, b)
    PROVE  /\ b \in Blocks \cup {NoBlock} /\ Files \subseteq Files'
           /\ \A j \in Files : inode'[j].size = inode[j].size
           /\ mode' # "wild" => b \in Files' /\ b \in Blocks /\ inode'[b].size = 0
<1>1. mode = "run" BY DEF create
<1>2. Sound /\ TypeOK BY <1>1, IInvIs
<1>3. b \in Blocks \cup {NoBlock}
  <2>1. b = alloc_free_block(0 + 1) \/ b = NoBlock BY DEF create
  <2>2. Accounted BY <1>2 DEF Sound, Consistent
  <2> QED BY <2>1, <2>2, AllocTypes
<1>4. CASE b = NoBlock
  <2>1. fat' = fat /\ inode' = inode /\ mode' = "wild" BY <1>4 DEF create
  <2>2. Files' = Files BY <2>1 DEF Files
  <2> QED BY <1>3, <2>1, <2>2
<1>5. CASE b # NoBlock
  <2>1. Added(b, 0, 0, name) BY <1>2, <1>3, <1>5, CreateAdds
  <2>2. PICK e \in Fat : FirstEmpty(e) /\ fat' = [fat EXCEPT ![e] = b] BY <2>1 DEF Added
  <2>3. DOMAIN fat = Fat /\ fat[e] = 0 BY <1>2, <2>2 DEF TypeOK, FirstEmpty
  <2>4. fat'[e] = b /\ \A j \in Fat : j # e => fat'[j] = fat[j] BY <2>2, <2>3
  <2>5. /\ b \in Free /\ b \in Blocks /\ inode'[b].size = 0
        /\ \A j \in Inodes \ {b} : inode'[j] = inode[j]
    <3>1. b \in Free BY <2>1 DEF Added
    <3> QED BY <2>1, <3>1 DEF Added, Free
  <2>6. \A j \in Fat : fat[j] # 0 => fat[j] \in freemap
    <3>1. \A j \in Fat : fat[j] \in Blocks BY <1>2 DEF TypeOK
    <3>2. Consistent BY <1>2 DEF Sound
    <3>3. \A j \in Fat : fat[j] # NoBlock BY <3>1, Constants
    <3> QED BY <3>2, <3>3, Apart
  <2>7. b # 0
    <3>1. 0 \in freemap BY <1>2, ZeroTaken DEF Sound
    <3> QED BY <2>5, <3>1 DEF Free
  <2>8. \A f \in Files : f \in Files' /\ f # b /\ f \in Inodes
    <3>1. ASSUME NEW f \in Files PROVE f \in Files' /\ f # b /\ f \in Inodes
      <4>1. PICK j \in Fat : f = fat[j] /\ fat[j] # 0 BY <1>2, FilesAreBlocks
      <4>2. j # e BY <2>3, <4>1
      <4>3. fat'[j] = f /\ f # 0 BY <2>4, <4>1, <4>2
      <4>4. f \in Files' BY <4>3 DEF Files, Fat
      <4>5. f \in freemap BY <2>6, <4>1
      <4> QED BY <1>2, <2>5, <4>4, <4>5, FilesAreBlocks DEF Free
    <3> QED BY <3>1
  <2>9. b \in Files' BY <2>4, <2>7 DEF Files, Fat
  <2> QED BY <1>3, <2>5, <2>8, <2>9
<1> QED BY <1>3, <1>4, <1>5

\* A file that is packed or created fits the blocks it is given.
LEMMA AddedFits ==
    ASSUME Sound, SizesFit, NEW b, NEW n, NEW size, NEW name, Added(b, n, size, name)
    PROVE  SizesFit'
<1> DEFINE most == (NDirect + NIndirect) * BLOCK_SIZE
<1>1. /\ n \in Nat /\ n <= NDirect + NIndirect /\ size \in Nat /\ size <= n * BLOCK_SIZE
      /\ inode'[b].size = size /\ \A j \in Inodes \ {b} : inode'[j] = inode[j]
      /\ mode' = mode
  BY DEF Added
<1>2. PICK e \in Fat : FirstEmpty(e) /\ fat' = [fat EXCEPT ![e] = b] BY DEF Added
<1>3. size <= most
  <2> DEFINE m == NDirect + NIndirect
  <2>1. m \in Nat /\ BLOCK_SIZE \in Nat BY Constants
  <2>2. n <= m BY <1>1
  <2>3. most = m * BLOCK_SIZE OBVIOUS
  <2> HIDE DEF m, most
  <2>4. BLOCK_SIZE * n <= BLOCK_SIZE * m /\ BLOCK_SIZE * n \in Nat /\ BLOCK_SIZE * m \in Nat
    BY <1>1, <2>1, <2>2, MulMono
  <2>5. BLOCK_SIZE * n = n * BLOCK_SIZE /\ BLOCK_SIZE * m = m * BLOCK_SIZE BY <1>1, <2>1
  <2> QED BY <1>1, <2>3, <2>4, <2>5
<1>4. ASSUME NEW j \in Files' PROVE j = b \/ j \in Files
  <2>1. PICK f \in Fat : fat'[f] = j /\ j # 0 BY <1>4 DEF Files, Fat
  <2>2. fat \in [Fat -> Blocks] BY DEF Sound, TypeOK
  <2>3. CASE f = e BY <1>2, <2>1, <2>2, <2>3
  <2>4. CASE f # e
    <3>1. fat[f] = j BY <1>2, <2>1, <2>2, <2>4
    <3> QED BY <2>1, <3>1 DEF Files
  <2> QED BY <2>3, <2>4
<1>5. mode # "wild" /\ Files \in SUBSET Inodes BY FilesAreBlocks DEF Sound
<1> HIDE DEF most
<1>6. \A j \in Files : inode[j].size <= most BY <1>5 DEF SizesFit, most
<1>7. \A j \in Files' : inode'[j].size <= most
  <2>1. ASSUME NEW j \in Files' PROVE inode'[j].size <= most
    <3>1. CASE j = b BY <1>1, <1>3, <3>1
    <3>2. CASE j # b BY <1>1, <1>4, <1>5, <1>6, <2>1, <3>2
    <3> QED BY <3>1, <3>2
  <2> QED BY <2>1
<1> QED BY <1>7 DEF SizesFit, most

\* A file that is written ends in a block that its inode names.
LEMMA WrittenFits ==
    ASSUME IInv, NEW i \in Files \cup {ROOT}, NEW off \in Nat, NEW buf \in Bufs,
           Offset(i, off), sys_write(i, off, buf)
    PROVE  SizesFit'
<1> DEFINE most == (NDirect + NIndirect) * BLOCK_SIZE
           end == off + Len(buf)
<1>1. /\ Files' = Files /\ Len(buf) \in Nat
      /\ \A j \in Files : j # i => inode'[j].size = inode[j].size
      /\ mode' # "wild" => inode'[i].size = NewSize(inode[i].size, end)
      /\ mode' # "wild" /\ Len(buf) > 0 => end <= most
  BY WriteMoves
<1>2. mode = "run" BY DEF sys_write
<1>3. Sound /\ SizesFit BY <1>2, IInvIs
<1> HIDE DEF most
<1>4. \A j \in Files : inode[j].size <= most BY <1>2, <1>3 DEF SizesFit, most
<1>5. ASSUME mode' # "wild", i \in Files PROVE inode'[i].size <= most
  <2>1. i \in Inodes /\ i # ROOT BY <1>3, <1>5, FilesAreBlocks DEF Sound
  <2>2. off <= inode[i].size BY <2>1 DEF Offset
  <2>3. inode[i].size \in Nat BY <1>3, <2>1, NodeTypes DEF Sound
  <2>4. inode[i].size <= most BY <1>4, <1>5
  <2>5. inode'[i].size = IF inode[i].size < end THEN end ELSE inode[i].size
    BY <1>1, <1>5 DEF NewSize
  <2>6. CASE Len(buf) > 0 BY <1>1, <1>5, <2>4, <2>5, <2>6
  <2>7. CASE Len(buf) = 0
    <3>1. end = off BY <2>7
    <3> HIDE DEF end
    <3> QED BY <2>2, <2>3, <2>4, <2>5, <3>1
  <2> QED BY <1>1, <2>6, <2>7
<1>6. ASSUME mode' # "wild", NEW j \in Files' PROVE inode'[j].size <= most
  <2>1. CASE j = i BY <1>1, <1>5, <1>6, <2>1
  <2>2. CASE j # i BY <1>1, <1>4, <1>6, <2>2
  <2> QED BY <2>1, <2>2
<1> QED BY <1>6 DEF SizesFit, most

-----------------------------------------------------------------------------
(* Every step keeps the invariant                                          *)

LEMMA NextIInv == IInv /\ [Next]_disk => IInv'
<1> SUFFICES ASSUME IInv, [Next]_disk PROVE IInv' OBVIOUS
<1>1. /\ TypeOK /\ DirectoryExact /\ SizeCovered /\ SizesFit
      /\ mode # "wild" => Sound
  BY IInvIs
<1>2. ASSUME Sound' /\ SizeCovered' /\ DirectoryExact' /\ SizesFit' PROVE IInv'
  BY <1>2, IInvIs DEF Sound
<1>3. ASSUME NEW name \in Names, NEW content \in RootFs, walk(name, content) PROVE IInv'
  <2>1. Sound BY <1>1, <1>3 DEF walk
  <2>2. PICK b : Added(b, Ceil(Len(content)), Len(content), name) BY <1>3, <2>1, WalkAdds
  <2> QED BY <1>1, <1>2, <2>1, <2>2, AddedKeeps, AddedFits
<1>4. ASSUME UNCHANGED <<freemap, unused_blocks, fat, inode, data>>,
             mode' # "wild", mode # "wild", mode' \in {"mkfs", "run"}
      PROVE  IInv'
  <2>1. Files' = Files BY <1>4 DEF Files
  <2>2. \A i, k : Slot(i, k)' = Slot(i, k) BY <1>4 DEF Slot, BlockOf, Table
  <2>3. TypeOK' BY <1>1, <1>4 DEF TypeOK, Inodes, Blocks, Cells, Fat
  <2>4. Named' = Named
    <3>1. \A u : IsNamed(u)' <=> IsNamed(u)
      BY <1>4, <2>1, <2>2 DEF IsNamed, SystemUse, FatUse, IndirectUse, SlotUse, Slots
    <3> QED BY <3>1, NamedIs
  <2>5. Consistent' BY <1>1, <1>4, <2>4 DEF Sound, Consistent, Accounted, Blocks
  <2>6. FreshBlocksZero' /\ InodesNamed'
    BY <1>1, <1>4, <2>1 DEF Sound, FreshBlocksZero, InodesNamed, Blocks, Cells, Zeroed
  <2>7. \A i \in Files' \cup {ROOT} : Filled(i)'
    BY <1>1, <1>4, <2>1, <2>2 DEF Sound, Filled, Slots, Blocks
  <2>8. SizeCovered'
    BY <1>1, <1>4, <2>1, <2>2 DEF Sound, SizeCovered, Slots, Blocks
  <2>9. DirectoryExact' BY <1>1, <1>4 DEF DirectoryExact, Fat
  <2>10. SizesFit' BY <1>1, <1>4, <2>1 DEF SizesFit
  <2> QED BY <1>4, <2>3, <2>5, <2>6, <2>7, <2>8, <2>9, <2>10, IInvIs DEF Sound
<1>5. CASE boot BY <1>4, <1>5 DEF boot
<1>6. ASSUME NEW name \in Names, NEW b \in Blocks \cup {NoBlock}, create(name, b) PROVE IInv'
  <2>1. Sound BY <1>1, <1>6 DEF create
  <2>2. CASE b # NoBlock
    <3>1. Added(b, 0, 0, name) BY <1>6, <2>1, <2>2, CreateAdds
    <3> QED BY <1>1, <1>2, <2>1, <3>1, AddedKeeps, AddedFits
  <2>3. CASE b = NoBlock
    <3>1. mode' = "wild" /\ UNCHANGED <<fat, inode, data>> BY <1>6, <2>3 DEF create
    <3> DEFINE n == IF \E e \in Fat : FirstEmpty(e) THEN 1 ELSE 0
    <3>2. Allocated(n) /\ n \in Nat
      <4>1. (\E e : FirstEmpty(e)) <=> \E e \in Fat : FirstEmpty(e) BY DEF FirstEmpty
      <4> QED BY <1>6, <4>1 DEF create
    <3> HIDE DEF n
    <3>3. Accounted' BY <2>1, <3>2, AllocatedCounts DEF Sound, Consistent
    <3>4. freemap' \in SUBSET Blocks /\ unused_blocks' \in 0 .. BLOCK_NUM
      BY <3>3, AllocRange DEF Accounted, Blocks
    <3>5. TypeOK' BY <1>1, <3>1, <3>4 DEF TypeOK, Inodes, Blocks, Cells, Fat
    <3>6. DirectoryExact' BY <1>1, <3>1 DEF DirectoryExact, Fat
    <3>7. SizeCovered' /\ SizesFit' BY <3>1 DEF SizeCovered, SizesFit
    <3> QED BY <3>1, <3>5, <3>6, <3>7, IInvIs
  <2> QED BY <2>2, <2>3
<1>7. ASSUME NEW i \in Files \cup {ROOT}, NEW buf \in Bufs, NEW off \in Int, off >= 0,
             Offset(i, off), sys_write(i, off, buf)
      PROVE  IInv'
  <2>1. Sound /\ off \in Nat BY <1>1, <1>7 DEF sys_write
  <2>2. CASE mode' = "wild"
    <3>1. TypeOK' /\ DirectoryExact' BY <1>1, <1>7, <2>1, <2>2, StrayKeeps
    <3>2. SizeCovered' /\ SizesFit' BY <2>2 DEF SizeCovered, SizesFit
    <3> QED BY <2>2, <3>1, <3>2, IInvIs
  <2>3. CASE mode' # "wild"
    <3>1. i \in Files => off <= inode[i].blocks * BLOCK_SIZE
      <4>1. ASSUME i \in Files PROVE off <= inode[i].blocks * BLOCK_SIZE
        <5>1. i # ROOT /\ i \in Inodes BY <1>1, <4>1, FilesAreBlocks
        <5>2. off <= inode[i].size BY <1>7, <5>1 DEF Offset
        <5>3. inode[i].size <= inode[i].blocks * BLOCK_SIZE
          BY <1>1, <2>1, <4>1 DEF SizeCovered, Sound
        <5>4. inode[i].size \in Nat /\ inode[i].blocks \in Nat BY <1>1, <5>1, NodeTypes
        <5>5. inode[i].blocks * BLOCK_SIZE \in Nat BY <5>4, Constants
        <5> QED BY <2>1, <5>2, <5>3, <5>4, <5>5
      <4> QED BY <4>1
    <3>2. PICK g : g = increase_size(i, off + Len(buf)) OBVIOUS
    <3>3. Written(g, i, off + Len(buf)) BY <1>7, <2>1, <2>3, <3>1, <3>2, WriteEffect
    <3>4. off + Len(buf) \in Nat
      <4>1. buf \in Seq(Nat) BY SimpleFSAssumption
      <4> QED BY <2>1, <4>1
    <3>5. SizesFit' BY <1>7, <2>1, WrittenFits
    <3> QED BY <1>1, <1>2, <1>7, <2>1, <3>3, <3>4, <3>5, WrittenKeeps
  <2> QED BY <2>2, <2>3
<1>8. CASE UNCHANGED disk
  <2>1. CASE mode # "wild"
    <3>1. mode' = mode /\ mode \in {"mkfs", "run"}
          /\ UNCHANGED <<freemap, unused_blocks, fat, inode, data>>
      BY <1>1, <1>8, <2>1 DEF disk, TypeOK
    <3> QED BY <1>4, <2>1, <3>1
  <2>2. CASE mode = "wild"
    <3>1. TypeOK' BY <1>1, <1>8 DEF TypeOK, Inodes, Blocks, Cells, Fat, disk
    <3>2. DirectoryExact' BY <1>1, <1>8 DEF DirectoryExact, Fat, disk
    <3>3. mode' = "wild" BY <1>8, <2>2 DEF disk
    <3>4. SizeCovered' /\ SizesFit' BY <3>3 DEF SizeCovered, SizesFit
    <3> QED BY <3>1, <3>2, <3>3, <3>4, IInvIs
  <2> QED BY <2>1, <2>2
<1>9. CASE Next
  <2>1. CASE \E name \in Names, content \in RootFs : walk(name, content) BY <1>3, <2>1
  <2>2. CASE \E name \in Names, b \in Blocks \cup {NoBlock} : create(name, b) BY <1>6, <2>2
  <2>3. CASE \E i \in Files \cup {ROOT}, buf \in Bufs :
                \E off \in 0 .. Max({inode[i].size, MaxOff}) :
                   Offset(i, off) /\ sys_write(i, off, buf)
    <3>1. PICK i \in Files \cup {ROOT}, buf \in Bufs :
             \E off \in 0 .. Max({inode[i].size, MaxOff}) :
                Offset(i, off) /\ sys_write(i, off, buf)
      BY <2>3
    <3>2. PICK off \in 0 .. Max({inode[i].size, MaxOff}) :
             Offset(i, off) /\ sys_write(i, off, buf)
      BY <3>1
    <3>3. off \in Int /\ off >= 0 BY <3>2
    <3> QED BY <1>7, <3>2, <3>3
  <2>4. CASE Wild BY <1>8, <2>4 DEF Wild
  <2> QED BY <1>5, <1>9, <2>1, <2>2, <2>3, <2>4 DEF Next
<1> QED BY <1>8, <1>9

LEMMA Invariant == Spec => []IInv
<1> QED BY InitIInv, NextIInv, PTL DEF Spec

-----------------------------------------------------------------------------
(* Reading                                                                 *)

\* A number that is written as quotient and remainder.
LEMMA Quotient ==
    ASSUME NEW q \in Nat, NEW r \in 0 .. BLOCK_SIZE - 1
    PROVE  /\ (BLOCK_SIZE * q + r) \div BLOCK_SIZE = q
           /\ (BLOCK_SIZE * q + r) % BLOCK_SIZE = r
<1> DEFINE n == BLOCK_SIZE * q + r
           p == n \div BLOCK_SIZE
           s == n % BLOCK_SIZE
<1>1. BLOCK_SIZE \in Nat /\ BLOCK_SIZE > 0 BY Constants
<1>2. BLOCK_SIZE * q \in Nat /\ n \in Nat
  <2>1. BLOCK_SIZE * q \in Nat BY <1>1
  <2> QED BY <1>1, <2>1
<1>3. n = BLOCK_SIZE * q + r OBVIOUS
<1> HIDE DEF n
<1>4. p \in Nat /\ s \in 0 .. BLOCK_SIZE - 1 /\ n = BLOCK_SIZE * p + s BY <1>2, DivMod
<1> HIDE DEF p, s
<1>5. BLOCK_SIZE * p \in Nat BY <1>1, <1>4
<1>6. ~ (p < q)
  <2>1. ASSUME p < q PROVE FALSE
    <3>1. BLOCK_SIZE * p + BLOCK_SIZE <= BLOCK_SIZE * q BY <1>4, <2>1, MulMono
    <3> QED BY <1>1, <1>2, <1>3, <1>4, <1>5, <3>1
  <2> QED BY <2>1
<1>7. ~ (q < p)
  <2>1. ASSUME q < p PROVE FALSE
    <3>1. BLOCK_SIZE * q + BLOCK_SIZE <= BLOCK_SIZE * p BY <1>4, <2>1, MulMono
    <3> QED BY <1>1, <1>2, <1>3, <1>4, <1>5, <3>1
  <2> QED BY <2>1
<1>8. p = q BY <1>4, <1>6, <1>7
<1>9. s = r BY <1>1, <1>2, <1>3, <1>4, <1>8
<1> QED BY <1>8, <1>9 DEF p, s, n

\* Each chunk of a transfer begins where the one before it ends.
LEMMA ChunksJoin ==
    ASSUME NEW off \in Nat, NEW count \in Nat, NEW k \in Parts(off, count)
    PROVE  LET c == Chunk(off, count, k)
               next == Chunk(off, count, k + 1)
           IN  /\ k = off \div BLOCK_SIZE => c.num = 0
               /\ k + 1 \in Parts(off, count) => c.num + c.len = next.num
               /\ k + 1 \notin Parts(off, count) => c.num + c.len = count
<1> DEFINE b == BLOCK_SIZE
           first == off \div b
           last == (off + count - 1) \div b
           c == Chunk(off, count, k)
           next == Chunk(off, count, k + 1)
<1>1. b \in Nat /\ b > 0 BY Constants
<1>2. first \in Nat /\ off = b * first + (off % b) /\ b * first \in Nat /\ off % b \in Nat
  <2>1. first \in Nat /\ off % b \in 0 .. b - 1 /\ off = b * first + (off % b) BY DivMod
  <2> HIDE DEF first
  <2>2. b * first \in Nat BY <2>1, MulMono
  <2> QED BY <1>1, <2>1, <2>2
<1>3. /\ c.from \in Nat /\ c.num \in Nat /\ c.len \in Nat /\ k \in Nat /\ count > 0
      /\ c.from + c.len <= b /\ k * b + c.from = off + c.num
  BY PartsAre
<1>4. Parts(off, count) = first .. last BY <1>3 DEF Parts
<1>5. /\ last \in Nat /\ b * last \in Nat /\ b * last <= off + count - 1
      /\ off + count - 1 < b * last + b
  <2>1. off + count - 1 \in Nat BY <1>3
  <2>2. last \in Nat /\ off + count - 1 = b * last + ((off + count - 1) % b)
        /\ (off + count - 1) % b \in 0 .. b - 1
    BY <2>1, DivMod
  <2> HIDE DEF last
  <2>3. b * last \in Nat BY <2>2, MulMono
  <2> QED BY <1>1, <2>1, <2>2, <2>3
<1> DEFINE from == IF k = first THEN off % b ELSE 0
           num == k * b + from - off
<1>6. c = [from |-> from, num |-> num, len |-> Min({count - num, b - from})]
  BY DEF Chunk
<1>7. c.from = from /\ c.num = num /\ c.len = Min({count - num, b - from}) BY <1>6
<1>8. k * b = b * k /\ b * k \in Nat
  <2>1. b * k \in Nat BY <1>1, <1>3
  <2> QED BY <1>1, <1>3, <2>1
<1>9. c.len = IF count - c.num <= b - c.from THEN count - c.num ELSE b - c.from
  <2>1. count - c.num \in Int /\ b - c.from \in Int BY <1>1, <1>3
  <2> QED BY <1>7, <2>1, MinMax
<1>10. k = first => c.num = 0
  <2> HIDE DEF first, c, b
  <2> QED BY <1>1, <1>2, <1>3, <1>7, <1>8
<1>11. (k + 1) * b = b * k + b /\ b * (k + 1) = b * k + b BY <1>1, <1>3
<1> HIDE DEF from, num
<1>12. ASSUME k + 1 \in Parts(off, count) PROVE c.num + c.len = next.num
  <2>1. k + 1 <= last /\ k + 1 # first
    <3> HIDE DEF first, last, c, b
    <3> QED BY <1>2, <1>3, <1>4, <1>5, <1>12
  <2>2. next.num = (k + 1) * b + 0 - off
    <3> HIDE DEF first
    <3> QED BY <2>1 DEF Chunk, first
  <2>3. b * k + b <= b * last
    <3> HIDE DEF last
    <3> QED BY <1>3, <1>5, <2>1, MulMono
  <2> HIDE DEF c, b, last, next
  <2>4. b - c.from <= count - c.num BY <1>1, <1>3, <1>5, <1>8, <2>3
  <2>5. c.len = b - c.from
    <3>1. c.from \in Nat /\ c.num \in Nat /\ c.len \in Nat BY <1>3
    <3> QED BY <1>1, <1>9, <2>4, <3>1
  <2> QED BY <1>1, <1>3, <1>8, <1>11, <2>2, <2>5
<1>13. ASSUME k + 1 \notin Parts(off, count) PROVE c.num + c.len = count
  <2>1. k = last
    <3> HIDE DEF first, last, c, b
    <3> QED BY <1>2, <1>3, <1>4, <1>5, <1>13
  <2> HIDE DEF c, b, last, next
  <2>2. count - c.num <= b - c.from BY <1>1, <1>3, <1>5, <1>8, <2>1
  <2> QED BY <1>1, <1>3, <1>9, <2>2
<1> QED BY <1>10, <1>12, <1>13

\* Every byte of a file lies in a block that its inode names.
LEMMA ByteSlot ==
    ASSUME TypeOK, Sound, SizeCovered, NEW i \in Files, NEW k \in Nat,
           k * BLOCK_SIZE < inode[i].size
    PROVE  Slot(i, k) = BlockOf(inode[i], Table(inode[i]), k)
<1>1. i \in Inodes /\ Filled(i) BY FilesAreBlocks DEF Sound
<1>2. inode[i].size \in Nat /\ inode[i].blocks \in Nat BY <1>1, NodeTypes
<1>3. BLOCK_SIZE \in Nat /\ NDirect \in Nat BY Constants
<1>4. inode[i].size <= inode[i].blocks * BLOCK_SIZE BY DEF SizeCovered, Sound
<1>5. k < inode[i].blocks
  <2>1. CASE inode[i].blocks <= k
    <3>1. BLOCK_SIZE * inode[i].blocks <= BLOCK_SIZE * k BY <1>2, <2>1, MulMono
    <3>2. BLOCK_SIZE * inode[i].blocks = inode[i].blocks * BLOCK_SIZE
          /\ BLOCK_SIZE * k = k * BLOCK_SIZE
      BY <1>2, <1>3
    <3>3. BLOCK_SIZE * inode[i].blocks \in Nat /\ BLOCK_SIZE * k \in Nat BY <1>2, MulMono
    <3> QED BY <1>2, <1>4, <3>1, <3>2, <3>3
  <2> QED BY <1>2, <2>1
<1>6. k >= NDirect => inode[i].indirect \in Blocks \ {0}
  BY <1>1, <1>2, <1>3, <1>5 DEF Filled
<1> QED BY <1>6 DEF Slot

\* read_from_inode() puts the bytes of the file into the buffer, one for one.
LEMMA ReadIs ==
    ASSUME TypeOK, Sound, SizeCovered, SizesFit,
           NEW i \in Files, NEW off \in 0 .. inode[i].size, NEW count \in -INT_MAX - 1 .. INT_MAX
    PROVE  read_from_inode(i, off, count)
               = SubSeq(Contents(i), off + 1,
                        IF count < 0 THEN inode[i].size ELSE Min({off + count, inode[i].size}))
<1> DEFINE size == inode[i].size
           most == Signed(Min({Unsigned(size - off), Unsigned(count)}))
           max == Max({most, 0})
           C == Contents(i)
           S == {C[n] : n \in 1 .. size}
           whole == SubSeq(C, off + 1, off + max)
           first == off \div BLOCK_SIZE
           last == (off + max - 1) \div BLOCK_SIZE
           N == Cardinality(Parts(off, max))
           chunk(n) == Chunk(off, max, first + n - 1)
           at == [n \in 0 .. N |-> IF n = 0 THEN 0 ELSE chunk(n).num + chunk(n).len]
           byte(k, c) == data[BlockOf(inode[i], Table(inode[i]), k)][c]
           piece(n) == [c \in 1 .. chunk(n).len |-> byte(first + n - 1, chunk(n).from + c - 1)]
           pieces == [n \in 1 .. N |-> piece(n)]
<1>1. /\ size \in Nat /\ off \in Nat /\ off <= size
      /\ size <= INT_MAX /\ INT_MAX \in Nat /\ count \in Int
  <2>1. i \in Inodes BY FilesAreBlocks
  <2>2. size \in Nat BY <2>1, NodeTypes
  <2>3. size <= (NDirect + NIndirect) * BLOCK_SIZE BY DEF SizesFit, Sound
  <2> DEFINE most2 == (NDirect + NIndirect) * BLOCK_SIZE
  <2>4. INT_MAX \in Nat /\ INT_MAX >= most2 /\ most2 \in Int BY Constants
  <2> HIDE DEF most2, size
  <2>5. size <= most2 BY <2>3 DEF most2, size
  <2>6. off \in 0 .. size BY DEF size
  <2> QED BY <2>2, <2>4, <2>5, <2>6
<1>2. /\ max \in Nat
      /\ off + max = (IF count < 0 THEN size ELSE Min({off + count, size}))
      /\ off + max <= size
  <2>1. Min({off + count, size}) = IF off + count <= size THEN off + count ELSE size
    BY <1>1, MinMax
  <2> DEFINE rest == Unsigned(size - off)
             asked == Unsigned(count)
             least == Min({rest, asked})
  <2> HIDE DEF size
  <2>2. rest = size - off /\ rest \in Nat BY <1>1 DEF Unsigned
  <2>3. asked = (IF count < 0 THEN count + 2 * (INT_MAX + 1) ELSE count) /\ asked \in Nat
    BY <1>1 DEF Unsigned
  <2> HIDE DEF rest, asked
  <2>4. least = IF rest <= asked THEN rest ELSE asked BY <2>2, <2>3, MinMax
  <2> HIDE DEF least
  <2>5. least = IF count < 0 \/ size - off <= count THEN size - off ELSE count
    BY <1>1, <2>2, <2>3, <2>4
  <2>6. least \in Nat /\ least <= INT_MAX BY <1>1, <2>5
  <2>7. most = Signed(least) BY DEF least, rest, asked
  <2> HIDE DEF most
  <2>8. most = least BY <1>1, <2>6, <2>7 DEF Signed
  <2>9. most \in Nat BY <2>6, <2>8
  <2>10. ASSUME NEW m \in Nat PROVE Max({m, 0}) = m BY MinMax
  <2>11. max = least BY <2>8, <2>9, <2>10
  <2> HIDE DEF max
  <2> QED BY <1>1, <2>1, <2>5, <2>6, <2>11
<1>3. read_from_inode(i, off, count) = FlattenSeq(pieces)
  BY DEF read_from_inode
<1> HIDE DEF max, most, size
<1>4. C = [n \in 1 .. size |->
              data[Slot(i, (n - 1) \div BLOCK_SIZE)][(n - 1) % BLOCK_SIZE]]
  BY DEF Contents, size
<1> HIDE DEF C
<1>5. whole \in Seq(S) /\ Len(whole) = max /\ \A x \in 1 .. max : whole[x] = C[off + x]
  <2>1. \A n \in off + 1 .. off + max : C[n] \in S BY <1>1, <1>2
  <2>2. /\ whole \in Seq(S)
        /\ Len(whole) = IF off + 1 <= off + max THEN off + max - (off + 1) + 1 ELSE 0
        /\ \A x \in 1 .. off + max - (off + 1) + 1 : whole[x] = C[off + 1 + x - 1]
    <3> HIDE DEF S
    <3> QED BY <1>1, <1>2, <2>1, SubSeqProperties
  <2> HIDE DEF whole, S
  <2>3. off + max - (off + 1) + 1 = max /\ (off + 1 <= off + max <=> 1 <= max)
    BY <1>1, <1>2
  <2>4. Len(whole) = max BY <1>2, <2>2, <2>3
  <2>5. ASSUME NEW x \in 1 .. max PROVE whole[x] = C[off + x]
    <3>1. off + 1 + x - 1 = off + x BY <1>1
    <3> QED BY <2>2, <2>3, <3>1
  <2> QED BY <2>2, <2>4, <2>5
<1>6. first \in Nat BY <1>1, DivMod
<1>7. /\ N \in Nat
      /\ \A k : k \in Parts(off, max) <=> k \in first .. first + N - 1
      /\ max = 0 => N = 0
  <2>1. CASE max = 0
    <3>1. Parts(off, max) = {} BY <2>1 DEF Parts
    <3>2. N = 0 BY <3>1, FS_EmptySet
    <3> HIDE DEF first, N
    <3> QED BY <1>6, <3>1, <3>2
  <2>2. CASE max # 0
    <3>1. Parts(off, max) = first .. last BY <2>2 DEF Parts
    <3>2. last \in Nat /\ first <= last
      <4>1. off + max - 1 \in Nat BY <1>1, <1>2, <2>2
      <4>2. last \in Nat BY <4>1, DivMod
      <4>3. Ceil(off + max) - 1 \in Parts(off, max)
        <5>1. off \in Nat /\ max \in Nat /\ max > 0 BY <1>1, <1>2, <2>2
        <5> QED BY <5>1, PartsAre
      <4> HIDE DEF first, last
      <4> QED BY <1>6, <3>1, <4>2, <4>3
    <3> HIDE DEF first, last
    <3>3. N = last - first + 1
      <4>1. Cardinality(first .. last) = IF first > last THEN 0 ELSE last - first + 1
        BY <1>6, <3>2, FS_Interval
      <4> QED BY <1>6, <3>1, <3>2, <4>1
    <3> HIDE DEF N
    <3> QED BY <1>6, <2>2, <3>1, <3>2, <3>3
  <2> QED BY <2>1, <2>2
<1>8. ASSUME NEW n \in 1 .. N
      PROVE  /\ first + n - 1 \in Parts(off, max) /\ first + n - 1 \in Nat
             /\ chunk(n).from \in Nat /\ chunk(n).num \in Nat /\ chunk(n).len \in Nat
             /\ chunk(n).from + chunk(n).len <= BLOCK_SIZE
             /\ chunk(n).num + chunk(n).len <= max
             /\ (first + n - 1) * BLOCK_SIZE + chunk(n).from = off + chunk(n).num
  <2> HIDE DEF N, first
  <2>1. first + n - 1 \in first .. first + N - 1 BY <1>6, <1>7
  <2>2. first + n - 1 \in Parts(off, max) BY <1>7, <2>1
  <2> QED BY <1>1, <1>2, <2>2, PartsAre
<1>9. /\ N > 0 => chunk(1).num = 0
      /\ \A n \in 1 .. N : n < N => chunk(n).num + chunk(n).len = chunk(n + 1).num
      /\ N > 0 => chunk(N).num + chunk(N).len = max
  <2> HIDE DEF N
  <2>1. ASSUME N > 0 PROVE chunk(1).num = 0
    <3>1. 1 \in 1 .. N BY <1>7, <2>1
    <3>2. first + 1 - 1 \in Parts(off, max) /\ first + 1 - 1 = first BY <1>6, <1>8, <3>1
    <3> QED BY <1>1, <1>2, <3>2, ChunksJoin
  <2>2. ASSUME NEW n \in 1 .. N, n < N
        PROVE  chunk(n).num + chunk(n).len = chunk(n + 1).num
    <3>1. n + 1 \in 1 .. N BY <1>7, <2>2
    <3> DEFINE k == first + n - 1
    <3>2. k \in Parts(off, max) /\ first + (n + 1) - 1 \in Parts(off, max)
      BY <1>8, <3>1
    <3>3. first + (n + 1) - 1 = k + 1
      <4> HIDE DEF first
      <4> QED BY <1>6
    <3> HIDE DEF k
    <3>4. Chunk(off, max, k).num + Chunk(off, max, k).len = Chunk(off, max, k + 1).num
      BY <1>1, <1>2, <3>2, <3>3, ChunksJoin
    <3> QED BY <3>3, <3>4 DEF k
  <2>3. ASSUME N > 0 PROVE chunk(N).num + chunk(N).len = max
    <3>1. N \in 1 .. N BY <1>7, <2>3
    <3> DEFINE k == first + N - 1
    <3>2. k \in Parts(off, max) BY <1>8, <3>1
    <3>3. k + 1 \notin Parts(off, max)
      <4> HIDE DEF first
      <4> QED BY <1>6, <1>7
    <3> HIDE DEF k
    <3>4. Chunk(off, max, k).num + Chunk(off, max, k).len = max
      BY <1>1, <1>2, <3>2, <3>3, ChunksJoin
    <3> QED BY <3>4 DEF k
  <2> QED BY <2>1, <2>2, <2>3
<1>10. ASSUME NEW n \in 1 .. N
       PROVE  piece(n) = SubSeq(whole, chunk(n).num + 1, chunk(n).num + chunk(n).len)
  <2>1. PICK k : k = first + n - 1 OBVIOUS
  <2>2. PICK c : c = chunk(n) OBVIOUS
  <2> DEFINE part == SubSeq(whole, c.num + 1, c.num + c.len)
  <2>3. /\ k \in Nat /\ c.from \in Nat /\ c.num \in Nat /\ c.len \in Nat
        /\ c.from + c.len <= BLOCK_SIZE /\ c.num + c.len <= max
        /\ k * BLOCK_SIZE + c.from = off + c.num
    BY <1>8, <2>1, <2>2
  <2>4. /\ part \in Seq(S) /\ Len(part) = c.len
        /\ \A x \in 1 .. c.len : part[x] = whole[c.num + x]
    <3> HIDE DEF whole, S
    <3>1. \A m \in 1 .. max : whole[m] \in S BY <1>5, ElementOfSeq
    <3>2. \A m \in c.num + 1 .. c.num + c.len : whole[m] \in S BY <1>2, <2>3, <3>1
    <3>3. /\ part \in Seq(S)
          /\ Len(part) = IF c.num + 1 <= c.num + c.len
                         THEN c.num + c.len - (c.num + 1) + 1 ELSE 0
          /\ \A x \in 1 .. c.num + c.len - (c.num + 1) + 1 : part[x] = whole[c.num + 1 + x - 1]
      BY <2>3, <3>2, SubSeqProperties
    <3> HIDE DEF part
    <3>4. c.num + c.len - (c.num + 1) + 1 = c.len
          /\ (c.num + 1 <= c.num + c.len <=> 1 <= c.len)
      BY <2>3
    <3>5. Len(part) = c.len BY <2>3, <3>3, <3>4
    <3>6. ASSUME NEW x \in 1 .. c.len PROVE part[x] = whole[c.num + x]
      <4>1. c.num + 1 + x - 1 = c.num + x BY <2>3
      <4> QED BY <3>3, <3>4, <4>1
    <3> QED BY <3>3, <3>5, <3>6
  <2>5. ASSUME NEW x \in 1 .. c.len PROVE part[x] = byte(k, c.from + x - 1)
    <3>1. c.num + x \in 1 .. max BY <1>2, <2>3
    <3>2. part[x] = C[off + (c.num + x)] BY <1>5, <2>4, <3>1
    <3> DEFINE m == off + (c.num + x)
               r == c.from + x - 1
    <3>3. BLOCK_SIZE \in Nat /\ k * BLOCK_SIZE = BLOCK_SIZE * k /\ BLOCK_SIZE * k \in Nat
      BY <2>3, Constants, MulMono
    <3>4. m \in 1 .. size /\ m - 1 = BLOCK_SIZE * k + r
      BY <1>1, <1>2, <2>3, <3>1, <3>3
    <3>5. r \in 0 .. BLOCK_SIZE - 1 BY <2>3, <3>3
    <3> HIDE DEF m, r
    <3>6. (m - 1) \div BLOCK_SIZE = k /\ (m - 1) % BLOCK_SIZE = r
      BY <2>3, <3>4, <3>5, Quotient
    <3>7. C[m] = data[Slot(i, k)][r] BY <1>4, <3>4, <3>6
    <3>8. k * BLOCK_SIZE < inode[i].size BY <1>1, <3>3, <3>4, <3>5 DEF size
    <3>9. Slot(i, k) = BlockOf(inode[i], Table(inode[i]), k) BY <2>3, <3>8, ByteSlot
    <3> QED BY <3>2, <3>7, <3>9 DEF m, r
  <2>6. part = [x \in 1 .. c.len |-> part[x]]
    <3> HIDE DEF part, S
    <3> QED BY <2>4, LenProperties
  <2>7. piece(n) = [x \in 1 .. c.len |-> byte(k, c.from + x - 1)] BY <2>1, <2>2
  <2> HIDE DEF piece, byte, part, chunk
  <2>8. piece(n) = part BY <2>5, <2>6, <2>7
  <2> QED BY <2>2, <2>8 DEF part
<1> HIDE DEF piece, chunk, S, whole, N, first
<1>11. FlattenSeq(pieces) = whole
  <2>1. /\ at[0] = 0
        /\ \A n \in 1 .. N : at[n] = chunk(n).num + chunk(n).len
    BY <1>7
  <2>2. ASSUME NEW n \in 1 .. N PROVE at[n - 1] = chunk(n).num
    <3>1. CASE n = 1 BY <1>7, <1>9, <2>1, <2>2, <3>1
    <3>2. CASE n # 1
      <4>1. n - 1 \in 1 .. N /\ n - 1 < N /\ (n - 1) + 1 = n BY <1>7, <2>2, <3>2
      <4> QED BY <1>9, <2>1, <4>1
    <3> QED BY <3>1, <3>2
  <2> HIDE DEF at
  <2>3. at[N] = Len(whole)
    <3>1. CASE N = 0
      <4>1. max = 0
        <5>1. \A k : k \notin Parts(off, max) BY <1>6, <1>7, <3>1
        <5>2. max > 0 => Ceil(off + max) - 1 \in Parts(off, max) BY <1>1, <1>2, PartsAre
        <5> QED BY <1>2, <5>1, <5>2
      <4> QED BY <1>5, <2>1, <3>1, <4>1
    <3>2. CASE N # 0
      <4>1. N \in 1 .. N /\ N > 0 BY <1>7, <3>2
      <4> QED BY <1>5, <1>9, <2>1, <4>1
    <3> QED BY <3>1, <3>2
  <2>4. \A n \in 0 .. N : at[n] \in 0 .. Len(whole)
    <3>1. ASSUME NEW n \in 1 .. N PROVE at[n] \in 0 .. Len(whole)
      <4>1. at[n] = chunk(n).num + chunk(n).len BY <2>1
      <4>2. /\ chunk(n).num \in Nat /\ chunk(n).len \in Nat
            /\ chunk(n).num + chunk(n).len <= max
        BY <1>8
      <4>3. max \in Nat /\ Len(whole) = max BY <1>2, <1>5
      <4> QED BY <4>1, <4>2, <4>3
    <3>2. at[0] \in 0 .. Len(whole) BY <1>2, <1>5, <2>1
    <3>3. \A n \in 0 .. N : n = 0 \/ n \in 1 .. N BY <1>7
    <3> QED BY <3>1, <3>2, <3>3
  <2>5. \A n \in 1 .. N : at[n - 1] <= at[n]
    <3>1. ASSUME NEW n \in 1 .. N PROVE at[n - 1] <= at[n]
      BY <1>8, <2>1, <2>2
    <3> QED BY <3>1
  <2>6. pieces = [n \in 1 .. N |-> SubSeq(whole, at[n - 1] + 1, at[n])]
    <3>1. \A n \in 1 .. N : piece(n) = SubSeq(whole, at[n - 1] + 1, at[n])
      BY <1>10, <2>1, <2>2
    <3> QED BY <3>1
  <2> HIDE DEF pieces
  <2>7. whole \in Seq(S) /\ N \in Nat /\ at[0] = 0 BY <1>5, <1>7, <2>1
  <2> QED BY ONLY <2>3, <2>4, <2>5, <2>6, <2>7, FlattenPieces
<1> QED BY <1>2, <1>3, <1>11 DEF whole, C, size

\* A read never goes past the end of the file.
LEMMA ReadLength ==
    ASSUME TypeOK, Sound, SizeCovered, SizesFit,
           NEW i \in Files, NEW off \in 0 .. inode[i].size, NEW count \in -INT_MAX - 1 .. INT_MAX
    PROVE  /\ Len(read_from_inode(i, off, count)) \in Nat
           /\ off + Len(read_from_inode(i, off, count)) <= inode[i].size
<1> DEFINE size == inode[i].size
           max == IF count < 0 THEN size ELSE Min({off + count, size})
           C == Contents(i)
           S == {C[n] : n \in 1 .. size}
           read == SubSeq(C, off + 1, max)
<1>1. i \in Inodes BY FilesAreBlocks
<1>2. size \in Nat /\ off \in Nat /\ off <= size
  <2>1. size \in Nat BY <1>1, NodeTypes
  <2> QED BY <2>1
<1>3. read_from_inode(i, off, count) = read BY ReadIs
<1> HIDE DEF size
<1>4. max \in Nat /\ max <= size /\ off <= max
  <2>1. count \in Int BY Constants
  <2>2. Min({off + count, size}) = IF off + count <= size THEN off + count ELSE size
    BY <1>2, <2>1, MinMax
  <2> QED BY <1>2, <2>1, <2>2
<1> HIDE DEF max, C
<1>5. Len(read) = IF off + 1 <= max THEN max - (off + 1) + 1 ELSE 0
  <2>1. \A n \in off + 1 .. max : C[n] \in S BY <1>2, <1>4
  <2> HIDE DEF S
  <2> QED BY <1>2, <1>4, <2>1, SubSeqProperties
<1> HIDE DEF read
<1>6. Len(read) \in Nat /\ off + Len(read) <= size BY <1>2, <1>4, <1>5
<1> QED BY <1>3, <1>6 DEF size

-----------------------------------------------------------------------------
(* The theorems                                                            *)

\* Whatever is packed, created and written, every variable of the image keeps
\* its type: alloc_free_block() never goes below block 0 or past the last one.
THEOREM Typed == Spec => []TypeOK
<1>1. IInv => TypeOK BY IInvIs
<1> QED BY <1>1, Invariant, PTL

\* No block is named twice, every block with its bit set is named, and the
\* superblock counts the others.
THEOREM BlocksStayExact == Spec => []BlocksExact
<1>1. IInv => BlocksExact BY DEF IInv
<1> QED BY <1>1, Invariant, PTL

\* A file has as many blocks as its size calls for, one after the other.
THEOREM SizesStayCovered == Spec => []SizeCovered
<1>1. IInv => SizeCovered BY DEF IInv
<1> QED BY <1>1, Invariant, PTL

\* A block that nothing names is a block of zeros, as increase_size() expects
\* of a new indirect block.
THEOREM FreshBlocksStayZero == Spec => []FreshBlocksZero
<1>1. IInv => FreshBlocksZero BY DEF IInv
<1> QED BY <1>1, Invariant, PTL

\* The FAT has no gap and no name twice.
THEOREM DirectoryStaysExact == Spec => []DirectoryExact
<1>1. IInv => DirectoryExact BY DEF IInv
<1> QED BY <1>1, Invariant, PTL

\* For every int that read_from_inode() can be asked for, those below 0
\* included, it returns what the file holds: the blocks it walks through are
\* those of the file, in their order, and it stops where ReadsExact says.
THEOREM ReadsStayExact == Spec => []ReadsExact
<1>1. IInv => ReadsExact
  <2> SUFFICES ASSUME IInv, mode # "wild", NEW i \in Files, NEW off \in 0 .. inode[i].size,
                      NEW count \in -INT_MAX - 1 .. INT_MAX
               PROVE  read_from_inode(i, off, count)
                          = SubSeq(Contents(i), off + 1,
                                   IF count < 0 THEN inode[i].size
                                   ELSE Min({off + count, inode[i].size}))
    BY DEF ReadsExact
  <2>1. TypeOK /\ Sound /\ SizeCovered /\ SizesFit BY IInvIs
  <2> QED BY <2>1, ReadIs
<1> QED BY <1>1, Invariant, PTL
=============================================================================
