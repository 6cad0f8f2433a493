---------------------------- MODULE BuddyProofs ----------------------------
(***************************************************************************)
(* The allocator hands no byte out twice, loses none, merges every pair of *)
(* free buddies and panics only when it must, for every region, every      *)
(* number of orders and every set of sizes.                                *)
(*                                                                         *)
(* The argument is about sets of blocks: PUSH, POP and UNLINK add or take  *)
(* away one block, and the blocks tile the region before and after a block *)
(* is split, two buddies are merged, or the region grows by a block.  An   *)
(* XEffect lemma says what the action X does to these sets.                *)
(***************************************************************************)
EXTENDS Buddy, SequenceLemmas, TLAPS

Blocks == [addr : Nat, order : Orders]

ListsOK(lists) ==
    /\ lists \in [Orders -> Seq(Nat)]
    /\ \A o \in Orders : IsInjective(lists[o])

-----------------------------------------------------------------------------
(* The lists as sets of blocks                                             *)

\* The sizes double from order to order.
LEMMA SizeFacts ==
    /\ \A o \in 0 .. MaxOrder : Size[o] \in Nat /\ Size[o] > 0
    /\ \A o \in Orders : /\ o \in 0 .. MaxOrder /\ o + 1 \in 0 .. MaxOrder
                         /\ Size[o + 1] = 2 * Size[o]
  BY BuddyAssumption DEF Orders

\* A block is free when its address is on the list of its order.
LEMMA InBlocksOn ==
    ASSUME NEW lists
    PROVE  /\ \A b : b \in BlocksOn(lists) <=>
                  \E o \in Orders : \E a \in ToSet(lists[o]) : b = Block(a, o)
           /\ \A o \in Orders : \A a :
                  Block(a, o) \in BlocksOn(lists) <=> a \in ToSet(lists[o])
<1>1. \A b : b \in BlocksOn(lists) <=>
          \E o \in Orders : \E a \in ToSet(lists[o]) : b = Block(a, o)
  BY DEF BlocksOn
<1>2. \A a, c, o, n : Block(a, o) = Block(c, n) => a = c /\ o = n
  BY DEF Block
<1> QED  BY <1>1, <1>2

\* Free blocks are records of an address and an order.
LEMMA BlocksOnType ==
    ASSUME NEW lists, ListsOK(lists)
    PROVE  BlocksOn(lists) \subseteq Blocks
<1>1. \A o \in Orders : ToSet(lists[o]) \subseteq Nat
  BY ToSetIsRange DEF ListsOK
<1> QED  BY <1>1, InBlocksOn DEF Block, Blocks

\* What changing one list does to the blocks.
LEMMA ChangeList ==
    ASSUME NEW lists, ListsOK(lists), NEW o \in Orders,
           NEW s \in Seq(Nat), IsInjective(s),
           NEW new \in [Orders -> Seq(Nat)],
           new[o] = s, \A n \in Orders : n # o => new[n] = lists[n]
    PROVE  /\ ListsOK(new)
           /\ \A b : b \in BlocksOn(new) <=>
                  \/ b \in BlocksOn(lists) /\ b.order # o
                  \/ \E a \in ToSet(s) : b = Block(a, o)
<1>1. new[o] = s /\ \A n \in Orders \ {o} : new[n] = lists[n]
  OBVIOUS
<1>2. ListsOK(new)
  BY <1>1 DEF ListsOK
<1>3. \A a, n : Block(a, n).order = n
  BY DEF Block
<1>4. ASSUME NEW b \in BlocksOn(new)
      PROVE  \/ b \in BlocksOn(lists) /\ b.order # o
             \/ \E a \in ToSet(s) : b = Block(a, o)
  <2>1. PICK n \in Orders : \E a \in ToSet(new[n]) : b = Block(a, n)
    BY InBlocksOn
  <2>2. CASE n = o
    BY <1>1, <2>1, <2>2
  <2>3. CASE n # o
    <3>1. b \in BlocksOn(lists) /\ b.order # o
      BY <1>1, <1>3, <2>1, <2>3, InBlocksOn
    <3> QED  BY <3>1
  <2> QED  BY <2>2, <2>3
<1>5. ASSUME NEW b \in BlocksOn(lists), b.order # o
      PROVE  b \in BlocksOn(new)
  <2>1. PICK n \in Orders : \E a \in ToSet(lists[n]) : b = Block(a, n)
    BY InBlocksOn
  <2>2. n # o
    BY <1>3, <1>5, <2>1
  <2> QED  BY <1>1, <2>1, <2>2, InBlocksOn
<1>6. ASSUME NEW a \in ToSet(s)  PROVE  Block(a, o) \in BlocksOn(new)
  BY <1>1, InBlocksOn
<1> QED  BY <1>2, <1>4, <1>5, <1>6

\* PUSH adds one block, at the head of its list.
LEMMA PushBlocks ==
    ASSUME NEW lists, ListsOK(lists), NEW o \in Orders, NEW a \in Nat,
           Block(a, o) \notin BlocksOn(lists)
    PROVE  /\ ListsOK(PUSH(lists, a, o))
           /\ BlocksOn(PUSH(lists, a, o)) = BlocksOn(lists) \cup {Block(a, o)}
           /\ PUSH(lists, a, o)[o] # <<>> /\ Head(PUSH(lists, a, o)[o]) = a
<1> DEFINE s == <<a>> \o lists[o]
<1>1. lists[o] \in Seq(Nat) /\ IsInjective(lists[o]) /\ a \notin ToSet(lists[o])
  BY InBlocksOn DEF ListsOK
<1>2. s \in Seq(Nat) /\ IsInjective(s) /\ ToSet(s) = ToSet(lists[o]) \cup {a}
  BY <1>1, ConsElements
<1>3. s # <<>> /\ Head(s) = a
  <2>1. Len(s) = Len(lists[o]) + 1 /\ s[1] = a /\ Len(lists[o]) \in Nat
    BY <1>1, LenProperties
  <2> QED  BY <1>2, <2>1
<1>4. PUSH(lists, a, o) = [lists EXCEPT ![o] = s]
  BY DEF PUSH
<1>5. PUSH(lists, a, o)[o] = s
  BY <1>4 DEF ListsOK
<1> HIDE DEF s
<1> DEFINE new == PUSH(lists, a, o)
<1> HIDE DEF new
<1>6. /\ ListsOK(new)
      /\ \A b : b \in BlocksOn(new) <=>
             \/ b \in BlocksOn(lists) /\ b.order # o
             \/ \E c \in ToSet(s) : b = Block(c, o)
  <2>1. /\ new \in [Orders -> Seq(Nat)]
        /\ new[o] = s /\ \A n \in Orders : n # o => new[n] = lists[n]
    BY <1>2, <1>4 DEF new, ListsOK
  <2> QED  BY <1>2, <2>1, ChangeList
<1>7. BlocksOn(new) = BlocksOn(lists) \cup {Block(a, o)}
  <2>1. \A b \in BlocksOn(lists) : b.order = o => \E c \in ToSet(s) : b = Block(c, o)
    BY <1>2, InBlocksOn DEF Block
  <2>2. \A c \in ToSet(s) : c = a \/ Block(c, o) \in BlocksOn(lists)
    BY <1>2, InBlocksOn
  <2>3. \E c \in ToSet(s) : Block(a, o) = Block(c, o)
    BY <1>2
  <2> QED  BY <1>6, <2>1, <2>2, <2>3
<1> QED  BY <1>3, <1>5, <1>6, <1>7 DEF new

\* UNLINK takes away the block it is told, wherever that is on its list.
LEMMA UnlinkBlocks ==
    ASSUME NEW lists, ListsOK(lists), NEW o \in Orders, NEW i \in DOMAIN lists[o]
    PROVE  /\ ListsOK(UNLINK(lists, o, i))
           /\ BlocksOn(UNLINK(lists, o, i)) =
                 BlocksOn(lists) \ {Block(lists[o][i], o)}
<1> DEFINE s == RemoveAt(lists[o], i)
<1>1. lists[o] \in Seq(Nat) /\ IsInjective(lists[o])
  BY DEF ListsOK
<1>2. /\ s \in Seq(Nat) /\ IsInjective(s)
      /\ ToSet(s) = ToSet(lists[o]) \ {lists[o][i]}
  BY <1>1, RemoveAtIsSeq, RemoveAtElements
<1>3. UNLINK(lists, o, i) = [lists EXCEPT ![o] = s]
  BY DEF UNLINK
<1> HIDE DEF s
<1> DEFINE new == UNLINK(lists, o, i)
<1> HIDE DEF new
<1>4. /\ ListsOK(new)
      /\ \A b : b \in BlocksOn(new) <=>
             \/ b \in BlocksOn(lists) /\ b.order # o
             \/ \E c \in ToSet(s) : b = Block(c, o)
  <2>1. /\ new \in [Orders -> Seq(Nat)]
        /\ new[o] = s /\ \A n \in Orders : n # o => new[n] = lists[n]
    BY <1>2, <1>3 DEF new, ListsOK
  <2> QED  BY <1>2, <2>1, ChangeList
<1>5. \A b \in BlocksOn(lists) :
          b.order = o => b.addr \in ToSet(lists[o]) /\ b = Block(b.addr, o)
  BY InBlocksOn DEF Block
<1>6. \A c : Block(c, o).addr = c /\ Block(c, o).order = o
  BY DEF Block
<1>7. \A c \in ToSet(s) : Block(c, o) \in BlocksOn(lists) /\ c # lists[o][i]
  BY <1>2, InBlocksOn
<1>8. BlocksOn(new) = BlocksOn(lists) \ {Block(lists[o][i], o)}
  <2>1. \A c \in ToSet(s) : Block(c, o) # Block(lists[o][i], o)
    BY <1>6, <1>7
  <2>2. \A b \in BlocksOn(lists) :
            b.order = o /\ b # Block(lists[o][i], o) => b.addr \in ToSet(s)
    BY <1>2, <1>5
  <2> QED  BY <1>4, <1>5, <1>6, <1>7, <2>1, <2>2
<1> QED  BY <1>4, <1>8 DEF new

\* POP takes away the block at the head.
LEMMA PopBlocks ==
    ASSUME NEW lists, ListsOK(lists), NEW o \in Orders, lists[o] # <<>>
    PROVE  /\ Head(lists[o]) \in Nat
           /\ Block(Head(lists[o]), o) \in BlocksOn(lists)
           /\ ListsOK(POP(lists, o))
           /\ BlocksOn(POP(lists, o)) =
                 BlocksOn(lists) \ {Block(Head(lists[o]), o)}
<1>1. lists[o] \in Seq(Nat) /\ IsInjective(lists[o])
  BY DEF ListsOK
<1>2. Len(lists[o]) \in Nat /\ Len(lists[o]) > 0 /\ 1 \in DOMAIN lists[o]
  BY <1>1, LenProperties, EmptySeq
<1>3. Head(lists[o]) = lists[o][1] /\ lists[o][1] \in Nat
  BY <1>1, <1>2, ElementOfSeq
<1>4. RemoveAt(lists[o], 1) = Tail(lists[o])
  <2>1. /\ RemoveAt(lists[o], 1) \in Seq(Nat)
        /\ Len(RemoveAt(lists[o], 1)) = Len(lists[o]) - 1
        /\ \A j \in 1 .. Len(lists[o]) - 1 :
              RemoveAt(lists[o], 1)[j] = lists[o][j + 1]
    BY <1>1, <1>2, RemoveAtIsSeq
  <2>2. /\ Tail(lists[o]) \in Seq(Nat)
        /\ Len(Tail(lists[o])) = Len(lists[o]) - 1
        /\ \A j \in 1 .. Len(lists[o]) - 1 : Tail(lists[o])[j] = lists[o][j + 1]
    BY <1>1, <1>2, HeadTailProperties
  <2> DEFINE s == RemoveAt(lists[o], 1)
             t == Tail(lists[o])
  <2> HIDE DEF s, t
  <2>3. s \in Seq(Nat) /\ t \in Seq(Nat) /\ Len(s) = Len(t)
    BY <2>1, <2>2 DEF s, t
  <2>4. \A j \in 1 .. Len(s) : s[j] = t[j]
    BY <2>1, <2>2 DEF s, t
  <2>5. s = t
    BY <2>3, <2>4, SeqEqual
  <2> QED  BY <2>5 DEF s, t
<1>5. POP(lists, o) = UNLINK(lists, o, 1)
  BY <1>4 DEF POP, UNLINK
<1>6. lists[o][1] \in ToSet(lists[o])
  BY <1>2 DEF ToSet
<1> QED  BY <1>2, <1>3, <1>5, <1>6, UnlinkBlocks, InBlocksOn

-----------------------------------------------------------------------------
(* The blocks as tiles of the region                                       *)

Apart(S) == \A b, c \in S : b = c \/ Disjoint(b, c)
Inside(S, hi) == \A b \in S : Start <= b.addr /\ b.addr + Size[b.order] <= hi
Covers(S, hi) == \A x \in Start .. hi - 1 : \E b \in S : Within(x, b)

\* S tiles the region from Start up to hi.
Tiles(S, hi) == S \subseteq Blocks /\ Apart(S) /\ Inside(S, hi) /\ Covers(S, hi)

\* Numbers only: addresses and sizes of blocks.
LEMMA BlockFacts ==
    /\ \A b \in Blocks : /\ b.addr \in Nat /\ b.order \in Orders
                         /\ Size[b.order] \in Nat /\ Size[b.order] > 0
    /\ \A a \in Nat : \A o \in Orders :
          /\ Block(a, o) \in Blocks
          /\ Block(a, o).addr = a /\ Block(a, o).order = o
    /\ \A b, c \in Blocks : Disjoint(b, c) <=> Disjoint(c, b)
    /\ \A b \in Blocks : ~Disjoint(b, b)
<1>1. \A b \in Blocks : /\ b.addr \in Nat /\ b.order \in Orders
                        /\ Size[b.order] \in Nat /\ Size[b.order] > 0
  BY SizeFacts DEF Blocks
<1>2. \A a \in Nat : \A o \in Orders :
          /\ Block(a, o) \in Blocks
          /\ Block(a, o).addr = a /\ Block(a, o).order = o
  BY DEF Blocks, Block
<1>3. \A b \in Blocks : ~Disjoint(b, b)
  BY <1>1 DEF Disjoint
<1> QED  BY <1>1, <1>2, <1>3 DEF Disjoint

\* add_to_buddy() appends a tile.
LEMMA GrowTiles ==
    ASSUME NEW S, NEW hi \in Nat, Tiles(S, hi), Start <= hi, NEW o \in Orders
    PROVE  /\ Block(hi, o) \notin S
           /\ Tiles(S \cup {Block(hi, o)}, hi + Size[o])
<1> DEFINE n == Block(hi, o)
<1>1. n \in Blocks /\ n.addr = hi /\ n.order = o
  BY BlockFacts
<1> HIDE DEF n
<1>2. Size[o] \in Nat /\ Size[o] > 0 /\ Start \in Nat
  BY SizeFacts, BuddyAssumption DEF Orders
<1>3. \A b \in S : b \in Blocks /\ Disjoint(b, n) /\ b # n
  BY <1>1, <1>2, BlockFacts DEF Tiles, Inside, Disjoint
<1>4. Apart(S \cup {n})
  BY <1>1, <1>3, BlockFacts DEF Tiles, Apart
<1>5. Inside(S \cup {n}, hi + Size[o])
  <2>1. \A b \in S : b.addr + Size[b.order] <= hi + Size[o]
    BY <1>2, <1>3, BlockFacts DEF Tiles, Inside
  <2> QED  BY <1>1, <1>2, <2>1 DEF Tiles, Inside
<1>6. Covers(S \cup {n}, hi + Size[o])
  <2> SUFFICES ASSUME NEW x \in Start .. hi + Size[o] - 1
               PROVE  \E b \in S \cup {n} : Within(x, b)
    BY <1>2 DEF Covers
  <2>1. CASE x < hi
    <3>1. x \in Start .. hi - 1
      BY <1>2, <2>1
    <3> QED  BY <3>1 DEF Tiles, Covers
  <2>2. CASE x >= hi
    <3>1. Within(x, n)
      BY <1>1, <1>2, <2>2 DEF Within
    <3> QED  BY <3>1
  <2> QED  BY <1>2, <2>1, <2>2
<1> QED  BY <1>1, <1>3, <1>4, <1>5, <1>6 DEF Tiles, n

\* A block is exchanged for two that lie in it side by side.
LEMMA SplitTiles ==
    ASSUME NEW S, NEW hi \in Nat, Tiles(S, hi), NEW a \in Nat,
           NEW o \in Orders, o + 1 \in Orders, Block(a, o + 1) \in S
    PROVE  /\ Block(a, o) \notin S /\ Block(a + Size[o], o) \notin S
           /\ Tiles((S \ {Block(a, o + 1)})
                        \cup {Block(a, o), Block(a + Size[o], o)}, hi)
<1> DEFINE w == Block(a, o + 1)
           l == Block(a, o)
           u == Block(a + Size[o], o)
<1>1. /\ Size[o] \in Nat /\ Size[o] > 0 /\ Size[o + 1] = 2 * Size[o]
      /\ Start \in Nat
  BY SizeFacts, BuddyAssumption DEF Orders
<1>2. /\ w \in Blocks /\ w.addr = a /\ w.order = o + 1
      /\ l \in Blocks /\ l.addr = a /\ l.order = o
      /\ u \in Blocks /\ u.addr = a + Size[o] /\ u.order = o
      /\ w \in S
  BY <1>1, BlockFacts
<1> HIDE DEF w, l, u
<1>3. \A b \in S \ {w} : b \in Blocks /\ Disjoint(b, l) /\ Disjoint(b, u)
  <2> SUFFICES ASSUME NEW b \in S \ {w}
               PROVE  b \in Blocks /\ Disjoint(b, l) /\ Disjoint(b, u)
    OBVIOUS
  <2>1. b \in Blocks /\ Disjoint(b, w)
    BY <1>2 DEF Tiles, Apart
  <2> QED  BY <1>1, <1>2, <2>1, BlockFacts DEF Disjoint
<1>4. l # w /\ u # w /\ l # u /\ Disjoint(l, u)
  BY <1>1, <1>2 DEF Disjoint
<1>5. l \notin S /\ u \notin S
  BY <1>2, <1>3, <1>4, BlockFacts
<1> DEFINE T == (S \ {w}) \cup {l, u}
<1>6. Apart(T)
  BY <1>2, <1>3, <1>4, BlockFacts DEF Tiles, Apart
<1>7. Inside(T, hi)
  <2>1. Start <= a /\ a + 2 * Size[o] <= hi /\ Start \in Nat
    BY <1>1, <1>2, BuddyAssumption DEF Tiles, Inside
  <2>2. /\ Start <= l.addr /\ l.addr + Size[l.order] <= hi
        /\ Start <= u.addr /\ u.addr + Size[u.order] <= hi
    BY <1>1, <1>2, <2>1
  <2> QED  BY <2>2 DEF Tiles, Inside
<1>8. Covers(T, hi)
  <2> SUFFICES ASSUME NEW x \in Start .. hi - 1
               PROVE  \E b \in T : Within(x, b)
    BY DEF Covers
  <2>1. PICK b \in S : Within(x, b)
    BY DEF Tiles, Covers
  <2>2. CASE b = w
    <3>1. b.addr <= x /\ x < b.addr + Size[b.order]
      BY <2>1 DEF Within
    <3>2. x \in Int /\ a <= x /\ x < a + 2 * Size[o]
      BY <1>1, <1>2, <2>2, <3>1
    <3>3. Within(x, l) \/ Within(x, u)
      BY <1>1, <1>2, <3>2 DEF Within
    <3> QED  BY <3>3
  <2>3. CASE b # w
    BY <2>1, <2>3
  <2> QED  BY <2>2, <2>3
<1>9. T \subseteq Blocks
  BY <1>2 DEF Tiles
<1> QED  BY <1>5, <1>6, <1>7, <1>8, <1>9 DEF Tiles, w, l, u

\* Two blocks that lie side by side are exchanged for their union.
LEMMA MergeTiles ==
    ASSUME NEW S, NEW hi \in Nat, Tiles(S, hi), NEW a \in Nat,
           NEW o \in Orders, o + 1 \in Orders,
           Block(a, o) \in S, Block(a + Size[o], o) \in S
    PROVE  /\ Block(a, o + 1) \notin S
           /\ Tiles((S \ {Block(a, o), Block(a + Size[o], o)})
                        \cup {Block(a, o + 1)}, hi)
<1> DEFINE w == Block(a, o + 1)
           l == Block(a, o)
           u == Block(a + Size[o], o)
<1>1. /\ Size[o] \in Nat /\ Size[o] > 0 /\ Size[o + 1] = 2 * Size[o]
      /\ Start \in Nat
  BY SizeFacts, BuddyAssumption DEF Orders
<1>2. /\ w \in Blocks /\ w.addr = a /\ w.order = o + 1
      /\ l \in Blocks /\ l.addr = a /\ l.order = o
      /\ u \in Blocks /\ u.addr = a + Size[o] /\ u.order = o
      /\ l \in S /\ u \in S
  BY <1>1, BlockFacts
<1> HIDE DEF w, l, u
<1>3. \A b \in S \ {l, u} : b \in Blocks /\ Disjoint(b, w)
  <2> SUFFICES ASSUME NEW b \in S \ {l, u}
               PROVE  b \in Blocks /\ Disjoint(b, w)
    OBVIOUS
  <2>1. b \in Blocks /\ Disjoint(b, l) /\ Disjoint(b, u)
    BY <1>2 DEF Tiles, Apart
  <2> QED  BY <1>1, <1>2, <2>1, BlockFacts DEF Disjoint
<1>4. w # l /\ w # u
  BY <1>1, <1>2
<1>5. w \notin S
  BY <1>2, <1>3, <1>4, BlockFacts
<1> DEFINE T == (S \ {l, u}) \cup {w}
<1>6. Apart(T)
  BY <1>2, <1>3, BlockFacts DEF Tiles, Apart
<1>7. Inside(T, hi)
  <2>1. /\ Start <= a /\ Start \in Nat
        /\ a + Size[o] + Size[o] <= hi
    BY <1>1, <1>2, BuddyAssumption DEF Tiles, Inside
  <2>2. Start <= w.addr /\ w.addr + Size[w.order] <= hi
    BY <1>1, <1>2, <2>1
  <2> QED  BY <2>2 DEF Tiles, Inside
<1>8. Covers(T, hi)
  <2> SUFFICES ASSUME NEW x \in Start .. hi - 1
               PROVE  \E b \in T : Within(x, b)
    BY DEF Covers
  <2>1. PICK b \in S : Within(x, b)
    BY DEF Tiles, Covers
  <2>2. CASE b \in {l, u}
    <3>1. b.addr <= x /\ x < b.addr + Size[b.order]
      BY <2>1 DEF Within
    <3>2. x \in Int /\ a <= x /\ x < a + 2 * Size[o]
      BY <1>1, <1>2, <2>2, <3>1
    <3>3. Within(x, w)
      BY <1>1, <1>2, <3>2 DEF Within
    <3> QED  BY <3>3
  <2>3. CASE b \notin {l, u}
    BY <2>1, <2>3
  <2> QED  BY <2>2, <2>3
<1>9. T \subseteq Blocks
  BY <1>2 DEF Tiles
<1> QED  BY <1>5, <1>6, <1>7, <1>8, <1>9 DEF Tiles, w, l, u

-----------------------------------------------------------------------------
(* The inductive invariant, in terms of tiles                              *)

Tiled ==
    /\ ListsOK(free_list)
    /\ Free \cap Held = {}
    /\ Tiles(Free \cup Held, Added)

\* The blocks the kernel has are blocks.
LEMMA HeldBlocks ==
    ASSUME TypeOK
    PROVE  Held \subseteq Blocks
  BY DEF TypeOK, Held, Block, Blocks

\* NoOverlap and NothingLost say that the blocks tile the region.
LEMMA InvIsTiled ==
    ASSUME TypeOK
    PROVE  NoOverlap /\ NothingLost <=> Tiled
<1>1. ListsOK(free_list) <=> \A o \in Orders : IsInjective(free_list[o])
  BY DEF ListsOK, TypeOK
<1>2. ListsOK(free_list) => Free \cup Held \subseteq Blocks
  BY HeldBlocks, BlocksOnType DEF Free
<1>3. (\A b, c \in Free \cup Held : b = c \/ Disjoint(b, c)) <=> Apart(Free \cup Held)
  BY DEF Apart
<1>4. NothingLost <=> Inside(Free \cup Held, Added) /\ Covers(Free \cup Held, Added)
  BY DEF NothingLost, Inside, Covers
<1> QED  BY <1>1, <1>2, <1>3, <1>4 DEF NoOverlap, Tiled, Tiles

\* The same of the next state.
LEMMA InvIsTiledNext ==
    TypeOK' /\ Tiled' => NoOverlap' /\ NothingLost'
<1>1. TypeOK /\ Tiled => NoOverlap /\ NothingLost
  BY InvIsTiled
<1> QED  BY <1>1, PTL

\* A block that is freed has the order it was allocated with.
LEMMA OrderIsUnique ==
    ASSUME NEW size \in Nat, NEW o \in Orders, NEW n \in Orders,
           OrderOf(size, o), OrderOf(size, n)
    PROVE  o = n
<1>1. \A m \in Orders : Size[m] \in Nat
  BY SizeFacts DEF Orders
<1>2. MaxOrder \in Nat /\ \A m \in Orders : m \in Nat /\ m < MaxOrder
  BY BuddyAssumption DEF Orders
<1>3. ASSUME NEW m \in Orders, NEW k \in Orders, m < k,
             OrderOf(size, m), OrderOf(size, k)
      PROVE  FALSE
  <2>1. m \in MinOrder .. k - 1 /\ size <= Size[m]
    BY <1>2, <1>3 DEF OrderOf, MinOrder
  <2>2. Size[m] < size
    BY <1>3, <2>1 DEF OrderOf
  <2> QED  BY <1>1, <2>1, <2>2
<1> QED  BY <1>2, <1>3

\* init_buddy() leaves no block, and add_to_buddy() starts at the first byte.
LEMMA InitInv == Init => IInv
<1> SUFFICES ASSUME Init  PROVE  IInv
  OBVIOUS
<1> USE BuddyAssumption
<1>1. TypeOK
  BY DEF Init, TypeOK, Orders, MinOrder, NoRequest
<1>2. Free = {} /\ Held = {}
  <2>1. \A o \in Orders : ToSet(free_list[o]) = {}
    BY DEF Init, ToSet
  <2> QED  BY <2>1, InBlocksOn DEF Init, Free, Held
<1>3. Tiled
  <2>1. ListsOK(free_list)
    BY DEF Init, ListsOK, IsInjective
  <2>2. Added = Start /\ Start \in Nat
    BY DEF Init, Added
  <2> QED  BY <1>2, <2>1, <2>2 DEF Tiled, Tiles, Apart, Inside, Covers
<1>4. LiveFits /\ CallState
  BY DEF Init, LiveFits, CallState
<1> QED  BY <1>1, <1>3, <1>4, InvIsTiled DEF IInv

-----------------------------------------------------------------------------
(* Each turn of each loop keeps the invariant                              *)

\* A turn of add_to_buddy() frees the block behind the last one, the largest
\* that can start there.
LEMMA AddEffect ==
    ASSUME IInv, add_to_buddy
    PROVE  \E o \in Orders :
              /\ Fits(o) /\ \A n \in Orders : n > o => ~Fits(n)
              /\ block' = block + Size[o] /\ total' = total + Size[o]
              /\ Size[o] \in Nat /\ Size[o] > 0
              /\ block \in Nat /\ Start <= block /\ block + Size[o] <= End
              /\ Added = block /\ Added' = block + Size[o]
              /\ live = {} /\ live' = {} /\ Held' = Held
              /\ Block(block, o) \notin Free \cup Held
              /\ Tiles((Free \cup Held) \cup {Block(block, o)}, block + Size[o])
              /\ ListsOK(free_list') /\ Free' = Free \cup {Block(block, o)}
<1> USE BuddyAssumption
<1>1. PICK o \in Orders :
         /\ Fits(o) /\ \A n \in Orders : n > o => ~Fits(n)
         /\ free_list' = PUSH(free_list, block, o)
         /\ block' = block + Size[o]
         /\ total' = total + Size[o]
  BY DEF add_to_buddy
<1>2. TypeOK /\ Tiled /\ CallState /\ LiveFits
  BY InvIsTiled DEF IInv
<1>3. /\ Size[o] \in Nat /\ Size[o] > 0
      /\ block \in Nat /\ Start <= block /\ block + Size[o] <= End
      /\ Added = block /\ Added' = block + Size[o]
      /\ live = {} /\ live' = {}
  BY <1>1, <1>2, SizeFacts DEF TypeOK, CallState, add_to_buddy, Fits, Added, Orders
<1>4. /\ Block(block, o) \notin Free \cup Held
      /\ Tiles((Free \cup Held) \cup {Block(block, o)}, block + Size[o])
  BY <1>2, <1>3, GrowTiles DEF Tiled
<1>5. /\ ListsOK(free_list')
      /\ Free' = Free \cup {Block(block, o)}
  BY <1>1, <1>2, <1>3, <1>4, PushBlocks DEF Tiled, Free
<1>6. Held' = Held
  BY <1>3 DEF Held
<1> QED  BY <1>1, <1>3, <1>4, <1>5, <1>6

\* A turn of add_to_buddy() appends a block to the tiling.
LEMMA AddStep ==
    ASSUME IInv, add_to_buddy
    PROVE  IInv'
<1>1. TypeOK /\ Tiled /\ CallState /\ LiveFits
  BY InvIsTiled DEF IInv
<1>2. PICK o \in Orders :
         /\ block' = block + Size[o] /\ total' = total + Size[o]
         /\ Size[o] \in Nat /\ Size[o] > 0
         /\ block \in Nat /\ Start <= block /\ block + Size[o] <= End
         /\ Added' = block + Size[o]
         /\ live = {} /\ live' = {} /\ Held' = Held
         /\ Block(block, o) \notin Free \cup Held
         /\ Tiles((Free \cup Held) \cup {Block(block, o)}, block + Size[o])
         /\ ListsOK(free_list') /\ Free' = Free \cup {Block(block, o)}
  BY AddEffect
<1>3. Tiled'
  <2>1. (Free \cup Held)' = (Free \cup Held) \cup {Block(block, o)}
    BY <1>2
  <2>2. (Free \cap Held)' = {}
    BY <1>1, <1>2 DEF Tiled
  <2> QED  BY <1>2, <2>1, <2>2 DEF Tiled
<1>4. TypeOK'
  <2>1. free_list' \in [Orders -> Seq(Nat)]
    BY <1>2 DEF ListsOK
  <2>2. UNCHANGED <<allocated, live, call, order, request>>
    BY DEF add_to_buddy
  <2>3. block' \in Nat /\ total' \in Nat
    <3>1. total \in Nat
      BY <1>1 DEF TypeOK
    <3> QED  BY <1>2, <3>1
  <2> QED  BY <1>1, <2>1, <2>2, <2>3 DEF TypeOK
<1>5. LiveFits' /\ CallState'
  BY <1>2, BuddyAssumption DEF LiveFits, CallState, add_to_buddy
<1> QED  BY <1>3, <1>4, <1>5, InvIsTiledNext DEF IInv

\* add_to_buddy() ends exactly at the end of the region.
LEMMA RegionStep ==
    ASSUME IInv, RegionAdded
    PROVE  IInv'
<1> USE BuddyAssumption
<1>1. TypeOK' /\ LiveFits' /\ CallState'
  BY DEF IInv, RegionAdded, TypeOK, LiveFits, CallState, OrderOf
<1>2. Added' = Added
  BY DEF IInv, RegionAdded, TypeOK, CallState, Added
<1>3. Tiled
  BY InvIsTiled DEF IInv
<1>4. Tiled'
  BY <1>2, <1>3 DEF RegionAdded, Tiled, Free, Held
<1> QED  BY <1>1, <1>4, InvIsTiledNext DEF IInv

\* Choosing a list touches no block.
LEMMA AllocStep ==
    ASSUME IInv, buddy_alloc
    PROVE  IInv'
<1> USE BuddyAssumption
<1>1. PICK size \in Sizes, o \in MinOrder .. MaxOrder :
         /\ OrderOf(size, o)
         /\ request' = [size |-> size, order |-> o]
         /\ \/ \E i \in o .. MaxOrder - 1 :
                  /\ free_list[i] # <<>>
                  /\ order' = i
                  /\ call' = "split"
            \/ call' = "panic" /\ UNCHANGED order
  BY DEF buddy_alloc
<1>2. /\ UNCHANGED <<free_list, allocated, total, live, block>>
      /\ call = "none" /\ call' \in {"split", "panic"}
  BY <1>1 DEF buddy_alloc
<1>3. TypeOK'
  <2>1. request' \in [size : Sizes \cup {0}, order : 0 .. MaxOrder]
    <3>1. \A n \in MinOrder .. MaxOrder : n \in 0 .. MaxOrder
      BY DEF MinOrder
    <3> QED  BY <1>1, <3>1
  <2>2. order' \in Orders
    <3>1. order \in Orders
      BY DEF IInv, TypeOK
    <3>2. \A n \in MinOrder .. MaxOrder : \A i \in n .. MaxOrder - 1 : i \in Orders
      BY DEF Orders, MinOrder
    <3> QED  BY <1>1, <3>1, <3>2
  <2> QED  BY <1>2, <2>1, <2>2 DEF IInv, TypeOK
<1>4. LiveFits'
  BY <1>2 DEF IInv, LiveFits, OrderOf
<1>5. CallState'
  BY <1>1, <1>2 DEF CallState, OrderOf, MinOrder
<1>6. Tiled'
  <2>1. Tiled
    BY InvIsTiled DEF IInv
  <2>2. Added' = Added
    BY <1>2 DEF Added
  <2> QED  BY <1>2, <2>1, <2>2 DEF Tiled, Free, Held
<1> QED  BY <1>3, <1>4, <1>5, <1>6, InvIsTiledNext DEF IInv

\* A turn of the loop of buddy_alloc() frees the halves of a free block.
LEMMA SplitEffect ==
    ASSUME IInv, Split
    PROVE  \E o \in Orders, b \in Nat :
              /\ order \in Orders /\ order = o + 1 /\ request.order <= o
              /\ order' = o /\ b = Head(free_list[order])
              /\ Block(b, o + 1) \in Free
              /\ Block(b, o) \notin Free \cup Held
              /\ Block(b + Size[o], o) \notin Free \cup Held
              /\ Tiles(((Free \cup Held) \ {Block(b, o + 1)})
                           \cup {Block(b, o), Block(b + Size[o], o)}, End)
              /\ ListsOK(free_list')
              /\ Free' = (Free \ {Block(b, o + 1)})
                             \cup {Block(b, o), Block(b + Size[o], o)}
              /\ free_list'[o] # <<>> /\ Head(free_list'[o]) = b
<1> DEFINE o == order - 1
           b == Head(free_list[order])
           w == Block(b, order)
           l == Block(b, o)
           u == Block(b + Size[o], o)
           popped == POP(free_list, order)
           half == PUSH(popped, b + Size[o], o)
<1>1. TypeOK /\ Tiled /\ CallState /\ LiveFits
  BY InvIsTiled DEF IInv
<1>2. /\ call = "split" /\ order > request.order
      /\ free_list' = PUSH(half, b, o)
      /\ order' = o
      /\ UNCHANGED <<allocated, total, live, call, block, request>>
  BY DEF Split
<1>3. /\ order \in Orders /\ o \in Orders /\ order = o + 1 /\ request.order <= o
      /\ Size[o] \in Nat
  <2>1. order \in Orders /\ request.order \in 0 .. MaxOrder
    BY <1>1 DEF TypeOK
  <2>2. o \in Orders /\ order = o + 1 /\ request.order <= o
    BY <1>2, <2>1, BuddyAssumption DEF Orders
  <2> QED  BY <2>1, <2>2, SizeFacts DEF Orders
<1>4. Added = End /\ Added' = End /\ End \in Nat
  BY <1>2, BuddyAssumption DEF Added
<1>5. free_list[order] # <<>>
  BY <1>1, <1>2 DEF CallState
<1>6. /\ b \in Nat /\ w \in Free /\ ListsOK(popped)
      /\ BlocksOn(popped) = Free \ {w}
  BY <1>1, <1>3, <1>5, PopBlocks DEF Tiled, Free
<1> HIDE DEF popped, b, o
<1>7. /\ l \notin Free \cup Held /\ u \notin Free \cup Held
      /\ Tiles(((Free \cup Held) \ {w}) \cup {l, u}, End)
  BY <1>1, <1>3, <1>4, <1>6, SplitTiles DEF Tiled
<1>8. /\ ListsOK(half) /\ BlocksOn(half) = (Free \ {w}) \cup {u}
  BY <1>3, <1>6, <1>7, PushBlocks
<1> HIDE DEF half
<1>9. l # u
  <2>1. Size[o] > 0
    BY <1>3, SizeFacts DEF Orders
  <2> QED  BY <1>3, <1>6, <2>1 DEF Block
<1>10. /\ ListsOK(free_list') /\ Free' = (Free \ {w}) \cup {l, u}
       /\ free_list'[o] # <<>> /\ Head(free_list'[o]) = b
  <2>1. l \notin BlocksOn(half)
    BY <1>7, <1>8, <1>9
  <2>2. /\ ListsOK(free_list') /\ BlocksOn(free_list') = BlocksOn(half) \cup {l}
        /\ free_list'[o] # <<>> /\ Head(free_list'[o]) = b
    BY <1>2, <1>3, <1>6, <1>8, <2>1, PushBlocks
  <2> QED  BY <1>8, <2>2 DEF Free
<1> QED  BY <1>2, <1>3, <1>6, <1>7, <1>10 DEF b

\* A turn of the loop of buddy_alloc() cuts one tile in two.
LEMMA SplitStep ==
    ASSUME IInv, Split
    PROVE  IInv'
<1>1. TypeOK /\ Tiled /\ CallState /\ LiveFits
  BY InvIsTiled DEF IInv
<1>2. /\ call = "split"
      /\ UNCHANGED <<allocated, total, live, call, block, request>>
      /\ Added' = End
  BY DEF Split, Added
<1>3. PICK o \in Orders, b \in Nat :
         /\ request.order <= o /\ order' = o
         /\ Block(b, o + 1) \in Free
         /\ Block(b, o) \notin Free \cup Held
         /\ Block(b + Size[o], o) \notin Free \cup Held
         /\ Tiles(((Free \cup Held) \ {Block(b, o + 1)})
                      \cup {Block(b, o), Block(b + Size[o], o)}, End)
         /\ ListsOK(free_list')
         /\ Free' = (Free \ {Block(b, o + 1)})
                        \cup {Block(b, o), Block(b + Size[o], o)}
         /\ free_list'[o] # <<>>
  BY SplitEffect
<1>4. Tiled'
  <2> DEFINE w == Block(b, o + 1)
             halves == {Block(b, o), Block(b + Size[o], o)}
  <2>1. Held' = Held /\ w \notin Held
    BY <1>1, <1>2, <1>3 DEF Held, Tiled
  <2>2. (Free \cup Held)' = ((Free \cup Held) \ {w}) \cup halves
    BY <1>3, <2>1
  <2>3. (Free \cap Held)' = {}
    BY <1>1, <1>3, <2>1 DEF Tiled
  <2> QED  BY <1>2, <1>3, <2>2, <2>3 DEF Tiled
<1>5. TypeOK'
  BY <1>1, <1>2, <1>3 DEF TypeOK, ListsOK
<1>6. LiveFits' /\ CallState'
  BY <1>1, <1>2, <1>3 DEF LiveFits, CallState, OrderOf
<1> QED  BY <1>4, <1>5, <1>6, InvIsTiledNext DEF IInv

\* The block an allocation returns does not start where one the kernel has does.
LEMMA FreeIsNotHeld ==
    ASSUME TypeOK, Tiled, NEW a, NEW o, Block(a, o) \in Free, NEW r \in live
    PROVE  r.addr # a /\ Disjoint(Block(a, o), Block(r.addr, r.order))
<1>1. Block(r.addr, r.order) \in Held /\ Block(a, o) \notin Held
  BY DEF Tiled, Held
<1>2. Disjoint(Block(a, o), Block(r.addr, r.order))
  BY <1>1 DEF Tiled, Tiles, Apart
<1>3. /\ Block(a, o) \in Blocks /\ Block(r.addr, r.order) \in Blocks
      /\ Block(a, o).addr = a /\ Block(r.addr, r.order).addr = r.addr
  BY <1>1 DEF Tiled, Tiles, Block
<1>4. r.addr # a
  BY <1>2, <1>3, BlockFacts DEF Disjoint
<1> QED  BY <1>2, <1>4

\* The end of buddy_alloc() moves the block at the head of its list from the
\* free ones to those the kernel has.
LEMMA AllocReturnsEffect ==
    ASSUME IInv, AllocReturns
    PROVE  /\ order \in Orders /\ Head(free_list[order]) \in Nat
           /\ request.size \in Sizes /\ OrderOf(request.size, order)
           /\ Block(Head(free_list[order]), order) \in Free
           /\ ListsOK(free_list')
           /\ Free' = Free \ {Block(Head(free_list[order]), order)}
           /\ Held' = Held \cup {Block(Head(free_list[order]), order)}
<1> DEFINE b == Head(free_list[order])
           w == Block(b, order)
           r == [addr |-> b, size |-> request.size, order |-> order]
<1>1. TypeOK /\ Tiled /\ CallState /\ LiveFits
  BY InvIsTiled DEF IInv
<1>2. /\ call = "split" /\ order = request.order
      /\ allocated' = allocated + Size[order]
      /\ free_list' = POP(free_list, order)
      /\ live' = live \cup {r}
      /\ call' = "none"
      /\ UNCHANGED <<total, block, order, request>>
  BY DEF AllocReturns
<1>3. /\ order \in Orders /\ Size[order] \in Nat
      /\ request.size \in Sizes /\ OrderOf(request.size, order)
      /\ free_list[order] # <<>>
  BY <1>1, <1>2, SizeFacts DEF TypeOK, CallState, Orders
<1>4. Added' = Added
  BY <1>2 DEF Added
<1>5. /\ b \in Nat /\ w \in Free /\ ListsOK(free_list') /\ Free' = Free \ {w}
  BY <1>1, <1>2, <1>3, PopBlocks DEF Tiled, Free
<1> HIDE DEF b
<1>6. Held' = Held \cup {w}
  <2>1. Block(r.addr, r.order) = w
    OBVIOUS
  <2> HIDE DEF r, w
  <2> QED  BY <1>2, <2>1 DEF Held
<1> QED  BY <1>3, <1>5, <1>6 DEF b

\* buddy_alloc() hands a tile from its list to the kernel.
LEMMA AllocReturnsStep ==
    ASSUME IInv, AllocReturns
    PROVE  IInv'
<1> DEFINE b == Head(free_list[order])
           w == Block(b, order)
           r == [addr |-> b, size |-> request.size, order |-> order]
<1>1. TypeOK /\ Tiled /\ CallState /\ LiveFits
  BY InvIsTiled DEF IInv
<1>2. /\ call = "split"
      /\ allocated' = allocated + Size[order]
      /\ live' = live \cup {r}
      /\ call' = "none"
      /\ UNCHANGED <<total, block, order, request>>
  BY DEF AllocReturns
<1>3. /\ order \in Orders /\ Size[order] \in Nat
      /\ request.size \in Sizes /\ OrderOf(request.size, order)
  BY AllocReturnsEffect, SizeFacts DEF Orders
<1>4. Added' = Added
  BY <1>2 DEF Added
<1>5. /\ b \in Nat /\ w \in Free /\ ListsOK(free_list')
      /\ Free' = Free \ {w} /\ Held' = Held \cup {w}
  BY AllocReturnsEffect
<1> HIDE DEF b
<1>6. Tiled'
  <2>1. (Free \cup Held)' = Free \cup Held
    BY <1>5
  <2>2. (Free \cap Held)' = {}
    BY <1>1, <1>5 DEF Tiled
  <2> QED  BY <1>1, <1>4, <1>5, <2>1, <2>2 DEF Tiled
<1>7. TypeOK'
  <2>1. r \in [addr : Nat, size : Sizes, order : Orders]
    BY <1>3, <1>5
  <2>2. live' \in SUBSET [addr : Nat, size : Sizes, order : Orders]
    BY <1>1, <1>2, <2>1 DEF TypeOK
  <2>3. allocated' \in Int
    BY <1>1, <1>2, <1>3 DEF TypeOK
  <2> QED  BY <1>1, <1>2, <1>5, <2>2, <2>3 DEF TypeOK, ListsOK
<1>8. LiveFits'
  <2>1. \A s \in live : s.addr # b
    BY <1>1, <1>5, FreeIsNotHeld
  <2>2. r.addr = b /\ OrderOf(r.size, r.order)
    BY <1>3
  <2> HIDE DEF r
  <2>3. \A s \in live' : OrderOf(s.size, s.order)
    BY <1>1, <1>2, <2>2 DEF LiveFits
  <2>4. \A s, t \in live' : s.addr = t.addr => s = t
    BY <1>1, <1>2, <2>1, <2>2 DEF LiveFits
  <2> QED  BY <2>3, <2>4 DEF LiveFits, OrderOf
<1>9. CallState'
  BY <1>2 DEF CallState
<1> QED  BY <1>6, <1>7, <1>8, <1>9, InvIsTiledNext DEF IInv

\* The start of buddy_dealloc() puts the block at the head of the list of its
\* order, the one it was allocated with.
LEMMA DeallocEffect ==
    ASSUME IInv, buddy_dealloc
    PROVE  \E r \in live, o \in Orders :
              /\ r.addr \in Nat /\ r.size \in Sizes /\ OrderOf(r.size, o)
              /\ live' = live \ {r} /\ block' = r.addr /\ order' = o
              /\ request' = [size |-> r.size, order |-> o]
              /\ Block(r.addr, o) \in Held
              /\ ListsOK(free_list') /\ Free' = Free \cup {Block(r.addr, o)}
              /\ free_list'[o] # <<>> /\ Head(free_list'[o]) = r.addr
              /\ Held' = Held \ {Block(r.addr, o)}
<1>1. TypeOK /\ Tiled /\ CallState /\ LiveFits
  BY InvIsTiled DEF IInv
<1>2. PICK r \in live, o \in Orders :
         /\ OrderOf(r.size, o)
         /\ live' = live \ {r}
         /\ free_list' = PUSH(free_list, r.addr, o)
         /\ block' = r.addr
         /\ order' = o
         /\ request' = [size |-> r.size, order |-> o]
  BY DEF buddy_dealloc
<1>3. /\ call = "none" /\ call' = "merge"
      /\ UNCHANGED <<allocated, total>>
      /\ Added' = Added
  BY DEF buddy_dealloc, Added
<1>4. r.addr \in Nat /\ r.size \in Sizes /\ r.size \in Nat /\ r.order \in Orders
  BY <1>1, BuddyAssumption DEF TypeOK
<1>5. o = r.order
  BY <1>1, <1>2, <1>4, OrderIsUnique DEF LiveFits
<1> DEFINE w == Block(r.addr, o)
<1>6. w \in Held /\ w \notin Free
  BY <1>1, <1>5 DEF Held, Tiled
<1>7. /\ ListsOK(free_list') /\ Free' = Free \cup {w}
      /\ free_list'[o] # <<>> /\ Head(free_list'[o]) = r.addr
  BY <1>1, <1>2, <1>4, <1>6, PushBlocks DEF Tiled, Free
<1>8. Held' = Held \ {w}
  <2>1. \A s \in live : s # r => Block(s.addr, s.order) # w
    BY <1>1 DEF LiveFits, Block
  <2> QED  BY <1>2, <1>5, <2>1 DEF Held
<1> QED  BY <1>2, <1>4, <1>6, <1>7, <1>8

\* buddy_dealloc() takes a tile back from the kernel.
LEMMA DeallocStep ==
    ASSUME IInv, buddy_dealloc
    PROVE  IInv'
<1>1. TypeOK /\ Tiled /\ CallState /\ LiveFits
  BY InvIsTiled DEF IInv
<1>2. PICK r \in live, o \in Orders :
         /\ r.addr \in Nat /\ r.size \in Sizes /\ OrderOf(r.size, o)
         /\ live' = live \ {r} /\ block' = r.addr /\ order' = o
         /\ request' = [size |-> r.size, order |-> o]
         /\ Block(r.addr, o) \in Held
         /\ ListsOK(free_list') /\ Free' = Free \cup {Block(r.addr, o)}
         /\ free_list'[o] # <<>> /\ Head(free_list'[o]) = r.addr
         /\ Held' = Held \ {Block(r.addr, o)}
  BY DeallocEffect
<1>3. /\ call = "none" /\ call' = "merge"
      /\ UNCHANGED <<allocated, total>>
      /\ Added' = Added
  BY DEF buddy_dealloc, Added
<1>4. Tiled'
  <2>1. (Free \cup Held)' = Free \cup Held
    BY <1>2
  <2>2. (Free \cap Held)' = {}
    BY <1>1, <1>2 DEF Tiled
  <2> QED  BY <1>1, <1>2, <1>3, <2>1, <2>2 DEF Tiled
<1>5. TypeOK'
  <2>1. request' \in [size : Sizes \cup {0}, order : 0 .. MaxOrder]
    BY <1>2, BuddyAssumption DEF Orders
  <2> QED  BY <1>1, <1>2, <1>3, <2>1 DEF TypeOK, ListsOK
<1>6. LiveFits' /\ CallState'
  BY <1>1, <1>2, <1>3 DEF LiveFits, CallState, OrderOf
<1> QED  BY <1>4, <1>5, <1>6, InvIsTiledNext DEF IInv

\* The union of two buddies has the lower of their addresses.
LEMMA MinOfTwo ==
    ASSUME NEW a \in Nat, NEW c \in Nat
    PROVE  Min({a, c}) = IF a < c THEN a ELSE c
<1> DEFINE m == IF a < c THEN a ELSE c
<1>1. m \in {a, c} /\ \A y \in {a, c} : m <= y
  OBVIOUS
<1>2. \A x \in {a, c} : (\A y \in {a, c} : x <= y) => x = m
  OBVIOUS
<1> QED  BY <1>1, <1>2 DEF Min

\* A turn of the loop of buddy_dealloc() frees the union of two free blocks, and
\* there is a list for it.
LEMMA MergeEffect ==
    ASSUME IInv, Merge
    PROVE  \E lo \in Nat :
              /\ order \in Orders /\ order + 1 \in Orders
              /\ block' = lo /\ order' = order + 1 /\ call' = call
              /\ Block(block, order) \in Free
              /\ Block(buddy_block(block, order), order) \in Free
              /\ {Block(block, order), Block(buddy_block(block, order), order)} =
                     {Block(lo, order), Block(lo + Size[order], order)}
              /\ Block(lo, order + 1) \notin Free \cup Held
              /\ Tiles(((Free \cup Held)
                           \ {Block(lo, order), Block(lo + Size[order], order)})
                           \cup {Block(lo, order + 1)}, End)
              /\ ListsOK(free_list')
              /\ Free' = (Free \ {Block(lo, order), Block(lo + Size[order], order)})
                             \cup {Block(lo, order + 1)}
              /\ free_list'[order + 1] # <<>> /\ Head(free_list'[order + 1]) = lo
<1>1. TypeOK /\ Tiled /\ CallState /\ LiveFits
  BY InvIsTiled DEF IInv
<1>2. PICK i \in DOMAIN free_list[order] :
         /\ BuddyAt(i)
         /\ block' = Min({block, buddy_block(block, order)})
         /\ IF order + 1 \in Orders
            THEN /\ free_list' =
                      PUSH(POP(UNLINK(free_list, order, i), order),
                           block', order + 1)
                 /\ UNCHANGED call
            ELSE call' = "overrun" /\ UNCHANGED free_list
  BY DEF Merge
<1>3. /\ call = "merge" /\ order' = order + 1
      /\ UNCHANGED <<allocated, total, live, request>>
      /\ block \in Nat
  BY <1>1 DEF Merge, TypeOK
<1> DEFINE list == free_list[order]
           z == Size[order]
           bb == list[i]
           x == Block(block, order)
           y == Block(bb, order)
<1>4. /\ order \in Orders /\ z \in Nat /\ z > 0
      /\ Start \in Nat /\ End \in Nat /\ Added = End
  BY <1>1, <1>3, SizeFacts, BuddyAssumption DEF TypeOK, Orders, Added
<1>5. /\ list \in Seq(Nat) /\ IsInjective(list) /\ Len(list) \in Nat
      /\ i \in 2 .. Len(list) /\ i \in DOMAIN list
      /\ Head(list) = list[1] /\ list[1] = block /\ 1 \in DOMAIN list
  <2>1. list \in Seq(Nat) /\ IsInjective(list) /\ Len(list) \in Nat
    BY <1>1, <1>4, LenProperties DEF Tiled, ListsOK
  <2>2. i \in 2 .. Len(list)
    BY <1>2 DEF BuddyAt
  <2>3. Head(list) = block
    BY <1>1, <1>3 DEF CallState
  <2> QED  BY <2>1, <2>2, <2>3, LenProperties
<1>6. bb = buddy_block(block, order) /\ bb \in Nat
  BY <1>2, <1>5, ElementOfSeq DEF BuddyAt
<1>7. bb = block + z \/ bb = block - z
  BY <1>6 DEF buddy_block
<1>8. x \in Free /\ y \in Free
  <2>1. block \in ToSet(list) /\ bb \in ToSet(list)
    BY <1>5 DEF ToSet
  <2> QED  BY <1>4, <2>1, InBlocksOn DEF Free
<1> HIDE DEF list
<1> DEFINE lo == IF block < bb THEN block ELSE bb
<1>9. block' = lo /\ lo \in Nat
  BY <1>2, <1>3, <1>6, MinOfTwo
<1>10. {x, y} = {Block(lo, order), Block(lo + z, order)}
  <2>1. \/ lo = block /\ lo + z = bb
        \/ lo = bb /\ lo + z = block
    BY <1>3, <1>4, <1>6, <1>7
  <2> QED  BY <2>1
<1> HIDE DEF lo
<1>11. order + 1 \in Orders
  <2>1. Block(lo, order) \in Free /\ Block(lo + z, order) \in Free
    BY <1>8, <1>10
  <2>2. Start <= lo /\ lo + z + z <= End
    BY <1>1, <1>4, <1>9, <2>1 DEF Tiled, Tiles, Inside, Block
  <2>3. z + z <= End - Start
    BY <1>4, <1>9, <2>2
  <2>4. order + 1 # MaxOrder
    <3>1. ASSUME order + 1 = MaxOrder  PROVE FALSE
      <4>1. Size[MaxOrder] = 2 * z /\ End - Start < Size[MaxOrder]
        BY <1>4, <3>1, SizeFacts, BuddyAssumption
      <4> QED  BY <1>4, <2>3, <4>1
    <3> QED  BY <3>1
  <2> QED  BY <1>4, <2>4, BuddyAssumption DEF Orders
<1> DEFINE unlinked == UNLINK(free_list, order, i)
           popped == POP(unlinked, order)
<1>12. /\ free_list' = PUSH(popped, lo, order + 1)
       /\ call' = call /\ Added' = Added
  BY <1>2, <1>3, <1>9, <1>11 DEF Added
<1>13. ListsOK(unlinked) /\ BlocksOn(unlinked) = Free \ {y}
  BY <1>1, <1>4, <1>5, UnlinkBlocks DEF Tiled, Free, list
<1>14. unlinked[order] # <<>> /\ Head(unlinked[order]) = block
  <2>1. unlinked[order] = RemoveAt(list, i)
    BY <1>1, <1>4 DEF UNLINK, Tiled, ListsOK, list
  <2>2. /\ RemoveAt(list, i) \in Seq(Nat)
        /\ Len(RemoveAt(list, i)) = Len(list) - 1
        /\ \A j \in 1 .. Len(list) - 1 :
              RemoveAt(list, i)[j] = IF j < i THEN list[j] ELSE list[j + 1]
    BY <1>5, RemoveAtIsSeq
  <2>3. Len(RemoveAt(list, i)) > 0 /\ RemoveAt(list, i)[1] = block
    BY <1>5, <2>2
  <2> DEFINE t == RemoveAt(list, i)
  <2> HIDE DEF t
  <2>4. t # <<>> /\ Head(t) = block
    BY <2>2, <2>3, EmptySeq DEF t
  <2> QED  BY <2>1, <2>4 DEF t
<1> HIDE DEF unlinked
<1>15. ListsOK(popped) /\ BlocksOn(popped) = Free \ {x, y}
  BY <1>4, <1>13, <1>14, PopBlocks
<1> HIDE DEF popped
<1> DEFINE w == Block(lo, order + 1)
<1>16. /\ w \notin Free \cup Held
       /\ Tiles(((Free \cup Held) \ {x, y}) \cup {w}, End)
  BY <1>1, <1>4, <1>8, <1>9, <1>10, <1>11, MergeTiles DEF Tiled
<1>17. /\ ListsOK(free_list') /\ Free' = (Free \ {x, y}) \cup {w}
       /\ free_list'[order + 1] # <<>> /\ Head(free_list'[order + 1]) = lo
  BY <1>9, <1>11, <1>12, <1>15, <1>16, PushBlocks DEF Free
<1> QED  BY <1>3, <1>4, <1>6, <1>8, <1>9, <1>10, <1>11, <1>12, <1>16, <1>17

\* A turn of the loop of buddy_dealloc() joins two tiles to one.
LEMMA MergeStep ==
    ASSUME IInv, Merge
    PROVE  IInv'
<1>1. TypeOK /\ Tiled /\ CallState /\ LiveFits
  BY InvIsTiled DEF IInv
<1>2. PICK lo \in Nat :
         /\ order + 1 \in Orders
         /\ block' = lo /\ order' = order + 1 /\ call' = call
         /\ Block(block, order) \in Free
         /\ Block(buddy_block(block, order), order) \in Free
         /\ {Block(block, order), Block(buddy_block(block, order), order)} =
                {Block(lo, order), Block(lo + Size[order], order)}
         /\ Block(lo, order + 1) \notin Free \cup Held
         /\ Tiles(((Free \cup Held)
                      \ {Block(lo, order), Block(lo + Size[order], order)})
                      \cup {Block(lo, order + 1)}, End)
         /\ ListsOK(free_list')
         /\ Free' = (Free \ {Block(lo, order), Block(lo + Size[order], order)})
                        \cup {Block(lo, order + 1)}
         /\ free_list'[order + 1] # <<>> /\ Head(free_list'[order + 1]) = lo
  BY MergeEffect
<1>3. /\ call = "merge" /\ Added' = End
      /\ UNCHANGED <<allocated, total, live, request>>
  BY <1>2 DEF Merge, Added
<1>4. Tiled'
  <2> DEFINE halves == {Block(lo, order), Block(lo + Size[order], order)}
             w == Block(lo, order + 1)
  <2>1. Held' = Held /\ halves \cap Held = {}
    BY <1>1, <1>2, <1>3 DEF Held, Tiled
  <2>2. (Free \cup Held)' = ((Free \cup Held) \ halves) \cup {w}
    BY <1>2, <2>1
  <2>3. (Free \cap Held)' = {}
    BY <1>1, <1>2, <2>1 DEF Tiled
  <2> QED  BY <1>2, <1>3, <2>2, <2>3 DEF Tiled
<1>5. TypeOK'
  BY <1>1, <1>2, <1>3 DEF TypeOK, ListsOK
<1>6. LiveFits' /\ CallState'
  BY <1>1, <1>2, <1>3 DEF LiveFits, CallState, OrderOf
<1> QED  BY <1>4, <1>5, <1>6, InvIsTiledNext DEF IInv

\* The end of buddy_dealloc() touches no block.
LEMMA DeallocReturnsStep ==
    ASSUME IInv, DeallocReturns
    PROVE  IInv'
<1>1. TypeOK /\ Tiled /\ CallState /\ LiveFits
  BY InvIsTiled DEF IInv
<1>2. /\ call = "merge" /\ call' = "none"
      /\ allocated' = allocated - Size[request.order]
      /\ UNCHANGED <<free_list, total, live, block, order, request>>
  BY DEF DeallocReturns
<1>3. Tiled'
  BY <1>1, <1>2 DEF Tiled, Free, Held, Added
<1>4. TypeOK'
  <2>1. Size[request.order] \in Nat /\ allocated \in Int
    BY <1>1, SizeFacts DEF TypeOK
  <2> QED  BY <1>1, <1>2, <2>1 DEF TypeOK
<1>5. LiveFits' /\ CallState'
  BY <1>1, <1>2 DEF LiveFits, CallState, OrderOf
<1> QED  BY <1>3, <1>4, <1>5, InvIsTiledNext DEF IInv

\* Nothing changes, nothing is lost.
LEMMA StutterStep ==
    ASSUME IInv, UNCHANGED vars
    PROVE  IInv'
  BY DEF IInv, vars, TypeOK, NoOverlap, NothingLost, LiveFits, CallState,
         Free, Held, Added, OrderOf, Within, Disjoint

\* No reachable state leaves the inductive invariant.
THEOREM Invariance == Spec => []IInv
<1>1. IInv /\ [Next]_vars => IInv'
  BY AddStep, RegionStep, AllocStep, SplitStep, AllocReturnsStep, DeallocStep,
     MergeStep, DeallocReturnsStep, StutterStep DEF Next, Stopped
<1> QED  BY InitInv, <1>1, PTL DEF Spec

\* The allocator never writes behind its array of lists, whatever is split and
\* merged.
THEOREM TypeCorrect == Spec => []TypeOK
<1>1. IInv => TypeOK
  BY DEF IInv
<1> QED  BY <1>1, Invariance, PTL

\* No byte is in two blocks, free or not, at any turn of any loop.
THEOREM BlocksApart == Spec => []NoOverlap
<1>1. IInv => NoOverlap
  BY DEF IInv
<1> QED  BY <1>1, Invariance, PTL

\* No byte of the region is ever out of reach of the allocator and the kernel.
THEOREM RegionKept == Spec => []NothingLost
<1>1. IInv => NothingLost
  BY DEF IInv
<1> QED  BY <1>1, Invariance, PTL

-----------------------------------------------------------------------------
(* Multiples of powers of two                                              *)

\* Multiplying keeps the order of numbers.
LEMMA Monotone ==
    ASSUME NEW s \in Nat, NEW p \in Nat, NEW q \in Nat
    PROVE  /\ p * s \in Nat
           /\ p <= q => p * s <= q * s
           /\ p < q => p * s + s <= q * s
<1>1. p * s \in Nat OBVIOUS
<1>2. ASSUME p <= q PROVE p * s <= q * s
  <2>1. PICK d \in Nat : q = p + d
    <3>1. q - p \in Nat /\ q = p + (q - p) BY <1>2
    <3> QED BY <3>1
  <2>2. q * s = p * s + d * s BY <2>1
  <2>3. d * s \in Nat OBVIOUS
  <2> QED BY <1>1, <2>2, <2>3
<1>3. ASSUME p < q PROVE p * s + s <= q * s
  <2>1. PICK d \in Nat : q = p + 1 + d
    <3>1. q - p - 1 \in Nat /\ q = p + 1 + (q - p - 1) BY <1>3
    <3> QED BY <3>1
  <2>2. q * s = p * s + s + d * s BY <2>1
  <2>3. d * s \in Nat OBVIOUS
  <2> QED BY <1>1, <2>2, <2>3
<1> QED BY <1>1, <1>2, <1>3

\* The multiples of s, their quotients and the multiples of 2 * s among them.
LEMMA Multiples ==
    ASSUME NEW s \in Nat, s > 0
    PROVE  /\ \A q \in Nat : (q * s) % s = 0 /\ (q * s) \div s = q
           /\ \A x \in Nat : x % s = 0 => \E q \in Nat : x = q * s
<1>1. ASSUME NEW x \in Nat
      PROVE  x \div s \in Nat /\ x % s \in 0 .. s - 1 /\ x = (x \div s) * s + (x % s)
  <2> DEFINE q == x \div s
             r == x - q * s
  <2>1. q \in Nat /\ q * s <= x /\ x < q * s + s OBVIOUS
  <2>2. q * s \in Nat BY <2>1
  <2> HIDE DEF q
  <2>3. r \in 0 .. s - 1 /\ x = q * s + r BY <2>1, <2>2
  <2> HIDE DEF r
  <2>4. x % s = r BY <2>1, <2>3
  <2> QED BY <2>1, <2>3, <2>4 DEF q
<1>2. ASSUME NEW q \in Nat PROVE (q * s) % s = 0 /\ (q * s) \div s = q
  <2> DEFINE x == q * s
             p == x \div s
             r == x % s
  <2>1. x \in Nat OBVIOUS
  <2>2. x = q * s OBVIOUS
  <2> HIDE DEF x
  <2>3. p \in Nat /\ r \in 0 .. s - 1 /\ x = p * s + r BY <1>1, <2>1
  <2> HIDE DEF p, r
  <2>4. p * s \in Nat BY <2>3
  <2>5. ~ (p < q)
    <3>1. p < q => p * s + s <= q * s BY <2>3, Monotone
    <3> QED BY <2>1, <2>2, <2>3, <2>4, <3>1
  <2>6. ~ (q < p)
    <3>1. q < p => q * s + s <= p * s BY <2>3, Monotone
    <3> QED BY <2>1, <2>2, <2>3, <2>4, <3>1
  <2>7. p = q BY <2>3, <2>5, <2>6
  <2>8. r = 0 BY <2>1, <2>2, <2>3, <2>7
  <2> QED BY <2>7, <2>8 DEF p, r, x
<1>3. ASSUME NEW x \in Nat, x % s = 0 PROVE \E q \in Nat : x = q * s
  <2>1. x \div s \in Nat /\ x = (x \div s) * s + 0 BY <1>1, <1>3
  <2> DEFINE q == x \div s
  <2> HIDE DEF q
  <2>2. q \in Nat /\ x = q * s BY <2>1 DEF q
  <2> QED BY <2>2
<1> QED BY <1>2, <1>3

\* The size of a block is a multiple of that of a smaller one.
LEMMA SizesDivide ==
    ASSUME NEW k \in 0 .. MaxOrder, NEW n \in 0 .. MaxOrder, k <= n
    PROVE  \E m \in Nat : m > 0 /\ Size[n] = m * Size[k]
<1> DEFINE S == {d \in Nat : k + d <= MaxOrder => \E m \in Nat : m > 0 /\ Size[k + d] = m * Size[k]}
<1>1. MaxOrder \in Nat /\ \A j \in 0 .. MaxOrder : Size[j] \in Nat
  BY SizeFacts, BuddyAssumption
<1>2. 0 \in S
  <2>1. k + 0 = k /\ Size[k] = 1 * Size[k] /\ 1 > 0 BY <1>1
  <2> QED BY <2>1
<1>3. ASSUME NEW d \in S \cap Nat PROVE d + 1 \in S
  <2> SUFFICES ASSUME k + (d + 1) <= MaxOrder
               PROVE  \E m \in Nat : m > 0 /\ Size[k + (d + 1)] = m * Size[k]
    OBVIOUS
  <2>1. k + d \in Orders /\ k + (d + 1) = (k + d) + 1 /\ k + d <= MaxOrder
    BY <1>1 DEF Orders
  <2>2. PICK m \in Nat : m > 0 /\ Size[k + d] = m * Size[k] BY <2>1
  <2>3. Size[k + (d + 1)] = 2 * Size[k + d] BY <2>1, SizeFacts
  <2>4. 2 * (m * Size[k]) = (2 * m) * Size[k] /\ 2 * m \in Nat /\ 2 * m > 0
    BY <1>1, <2>2
  <2> QED BY <2>2, <2>3, <2>4
<1>4. n - k \in Nat /\ k + (n - k) = n BY <1>1
<1> HIDE DEF S
<1>5. n - k \in S BY <1>2, <1>3, <1>4, NatSetInduction
<1> QED BY <1>1, <1>4, <1>5 DEF S

\* Of two aligned blocks the smaller one is clear of the larger one or in it.
LEMMA Nested ==
    ASSUME NEW b \in Blocks, NEW c \in Blocks, b.order <= c.order,
           b.addr % Size[b.order] = 0, c.addr % Size[c.order] = 0, ~Disjoint(b, c)
    PROVE  c.addr <= b.addr /\ b.addr + Size[b.order] <= c.addr + Size[c.order]
<1> DEFINE s == Size[b.order]
           z == Size[c.order]
           x == b.addr
           y == c.addr
<1>1. x \in Nat /\ y \in Nat /\ s \in Nat /\ s > 0 /\ z \in Nat /\ z > 0
  BY BlockFacts
<1>2. PICK m \in Nat : m > 0 /\ z = m * s
  <2>1. b.order \in 0 .. MaxOrder /\ c.order \in 0 .. MaxOrder BY BlockFacts, SizeFacts
  <2> QED BY <2>1, SizesDivide
<1>3. PICK p \in Nat : x = p * s BY <1>1, Multiples
<1>4. PICK r \in Nat : y = r * z BY <1>1, Multiples
<1>5. ~(x + s <= y) /\ ~(y + z <= x) BY DEF Disjoint
<1> HIDE DEF x, y, s, z
<1>6. y = (r * m) * s /\ r * m \in Nat /\ y + z = (r * m + m) * s
  BY <1>1, <1>2, <1>4
<1> DEFINE q == r * m
<1>7. q \in Nat /\ y = q * s /\ y + z = (q + m) * s BY <1>6
<1> HIDE DEF q
<1>8. q <= p
  <2>1. p < q => p * s + s <= q * s BY <1>1, <1>7, Monotone
  <2> QED BY <1>3, <1>5, <1>7, <2>1
<1>9. p < q + m
  <2>1. q + m <= p => (q + m) * s <= p * s BY <1>1, <1>7, Monotone
  <2> QED BY <1>3, <1>5, <1>7, <2>1
<1>10. q * s <= p * s BY <1>1, <1>7, <1>8, Monotone
<1>11. p * s + s <= (q + m) * s BY <1>1, <1>7, <1>9, Monotone
<1> QED BY <1>3, <1>7, <1>10, <1>11 DEF x, y, s, z

\* The buddy of an aligned block is aligned, has the block as its buddy and
\* makes up, with it, an aligned block of twice the size.
BuddiesAre(x, y, o) ==
    /\ y \in Nat /\ y % Size[o] = 0 /\ x = buddy_block(y, o) /\ x # y
    /\ \E lo \in {x, y} : /\ lo % Size[o + 1] = 0
                          /\ {x, y} = {lo, lo + Size[o]}

LEMMA BuddyFacts ==
    ASSUME NEW o \in Orders, NEW x \in Nat, x % Size[o] = 0
    PROVE  BuddiesAre(x, buddy_block(x, o), o)
<1> DEFINE s == Size[o]
           y == buddy_block(x, o)
<1>1. s \in Nat /\ s > 0 /\ Size[o + 1] = 2 * s BY SizeFacts
<1>2. PICK q \in Nat : x = q * s BY <1>1, Multiples
<1>3. x \div s = q BY <1>1, <1>2, Multiples
<1>4. y = IF q % 2 = 0 THEN x + s ELSE x - s BY <1>3 DEF buddy_block
<1>5. CASE q % 2 = 0
  <2>1. PICK h \in Nat : q = 2 * h
    <3>1. q \div 2 \in Nat /\ q = 2 * (q \div 2) BY <1>5
    <3> QED BY <3>1
  <2>2. y = (q + 1) * s /\ y = x + s
    <3>1. y = x + s BY <1>4, <1>5
    <3> HIDE DEF y, s
    <3> QED BY <1>1, <1>2, <3>1
  <2>3. (y \div s) = q + 1 /\ (y % s) = 0
    <3>1. q + 1 \in Nat OBVIOUS
    <3> HIDE DEF y, s
    <3> QED BY <1>1, <2>2, <3>1, Multiples
  <2>4. (q + 1) % 2 # 0 BY <2>1
  <2>5. buddy_block(y, o) = y - s BY <2>3, <2>4 DEF buddy_block
  <2>6. x = h * (2 * s) BY <1>1, <1>2, <2>1
  <2>7. x % (2 * s) = 0
    <3> DEFINE z == 2 * s
    <3>1. z \in Nat /\ z > 0 BY <1>1
    <3> HIDE DEF z
    <3>2. (h * z) % z = 0 BY <3>1, Multiples
    <3> QED BY <2>6, <3>2 DEF z
  <2> HIDE DEF y, s
  <2>8. y \in Nat /\ x = y - s /\ x # y BY <1>1, <2>2
  <2> QED BY <1>1, <2>2, <2>3, <2>5, <2>7, <2>8 DEF BuddiesAre, s, y
<1>6. CASE q % 2 # 0
  <2>1. PICK h \in Nat : q = 2 * h + 1
    <3>1. q \div 2 \in Nat /\ q = 2 * (q \div 2) + 1 BY <1>6
    <3> QED BY <3>1
  <2>2. q - 1 \in Nat /\ y = (q - 1) * s /\ y = x - s BY <1>1, <1>2, <1>4, <1>6, <2>1
  <2>3. y \div s = q - 1 /\ y % s = 0 BY <1>1, <2>2, Multiples
  <2>4. (q - 1) % 2 = 0 BY <2>1
  <2>5. buddy_block(y, o) = y + s BY <2>3, <2>4 DEF buddy_block
  <2>6. y = h * (2 * s) BY <1>1, <2>1, <2>2
  <2>7. y % (2 * s) = 0
    <3> DEFINE z == 2 * s
    <3>1. z \in Nat /\ z > 0 BY <1>1
    <3> HIDE DEF z
    <3>2. (h * z) % z = 0 BY <3>1, Multiples
    <3> QED BY <2>6, <3>2 DEF z
  <2>8. y \in Nat BY <1>1, <2>2
  <2> HIDE DEF y, s
  <2>9. x = y + s /\ x # y BY <1>1, <2>2, <2>8
  <2> QED BY <1>1, <2>3, <2>5, <2>7, <2>8, <2>9 DEF BuddiesAre, s, y
<1> QED BY <1>5, <1>6

AlignedBlocks(S) == \A b \in S : b.addr % Size[b.order] = 0

\* Where no two buddies are both free, an aligned range that holds none of the
\* kernel's blocks is in one free block: the smallest of several would have its
\* buddy beside it, which is free as a whole or holds a smaller one.
LEMMA NoRoom ==
    ASSUME NEW F, NEW H, Tiles(F \cup H, End), AlignedBlocks(F), NoBuddies(F),
           NEW r \in 0 .. MaxOrder, \A b \in F : b.order < r,
           NEW a \in Start .. End - Size[r], a % Size[r] = 0
    PROVE  \E h \in H : ~Disjoint(Block(a, r), h)
<1> SUFFICES ASSUME \A h \in H : Disjoint(Block(a, r), h)
             PROVE  FALSE
  OBVIOUS
<1>1. /\ Start \in Nat /\ End \in Nat /\ MaxOrder \in Nat
      /\ Size[r] \in Nat /\ Size[r] > 0
      /\ a \in Nat /\ Start <= a /\ a + Size[r] <= End
  BY BuddyAssumption, SizeFacts
<1>2. r \in Orders
  <2>1. r # MaxOrder
    <3>1. ASSUME r = MaxOrder PROVE FALSE
      <4>1. End - Start < Size[r] BY <3>1, BuddyAssumption
      <4> QED BY <1>1, <4>1
    <3> QED BY <3>1
  <2> QED BY <1>1, <2>1 DEF Orders
<1> DEFINE R == Block(a, r)
<1>3. R \in Blocks /\ R.addr = a /\ R.order = r
  BY <1>1, <1>2, BlockFacts
<1> HIDE DEF R
<1>4. F \subseteq Blocks /\ H \subseteq Blocks /\ \A h \in H : Disjoint(R, h)
  BY DEF Tiles, R
<1>5. \A x \in a .. a + Size[r] - 1 : \E c \in F : Within(x, c) /\ ~Disjoint(c, R)
  <2> SUFFICES ASSUME NEW x \in a .. a + Size[r] - 1
               PROVE  \E c \in F : Within(x, c) /\ ~Disjoint(c, R)
    OBVIOUS
  <2>1. x \in Start .. End - 1 /\ x \in Nat
    BY <1>1
  <2>2. PICK c \in F \cup H : Within(x, c)
    BY <2>1 DEF Tiles, Covers
  <2>3. c \in Blocks
    BY <1>4
  <2>4. ~Disjoint(c, R)
    BY <1>1, <1>3, <2>1, <2>2, <2>3, BlockFacts DEF Within, Disjoint
  <2> QED  BY <1>3, <1>4, <2>2, <2>3, <2>4, BlockFacts
<1> DEFINE S == {n \in Nat : \E c \in F : ~Disjoint(c, R) /\ c.order = n}
<1>6. S # {}
  <2>1. a \in a .. a + Size[r] - 1
    BY <1>1
  <2>2. PICK c \in F : ~Disjoint(c, R)
    BY <1>5, <2>1
  <2>3. c.order \in Nat
    BY <1>4, BlockFacts DEF Orders
  <2> QED  BY <2>2, <2>3
<1>7. PICK b \in F : /\ ~Disjoint(b, R)
                     /\ \A c \in F : ~Disjoint(c, R) => b.order <= c.order
  <2>1. S \in SUBSET Nat
    OBVIOUS
  <2>2. \A c \in F : ~Disjoint(c, R) => c.order \in S
    BY <1>4, BlockFacts DEF Orders
  <2>3. \A n \in S : \E c \in F : ~Disjoint(c, R) /\ c.order = n
    OBVIOUS
  <2> HIDE DEF S
  <2>4. PICK n \in S : \A m \in S : n <= m
    BY <1>6, <2>1, LeastNat
  <2> QED  BY <2>2, <2>3, <2>4
<1> HIDE DEF S
<1> DEFINE k == b.order
           x == b.addr
           s == Size[k]
           y == buddy_block(x, k)
<1>8. /\ b \in Blocks /\ k \in Orders /\ x \in Nat /\ x % Size[k] = 0 /\ k < r
      /\ s \in Nat /\ s > 0
  BY <1>4, BlockFacts DEF AlignedBlocks
<1>9. k + 1 \in Orders /\ Size[k + 1] = 2 * s /\ k + 1 <= r
  BY <1>1, <1>2, <1>8, SizeFacts DEF Orders
<1>10. BuddiesAre(x, y, k)
  BY <1>8, BuddyFacts
<1>11. PICK lo \in {x, y} : lo % Size[k + 1] = 0 /\ {x, y} = {lo, lo + Size[k]}
  BY <1>10 DEF BuddiesAre
<1>12. y \in Nat /\ y % Size[k] = 0 /\ x # y
  BY <1>10 DEF BuddiesAre
<1> DEFINE W == Block(lo, k + 1)
           Y == Block(y, k)
<1>13. /\ W \in Blocks /\ W.addr = lo /\ W.order = k + 1
       /\ Y \in Blocks /\ Y.addr = y /\ Y.order = k
       /\ lo \in Nat
  BY <1>8, <1>9, <1>11, <1>12, BlockFacts
<1> HIDE DEF W, Y, y
<1>14. /\ lo <= x /\ x + s <= lo + 2 * s
       /\ lo <= y /\ y + s <= lo + 2 * s
  <2>1. (x = lo /\ y = lo + s) \/ (y = lo /\ x = lo + s)
    BY <1>11, <1>12
  <2>2. x \in Nat /\ y \in Nat /\ lo \in Nat /\ s \in Nat
    BY <1>8, <1>12, <1>13
  <2> HIDE DEF x, s
  <2> QED  BY <2>1, <2>2
<1>15. a <= lo /\ lo + 2 * s <= a + Size[r]
  <2>1. ~Disjoint(W, R)
    BY <1>1, <1>3, <1>7, <1>8, <1>9, <1>13, <1>14 DEF Disjoint
  <2> QED  BY <1>3, <1>9, <1>11, <1>13, <2>1, Nested
<1>16. PICK c \in F : Within(y, c) /\ ~Disjoint(c, R)
  <2>1. y \in a .. a + Size[r] - 1
    BY <1>1, <1>8, <1>12, <1>13, <1>14, <1>15
  <2> QED  BY <1>5, <2>1
<1>17. /\ c \in Blocks /\ c.order \in Nat /\ k <= c.order /\ k \in Nat
       /\ c.addr \in Nat /\ Size[c.order] \in Nat /\ Size[c.order] > 0
       /\ c.addr % Size[c.order] = 0
       /\ c.addr <= y /\ y < c.addr + Size[c.order]
  BY <1>4, <1>7, <1>8, <1>16, BlockFacts DEF Orders, AlignedBlocks, Within
<1>18. CASE c.order = k
  <2>1. ~Disjoint(c, Y) /\ ~Disjoint(Y, c)
    BY <1>8, <1>12, <1>13, <1>17, <1>18 DEF Disjoint
  <2>2. y <= c.addr
    BY <1>8, <1>12, <1>13, <1>17, <1>18, <2>1, Nested
  <2>3. c.addr = y
    BY <1>12, <1>17, <2>2
  <2> QED  BY <1>18, <2>3 DEF NoBuddies, y
<1>19. CASE c.order # k
  <2>1. W.order <= c.order
    BY <1>13, <1>17, <1>19
  <2>2. ~Disjoint(W, c)
    BY <1>8, <1>9, <1>12, <1>13, <1>14, <1>17 DEF Disjoint
  <2>3. c.addr <= lo /\ lo + 2 * s <= c.addr + Size[c.order]
    BY <1>9, <1>11, <1>13, <1>17, <2>1, <2>2, Nested
  <2>4. ~Disjoint(b, c)
    BY <1>8, <1>13, <1>14, <1>17, <2>3 DEF Disjoint
  <2> QED  BY <1>7, <1>16, <1>19, <2>4 DEF Tiles, Apart
<1> QED  BY <1>18, <1>19

\* One more block leaves no buddies when its own buddy is not there.
LEMMA OneMore ==
    ASSUME NEW S, S \subseteq Blocks, AlignedBlocks(S), NoBuddies(S),
           NEW a \in Nat, NEW o \in Orders, a % Size[o] = 0,
           Block(buddy_block(a, o), o) \notin S
    PROVE  NoBuddies(S \cup {Block(a, o)})
<1> DEFINE n == Block(a, o)
<1>1. n.addr = a /\ n.order = o
  BY BlockFacts
<1> HIDE DEF n
<1>2. ASSUME NEW b \in S, b.order = o PROVE b.addr # buddy_block(a, o)
  <2>1. b = Block(b.addr, b.order)
    BY DEF Blocks, Block
  <2> QED  BY <1>2, <2>1
<1>3. ASSUME NEW b \in S, b.order = o PROVE a # buddy_block(b.addr, o)
  <2>1. b.addr \in Nat /\ b.addr % Size[o] = 0
    BY <1>3, BlockFacts DEF AlignedBlocks
  <2>2. b.addr = buddy_block(buddy_block(b.addr, o), o)
    BY <2>1, BuddyFacts DEF BuddiesAre
  <2> QED  BY <1>2, <1>3, <2>2
<1>4. a # buddy_block(a, o)
  BY BuddyFacts DEF BuddiesAre
<1> QED  BY <1>1, <1>2, <1>3, <1>4 DEF NoBuddies, n

-----------------------------------------------------------------------------
(* Between the calls no two buddies are free                               *)

\* Fewer free blocks outside the work in progress leave no buddies either.
LEMMA StillMerged ==
    ASSUME NEW S, NoBuddies(S), (Free \ AtWork)' \subseteq S
    PROVE  Merged'
  BY DEF Merged, NoBuddies

\* The halves of an aligned block are aligned and each other's buddies.
LEMMA Halves ==
    ASSUME NEW o \in Orders, NEW b \in Nat, b % Size[o + 1] = 0
    PROVE  /\ b % Size[o] = 0 /\ buddy_block(b, o) = b + Size[o]
           /\ (b + Size[o]) % Size[o] = 0 /\ buddy_block(b + Size[o], o) = b
<1> DEFINE s == Size[o]
           z == Size[o + 1]
<1>1. s \in Nat /\ s > 0 /\ z \in Nat /\ z > 0 /\ z = 2 * s
  BY SizeFacts
<1>2. b % s = 0 /\ (b \div s) % 2 = 0
  <2> HIDE DEF s, z
  <2>1. b % z = 0
    BY DEF z
  <2>2. PICK q \in Nat : b = q * z
    BY <1>1, <2>1, Multiples
  <2>3. b = (2 * q) * s /\ 2 * q \in Nat
    BY <1>1, <2>2
  <2> DEFINE p == 2 * q
  <2>4. p \in Nat /\ b = p * s /\ p % 2 = 0
    BY <2>3
  <2> HIDE DEF p
  <2>5. b % s = 0 /\ (b \div s) = p
    BY <1>1, <2>4, Multiples
  <2> QED  BY <2>4, <2>5
<1>3. buddy_block(b, o) = b + Size[o]
  BY <1>2 DEF buddy_block
<1> QED  BY <1>2, <1>3, BuddyFacts DEF BuddiesAre

\* Of two buddies that lie side by side the lower one is where their union starts.
LEMMA Unions ==
    ASSUME NEW o \in Orders, NEW x \in Nat, x % Size[o] = 0, NEW lo \in Nat,
           {Block(x, o), Block(buddy_block(x, o), o)} =
               {Block(lo, o), Block(lo + Size[o], o)}
    PROVE  lo % Size[o + 1] = 0
<1> DEFINE y == buddy_block(x, o)
           s == Size[o]
<1>1. y \in Nat /\ x # y
  BY BuddyFacts DEF BuddiesAre
<1>2. PICK l \in {x, y} : l % Size[o + 1] = 0 /\ {x, y} = {l, l + Size[o]}
  BY BuddyFacts DEF BuddiesAre
<1>3. s \in Nat /\ s > 0 /\ l \in Nat
  BY <1>1, SizeFacts
<1> HIDE DEF y
<1>4. {x, y} = {lo, lo + s}
  <2>1. \A a, c : Block(a, o) = Block(c, o) => a = c
    BY DEF Block
  <2>2. \A a \in {x, y} : a \in {lo, lo + s}
    BY <2>1 DEF y
  <2>3. \A a \in {lo, lo + s} : a \in {x, y}
    BY <2>1 DEF y
  <2> QED  BY <2>2, <2>3
<1> HIDE DEF s
<1>5. {l, l + s} = {lo, lo + s}
  BY <1>2, <1>4 DEF s
<1>6. l = lo
  <2>1. l \in {lo, lo + s} /\ lo \in {l, l + s}
    BY <1>5
  <2> QED  BY <1>3, <2>1
<1> QED  BY <1>2, <1>6

\* The free blocks are aligned blocks.
LEMMA FreeBlocks ==
    ASSUME MergedInv
    PROVE  /\ TypeOK /\ Tiled /\ CallState /\ NoBuddies(Free \ AtWork)
           /\ Free \subseteq Blocks /\ AlignedBlocks(Free)
           /\ \A b \in Free \cup Held : b.addr % Size[b.order] = 0
  BY InvIsTiled DEF MergedInv, IInv, Merged, Tiled, Tiles, Aligned, AlignedBlocks

\* add_to_buddy() frees no block beside its buddy: the two would have been added
\* as one.
LEMMA AddMerged ==
    ASSUME MergedInv, add_to_buddy
    PROVE  Aligned' /\ Largest' /\ Merged' /\ NoneLeft'
<1>1. PICK o \in Orders :
         /\ Fits(o) /\ \A n \in Orders : n > o => ~Fits(n)
         /\ Size[o] \in Nat /\ Size[o] > 0
         /\ block \in Nat /\ Start <= block /\ block + Size[o] <= End
         /\ Added = block /\ Held' = Held
         /\ Free' = Free \cup {Block(block, o)}
  BY AddEffect DEF MergedInv
<1>2. /\ call = "add_to_buddy" /\ call' = "add_to_buddy"
      /\ AtWork = {} /\ AtWork' = {}
  BY DEF add_to_buddy, AtWork
<1> DEFINE n == Block(block, o)
           y == buddy_block(block, o)
<1>3. n \in Blocks /\ n.addr = block /\ n.order = o /\ block % Size[o] = 0
  BY <1>1, BlockFacts DEF Fits
<1>4. Aligned'
  <2> HIDE DEF n
  <2>1. (Free \cup Held)' = (Free \cup Held) \cup {n}
    BY <1>1 DEF n
  <2>2. \A b \in (Free \cup Held) \cup {n} : b.addr % Size[b.order] = 0
    BY <1>3, FreeBlocks
  <2> QED  BY <2>1, <2>2 DEF Aligned
<1>5. Largest'
  <2> HIDE DEF n
  <2>1. \A b \in Free \cup {n}, m \in Orders :
            m > b.order => ~(b.addr % Size[m] = 0 /\ b.addr + Size[m] <= End)
    BY <1>1, <1>2, <1>3 DEF MergedInv, Largest, Fits
  <2> QED  BY <1>1, <2>1 DEF Largest, n
<1>6. Block(y, o) \notin Free
  <2> SUFFICES ASSUME Block(y, o) \in Free
               PROVE  FALSE
    OBVIOUS
  <2>1. /\ y \in Nat /\ y % Size[o] = 0 /\ block # y
        /\ \E lo \in {block, y} : /\ lo % Size[o + 1] = 0
                                  /\ {block, y} = {lo, lo + Size[o]}
    BY <1>1, <1>3, BuddyFacts DEF BuddiesAre
  <2>2. Block(y, o).addr = y /\ Block(y, o).order = o
    BY <2>1, BlockFacts
  <2>3. Start <= y /\ y + Size[o] <= block
    BY <1>1, <2>2, FreeBlocks DEF Tiled, Tiles, Inside
  <2> HIDE DEF y
  <2>4. y % Size[o + 1] = 0 /\ block = y + Size[o]
    BY <1>1, <2>1, <2>3
  <2>5. /\ Start \in Nat /\ End \in Nat /\ MaxOrder \in Nat
        /\ Size[o + 1] = 2 * Size[o]
    BY BuddyAssumption, SizeFacts
  <2>6. y + Size[o + 1] <= End
    BY <1>1, <2>1, <2>4, <2>5
  <2>7. CASE o + 1 \in Orders
    <3>1. o + 1 > Block(y, o).order
      BY <2>2 DEF Orders
    <3> QED  BY <1>2, <2>2, <2>4, <2>6, <2>7, <3>1 DEF MergedInv, Largest
  <2>8. CASE o + 1 \notin Orders
    <3>1. o + 1 = MaxOrder
      BY <2>5, <2>8 DEF Orders
    <3>2. End - Start < 2 * Size[o]
      BY <2>5, <3>1, BuddyAssumption
    <3> QED  BY <1>1, <2>1, <2>3, <2>5, <2>6, <3>2
  <2> QED  BY <2>7, <2>8
<1>7. Merged'
  <2>1. NoBuddies(Free)
    BY <1>2, FreeBlocks DEF NoBuddies
  <2>2. NoBuddies(Free \cup {n})
    BY <1>1, <1>3, <1>6, <2>1, FreeBlocks, OneMore
  <2> QED  BY <1>1, <2>2, StillMerged
<1>8. NoneLeft'
  BY <1>2 DEF NoneLeft
<1> QED  BY <1>4, <1>5, <1>7, <1>8

\* The blocks stay, and no more of them are in work.
LEMMA SameBlocks ==
    ASSUME MergedInv, Free' = Free, Held' = Held, call' # "add_to_buddy",
           AtWork = {} \/ AtWork' = AtWork
    PROVE  Aligned' /\ Largest' /\ Merged'
<1>1. Aligned' /\ Largest'
  BY DEF MergedInv, Aligned, Largest
<1>2. (Free \ AtWork)' \subseteq Free \ AtWork
  OBVIOUS
<1> QED  BY <1>1, <1>2, FreeBlocks, StillMerged

LEMMA RegionMerged ==
    ASSUME MergedInv, RegionAdded
    PROVE  Aligned' /\ Largest' /\ Merged' /\ NoneLeft'
<1>1. Free' = Free /\ Held' = Held /\ AtWork = {} /\ call' = "none"
  BY DEF RegionAdded, Free, Held, AtWork
<1> QED  BY <1>1, SameBlocks DEF NoneLeft

\* buddy_alloc() panics when it has seen every list from that of its order on.
LEMMA AllocMerged ==
    ASSUME MergedInv, buddy_alloc
    PROVE  Aligned' /\ Largest' /\ Merged' /\ NoneLeft'
<1>1. PICK size \in Sizes, o \in MinOrder .. MaxOrder :
         /\ request' = [size |-> size, order |-> o]
         /\ \/ call' = "split"
            \/ call' = "panic" /\ \A i \in o .. MaxOrder - 1 : free_list[i] = <<>>
  BY DEF buddy_alloc
<1>2. /\ Free' = Free /\ Held' = Held /\ AtWork = {} /\ call' # "add_to_buddy"
      /\ free_list' = free_list
  BY <1>1 DEF buddy_alloc, Free, Held, AtWork
<1>3. NoneLeft'
  BY <1>1, <1>2 DEF NoneLeft
<1> QED  BY <1>2, <1>3, SameBlocks

\* Of the halves of a block the lower one is the one that is split on.
LEMMA SplitMerged ==
    ASSUME MergedInv, Split
    PROVE  Aligned' /\ Largest' /\ Merged' /\ NoneLeft'
<1>1. PICK o \in Orders, b \in Nat :
         /\ order \in Orders /\ order = o + 1 /\ request.order <= o
         /\ order' = o /\ b = Head(free_list[order])
         /\ Block(b, o + 1) \in Free
         /\ Block(b, o) \notin Free \cup Held
         /\ Free' = (Free \ {Block(b, o + 1)})
                        \cup {Block(b, o), Block(b + Size[o], o)}
         /\ free_list'[o] # <<>> /\ Head(free_list'[o]) = b
  BY SplitEffect DEF MergedInv
<1> DEFINE w == Block(b, o + 1)
           l == Block(b, o)
           u == Block(b + Size[o], o)
<1>2. /\ call = "split" /\ call' = "split" /\ Held' = Held
      /\ AtWork = {w} /\ AtWork' = {l}
  BY <1>1 DEF Split, AtWork, Held
<1>3. /\ Size[o] \in Nat /\ b + Size[o] \in Nat /\ o + 1 \in Orders
      /\ w.addr = b /\ w.order = o + 1 /\ l.addr = b /\ l.order = o
      /\ u.addr = b + Size[o] /\ u.order = o
  <2>1. o + 1 \in Orders /\ Size[o] \in Nat
    BY <1>1, SizeFacts
  <2>2. b + Size[o] \in Nat
    BY <2>1
  <2> QED  BY <2>1, <2>2, BlockFacts
<1>4. b % Size[o + 1] = 0
  BY <1>1, <1>3, FreeBlocks
<1>5. /\ b % Size[o] = 0 /\ (b + Size[o]) % Size[o] = 0
      /\ buddy_block(b + Size[o], o) = b
  BY <1>4, Halves
<1>6. Aligned'
  <2> HIDE DEF w, l, u
  <2>1. (Free \cup Held)' \subseteq (Free \cup Held) \cup {l, u}
    BY <1>1, <1>2 DEF l, u
  <2>2. \A c \in (Free \cup Held) \cup {l, u} : c.addr % Size[c.order] = 0
    BY <1>3, <1>5, FreeBlocks
  <2> QED  BY <2>1, <2>2 DEF Aligned
<1>7. Merged'
  <2> DEFINE S == Free \ {w}
  <2>1. S \subseteq Blocks /\ AlignedBlocks(S) /\ NoBuddies(S)
    BY <1>2, FreeBlocks DEF AlignedBlocks
  <2>2. Block(buddy_block(b + Size[o], o), o) \notin S
    BY <1>1, <1>5
  <2> HIDE DEF S
  <2>3. NoBuddies(S \cup {u})
    BY <1>3, <1>5, <2>1, <2>2, OneMore
  <2>4. (Free \ AtWork)' \subseteq S \cup {u}
    BY <1>1, <1>2 DEF S
  <2> QED  BY <2>3, <2>4, StillMerged
<1> QED  BY <1>2, <1>6, <1>7 DEF Largest, NoneLeft

\* The block that was split off leaves the free ones.
LEMMA AllocReturnsMerged ==
    ASSUME MergedInv, AllocReturns
    PROVE  Aligned' /\ Largest' /\ Merged' /\ NoneLeft'
<1> DEFINE w == Block(Head(free_list[order]), order)
<1>1. w \in Free /\ Free' = Free \ {w} /\ Held' = Held \cup {w}
  BY AllocReturnsEffect DEF MergedInv
<1>2. AtWork = {w} /\ AtWork' = {} /\ call' = "none"
  BY DEF AllocReturns, AtWork
<1>3. Aligned'
  <2>1. (Free \cup Held)' = Free \cup Held
    BY <1>1
  <2> QED  BY <2>1, FreeBlocks DEF Aligned
<1>4. Merged'
  BY <1>1, <1>2, FreeBlocks, StillMerged
<1> QED  BY <1>2, <1>3, <1>4 DEF Largest, NoneLeft

\* The block that is given back is in work.
LEMMA DeallocMerged ==
    ASSUME MergedInv, buddy_dealloc
    PROVE  Aligned' /\ Largest' /\ Merged' /\ NoneLeft'
<1>1. PICK r \in live, o \in Orders :
         /\ block' = r.addr /\ order' = o
         /\ Block(r.addr, o) \in Held
         /\ Free' = Free \cup {Block(r.addr, o)}
         /\ Held' = Held \ {Block(r.addr, o)}
  BY DeallocEffect DEF MergedInv
<1> DEFINE w == Block(r.addr, o)
<1>2. AtWork = {} /\ AtWork' = {w} /\ call' = "merge"
  BY <1>1 DEF buddy_dealloc, AtWork
<1>3. Aligned'
  <2>1. (Free \cup Held)' = Free \cup Held
    BY <1>1
  <2> QED  BY <2>1, FreeBlocks DEF Aligned
<1>4. Merged'
  <2>1. (Free \ AtWork)' \subseteq Free \ AtWork
    BY <1>1, <1>2
  <2> QED  BY <2>1, FreeBlocks, StillMerged
<1> QED  BY <1>2, <1>3, <1>4 DEF Largest, NoneLeft

\* The union of two buddies takes the place of the block in work.
LEMMA MergeMerged ==
    ASSUME MergedInv, Merge
    PROVE  Aligned' /\ Largest' /\ Merged' /\ NoneLeft'
<1>1. PICK lo \in Nat :
         /\ order \in Orders /\ order + 1 \in Orders
         /\ block' = lo /\ order' = order + 1 /\ call' = call
         /\ Block(block, order) \in Free
         /\ {Block(block, order), Block(buddy_block(block, order), order)} =
                {Block(lo, order), Block(lo + Size[order], order)}
         /\ Free' = (Free \ {Block(lo, order), Block(lo + Size[order], order)})
                        \cup {Block(lo, order + 1)}
  BY MergeEffect DEF MergedInv
<1> DEFINE x == Block(block, order)
           w == Block(lo, order + 1)
<1>2. /\ call = "merge" /\ call' = "merge" /\ Held' = Held
      /\ AtWork = {x} /\ AtWork' = {w} /\ block \in Nat
  BY <1>1, FreeBlocks DEF Merge, AtWork, Held, TypeOK
<1>3. /\ w.addr = lo /\ w.order = order + 1
      /\ x.addr = block /\ x.order = order
  BY <1>1, <1>2, BlockFacts
<1>4. block % Size[order] = 0
  BY <1>1, <1>3, FreeBlocks
<1>5. lo % Size[order + 1] = 0
  BY <1>1, <1>2, <1>4, Unions
<1>6. Aligned'
  <2> HIDE DEF w
  <2>1. (Free \cup Held)' \subseteq (Free \cup Held) \cup {w}
    BY <1>1, <1>2 DEF w
  <2>2. \A c \in (Free \cup Held) \cup {w} : c.addr % Size[c.order] = 0
    BY <1>3, <1>5, FreeBlocks
  <2> QED  BY <2>1, <2>2 DEF Aligned
<1>7. Merged'
  <2>1. (Free \ AtWork)' \subseteq Free \ AtWork
    BY <1>1, <1>2
  <2> QED  BY <2>1, FreeBlocks, StillMerged
<1> QED  BY <1>2, <1>6, <1>7 DEF Largest, NoneLeft

\* buddy_dealloc() returns when the buddy of the block in work is not free: it
\* cannot be at the head of the list, where the block itself is.
LEMMA DeallocReturnsMerged ==
    ASSUME MergedInv, DeallocReturns
    PROVE  Aligned' /\ Largest' /\ Merged' /\ NoneLeft'
<1> DEFINE x == Block(block, order)
           y == buddy_block(block, order)
           list == free_list[order]
<1>1. /\ call = "merge" /\ call' = "none" /\ Free' = Free /\ Held' = Held
      /\ AtWork = {x} /\ AtWork' = {}
      /\ \A i \in DOMAIN list : ~BuddyAt(i)
  BY DEF DeallocReturns, Free, Held, AtWork
<1>2. /\ order \in Orders /\ block \in Nat
      /\ list \in Seq(Nat) /\ list # <<>> /\ Head(list) = block
  BY <1>1, FreeBlocks DEF TypeOK, CallState
<1>3. Len(list) \in Nat /\ DOMAIN list = 1 .. Len(list) /\ Len(list) > 0
      /\ list[1] = block
  BY <1>2, LenProperties, EmptySeq
<1>4. x \in Free
  <2>1. block \in ToSet(list)
    BY <1>3 DEF ToSet
  <2> QED  BY <1>2, <2>1, InBlocksOn DEF Free
<1>5. block % Size[order] = 0
  <2>1. x.addr = block /\ x.order = order
    BY <1>2, BlockFacts
  <2> QED  BY <1>4, <2>1, FreeBlocks
<1>6. Block(y, order) \notin Free
  <2> SUFFICES ASSUME Block(y, order) \in Free
               PROVE  FALSE
    OBVIOUS
  <2>1. y \in ToSet(list)
    BY <1>2, InBlocksOn DEF Free
  <2>2. PICK i \in DOMAIN list : list[i] = y
    BY <2>1 DEF ToSet
  <2>3. block # y
    BY <1>2, <1>5, BuddyFacts DEF BuddiesAre
  <2>4. i \in 2 .. Len(list)
    BY <1>3, <2>2, <2>3
  <2> QED  BY <1>1, <2>2, <2>4 DEF BuddyAt
<1>7. Merged'
  <2> DEFINE S == Free \ {x}
  <2>1. S \subseteq Blocks /\ AlignedBlocks(S) /\ NoBuddies(S)
    BY <1>1, FreeBlocks DEF AlignedBlocks
  <2>2. Block(y, order) \notin S
    BY <1>6
  <2>3. Free = S \cup {x}
    BY <1>4
  <2> HIDE DEF S
  <2>4. NoBuddies(S \cup {x})
    BY <1>2, <1>5, <2>1, <2>2, OneMore
  <2> QED  BY <1>1, <2>3, <2>4, StillMerged
<1>8. Aligned'
  BY <1>1, FreeBlocks DEF Aligned
<1> QED  BY <1>1, <1>7, <1>8 DEF Largest, NoneLeft

\* No reachable state leaves the stronger invariant.
LEMMA MergedInvariance == Spec => []MergedInv
<1>1. Init => MergedInv
  <2> SUFFICES ASSUME Init  PROVE MergedInv
    OBVIOUS
  <2>1. \A b : b \notin Free /\ b \notin Held
    BY InBlocksOn DEF Init, Free, Held, ToSet
  <2> QED  BY <2>1, InitInv DEF MergedInv, Aligned, Largest, Merged, NoBuddies, NoneLeft, Init
<1>2. MergedInv /\ [Next]_vars => MergedInv'
  <2> SUFFICES ASSUME MergedInv, [Next]_vars  PROVE MergedInv'
    OBVIOUS
  <2>1. IInv'
    BY AddStep, RegionStep, AllocStep, SplitStep, AllocReturnsStep, DeallocStep,
       MergeStep, DeallocReturnsStep, StutterStep DEF Next, Stopped, MergedInv
  <2>2. CASE UNCHANGED vars
    BY <2>1, <2>2 DEF vars, MergedInv, Aligned, Largest, Merged, NoBuddies, NoneLeft,
       Free, Held, AtWork
  <2>3. CASE ~UNCHANGED vars
    <3>1. Aligned' /\ Largest' /\ Merged' /\ NoneLeft'
      BY <2>3, AddMerged, RegionMerged, AllocMerged, SplitMerged, AllocReturnsMerged,
         DeallocMerged, MergeMerged, DeallocReturnsMerged DEF Next, Stopped
    <3> QED  BY <2>1, <3>1 DEF MergedInv
  <2> QED  BY <2>2, <2>3
<1> QED  BY <1>1, <1>2, PTL DEF Spec

\* Between the calls the free blocks are as large as they can be: no sequence of
\* allocations and releases leaves two buddies that were not merged.
THEOREM BuddiesMerged == Spec => []NoFreeBuddies
<1>1. MergedInv => NoFreeBuddies
  BY DEF MergedInv, Merged, NoBuddies, AtWork, NoFreeBuddies
<1> QED  BY <1>1, MergedInvariance, PTL

\* When alloc() panics, every aligned range of the size it needs holds a block the
\* kernel has.
THEOREM PanicsOnlyWhenFull == Spec => []FailsOnlyWhenFull
<1>1. MergedInv => FailsOnlyWhenFull
  <2> SUFFICES ASSUME MergedInv, call = "panic",
                      NEW a \in Start .. End - Size[request.order],
                      a % Size[request.order] = 0
               PROVE  \E b \in Held : ~Disjoint(Block(a, request.order), b)
    BY DEF FailsOnlyWhenFull
  <2>1. AtWork = {} /\ Added = End /\ request.order \in 0 .. MaxOrder
    BY FreeBlocks DEF AtWork, Added, TypeOK
  <2>2. NoBuddies(Free) /\ AlignedBlocks(Free) /\ Tiles(Free \cup Held, End)
    BY <2>1, FreeBlocks DEF Tiled, NoBuddies
  <2>3. \A b \in Free : b.order < request.order
    <3> SUFFICES ASSUME NEW b \in Free, b.order >= request.order
                 PROVE  FALSE
      BY <2>1, FreeBlocks, BlockFacts DEF Orders
    <3>1. PICK o \in Orders : \E x \in ToSet(free_list[o]) : b = Block(x, o)
      BY InBlocksOn DEF Free
    <3>2. b.order = o /\ o \in request.order .. MaxOrder - 1
      BY <2>1, <3>1, BuddyAssumption DEF Block, Orders
    <3>3. free_list[o] = <<>>
      BY <3>2 DEF MergedInv, NoneLeft
    <3> QED  BY <3>1, <3>3 DEF ToSet
  <2> QED  BY <2>1, <2>2, <2>3, NoRoom
<1> QED  BY <1>1, MergedInvariance, PTL

-----------------------------------------------------------------------------
(* The allocator implements Heap                                           *)

\* A call that returns is Alloc or Free, every other step changes no range.
LEMMA StepRefines ==
    ASSUME IInv, [Next]_vars
    PROVE  [Ranges!Next]_Owned
<1>1. TypeOK /\ Tiled /\ LiveFits /\ CallState
  BY InvIsTiled DEF IInv
<1>2. CASE live' = live
  BY <1>2 DEF Owned
<1>3. CASE AllocReturns
  <2> DEFINE b == Head(free_list[order])
             n == [addr |-> b, size |-> request.size, len |-> Size[order]]
  <2>1. /\ order \in Orders /\ order = request.order
        /\ request.size \in Sizes /\ OrderOf(request.size, order)
        /\ free_list[order] # <<>>
        /\ live' = live \cup {[addr |-> b, size |-> request.size, order |-> order]}
        /\ Added = End
    BY <1>1, <1>3 DEF TypeOK, CallState, AllocReturns, Added
  <2>2. Size[order] \in Nat /\ Size[order] > 0 /\ request.size <= Size[order]
    <3>1. order \in 0 .. MaxOrder /\ order < MaxOrder
      BY <2>1, BuddyAssumption DEF Orders
    <3>2. Size[order] \in Nat /\ Size[order] > 0
      BY <3>1, SizeFacts
    <3> QED  BY <2>1, <3>1, <3>2 DEF OrderOf
  <2>3. b \in Nat /\ Block(b, order) \in Free
    BY <1>1, <2>1, PopBlocks DEF Tiled, Free
  <2> HIDE DEF b
  <2>4. Start <= b /\ b + Size[order] <= End
    BY <1>1, <2>1, <2>3 DEF Tiled, Tiles, Inside, Block
  <2>5. Owned' = Owned \cup {n}
    <3> DEFINE r == [addr |-> b, size |-> request.size, order |-> order]
    <3>1. [addr |-> r.addr, size |-> r.size, len |-> Size[r.order]] = n
      OBVIOUS
    <3> HIDE DEF r, n
    <3>2. live' = live \cup {r}
      BY <2>1 DEF r
    <3> QED  BY <3>1, <3>2 DEF Owned
  <2>6. \A s \in Owned : Ranges!Apart(n, s) /\ s.addr # b
    <3> SUFFICES ASSUME NEW r \in live
                 PROVE  /\ r.addr # b
                        /\ \/ b + Size[order] <= r.addr
                           \/ r.addr + Size[r.order] <= b
      BY DEF Owned, Ranges!Apart
    <3> QED  BY <1>1, <2>3, FreeIsNotHeld DEF Disjoint, Block
  <2>7. n \notin Owned
    BY <2>6
  <2>8. Ranges!Alloc(n) /\ n \in Owned' \ Owned
    BY <2>1, <2>2, <2>4, <2>5, <2>6, <2>7 DEF Ranges!Alloc
  <2> HIDE DEF n
  <2> QED  BY <2>8 DEF Ranges!Next
<1>4. CASE buddy_dealloc
  <2>1. PICK r \in live : live' = live \ {r}
    BY <1>4 DEF buddy_dealloc
  <2> DEFINE n == [addr |-> r.addr, size |-> r.size, len |-> Size[r.order]]
  <2>2. n \in Owned
    BY DEF Owned
  <2>3. \A s \in live : s # r =>
            [addr |-> s.addr, size |-> s.size, len |-> Size[s.order]] # n
    BY <1>1 DEF LiveFits
  <2> HIDE DEF n
  <2>4. Owned' = Owned \ {n}
    <3>1. \A s \in live : s = r =>
              [addr |-> s.addr, size |-> s.size, len |-> Size[s.order]] = n
      BY DEF n
    <3> QED  BY <2>1, <2>3, <3>1 DEF Owned
  <2> QED  BY <2>2, <2>4 DEF Ranges!Next, Ranges!Free
<1>5. \/ live' = live \/ AllocReturns \/ buddy_dealloc
  BY DEF Next, vars, add_to_buddy, RegionAdded, buddy_alloc, Split, Merge,
         DeallocReturns, Stopped
<1> QED  BY <1>2, <1>3, <1>4, <1>5

\* The callers of alloc() and dealloc() see Heap.
THEOREM Refinement == Spec => ImplementsHeap
<1>1. Init => Ranges!Init
  BY DEF Init, Ranges!Init, Owned
<1>2. IInv /\ [Next]_vars => [Ranges!Next]_Owned
  BY StepRefines
<1> QED  BY <1>1, <1>2, Invariance, PTL DEF ImplementsHeap, Ranges!Spec, Spec
=============================================================================
