------------------------------- MODULE Buddy -------------------------------
(***************************************************************************)
(* kernel/buddy_system_allocator.c under the alloc() and dealloc() of      *)
(* kernel/memory.c: free lists of blocks of 2^order bytes, split on the    *)
(* way down and merged with their buddies on the way up.                   *)
(*                                                                         *)
(* The kernel makes one call at a time; each turn of the loops of a call   *)
(* is a step here, so the invariants also speak of the lists in between.   *)
(***************************************************************************)
EXTENDS Integers, Sequences, SequencesExt

CONSTANTS
    Start, End,     \* the region add_to_buddy() is given
    MaxOrder,       \* MAX_ORDER: the length of free_list
    Size,           \* Size[o] = 2^o, the bytes of a block of order o
    Sizes           \* the sizes the kernel asks for

Orders == 0 .. MaxOrder - 1
MinOrder == 3       \* a block holds at least the link of the free list

ASSUME BuddyAssumption ==
    /\ Start \in Nat \ {0} /\ End \in Nat /\ Start < End
    /\ MaxOrder \in Nat /\ MaxOrder > MinOrder
    /\ Size \in [0 .. MaxOrder -> Nat \ {0}]
    /\ Size[0] = 1 /\ \A o \in Orders : Size[o + 1] = 2 * Size[o]
    /\ Start % Size[MinOrder] = 0 /\ End % Size[MinOrder] = 0
    /\ End - Start < Size[MaxOrder]
    /\ Sizes \subseteq Nat

VARIABLES
    free_list,      \* for each order the addresses on its list, head first
    allocated,      \* Buddy.allocated
    total,          \* Buddy.total
    live,           \* the blocks the kernel has: [addr, size, order]
    call,           \* the call being executed
    block,          \* current / current_block / the address to be returned
    order,          \* j in buddy_alloc(), current_order in buddy_dealloc()
    request         \* [size, order] of the call being executed

vars == <<free_list, allocated, total, live, call, block, order, request>>

-----------------------------------------------------------------------------

PUSH(lists, b, o) == [lists EXCEPT ![o] = <<b>> \o @]
POP(lists, o) == [lists EXCEPT ![o] = Tail(@)]
UNLINK(lists, o, i) == [lists EXCEPT ![o] = RemoveAt(@, i)]     \* *prev = *next

\* Mutant: the size is rounded down.
OrderOf_down(size, o) ==
    /\ o \in MinOrder .. MaxOrder - 1
    /\ o = MinOrder \/ Size[o] <= size
    /\ \A n \in o + 1 .. MaxOrder - 1 : size < Size[n]

\* get_order(MAX(next_power_of_two(size), 8)) = o, where MaxOrder stands for
\* every order that has no list.
OrderOf(size, o) ==
    /\ o \in MinOrder .. MaxOrder
    /\ o < MaxOrder => size <= Size[o]
    /\ \A n \in MinOrder .. o - 1 : Size[n] < size

\* Mutant: | instead of ^.
buddy_block_or(b, o) == IF (b \div Size[o]) % 2 = 0 THEN b + Size[o] ELSE b

\* b ^ (1 << o): the bit o of the address is flipped.
buddy_block(b, o) ==
    IF (b \div Size[o]) % 2 = 0 THEN b + Size[o] ELSE b - Size[o]

NoRequest == [size |-> 0, order |-> 0]

\* init_buddy(); add_to_buddy() is entered.
Init ==
    /\ free_list = [o \in Orders |-> <<>>]
    /\ allocated = 0 /\ total = 0
    /\ live = {}
    /\ call = "add_to_buddy"
    /\ block = Start
    /\ order = 0
    /\ request = NoRequest

-----------------------------------------------------------------------------
(* add_to_buddy()                                                          *)

\* 2^o is MIN(lowbit of the address, largest power of two that still fits).
Fits(o) == block % Size[o] = 0 /\ block + Size[o] <= End

add_to_buddy ==
    /\ call = "add_to_buddy" /\ block < End
    /\ \E o \in Orders :
        /\ Fits(o) /\ \A n \in Orders : n > o => ~Fits(n)
        /\ free_list' = PUSH(free_list, block, o)
        /\ block' = block + Size[o]
        /\ total' = total + Size[o]
    /\ UNCHANGED <<allocated, live, call, order, request>>

RegionAdded ==
    /\ call = "add_to_buddy" /\ block >= End
    /\ call' = "none"
    /\ UNCHANGED <<free_list, allocated, total, live, block, order, request>>

-----------------------------------------------------------------------------
(* buddy_alloc()                                                           *)

\* Mutant: the loop ends at i <= MAX_ORDER, where it reads total.
buddy_alloc_past ==
    /\ call = "none"
    /\ \E size \in Sizes, o \in MinOrder .. MaxOrder, i \in MinOrder .. MaxOrder :
        /\ OrderOf(size, o) /\ o <= i
        /\ request' = [size |-> size, order |-> o]
        /\ i < MaxOrder => free_list[i] # <<>>
        /\ \A n \in o .. i - 1 : free_list[n] = <<>>
        /\ order' = i
    /\ call' = "split"
    /\ UNCHANGED <<free_list, allocated, total, live, block>>

\* The first list from o upwards that has a block; alloc() panics without.
buddy_alloc ==
    /\ call = "none"
    /\ \E size \in Sizes, o \in MinOrder .. MaxOrder :
        /\ OrderOf(size, o)
        /\ request' = [size |-> size, order |-> o]
        /\ \/ \E i \in o .. MaxOrder - 1 :
                /\ free_list[i] # <<>>
                /\ \A n \in o .. i - 1 : free_list[n] = <<>>
                /\ order' = i
                /\ call' = "split"
           \/ /\ \A i \in o .. MaxOrder - 1 : free_list[i] = <<>>
              /\ call' = "panic"
              /\ UNCHANGED order
    /\ UNCHANGED <<free_list, allocated, total, live, block>>

\* Mutant: the upper half starts where the block ends.
Split_past ==
    /\ call = "split" /\ order > request.order
    /\ LET b == Head(free_list[order]) IN
       free_list' =
           PUSH(PUSH(POP(free_list, order), b + Size[order], order - 1),
                b, order - 1)
    /\ order' = order - 1
    /\ UNCHANGED <<allocated, total, live, call, block, request>>

\* One turn of the loop: the upper half goes on the list below, then the lower.
Split ==
    /\ call = "split" /\ order > request.order
    /\ LET b == Head(free_list[order]) IN
       free_list' =
           PUSH(PUSH(POP(free_list, order), b + Size[order - 1], order - 1),
                b, order - 1)
    /\ order' = order - 1
    /\ UNCHANGED <<allocated, total, live, call, block, request>>

AllocReturns ==
    /\ call = "split" /\ order = request.order
    /\ allocated' = allocated + Size[order]
    /\ free_list' = POP(free_list, order)
    /\ live' = live \cup {[addr  |-> Head(free_list[order]),
                           size  |-> request.size,
                           order |-> order]}
    /\ call' = "none"
    /\ UNCHANGED <<total, block, order, request>>

-----------------------------------------------------------------------------
(* buddy_dealloc()                                                         *)

\* The kernel gives back a block it has, with the size it asked for.
buddy_dealloc ==
    /\ call = "none"
    /\ \E r \in live, o \in Orders :
        /\ OrderOf(r.size, o)
        /\ live' = live \ {r}
        /\ free_list' = PUSH(free_list, r.addr, o)
        /\ block' = r.addr
        /\ order' = o
        /\ request' = [size |-> r.size, order |-> o]
    /\ call' = "merge"
    /\ UNCHANGED <<allocated, total>>

\* Mutant: only the block behind the head is looked at.
BuddyAt_second(i) ==
    /\ i = 2 /\ Len(free_list[order]) >= 2
    /\ free_list[order][i] = buddy_block(block, order)

\* Where the search, which starts behind the head, finds the buddy.
BuddyAt(i) ==
    /\ i \in 2 .. Len(free_list[order])
    /\ free_list[order][i] = buddy_block(block, order)

\* Mutant: the union is given the address of the block that was freed.
Merge_here ==
    /\ call = "merge"
    /\ \E i \in DOMAIN free_list[order] :
        /\ BuddyAt(i)
        /\ block' = block
        /\ IF order + 1 \in Orders
           THEN /\ free_list' =
                     PUSH(POP(UNLINK(free_list, order, i), order),
                          block', order + 1)
                /\ UNCHANGED call
           ELSE call' = "overrun" /\ UNCHANGED free_list
    /\ order' = order + 1
    /\ UNCHANGED <<allocated, total, live, request>>

\* One turn of the loop: buddy and head leave the list, their union goes on the
\* next one.  free_list[MAX_ORDER] would be the field behind the array.
Merge ==
    /\ call = "merge"
    /\ \E i \in DOMAIN free_list[order] :
        /\ BuddyAt(i)
        /\ block' = Min({block, buddy_block(block, order)})
        /\ IF order + 1 \in Orders
           THEN /\ free_list' =
                     PUSH(POP(UNLINK(free_list, order, i), order),
                          block', order + 1)
                /\ UNCHANGED call
           ELSE call' = "overrun" /\ UNCHANGED free_list
    /\ order' = order + 1
    /\ UNCHANGED <<allocated, total, live, request>>

DeallocReturns ==
    /\ call = "merge"
    /\ \A i \in DOMAIN free_list[order] : ~BuddyAt(i)
    /\ allocated' = allocated - Size[request.order]
    /\ call' = "none"
    /\ UNCHANGED <<free_list, total, live, block, order, request>>

-----------------------------------------------------------------------------

\* panic() ends in shutdown(), which does not return.
Stopped == call \in {"panic", "overrun"} /\ UNCHANGED vars

Next ==
    \/ add_to_buddy \/ RegionAdded
    \/ buddy_alloc \/ Split \/ AllocReturns
    \/ buddy_dealloc \/ Merge \/ DeallocReturns
    \/ Stopped

Spec == Init /\ [][Next]_vars

-----------------------------------------------------------------------------
(* What must hold                                                          *)

Block(a, o) == [addr |-> a, order |-> o]

BlocksOn(lists) == UNION {{Block(a, o) : a \in ToSet(lists[o])} : o \in Orders}

Free == BlocksOn(free_list)
Held == {Block(r.addr, r.order) : r \in live}

\* How far the region has been given to the allocator.
Added == IF call = "add_to_buddy" THEN block ELSE End

Within(x, b) == b.addr <= x /\ x < b.addr + Size[b.order]
Disjoint(b, c) == \/ b.addr + Size[b.order] <= c.addr
                  \/ c.addr + Size[c.order] <= b.addr

\* The type invariant.  In particular no block of the largest order finds its
\* buddy, so nothing is pushed behind the end of free_list.
TypeOK ==
    /\ free_list \in [Orders -> Seq(Nat)]
    /\ allocated \in Int /\ total \in Nat
    /\ live \in SUBSET [addr : Nat, size : Sizes, order : Orders]
    /\ call \in {"add_to_buddy", "none", "split", "merge", "panic"}
    /\ block \in Nat
    /\ order \in Orders
    /\ request \in [size : Sizes \cup {0}, order : 0 .. MaxOrder]

\* No block is on two lists, or on one list twice, or free while the kernel
\* has it, and no two blocks share a byte: at each turn of each loop.
NoOverlap ==
    /\ \A o \in Orders : IsInjective(free_list[o])
    /\ Free \cap Held = {}
    /\ \A b, c \in Free \cup Held : b = c \/ Disjoint(b, c)

\* No byte of the region is lost: each is in a free block or in one the
\* kernel has, and these stay inside the region.
NothingLost ==
    /\ \A b \in Free \cup Held : Start <= b.addr /\ b.addr + Size[b.order] <= Added
    /\ \A x \in Start .. Added - 1 : \E b \in Free \cup Held : Within(x, b)

\* Between the calls no two buddies are both free: buddy_dealloc() merges as
\* far as it can, although it looks for the buddy behind the head only.
NoFreeBuddies ==
    call = "none" =>
        \A b, c \in Free :
            b.order = c.order => c.addr # buddy_block(b.addr, b.order)

\* alloc() panics only when no block of the size it needs could be cut from
\* the region: no aligned range of that size is clear of the kernel's blocks.
FailsOnlyWhenFull ==
    call = "panic" =>
        ~\E a \in Start .. End - Size[request.order] :
            /\ a % Size[request.order] = 0
            /\ \A b \in Held : Disjoint(Block(a, request.order), b)

-----------------------------------------------------------------------------

Owned == {[addr |-> r.addr, size |-> r.size, len |-> Size[r.order]] : r \in live}

Ranges == INSTANCE Heap WITH owned <- Owned

\* The callers see a heap: a call that returns gives them a range that nobody
\* has, and the steps in between change no range.
ImplementsHeap == Ranges!Spec

-----------------------------------------------------------------------------
(* The inductive invariant: what a call in progress relies on              *)

\* The kernel has a block once, cut to the size it asked for.
LiveFits ==
    /\ \A r \in live : OrderOf(r.size, r.order)
    /\ \A r, s \in live : r.addr = s.addr => r = s

\* The region is added before the first call; there is a block to split; the
\* block that is merged is at the head of its list.
CallState ==
    /\ call = "add_to_buddy" => live = {} /\ Start <= block /\ block <= End
    /\ call = "split" =>
          /\ request.order <= order
          /\ free_list[order] # <<>>
          /\ request.size \in Sizes /\ OrderOf(request.size, request.order)
    /\ call = "merge" => free_list[order] # <<>> /\ Head(free_list[order]) = block

IInv == TypeOK /\ NoOverlap /\ NothingLost /\ LiveFits /\ CallState

\* That no two buddies are free rests on more: where a block can start, ...
Aligned == \A b \in Free \cup Held : b.addr % Size[b.order] = 0

\* ... that the region is added in blocks that are as large as they can be, ...
Largest ==
    call = "add_to_buddy" =>
        \A b \in Free, n \in Orders :
            n > b.order => ~(b.addr % Size[n] = 0 /\ b.addr + Size[n] <= End)

\* ... that the block about to be split, or the one just freed, is the only one
\* that may have a free buddy, ...
AtWork ==
    CASE call = "split" -> {Block(Head(free_list[order]), order)}
      [] call = "merge" -> {Block(block, order)}
      [] OTHER -> {}
NoBuddies(S) ==
    \A b, c \in S : b.order = c.order => c.addr # buddy_block(b.addr, b.order)
Merged == NoBuddies(Free \ AtWork)

\* ... and that a call that panics has found no block.
NoneLeft ==
    call = "panic" =>
        \A n \in request.order .. MaxOrder - 1 : free_list[n] = <<>>

MergedInv == IInv /\ Aligned /\ Largest /\ Merged /\ NoneLeft
=============================================================================
