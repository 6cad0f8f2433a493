------------------------- MODULE AddressSpaceProofs -------------------------
(***************************************************************************)
(* Every address space has its page tables, pages and stacks to itself,    *)
(* fork, exec and wait give every frame back, the hart never translates    *)
(* with a table that was freed, and programs see private memories.         *)
(*                                                                         *)
(* The argument is about the set of holdings: what alloc() has given to    *)
(* whom as what.  An action gives some objects to somebody, takes some     *)
(* away, or hands them on; the lemmas about Kept say that the blocks stay  *)
(* in step with the holdings.                                              *)
(***************************************************************************)
EXTENDS AddressSpace, TLAPS

-----------------------------------------------------------------------------
(* Functions, pages and segments                                           *)

\* The user's pages are not the kernel's, nor is the stack a program's.
LEMMA Pages ==
    /\ UserPages \cap KernelPages = {} /\ USER_STACK \in UserPages
    /\ USER_STACK \notin KernelPages
    /\ \A elf \in Loadable : ElfPages(elf) \subseteq UserPages \ {USER_STACK}
<1>1. ASSUME NEW elf \in Loadable
      PROVE  ElfPages(elf) \cap KernelPages = {} /\ USER_STACK \notin ElfPages(elf)
  <2>1. USER_STACK \notin ElfPages(elf)
    BY AddressSpaceAssumption DEF Loadable, ElfPages
  <2>2. ASSUME NEW f \in elf, NEW pages \in KernelSegs
        PROVE  DOMAIN f \cap pages = {}
    <3>1. Framed(DOMAIN f) \in ElfSegs(elf) /\ Linear(pages) \in ElfSegs(elf)
      BY DEF ElfSegs, Kernel
    <3>2. /\ Framed(DOMAIN f).pages = DOMAIN f /\ Linear(pages).pages = pages
          /\ Framed(DOMAIN f).type = "Framed" /\ Linear(pages).type = "Linear"
      BY DEF Framed, Linear
    <3> QED  BY <3>1, <3>2 DEF Loadable, Overlap
  <2> QED  BY <2>1, <2>2 DEF ElfPages, KernelPages
<1> QED  BY <1>1, AddressSpaceAssumption DEF UserPages

\* What is in sets of segments.
LEMMA Segments ==
    ASSUME NEW segs
    PROVE  /\ \A v : v \in PagesOf(segs) <=> \E s \in segs : v \in s.pages
           /\ \A v : v \in FramedPages(segs) <=>
                 \E s \in segs : s.type = "Framed" /\ v \in s.pages
  BY DEF PagesOf, FramedPages

\* The segments of the kernel and of a program.
LEMMA LoadedSegs ==
    ASSUME NEW elf \in Loadable
    PROVE  /\ PagesOf(Kernel) = KernelPages /\ FramedPages(Kernel) = {}
           /\ PagesOf(ElfSegs(elf)) = KernelPages \cup ElfPages(elf)
           /\ FramedPages(ElfSegs(elf)) = ElfPages(elf)
           /\ \A s \in ElfSegs(elf) :
                 \/ s.type = "Linear" /\ s.pages \subseteq KernelPages
                 \/ s.type = "Framed" /\ s.pages \subseteq UserPages \ {USER_STACK}
<1>1. \A pages : Linear(pages).pages = pages /\ Linear(pages).type = "Linear"
  BY DEF Linear
<1>2. \A pages : Framed(pages).pages = pages /\ Framed(pages).type = "Framed"
  BY DEF Framed
<1>3. \A s : s \in Kernel <=> \E pages \in KernelSegs : s = Linear(pages)
  BY DEF Kernel
<1>4. \A s : s \in ElfSegs(elf) <=> s \in Kernel \/ \E f \in elf : s = Framed(DOMAIN f)
  BY DEF ElfSegs
<1>5. \A v : v \in KernelPages <=> \E pages \in KernelSegs : v \in pages
  BY DEF KernelPages
<1>6. \A v : v \in ElfPages(elf) <=> \E f \in elf : v \in DOMAIN f
  BY DEF ElfPages
<1>7. \A v : v \in PagesOf(Kernel) <=> v \in KernelPages
  BY <1>1, <1>3, <1>5, Segments
<1>8. \A v : v \notin FramedPages(Kernel)
  BY <1>1, <1>3, Segments
<1>9. \A v : v \in PagesOf(ElfSegs(elf)) <=> v \in KernelPages \/ v \in ElfPages(elf)
  BY <1>1, <1>2, <1>3, <1>4, <1>5, <1>6, Segments
<1>10. \A v : v \in FramedPages(ElfSegs(elf)) <=> v \in ElfPages(elf)
  BY <1>1, <1>2, <1>3, <1>4, <1>6, Segments
<1>11. ASSUME NEW s \in ElfSegs(elf)
       PROVE  \/ s.type = "Linear" /\ s.pages \subseteq KernelPages
              \/ s.type = "Framed" /\ s.pages \subseteq UserPages \ {USER_STACK}
  <2>1. CASE s \in Kernel
    BY <1>1, <1>3, <1>5, <2>1
  <2>2. CASE \E f \in elf : s = Framed(DOMAIN f)
    BY <1>2, <1>6, <2>2, Pages
  <2> QED  BY <1>4, <2>1, <2>2
<1> QED  BY <1>7, <1>8, <1>9, <1>10, <1>11

\* The tables of more pages are more tables.
LEMMA MoreTables ==
    ASSUME NEW A, NEW B, NEW v
    PROVE  /\ TablesOf(A \cup B) = TablesOf(A) \cup TablesOf(B)
           /\ TablesOf({v}) = TablesFor(v)
  BY DEF TablesOf

-----------------------------------------------------------------------------
(* Blocks and what they are held for                                       *)

\* What o holds once some objects are placed at `at`.
New(o, at, objects) == {<<o, x[1], x[2], at[x]>> : x \in objects}

\* alloc() changes the blocks it places the objects in.
LEMMA AllocIs ==
    ASSUME NEW k, NEW objects, NEW at \in Placements(objects, k)
    PROVE  /\ DOMAIN at = objects
           /\ \A x \in objects : /\ at[x] \in Blocks /\ k[at[x]] = "free"
                                 /\ Alloc(at, k)[at[x]] = x[1]
           /\ \A x, y \in objects : at[x] = at[y] => x = y
           /\ \A b \in Blocks : (\A x \in objects : at[x] # b) => Alloc(at, k)[b] = k[b]
           /\ \A b \in Blocks : k[b] # "free" => Alloc(at, k)[b] = k[b]
<1>1. /\ DOMAIN at = objects
      /\ \A x \in objects : at[x] \in Blocks /\ k[at[x]] = "free"
      /\ \A x, y \in objects : at[x] = at[y] => x = y
  BY DEF Placements
<1>2. ASSUME NEW x \in objects  PROVE Alloc(at, k)[at[x]] = x[1]
  <2>1. (CHOOSE y \in DOMAIN at : at[y] = at[x]) = x
    BY <1>1
  <2> QED  BY <1>1, <2>1 DEF Alloc
<1>3. \A b \in Blocks : (\A x \in objects : at[x] # b) => Alloc(at, k)[b] = k[b]
  BY <1>1 DEF Alloc
<1> QED  BY <1>1, <1>2, <1>3

\* The owner of new objects holds what alloc() has placed, or all but some
\* that are no frames.
LEMMA KeptNew ==
    ASSUME NEW H, NEW k, Kept(H, k), NEW objects, NEW at \in Placements(objects, k),
           NEW held \in SUBSET objects, NEW o,
           \A x \in held : x[1] # "free",
           \A x \in objects : x[1] \in Frames => x \in held
    PROVE  /\ Kept(H \cup New(o, at, held), Alloc(at, k))
           /\ \A h \in H : h[4] \in Blocks /\ k[h[4]] # "free"
<1> DEFINE N == New(o, at, held)
           K == Alloc(at, k)
<1>1. \A h \in H : h[4] \in Blocks /\ k[h[4]] # "free" /\ k[h[4]] = h[2]
  BY DEF Kept
<1>2. ASSUME NEW n \in N
      PROVE  \E x \in held : /\ n = <<o, x[1], x[2], at[x]>>
                             /\ n[2] = x[1] /\ n[4] = at[x]
  BY DEF New
<1>3. \A x \in held : <<o, x[1], x[2], at[x]>> \in N
  BY DEF New
<1> HIDE DEF N
<1>4. \A h \in H \cup N : h[4] \in Blocks /\ h[2] # "free" /\ K[h[4]] = h[2]
  BY <1>1, <1>2, AllocIs DEF Kept
<1>5. ASSUME NEW g \in H \cup N, NEW h \in H \cup N, g[4] = h[4]  PROVE g = h
  <2>1. CASE g \in N /\ h \in N
    <3>1. PICK x \in held : g = <<o, x[1], x[2], at[x]>> /\ g[4] = at[x]
      BY <1>2, <2>1
    <3>2. PICK y \in held : h = <<o, y[1], y[2], at[y]>> /\ h[4] = at[y]
      BY <1>2, <2>1
    <3>3. x = y
      BY <1>5, <3>1, <3>2, AllocIs
    <3> QED  BY <3>1, <3>2, <3>3
  <2>2. CASE g \in H /\ h \in H
    BY <1>5, <2>2 DEF Kept
  <2>3. CASE g \in N /\ h \in H
    BY <1>1, <1>2, <1>5, <2>3, AllocIs
  <2>4. CASE g \in H /\ h \in N
    BY <1>1, <1>2, <1>5, <2>4, AllocIs
  <2> QED  BY <2>1, <2>2, <2>3, <2>4
<1>6. ASSUME NEW b \in Blocks, K[b] \in Frames  PROVE \E h \in H \cup N : h[4] = b
  <2>1. CASE \E x \in objects : at[x] = b
    <3>1. PICK x \in objects : at[x] = b
      BY <2>1
    <3>2. x \in held
      BY <1>6, <3>1, AllocIs
    <3>3. <<o, x[1], x[2], at[x]>> \in N /\ <<o, x[1], x[2], at[x]>>[4] = b
      BY <1>3, <3>1, <3>2
    <3> QED  BY <3>3
  <2>2. CASE \A x \in objects : at[x] # b
    BY <1>6, <2>2, AllocIs DEF Kept
  <2> QED  BY <2>1, <2>2
<1> QED  BY <1>1, <1>4, <1>5, <1>6 DEF Kept, N

\* Who gives blocks back gives up what it held there, and every frame that
\* somebody gives up is given back.
LEMMA KeptLess ==
    ASSUME NEW H, NEW k, Kept(H, k), NEW G \in SUBSET H, NEW B,
           \A h \in G : h[4] \notin B,
           \A h \in H \ G : h[2] \in Frames => h[4] \in B
    PROVE  Kept(G, Dealloc(B, k))
<1>1. \A b \in Blocks : Dealloc(B, k)[b] = IF b \in B THEN "free" ELSE k[b]
  BY DEF Dealloc
<1>2. \A h \in G : h[4] \in Blocks /\ h[2] # "free" /\ Dealloc(B, k)[h[4]] = h[2]
  BY <1>1 DEF Kept
<1>3. ASSUME NEW b \in Blocks, Dealloc(B, k)[b] \in Frames
      PROVE  \E h \in G : h[4] = b
  <2>1. b \notin B /\ k[b] \in Frames
    BY <1>1, <1>3 DEF Frames
  <2>2. PICK h \in H : h[4] = b
    BY <2>1 DEF Kept
  <2>3. h \in G
    BY <2>1, <2>2 DEF Kept
  <2> QED  BY <2>2, <2>3
<1> QED  BY <1>2, <1>3 DEF Kept

-----------------------------------------------------------------------------
(* Memory maps and what is held for them                                   *)

\* What the memory map for segs is made of with those in linked on its list.
MapObjects(segs, linked) ==
    Of("mm", Sole) \cup Of("root", Sole) \cup Of("table", TablesOf(PagesOf(segs)))
    \cup Of("segment", {s.pages : s \in linked}) \cup Of("page", FramedPages(linked))

\* What is held for a memory map.
LEMMA InMapHoldings ==
    ASSUME NEW o, NEW m, NEW h
    PROVE  h \in MapHoldings(o, m) <=>
               \/ h = <<o, "mm", 0, m.self>>
               \/ h = <<o, "root", 0, m.root>>
               \/ \E t \in DOMAIN m.tables : h = <<o, "table", t, m.tables[t]>>
               \/ \E s \in m.segs : h = <<o, "segment", s.pages, s.self>>
               \/ \E v \in FramedPages(m.segs) : h = <<o, "page", v, m.pte[v]>>
  BY DEF MapHoldings

\* What is held for new objects, for those of two sets, for those of one kind
\* and for a sole one.
LEMMA InNew ==
    ASSUME NEW o, NEW at, NEW objects, NEW h
    PROVE  h \in New(o, at, objects) <=> \E x \in objects : h = <<o, x[1], x[2], at[x]>>
  BY DEF New

\* The holdings given for a union are those given for its parts.
LEMMA InNewUnion ==
    ASSUME NEW o, NEW at, NEW A, NEW B, NEW h
    PROVE  h \in New(o, at, A \cup B) <=> h \in New(o, at, A) \/ h \in New(o, at, B)
<1> DEFINE C == A \cup B
<1>1. \A x : x \in C <=> x \in A \/ x \in B
  OBVIOUS
<1> HIDE DEF C
<1>2. h \in New(o, at, C) <=> h \in New(o, at, A) \/ h \in New(o, at, B)
  BY <1>1, InNew
<1> QED  BY <1>2 DEF C

Given(o, at, k, S, h) == \E w \in S : h = <<o, k, w, at[<<k, w>>]>>

\* The holdings given for the objects of one kind,
LEMMA InNewOf ==
    ASSUME NEW o, NEW at, NEW k, NEW S, NEW h
    PROVE  h \in New(o, at, Of(k, S)) <=> Given(o, at, k, S, h)
<1>1. \A x : x \in Of(k, S) <=> \E w \in S : x = <<k, w>>
  BY DEF Of
<1>2. ASSUME h \in New(o, at, Of(k, S))
      PROVE  \E w \in S : h = <<o, k, w, at[<<k, w>>]>>
  <2>1. PICK x \in Of(k, S) : h = <<o, x[1], x[2], at[x]>>
    BY <1>2, InNew
  <2>2. PICK w \in S : x = <<k, w>>
    BY <1>1
  <2> QED  BY <2>1, <2>2
<1>3. ASSUME NEW w \in S, h = <<o, k, w, at[<<k, w>>]>>
      PROVE  h \in New(o, at, Of(k, S))
  <2> DEFINE x == <<k, w>>
  <2>1. x \in Of(k, S) /\ h = <<o, x[1], x[2], at[x]>>
    BY <1>1, <1>3
  <2> HIDE DEF x
  <2> QED  BY <2>1, InNew
<1> QED  BY <1>2, <1>3 DEF Given

\* and for a sole object.
LEMMA InNewSole ==
    ASSUME NEW o, NEW at, NEW k, NEW h
    PROVE  h \in New(o, at, Of(k, Sole)) <=> h = <<o, k, 0, at[<<k, 0>>]>>
<1>1. h \in New(o, at, Of(k, Sole)) <=> Given(o, at, k, Sole, h)
  BY InNewOf
<1>2. \A w : w \in Sole <=> w = 0
  BY DEF Sole
<1> QED  BY <1>1, <1>2 DEF Given

\* The parts of a new memory map.
MadeFor(m, segs, linked, at) ==
    /\ m = [self |-> m.self, root |-> m.root, tables |-> m.tables,
            segs |-> m.segs, pte |-> m.pte]
    /\ m.root = at[<<"root", 0>>] /\ m.self = at[<<"mm", 0>>]
    /\ DOMAIN m.pte = PagesOf(segs) /\ DOMAIN m.tables = TablesOf(PagesOf(segs))
    /\ \A v \in PagesOf(segs) :
          m.pte[v] = IF v \in FramedPages(segs) THEN at[<<"page", v>>] ELSE NULL
    /\ FramedPages(m.segs) = FramedPages(linked)
    /\ \A s \in m.segs : \E t \in linked : s.pages = t.pages /\ s.type = t.type

\* It is made of new objects.
LEMMA NewMap ==
    ASSUME NEW segs, NEW linked \in SUBSET segs, NEW at, NEW o,
           NEW m, m = MemoryMap(segs, linked, at)
    PROVE  /\ \A h : h \in MapHoldings(o, m) <=> h \in New(o, at, MapObjects(segs, linked))
           /\ MadeFor(m, segs, linked, at)
<1> DEFINE on(s) == [pages |-> s.pages, type |-> s.type, self |-> at[<<"segment", s.pages>>]]
<1>1. /\ m = [self |-> m.self, root |-> m.root, tables |-> m.tables,
              segs |-> m.segs, pte |-> m.pte]
      /\ m.root = at[<<"root", 0>>] /\ m.self = at[<<"mm", 0>>]
      /\ m.tables = [t \in TablesOf(PagesOf(segs)) |-> at[<<"table", t>>]]
      /\ m.segs = {on(s) : s \in linked}
      /\ m.pte = [v \in PagesOf(segs) |->
                     IF v \in FramedPages(segs) THEN at[<<"page", v>>] ELSE NULL]
  BY DEF MemoryMap
<1>2. \A s : /\ on(s).pages = s.pages /\ on(s).type = s.type
             /\ on(s).self = at[<<"segment", s.pages>>]
  OBVIOUS
<1> HIDE DEF on
<1>3. /\ \A s \in m.segs : \E t \in linked : s.pages = t.pages /\ s.type = t.type
      /\ \A t \in linked : \E s \in m.segs : s.pages = t.pages /\ s.type = t.type
  BY <1>1, <1>2
<1>8. ASSUME NEW s \in m.segs  PROVE s.self = at[<<"segment", s.pages>>]
  <2>1. PICK t \in linked : s = on(t)
    BY <1>1
  <2> QED  BY <1>2, <2>1
<1>4. FramedPages(m.segs) = FramedPages(linked)
  <2>1. \A v : v \in FramedPages(m.segs) <=> v \in FramedPages(linked)
    BY <1>3 DEF FramedPages, PagesOf
  <2> QED  BY <2>1
<1>5. FramedPages(linked) \subseteq FramedPages(segs) /\ FramedPages(segs) \subseteq PagesOf(segs)
  BY DEF FramedPages, PagesOf
<1>6. /\ DOMAIN m.pte = PagesOf(segs) /\ DOMAIN m.tables = TablesOf(PagesOf(segs))
      /\ \A v \in PagesOf(segs) :
            m.pte[v] = IF v \in FramedPages(segs) THEN at[<<"page", v>>] ELSE NULL
      /\ \A t \in DOMAIN m.tables : m.tables[t] = at[<<"table", t>>]
  BY <1>1
<1>7. ASSUME NEW h
      PROVE  h \in MapHoldings(o, m) <=> h \in New(o, at, MapObjects(segs, linked))
  <2> DEFINE P == {s.pages : s \in linked}
             T == TablesOf(PagesOf(segs))
             F == FramedPages(linked)
             A == Of("mm", Sole) \cup Of("root", Sole)
             B == A \cup Of("table", T)
             C == B \cup Of("segment", P)
             D == C \cup Of("page", F)
  <2>1. MapObjects(segs, linked) = D
    BY DEF MapObjects
  <2>2. \A p : p \in P <=> \E s \in linked : p = s.pages
    OBVIOUS
  <2>3. T = DOMAIN m.tables /\ F = FramedPages(m.segs)
    BY <1>4, <1>6
  <2> HIDE DEF P, T, F
  <2>4. h \in New(o, at, A) <=> h = <<o, "mm", 0, m.self>> \/ h = <<o, "root", 0, m.root>>
    <3>1. h \in New(o, at, A) <=>
              h \in New(o, at, Of("mm", Sole)) \/ h \in New(o, at, Of("root", Sole))
      BY InNewUnion
    <3>2. h \in New(o, at, Of("mm", Sole)) <=> h = <<o, "mm", 0, at[<<"mm", 0>>]>>
      BY InNewSole
    <3>3. h \in New(o, at, Of("root", Sole)) <=> h = <<o, "root", 0, at[<<"root", 0>>]>>
      BY InNewSole
    <3> QED  BY <1>1, <3>1, <3>2, <3>3
  <2>5. h \in New(o, at, B) <=> h \in New(o, at, A) \/ h \in New(o, at, Of("table", T))
    BY InNewUnion
  <2>6. h \in New(o, at, C) <=> h \in New(o, at, B) \/ h \in New(o, at, Of("segment", P))
    BY InNewUnion
  <2>7. h \in New(o, at, D) <=> h \in New(o, at, C) \/ h \in New(o, at, Of("page", F))
    BY InNewUnion
  <2> HIDE DEF A, B, C, D
  <2>8. h \in New(o, at, Of("table", T)) <=>
            \E t \in DOMAIN m.tables : h = <<o, "table", t, m.tables[t]>>
    <3>1. h \in New(o, at, Of("table", T)) <=> Given(o, at, "table", T, h)
      BY InNewOf
    <3> QED  BY <1>6, <2>3, <3>1 DEF Given
  <2>9. h \in New(o, at, Of("segment", P)) <=>
            \E s \in m.segs : h = <<o, "segment", s.pages, s.self>>
    <3>1. h \in New(o, at, Of("segment", P)) <=> Given(o, at, "segment", P, h)
      BY InNewOf
    <3>2. \A p : p \in P <=> \E s \in m.segs : p = s.pages
      BY <1>3, <2>2
    <3>3. ASSUME NEW p \in P, h = <<o, "segment", p, at[<<"segment", p>>]>>
          PROVE  \E s \in m.segs : h = <<o, "segment", s.pages, s.self>>
      <4>1. PICK s \in m.segs : p = s.pages
        BY <3>2
      <4> QED  BY <1>8, <3>3, <4>1
    <3>4. ASSUME NEW s \in m.segs, h = <<o, "segment", s.pages, s.self>>
          PROVE  Given(o, at, "segment", P, h)
      <4>1. s.pages \in P /\ h = <<o, "segment", s.pages, at[<<"segment", s.pages>>]>>
        BY <1>8, <3>2, <3>4
      <4> QED  BY <4>1 DEF Given
    <3> QED  BY <3>1, <3>3, <3>4 DEF Given
  <2>10. h \in New(o, at, Of("page", F)) <=>
             \E v \in FramedPages(m.segs) : h = <<o, "page", v, m.pte[v]>>
    <3>1. h \in New(o, at, Of("page", F)) <=> Given(o, at, "page", F, h)
      BY InNewOf
    <3>2. \A v \in F : m.pte[v] = at[<<"page", v>>]
      BY <1>5, <1>6 DEF F
    <3> QED  BY <2>3, <3>1, <3>2 DEF Given
  <2> QED  BY <2>1, <2>4, <2>5, <2>6, <2>7, <2>8, <2>9, <2>10, InMapHoldings
<1> QED  BY <1>1, <1>3, <1>4, <1>6, <1>7 DEF MadeFor

\* What changes in a memory map with a user stack, and what is held for it.
StackFor(n, m, b, at, o) ==
    /\ \A h : h \in MapHoldings(o, n) <=>
                 \/ h \in MapHoldings(o, m)
                 \/ h \in New(o, at, Of("table", StackTables(m)))
    /\ WellFormed(n)
    /\ n.root = m.root /\ n.self = m.self /\ n.segs = m.segs
    /\ DOMAIN n.pte = DOMAIN m.pte \cup {USER_STACK}
    /\ n.pte[USER_STACK] = b /\ \A v \in DOMAIN m.pte : n.pte[v] = m.pte[v]

\* map_pages() of the user stack: m with the stack and the tables on its way.
LEMMA StackMap ==
    ASSUME NEW m, NEW b, NEW at, NEW o, WellFormed(m), USER_STACK \notin DOMAIN m.pte,
           b # NULL, NEW n, n = MapStack(m, b, at)
    PROVE  StackFor(n, m, b, at, o)
<1>0. m = [self |-> m.self, root |-> m.root, tables |-> m.tables,
           segs |-> m.segs, pte |-> m.pte]
  BY DEF WellFormed
<1>1. /\ n = [self |-> n.self, root |-> n.root, tables |-> n.tables,
              segs |-> n.segs, pte |-> n.pte]
      /\ n.root = m.root /\ n.self = m.self /\ n.segs = m.segs
      /\ n.tables = [t \in DOMAIN m.tables \cup StackTables(m) |->
                        IF t \in DOMAIN m.tables THEN m.tables[t] ELSE at[<<"table", t>>]]
      /\ n.pte = With(m.pte, USER_STACK, b)
  BY <1>0 DEF MapStack
<1>2. /\ DOMAIN n.pte = DOMAIN m.pte \cup {USER_STACK}
      /\ n.pte[USER_STACK] = b /\ \A v \in DOMAIN m.pte : n.pte[v] = m.pte[v]
  <2>1. n.pte = With(m.pte, USER_STACK, b)
    BY <1>1
  <2> QED  BY <2>1 DEF With
<1>3. /\ DOMAIN n.tables = DOMAIN m.tables \cup StackTables(m)
      /\ \A t \in DOMAIN m.tables : n.tables[t] = m.tables[t]
      /\ \A t \in StackTables(m) : n.tables[t] = at[<<"table", t>>]
  <2>1. n.tables = [t \in DOMAIN m.tables \cup StackTables(m) |->
                        IF t \in DOMAIN m.tables THEN m.tables[t] ELSE at[<<"table", t>>]]
    BY <1>1
  <2>2. \A t \in StackTables(m) : t \notin DOMAIN m.tables
    BY DEF StackTables
  <2> QED  BY <2>1, <2>2
<1>4. n.root = m.root /\ n.self = m.self /\ n.segs = m.segs
  BY <1>1
<1>5. WellFormed(n)
  <2>1. DOMAIN n.tables = TablesOf(DOMAIN n.pte)
    <3>1. \A t : t \in DOMAIN n.tables <=> t \in DOMAIN m.tables \/ t \in TablesFor(USER_STACK)
      BY <1>3 DEF StackTables
    <3>2. \A t : t \in TablesOf(DOMAIN n.pte) <=>
                     t \in TablesOf(DOMAIN m.pte) \/ t \in TablesFor(USER_STACK)
      BY <1>2 DEF TablesOf
    <3> QED  BY <3>1, <3>2 DEF WellFormed
  <2>2. n = [self |-> n.self, root |-> n.root, tables |-> n.tables,
             segs |-> n.segs, pte |-> n.pte]
    BY <1>1
  <2>3. /\ DOMAIN n.pte \subseteq UserPages \cup KernelPages
        /\ (DOMAIN n.pte \cap UserPages) \ {USER_STACK} = FramedPages(n.segs)
    BY <1>2, <1>4, Pages DEF WellFormed
  <2>4. \A v \in DOMAIN n.pte : (n.pte[v] = NULL) <=> (v \in KernelPages)
    BY <1>2, Pages DEF WellFormed
  <2>5. \A s \in n.segs :
            \/ s.type = "Linear" /\ s.pages \subseteq KernelPages
            \/ s.type = "Framed" /\ s.pages \subseteq UserPages \ {USER_STACK}
    BY <1>4 DEF WellFormed
  <2> HIDE <1>1
  <2> QED  BY <2>1, <2>2, <2>3, <2>4, <2>5 DEF WellFormed
<1>6. ASSUME NEW h
      PROVE  h \in MapHoldings(o, n) <=>
                 \/ h \in MapHoldings(o, m)
                 \/ h \in New(o, at, Of("table", StackTables(m)))
  <2>1. (\E t \in DOMAIN n.tables : h = <<o, "table", t, n.tables[t]>>) <=>
            \/ \E t \in DOMAIN m.tables : h = <<o, "table", t, m.tables[t]>>
            \/ h \in New(o, at, Of("table", StackTables(m)))
    <3>1. h \in New(o, at, Of("table", StackTables(m))) <=>
              Given(o, at, "table", StackTables(m), h)
      BY InNewOf
    <3> QED  BY <1>3, <3>1 DEF Given
  <2>2. FramedPages(m.segs) \subseteq DOMAIN m.pte
    BY DEF WellFormed
  <2>3. (\E v \in FramedPages(n.segs) : h = <<o, "page", v, n.pte[v]>>) <=>
            \E v \in FramedPages(m.segs) : h = <<o, "page", v, m.pte[v]>>
    BY <1>2, <1>4, <2>2
  <2>4. h \in MapHoldings(o, n) <=>
            \/ h = <<o, "mm", 0, n.self>>
            \/ h = <<o, "root", 0, n.root>>
            \/ \E t \in DOMAIN n.tables : h = <<o, "table", t, n.tables[t]>>
            \/ \E s \in n.segs : h = <<o, "segment", s.pages, s.self>>
            \/ \E v \in FramedPages(n.segs) : h = <<o, "page", v, n.pte[v]>>
    BY InMapHoldings
  <2>5. h \in MapHoldings(o, m) <=>
            \/ h = <<o, "mm", 0, m.self>>
            \/ h = <<o, "root", 0, m.root>>
            \/ \E t \in DOMAIN m.tables : h = <<o, "table", t, m.tables[t]>>
            \/ \E s \in m.segs : h = <<o, "segment", s.pages, s.self>>
            \/ \E v \in FramedPages(m.segs) : h = <<o, "page", v, m.pte[v]>>
    BY InMapHoldings
  <2> QED  BY <1>4, <2>1, <2>3, <2>4, <2>5
<1> QED  BY <1>2, <1>4, <1>5, <1>6 DEF StackFor

-----------------------------------------------------------------------------
(* More about blocks                                                       *)

\* H is G with those in X handed on to o.
HandedOn(G, X, o, H) ==
    \A h : h \in H <=> \/ h \in G /\ h \notin X
                       \/ \E g \in X : h = <<o, g[2], g[3], g[4]>>

\* sys_exec() hands what it has built to its process.
LEMMA KeptPassed ==
    ASSUME NEW G, NEW k, Kept(G, k), NEW X \in SUBSET G, NEW o, NEW H, HandedOn(G, X, o, H)
    PROVE  Kept(H, k)
<1>0. \A h : h \in H <=> \/ h \in G /\ h \notin X
                        \/ \E g \in X : h = <<o, g[2], g[3], g[4]>>
  BY DEF HandedOn
<1>1. ASSUME NEW h \in H
      PROVE  \E g \in G : /\ g[4] = h[4] /\ g[2] = h[2]
                          /\ g \notin X => h = g
                          /\ g \in X => h = <<o, g[2], g[3], g[4]>>
  <2>1. CASE h \in G /\ h \notin X
    BY <2>1
  <2>2. CASE \E g \in X : h = <<o, g[2], g[3], g[4]>>
    <3>1. PICK g \in X : h = <<o, g[2], g[3], g[4]>>
      BY <2>2
    <3>2. g \in G /\ g[4] = h[4] /\ g[2] = h[2]
      BY <3>1
    <3> QED  BY <3>1, <3>2
  <2> QED  BY <1>0, <2>1, <2>2
<1>2. ASSUME NEW g \in G  PROVE \E h \in H : h[4] = g[4]
  <2>1. CASE g \in X
    <3>1. <<o, g[2], g[3], g[4]>> \in H /\ <<o, g[2], g[3], g[4]>>[4] = g[4]
      BY <1>0, <2>1
    <3> QED  BY <3>1
  <2> QED  BY <1>0, <2>1
<1>3. \A h \in H : h[4] \in Blocks /\ h[2] # "free" /\ k[h[4]] = h[2]
  BY <1>1 DEF Kept
<1>4. ASSUME NEW h \in H, NEW i \in H, h[4] = i[4]  PROVE h = i
  <2>1. PICK g \in G : /\ g[4] = h[4] /\ g[2] = h[2]
                       /\ g \notin X => h = g
                       /\ g \in X => h = <<o, g[2], g[3], g[4]>>
    BY <1>1
  <2>2. PICK j \in G : /\ j[4] = i[4] /\ j[2] = i[2]
                       /\ j \notin X => i = j
                       /\ j \in X => i = <<o, j[2], j[3], j[4]>>
    BY <1>1
  <2>3. g = j
    BY <1>4, <2>1, <2>2 DEF Kept
  <2> QED  BY <2>1, <2>2, <2>3
<1>5. ASSUME NEW b \in Blocks, k[b] \in Frames  PROVE \E h \in H : h[4] = b
  <2>1. PICK g \in G : g[4] = b
    BY <1>5 DEF Kept
  <2> QED  BY <1>2, <2>1
<1> QED  BY <1>3, <1>4, <1>5 DEF Kept

\* Who drops what are no frames, without giving it back.
LEMMA KeptDropped ==
    ASSUME NEW H, NEW k, Kept(H, k), NEW G \in SUBSET H,
           \A h \in H : h[2] \in Frames => h \in G
    PROVE  Kept(G, k)
  BY DEF Kept

\* The kinds of blocks stay kinds, and what is in them stays values.
Kinds == {"free", "mm", "root", "table", "segment", "page", "pcb", "kstack", "ustack", "buf"}

\* alloc(), dealloc() and what they leave in the blocks keep their types.
LEMMA AllocTyped ==
    ASSUME NEW k \in [Blocks -> Kinds], NEW objects, NEW at \in Placements(objects, k),
           \A x \in objects : x[1] \in Kinds
    PROVE  Alloc(at, k) \in [Blocks -> Kinds]
<1>1. ASSUME NEW b \in Blocks  PROVE Alloc(at, k)[b] \in Kinds
  <2>1. CASE \E x \in objects : at[x] = b
    BY <2>1, AllocIs
  <2>2. CASE \A x \in objects : at[x] # b
    <3>1. Alloc(at, k)[b] = k[b]
      BY <2>2, AllocIs
    <3> QED  BY <3>1
  <2> QED  BY <2>1, <2>2
<1> QED  BY <1>1 DEF Alloc

\* dealloc() frees blocks and does nothing else.
LEMMA DeallocTyped ==
    ASSUME NEW k \in [Blocks -> Kinds], NEW B
    PROVE  Dealloc(B, k) \in [Blocks -> Kinds]
  BY DEF Dealloc, Kinds

\* So does what is copied into pages.
LEMMA FilledTyped ==
    ASSUME NEW c \in [Blocks -> Values \cup {NULL}], NEW m, NEW data,
           \A v \in DOMAIN data : data[v] \in Values \cup {NULL}
    PROVE  Filled(c, m, data) \in [Blocks -> Values \cup {NULL}]
<1>1. ASSUME NEW b \in Blocks, \E v \in DOMAIN data : m.pte[v] = b
      PROVE  (CHOOSE v \in DOMAIN data : m.pte[v] = b) \in DOMAIN data
  BY <1>1
<1> QED  BY <1>1 DEF Filled

\* Pages that are in different blocks are filled with their data, and the
\* other blocks stay what they are.
LEMMA FilledIs ==
    ASSUME NEW c, NEW m, NEW data,
           \A v \in DOMAIN data : m.pte[v] \in Blocks,
           \A v, w \in DOMAIN data : m.pte[v] = m.pte[w] => v = w
    PROVE  /\ \A v \in DOMAIN data : Filled(c, m, data)[m.pte[v]] = data[v]
           /\ \A b \in Blocks : (\A v \in DOMAIN data : m.pte[v] # b) =>
                 Filled(c, m, data)[b] = c[b]
<1>1. ASSUME NEW v \in DOMAIN data
      PROVE  Filled(c, m, data)[m.pte[v]] = data[v]
  <2>1. (CHOOSE w \in DOMAIN data : m.pte[w] = m.pte[v]) = v
    OBVIOUS
  <2> QED  BY <2>1 DEF Filled
<1> QED  BY <1>1 DEF Filled

\* And so do frames that are handed back.
LEMMA ClearedTyped ==
    ASSUME content \in [Blocks -> Values \cup {NULL}], NEW B
    PROVE  Cleared(B) \in [Blocks -> Values \cup {NULL}]
  BY DEF Cleared

\* What a program has in its pages are values.
LEMMA DataTyped ==
    ASSUME NEW elf \in Loadable
    PROVE  DOMAIN Data(elf) = ElfPages(elf) /\ \A v \in ElfPages(elf) : Data(elf)[v] \in Values
<1>1. elf \in Programs
  BY DEF Loadable
<1>2. ASSUME NEW v \in ElfPages(elf)  PROVE Data(elf)[v] \in Values
  <2>1. PICK f \in elf : v \in DOMAIN f
    BY DEF ElfPages
  <2>2. /\ (CHOOSE g \in elf : v \in DOMAIN g) \in elf
        /\ v \in DOMAIN (CHOOSE g \in elf : v \in DOMAIN g)
    BY <2>1
  <2>3. \A g \in elf : g \in [DOMAIN g -> Values]
    BY <1>1, AddressSpaceAssumption
  <2>4. (CHOOSE g \in elf : v \in DOMAIN g)[v] \in Values
    BY <2>2, <2>3
  <2> QED  BY <2>4 DEF Data
<1> QED  BY <1>2 DEF Data

-----------------------------------------------------------------------------
(* What is made of new objects                                             *)

\* Objects of one kind.
LEMMA InOf ==
    ASSUME NEW k, NEW S, NEW x
    PROVE  x \in Of(k, S) => x[1] = k /\ x[2] \in S /\ x = <<k, x[2]>>
  BY DEF Of

\* The converse of InOf.
LEMMA IsOf ==
    ASSUME NEW k, NEW S, NEW w \in S
    PROVE  <<k, w>> \in Of(k, S)
  BY DEF Of

\* Segments as the kernel has them.
Proper(segs) ==
    \A s \in segs :
        \/ s.type = "Linear" /\ s.pages \subseteq KernelPages
        \/ s.type = "Framed" /\ s.pages \subseteq UserPages \ {USER_STACK}

\* In a segment list whose Linear segments are the kernel's and whose Framed
\* ones are the user's, a user page is framed and a kernel page is not.
LEMMA ProperPages ==
    ASSUME NEW segs, Proper(segs)
    PROVE  /\ FramedPages(segs) = (PagesOf(segs) \cap UserPages) \ {USER_STACK}
           /\ PagesOf(segs) \subseteq KernelPages \cup UserPages
           /\ USER_STACK \notin PagesOf(segs)
           /\ \A v \in PagesOf(segs) : v \in KernelPages <=> v \notin FramedPages(segs)
<1>1. \A v : v \in PagesOf(segs) <=> \E s \in segs : v \in s.pages
  BY Segments
<1>2. \A v : v \in FramedPages(segs) <=> \E s \in segs : s.type = "Framed" /\ v \in s.pages
  BY Segments
<1>3. ASSUME NEW v \in PagesOf(segs)
      PROVE  \/ v \in KernelPages /\ v \notin UserPages /\ v # USER_STACK
                /\ v \notin FramedPages(segs)
             \/ v \in UserPages /\ v \notin KernelPages /\ v # USER_STACK
                /\ v \in FramedPages(segs)
  <2>1. PICK s \in segs : v \in s.pages
    BY <1>1
  <2>2. CASE s.type = "Linear" /\ s.pages \subseteq KernelPages
    <3>1. v \in KernelPages /\ v \notin UserPages /\ v # USER_STACK
      BY <2>1, <2>2, Pages
    <3>2. v \notin FramedPages(segs)
      BY <1>2, <3>1 DEF Proper
    <3> QED  BY <3>1, <3>2
  <2>3. CASE s.type = "Framed" /\ s.pages \subseteq UserPages \ {USER_STACK}
    BY <1>2, <2>1, <2>3, Pages
  <2> QED  BY <2>1, <2>2, <2>3 DEF Proper
<1>4. FramedPages(segs) \subseteq PagesOf(segs)
  BY <1>1, <1>2
<1> QED  BY <1>3, <1>4

\* A new memory map is well formed.
LEMMA NewMapFormed ==
    ASSUME NEW segs, Proper(segs), NEW linked \in SUBSET segs,
           \A s \in segs : s.type = "Framed" => s \in linked,
           NEW at, \A v \in FramedPages(segs) : at[<<"page", v>>] # NULL,
           NEW m, m = MemoryMap(segs, linked, at)
    PROVE  /\ WellFormed(m) /\ FramedPages(m.segs) = FramedPages(segs)
           /\ FramedPages(linked) = FramedPages(segs)
           /\ Proper(m.segs)
<1>1. /\ m = [self |-> m.self, root |-> m.root, tables |-> m.tables,
              segs |-> m.segs, pte |-> m.pte]
      /\ DOMAIN m.pte = PagesOf(segs) /\ DOMAIN m.tables = TablesOf(PagesOf(segs))
      /\ \A v \in PagesOf(segs) :
            m.pte[v] = IF v \in FramedPages(segs) THEN at[<<"page", v>>] ELSE NULL
      /\ FramedPages(m.segs) = FramedPages(linked)
      /\ \A s \in m.segs : \E t \in linked : s.pages = t.pages /\ s.type = t.type
  <2>1. MadeFor(m, segs, linked, at)
    BY NewMap
  <2> QED  BY <2>1 DEF MadeFor
<1>2. FramedPages(linked) = FramedPages(segs)
  <2>1. \A v : v \in FramedPages(linked) <=> v \in FramedPages(segs)
    BY Segments
  <2> QED  BY <2>1
<1>3. Proper(m.segs)
  <2>1. \A s \in m.segs : \E t \in linked : s.pages = t.pages /\ s.type = t.type
    BY <1>1
  <2> QED  BY <2>1 DEF Proper
<1>4. \A v \in DOMAIN m.pte : (m.pte[v] = NULL) <=> (v \in KernelPages)
  BY <1>1, ProperPages
<1>5. /\ DOMAIN m.pte \subseteq UserPages \cup KernelPages
      /\ (DOMAIN m.pte \cap UserPages) \ {USER_STACK} = FramedPages(m.segs)
  BY <1>1, <1>2, ProperPages
<1>6. \A s \in m.segs :
          \/ s.type = "Linear" /\ s.pages \subseteq KernelPages
          \/ s.type = "Framed" /\ s.pages \subseteq UserPages \ {USER_STACK}
  BY <1>3 DEF Proper
<1>7. /\ m = [self |-> m.self, root |-> m.root, tables |-> m.tables,
              segs |-> m.segs, pte |-> m.pte]
      /\ DOMAIN m.tables = TablesOf(DOMAIN m.pte)
  BY <1>1
<1>8. FramedPages(m.segs) = FramedPages(segs)
  BY <1>1, <1>2
<1>9. WellFormed(m)
  BY <1>4, <1>5, <1>6, <1>7 DEF WellFormed
<1> QED  BY <1>2, <1>3, <1>8, <1>9

\* The objects of a memory map, and those of them that are held.
LEMMA MapObjectsOf ==
    ASSUME NEW segs, NEW linked \in SUBSET segs, FramedPages(linked) = FramedPages(segs)
    PROVE  /\ MapObjects(segs, linked) \subseteq Objects(segs)
           /\ \A x \in Objects(segs) : x[1] \in Kinds \ {"free"}
           /\ \A x \in Objects(segs) : x[1] \in Frames => x \in MapObjects(segs, linked)
           /\ \A v \in FramedPages(segs) : <<"page", v>> \in Objects(segs)
           /\ <<"root", 0>> \in Objects(segs)
<1>1. {s.pages : s \in linked} \subseteq {s.pages : s \in segs}
  OBVIOUS
<1>2. Of("segment", {s.pages : s \in linked}) \subseteq Of("segment", {s.pages : s \in segs})
  BY <1>1 DEF Of
<1>3. MapObjects(segs, linked) \subseteq Objects(segs)
  BY <1>2 DEF Objects, MapObjects
<1>4. ASSUME NEW x \in Objects(segs)
      PROVE  /\ x[1] \in Kinds \ {"free"}
             /\ x[1] \in Frames => x \in MapObjects(segs, linked)
  <2>1. CASE x \in Of("segment", {s.pages : s \in segs})
    <3>1. x[1] = "segment"
      BY <2>1, InOf
    <3> QED  BY <3>1 DEF Kinds, Frames
  <2>2. CASE x \in Of("mm", Sole)
    <3>1. x[1] = "mm"
      BY <2>2, InOf
    <3> QED  BY <3>1 DEF Kinds, Frames
  <2>3. CASE x \in Of("root", Sole)
    <3>1. x[1] = "root"
      BY <2>3, InOf
    <3> QED  BY <2>3, <3>1 DEF Kinds, MapObjects
  <2>4. CASE x \in Of("table", TablesOf(PagesOf(segs)))
    <3>1. x[1] = "table"
      BY <2>4, InOf
    <3> QED  BY <2>4, <3>1 DEF Kinds, MapObjects
  <2>5. CASE x \in Of("page", FramedPages(segs))
    <3>1. x[1] = "page"
      BY <2>5, InOf
    <3> QED  BY <2>5, <3>1 DEF Kinds, MapObjects
  <2> QED  BY <2>1, <2>2, <2>3, <2>4, <2>5 DEF Objects
<1>5. ASSUME NEW v \in FramedPages(segs)  PROVE <<"page", v>> \in Objects(segs)
  BY DEF Objects, Of
<1>6. <<"root", 0>> \in Objects(segs)
  BY DEF Objects, Of, Sole
<1> QED  BY <1>3, <1>4, <1>5, <1>6

\* The objects of a process, and of its stack.
LEMMA ProcessObjectsOf ==
    ASSUME NEW segs
    PROVE  /\ Objects(segs) \subseteq ProcessObjects(segs)
           /\ Owned \subseteq ProcessObjects(segs)
           /\ <<"ustack", 0>> \in Owned /\ <<"pcb", 0>> \in Owned /\ <<"kstack", 0>> \in Owned
           /\ \A x \in Owned : x[1] \in Kinds \ {"free"} /\ x[1] \notin Frames
           /\ \A x \in ProcessObjects(segs) : x[1] \in Kinds \ {"free"}
<1>1. Objects(segs) \subseteq ProcessObjects(segs) /\ Owned \subseteq ProcessObjects(segs)
  BY DEF ProcessObjects
<1>2. /\ <<"ustack", 0>> \in Owned /\ <<"pcb", 0>> \in Owned /\ <<"kstack", 0>> \in Owned
      /\ \A x \in Owned : x[1] \in {"ustack", "pcb", "kstack"}
  BY DEF Owned, Of, Sole
<1>3. \A x \in Owned : x[1] \in Kinds \ {"free"} /\ x[1] \notin Frames
  BY <1>2 DEF Kinds, Frames
<1>4. \A x \in Objects(segs) : x[1] \in Kinds \ {"free"}
  BY MapObjectsOf
<1>5. ASSUME NEW x \in Of("table", TablesFor(USER_STACK))  PROVE x[1] \in Kinds \ {"free"}
  BY InOf DEF Kinds
<1>6. \A x \in ProcessObjects(segs) : x[1] \in Kinds \ {"free"}
  BY <1>3, <1>4, <1>5 DEF ProcessObjects
<1> QED  BY <1>1, <1>2, <1>3, <1>6

\* What a process holds beside its address space.
LEMMA InOwnHoldings ==
    ASSUME NEW p, NEW r, NEW h
    PROVE  h \in OwnHoldings(p, r) <=>
               \/ h = <<p, "pcb", 0, r.pcb>>
               \/ h = <<p, "kstack", 0, r.kstack>>
               \/ h = <<p, "ustack", 0, r.ustack>>
<1>1. /\ r["pcb"] = r.pcb /\ r["kstack"] = r.kstack /\ r["ustack"] = r.ustack
  OBVIOUS
<1> QED  BY <1>1 DEF OwnHoldings

\* new_process() and sys_fork(): the control block and stacks placed at `at`.
LEMMA NewOwned ==
    ASSUME NEW o, NEW at, NEW h
    PROVE  h \in OwnHoldings(o, Owning(at)) <=> h \in New(o, at, Owned)
<1> DEFINE A == Of("pcb", Sole)
           B == Of("kstack", Sole)
           C == Of("ustack", Sole)
           D == A \cup B
           r == Owning(at)
<1>1. Owned = D \cup C
  BY DEF Owned
<1>2. /\ r.pcb = at[<<"pcb", 0>>] /\ r.kstack = at[<<"kstack", 0>>]
      /\ r.ustack = at[<<"ustack", 0>>]
  BY DEF Owning
<1>3. h \in New(o, at, A) <=> h = <<o, "pcb", 0, at[<<"pcb", 0>>]>>
  BY InNewSole
<1>4. h \in New(o, at, B) <=> h = <<o, "kstack", 0, at[<<"kstack", 0>>]>>
  BY InNewSole
<1>5. h \in New(o, at, C) <=> h = <<o, "ustack", 0, at[<<"ustack", 0>>]>>
  BY InNewSole
<1> HIDE DEF A, B, C, r
<1>6. h \in New(o, at, D) <=> h \in New(o, at, A) \/ h \in New(o, at, B)
  BY InNewUnion
<1> HIDE DEF D
<1>7. h \in New(o, at, D \cup C) <=> h \in New(o, at, D) \/ h \in New(o, at, C)
  BY InNewUnion
<1>8. h \in OwnHoldings(o, r) <=>
          \/ h = <<o, "pcb", 0, r.pcb>>
          \/ h = <<o, "kstack", 0, r.kstack>>
          \/ h = <<o, "ustack", 0, r.ustack>>
  BY InOwnHoldings
<1> QED  BY <1>1, <1>2, <1>3, <1>4, <1>5, <1>6, <1>7, <1>8 DEF r

\* A new process: its memory map, and that its blocks are in step with what it
\* holds.
ProcessFor(m, segs, at) ==
    /\ WellFormed(m)
    /\ m.root = at[<<"root", 0>>]
    /\ DOMAIN m.pte = PagesOf(segs) \cup {USER_STACK}
    /\ m.pte[USER_STACK] = at[<<"ustack", 0>>]
    /\ \A v \in FramedPages(segs) : m.pte[v] = at[<<"page", v>>]

\* A map made for segments and the user stack has what its objects call for.
LEMMA NewProcessFor ==
    ASSUME NEW segs, Proper(segs), NEW linked \in SUBSET segs,
           \A s \in segs : s.type = "Framed" => s \in linked,
           NEW k, NEW at \in Placements(ProcessObjects(segs), k),
           NEW m, m = MapStack(MemoryMap(segs, linked, at), at[<<"ustack", 0>>], at)
    PROVE  ProcessFor(m, segs, at)
<1> DEFINE n == MemoryMap(segs, linked, at)
           b == at[<<"ustack", 0>>]
<1>1. \A x \in ProcessObjects(segs) : at[x] \in Blocks
  BY AllocIs
<1>2. /\ Objects(segs) \subseteq ProcessObjects(segs) /\ Owned \subseteq ProcessObjects(segs)
      /\ <<"ustack", 0>> \in Owned
  BY ProcessObjectsOf
<1>3. b \in Blocks /\ b # NULL
  BY <1>1, <1>2, AddressSpaceAssumption
<1>4. \A v \in FramedPages(segs) : at[<<"page", v>>] # NULL
  <2>1. \A v \in FramedPages(segs) : <<"page", v>> \in Objects(segs)
    BY MapObjectsOf
  <2> QED  BY <1>1, <1>2, <2>1, AddressSpaceAssumption
<1> HIDE DEF b
<1>5. WellFormed(n)
  BY <1>4, NewMapFormed
<1>6. MadeFor(n, segs, linked, at)
  BY NewMap
<1>7. m = MapStack(n, b, at)
  BY DEF b
<1> HIDE DEF n
<1>8. USER_STACK \notin DOMAIN n.pte
  BY <1>6, ProperPages DEF MadeFor
<1>9. StackFor(m, n, b, at, NULL)
  BY <1>3, <1>5, <1>7, <1>8, StackMap
<1>10. \A v \in FramedPages(segs) : v \in PagesOf(segs)
  BY ProperPages
<1>11. WellFormed(m) /\ m.pte[USER_STACK] = b
  BY <1>9 DEF StackFor
<1>12. \A v \in FramedPages(segs) : m.pte[v] = at[<<"page", v>>]
  BY <1>6, <1>9, <1>10 DEF MadeFor, StackFor
<1>13. m.root = at[<<"root", 0>>] /\ DOMAIN m.pte = PagesOf(segs) \cup {USER_STACK}
  BY <1>6, <1>9 DEF MadeFor, StackFor
<1> QED  BY <1>11, <1>12, <1>13 DEF ProcessFor, b

\* A new process, with its address space, control block and stacks, keeps the
\* blocks in step with the holdings.
LEMMA NewProcess ==
    ASSUME NEW segs, Proper(segs), NEW linked \in SUBSET segs,
           \A s \in segs : s.type = "Framed" => s \in linked,
           NEW k, NEW at \in Placements(ProcessObjects(segs), k),
           NEW m, m = MapStack(MemoryMap(segs, linked, at), at[<<"ustack", 0>>], at),
           NEW o, NEW H, Kept(H, k), NEW J,
           \A h : h \in J <=> \/ h \in H
                              \/ h \in MapHoldings(o, m)
                              \/ h \in OwnHoldings(o, Owning(at))
    PROVE  Kept(J, Alloc(at, k)) /\ ProcessFor(m, segs, at)
<1> DEFINE n == MemoryMap(segs, linked, at)
           T == StackTables(n)
           A == MapObjects(segs, linked)
           B == Of("table", T)
           C == A \cup B
           held == C \cup Owned
           b == at[<<"ustack", 0>>]
<1>1. \A x \in ProcessObjects(segs) : at[x] \in Blocks
  BY AllocIs
<1>2. /\ Objects(segs) \subseteq ProcessObjects(segs) /\ Owned \subseteq ProcessObjects(segs)
      /\ <<"ustack", 0>> \in Owned
  BY ProcessObjectsOf
<1>3. b \in Blocks /\ b # NULL
  BY <1>1, <1>2, AddressSpaceAssumption
<1>4. \A v \in FramedPages(segs) : at[<<"page", v>>] # NULL
  <2>1. \A v \in FramedPages(segs) : <<"page", v>> \in Objects(segs)
    BY MapObjectsOf
  <2> QED  BY <1>1, <1>2, <2>1, AddressSpaceAssumption
<1> HIDE DEF b
<1>5. WellFormed(n) /\ FramedPages(linked) = FramedPages(segs)
  BY <1>4, NewMapFormed
<1>6. MadeFor(n, segs, linked, at) /\ \A h : h \in MapHoldings(o, n) <=> h \in New(o, at, A)
  BY NewMap
<1>7. m = MapStack(n, b, at)
  BY DEF b
<1> HIDE DEF n
<1>8. USER_STACK \notin DOMAIN n.pte
  BY <1>6, ProperPages DEF MadeFor
<1>9. /\ \A h : h \in MapHoldings(o, m) <=> h \in MapHoldings(o, n) \/ h \in New(o, at, B)
      /\ WellFormed(m)
      /\ m.root = n.root /\ m.self = n.self /\ m.segs = n.segs
      /\ DOMAIN m.pte = DOMAIN n.pte \cup {USER_STACK}
      /\ m.pte[USER_STACK] = b /\ \A v \in DOMAIN n.pte : m.pte[v] = n.pte[v]
  <2>1. StackFor(m, n, b, at, o)
    BY <1>3, <1>5, <1>7, <1>8, StackMap
  <2> QED  BY <2>1 DEF StackFor
<1>10. ProcessFor(m, segs, at)
  BY NewProcessFor
<1>11. /\ A \subseteq ProcessObjects(segs) /\ B \subseteq ProcessObjects(segs)
       /\ \A x \in ProcessObjects(segs) : x[1] \in Frames => x \in held
  <2>1. /\ A \subseteq Objects(segs)
        /\ \A x \in Objects(segs) : x[1] \in Frames => x \in A
    BY <1>5, MapObjectsOf
  <2>2. T \subseteq TablesFor(USER_STACK)
    BY DEF StackTables
  <2>3. B \subseteq Of("table", TablesFor(USER_STACK))
    BY <2>2 DEF Of
  <2>4. ASSUME NEW x \in Of("table", TablesFor(USER_STACK))  PROVE x \in held
    <3>1. PICK t \in TablesFor(USER_STACK) : x = <<"table", t>>
      BY DEF Of
    <3>2. CASE t \in T
      BY <3>1, <3>2, IsOf
    <3>3. CASE t \in DOMAIN n.tables
      <4>1. t \in TablesOf(PagesOf(segs))
        BY <1>6, <3>3 DEF MadeFor
      <4>2. x \in Of("table", TablesOf(PagesOf(segs)))
        BY <3>1, <4>1, IsOf
      <4> QED  BY <4>2 DEF MapObjects
    <3> QED  BY <3>2, <3>3 DEF StackTables
  <2>5. \A x \in Owned : x[1] \notin Frames
    BY ProcessObjectsOf
  <2>6. B \subseteq ProcessObjects(segs)
    BY <2>3 DEF ProcessObjects
  <2> QED  BY <1>2, <2>1, <2>4, <2>5, <2>6 DEF ProcessObjects
<1>12. held \in SUBSET ProcessObjects(segs)
  BY <1>2, <1>11
<1>13. \A x \in held : x[1] # "free"
  BY <1>12, ProcessObjectsOf
<1>14. ASSUME NEW h
       PROVE  h \in J <=> h \in H \cup New(o, at, held)
  <2>1. h \in OwnHoldings(o, Owning(at)) <=> h \in New(o, at, Owned)
    BY NewOwned
  <2> HIDE DEF A, B
  <2>2. h \in New(o, at, C) <=> h \in New(o, at, A) \/ h \in New(o, at, B)
    BY InNewUnion
  <2> HIDE DEF C
  <2>3. h \in New(o, at, held) <=> h \in New(o, at, C) \/ h \in New(o, at, Owned)
    BY InNewUnion
  <2> HIDE DEF held
  <2>4. h \in MapHoldings(o, m) <=> h \in New(o, at, A) \/ h \in New(o, at, B)
    BY <1>6, <1>9
  <2> QED  BY <2>1, <2>2, <2>3, <2>4
<1> HIDE DEF held
<1>15. Kept(H \cup New(o, at, held), Alloc(at, k))
  BY <1>11, <1>12, <1>13, KeptNew
<1>16. J = H \cup New(o, at, held)
  BY <1>14
<1> QED  BY <1>10, <1>15, <1>16

-----------------------------------------------------------------------------
(* The inductive invariant: steps that leave the holdings alone            *)

\* What is held, by whom.
LEMMA InHoldings ==
    ASSUME NEW h
    PROVE  h \in Holdings <=>
               \/ \E p \in Mapped : h \in MapHoldings(p, mm[p])
               \/ \E p \in Living : h \in OwnHoldings(p, own[p])
               \/ h \in LoadHoldings
  BY DEF Holdings

\* Everybody's root table is one, and where it is; so are their pages.
LEMMA Roots ==
    ASSUME IInv, NEW p \in Mapped
    PROVE  /\ <<p, "root", 0, mm[p].root>> \in Holdings
           /\ <<p, "mm", 0, mm[p].self>> \in Holdings
           /\ mm[p].root \in Blocks /\ kind[mm[p].root] = "root"
           /\ mm[p].self \in Blocks
<1> DEFINE g == <<p, "root", 0, mm[p].root>>
           h == <<p, "mm", 0, mm[p].self>>
<1>1. g \in MapHoldings(p, mm[p]) /\ h \in MapHoldings(p, mm[p])
  BY InMapHoldings
<1>2. g[4] = mm[p].root /\ g[2] = "root" /\ h[4] = mm[p].self
  OBVIOUS
<1> HIDE DEF g, h
<1>3. g \in Holdings /\ h \in Holdings
  BY <1>1, InHoldings
<1>4. g[4] \in Blocks /\ kind[g[4]] = g[2] /\ h[4] \in Blocks
  BY <1>3 DEF IInv, Kept
<1> QED  BY <1>2, <1>3, <1>4 DEF g, h

\* The properties follow from IInv.
LEMMA Consequences ==
    ASSUME IInv
    PROVE  TypeOK /\ OneOwner /\ FramesReturned /\ SatpExact
<1>1. OneOwner /\ FramesReturned /\ SatpExact /\ Types
  BY DEF IInv, Kept, Frames, OneOwner, FramesReturned
<1>2. ASSUME NEW p \in Mapped
      PROVE  /\ mm[p].root \in Blocks /\ mm[p].self \in Blocks
             /\ TablesOf(DOMAIN mm[p].pte) = DOMAIN mm[p].tables
             /\ \A v \in DOMAIN mm[p].pte : (mm[p].pte[v] = NULL) <=> (v \in KernelPages)
  <2>1. WellFormed(mm[p])
    BY DEF IInv, Shapes
  <2> QED  BY <2>1, Roots DEF WellFormed
<1> QED  BY <1>1, <1>2 DEF TypeOK

\* Holdings depend on the memory maps, on who lives, and on sys_exec().
LEMMA SameHoldings ==
    ASSUME mm' = mm, own' = own, Living' = Living, LoadHoldings' = LoadHoldings
    PROVE  Holdings' = Holdings /\ Mapped' = Mapped
  BY DEF Holdings, Mapped

\* The hart is given to p, which is ready for it.
LEMMA SwitchInv ==
    ASSUME IInv, mode = "run", NEW p \in Mapped, p # current,
           SwitchTo(p), UNCHANGED <<kind, content, mm, own, loading>>,
           p # idle => state[p] = "live" /\ state'[p] = "live",
           state' \in [Procs -> {"unused", "live", "exited"}],
           \A q \in Procs : (state'[q] = "unused") <=> (state[q] = "unused"),
           \A q \in Procs \ {current} : state'[q] = state[q]
    PROVE  IInv'
<1>1. /\ Types /\ Shapes /\ Kept(Holdings, kind) /\ Stacks /\ Hart /\ SatpExact
  BY DEF IInv
<1>2. /\ current' = p /\ cx_satp' = [cx_satp EXCEPT ![current] = satp]
      /\ satp' = cx_satp[p] /\ mode' \in {"run", "wedged"}
  BY DEF SwitchTo
<1>3. Living' = Living
  BY DEF Living
<1>4. LoadHoldings' = LoadHoldings
  BY <1>2 DEF LoadHoldings
<1>5. Holdings' = Holdings /\ Mapped' = Mapped
  BY <1>3, <1>4, SameHoldings
<1>6. Mapped \subseteq Contexts /\ p \in Contexts /\ current \in Contexts
  BY <1>1, AddressSpaceAssumption DEF Mapped, Living, Contexts, Types
<1>7. /\ DOMAIN cx_satp = Contexts /\ cx_satp' = [q \in Contexts |-> cx_satp'[q]]
      /\ cx_satp'[current] = satp /\ \A q \in Contexts \ {current} : cx_satp'[q] = cx_satp[q]
  BY <1>1, <1>2, <1>6 DEF Shapes
<1>8. Types'
  BY <1>1, <1>2, <1>3, <1>6 DEF Types
<1>9. Shapes'
  BY <1>1, <1>2, <1>3, <1>5, <1>7 DEF Shapes
<1>10. Kept(Holdings, kind)'
  BY <1>1, <1>5
<1>11. Stacks'
  BY <1>1, <1>2, <1>3 DEF Stacks
<1>12. Hart'
  BY <1>1, <1>2 DEF Hart
<1>13. satp' = mm[p].root
  BY <1>1, <1>2 DEF SatpExact
<1>14. SatpExact'
  <2>1. kind'[satp'] = "root"
    BY <1>13, Roots
  <2>2. satp' = mm'[current'].root
    BY <1>2, <1>13
  <2>3. ASSUME NEW q \in Mapped \ {p}, q # idle => state'[q] = "live"
        PROVE  cx_satp'[q] = mm[q].root
    <3>1. CASE q = current
      BY <1>1, <1>6, <1>7, <3>1 DEF SatpExact
    <3>2. CASE q # current
      <4>1. q # idle => state[q] = "live"
        BY <2>3, <3>2 DEF Mapped, Living
      <4> QED  BY <1>1, <1>6, <1>7, <3>2, <4>1 DEF SatpExact
    <3> QED  BY <3>1, <3>2
  <2> QED  BY <1>2, <1>5, <2>1, <2>2, <2>3 DEF SatpExact
<1>15. Loaded'
  BY <1>2 DEF Loaded
<1> QED  BY <1>8, <1>9, <1>10, <1>11, <1>12, <1>14, <1>15 DEF IInv

\* schedule() picks a live process.
LEMMA DispatchInv ==
    ASSUME IInv, Dispatch  PROVE IInv'
<1>1. PICK p \in Procs : state[p] = "live" /\ SwitchTo(p)
  BY DEF Dispatch
<1>2. p \in Mapped /\ p # current
  BY <1>1, AddressSpaceAssumption DEF Dispatch, Mapped, Living
<1> QED  BY <1>1, <1>2, SwitchInv DEF Dispatch, IInv, Types

\* yield() goes back to the boot context,
LEMMA YieldInv ==
    ASSUME IInv, yield  PROVE IInv'
<1>1. idle \in Mapped /\ idle # current /\ mode = "run" /\ SwitchTo(idle)
  BY DEF yield, AtUser, Mapped
<1> QED  BY <1>1, SwitchInv DEF yield, IInv, Types

\* and so does exit_current(), which leaves an exited process behind.
LEMMA ExitInv ==
    ASSUME IInv, exit_current  PROVE IInv'
<1>1. idle \in Mapped /\ idle # current /\ mode = "run" /\ SwitchTo(idle)
  BY DEF exit_current, AtUser, Mapped
<1>2. state \in [Procs -> {"unused", "live", "exited"}] /\ current \in Procs
      /\ state[current] = "live"
  BY DEF exit_current, AtUser, IInv, Types, Contexts, Hart
<1>3. /\ state' \in [Procs -> {"unused", "live", "exited"}]
      /\ state'[current] = "exited" /\ \A q \in Procs \ {current} : state'[q] = state[q]
  BY <1>2 DEF exit_current
<1>4. \A q \in Procs : (state'[q] = "unused") <=> (state[q] = "unused")
  BY <1>2, <1>3
<1> QED  BY <1>1, <1>3, <1>4, SwitchInv DEF exit_current

\* A store changes the content of a user page and nothing else.
LEMMA StoreInv ==
    ASSUME IInv, Store  PROVE IInv'
<1>1. content' \in [Blocks -> Values \cup {NULL}]
  BY DEF Store, IInv, Types
<1>2. UNCHANGED <<kind, mm, own, cx_satp, satp, current, state, loading, mode>> /\ mode = "run"
  BY DEF Store, AtUser
<1>3. Living' = Living /\ LoadHoldings' = LoadHoldings
  BY <1>2 DEF Living, LoadHoldings
<1>4. Holdings' = Holdings /\ Mapped' = Mapped
  BY <1>2, <1>3, SameHoldings
<1>5. Types' /\ Shapes' /\ Kept(Holdings, kind)'
  BY <1>1, <1>2, <1>3, <1>4 DEF IInv, Types, Shapes
<1>6. Stacks' /\ Hart' /\ SatpExact' /\ Loaded'
  BY <1>2, <1>3, <1>4 DEF IInv, Stacks, Hart, SatpExact, Loaded
<1> QED  BY <1>5, <1>6 DEF IInv

-----------------------------------------------------------------------------
(* panic() and sys_fork()                                                  *)

\* The blocks of the pages and of the user stack of a process.
LEMMA PageHeld ==
    ASSUME IInv, NEW p \in Mapped, NEW v \in FramedPages(mm[p].segs)
    PROVE  <<p, "page", v, mm[p].pte[v]>> \in Holdings /\ mm[p].pte[v] \in Blocks
<1> DEFINE h == <<p, "page", v, mm[p].pte[v]>>
<1>1. h \in MapHoldings(p, mm[p]) /\ h[4] = mm[p].pte[v]
  BY InMapHoldings
<1> HIDE DEF h
<1>2. h \in Holdings
  BY <1>1, InHoldings
<1>3. h[4] \in Blocks
  BY <1>2 DEF IInv, Kept
<1> QED  BY <1>1, <1>2, <1>3 DEF h

\* The user stack of a process is held by it.
LEMMA StackHeld ==
    ASSUME IInv, NEW p \in Living
    PROVE  <<p, "ustack", 0, own[p].ustack>> \in Holdings /\ own[p].ustack \in Blocks
<1> DEFINE h == <<p, "ustack", 0, own[p].ustack>>
<1>1. h \in OwnHoldings(p, own[p]) /\ h[4] = own[p].ustack
  BY InOwnHoldings
<1> HIDE DEF h
<1>2. h \in Holdings
  BY <1>1, InHoldings
<1>3. h[4] \in Blocks
  BY <1>2 DEF IInv, Kept
<1> QED  BY <1>1, <1>2, <1>3 DEF h

\* What sys_exec() holds after each of its steps.
LEMMA NoLoad ==
    ASSUME mode \in {"run", "panic", "wedged"}
    PROVE  LoadHoldings = {}
  BY DEF LoadHoldings

\* Behind the replacement only buf is held,
LEMMA BufLoad ==
    ASSUME mode = "replaced"
    PROVE  LoadHoldings = {<<NULL, "buf", 0, loading.buf>>}
  BY DEF LoadHoldings

\* and before it buf and the new address space.
LEMMA MapLoad ==
    ASSUME mode \in {"loaded", "activated"}
    PROVE  LoadHoldings =
              {<<NULL, "buf", 0, loading.buf>>} \cup MapHoldings(NULL, loading.mm)
  BY DEF LoadHoldings

\* A panic drops what sys_exec() holds, none of which is a frame by then.
LEMMA PanicInv ==
    ASSUME IInv, panic, mode \in {"run", "replaced"}
    PROVE  IInv'
<1>1. /\ mode' = "panic"
      /\ UNCHANGED <<kind, content, mm, own, cx_satp, satp, current, state, loading>>
  BY DEF panic
<1>2. Living' = Living /\ Mapped' = Mapped
  BY <1>1 DEF Living, Mapped
<1>3. LoadHoldings' = {}
  BY <1>1 DEF LoadHoldings
<1>4. \A h : h \in Holdings' <=> \/ \E p \in Mapped : h \in MapHoldings(p, mm[p])
                                 \/ \E p \in Living : h \in OwnHoldings(p, own[p])
  BY <1>1, <1>2, <1>3 DEF Holdings
<1>5. \A h \in LoadHoldings : h[2] \notin Frames
  <2>1. CASE mode = "run"
    BY <2>1, NoLoad
  <2>2. CASE mode = "replaced"
    <3> DEFINE g == <<NULL, "buf", 0, loading.buf>>
    <3>1. g[2] = "buf"
      OBVIOUS
    <3>2. LoadHoldings = {g}
      BY <2>2, BufLoad
    <3> HIDE DEF g
    <3> QED  BY <3>1, <3>2 DEF Frames
  <2> QED  BY <2>1, <2>2
<1>6. Holdings' \in SUBSET Holdings /\ \A h \in Holdings : h[2] \in Frames => h \in Holdings'
  BY <1>4, <1>5, InHoldings
<1>7. Kept(Holdings, kind)'
  <2>1. Kept(Holdings', kind)
    BY <1>6, KeptDropped DEF IInv
  <2> QED  BY <1>1, <2>1 DEF Kept
<1>8. Types'
  BY <1>1, <1>2 DEF IInv, Types
<1>9. Shapes'
  BY <1>1, <1>2 DEF IInv, Shapes
<1>10. Stacks'
  BY <1>1, <1>2 DEF IInv, Stacks
<1>11. Hart' /\ Loaded'
  BY <1>1 DEF IInv, Hart, Loaded
<1>12. SatpExact'
  BY <1>1, <1>2 DEF IInv, SatpExact
<1> QED  BY <1>7, <1>8, <1>9, <1>10, <1>11, <1>12 DEF IInv

\* What sys_fork() makes of a process that is current.
Forked(child, at, dst) ==
    /\ state[child] = "unused"
    /\ state' = [state EXCEPT ![child] = "live"]
    /\ kind' = Alloc(at, kind)
    /\ own' = [own EXCEPT ![child] = Owning(at)]
    /\ mm' = [mm EXCEPT ![child] = dst]
    /\ content' = Filled(content, dst, Copied(mm[current]))
    /\ cx_satp' = [cx_satp EXCEPT ![child] = dst.root]
    /\ UNCHANGED <<satp, current, loading, mode>>

\* sys_fork() panics or makes a child.
LEMMA ForkCases ==
    ASSUME sys_fork
    PROVE  /\ mode = "run" /\ current # idle
           /\ \/ panic
              \/ \E at \in Placements(ProcessObjects(mm[current].segs), kind),
                    child \in Procs :
                    Forked(child, at,
                           MapStack(copy_mm(mm[current], at), at[<<"ustack", 0>>], at))
  BY DEF sys_fork, AtUser, Forked

\* What fork copies: the framed pages and the user stack.
LEMMA CopiedTyped ==
    ASSUME IInv, current # idle
    PROVE  /\ DOMAIN Copied(mm[current]) = FramedPages(mm[current].segs) \cup {USER_STACK}
           /\ Copied(mm[current])[USER_STACK] = content[own[current].ustack]
           /\ USER_STACK \notin FramedPages(mm[current].segs)
           /\ \A v \in FramedPages(mm[current].segs) :
                 Copied(mm[current])[v] = content[mm[current].pte[v]]
           /\ \A v \in DOMAIN Copied(mm[current]) :
                 Copied(mm[current])[v] \in Values \cup {NULL}
<1> DEFINE src == mm[current]
           f == [v \in FramedPages(src.segs) |-> content[src.pte[v]]]
           x == content[own[current].ustack]
<1>1. current \in Living /\ current \in Mapped /\ WellFormed(src)
  BY DEF IInv, Types, Hart, Contexts, Living, Mapped, Shapes
<1>2. Copied(src) = With(f, USER_STACK, x)
  BY DEF Copied
<1>3. USER_STACK \notin FramedPages(src.segs)
  BY <1>1 DEF WellFormed
<1>4. /\ DOMAIN f = FramedPages(src.segs)
      /\ \A v \in FramedPages(src.segs) : f[v] = content[src.pte[v]]
  OBVIOUS
<1>5. \A v \in FramedPages(src.segs) : f[v] \in Values \cup {NULL}
  BY <1>1, <1>4, PageHeld DEF IInv, Types
<1>6. x \in Values \cup {NULL}
  BY <1>1, StackHeld DEF IInv, Types
<1> HIDE DEF f, x
<1>7. /\ DOMAIN With(f, USER_STACK, x) = DOMAIN f \cup {USER_STACK}
      /\ With(f, USER_STACK, x)[USER_STACK] = x
      /\ \A d \in DOMAIN f : d # USER_STACK => With(f, USER_STACK, x)[d] = f[d]
  BY DEF With
<1> HIDE DEF src
<1>8. DOMAIN Copied(src) = FramedPages(src.segs) \cup {USER_STACK} /\ Copied(src)[USER_STACK] = x
  BY <1>2, <1>4, <1>7
<1>9. \A v \in FramedPages(src.segs) : Copied(src)[v] = f[v]
  BY <1>2, <1>3, <1>4, <1>7
<1>10. \A v \in DOMAIN Copied(src) : Copied(src)[v] \in Values \cup {NULL}
  BY <1>5, <1>6, <1>8, <1>9
<1> QED  BY <1>3, <1>4, <1>8, <1>9, <1>10 DEF src, x

\* Where current is.
LEMMA CurrentLives ==
    ASSUME IInv, current # idle
    PROVE  /\ current \in Living /\ current \in Mapped /\ current \in Procs
           /\ state[current] = "live" /\ idle \notin Procs
           /\ WellFormed(mm[current]) /\ Proper(mm[current].segs)
  BY AddressSpaceAssumption
     DEF IInv, Types, Hart, Contexts, Living, Mapped, Shapes, WellFormed, Proper

\* sys_fork() gives the child new blocks for everything it holds.
LEMMA ForkInv ==
    ASSUME IInv, mode = "run", current # idle, NEW child \in Procs,
           NEW at \in Placements(ProcessObjects(mm[current].segs), kind),
           NEW dst, dst = MapStack(copy_mm(mm[current], at), at[<<"ustack", 0>>], at),
           Forked(child, at, dst)
    PROVE  IInv'
<1> DEFINE segs == mm[current].segs
           linked == {s \in segs : s.type = "Framed"}
<1>1. /\ Types /\ Shapes /\ Kept(Holdings, kind) /\ Stacks /\ Hart /\ SatpExact
  BY DEF IInv
<1>2. /\ current \in Living /\ current \in Procs /\ Proper(segs) /\ idle \notin Procs
      /\ state[current] = "live"
  BY CurrentLives
<1>3. /\ state[child] = "unused" /\ child # current /\ child # idle /\ child \notin Living
  BY <1>2 DEF Forked, Living
<1>4. /\ state' = [state EXCEPT ![child] = "live"]
      /\ kind' = Alloc(at, kind)
      /\ own' = [own EXCEPT ![child] = Owning(at)]
      /\ mm' = [mm EXCEPT ![child] = dst]
      /\ content' = Filled(content, dst, Copied(mm[current]))
      /\ cx_satp' = [cx_satp EXCEPT ![child] = dst.root]
      /\ UNCHANGED <<satp, current, loading, mode>>
  BY DEF Forked
<1>5. /\ state' \in [Procs -> {"unused", "live", "exited"}]
      /\ state'[child] = "live" /\ \A p \in Procs \ {child} : state'[p] = state[p]
  BY <1>1, <1>4 DEF Types
<1>6. \A p : p \in Living' <=> p \in Living \/ p = child
  BY <1>5 DEF Living
<1>7. \A p : p \in Mapped' <=> p \in Mapped \/ p = child
  BY <1>6 DEF Mapped
<1>8. /\ DOMAIN mm' = Contexts /\ mm' = [p \in Contexts |-> mm'[p]]
      /\ mm'[child] = dst /\ \A p \in Contexts \ {child} : mm'[p] = mm[p]
  BY <1>1, <1>4 DEF Shapes, Contexts
<1>9. /\ own' = [p \in Procs |-> own'[p]]
      /\ own'[child] = Owning(at) /\ \A p \in Procs \ {child} : own'[p] = own[p]
  BY <1>1, <1>4 DEF Shapes
<1>10. /\ cx_satp' = [p \in Contexts |-> cx_satp'[p]]
       /\ cx_satp'[child] = dst.root
       /\ \A p \in Contexts \ {child} : cx_satp'[p] = cx_satp[p]
  BY <1>1, <1>4 DEF Shapes, Contexts
<1>11. Living \subseteq Procs /\ Mapped \subseteq Contexts
  BY DEF Living, Mapped, Contexts
<1>12. LoadHoldings' = {} /\ LoadHoldings = {}
  BY <1>4 DEF LoadHoldings
<1>13. ASSUME NEW h
       PROVE  h \in Holdings' <=> \/ h \in Holdings
                                  \/ h \in MapHoldings(child, dst)
                                  \/ h \in OwnHoldings(child, Owning(at))
  <2>1. h \in Holdings' <=> \/ \E p \in Mapped' : h \in MapHoldings(p, mm'[p])
                            \/ \E p \in Living' : h \in OwnHoldings(p, own'[p])
    BY <1>12 DEF Holdings
  <2>2. h \in Holdings <=> \/ \E p \in Mapped : h \in MapHoldings(p, mm[p])
                           \/ \E p \in Living : h \in OwnHoldings(p, own[p])
    BY <1>12 DEF Holdings
  <2>3. child \notin Mapped
    BY <1>3 DEF Mapped
  <2>4. \A p \in Mapped : mm'[p] = mm[p]
    BY <1>8, <1>11, <2>3
  <2>5. \A p \in Living : own'[p] = own[p]
    BY <1>3, <1>9, <1>11
  <2> QED  BY <1>6, <1>7, <1>8, <1>9, <2>1, <2>2, <2>4, <2>5
<1>14. Kept(Holdings', kind') /\ ProcessFor(dst, segs, at)
  <2>1. linked \in SUBSET segs /\ \A s \in segs : s.type = "Framed" => s \in linked
    OBVIOUS
  <2>2. dst = MapStack(MemoryMap(segs, linked, at), at[<<"ustack", 0>>], at)
    BY DEF copy_mm
  <2> HIDE DEF segs, linked
  <2>3. at \in Placements(ProcessObjects(segs), kind)
    BY DEF segs
  <2>4. Kept(Holdings', Alloc(at, kind)) /\ ProcessFor(dst, segs, at)
    BY <1>1, <1>2, <1>13, <2>1, <2>2, <2>3, NewProcess
  <2> QED  BY <1>4, <2>4
<1> HIDE DEF segs, linked
<1>15. Types'
  <2>1. kind' \in [Blocks -> Kinds]
    <3>1. kind \in [Blocks -> Kinds]
      BY <1>1 DEF Types, Kinds
    <3>2. \A x \in ProcessObjects(mm[current].segs) : x[1] \in Kinds
      BY ProcessObjectsOf
    <3> QED  BY <1>4, <3>1, <3>2, AllocTyped
  <2>2. content' \in [Blocks -> Values \cup {NULL}]
    <3>1. content \in [Blocks -> Values \cup {NULL}]
      BY <1>1 DEF Types
    <3>2. \A v \in DOMAIN Copied(mm[current]) : Copied(mm[current])[v] \in Values \cup {NULL}
      BY CopiedTyped
    <3> QED  BY <1>4, <3>1, <3>2, FilledTyped
  <2>3. \A p \in Procs \ Living' : mm'[p] = NULL /\ own'[p] = NULL
    BY <1>1, <1>6, <1>8, <1>9 DEF Types, Contexts
  <2> QED  BY <1>1, <1>4, <1>5, <2>1, <2>2, <2>3 DEF Types, Kinds
<1>16. Shapes'
  <2>1. \A p \in Mapped' : WellFormed(mm'[p])
    BY <1>1, <1>3, <1>7, <1>8, <1>11, <1>14 DEF Shapes, ProcessFor
  <2>2. Owning(at) = [pcb |-> Owning(at).pcb, kstack |-> Owning(at).kstack,
                      ustack |-> Owning(at).ustack]
    BY DEF Owning
  <2>3. \A p \in Living' :
            own'[p] = [pcb |-> own'[p].pcb, kstack |-> own'[p].kstack,
                       ustack |-> own'[p].ustack]
    BY <1>1, <1>6, <1>9, <1>11, <2>2 DEF Shapes
  <2> QED  BY <1>4, <1>8, <1>9, <1>10, <2>1, <2>3 DEF Shapes
<1>17. Stacks'
  <2>1. USER_STACK \in DOMAIN dst.pte /\ dst.pte[USER_STACK] = own'[child].ustack
    BY <1>9, <1>14 DEF ProcessFor, Owning
  <2>2. \A p \in Living : p # child /\ mm'[p] = mm[p] /\ own'[p] = own[p]
    BY <1>3, <1>8, <1>9, <1>11 DEF Contexts
  <2> QED  BY <1>1, <1>4, <1>6, <1>8, <2>1, <2>2 DEF Stacks
<1>18. Hart'
  BY <1>1, <1>2, <1>3, <1>4, <1>5 DEF Hart
<1>19. SatpExact'
  <2>1. satp = mm[current].root /\ satp \in Blocks /\ kind[satp] = "root"
    BY <1>1, CurrentLives, Roots DEF SatpExact
  <2>2. kind'[satp] = "root"
    <3>1. Alloc(at, kind)[satp] = kind[satp]
      BY <2>1, AllocIs
    <3> QED  BY <1>4, <2>1, <3>1
  <2>3. mm'[current] = mm[current]
    BY <1>2, <1>3, <1>8 DEF Contexts
  <2>4. ASSUME NEW p \in Mapped' \ {current}, p # idle => state'[p] = "live"
        PROVE  cx_satp'[p] = mm'[p].root
    <3>1. CASE p = child
      BY <1>8, <1>10, <3>1
    <3>2. CASE p # child
      <4>1. p \in Mapped /\ p \in Contexts /\ (p # idle => state[p] = "live")
        BY <1>5, <1>7, <1>11, <2>4, <3>2 DEF Contexts
      <4> QED  BY <1>1, <1>8, <1>10, <2>4, <3>2, <4>1 DEF SatpExact
    <3> QED  BY <3>1, <3>2
  <2> QED  BY <1>4, <2>1, <2>2, <2>3, <2>4 DEF SatpExact
<1>20. Loaded'
  BY <1>4 DEF Loaded
<1> QED  BY <1>14, <1>15, <1>16, <1>17, <1>18, <1>19, <1>20 DEF IInv

-----------------------------------------------------------------------------
(* sys_exec() and sys_wait()                                               *)

\* What alloc() leaves alone is what satp translates with.
LEMMA SatpStays ==
    ASSUME IInv, current \in Mapped, mode # "activated",
           NEW objects, NEW at \in Placements(objects, kind)
    PROVE  Alloc(at, kind)[satp] = "root"
<1>1. satp = mm[current].root
  BY DEF IInv, SatpExact
<1>2. satp \in Blocks /\ kind[satp] = "root"
  BY <1>1, Roots
<1> QED  BY <1>2, AllocIs

\* Pages are placed in blocks of their own.
LEMMA PagesPlaced ==
    ASSUME NEW objects, NEW k, NEW at \in Placements(objects, k), NEW P,
           \A v \in P : <<"page", v>> \in objects
    PROVE  /\ \A v \in P : at[<<"page", v>>] \in Blocks /\ k[at[<<"page", v>>]] = "free"
           /\ \A v, w \in P : at[<<"page", v>>] = at[<<"page", w>>] => v = w
<1>1. ASSUME NEW v \in P
      PROVE  at[<<"page", v>>] \in Blocks /\ k[at[<<"page", v>>]] = "free"
  BY AllocIs
<1>2. ASSUME NEW v \in P, NEW w \in P, at[<<"page", v>>] = at[<<"page", w>>]
      PROVE  v = w
  <2>1. <<"page", v>> = <<"page", w>>
    BY <1>2, AllocIs
  <2> QED  BY <2>1
<1> QED  BY <1>1, <1>2

\* What sys_exec() makes of a program.
LoadedAs(elf, at, new) ==
    /\ kind' = Alloc(at, kind)
    /\ content' = Filled(content, new, Data(elf))
    /\ loading' = [mm |-> new, buf |-> at[<<"buf", 0>>]]
    /\ mode' = "loaded"
    /\ UNCHANGED <<mm, own, cx_satp, satp, current, state>>

\* exec_load panics or loads a program.
LEMMA LoadCases ==
    ASSUME exec_load
    PROVE  /\ mode = "run" /\ current # idle
           /\ \/ panic
              \/ \E elf \in Loadable :
                    \E at \in Placements(LoadObjects(elf), kind) :
                       LoadedAs(elf, at, MemoryMap(ElfSegs(elf), ElfSegs(elf), at))
  BY DEF exec_load, AtUser, LoadedAs

\* What from_elf() builds for a program.
LEMMA LoadFacts ==
    ASSUME NEW elf \in Loadable, NEW k, NEW at \in Placements(LoadObjects(elf), k),
           NEW new, new = MemoryMap(ElfSegs(elf), ElfSegs(elf), at)
    PROVE  /\ WellFormed(new) /\ FramedPages(new.segs) = ElfPages(elf)
           /\ DOMAIN new.pte = KernelPages \cup ElfPages(elf)
           /\ USER_STACK \notin DOMAIN new.pte
           /\ \A v \in ElfPages(elf) : new.pte[v] \in Blocks /\ k[new.pte[v]] = "free"
           /\ \A v, w \in ElfPages(elf) : new.pte[v] = new.pte[w] => v = w
           /\ \A x \in LoadObjects(elf) : x[1] \in Kinds \ {"free"}
           /\ \A o, h : h \in MapHoldings(o, new) <=> h \in New(o, at, Objects(ElfSegs(elf)))
<1> DEFINE segs == ElfSegs(elf)
           objects == LoadObjects(elf)
<1>1. Proper(segs) /\ FramedPages(segs) = ElfPages(elf)
      /\ PagesOf(segs) = KernelPages \cup ElfPages(elf)
  BY LoadedSegs DEF Proper
<1>2. Objects(segs) \subseteq objects /\ MapObjects(segs, segs) = Objects(segs)
  BY DEF LoadObjects, Objects, MapObjects
<1>3. at \in Placements(objects, k) /\ new = MemoryMap(segs, segs, at)
  OBVIOUS
<1>4. ASSUME NEW x \in objects  PROVE x[1] \in Kinds \ {"free"}
  <2>1. CASE x \in Of("buf", Sole)
    <3>1. x[1] = "buf"
      BY <2>1, InOf
    <3> QED  BY <3>1 DEF Kinds
  <2>2. CASE x \in Objects(segs)
    BY <2>2, MapObjectsOf
  <2> QED  BY <2>1, <2>2 DEF LoadObjects
<1> HIDE DEF segs, objects
<1>5. \A v \in FramedPages(segs) : <<"page", v>> \in objects
  BY <1>2, MapObjectsOf
<1>6. /\ \A v \in FramedPages(segs) :
            at[<<"page", v>>] \in Blocks /\ k[at[<<"page", v>>]] = "free"
      /\ \A v, w \in FramedPages(segs) : at[<<"page", v>>] = at[<<"page", w>>] => v = w
  BY <1>3, <1>5, PagesPlaced
<1>7. \A v \in FramedPages(segs) : at[<<"page", v>>] # NULL
  BY <1>6, AddressSpaceAssumption
<1>8. WellFormed(new) /\ FramedPages(new.segs) = FramedPages(segs)
  BY <1>1, <1>3, <1>7, NewMapFormed
<1>9. /\ MadeFor(new, segs, segs, at)
      /\ \A o, h : h \in MapHoldings(o, new) <=> h \in New(o, at, MapObjects(segs, segs))
  BY <1>3, NewMap
<1>10. USER_STACK \notin PagesOf(segs) /\ FramedPages(segs) \subseteq PagesOf(segs)
  BY <1>1, ProperPages
<1>11. /\ DOMAIN new.pte = PagesOf(segs)
       /\ \A v \in FramedPages(segs) : new.pte[v] = at[<<"page", v>>]
  BY <1>9, <1>10 DEF MadeFor
<1>12. /\ \A v \in FramedPages(segs) : new.pte[v] \in Blocks /\ k[new.pte[v]] = "free"
       /\ \A v, w \in FramedPages(segs) : new.pte[v] = new.pte[w] => v = w
  BY <1>6, <1>11
<1>13. \A o, h : h \in MapHoldings(o, new) <=> h \in New(o, at, Objects(segs))
  BY <1>2, <1>9
<1> HIDE <1>9, <1>3
<1> QED  BY <1>1, <1>4, <1>8, <1>10, <1>11, <1>12, <1>13 DEF segs, objects

\* The new address space and buf are held by sys_exec(), in new blocks.
LEMMA LoadInv ==
    ASSUME IInv, mode = "run", current # idle, NEW elf \in Loadable,
           NEW at \in Placements(LoadObjects(elf), kind),
           NEW new, new = MemoryMap(ElfSegs(elf), ElfSegs(elf), at),
           LoadedAs(elf, at, new)
    PROVE  IInv'
<1> DEFINE A == Of("buf", Sole)
           B == Objects(ElfSegs(elf))
           objects == A \cup B
<1>1. /\ Types /\ Shapes /\ Kept(Holdings, kind) /\ Stacks /\ Hart /\ SatpExact
  BY DEF IInv
<1>2. /\ kind' = Alloc(at, kind) /\ content' = Filled(content, new, Data(elf))
      /\ loading'.mm = new /\ loading'.buf = at[<<"buf", 0>>] /\ mode' = "loaded"
      /\ UNCHANGED <<mm, own, cx_satp, satp, current, state>>
  BY DEF LoadedAs
<1>3. /\ WellFormed(new) /\ FramedPages(new.segs) = ElfPages(elf)
      /\ USER_STACK \notin DOMAIN new.pte
      /\ \A v \in ElfPages(elf) : new.pte[v] \in Blocks /\ kind[new.pte[v]] = "free"
      /\ \A v, w \in ElfPages(elf) : new.pte[v] = new.pte[w] => v = w
      /\ \A x \in LoadObjects(elf) : x[1] \in Kinds \ {"free"}
      /\ \A h : h \in MapHoldings(NULL, new) <=> h \in New(NULL, at, B)
  BY LoadFacts
<1>4. Living' = Living /\ Mapped' = Mapped
  BY <1>2 DEF Living, Mapped
<1>5. LoadObjects(elf) = objects
  BY DEF LoadObjects
<1> HIDE DEF B
<1>6. ASSUME NEW h
      PROVE  h \in Holdings' <=> h \in Holdings \cup New(NULL, at, objects)
  <2>1. h \in LoadHoldings' <=>
            h = <<NULL, "buf", 0, at[<<"buf", 0>>]>> \/ h \in MapHoldings(NULL, new)
    BY <1>2 DEF LoadHoldings
  <2>2. LoadHoldings = {}
    BY DEF LoadHoldings
  <2>3. h \in New(NULL, at, A) <=> h = <<NULL, "buf", 0, at[<<"buf", 0>>]>>
    BY InNewSole
  <2> HIDE DEF A
  <2>4. h \in New(NULL, at, objects) <=> h \in New(NULL, at, A) \/ h \in New(NULL, at, B)
    BY InNewUnion
  <2>5. h \in Holdings' <=> \/ \E p \in Mapped : h \in MapHoldings(p, mm[p])
                            \/ \E p \in Living : h \in OwnHoldings(p, own[p])
                            \/ h \in LoadHoldings'
    BY <1>2, <1>4 DEF Holdings
  <2>6. h \in Holdings <=> \/ \E p \in Mapped : h \in MapHoldings(p, mm[p])
                           \/ \E p \in Living : h \in OwnHoldings(p, own[p])
    BY <2>2 DEF Holdings
  <2> QED  BY <1>3, <2>1, <2>3, <2>4, <2>5, <2>6
<1> HIDE DEF A, objects
<1>7. Kept(Holdings', kind')
  <2>1. Holdings' = Holdings \cup New(NULL, at, objects)
    BY <1>6
  <2>2. \A x \in objects : x[1] # "free"
    BY <1>3, <1>5
  <2>3. at \in Placements(objects, kind) /\ objects \in SUBSET objects
    BY <1>5
  <2>4. Kept(Holdings \cup New(NULL, at, objects), Alloc(at, kind))
    BY <1>1, <2>2, <2>3, KeptNew
  <2> QED  BY <1>2, <2>1, <2>4
<1>8. Types'
  <2>1. kind' \in [Blocks -> Kinds]
    <3>1. kind \in [Blocks -> Kinds]
      BY <1>1 DEF Types, Kinds
    <3>2. \A x \in LoadObjects(elf) : x[1] \in Kinds
      BY <1>3
    <3> QED  BY <1>2, <3>1, <3>2, AllocTyped
  <2>2. content' \in [Blocks -> Values \cup {NULL}]
    <3>1. content \in [Blocks -> Values \cup {NULL}]
      BY <1>1 DEF Types
    <3>2. \A v \in DOMAIN Data(elf) : Data(elf)[v] \in Values \cup {NULL}
      BY DataTyped
    <3> QED  BY <1>2, <3>1, <3>2, FilledTyped
  <2> QED  BY <1>1, <1>2, <1>4, <2>1, <2>2 DEF Types, Kinds
<1>9. Shapes'
  BY <1>1, <1>2, <1>3, <1>4 DEF Shapes
<1>10. Stacks'
  BY <1>1, <1>2, <1>3, <1>4 DEF Stacks
<1>11. Hart'
  BY <1>1, <1>2 DEF Hart
<1>12. SatpExact'
  <2>1. kind'[satp'] = "root"
    BY <1>2, CurrentLives, SatpStays
  <2> QED  BY <1>1, <1>2, <1>4, <2>1 DEF SatpExact
<1>13. Loaded'
  <2>1. DOMAIN Data(elf) = ElfPages(elf)
    BY DataTyped
  <2>2. \A v \in ElfPages(elf) : Filled(content, new, Data(elf))[new.pte[v]] = Data(elf)[v]
    BY <1>3, <2>1, FilledIs
  <2>3. \A v \in ElfPages(elf) : content'[loading'.mm.pte[v]] = Data(elf)[v]
    BY <1>2, <2>2
  <2> QED  BY <1>2, <1>3, <2>3 DEF Loaded
<1> QED  BY <1>7, <1>8, <1>9, <1>10, <1>11, <1>12, <1>13 DEF IInv

\* activate(): satp names the new root table, which is allocated.
LEMMA ActivateInv ==
    ASSUME IInv, exec_activate  PROVE IInv'
<1>1. /\ mode = "loaded" /\ mode' = "activated" /\ satp' = loading.mm.root
      /\ UNCHANGED <<kind, content, mm, own, cx_satp, current, state, loading>>
  BY DEF exec_activate
<1>2. Living' = Living /\ Mapped' = Mapped /\ LoadHoldings' = LoadHoldings
  BY <1>1 DEF Living, Mapped, LoadHoldings
<1>3. Holdings' = Holdings
  BY <1>1, <1>2, SameHoldings
<1>4. Types' /\ Shapes' /\ Kept(Holdings, kind)' /\ Stacks' /\ Hart' /\ Loaded'
  BY <1>1, <1>2, <1>3 DEF IInv, Types, Shapes, Stacks, Hart, Loaded
<1>5. kind[loading.mm.root] = "root"
  <2> DEFINE h == <<NULL, "root", 0, loading.mm.root>>
  <2>1. h \in MapHoldings(NULL, loading.mm) /\ h[4] = loading.mm.root /\ h[2] = "root"
    BY InMapHoldings
  <2> HIDE DEF h
  <2>2. h \in Holdings
    BY <1>1, <2>1, InHoldings, MapLoad
  <2> QED  BY <2>1, <2>2 DEF IInv, Kept
<1>6. SatpExact'
  BY <1>1, <1>2, <1>5 DEF IInv, SatpExact
<1> QED  BY <1>4, <1>6 DEF IInv

\* Who holds the parts of a memory map, and what dealloc_memory_map() frees.
LEMMA MapHolder ==
    ASSUME NEW o, NEW m, NEW h \in MapHoldings(o, m)
    PROVE  h[1] = o /\ h[2] \in {"mm", "root", "table", "segment", "page"}
<1>1. CASE \E t \in DOMAIN m.tables : h = <<o, "table", t, m.tables[t]>>
  BY <1>1
<1>2. CASE \E s \in m.segs : h = <<o, "segment", s.pages, s.self>>
  BY <1>2
<1>3. CASE \E v \in FramedPages(m.segs) : h = <<o, "page", v, m.pte[v]>>
  BY <1>3
<1> QED  BY <1>1, <1>2, <1>3, InMapHoldings

\* What OwnHoldings is about.
LEMMA OwnHolder ==
    ASSUME NEW o, NEW r, NEW h \in OwnHoldings(o, r)
    PROVE  h[1] = o /\ h[2] \in {"pcb", "kstack", "ustack"}
  BY InOwnHoldings

\* dealloc_memory_map() frees nothing but what the map holds, and each of its
\* frames.
LEMMA Freed ==
    ASSUME NEW o, NEW m
    PROVE  /\ \A b \in dealloc_memory_map(m) : \E h \in MapHoldings(o, m) : h[4] = b
           /\ \A h \in MapHoldings(o, m) : h[2] \in Frames => h[4] \in dealloc_memory_map(m)
<1>1. ASSUME NEW b \in dealloc_memory_map(m)
      PROVE  \E h \in MapHoldings(o, m) : h[4] = b
  <2>1. CASE \E v \in FramedPages(m.segs) : b = m.pte[v]
    <3>1. PICK v \in FramedPages(m.segs) : b = m.pte[v]
      BY <2>1
    <3> DEFINE h == <<o, "page", v, m.pte[v]>>
    <3>2. h \in MapHoldings(o, m) /\ h[4] = b
      BY <3>1, InMapHoldings
    <3> HIDE DEF h
    <3> QED  BY <3>2
  <2>2. CASE \E t \in DOMAIN m.tables : b = m.tables[t]
    <3>1. PICK t \in DOMAIN m.tables : b = m.tables[t]
      BY <2>2
    <3> DEFINE h == <<o, "table", t, m.tables[t]>>
    <3>2. h \in MapHoldings(o, m) /\ h[4] = b
      BY <3>1, InMapHoldings
    <3> HIDE DEF h
    <3> QED  BY <3>2
  <2>3. CASE b = m.root
    <3> DEFINE h == <<o, "root", 0, m.root>>
    <3>2. h \in MapHoldings(o, m) /\ h[4] = b
      BY <2>3, InMapHoldings
    <3> HIDE DEF h
    <3> QED  BY <3>2
  <2> QED  BY <2>1, <2>2, <2>3 DEF dealloc_memory_map
<1>2. ASSUME NEW h \in MapHoldings(o, m), h[2] \in Frames
      PROVE  h[4] \in dealloc_memory_map(m)
  <2>1. CASE \E t \in DOMAIN m.tables : h = <<o, "table", t, m.tables[t]>>
    BY <2>1 DEF dealloc_memory_map
  <2>2. CASE \E v \in FramedPages(m.segs) : h = <<o, "page", v, m.pte[v]>>
    BY <2>2 DEF dealloc_memory_map
  <2>3. CASE h = <<o, "root", 0, m.root>>
    BY <2>3 DEF dealloc_memory_map
  <2>4. CASE \E s \in m.segs : h = <<o, "segment", s.pages, s.self>>
    BY <1>2, <2>4 DEF Frames
  <2>5. CASE h = <<o, "mm", 0, m.self>>
    BY <1>2, <2>5 DEF Frames
  <2> QED  BY <2>1, <2>2, <2>3, <2>4, <2>5, InMapHoldings
<1> QED  BY <1>1, <1>2

\* Handed on, a memory map is held for by its new owner.
LEMMA Passed ==
    ASSUME NEW o, NEW p, NEW m, NEW h
    PROVE  h \in MapHoldings(p, m) <=>
               \E g \in MapHoldings(o, m) : h = <<p, g[2], g[3], g[4]>>
<1>1. ASSUME NEW g \in MapHoldings(o, m), h = <<p, g[2], g[3], g[4]>>
      PROVE  h \in MapHoldings(p, m)
  <2>1. CASE \E t \in DOMAIN m.tables : g = <<o, "table", t, m.tables[t]>>
    BY <1>1, <2>1, InMapHoldings
  <2>2. CASE \E v \in FramedPages(m.segs) : g = <<o, "page", v, m.pte[v]>>
    BY <1>1, <2>2, InMapHoldings
  <2>3. CASE g = <<o, "root", 0, m.root>>
    BY <1>1, <2>3, InMapHoldings
  <2>4. CASE \E s \in m.segs : g = <<o, "segment", s.pages, s.self>>
    BY <1>1, <2>4, InMapHoldings
  <2>5. CASE g = <<o, "mm", 0, m.self>>
    BY <1>1, <2>5, InMapHoldings
  <2> QED  BY <2>1, <2>2, <2>3, <2>4, <2>5, InMapHoldings
<1>2. ASSUME h \in MapHoldings(p, m)
      PROVE  \E g \in MapHoldings(o, m) : h = <<p, g[2], g[3], g[4]>>
  <2> DEFINE g == <<o, h[2], h[3], h[4]>>
  <2>1. CASE \E t \in DOMAIN m.tables : h = <<p, "table", t, m.tables[t]>>
    <3>1. g \in MapHoldings(o, m) /\ h = <<p, g[2], g[3], g[4]>>
      BY <2>1, InMapHoldings
    <3> HIDE DEF g
    <3> QED  BY <3>1
  <2>2. CASE \E v \in FramedPages(m.segs) : h = <<p, "page", v, m.pte[v]>>
    <3>1. g \in MapHoldings(o, m) /\ h = <<p, g[2], g[3], g[4]>>
      BY <2>2, InMapHoldings
    <3> HIDE DEF g
    <3> QED  BY <3>1
  <2>3. CASE h = <<p, "root", 0, m.root>>
    <3>1. g \in MapHoldings(o, m) /\ h = <<p, g[2], g[3], g[4]>>
      BY <2>3, InMapHoldings
    <3> HIDE DEF g
    <3> QED  BY <3>1
  <2>4. CASE \E s \in m.segs : h = <<p, "segment", s.pages, s.self>>
    <3>1. g \in MapHoldings(o, m) /\ h = <<p, g[2], g[3], g[4]>>
      BY <2>4, InMapHoldings
    <3> HIDE DEF g
    <3> QED  BY <3>1
  <2>5. CASE h = <<p, "mm", 0, m.self>>
    <3>1. g \in MapHoldings(o, m) /\ h = <<p, g[2], g[3], g[4]>>
      BY <2>5, InMapHoldings
    <3> HIDE DEF g
    <3> QED  BY <3>1
  <2> QED  BY <1>2, <2>1, <2>2, <2>3, <2>4, <2>5, InMapHoldings
<1> QED  BY <1>1, <1>2

\* The old address space is given back and the new one passes to the process.
LEMMA ReplaceInv ==
    ASSUME IInv, exec_replace  PROVE IInv'
<1> DEFINE m == mm[current]
           new == loading.mm
           M == MapHoldings(current, m)
           X == MapHoldings(NULL, new)
           buf == <<NULL, "buf", 0, loading.buf>>
           G == {h \in Holdings : h \notin M}
           B == dealloc_memory_map(m)
<1>1. /\ Types /\ Shapes /\ Kept(Holdings, kind) /\ Stacks /\ Hart /\ SatpExact
  BY DEF IInv
<1>2. /\ mode = "activated" /\ mode' = "replaced"
      /\ mm' = [mm EXCEPT ![current] = new]
      /\ kind' = Dealloc(B, kind) /\ content' = Cleared(B)
      /\ cx_satp' = [cx_satp EXCEPT ![current] = new.root]
      /\ UNCHANGED <<own, satp, current, state, loading>>
  BY DEF exec_replace
<1>3. current # idle
  BY <1>1, <1>2 DEF Hart
<1>4. current \in Living /\ current \in Mapped /\ current \in Procs
  BY <1>3, CurrentLives
<1>5. Living' = Living /\ Mapped' = Mapped
  BY <1>2 DEF Living, Mapped
<1>6. Living \subseteq Procs /\ Mapped \subseteq Contexts /\ Living \subseteq Mapped
  BY DEF Living, Mapped, Contexts
<1>7. /\ DOMAIN mm' = Contexts /\ mm' = [p \in Contexts |-> mm'[p]]
      /\ mm'[current] = new /\ \A p \in Contexts \ {current} : mm'[p] = mm[p]
  BY <1>1, <1>2, <1>4 DEF Shapes, Contexts
<1>8. /\ cx_satp' = [p \in Contexts |-> cx_satp'[p]]
      /\ \A p \in Contexts \ {current} : cx_satp'[p] = cx_satp[p]
  BY <1>1, <1>2, <1>4 DEF Shapes, Contexts
<1>9. NULL \notin Contexts
  BY AddressSpaceAssumption
<1>10. \A h : h \in LoadHoldings <=> h = buf \/ h \in X
  BY <1>2, MapLoad
<1>11. buf[1] = NULL /\ buf[2] = "buf"
  OBVIOUS
<1>12. LoadHoldings' = {buf}
  BY <1>2 DEF LoadHoldings
<1>13. /\ \A h \in M : h[1] = current /\ h[2] \in {"mm", "root", "table", "segment", "page"}
       /\ \A h \in X : h[1] = NULL /\ h[2] \in {"mm", "root", "table", "segment", "page"}
  BY MapHolder
<1>14. \A p \in Living : \A h \in OwnHoldings(p, own[p]) :
           h[1] = p /\ h[2] \in {"pcb", "kstack", "ustack"}
  BY OwnHolder
<1>15. \A p \in Mapped : \A h \in MapHoldings(p, mm[p]) : h[1] = p
  BY MapHolder
<1>16. /\ \A b \in B : \E h \in M : h[4] = b
       /\ \A h \in M : h[2] \in Frames => h[4] \in B
  BY Freed
<1>17. \A h : h \in MapHoldings(current, new) <=>
                  \E g \in X : h = <<current, g[2], g[3], g[4]>>
  BY Passed
<1>18. M \subseteq Holdings
  BY <1>4, InHoldings
<1> HIDE DEF X, buf, B
<1>19. X \in SUBSET G
  <2>1. \A h \in X : h \in Holdings /\ h \notin M
    BY <1>4, <1>9, <1>10, <1>13, InHoldings DEF Contexts
  <2> QED  BY <2>1
<1>20. ASSUME NEW h
       PROVE  h \in G /\ h \notin X <=>
                  \/ \E p \in Mapped \ {current} : h \in MapHoldings(p, mm[p])
                  \/ \E p \in Living : h \in OwnHoldings(p, own[p])
                  \/ h = buf
  <2>1. h \in Holdings <=> \/ \E p \in Mapped \ {current} : h \in MapHoldings(p, mm[p])
                           \/ h \in M
                           \/ \E p \in Living : h \in OwnHoldings(p, own[p])
                           \/ h = buf \/ h \in X
    BY <1>4, <1>10, InHoldings
  <2>2. (\E p \in Mapped \ {current} : h \in MapHoldings(p, mm[p])) =>
            h \notin M /\ h \notin X
    BY <1>6, <1>9, <1>13, <1>15
  <2>3. (\E p \in Living : h \in OwnHoldings(p, own[p])) => h \notin M /\ h \notin X
    BY <1>13, <1>14
  <2>4. h = buf => h \notin M /\ h \notin X
    BY <1>11, <1>13
  <2> QED  BY <2>1, <2>2, <2>3, <2>4
<1>21. ASSUME NEW h
       PROVE  h \in Holdings' <=> \/ h \in G /\ h \notin X
                                  \/ \E g \in X : h = <<current, g[2], g[3], g[4]>>
  <2>1. h \in Holdings' <=> \/ \E p \in Mapped : h \in MapHoldings(p, mm'[p])
                            \/ \E p \in Living : h \in OwnHoldings(p, own[p])
                            \/ h = buf
    BY <1>2, <1>5, <1>12 DEF Holdings
  <2>2. (\E p \in Mapped : h \in MapHoldings(p, mm'[p])) <=>
            \/ \E p \in Mapped \ {current} : h \in MapHoldings(p, mm[p])
            \/ h \in MapHoldings(current, new)
    BY <1>4, <1>6, <1>7
  <2> QED  BY <1>17, <1>20, <2>1, <2>2
<1>22. Kept(G, Dealloc(B, kind))
  <2>1. \A h \in G : h[4] \notin B
    BY <1>1, <1>16, <1>18 DEF Kept
  <2>2. \A h \in Holdings \ G : h[2] \in Frames => h[4] \in B
    BY <1>16
  <2>3. G \in SUBSET Holdings
    OBVIOUS
  <2> HIDE DEF G
  <2> QED  BY <1>1, <2>1, <2>2, <2>3, KeptLess
<1> HIDE DEF G
<1>23. Kept(Holdings', kind')
  <2> DEFINE H == Holdings'
             k == Dealloc(B, kind)
  <2>2. Kept(G, k) /\ HandedOn(G, X, current, H)
    BY <1>21, <1>22 DEF HandedOn
  <2> HIDE DEF H, k
  <2>3. Kept(H, k)
    BY <1>19, <2>2, KeptPassed
  <2>1. Kept(Holdings', Dealloc(B, kind))
    BY <2>3 DEF H, k
  <2> QED  BY <1>2, <2>1
<1>24. Types'
  <2>1. kind' \in [Blocks -> Kinds]
    BY <1>1, <1>2, DeallocTyped DEF Types, Kinds
  <2>2. content' \in [Blocks -> Values \cup {NULL}]
    BY <1>1, <1>2, ClearedTyped DEF Types
  <2>3. \A p \in Procs \ Living : mm'[p] = NULL /\ own'[p] = NULL
    BY <1>1, <1>2, <1>4, <1>7 DEF Types, Contexts
  <2> QED  BY <1>1, <1>2, <1>5, <2>1, <2>2, <2>3 DEF Types, Kinds
<1>25. Shapes'
  <2>1. \A p \in Mapped : WellFormed(mm'[p])
    BY <1>1, <1>2, <1>6, <1>7 DEF Shapes
  <2> QED  BY <1>1, <1>2, <1>5, <1>7, <1>8, <2>1 DEF Shapes
<1>26. Stacks'
  <2>1. USER_STACK \notin DOMAIN new.pte
    BY <1>1, <1>2 DEF Stacks
  <2>2. \A p \in Living \ {current} : mm'[p] = mm[p]
    BY <1>6, <1>7
  <2> QED  BY <1>1, <1>2, <1>5, <1>7, <2>1, <2>2 DEF Stacks
<1>27. Hart' /\ Loaded'
  BY <1>1, <1>2, <1>3 DEF Hart, Loaded
<1>28. SatpExact'
  <2>1. satp' = new.root
    BY <1>1, <1>2 DEF Hart
  <2>2. kind'[new.root] = "root"
    <3> DEFINE h == <<current, "root", 0, new.root>>
    <3>1. h \in MapHoldings(current, new) /\ h[4] = new.root /\ h[2] = "root"
      BY InMapHoldings
    <3> HIDE DEF h
    <3>2. h \in Holdings'
      BY <1>17, <1>21, <3>1
    <3> QED  BY <1>23, <3>1, <3>2 DEF Kept
  <2>3. \A p \in Mapped \ {current} :
            (p # idle => state[p] = "live") => cx_satp'[p] = mm'[p].root
    BY <1>1, <1>6, <1>7, <1>8 DEF SatpExact
  <2> QED  BY <1>2, <1>5, <1>7, <2>1, <2>2, <2>3 DEF SatpExact
<1> QED  BY <1>23, <1>24, <1>25, <1>26, <1>27, <1>28 DEF IInv

\* What sys_wait() takes away.
Waited(child) ==
    /\ state[child] = "exited"
    /\ state' = [state EXCEPT ![child] = "unused"]
    /\ kind' = Dealloc(Reaped(child), kind)
    /\ content' = Cleared(Reaped(child))
    /\ mm' = [mm EXCEPT ![child] = NULL]
    /\ own' = [own EXCEPT ![child] = NULL]
    /\ cx_satp' = [cx_satp EXCEPT ![child] = NULL]
    /\ UNCHANGED <<satp, current, loading, mode>>

\* sys_wait() reaps an exited child.
LEMMA WaitCases ==
    ASSUME sys_wait
    PROVE  mode = "run" /\ current # idle /\ \E child \in Procs \ {init} : Waited(child)
  BY DEF sys_wait, AtUser, Waited

\* After sys_wait(), what all others hold is still there.
LEMMA WaitHoldings ==
    ASSUME IInv, mode = "run", current # idle, NEW child \in Procs, Waited(child)
    PROVE  /\ Kept(Holdings', kind')
           /\ \A p : p \in Living' <=> p \in Living /\ p # child
           /\ \A p : p \in Mapped' <=> p \in Mapped /\ p # child
           /\ child # current /\ child # idle /\ child \in Living
           /\ \A p \in Contexts \ {child} : mm'[p] = mm[p]
           /\ \A p \in Procs \ {child} : own'[p] = own[p]
           /\ \A b \in Reaped(child) :
                 \E h \in Holdings : h[1] = child /\ h[4] = b
<1> DEFINE m == mm[child]
           r == own[child]
           M == MapHoldings(child, m)
           O == OwnHoldings(child, r)
           G == {h \in Holdings : h \notin M /\ h \notin O}
           B == Reaped(child)
<1>1. /\ Types /\ Shapes /\ Kept(Holdings, kind)
  BY DEF IInv
<1>2. /\ state[child] = "exited" /\ state' = [state EXCEPT ![child] = "unused"]
      /\ kind' = Dealloc(B, kind)
      /\ mm' = [mm EXCEPT ![child] = NULL] /\ own' = [own EXCEPT ![child] = NULL]
      /\ UNCHANGED <<satp, current, loading, mode>>
  BY DEF Waited
<1>3. child # current /\ child # idle /\ child \in Living /\ child \in Mapped
  BY <1>2, CurrentLives DEF Living, Mapped
<1>4. \A p : p \in Living' <=> p \in Living /\ p # child
  BY <1>1, <1>2 DEF Living, Types
<1>5. \A p : p \in Mapped' <=> p \in Mapped /\ p # child
  BY <1>3, <1>4 DEF Mapped
<1>6. Living \subseteq Procs /\ Mapped \subseteq Contexts
  BY DEF Living, Mapped, Contexts
<1>7. /\ \A p \in Contexts \ {child} : mm'[p] = mm[p]
      /\ \A p \in Procs \ {child} : own'[p] = own[p]
  BY <1>1, <1>2 DEF Shapes, Contexts
<1>8. LoadHoldings = {} /\ LoadHoldings' = {}
  BY <1>2 DEF LoadHoldings
<1>9. \A p \in Mapped : \A h \in MapHoldings(p, mm[p]) :
          h[1] = p /\ h[2] \in {"mm", "root", "table", "segment", "page"}
  BY MapHolder
<1>10. \A p \in Living : \A h \in OwnHoldings(p, own[p]) :
           h[1] = p /\ h[2] \in {"pcb", "kstack", "ustack"}
  BY OwnHolder
<1>11. ASSUME NEW h
       PROVE  h \in Holdings' <=> h \in G
  <2>1. h \in Holdings' <=> \/ \E p \in Mapped' : h \in MapHoldings(p, mm'[p])
                            \/ \E p \in Living' : h \in OwnHoldings(p, own'[p])
    BY <1>8 DEF Holdings
  <2>2. h \in Holdings <=> \/ \E p \in Mapped : h \in MapHoldings(p, mm[p])
                           \/ \E p \in Living : h \in OwnHoldings(p, own[p])
    BY <1>8 DEF Holdings
  <2>3. (\E p \in Mapped' : h \in MapHoldings(p, mm'[p])) <=>
            \E p \in Mapped : p # child /\ h \in MapHoldings(p, mm[p])
    BY <1>5, <1>6, <1>7
  <2>4. (\E p \in Living' : h \in OwnHoldings(p, own'[p])) <=>
            \E p \in Living : p # child /\ h \in OwnHoldings(p, own[p])
    BY <1>4, <1>6, <1>7
  <2> QED  BY <1>3, <1>9, <1>10, <2>1, <2>2, <2>3, <2>4
<1>12. /\ \A b \in B : \E h \in Holdings : h \notin G /\ h[1] = child /\ h[4] = b
       /\ \A h \in Holdings \ G : h[2] \in Frames => h[4] \in B
  <2>1. /\ \A b \in dealloc_memory_map(m) : \E h \in M : h[4] = b
        /\ \A h \in M : h[2] \in Frames => h[4] \in dealloc_memory_map(m)
    BY Freed
  <2>2. M \subseteq Holdings /\ O \subseteq Holdings
    BY <1>3, InHoldings
  <2>3. \A h \in O : h[2] \notin Frames
    BY <1>3, <1>10 DEF Frames
  <2>4. \A h \in M : h[1] = child
    BY <1>3, <1>9
  <2>5. \A h \in O : h[1] = child
    BY <1>3, <1>10
  <2>6. ASSUME NEW b \in {r.ustack, r.kstack, r.pcb}
        PROVE  \E h \in O : h[4] = b
    <3> DEFINE g == <<child, "pcb", 0, r.pcb>>
               h == <<child, "kstack", 0, r.kstack>>
               i == <<child, "ustack", 0, r.ustack>>
    <3>1. g \in O /\ h \in O /\ i \in O
      BY InOwnHoldings
    <3>2. g[4] = r.pcb /\ h[4] = r.kstack /\ i[4] = r.ustack
      OBVIOUS
    <3> HIDE DEF g, h, i, O
    <3> QED  BY <3>1, <3>2
  <2>7. B = {r.ustack, r.kstack, r.pcb} \cup dealloc_memory_map(m)
    BY DEF Reaped
  <2>8. ASSUME NEW b \in B
        PROVE  \E h \in Holdings : h \notin G /\ h[1] = child /\ h[4] = b
    <3>1. CASE b \in dealloc_memory_map(m)
      BY <2>1, <2>2, <2>4, <3>1
    <3>2. CASE b \in {r.ustack, r.kstack, r.pcb}
      <4> HIDE DEF O
      <4> QED  BY <2>2, <2>5, <2>6, <3>2
    <3> QED  BY <2>7, <3>1, <3>2
  <2>9. \A h \in Holdings \ G : h[2] \in Frames => h[4] \in B
    BY <2>1, <2>3, <2>7
  <2> QED  BY <2>8, <2>9
<1>13. \A h \in G : h[4] \notin B
  BY <1>1, <1>12 DEF Kept
<1>14. G \in SUBSET Holdings
  OBVIOUS
<1> HIDE DEF G, B
<1>15. Kept(G, Dealloc(B, kind))
  BY <1>1, <1>12, <1>13, <1>14, KeptLess
<1>16. Holdings' = G
  BY <1>11
<1>17. Kept(Holdings', kind')
  BY <1>2, <1>15, <1>16
<1> QED  BY <1>3, <1>4, <1>5, <1>7, <1>12, <1>17 DEF B

\* sys_wait() gives back what the child holds; satp names another root table.
LEMMA WaitInv ==
    ASSUME IInv, mode = "run", current # idle, NEW child \in Procs, Waited(child)
    PROVE  IInv'
<1>1. /\ Types /\ Shapes /\ Stacks /\ Hart /\ SatpExact
  BY DEF IInv
<1>2. /\ state' = [state EXCEPT ![child] = "unused"]
      /\ kind' = Dealloc(Reaped(child), kind) /\ content' = Cleared(Reaped(child))
      /\ mm' = [mm EXCEPT ![child] = NULL] /\ own' = [own EXCEPT ![child] = NULL]
      /\ cx_satp' = [cx_satp EXCEPT ![child] = NULL]
      /\ UNCHANGED <<satp, current, loading, mode>>
  BY DEF Waited
<1>3. /\ Kept(Holdings', kind')
      /\ \A p : p \in Living' <=> p \in Living /\ p # child
      /\ \A p : p \in Mapped' <=> p \in Mapped /\ p # child
      /\ child # current /\ child # idle /\ child \in Living
      /\ \A p \in Contexts \ {child} : mm'[p] = mm[p]
      /\ \A p \in Procs \ {child} : own'[p] = own[p]
  BY WaitHoldings
<1>4. /\ state' \in [Procs -> {"unused", "live", "exited"}]
      /\ \A p \in Procs \ {child} : state'[p] = state[p]
  BY <1>1, <1>2 DEF Types
<1>5. /\ DOMAIN mm' = Contexts /\ mm' = [p \in Contexts |-> mm'[p]] /\ mm'[child] = NULL
      /\ own' = [p \in Procs |-> own'[p]] /\ own'[child] = NULL
      /\ cx_satp' = [p \in Contexts |-> cx_satp'[p]]
      /\ \A p \in Contexts \ {child} : cx_satp'[p] = cx_satp[p]
  BY <1>1, <1>2 DEF Shapes, Contexts
<1>6. Living \subseteq Procs /\ Mapped \subseteq Contexts /\ current \in Mapped
  BY CurrentLives DEF Living, Mapped, Contexts
<1>7. Types'
  <2>1. kind' \in [Blocks -> Kinds]
    BY <1>1, <1>2, DeallocTyped DEF Types, Kinds
  <2>2. content' \in [Blocks -> Values \cup {NULL}]
    BY <1>1, <1>2, ClearedTyped DEF Types
  <2>3. \A p \in Procs \ Living' : mm'[p] = NULL /\ own'[p] = NULL
    BY <1>1, <1>3, <1>5 DEF Types, Contexts
  <2> QED  BY <1>1, <1>2, <1>4, <2>1, <2>2, <2>3 DEF Types, Kinds
<1>8. Shapes'
  <2>1. \A p \in Mapped' : WellFormed(mm'[p])
    BY <1>1, <1>3, <1>6 DEF Shapes
  <2>2. \A p \in Living' :
            own'[p] = [pcb |-> own'[p].pcb, kstack |-> own'[p].kstack,
                       ustack |-> own'[p].ustack]
    BY <1>1, <1>3, <1>6 DEF Shapes
  <2> QED  BY <1>1, <1>2, <1>5, <2>1, <2>2 DEF Shapes
<1>9. Stacks'
  BY <1>1, <1>2, <1>3, <1>6 DEF Stacks, Contexts
<1>10. Hart' /\ Loaded'
  <2>1. state'[current] = state[current]
    BY <1>3, <1>4, CurrentLives
  <2> QED  BY <1>1, <1>2, <2>1 DEF Hart, Loaded
<1>11. SatpExact'
  <2>1. satp = mm[current].root /\ mm'[current] = mm[current]
    BY <1>1, <1>3, <1>6 DEF SatpExact
  <2>2. kind'[satp] = "root"
    <3> DEFINE h == <<current, "root", 0, mm[current].root>>
    <3>1. h \in MapHoldings(current, mm[current]) /\ h[4] = satp /\ h[2] = "root"
      BY <2>1, InMapHoldings
    <3> HIDE DEF h
    <3>2. h \in Holdings'
      BY <1>3, <1>6, <2>1, <3>1 DEF Holdings
    <3> QED  BY <1>3, <3>1, <3>2 DEF Kept
  <2>3. ASSUME NEW p \in Mapped' \ {current}, p # idle => state'[p] = "live"
        PROVE  cx_satp'[p] = mm'[p].root
    <3>1. p # child /\ p \in Mapped /\ p \in Contexts /\ (p # idle => state[p] = "live")
      BY <1>3, <1>4, <1>6, <2>3 DEF Contexts
    <3> QED  BY <1>1, <1>3, <1>5, <2>3, <3>1 DEF SatpExact
  <2> QED  BY <1>2, <2>1, <2>2, <2>3 DEF SatpExact
<1> QED  BY <1>3, <1>7, <1>8, <1>9, <1>10, <1>11 DEF IInv

\* How sys_exec() replaces the user stack.
Stacked(at, x) ==
    LET stack == at[<<"ustack", 0>>] IN
    /\ kind' = Dealloc({loading.buf}, Alloc(at, Dealloc({own[current].ustack}, kind)))
    /\ own' = [own EXCEPT ![current].ustack = stack]
    /\ mm' = [mm EXCEPT ![current] = MapStack(@, stack, at)]
    /\ content' = [Cleared({own[current].ustack}) EXCEPT ![stack] = x]
    /\ loading' = NULL
    /\ mode' = "run"
    /\ UNCHANGED <<cx_satp, satp, current, state>>

\* exec_stack panics or puts a new user stack in the place of the old one.
LEMMA StackCases ==
    ASSUME exec_stack
    PROVE  /\ mode = "replaced"
           /\ \/ panic
              \/ \E at \in Placements(StackObjects(mm[current]),
                                      Dealloc({own[current].ustack}, kind)), x \in Values :
                    Stacked(at, x)
  BY DEF exec_stack, Stacked

\* What sys_exec() has replaced the user stack by.
LEMMA StackFacts ==
    ASSUME NEW m, NEW k, NEW at \in Placements(StackObjects(m), k)
    PROVE  /\ at[<<"ustack", 0>>] \in Blocks /\ at[<<"ustack", 0>>] # NULL
           /\ k[at[<<"ustack", 0>>]] = "free"
           /\ \A y \in StackObjects(m) : y[1] \in Kinds \ {"free"}
<1>1. <<"ustack", 0>> \in StackObjects(m)
  BY DEF StackObjects, Of, Sole
<1>2. at[<<"ustack", 0>>] \in Blocks /\ k[at[<<"ustack", 0>>]] = "free"
  BY <1>1, AllocIs
<1>3. ASSUME NEW y \in StackObjects(m)  PROVE y[1] \in Kinds \ {"free"}
  <2>1. CASE y \in Of("ustack", Sole)
    <3>1. y[1] = "ustack"
      BY <2>1, InOf
    <3> QED  BY <3>1 DEF Kinds
  <2>2. CASE y \in Of("table", StackTables(m))
    <3>1. y[1] = "table"
      BY <2>2, InOf
    <3> QED  BY <3>1 DEF Kinds
  <2> QED  BY <2>1, <2>2 DEF StackObjects
<1> QED  BY <1>2, <1>3, AddressSpaceAssumption

\* The old stack and buf are given back, the new stack and its tables are held.
LEMMA StackInv ==
    ASSUME IInv, mode = "replaced",
           NEW at \in Placements(StackObjects(mm[current]),
                                 Dealloc({own[current].ustack}, kind)),
           NEW x \in Values, Stacked(at, x)
    PROVE  IInv'
<1> DEFINE m == mm[current]
           u == own[current].ustack
           stack == at[<<"ustack", 0>>]
           n == MapStack(m, stack, at)
           U == {u}
           k == Dealloc(U, kind)
           objects == StackObjects(m)
           S == Of("ustack", Sole)
           T == Of("table", StackTables(m))
           hU == <<current, "ustack", 0, u>>
           new == <<current, "ustack", 0, stack>>
           buf == <<NULL, "buf", 0, loading.buf>>
           F == {loading.buf}
           G == {h \in Holdings : h # hU}
           J == G \cup New(current, at, objects)
           L == {h \in J : h # buf}
<1>1. /\ Types /\ Shapes /\ Kept(Holdings, kind) /\ Stacks /\ Hart /\ SatpExact
  BY DEF IInv
<1>2. current # idle
  BY <1>1 DEF Hart
<1>3. current \in Living /\ current \in Mapped /\ current \in Procs /\ WellFormed(m)
      /\ idle \notin Procs
  BY <1>2, CurrentLives
<1>4. /\ kind' = Dealloc(F, Alloc(at, k))
      /\ own' = [own EXCEPT ![current].ustack = stack]
      /\ mm' = [mm EXCEPT ![current] = n]
      /\ content' = [Cleared(U) EXCEPT ![stack] = x]
      /\ loading' = NULL /\ mode' = "run"
      /\ UNCHANGED <<cx_satp, satp, current, state>>
  BY DEF Stacked
<1>5. Living' = Living /\ Mapped' = Mapped
  BY <1>4 DEF Living, Mapped
<1>6. Living \subseteq Procs /\ Mapped \subseteq Contexts
  BY DEF Living, Mapped, Contexts
<1>7. /\ stack \in Blocks /\ stack # NULL /\ k[stack] = "free"
      /\ \A y \in objects : y[1] \in Kinds \ {"free"}
  BY StackFacts
<1>8. /\ DOMAIN mm' = Contexts /\ mm' = [p \in Contexts |-> mm'[p]]
      /\ mm'[current] = n /\ \A p \in Contexts \ {current} : mm'[p] = mm[p]
  BY <1>1, <1>3, <1>4 DEF Shapes, Contexts
<1>9. /\ own' = [p \in Procs |-> own'[p]]
      /\ own'[current] = [own[current] EXCEPT !.ustack = stack]
      /\ \A p \in Procs \ {current} : own'[p] = own[p]
  BY <1>1, <1>3, <1>4 DEF Shapes
<1>10. /\ own'[current].pcb = own[current].pcb /\ own'[current].kstack = own[current].kstack
       /\ own'[current].ustack = stack
       /\ own'[current] = [pcb |-> own'[current].pcb, kstack |-> own'[current].kstack,
                           ustack |-> own'[current].ustack]
  <2> DEFINE r == own[current]
  <2>1. r = [pcb |-> r.pcb, kstack |-> r.kstack, ustack |-> r.ustack]
    BY <1>1, <1>3 DEF Shapes
  <2>2. own'[current] = [pcb |-> r.pcb, kstack |-> r.kstack, ustack |-> stack]
    BY <1>9, <2>1
  <2> HIDE DEF stack
  <2> QED  BY <2>2
<1>11. USER_STACK \notin DOMAIN m.pte
  BY <1>1 DEF Stacks
<1>12. at \in Placements(objects, k)
  OBVIOUS
<1> HIDE DEF m, stack
<1>30. n = MapStack(m, stack, at)
  OBVIOUS
<1> HIDE DEF n
<1>13. /\ \A h : h \in MapHoldings(current, n) <=>
                    h \in MapHoldings(current, m) \/ h \in New(current, at, T)
       /\ WellFormed(n) /\ n.root = m.root
       /\ DOMAIN n.pte = DOMAIN m.pte \cup {USER_STACK} /\ n.pte[USER_STACK] = stack
  <2>1. WellFormed(m) /\ USER_STACK \notin DOMAIN m.pte /\ stack # NULL
    BY <1>3, <1>7, <1>11
  <2>2. StackFor(n, m, stack, at, current)
    BY <1>30, <2>1, StackMap
  <2> QED  BY <2>2 DEF StackFor
<1>14. \A h : h \in New(current, at, S) <=> h = new
  BY InNewSole DEF stack
<1> HIDE DEF S, T, k, U, F
<1>15. \A h : h \in New(current, at, objects) <=> h = new \/ h \in New(current, at, T)
  <2>1. objects = S \cup T
    BY DEF StackObjects, S, T
  <2>2. \A h : h \in New(current, at, S \cup T) <=>
                   h \in New(current, at, S) \/ h \in New(current, at, T)
    BY InNewUnion
  <2> QED  BY <1>14, <2>1, <2>2
<1> HIDE DEF objects
<1>16. /\ buf[1] = NULL /\ buf[2] = "buf" /\ buf[4] = loading.buf
       /\ new[1] = current /\ new[2] = "ustack"
       /\ hU[1] = current /\ hU[2] = "ustack" /\ hU[4] = u
  OBVIOUS
<1>17. LoadHoldings = {buf}
  BY BufLoad
<1>18. LoadHoldings' = {}
  BY <1>4 DEF LoadHoldings
<1>19. hU \in Holdings
  BY <1>3, StackHeld
<1>20. Kept(J, Alloc(at, k))
  <2>1. Kept(G, k)
    <3>1. \A h \in G : h[4] \notin U
      BY <1>1, <1>16, <1>19 DEF Kept, U
    <3>2. \A h \in Holdings \ G : h[2] \in Frames => h[4] \in U
      BY <1>16 DEF U
    <3>3. G \in SUBSET Holdings
      OBVIOUS
    <3> HIDE DEF G
    <3>4. Kept(G, Dealloc(U, kind))
      BY <1>1, <3>1, <3>2, <3>3, KeptLess
    <3> QED  BY <3>4 DEF k
  <2> HIDE DEF G
  <2>2. objects \in SUBSET objects /\ \A y \in objects : y[1] # "free"
    BY <1>7
  <2> QED  BY <1>12, <2>1, <2>2, KeptNew
<1>21. buf \in J
  BY <1>16, <1>17, InHoldings
<1>22. Kept(L, kind')
  <2>1. \A h \in L : h[4] \notin F
    BY <1>16, <1>20, <1>21 DEF Kept, F
  <2>2. \A h \in J \ L : h[2] \in Frames => h[4] \in F
    BY <1>16 DEF F
  <2>3. L \in SUBSET J
    OBVIOUS
  <2> DEFINE c == Alloc(at, k)
  <2>4. Kept(J, c)
    BY <1>20
  <2> HIDE DEF L, J, c
  <2>5. Kept(L, Dealloc(F, c))
    BY <2>1, <2>2, <2>3, <2>4, KeptLess
  <2> QED  BY <1>4, <2>5 DEF c
<1>23. ASSUME NEW h
       PROVE  h \in Holdings' <=> h \in L
  <2>1. h \in Holdings <=> \/ \E p \in Mapped : h \in MapHoldings(p, mm[p])
                           \/ \E p \in Living : h \in OwnHoldings(p, own[p])
                           \/ h = buf
    BY <1>17, InHoldings
  <2>2. h \in Holdings' <=> \/ \E p \in Mapped : h \in MapHoldings(p, mm'[p])
                            \/ \E p \in Living : h \in OwnHoldings(p, own'[p])
    BY <1>5, <1>18 DEF Holdings
  <2>3. (\E p \in Mapped : h \in MapHoldings(p, mm'[p])) <=>
            (\E p \in Mapped : h \in MapHoldings(p, mm[p])) \/ h \in New(current, at, T)
    BY <1>3, <1>6, <1>8, <1>13 DEF m
  <2>4. \A p \in Mapped : h \in MapHoldings(p, mm[p]) => h # hU /\ h # buf
    BY <1>16, MapHolder
  <2>5. \A p \in Living : h \in OwnHoldings(p, own[p]) => h # buf /\ (h = hU => p = current)
    BY <1>16, OwnHolder
  <2>6. h \in New(current, at, T) => h # buf
    <3>1. New(current, at, T) \subseteq MapHoldings(current, n)
      BY <1>13
    <3> QED  BY <1>16, <3>1, MapHolder
  <2>7. h \in OwnHoldings(current, own'[current]) <=>
            (h \in OwnHoldings(current, own[current]) /\ h # hU) \/ h = new
    <3>1. h \in OwnHoldings(current, own'[current]) <=>
              \/ h = <<current, "pcb", 0, own[current].pcb>>
              \/ h = <<current, "kstack", 0, own[current].kstack>>
              \/ h = new
      BY <1>10, InOwnHoldings
    <3>2. h \in OwnHoldings(current, own[current]) <=>
              \/ h = <<current, "pcb", 0, own[current].pcb>>
              \/ h = <<current, "kstack", 0, own[current].kstack>>
              \/ h = hU
      BY InOwnHoldings
    <3>3. /\ hU # <<current, "pcb", 0, own[current].pcb>>
          /\ hU # <<current, "kstack", 0, own[current].kstack>>
      OBVIOUS
    <3> HIDE DEF hU, new
    <3> QED  BY <3>1, <3>2, <3>3
  <2>8. (\E p \in Living : h \in OwnHoldings(p, own'[p])) <=>
            ((\E p \in Living : h \in OwnHoldings(p, own[p])) /\ h # hU) \/ h = new
    <3> HIDE DEF hU, new, buf
    <3> QED  BY <1>3, <1>6, <1>9, <2>5, <2>7
  <2>9. new # buf /\ buf # hU
    BY <1>16
  <2> HIDE DEF hU, new, buf
  <2> QED  BY <1>15, <2>1, <2>2, <2>3, <2>4, <2>5, <2>6, <2>8, <2>9
<1> HIDE DEF L, J, G, hU, new, buf
<1>24. Kept(Holdings', kind')
  <2>1. Holdings' = L
    BY <1>23
  <2> QED  BY <1>22, <2>1
<1>25. Types'
  <2>1. kind' \in [Blocks -> Kinds]
    <3>1. k \in [Blocks -> Kinds]
      BY <1>1, DeallocTyped DEF Types, Kinds, k
    <3>2. Alloc(at, k) \in [Blocks -> Kinds]
      BY <1>7, <1>12, <3>1, AllocTyped
    <3> QED  BY <1>4, <3>2, DeallocTyped
  <2>2. content' \in [Blocks -> Values \cup {NULL}]
    <3>1. Cleared(U) \in [Blocks -> Values \cup {NULL}]
      BY <1>1, ClearedTyped DEF Types
    <3> QED  BY <1>4, <3>1
  <2>3. \A p \in Procs \ Living : mm'[p] = NULL /\ own'[p] = NULL
    BY <1>1, <1>3, <1>8, <1>9 DEF Types, Contexts
  <2> QED  BY <1>1, <1>4, <1>5, <2>1, <2>2, <2>3 DEF Types, Kinds
<1>26. Shapes'
  <2>1. \A p \in Mapped : WellFormed(mm'[p])
    BY <1>1, <1>6, <1>8, <1>13 DEF Shapes
  <2>2. \A p \in Living :
            own'[p] = [pcb |-> own'[p].pcb, kstack |-> own'[p].kstack,
                       ustack |-> own'[p].ustack]
    BY <1>1, <1>6, <1>9, <1>10 DEF Shapes
  <2> QED  BY <1>1, <1>4, <1>5, <1>8, <1>9, <2>1, <2>2 DEF Shapes
<1>27. Stacks'
  <2>1. USER_STACK \in DOMAIN mm'[current].pte
        /\ mm'[current].pte[USER_STACK] = own'[current].ustack
    BY <1>8, <1>10, <1>13
  <2>2. \A p \in Living \ {current} : mm'[p] = mm[p] /\ own'[p] = own[p]
    BY <1>6, <1>8, <1>9 DEF Contexts
  <2> QED  BY <1>1, <1>4, <1>5, <2>1, <2>2 DEF Stacks
<1>28. Hart' /\ Loaded'
  BY <1>1, <1>4 DEF Hart, Loaded
<1>29. SatpExact'
  <2>1. satp = m.root
    BY <1>1 DEF SatpExact, m
  <2>2. kind'[satp] = "root"
    <3> DEFINE h == <<current, "root", 0, n.root>>
    <3>1. h \in MapHoldings(current, n) /\ h[4] = satp /\ h[2] = "root"
      BY <1>13, <2>1, InMapHoldings
    <3> HIDE DEF h
    <3>2. h \in Holdings'
      BY <1>3, <1>5, <1>8, <3>1 DEF Holdings
    <3> QED  BY <1>24, <3>1, <3>2 DEF Kept
  <2>3. \A p \in Mapped \ {current} :
            (p # idle => state[p] = "live") => cx_satp[p] = mm'[p].root
    BY <1>1, <1>6, <1>8 DEF SatpExact
  <2> QED  BY <1>4, <1>5, <1>8, <1>13, <2>1, <2>2, <2>3 DEF SatpExact
<1> QED  BY <1>24, <1>25, <1>26, <1>27, <1>28, <1>29 DEF IInv

-----------------------------------------------------------------------------
(* Boot                                                                    *)

\* What init_process() has built.
Booted(elf, x, at0, at, m) ==
    /\ kind = Alloc(at, Alloc(at0, FreeBlocks))
    /\ content = Filled([b \in Blocks |-> NULL], m, With(Data(elf), USER_STACK, x))
    /\ mm = [p \in Contexts |->
          CASE p = init -> m
            [] p = idle -> MemoryMap(Kernel, Kernel, at0)
            [] OTHER -> NULL]
    /\ own = [p \in Procs |-> IF p = init THEN Owning(at) ELSE NULL]
    /\ cx_satp = [p \in Contexts |-> IF p = init THEN m.root ELSE NULL]
    /\ satp = at0[<<"root", 0>>]
    /\ current = idle
    /\ state = [p \in Procs |-> IF p = init THEN "live" ELSE "unused"]
    /\ loading = NULL
    /\ mode = "run"

\* init_process() has built two address spaces and the init process.
LEMMA InitCases ==
    ASSUME Init
    PROVE  \E elf \in Loadable, x \in Values, at0 \in Placements(Objects(Kernel), FreeBlocks) :
           \E at \in Placements(ProcessObjects(ElfSegs(elf)), Alloc(at0, FreeBlocks)) :
              Booted(elf, x, at0, at,
                     MapStack(MemoryMap(ElfSegs(elf), ElfSegs(elf), at),
                              at[<<"ustack", 0>>], at))
  BY DEF Init, Booted

\* What the pages of the init process hold.
LEMMA ImageTyped ==
    ASSUME NEW elf \in Loadable, NEW x \in Values
    PROVE  /\ DOMAIN With(Data(elf), USER_STACK, x) = ElfPages(elf) \cup {USER_STACK}
           /\ With(Data(elf), USER_STACK, x)[USER_STACK] = x
           /\ \A v \in ElfPages(elf) : With(Data(elf), USER_STACK, x)[v] = Data(elf)[v]
           /\ \A v \in ElfPages(elf) \cup {USER_STACK} :
                 With(Data(elf), USER_STACK, x)[v] \in Values
<1>1. /\ DOMAIN Data(elf) = ElfPages(elf) /\ \A v \in ElfPages(elf) : Data(elf)[v] \in Values
      /\ USER_STACK \notin ElfPages(elf)
  BY DataTyped, Pages
<1> QED  BY <1>1 DEF With

\* The first state has the invariant.
LEMMA InitInv ==
    ASSUME Init  PROVE IInv
<1>0. PICK elf \in Loadable, x \in Values, at0 \in Placements(Objects(Kernel), FreeBlocks) :
          \E at \in Placements(ProcessObjects(ElfSegs(elf)), Alloc(at0, FreeBlocks)) :
              Booted(elf, x, at0, at,
                     MapStack(MemoryMap(ElfSegs(elf), ElfSegs(elf), at),
                              at[<<"ustack", 0>>], at))
  BY InitCases
<1>1. PICK at \in Placements(ProcessObjects(ElfSegs(elf)), Alloc(at0, FreeBlocks)) :
              Booted(elf, x, at0, at,
                     MapStack(MemoryMap(ElfSegs(elf), ElfSegs(elf), at),
                              at[<<"ustack", 0>>], at))
  BY <1>0
<1> DEFINE segs == ElfSegs(elf)
           m0 == MemoryMap(Kernel, Kernel, at0)
           m == MapStack(MemoryMap(segs, segs, at), at[<<"ustack", 0>>], at)
           K0 == Alloc(at0, FreeBlocks)
           A == MapObjects(Kernel, Kernel)
           H0 == New(idle, at0, A)
           data == With(Data(elf), USER_STACK, x)
<1>2. idle \notin Procs /\ init \in Procs /\ init # idle /\ NULL \notin Blocks
  BY AddressSpaceAssumption
<1>3. /\ kind = Alloc(at, K0)
      /\ content = Filled([b \in Blocks |-> NULL], m, data)
      /\ own = [p \in Procs |-> IF p = init THEN Owning(at) ELSE NULL]
      /\ cx_satp = [p \in Contexts |-> IF p = init THEN m.root ELSE NULL]
      /\ satp = at0[<<"root", 0>>] /\ current = idle
      /\ state = [p \in Procs |-> IF p = init THEN "live" ELSE "unused"]
      /\ loading = NULL /\ mode = "run"
  BY <1>1 DEF Booted
<1>4. mm = [p \in Contexts |-> CASE p = init -> m [] p = idle -> m0 [] OTHER -> NULL]
  BY <1>1 DEF Booted
<1>5. /\ mm = [p \in Contexts |-> mm[p]] /\ mm[init] = m /\ mm[idle] = m0
      /\ \A p \in Procs \ {init} : mm[p] = NULL
  <2> HIDE DEF m, m0
  <2> QED  BY <1>2, <1>4 DEF Contexts
<1>6. \A p : (p \in Living <=> p = init) /\ (p \in Mapped <=> p = init \/ p = idle)
  BY <1>2, <1>3 DEF Living, Mapped
<1>7. Proper(Kernel) /\ Proper(segs) /\ PagesOf(segs) = KernelPages \cup ElfPages(elf)
      /\ FramedPages(Kernel) = {} /\ FramedPages(segs) = ElfPages(elf)
      /\ PagesOf(Kernel) = KernelPages
  <2>1. \A s \in Kernel : s \in segs
    BY DEF ElfSegs
  <2> QED  BY <2>1, LoadedSegs DEF Proper
<1>8. WellFormed(m0) /\ MadeFor(m0, Kernel, Kernel, at0)
      /\ \A h : h \in MapHoldings(idle, m0) <=> h \in H0
  BY <1>7, NewMap, NewMapFormed
<1>9. Kept(H0, K0)
  <2>1. Kept({}, FreeBlocks)
    BY DEF Kept, FreeBlocks, Frames
  <2>2. A = Objects(Kernel)
    BY DEF MapObjects, Objects
  <2>3. \A y \in A : y[1] # "free"
    BY <2>2, MapObjectsOf
  <2> DEFINE E == {}
  <2>4. Kept(E, FreeBlocks)
    BY <2>1
  <2>5. at0 \in Placements(A, FreeBlocks) /\ A \in SUBSET A
    BY <2>2
  <2> HIDE DEF E, A
  <2>6. Kept(E \cup H0, K0)
    BY <2>3, <2>4, <2>5, KeptNew
  <2>7. E \cup H0 = H0
    BY DEF E
  <2> QED  BY <2>6, <2>7
<1> HIDE DEF H0, A, m0
<1>10. ASSUME NEW h
       PROVE  h \in Holdings <=> \/ h \in H0
                                 \/ h \in MapHoldings(init, m)
                                 \/ h \in OwnHoldings(init, Owning(at))
  <2>1. LoadHoldings = {}
    BY <1>3 DEF LoadHoldings
  <2>2. own[init] = Owning(at)
    BY <1>2, <1>3
  <2> HIDE DEF m
  <2> QED  BY <1>5, <1>6, <1>8, <2>1, <2>2, InHoldings
<1>11. Kept(Holdings, kind) /\ ProcessFor(m, segs, at)
  <2>1. segs \in SUBSET segs /\ at \in Placements(ProcessObjects(segs), K0)
        /\ \A s \in segs : s.type = "Framed" => s \in segs
    OBVIOUS
  <2>2. m = MapStack(MemoryMap(segs, segs, at), at[<<"ustack", 0>>], at)
    OBVIOUS
  <2> HIDE DEF segs, K0, m
  <2> QED  BY <1>3, <1>7, <1>9, <1>10, <2>1, <2>2, NewProcess
<1> HIDE DEF m
<1>12. Types
  <2>1. kind \in [Blocks -> Kinds]
    <3>1. FreeBlocks \in [Blocks -> Kinds]
      BY DEF FreeBlocks, Kinds
    <3>2. \A y \in Objects(Kernel) : y[1] \in Kinds
      BY MapObjectsOf
    <3>3. K0 \in [Blocks -> Kinds]
      BY <3>1, <3>2, AllocTyped
    <3>4. \A y \in ProcessObjects(segs) : y[1] \in Kinds
      BY ProcessObjectsOf
    <3> HIDE DEF K0, segs
    <3>5. at \in Placements(ProcessObjects(segs), K0)
      BY <1>1 DEF K0, segs
    <3> QED  BY <1>3, <3>3, <3>4, <3>5, AllocTyped
  <2>2. content \in [Blocks -> Values \cup {NULL}]
    <3> DEFINE c == [b \in Blocks |-> NULL]
    <3>1. c \in [Blocks -> Values \cup {NULL}]
      OBVIOUS
    <3>2. \A v \in DOMAIN data : data[v] \in Values \cup {NULL}
      BY ImageTyped
    <3>3. content = Filled(c, m, data)
      BY <1>3
    <3> HIDE DEF c, data
    <3> QED  BY <3>1, <3>2, <3>3, FilledTyped
  <2> QED  BY <1>2, <1>3, <1>5, <1>6, <2>1, <2>2 DEF Types, Kinds, Contexts
<1>13. Shapes
  <2>1. \A p \in Mapped : WellFormed(mm[p])
    BY <1>5, <1>6, <1>8, <1>11 DEF ProcessFor
  <2>2. own[init] = Owning(at)
    BY <1>2, <1>3
  <2>3. own[init] = [pcb |-> own[init].pcb, kstack |-> own[init].kstack,
                     ustack |-> own[init].ustack]
    BY <2>2 DEF Owning
  <2>4. own = [p \in Procs |-> own[p]] /\ cx_satp = [p \in Contexts |-> cx_satp[p]]
    BY <1>3
  <2> QED  BY <1>3, <1>5, <1>6, <2>1, <2>3, <2>4 DEF Shapes
<1>14. Stacks
  <2>1. own[init].ustack = at[<<"ustack", 0>>]
    BY <1>2, <1>3 DEF Owning
  <2>2. USER_STACK \in DOMAIN m.pte /\ m.pte[USER_STACK] = at[<<"ustack", 0>>]
    BY <1>11 DEF ProcessFor
  <2> QED  BY <1>3, <1>5, <1>6, <2>1, <2>2 DEF Stacks
<1>15. Hart /\ Loaded
  BY <1>3 DEF Hart, Loaded
<1>16. SatpExact
  <2>1. satp = m0.root
    BY <1>3, <1>8 DEF MadeFor
  <2>2. kind[satp] = "root"
    <3> DEFINE h == <<idle, "root", 0, m0.root>>
    <3>1. h \in MapHoldings(idle, m0) /\ h[4] = satp /\ h[2] = "root"
      BY <2>1, InMapHoldings
    <3> HIDE DEF h
    <3>2. h \in Holdings
      BY <1>8, <1>10, <3>1
    <3> QED  BY <1>11, <3>1, <3>2 DEF Kept
  <2>3. cx_satp[init] = m.root
    BY <1>2, <1>3 DEF Contexts
  <2> QED  BY <1>3, <1>5, <1>6, <2>1, <2>2, <2>3 DEF SatpExact
<1> QED  BY <1>11, <1>12, <1>13, <1>14, <1>15, <1>16 DEF IInv

-----------------------------------------------------------------------------
(* The theorems                                                            *)

\* Every step keeps the inductive invariant.
LEMMA StepInv ==
    ASSUME IInv, [Next]_vars  PROVE IInv'
<1>1. CASE Dispatch
  BY <1>1, DispatchInv
<1>2. CASE yield
  BY <1>2, YieldInv
<1>3. CASE exit_current
  BY <1>3, ExitInv
<1>4. CASE Store
  BY <1>4, StoreInv
<1>5. CASE sys_fork
  BY <1>5, ForkCases, ForkInv, PanicInv
<1>6. CASE sys_exec
  <2>1. CASE exec_load
    BY <2>1, LoadCases, LoadInv, PanicInv
  <2>2. CASE exec_activate
    BY <2>2, ActivateInv
  <2>3. CASE exec_replace
    BY <2>3, ReplaceInv
  <2>4. CASE exec_stack
    BY <2>4, StackCases, StackInv, PanicInv
  <2> QED  BY <1>6, <2>1, <2>2, <2>3, <2>4 DEF sys_exec
<1>7. CASE sys_wait
  BY <1>7, WaitCases, WaitInv
<1>8. CASE UNCHANGED vars
  <2>1. UNCHANGED <<kind, content, mm, own, cx_satp, satp, current, state, loading, mode>>
    BY <1>8 DEF vars
  <2>2. Living' = Living /\ LoadHoldings' = LoadHoldings
    BY <2>1 DEF Living, LoadHoldings
  <2>3. Holdings' = Holdings /\ Mapped' = Mapped
    BY <2>1, <2>2, SameHoldings
  <2>4. Types' /\ Shapes' /\ Kept(Holdings, kind)'
    BY <2>1, <2>2, <2>3 DEF IInv, Types, Shapes
  <2>5. Stacks' /\ Hart' /\ SatpExact' /\ Loaded'
    BY <2>1, <2>2, <2>3 DEF IInv, Stacks, Hart, SatpExact, Loaded
  <2> QED  BY <2>4, <2>5 DEF IInv
<1> QED  BY <1>1, <1>2, <1>3, <1>4, <1>5, <1>6, <1>7, <1>8 DEF Next

\* IInv holds at each step of every sequence of forks, execs, stores, exits,
\* reaps and switches, up to and including those on which alloc() panics.
THEOREM Invariance == Spec => []IInv
<1>1. Init => IInv
  BY InitInv
<1>2. IInv /\ [Next]_vars => IInv'
  BY StepInv
<1> QED  BY <1>1, <1>2, PTL DEF Spec

\* Memory maps, blocks and registers have their types: mapping.c keeps the
\* tables of an address space those of the pages it maps.
THEOREM Typed == Spec => []TypeOK
  BY Invariance, Consequences, PTL

\* No block serves two purposes: what fork and exec take from alloc() is
\* nobody else's until exec and wait have given it back.
THEOREM BlocksHaveOneOwner == Spec => []OneOwner
  BY Invariance, Consequences, PTL

\* dealloc_memory_map() and sys_wait() give back every page table and page.
THEOREM FramesGoBack == Spec => []FramesReturned
  BY Invariance, Consequences, PTL

\* The hart translates with the root table of whose it executes, which is
\* allocated, in the middle of sys_exec() too.
THEOREM SatpStaysExact == Spec => []SatpExact
  BY Invariance, Consequences, PTL

-----------------------------------------------------------------------------
(* Programs see private memories                                           *)

\* What p sees.
Seen(p) == [v \in UserPages \cap DOMAIN mm[p].pte |-> content[mm[p].pte[v]]]

\* The memory a process sees, by process.
LEMMA MemoryIs == Memory = [p \in Living |-> Seen(p)]
  BY DEF Memory, Seen

\* A user page of a process is in a block that is allocated for it.
LEMMA UserBlock ==
    ASSUME IInv, NEW p \in Living, NEW v \in UserPages, v \in DOMAIN mm[p].pte
    PROVE  /\ mm[p].pte[v] \in Blocks /\ kind[mm[p].pte[v]] \in {"page", "ustack"}
           /\ \E h \in Holdings : /\ h[1] = p /\ h[4] = mm[p].pte[v]
                                  /\ v = USER_STACK => h[2] = "ustack"
                                  /\ v # USER_STACK => h[2] = "page" /\ h[3] = v
<1>1. p \in Mapped /\ WellFormed(mm[p]) /\ Stacks
  BY DEF IInv, Mapped, Shapes
<1>2. CASE v = USER_STACK
  <2> DEFINE h == <<p, "ustack", 0, own[p].ustack>>
  <2>1. mm[p].pte[v] = own[p].ustack
    BY <1>1, <1>2 DEF Stacks
  <2>2. h \in Holdings /\ h[1] = p /\ h[4] = mm[p].pte[v] /\ h[2] = "ustack"
    BY <2>1, StackHeld
  <2> HIDE DEF h
  <2>3. h[4] \in Blocks /\ kind[h[4]] = h[2]
    BY <2>2 DEF IInv, Kept
  <2> QED  BY <1>2, <2>2, <2>3
<1>3. CASE v # USER_STACK
  <2> DEFINE h == <<p, "page", v, mm[p].pte[v]>>
  <2>1. v \in FramedPages(mm[p].segs)
    BY <1>1, <1>3 DEF WellFormed
  <2>2. /\ h \in Holdings /\ h[1] = p /\ h[4] = mm[p].pte[v]
        /\ h[2] = "page" /\ h[3] = v
    BY <1>1, <2>1, PageHeld
  <2> HIDE DEF h
  <2>3. h[4] \in Blocks /\ kind[h[4]] = h[2]
    BY <2>2 DEF IInv, Kept
  <2> QED  BY <1>3, <2>2, <2>3
<1> QED  BY <1>2, <1>3

\* No two pages of processes are in one block.
LEMMA UserBlocksDiffer ==
    ASSUME IInv, NEW p \in Living, NEW v \in UserPages, v \in DOMAIN mm[p].pte,
           NEW q \in Living, NEW w \in UserPages, w \in DOMAIN mm[q].pte,
           mm[p].pte[v] = mm[q].pte[w]
    PROVE  p = q /\ v = w
<1>1. PICK g \in Holdings : /\ g[1] = p /\ g[4] = mm[p].pte[v]
                            /\ v = USER_STACK => g[2] = "ustack"
                            /\ v # USER_STACK => g[2] = "page" /\ g[3] = v
  BY UserBlock
<1>2. PICK h \in Holdings : /\ h[1] = q /\ h[4] = mm[q].pte[w]
                            /\ w = USER_STACK => h[2] = "ustack"
                            /\ w # USER_STACK => h[2] = "page" /\ h[3] = w
  BY UserBlock
<1>3. g = h
  BY <1>1, <1>2 DEF IInv, Kept
<1> QED  BY <1>1, <1>2, <1>3

\* Whose memory map and blocks stay what they are sees what he saw.
LEMMA StillSeen ==
    ASSUME NEW p, mm'[p] = mm[p],
           \A v \in UserPages \cap DOMAIN mm[p].pte :
              content'[mm[p].pte[v]] = content[mm[p].pte[v]]
    PROVE  Seen(p)' = Seen(p)
  BY DEF Seen

\* Steps that change neither who lives nor what anybody sees.
LEMMA MemoryStays ==
    ASSUME Living' = Living, \A p \in Living : Seen(p)' = Seen(p)
    PROVE  Memory' = Memory
<1>1. Memory' = [p \in Living' |-> Seen(p)']
  BY DEF Memory, Seen
<1>2. Memory = [p \in Living |-> Seen(p)]
  BY MemoryIs
<1> QED  BY <1>1, <1>2

\* Steps that leave maps and contents alone.
LEMMA SameMemory ==
    ASSUME UNCHANGED <<mm, content>>, Living' = Living
    PROVE  Memory' = Memory
  BY DEF Memory

\* A new process: its pages are in free blocks, each in its own.
LEMMA ProcessPlaced ==
    ASSUME NEW segs, Proper(segs), NEW k, NEW at \in Placements(ProcessObjects(segs), k),
           NEW m, ProcessFor(m, segs, at)
    PROVE  /\ UserPages \cap DOMAIN m.pte = FramedPages(segs) \cup {USER_STACK}
           /\ \A v \in FramedPages(segs) \cup {USER_STACK} :
                 m.pte[v] \in Blocks /\ k[m.pte[v]] = "free"
           /\ \A v, w \in FramedPages(segs) \cup {USER_STACK} :
                 m.pte[v] = m.pte[w] => v = w
<1> DEFINE F == FramedPages(segs)
           objects == ProcessObjects(segs)
           s == <<"ustack", 0>>
<1>1. /\ \A v \in F : <<"page", v>> \in objects /\ <<"page", v>> # s
      /\ s \in objects
  <2>1. \A v \in F : <<"page", v>> \in Objects(segs)
    BY MapObjectsOf
  <2>2. /\ Objects(segs) \subseteq objects /\ Owned \subseteq objects /\ s \in Owned
    BY ProcessObjectsOf
  <2> QED  BY <2>1, <2>2
<1>2. /\ m.pte[USER_STACK] = at[s] /\ \A v \in F : m.pte[v] = at[<<"page", v>>]
      /\ DOMAIN m.pte = PagesOf(segs) \cup {USER_STACK}
  BY DEF ProcessFor
<1>3. UserPages \cap DOMAIN m.pte = F \cup {USER_STACK}
  BY <1>2, ProperPages, Pages
<1>4. USER_STACK \notin F
  BY ProperPages
<1> HIDE DEF F, objects, s
<1>5. at \in Placements(objects, k)
  BY DEF objects
<1>6. /\ \A v \in F : at[<<"page", v>>] \in Blocks /\ k[at[<<"page", v>>]] = "free"
      /\ \A v, w \in F : at[<<"page", v>>] = at[<<"page", w>>] => v = w
  BY <1>1, <1>5, PagesPlaced
<1>7. at[s] \in Blocks /\ k[at[s]] = "free"
  BY <1>1, <1>5, AllocIs
<1>8. ASSUME NEW v \in F  PROVE at[<<"page", v>>] # at[s]
  BY <1>1, <1>5, AllocIs
<1>9. ASSUME NEW v \in F \cup {USER_STACK}, NEW w \in F \cup {USER_STACK},
             m.pte[v] = m.pte[w]
      PROVE  v = w
  BY <1>2, <1>6, <1>8, <1>9
<1>10. \A v \in F \cup {USER_STACK} : m.pte[v] \in Blocks /\ k[m.pte[v]] = "free"
  BY <1>2, <1>6, <1>7
<1> QED  BY <1>3, <1>9, <1>10 DEF F

\* Boot gives the init process its program and a stack.
LEMMA InitRefines ==
    ASSUME Init  PROVE VM!Init
<1>0. PICK elf \in Loadable, x \in Values, at0 \in Placements(Objects(Kernel), FreeBlocks) :
          \E at \in Placements(ProcessObjects(ElfSegs(elf)), Alloc(at0, FreeBlocks)) :
              Booted(elf, x, at0, at,
                     MapStack(MemoryMap(ElfSegs(elf), ElfSegs(elf), at),
                              at[<<"ustack", 0>>], at))
  BY InitCases
<1>1. PICK at \in Placements(ProcessObjects(ElfSegs(elf)), Alloc(at0, FreeBlocks)) :
              Booted(elf, x, at0, at,
                     MapStack(MemoryMap(ElfSegs(elf), ElfSegs(elf), at),
                              at[<<"ustack", 0>>], at))
  BY <1>0
<1> DEFINE segs == ElfSegs(elf)
           m == MapStack(MemoryMap(segs, segs, at), at[<<"ustack", 0>>], at)
           k == Alloc(at0, FreeBlocks)
           c == [b \in Blocks |-> NULL]
           image == Data(elf)
           data == With(image, USER_STACK, x)
           F == ElfPages(elf)
<1>2. /\ content = Filled(c, m, data) /\ mm[init] = m
      /\ \A p : p \in Living <=> p = init
  <2>1. init \in Procs /\ init # idle
    BY AddressSpaceAssumption
  <2>2. /\ content = Filled(c, m, data)
        /\ state = [p \in Procs |-> IF p = init THEN "live" ELSE "unused"]
    BY <1>1 DEF Booted
  <2>3. mm = [p \in Contexts |-> CASE p = init -> m
                                  [] p = idle -> MemoryMap(Kernel, Kernel, at0)
                                  [] OTHER -> NULL]
    BY <1>1 DEF Booted
  <2> HIDE DEF m
  <2>4. mm[init] = m
    BY <2>1, <2>3 DEF Contexts
  <2>5. \A p : p \in Living <=> p = init
    BY <2>1, <2>2 DEF Living
  <2> QED  BY <2>2, <2>4, <2>5
<1>3. Proper(segs) /\ FramedPages(segs) = F
  BY LoadedSegs DEF Proper
<1>4. ProcessFor(m, segs, at)
  <2>1. segs \in SUBSET segs /\ at \in Placements(ProcessObjects(segs), k)
        /\ \A s \in segs : s.type = "Framed" => s \in segs
    OBVIOUS
  <2>2. m = MapStack(MemoryMap(segs, segs, at), at[<<"ustack", 0>>], at)
    OBVIOUS
  <2> HIDE DEF segs, k, m
  <2> QED  BY <1>3, <2>1, <2>2, NewProcessFor
<1>5. at \in Placements(ProcessObjects(segs), k)
  OBVIOUS
<1> HIDE DEF segs, k, m
<1>6. /\ UserPages \cap DOMAIN m.pte = F \cup {USER_STACK}
      /\ \A v \in F \cup {USER_STACK} : m.pte[v] \in Blocks
      /\ \A v, w \in F \cup {USER_STACK} : m.pte[v] = m.pte[w] => v = w
  BY <1>3, <1>4, <1>5, ProcessPlaced
<1>7. DOMAIN data = F \cup {USER_STACK}
  BY ImageTyped
<1> HIDE DEF data, c
<1>8. \A v \in F \cup {USER_STACK} : content[m.pte[v]] = data[v]
  BY <1>2, <1>6, <1>7, FilledIs
<1>9. Seen(init) = data
  <2>1. Seen(init) = [v \in F \cup {USER_STACK} |-> content[m.pte[v]]]
    BY <1>2, <1>6 DEF Seen
  <2>2. data = [v \in F \cup {USER_STACK} |-> data[v]]
    BY <1>7 DEF data, With
  <2> QED  BY <1>8, <2>1, <2>2
<1>10. Memory = [p \in {init} |-> data]
  <2>1. Living = {init}
    BY <1>2
  <2> QED  BY <1>9, <2>1, MemoryIs
<1>11. data = VM!With(image, USER_STACK, x)
  BY DEF data, With, VM!With
<1>12. init \in Procs /\ image \in {Data(e) : e \in Loadable} /\ x \in Values
  BY AddressSpaceAssumption
<1> HIDE DEF image
<1> QED  BY <1>10, <1>11, <1>12 DEF VM!Init

\* A store implements Store: it reaches the memory of the process whose root
\* table satp names, in one place.
LEMMA StoreRefines ==
    ASSUME IInv, Store
    PROVE  \E p \in Procs : /\ p \in DOMAIN Memory
                            /\ \E v \in DOMAIN Memory[p], x \in Values : VM!Store(p, v, x)
<1>1. PICK p \in Living, v \in UserPages, x \in Values :
              /\ v \in DOMAIN mm[p].pte
              /\ content' = [content EXCEPT ![mm[p].pte[v]] = x]
              /\ UNCHANGED <<kind, mm, own, cx_satp, satp, current, state, loading, mode>>
  BY DEF Store
<1> DEFINE b == mm[p].pte[v]
<1>2. b \in Blocks /\ DOMAIN content = Blocks
  BY <1>1, UserBlock DEF IInv, Types
<1>3. content'[b] = x /\ \A d \in Blocks \ {b} : content'[d] = content[d]
  BY <1>1, <1>2
<1>4. Living' = Living
  BY <1>1 DEF Living
<1>5. ASSUME NEW q \in Living, q # p  PROVE Seen(q)' = Seen(q)
  <2>1. ASSUME NEW w \in UserPages \cap DOMAIN mm[q].pte
        PROVE  content'[mm[q].pte[w]] = content[mm[q].pte[w]]
    <3>1. mm[q].pte[w] # b /\ mm[q].pte[w] \in Blocks
      BY <1>1, <1>5, UserBlock, UserBlocksDiffer
    <3> QED  BY <1>3, <3>1
  <2> QED  BY <1>1, <2>1, StillSeen
<1>6. Seen(p)' = [Seen(p) EXCEPT ![v] = x]
  <2> DEFINE P == UserPages \cap DOMAIN mm[p].pte
  <2>1. Seen(p)' = [w \in P |-> content'[mm[p].pte[w]]]
    BY <1>1 DEF Seen
  <2>2. Seen(p) = [w \in P |-> content[mm[p].pte[w]]]
    BY DEF Seen
  <2>3. ASSUME NEW w \in P, w # v  PROVE content'[mm[p].pte[w]] = content[mm[p].pte[w]]
    <3>1. mm[p].pte[w] # b /\ mm[p].pte[w] \in Blocks
      BY <1>1, <2>3, UserBlock, UserBlocksDiffer
    <3> QED  BY <1>3, <3>1
  <2>4. v \in P
    BY <1>1
  <2> HIDE DEF P
  <2> QED  BY <1>3, <2>1, <2>2, <2>3, <2>4
<1>7. Memory = [q \in Living |-> Seen(q)] /\ Memory' = [q \in Living' |-> Seen(q)']
  BY MemoryIs DEF Memory, Seen
<1>8. v \in DOMAIN Seen(p) /\ p \in Procs
  BY <1>1 DEF Seen, Living
<1>9. Memory' = [Memory EXCEPT ![p][v] = x]
  BY <1>1, <1>4, <1>5, <1>6, <1>7
<1>10. p \in DOMAIN Memory /\ v \in DOMAIN Memory[p]
  BY <1>1, <1>7, <1>8
<1> QED  BY <1>1, <1>8, <1>9, <1>10 DEF VM!Store

\* sys_fork() implements Fork: the child sees a copy.
LEMMA ForkRefines ==
    ASSUME IInv, mode = "run", current # idle, NEW child \in Procs,
           NEW at \in Placements(ProcessObjects(mm[current].segs), kind),
           NEW dst, dst = MapStack(copy_mm(mm[current], at), at[<<"ustack", 0>>], at),
           Forked(child, at, dst)
    PROVE  current \in Procs /\ VM!Fork(current, child)
<1> DEFINE src == mm[current]
           segs == src.segs
           linked == {s \in segs : s.type = "Framed"}
           F == FramedPages(segs)
           data == Copied(src)
<1>1. /\ current \in Living /\ current \in Procs /\ Proper(segs) /\ WellFormed(src)
      /\ Stacks /\ Types /\ Shapes
  BY CurrentLives DEF IInv
<1>2. /\ state[child] = "unused" /\ state' = [state EXCEPT ![child] = "live"]
      /\ mm' = [mm EXCEPT ![child] = dst] /\ content' = Filled(content, dst, data)
  BY DEF Forked
<1>3. child \notin Living /\ \A p : p \in Living' <=> p \in Living \/ p = child
  BY <1>1, <1>2 DEF Living, Types
<1>4. mm'[child] = dst /\ \A p \in Living : mm'[p] = mm[p]
  BY <1>1, <1>2, <1>3 DEF Shapes, Contexts, Living
<1>5. ProcessFor(dst, segs, at)
  <2>1. linked \in SUBSET segs /\ \A s \in segs : s.type = "Framed" => s \in linked
    OBVIOUS
  <2>2. dst = MapStack(MemoryMap(segs, linked, at), at[<<"ustack", 0>>], at)
    BY DEF copy_mm
  <2> HIDE DEF segs, linked
  <2>3. at \in Placements(ProcessObjects(segs), kind)
    BY DEF segs
  <2> QED  BY <1>1, <2>1, <2>2, <2>3, NewProcessFor
<1>6. at \in Placements(ProcessObjects(segs), kind)
  OBVIOUS
<1>7. /\ DOMAIN data = F \cup {USER_STACK}
      /\ data[USER_STACK] = content[own[current].ustack]
      /\ \A v \in F : data[v] = content[src.pte[v]]
  BY CopiedTyped
<1>8. UserPages \cap DOMAIN src.pte = F \cup {USER_STACK}
  <2>1. USER_STACK \in DOMAIN src.pte /\ USER_STACK \in UserPages
    BY <1>1, Pages DEF Stacks
  <2> QED  BY <1>1, <2>1 DEF WellFormed
<1>9. src.pte[USER_STACK] = own[current].ustack
  BY <1>1 DEF Stacks
<1> HIDE DEF segs, data, linked
<1>10. /\ UserPages \cap DOMAIN dst.pte = F \cup {USER_STACK}
       /\ \A v \in F \cup {USER_STACK} : dst.pte[v] \in Blocks /\ kind[dst.pte[v]] = "free"
       /\ \A v, w \in F \cup {USER_STACK} : dst.pte[v] = dst.pte[w] => v = w
  BY <1>1, <1>5, <1>6, ProcessPlaced
<1> HIDE DEF F, src
<1>11. /\ \A v \in F \cup {USER_STACK} : content'[dst.pte[v]] = data[v]
       /\ \A b \in Blocks : kind[b] # "free" => content'[b] = content[b]
  <2>1. /\ \A v \in DOMAIN data : dst.pte[v] \in Blocks
        /\ \A v, w \in DOMAIN data : dst.pte[v] = dst.pte[w] => v = w
    BY <1>7, <1>10
  <2>2. /\ \A v \in DOMAIN data : Filled(content, dst, data)[dst.pte[v]] = data[v]
        /\ \A b \in Blocks : (\A v \in DOMAIN data : dst.pte[v] # b) =>
              Filled(content, dst, data)[b] = content[b]
    BY <2>1, FilledIs
  <2> QED  BY <1>2, <1>7, <1>10, <2>2
<1>12. ASSUME NEW p \in Living  PROVE Seen(p)' = Seen(p)
  <2>1. ASSUME NEW v \in UserPages \cap DOMAIN mm[p].pte
        PROVE  content'[mm[p].pte[v]] = content[mm[p].pte[v]]
    <3>1. mm[p].pte[v] \in Blocks /\ kind[mm[p].pte[v]] \in {"page", "ustack"}
      BY UserBlock
    <3> QED  BY <1>11, <3>1
  <2> QED  BY <1>4, <2>1, StillSeen
<1>13. Seen(child)' = Seen(current)
  <2>1. Seen(child)' = [v \in F \cup {USER_STACK} |-> content'[dst.pte[v]]]
    BY <1>4, <1>10 DEF Seen
  <2>2. Seen(current) = [v \in F \cup {USER_STACK} |-> content[src.pte[v]]]
    BY <1>8 DEF Seen, src
  <2>3. \A v \in F \cup {USER_STACK} : content'[dst.pte[v]] = content[src.pte[v]]
    BY <1>7, <1>9, <1>11
  <2> QED  BY <2>1, <2>2, <2>3
<1>14. Memory = [p \in Living |-> Seen(p)] /\ Memory' = [p \in Living' |-> Seen(p)']
  BY MemoryIs DEF Memory, Seen
<1>15. Memory' = VM!With(Memory, child, Memory[current])
  <2>1. Living' = Living \cup {child}
    BY <1>3
  <2>2. DOMAIN Memory = Living /\ Memory[current] = Seen(current)
    BY <1>1, <1>14
  <2>3. \A p \in Living : Memory[p] = Seen(p)'
    BY <1>12, <1>14
  <2>4. Memory' = [p \in Living \cup {child} |-> Seen(p)']
    BY <1>14, <2>1
  <2>5. \A p \in Living \cup {child} :
            Seen(p)' = IF p = child THEN Memory[current] ELSE Memory[p]
    BY <1>3, <1>13, <2>2, <2>3
  <2> QED  BY <2>2, <2>4, <2>5 DEF VM!With
<1> QED  BY <1>1, <1>3, <1>14, <1>15 DEF VM!Fork

\* Loading a program changes nobody's memory.
LEMMA LoadRefines ==
    ASSUME IInv, mode = "run", current # idle, NEW elf \in Loadable,
           NEW at \in Placements(LoadObjects(elf), kind),
           NEW new, new = MemoryMap(ElfSegs(elf), ElfSegs(elf), at),
           LoadedAs(elf, at, new)
    PROVE  Memory' = Memory
<1>1. /\ content' = Filled(content, new, Data(elf)) /\ UNCHANGED <<mm, state>>
  BY DEF LoadedAs
<1>2. /\ \A v \in ElfPages(elf) : new.pte[v] \in Blocks /\ kind[new.pte[v]] = "free"
      /\ \A v, w \in ElfPages(elf) : new.pte[v] = new.pte[w] => v = w
  BY LoadFacts
<1>3. DOMAIN Data(elf) = ElfPages(elf)
  BY DataTyped
<1>4. \A b \in Blocks : (\A v \in ElfPages(elf) : new.pte[v] # b) => content'[b] = content[b]
  BY <1>1, <1>2, <1>3, FilledIs
<1>5. ASSUME NEW p \in Living  PROVE Seen(p)' = Seen(p)
  <2>1. ASSUME NEW v \in UserPages \cap DOMAIN mm[p].pte
        PROVE  content'[mm[p].pte[v]] = content[mm[p].pte[v]]
    <3>1. mm[p].pte[v] \in Blocks /\ kind[mm[p].pte[v]] \in {"page", "ustack"}
      BY UserBlock
    <3> QED  BY <1>2, <1>4, <3>1
  <2> QED  BY <1>1, <2>1, StillSeen
<1>6. Living' = Living
  BY <1>1 DEF Living
<1> QED  BY <1>5, <1>6, MemoryStays

\* What sys_exec() has loaded becomes its process's memory.
LEMMA ReplaceRefines ==
    ASSUME IInv, exec_replace
    PROVE  /\ current \in Procs
           /\ \E image \in {Data(elf) : elf \in Loadable} : VM!Exec(current, image)
<1> DEFINE m == mm[current]
           new == loading.mm
           B == dealloc_memory_map(m)
<1>1. /\ mode = "activated" /\ mm' = [mm EXCEPT ![current] = new]
      /\ content' = Cleared(B) /\ UNCHANGED <<state, current>>
  BY DEF exec_replace
<1>2. current # idle
  BY <1>1 DEF IInv, Hart
<1>3. current \in Living /\ current \in Mapped /\ current \in Procs
  BY <1>2, CurrentLives
<1>4. Living' = Living
  BY <1>1 DEF Living
<1>5. Living \subseteq Contexts
  BY DEF Living, Contexts
<1>6. mm'[current] = new /\ \A p \in Living \ {current} : mm'[p] = mm[p]
  BY <1>1, <1>3, <1>5 DEF IInv, Shapes
<1>7. PICK elf \in Loadable :
          /\ FramedPages(new.segs) = ElfPages(elf)
          /\ \A v \in ElfPages(elf) : content[new.pte[v]] = Data(elf)[v]
  BY <1>1 DEF IInv, Loaded
<1>8. \A b \in Blocks \ B : content'[b] = content[b]
  BY <1>1 DEF Cleared
<1>9. \A b \in B : \E h \in Holdings : /\ h[1] = current /\ h[4] = b
                                       /\ h[2] \in {"mm", "root", "table", "segment", "page"}
  <2>1. \A b \in B : \E h \in MapHoldings(current, m) : h[4] = b
    BY Freed
  <2>2. \A h \in MapHoldings(current, m) :
            /\ h[1] = current /\ h \in Holdings
            /\ h[2] \in {"mm", "root", "table", "segment", "page"}
    BY <1>3, InHoldings, MapHolder
  <2> QED  BY <2>1, <2>2
<1> HIDE DEF B
<1>10. ASSUME NEW p \in Living, p # current  PROVE Seen(p)' = Seen(p)
  <2>1. ASSUME NEW v \in UserPages \cap DOMAIN mm[p].pte
        PROVE  content'[mm[p].pte[v]] = content[mm[p].pte[v]]
    <3>1. mm[p].pte[v] \in Blocks /\ \E h \in Holdings : h[1] = p /\ h[4] = mm[p].pte[v]
      BY UserBlock
    <3>2. mm[p].pte[v] \notin B
      BY <1>9, <1>10, <3>1 DEF IInv, Kept
    <3> QED  BY <1>8, <3>1, <3>2
  <2> QED  BY <1>6, <1>10, <2>1, StillSeen
<1>11. UserPages \cap DOMAIN new.pte = ElfPages(elf)
  <2>1. WellFormed(new) /\ USER_STACK \notin DOMAIN new.pte
    BY <1>1 DEF IInv, Shapes, Stacks
  <2> QED  BY <1>7, <2>1 DEF WellFormed
<1>12. ASSUME NEW v \in ElfPages(elf)  PROVE content'[new.pte[v]] = Data(elf)[v]
  <2> DEFINE h == <<NULL, "page", v, new.pte[v]>>
  <2>1. h \in MapHoldings(NULL, new) /\ h[4] = new.pte[v] /\ h[1] = NULL
    BY <1>7, InMapHoldings
  <2> HIDE DEF h
  <2>2. h \in Holdings
    BY <1>1, <2>1, InHoldings, MapLoad
  <2>3. NULL # current
    BY <1>3, AddressSpaceAssumption DEF Contexts
  <2>4. new.pte[v] \in Blocks /\ new.pte[v] \notin B
    BY <1>9, <2>1, <2>2, <2>3 DEF IInv, Kept
  <2> QED  BY <1>7, <1>8, <2>4
<1>13. Seen(current)' = Data(elf)
  <2>1. Seen(current)' = [v \in ElfPages(elf) |-> content'[new.pte[v]]]
    BY <1>1, <1>6, <1>11 DEF Seen
  <2>2. Data(elf) = [v \in ElfPages(elf) |-> Data(elf)[v]]
    BY DEF Data
  <2> QED  BY <1>12, <2>1, <2>2
<1>14. Memory = [p \in Living |-> Seen(p)] /\ Memory' = [p \in Living' |-> Seen(p)']
  BY MemoryIs DEF Memory, Seen
<1>15. Memory' = [Memory EXCEPT ![current] = Data(elf)]
  BY <1>1, <1>3, <1>4, <1>10, <1>13, <1>14
<1>16. current \in DOMAIN Memory
  BY <1>3, <1>14
<1> QED  BY <1>3, <1>15, <1>16 DEF VM!Exec

\* The last step of sys_exec() implements PushStack: the process sees a user
\* stack beside its program.
LEMMA StackRefines ==
    ASSUME IInv, mode = "replaced",
           NEW at \in Placements(StackObjects(mm[current]),
                                 Dealloc({own[current].ustack}, kind)),
           NEW x \in Values, Stacked(at, x)
    PROVE  current \in Procs /\ VM!PushStack(current, x)
<1> DEFINE m == mm[current]
           u == own[current].ustack
           stack == at[<<"ustack", 0>>]
           n == MapStack(m, stack, at)
           U == {u}
           k == Dealloc(U, kind)
           P == UserPages \cap DOMAIN m.pte
<1>1. /\ mm' = [mm EXCEPT ![current] = n] /\ content' = [Cleared(U) EXCEPT ![stack] = x]
      /\ UNCHANGED <<state, current>>
  BY DEF Stacked
<1>2. current # idle
  BY DEF IInv, Hart
<1>3. current \in Living /\ current \in Procs /\ WellFormed(m)
  BY <1>2, CurrentLives
<1>4. Living' = Living
  BY <1>1 DEF Living
<1>5. mm'[current] = n /\ \A p \in Living \ {current} : mm'[p] = mm[p]
  BY <1>1, <1>3 DEF IInv, Shapes, Living, Contexts
<1>6. USER_STACK \notin DOMAIN m.pte /\ USER_STACK \in UserPages
  BY Pages DEF IInv, Stacks
<1>7. stack \in Blocks /\ stack # NULL /\ k[stack] = "free"
  BY StackFacts
<1>8. n = MapStack(m, stack, at)
  OBVIOUS
<1> HIDE DEF m, stack, n
<1>9. StackFor(n, m, stack, at, current)
  BY <1>3, <1>6, <1>7, <1>8, StackMap
<1>10. /\ UserPages \cap DOMAIN n.pte = P \cup {USER_STACK} /\ USER_STACK \notin P
       /\ n.pte[USER_STACK] = stack /\ \A v \in P : n.pte[v] = m.pte[v]
  BY <1>6, <1>9 DEF StackFor
<1>11. /\ content'[stack] = x
       /\ \A b \in Blocks \ {stack, u} : content'[b] = content[b]
  BY <1>1, <1>7 DEF Cleared
<1>12. ASSUME NEW p \in Living, NEW v \in UserPages \cap DOMAIN mm[p].pte
       PROVE  content'[mm[p].pte[v]] = content[mm[p].pte[v]]
  <2> DEFINE b == mm[p].pte[v]
  <2>1. b \in Blocks /\ kind[b] \in {"page", "ustack"}
    BY UserBlock
  <2>2. PICK h \in Holdings : /\ h[1] = p /\ h[4] = b
                              /\ v = USER_STACK => h[2] = "ustack"
                              /\ v # USER_STACK => h[2] = "page" /\ h[3] = v
    BY UserBlock
  <2>3. b # u
    <3> DEFINE g == <<current, "ustack", 0, u>>
    <3>1. g \in Holdings /\ g[1] = current /\ g[4] = u /\ g[2] = "ustack"
      BY <1>3, StackHeld
    <3> HIDE DEF g
    <3>2. ASSUME b = u  PROVE FALSE
      <4>1. h = g
        BY <2>2, <3>1, <3>2 DEF IInv, Kept
      <4>2. p = current /\ v = USER_STACK
        BY <2>2, <3>1, <4>1
      <4> QED  BY <1>6, <4>2 DEF m
    <3> QED  BY <3>2
  <2>4. b # stack
    BY <1>7, <2>1, <2>3 DEF Dealloc
  <2> QED  BY <1>11, <2>1, <2>3, <2>4
<1>13. \A p \in Living \ {current} : Seen(p)' = Seen(p)
  BY <1>5, <1>12, StillSeen
<1>14. Seen(current)' = VM!With(Seen(current), USER_STACK, x)
  <2>1. Seen(current)' = [v \in P \cup {USER_STACK} |-> content'[n.pte[v]]]
    BY <1>1, <1>5, <1>10 DEF Seen
  <2>2. Seen(current) = [v \in P |-> content[m.pte[v]]]
    BY DEF Seen, m
  <2>3. \A v \in P : content'[m.pte[v]] = content[m.pte[v]]
    BY <1>3, <1>12 DEF m
  <2>4. \A v \in P \cup {USER_STACK} :
            content'[n.pte[v]] = IF v = USER_STACK THEN x ELSE content[m.pte[v]]
    BY <1>10, <1>11, <2>3
  <2> HIDE DEF P
  <2> QED  BY <1>10, <2>1, <2>2, <2>4 DEF VM!With
<1>15. Memory = [p \in Living |-> Seen(p)] /\ Memory' = [p \in Living' |-> Seen(p)']
  BY MemoryIs DEF Memory, Seen
<1>16. Memory' = [Memory EXCEPT ![current] = VM!With(Memory[current], USER_STACK, x)]
  BY <1>1, <1>3, <1>4, <1>13, <1>14, <1>15
<1>17. current \in DOMAIN Memory /\ USER_STACK \notin DOMAIN Memory[current]
  BY <1>3, <1>6, <1>15 DEF Seen, m
<1> QED  BY <1>3, <1>16, <1>17 DEF VM!PushStack

\* Reaping implements Reap: nobody else loses anything.
LEMMA WaitRefines ==
    ASSUME IInv, mode = "run", current # idle, NEW child \in Procs, Waited(child)
    PROVE  VM!Reap(child)
<1>1. /\ \A p : p \in Living' <=> p \in Living /\ p # child
      /\ child \in Living
      /\ \A p \in Contexts \ {child} : mm'[p] = mm[p]
      /\ \A b \in Reaped(child) : \E h \in Holdings : h[1] = child /\ h[4] = b
  BY WaitHoldings
<1>2. content' = Cleared(Reaped(child))
  BY DEF Waited
<1>3. ASSUME NEW p \in Living, p # child  PROVE Seen(p)' = Seen(p)
  <2>1. ASSUME NEW v \in UserPages \cap DOMAIN mm[p].pte
        PROVE  content'[mm[p].pte[v]] = content[mm[p].pte[v]]
    <3>1. mm[p].pte[v] \in Blocks /\ \E h \in Holdings : h[1] = p /\ h[4] = mm[p].pte[v]
      BY UserBlock
    <3>2. mm[p].pte[v] \notin Reaped(child)
      BY <1>1, <1>3, <3>1 DEF IInv, Kept
    <3> QED  BY <1>2, <3>1, <3>2 DEF Cleared
  <2>2. mm'[p] = mm[p]
    BY <1>1, <1>3 DEF Living, Contexts
  <2> QED  BY <2>1, <2>2, StillSeen
<1>4. Memory = [p \in Living |-> Seen(p)] /\ Memory' = [p \in Living' |-> Seen(p)']
  BY MemoryIs DEF Memory, Seen
<1>5. Living' = Living \ {child}
  BY <1>1
<1>6. Memory' = [p \in DOMAIN Memory \ {child} |-> Memory[p]]
  BY <1>3, <1>4, <1>5
<1> QED  BY <1>1, <1>4, <1>6 DEF VM!Reap

\* Each step implements one of VirtualMemory or leaves every memory alone.
LEMMA StepRefines ==
    ASSUME IInv, [Next]_vars  PROVE [VM!Next]_Memory
<1>1. CASE Dispatch \/ yield
  BY <1>1, SameMemory DEF Dispatch, yield, Living
<1>2. CASE exit_current
  <2>1. Living' = Living
    <3>1. /\ current \in Living /\ current \in Procs
          /\ state \in [Procs -> {"unused", "live", "exited"}]
      BY <1>2, CurrentLives DEF exit_current, AtUser, IInv, Types
    <3>2. state' = [state EXCEPT ![current] = "exited"]
      BY <1>2 DEF exit_current
    <3> QED  BY <3>1, <3>2 DEF Living
  <2> QED  BY <1>2, <2>1, SameMemory DEF exit_current
<1>3. CASE Store
  BY <1>3, StoreRefines DEF VM!Next
<1>4. CASE sys_fork
  <2>1. CASE panic
    BY <2>1, SameMemory DEF panic, Living
  <2>2. CASE \E at \in Placements(ProcessObjects(mm[current].segs), kind), child \in Procs :
                 Forked(child, at,
                        MapStack(copy_mm(mm[current], at), at[<<"ustack", 0>>], at))
    BY <1>4, <2>2, ForkCases, ForkRefines DEF VM!Next
  <2> QED  BY <1>4, <2>1, <2>2, ForkCases
<1>5. CASE sys_exec
  <2>1. CASE exec_load
    <3>1. CASE panic
      BY <3>1, SameMemory DEF panic, Living
    <3>2. CASE \E elf \in Loadable :
                  \E at \in Placements(LoadObjects(elf), kind) :
                     LoadedAs(elf, at, MemoryMap(ElfSegs(elf), ElfSegs(elf), at))
      BY <2>1, <3>2, LoadCases, LoadRefines
    <3> QED  BY <2>1, <3>1, <3>2, LoadCases
  <2>2. CASE exec_activate
    BY <2>2, SameMemory DEF exec_activate, Living
  <2>3. CASE exec_replace
    BY <2>3, ReplaceRefines DEF VM!Next
  <2>4. CASE exec_stack
    <3>1. CASE panic
      BY <3>1, SameMemory DEF panic, Living
    <3>2. CASE \E at \in Placements(StackObjects(mm[current]),
                                    Dealloc({own[current].ustack}, kind)), x \in Values :
                  Stacked(at, x)
      BY <2>4, <3>2, StackCases, StackRefines DEF VM!Next
    <3> QED  BY <2>4, <3>1, <3>2, StackCases
  <2> QED  BY <1>5, <2>1, <2>2, <2>3, <2>4 DEF sys_exec
<1>6. CASE sys_wait
  BY <1>6, WaitCases, WaitRefines DEF VM!Next
<1>7. CASE UNCHANGED vars
  BY <1>7, SameMemory DEF vars, Living
<1> QED  BY <1>1, <1>2, <1>3, <1>4, <1>5, <1>6, <1>7 DEF Next

\* Each process has a memory that only it writes to: fork copies it, exec
\* replaces it by a program and a stack, wait takes it away.
THEOREM Refinement == Spec => ImplementsVM
<1>1. Init => VM!Init
  BY InitRefines
<1>2. IInv /\ [Next]_vars => [VM!Next]_Memory
  BY StepRefines
<1> QED  BY <1>1, <1>2, Invariance, PTL DEF Spec, ImplementsVM, VM!Spec
=============================================================================
