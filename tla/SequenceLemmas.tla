--------------------------- MODULE SequenceLemmas ---------------------------
(***************************************************************************)
(* What taking an element out of a sequence, or adding one at either end,  *)
(* does to the set of its elements and to their being distinct; and, at    *)
(* the end, induction and the order of the elements in sets of numbers.    *)
(***************************************************************************)
EXTENDS Integers, Sequences, SequencesExt, SequenceTheorems, FiniteSetTheorems,
        WellFoundedInduction, TLAPS

\* Taking out the i-th element moves the later ones up.
LEMMA RemoveAtIsSeq ==
    ASSUME NEW S, NEW s \in Seq(S), NEW i \in DOMAIN s
    PROVE  /\ RemoveAt(s, i) \in Seq(S)
           /\ Len(RemoveAt(s, i)) = Len(s) - 1
           /\ \A j \in 1 .. Len(s) - 1 :
                 RemoveAt(s, i)[j] = IF j < i THEN s[j] ELSE s[j + 1]
<1> DEFINE left  == SubSeq(s, 1, i - 1)
           right == SubSeq(s, i + 1, Len(s))
<1>1. Len(s) \in Nat /\ i \in 1 .. Len(s)
  BY LenProperties
<1>2. /\ left \in Seq(S) /\ Len(left) = i - 1
      /\ \A j \in 1 .. i - 1 : left[j] = s[j]
  <2>1. \A j \in 1 .. i - 1 : j \in 1 .. Len(s) /\ s[j] \in S
    BY <1>1, ElementOfSeq
  <2> QED  BY <1>1, <2>1
<1>3. /\ right \in Seq(S) /\ Len(right) = Len(s) - i
      /\ \A j \in 1 .. Len(s) - i : right[j] = s[i + j]
  <2>1. \A j \in i + 1 .. Len(s) : j \in 1 .. Len(s) /\ s[j] \in S
    BY <1>1, ElementOfSeq
  <2> QED  BY <1>1, <2>1
<1>4. RemoveAt(s, i) = left \o right
  BY DEF RemoveAt
<1> HIDE DEF left, right
<1> QED  BY <1>1, <1>2, <1>3, <1>4, ConcatProperties

\* The elements of a sequence, and their being distinct, by index.
LEMMA ToSetIsRange ==
    ASSUME NEW S, NEW s \in Seq(S)
    PROVE  /\ ToSet(s) \in SUBSET S
           /\ \A e : e \in ToSet(s) <=> \E j \in 1 .. Len(s) : s[j] = e
           /\ s = <<>> <=> ToSet(s) = {}
           /\ IsInjective(s) <=>
                 \A j, k \in 1 .. Len(s) : s[j] = s[k] => j = k
<1>1. Len(s) \in Nat /\ DOMAIN s = 1 .. Len(s)
  BY LenProperties
<1>2. \A j \in 1 .. Len(s) : s[j] \in S
  BY <1>1, ElementOfSeq
<1>3. s # <<>> => 1 \in 1 .. Len(s)
  BY <1>1, EmptySeq
<1>4. s = <<>> => Len(s) = 0
  BY EmptySeq
<1>5. \A e : e \in ToSet(s) <=> \E j \in 1 .. Len(s) : s[j] = e
  BY <1>1 DEF ToSet
<1>6. ToSet(s) \in SUBSET S
  BY <1>2, <1>5
<1>7. s = <<>> <=> ToSet(s) = {}
  <2>1. CASE s = <<>>
    <3>1. \A j : j \notin 1 .. Len(s)
      BY <1>4, <2>1
    <3> QED  BY <2>1, <3>1, <1>5
  <2>2. CASE s # <<>>
    <3>1. s[1] \in ToSet(s)
      BY <1>3, <1>5, <2>2
    <3> QED  BY <2>2, <3>1
  <2> QED  BY <2>1, <2>2
<1>8. IsInjective(s) <=> \A j, k \in 1 .. Len(s) : s[j] = s[k] => j = k
  BY <1>1 DEF IsInjective
<1> QED  BY <1>5, <1>6, <1>7, <1>8

\* Taking an element out of a list of distinct ones.
LEMMA RemoveAtElements ==
    ASSUME NEW S, NEW s \in Seq(S), NEW i \in DOMAIN s, IsInjective(s)
    PROVE  /\ IsInjective(RemoveAt(s, i))
           /\ ToSet(RemoveAt(s, i)) = ToSet(s) \ {s[i]}
<1> DEFINE t == RemoveAt(s, i)
<1>1. Len(s) \in Nat /\ DOMAIN s = 1 .. Len(s)
  BY LenProperties
<1>2. /\ t \in Seq(S) /\ Len(t) = Len(s) - 1
      /\ \A j \in 1 .. Len(s) - 1 : t[j] = IF j < i THEN s[j] ELSE s[j + 1]
  BY RemoveAtIsSeq
<1> HIDE DEF t
<1>3. \A j, k \in 1 .. Len(s) : s[j] = s[k] => j = k
  BY ToSetIsRange
<1>4. IsInjective(t)
  <2>1. ASSUME NEW j \in 1 .. Len(t), NEW k \in 1 .. Len(t), t[j] = t[k]
        PROVE  j = k
    <3> DEFINE at(n) == IF n < i THEN n ELSE n + 1
    <3>1. at(j) \in 1 .. Len(s) /\ at(k) \in 1 .. Len(s)
      BY <1>1, <1>2
    <3>2. s[at(j)] = s[at(k)]
      BY <1>1, <1>2, <2>1
    <3>3. at(j) = at(k)
      BY <1>3, <3>1, <3>2
    <3> QED  BY <1>1, <1>2, <3>3
  <2> QED  BY <1>2, <2>1, ToSetIsRange
<1>5. ASSUME NEW e \in ToSet(t)  PROVE  e \in ToSet(s) \ {s[i]}
  <2>1. PICK j \in 1 .. Len(t) : t[j] = e
    BY <1>2, ToSetIsRange
  <2>2. PICK k \in 1 .. Len(s) : s[k] = e /\ k # i
    BY <1>1, <1>2, <2>1
  <2>3. e # s[i]
    BY <1>1, <1>3, <2>2
  <2> QED  BY <2>2, <2>3, ToSetIsRange
<1>6. ASSUME NEW e \in ToSet(s) \ {s[i]}  PROVE  e \in ToSet(t)
  <2>1. PICK k \in 1 .. Len(s) : s[k] = e
    BY ToSetIsRange
  <2>2. k # i
    BY <2>1
  <2>3. CASE k < i
    <3>1. k \in 1 .. Len(t) /\ t[k] = e
      BY <1>1, <1>2, <2>1, <2>3
    <3> QED  BY <1>2, <3>1, ToSetIsRange
  <2>4. CASE k > i
    <3>1. k - 1 \in 1 .. Len(t) /\ t[k - 1] = e
      BY <1>1, <1>2, <2>1, <2>4
    <3> QED  BY <1>2, <3>1, ToSetIsRange
  <2> QED  BY <1>1, <2>2, <2>3, <2>4
<1> QED  BY <1>4, <1>5, <1>6 DEF t

\* Adding a new element at the end of a list of distinct ones.
LEMMA AppendElements ==
    ASSUME NEW S, NEW s \in Seq(S), NEW e \in S, IsInjective(s), e \notin ToSet(s)
    PROVE  /\ Append(s, e) \in Seq(S)
           /\ IsInjective(Append(s, e))
           /\ ToSet(Append(s, e)) = ToSet(s) \cup {e}
<1> DEFINE t == Append(s, e)
<1>1. Len(s) \in Nat
  BY LenProperties
<1>2. /\ t \in Seq(S) /\ Len(t) = Len(s) + 1
      /\ \A j \in 1 .. Len(s) : t[j] = s[j]
      /\ t[Len(s) + 1] = e
  BY AppendProperties
<1> HIDE DEF t
<1>3. /\ \A j, k \in 1 .. Len(s) : s[j] = s[k] => j = k
      /\ \A j \in 1 .. Len(s) : s[j] # e
  BY ToSetIsRange
<1>4. \A j, k \in 1 .. Len(t) : t[j] = t[k] => j = k
  BY <1>1, <1>2, <1>3
<1>5. \A x : (\E j \in 1 .. Len(t) : t[j] = x)
                <=> (\E j \in 1 .. Len(s) : s[j] = x) \/ x = e
  BY <1>1, <1>2
<1>6. ToSet(t) = ToSet(s) \cup {e}
  BY <1>2, <1>5, ToSetIsRange
<1> QED  BY <1>2, <1>4, <1>6, ToSetIsRange DEF t

\* Adding a new element at the front of a list of distinct ones.
LEMMA ConsElements ==
    ASSUME NEW S, NEW s \in Seq(S), NEW e \in S, IsInjective(s), e \notin ToSet(s)
    PROVE  /\ <<e>> \o s \in Seq(S)
           /\ IsInjective(<<e>> \o s)
           /\ ToSet(<<e>> \o s) = ToSet(s) \cup {e}
<1> DEFINE t == <<e>> \o s
<1>1. Len(s) \in Nat /\ <<e>> \in Seq(S) /\ Len(<<e>>) = 1
  BY LenProperties
<1>2. /\ t \in Seq(S) /\ Len(t) = Len(s) + 1
      /\ t[1] = e
      /\ \A j \in 2 .. Len(s) + 1 : t[j] = s[j - 1]
  BY <1>1, ConcatProperties
<1> HIDE DEF t
<1>3. /\ \A j, k \in 1 .. Len(s) : s[j] = s[k] => j = k
      /\ \A j \in 1 .. Len(s) : s[j] # e
  BY ToSetIsRange
<1>4. \A j \in 1 .. Len(t) : j = 1 \/ (j - 1 \in 1 .. Len(s) /\ t[j] = s[j - 1])
  BY <1>1, <1>2
<1>5. ASSUME NEW j \in 1 .. Len(t), NEW k \in 1 .. Len(t), t[j] = t[k]
      PROVE  j = k
  <2>1. CASE j = 1 \/ k = 1
    BY <1>2, <1>3, <1>4, <1>5, <2>1
  <2>2. CASE j # 1 /\ k # 1
    <3>1. s[j - 1] = s[k - 1] /\ j - 1 \in 1 .. Len(s) /\ k - 1 \in 1 .. Len(s)
      BY <1>4, <1>5, <2>2
    <3>2. j - 1 = k - 1
      BY <1>3, <3>1
    <3> QED  BY <1>1, <1>2, <3>2
  <2> QED  BY <2>1, <2>2
<1>6. \A j \in 1 .. Len(s) : j + 1 \in 1 .. Len(t) /\ t[j + 1] = s[j]
  BY <1>1, <1>2
<1>7. \A x : (\E j \in 1 .. Len(t) : t[j] = x)
                <=> (\E j \in 1 .. Len(s) : s[j] = x) \/ x = e
  BY <1>1, <1>2, <1>4, <1>6
<1>8. ToSet(t) = ToSet(s) \cup {e}
  BY <1>2, <1>7, ToSetIsRange
<1>9. IsInjective(t)
  BY <1>2, <1>5, ToSetIsRange
<1>10. t \in Seq(S)
  BY <1>2
<1> QED  BY <1>8, <1>9, <1>10, Zenon DEF t

-----------------------------------------------------------------------------
(* Sets of numbers                                                         *)

LEMMA LeastNat ==
    ASSUME NEW T \in SUBSET Nat, T # {}
    PROVE  \E x \in T : \A y \in T : x <= y
<1> DEFINE R == OpToRel(<, Nat)
<1>1. IsWellFoundedOn(R, Nat) BY NatLessThanWellFounded
<1>2. \A a, b \in Nat : a < b => <<a, b>> \in R BY DEF OpToRel
<1> HIDE DEF R
<1>3. PICK x \in T : \A y \in T : ~ (<<y, x>> \in R) BY <1>1, WFMin
<1>4. ASSUME NEW y \in T PROVE x <= y
  <2>1. x \in Nat /\ y \in Nat OBVIOUS
  <2>2. ~ (y < x) BY <1>2, <1>3, <2>1
  <2> QED BY <2>1, <2>2
<1> QED BY <1>4

\* Induction, for a property given as the set of the numbers that have it.
LEMMA NatSetInduction ==
    ASSUME NEW S, 0 \in S, \A n \in S \cap Nat : n + 1 \in S
    PROVE  Nat \subseteq S
<1> DEFINE T == Nat \ S
<1>1. SUFFICES ASSUME T # {} PROVE FALSE OBVIOUS
<1>2. PICK x \in T : \A y \in T : x <= y BY <1>1, LeastNat
<1>3. x # 0 /\ x - 1 \in Nat /\ x - 1 \notin T BY <1>2
<1>4. x - 1 \in S \cap Nat BY <1>3
<1>5. (x - 1) + 1 \in S BY <1>4
<1> QED BY <1>2, <1>3, <1>5

\* Each element of a finite set of numbers has a rank of its own, and each
\* rank up to the size of the set is that of an element.
LEMMA Ranks ==
    ASSUME NEW S \in SUBSET Int, IsFiniteSet(S)
    PROVE  /\ Cardinality(S) \in Nat
           /\ \A x \in S : Cardinality({z \in S : z <= x}) \in 1 .. Cardinality(S)
           /\ \A x, y \in S : Cardinality({z \in S : z <= x}) = Cardinality({z \in S : z <= y})
                                 => x = y
           /\ \A n \in 1 .. Cardinality(S) :
                 \E x \in S : Cardinality({z \in S : z <= x}) = n
<1> DEFINE upto(x) == {z \in S : z <= x}
           rank == [x \in S |-> Cardinality(upto(x))]
           N == 1 .. Cardinality(S)
<1>1. Cardinality(S) \in Nat BY FS_CardinalityType
<1>2. \A x \in S : upto(x) \in SUBSET S OBVIOUS
<1>3. \A x \in S : /\ IsFiniteSet(upto(x))
                   /\ Cardinality(upto(x)) \in Nat
                   /\ Cardinality(upto(x)) <= Cardinality(S)
  <2>1. ASSUME NEW x \in S
        PROVE  /\ IsFiniteSet(upto(x)) /\ Cardinality(upto(x)) <= Cardinality(S)
    BY <1>2, FS_Subset
  <2> QED BY <2>1, FS_CardinalityType
<1>4. ASSUME NEW x \in S PROVE Cardinality(upto(x)) >= 1
  <2>1. x \in upto(x) OBVIOUS
  <2> HIDE DEF upto
  <2>2. Cardinality(upto(x)) # 0 BY <1>3, <2>1, FS_EmptySet
  <2> QED BY <1>3, <2>2
<1>5. ASSUME NEW x \in S, NEW y \in S, x < y
      PROVE  Cardinality(upto(x)) # Cardinality(upto(y))
  <2>1. \A z \in S : z \in Int /\ (z <= x => z <= y) BY <1>5
  <2>2. \A z : z \in upto(x) => z \in upto(y) BY <2>1
  <2>3. x \in Int /\ y \in Int /\ y <= y /\ ~ (y <= x) BY <1>5
  <2>4. y \in upto(y) /\ y \notin upto(x) BY <2>3
  <2> HIDE DEF upto
  <2>5. upto(x) \in SUBSET upto(y) BY <2>2
  <2> QED BY <1>3, <2>4, <2>5, FS_Subset
<1> HIDE DEF upto
<1>6. rank \in [S -> N] BY <1>1, <1>3, <1>4
<1>7. \A x, y \in S : rank[x] = rank[y] => x = y
  <2>1. \A x, y \in S : x < y \/ x = y \/ y < x OBVIOUS
  <2> QED BY <1>5, <2>1
<1>8. IsFiniteSet(N) /\ Cardinality(N) = Cardinality(S) BY <1>1, FS_Interval
<1>9. rank \in Injection(S, N) BY <1>6, <1>7 DEF Injection, IsInjective
<1> HIDE DEF rank, N
<1>10. rank \in Surjection(S, N) BY <1>8, <1>9, FS_Injection
<1>11. \A n \in N : \E x \in S : rank[x] = n BY <1>10 DEF Surjection
<1> QED BY <1>1, <1>6, <1>7, <1>11 DEF rank, N, upto

\* Two neighbouring pieces of a sequence make one.
LEMMA SubSeqJoin ==
    ASSUME NEW S, NEW whole \in Seq(S), NEW a \in 0 .. Len(whole), NEW b \in a .. Len(whole)
    PROVE  SubSeq(whole, 1, a) \o SubSeq(whole, a + 1, b) = SubSeq(whole, 1, b)
<1> DEFINE x == SubSeq(whole, 1, a)
           y == SubSeq(whole, a + 1, b)
           z == SubSeq(whole, 1, b)
<1>1. Len(whole) \in Nat /\ \A i \in 1 .. Len(whole) : whole[i] \in S
  BY LenProperties, ElementOfSeq
<1>2. /\ x \in Seq(S) /\ Len(x) = a /\ \A i \in 1 .. a : x[i] = whole[i]
  <2>1. \A i \in 1 .. a : whole[i] \in S BY <1>1
  <2>2. /\ x \in Seq(S) /\ Len(x) = (IF 1 <= a THEN a - 1 + 1 ELSE 0)
        /\ \A i \in 1 .. a - 1 + 1 : x[i] = whole[1 + i - 1]
    BY <1>1, <2>1, SubSeqProperties
  <2> HIDE DEF x
  <2> QED BY <1>1, <2>2
<1>3. /\ y \in Seq(S) /\ Len(y) = b - a /\ \A i \in 1 .. b - a : y[i] = whole[a + i]
  <2>1. \A i \in a + 1 .. b : whole[i] \in S BY <1>1
  <2>2. /\ y \in Seq(S) /\ Len(y) = (IF a + 1 <= b THEN b - (a + 1) + 1 ELSE 0)
        /\ \A i \in 1 .. b - (a + 1) + 1 : y[i] = whole[a + 1 + i - 1]
    BY <1>1, <2>1, SubSeqProperties
  <2> HIDE DEF y
  <2> QED BY <1>1, <2>2
<1>4. /\ z \in Seq(S) /\ Len(z) = b /\ \A i \in 1 .. b : z[i] = whole[i]
  <2>1. \A i \in 1 .. b : whole[i] \in S BY <1>1
  <2>2. /\ z \in Seq(S) /\ Len(z) = (IF 1 <= b THEN b - 1 + 1 ELSE 0)
        /\ \A i \in 1 .. b - 1 + 1 : z[i] = whole[1 + i - 1]
    BY <1>1, <2>1, SubSeqProperties
  <2> HIDE DEF z
  <2> QED BY <1>1, <2>2
<1> HIDE DEF x, y, z
<1>5. /\ x \o y \in Seq(S) /\ Len(x \o y) = b
      /\ \A i \in 1 .. b : (x \o y)[i] = IF i <= a THEN x[i] ELSE y[i - a]
  <2>1. Len(x) + Len(y) = b BY <1>1, <1>2, <1>3
  <2>2. /\ x \o y \in Seq(S) /\ Len(x \o y) = Len(x) + Len(y)
        /\ \A i \in 1 .. Len(x) + Len(y) :
              (x \o y)[i] = IF i <= Len(x) THEN x[i] ELSE y[i - Len(x)]
    BY <1>2, <1>3, ConcatProperties
  <2> QED BY <1>2, <2>1, <2>2
<1>6. ASSUME NEW i \in 1 .. b PROVE (x \o y)[i] = z[i]
  <2>1. i \in Nat /\ a \in Nat /\ b \in Nat BY <1>1
  <2>2. CASE i <= a BY <1>2, <1>4, <1>5, <2>1, <2>2
  <2>3. CASE ~(i <= a)
    <3>1. i - a \in 1 .. b - a /\ a + (i - a) = i BY <2>1, <2>3
    <3>2. y[i - a] = whole[a + (i - a)] BY <1>3, <3>1
    <3> QED BY <1>4, <1>5, <2>1, <2>3, <3>1, <3>2
  <2> QED BY <2>2, <2>3
<1>7. x \o y = z BY <1>4, <1>5, <1>6, SeqEqual
<1> QED BY <1>7 DEF x, y, z
\* FlattenSeq() of the pieces of a sequence, cut at at[1], at[2]...
LEMMA FlattenPieces ==
    ASSUME NEW S, NEW whole \in Seq(S), NEW N \in Nat, NEW at, NEW pieces,
           \A n \in 0 .. N : at[n] \in 0 .. Len(whole),
           at[0] = 0, at[N] = Len(whole), \A n \in 1 .. N : at[n - 1] <= at[n],
           pieces = [n \in 1 .. N |-> SubSeq(whole, at[n - 1] + 1, at[n])]
    PROVE  FlattenSeq(pieces) = whole
<1>1. Len(whole) \in Nat BY LenProperties
<1> DEFINE Cut(a, b) == SubSeq(whole, a, b)
<1>2. Len(pieces) = N /\ \A n \in 1 .. N : pieces[n] = Cut(at[n - 1] + 1, at[n])
  <2>1. \A n \in 1 .. N : pieces[n] = Cut(at[n - 1] + 1, at[n]) /\ DOMAIN pieces = 1 .. N
    OBVIOUS
  <2> DEFINE T == {pieces[n] : n \in 1 .. N}
  <2>2. pieces \in [1 .. N -> T]
    <3>1. pieces = [n \in 1 .. N |-> pieces[n]] BY <2>1
    <3>2. \A n \in 1 .. N : pieces[n] \in T OBVIOUS
    <3> HIDE DEF T
    <3> QED BY <3>1, <3>2
  <2> HIDE DEF T
  <2>3. pieces \in Seq(T) BY <2>2, SeqDef
  <2>4. Len(pieces) \in Nat /\ DOMAIN pieces = 1 .. Len(pieces) BY <2>3, LenProperties
  <2>5. DOMAIN pieces = 1 .. N OBVIOUS
  <2>6. Len(pieces) = N
    <3>1. 1 .. Len(pieces) = 1 .. N BY <2>4, <2>5
    <3> HIDE DEF T
    <3> QED BY <2>4, <3>1
  <2> QED BY <2>1, <2>6
<1>3. CASE N = 0
  <2>1. FlattenSeq(pieces) = pieces BY <1>2, <1>3 DEF FlattenSeq
  <2>2. pieces = <<>> BY <1>2, <1>3
  <2>3. whole = <<>> BY <1>3, EmptySeq
  <2> QED BY <2>1, <2>2, <2>3
<1>4. CASE N # 0
  <2> DEFINE Joined(f) ==
                 [i \in 1 .. Len(pieces) |->
                     IF i = 1 THEN pieces[i] ELSE f[i - 1] \o pieces[i]]
             flat == CHOOSE f : f = Joined(f)
             upto == [i \in 1 .. N |-> Cut(1, at[i])]
  <2>1. FlattenSeq(pieces) = flat[N] BY <1>2, <1>4 DEF FlattenSeq
  <2>2. Cut(1, at[N]) = whole
    <3> DEFINE t == SubSeq(whole, 1, Len(whole))
    <3>1. \A i \in 1 .. Len(whole) : whole[i] \in S BY ElementOfSeq
    <3>2. /\ t \in Seq(S) /\ Len(t) = (IF 1 <= Len(whole) THEN Len(whole) - 1 + 1 ELSE 0)
          /\ \A i \in 1 .. Len(whole) - 1 + 1 : t[i] = whole[1 + i - 1]
      BY <1>1, <3>1, SubSeqProperties
    <3> HIDE DEF t
    <3>3. Len(t) = Len(whole) /\ \A i \in 1 .. Len(t) : t[i] = whole[i] BY <1>1, <3>2
    <3>4. t = whole BY <3>2, <3>3, SeqEqual
    <3> QED BY <3>4 DEF t, Cut
  <2>3. ASSUME NEW i \in 1 .. N, i # 1
        PROVE  Cut(1, at[i - 1]) \o pieces[i] = Cut(1, at[i])
    <3>1. i \in 0 .. N /\ i - 1 \in 0 .. N BY <2>3
    <3>2. at[i - 1] \in 0 .. Len(whole) /\ at[i] \in 0 .. Len(whole) /\ at[i - 1] <= at[i]
      BY <3>1
    <3>3. at[i] \in at[i - 1] .. Len(whole) BY <1>1, <3>2
    <3>4. SubSeq(whole, 1, at[i - 1]) \o SubSeq(whole, at[i - 1] + 1, at[i])
            = SubSeq(whole, 1, at[i])
      BY <3>2, <3>3, SubSeqJoin
    <3> QED BY <1>2, <3>4 DEF Cut
  <2> HIDE DEF Cut
  <2>4. \A f : f = Joined(f) =>
            /\ f[1] = Cut(1, at[1])
            /\ \A i \in 1 .. N : i # 1 => f[i] = f[i - 1] \o pieces[i]
    <3>1. ASSUME NEW f, f = Joined(f), NEW i \in 1 .. N
          PROVE  f[i] = IF i = 1 THEN pieces[i] ELSE f[i - 1] \o pieces[i]
      <4>1. Joined(f)[i] = IF i = 1 THEN pieces[i] ELSE f[i - 1] \o pieces[i] BY <1>2
      <4> QED BY <3>1, <4>1
    <3>2. 1 \in 1 .. N BY <1>4
    <3>3. pieces[1] = Cut(1, at[1])
      <4>1. pieces[1] = Cut(at[1 - 1] + 1, at[1]) BY <1>2, <3>2
      <4> QED BY <4>1
    <3> HIDE DEF Joined
    <3> QED BY <3>1, <3>2, <3>3
  <2>5. upto = Joined(upto)
    <3>1. ASSUME NEW i \in 1 .. N
          PROVE  upto[i] = IF i = 1 THEN pieces[i] ELSE upto[i - 1] \o pieces[i]
      <4>1. CASE i = 1
        <5>1. pieces[1] = Cut(at[1 - 1] + 1, at[1]) BY <1>2, <4>1
        <5> QED BY <4>1, <5>1
      <4>2. CASE i # 1
        <5>1. upto[i - 1] = Cut(1, at[i - 1]) /\ upto[i] = Cut(1, at[i])
          <6>1. i - 1 \in 1 .. N BY <4>2
          <6> QED BY <6>1
        <5>2. Cut(1, at[i - 1]) \o pieces[i] = Cut(1, at[i]) BY <2>3, <4>2
        <5> HIDE DEF upto
        <5> QED BY <4>2, <5>1, <5>2
      <4> QED BY <4>1, <4>2
    <3>2. upto = [i \in 1 .. N |-> upto[i]] OBVIOUS
    <3>3. Joined(upto) = [i \in 1 .. N |-> IF i = 1 THEN pieces[i] ELSE upto[i - 1] \o pieces[i]]
      BY <1>2
    <3> HIDE DEF Joined, upto
    <3> QED BY <3>1, <3>2, <3>3
  <2> HIDE DEF Joined, upto
  <2>6. flat = Joined(flat) BY <2>5
  <2> HIDE DEF flat
  <2> DEFINE D == {n \in Nat : n + 1 \in 1 .. N => flat[n + 1] = Cut(1, at[n + 1])}
  <2>7. 0 \in D BY <2>4, <2>6
  <2>8. ASSUME NEW n \in D \cap Nat PROVE n + 1 \in D
    <3>1. SUFFICES ASSUME n + 2 \in 1 .. N PROVE flat[n + 2] = Cut(1, at[n + 2])
      OBVIOUS
    <3>2. n + 1 \in 1 .. N /\ n + 2 # 1 /\ (n + 2) - 1 = n + 1 BY <3>1
    <3>3. flat[n + 1] = Cut(1, at[n + 1]) BY <2>8, <3>2
    <3>4. flat[n + 2] = flat[n + 1] \o pieces[n + 2] BY <2>4, <2>6, <3>1, <3>2
    <3> QED BY <2>3, <3>1, <3>2, <3>3, <3>4
  <2> HIDE DEF D
  <2>9. Nat \subseteq D BY <2>7, <2>8, NatSetInduction
  <2>10. N - 1 \in D BY <1>4, <2>9
  <2>11. flat[N] = Cut(1, at[N]) BY <1>4, <2>10 DEF D
  <2> QED BY <2>1, <2>2, <2>11
<1> QED BY <1>3, <1>4

=============================================================================
