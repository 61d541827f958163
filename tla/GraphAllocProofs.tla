-------------------------- MODULE GraphAllocProofs --------------------------
EXTENDS GraphAlloc, SequenceTheorems, FiniteSetTheorems, TLAPS

-----------------------------------------------------------------------------
(* Induction.                                                              *)

LEMMA NatInductive ==
    ASSUME NEW S, 0 \in S, \A n \in Nat : n \in S => n + 1 \in S
    PROVE  \A n \in Nat : n \in S
<1> DEFINE R == {ss \in Nat \X Nat : ss[1] < ss[2]}
           Rest == {n \in Nat : n \notin S}
<1>1. IsWellFoundedOn(R, Nat)
  BY NatLessThanWellFounded DEF OpToRel
<1> SUFFICES ASSUME Rest # {}
             PROVE  FALSE
  OBVIOUS
<1>2. PICK x \in Rest : \A y \in Rest : ~(<<y, x>> \in R)
  <2> HIDE DEF R
  <2> QED BY <1>1, WFMin
<1>3. x \in Nat /\ x \notin S /\ x # 0
  OBVIOUS
<1>4. x - 1 \in Nat /\ x - 1 < x /\ (x - 1) + 1 = x
  BY <1>3
<1>5. x - 1 \notin S
  BY <1>3, <1>4
<1>6. <<x - 1, x>> \in Nat \X Nat /\ <<x - 1, x>> \in R
  BY <1>3, <1>4
<1> QED BY <1>2, <1>4, <1>5, <1>6

\* A family holds every finite set when it holds a set whenever it holds all
\* that are one element smaller.
LEMMA FiniteInductive ==
    ASSUME NEW T, IsFiniteSet(T), NEW F,
           \A s \in SUBSET T : (\A x \in s : s \ {x} \in F) => s \in F
    PROVE  T \in F
<1> DEFINE S == {n \in Nat : \A s \in SUBSET T : Cardinality(s) = n => s \in F}
<1>1. \A s \in SUBSET T : IsFiniteSet(s) /\ Cardinality(s) \in Nat
  BY FS_Subset, FS_CardinalityType
<1>2. 0 \in S
  <2>1. ASSUME NEW s \in SUBSET T, Cardinality(s) = 0
        PROVE  s \in F
    <3>1. s = {}
      BY <1>1, <2>1, FS_EmptySet
    <3> QED BY <3>1
  <2> QED BY <2>1
<1>3. ASSUME NEW n \in Nat, n \in S
      PROVE  n + 1 \in S
  <2>1. ASSUME NEW s \in SUBSET T, Cardinality(s) = n + 1
        PROVE  s \in F
    <3>1. ASSUME NEW x \in s
          PROVE  s \ {x} \in F
      <4>1. Cardinality(s \ {x}) = Cardinality(s) - 1
        BY <1>1, FS_RemoveElement
      <4>2. Cardinality(s \ {x}) = n
        BY <2>1, <4>1
      <4> QED BY <1>3, <4>2
    <3> QED BY <3>1
  <2> QED BY <2>1
<1>4. \A n \in Nat : n \in S
  <2> HIDE DEF S
  <2> QED BY <1>2, <1>3, NatInductive
<1>5. Cardinality(T) \in S
  BY <1>1, <1>4
<1> QED BY <1>5

-----------------------------------------------------------------------------
(* The free list.                                                          *)

\* A free block within the arena.
Block == {b \in [offset : Nat, size : Nat \ {0}] : EndOf(b) =< Arena}

\* The blocks are in order, and no two touch.
FreeList(free) ==
    /\ free \in Seq(Block)
    /\ \A i, j \in 1 .. Len(free) : i < j => EndOf(free[i]) < free[j].offset

FreeUnits(free) == {x \in 0 .. Arena - 1 : \E i \in 1 .. Len(free) : x \in Span(free[i])}

LEMMA BlockFacts ==
    ASSUME NEW b \in Block
    PROVE  /\ b.offset \in Nat /\ b.size \in Nat /\ b.size > 0
           /\ EndOf(b) = b.offset + b.size /\ EndOf(b) \in Nat /\ EndOf(b) =< Arena
           /\ b = [offset |-> b.offset, size |-> b.size]
           /\ Arena \in Nat
  BY GraphAllocAssumption DEF Block, EndOf, GraphAllocAssumption

LEMMA SpanFacts ==
    ASSUME NEW b \in Block
    PROVE  Span(b) = b.offset .. EndOf(b) - 1
  BY BlockFacts DEF Span

LEMMA RemoveFacts ==
    ASSUME NEW X, NEW s \in Seq(X), NEW i \in 1 .. Len(s)
    PROVE  /\ RemoveAt(s, i) \in Seq(X)
           /\ Len(RemoveAt(s, i)) = Len(s) - 1
           /\ \A j \in 1 .. Len(s) - 1 :
                  RemoveAt(s, i)[j] = IF j < i THEN s[j] ELSE s[j + 1]
<1> DEFINE l == SubSeq(s, 1, i - 1)
           r == SubSeq(s, i + 1, Len(s))
<1>1. Len(s) \in Nat /\ i \in Nat /\ 1 =< i /\ i =< Len(s)
  OBVIOUS
<1>2. /\ l \in Seq(X) /\ Len(l) = i - 1
      /\ \A j \in 1 .. i - 1 : l[j] = s[j]
  OBVIOUS
<1>3. /\ r \in Seq(X) /\ Len(r) = Len(s) - i
      /\ \A j \in 1 .. Len(s) - i : r[j] = s[i + j]
  OBVIOUS
<1>4. RemoveAt(s, i) = l \o r
  BY DEF RemoveAt
<1> HIDE DEF l, r
<1>5. /\ l \o r \in Seq(X) /\ Len(l \o r) = Len(s) - 1
      /\ \A j \in 1 .. Len(s) - 1 : (l \o r)[j] = IF j < i THEN l[j] ELSE r[j - (i - 1)]
  <2>1. /\ l \o r \in Seq(X) /\ Len(l \o r) = Len(l) + Len(r)
        /\ \A j \in 1 .. Len(l) + Len(r) :
               (l \o r)[j] = IF j =< Len(l) THEN l[j] ELSE r[j - Len(l)]
    BY <1>2, <1>3, ConcatProperties
  <2>2. Len(l) = i - 1 /\ Len(l) + Len(r) = Len(s) - 1
    BY <1>1, <1>2, <1>3
  <2>3. \A j \in 1 .. Len(s) - 1 : j =< i - 1 <=> j < i
    BY <1>1
  <2> QED BY <2>1, <2>2, <2>3
<1>6. \A j \in 1 .. Len(s) - 1 : (l \o r)[j] = IF j < i THEN s[j] ELSE s[j + 1]
  <2> SUFFICES ASSUME NEW j \in 1 .. Len(s) - 1
               PROVE  (l \o r)[j] = IF j < i THEN s[j] ELSE s[j + 1]
    OBVIOUS
  <2>1. CASE j < i
    <3>1. j \in 1 .. i - 1
      BY <1>1, <2>1
    <3> QED BY <1>2, <1>5, <2>1, <3>1
  <2>2. CASE ~(j < i)
    <3>1. j - (i - 1) \in 1 .. Len(s) - i /\ i + (j - (i - 1)) = j + 1
      BY <1>1, <2>2
    <3>2. r[j - (i - 1)] = s[j + 1]
      BY <1>3, <3>1
    <3> QED BY <1>5, <2>2, <3>2
  <2> QED BY <2>1, <2>2
<1> QED BY <1>4, <1>5, <1>6

LEMMA InsertFacts ==
    ASSUME NEW X, NEW s \in Seq(X), NEW i \in 1 .. Len(s) + 1, NEW e \in X
    PROVE  /\ InsertAt(s, i, e) \in Seq(X)
           /\ Len(InsertAt(s, i, e)) = Len(s) + 1
           /\ \A j \in 1 .. Len(s) + 1 :
                  InsertAt(s, i, e)[j] = IF j < i THEN s[j]
                                         ELSE IF j = i THEN e ELSE s[j - 1]
<1> DEFINE l == SubSeq(s, 1, i - 1)
           r == SubSeq(s, i, Len(s))
<1>1. Len(s) \in Nat /\ i \in Nat /\ 1 =< i /\ i =< Len(s) + 1
  OBVIOUS
<1>2. /\ l \in Seq(X) /\ Len(l) = i - 1
      /\ \A j \in 1 .. i - 1 : l[j] = s[j]
  OBVIOUS
<1>3. /\ r \in Seq(X) /\ Len(r) = Len(s) - i + 1
      /\ \A j \in 1 .. Len(s) - i + 1 : r[j] = s[i + j - 1]
  OBVIOUS
<1>4. InsertAt(s, i, e) = (l \o <<e>>) \o r
  BY DEF InsertAt
<1> HIDE DEF l, r
<1> DEFINE m == l \o <<e>>
<1>5. /\ m \in Seq(X) /\ Len(m) = i
      /\ \A j \in 1 .. i - 1 : m[j] = s[j]
      /\ m[i] = e
  BY <1>1, <1>2
<1> HIDE DEF m
<1>6. /\ m \o r \in Seq(X) /\ Len(m \o r) = Len(s) + 1
      /\ \A j \in 1 .. Len(s) + 1 : (m \o r)[j] = IF j =< i THEN m[j] ELSE r[j - i]
  <2>1. /\ m \o r \in Seq(X) /\ Len(m \o r) = Len(m) + Len(r)
        /\ \A j \in 1 .. Len(m) + Len(r) :
               (m \o r)[j] = IF j =< Len(m) THEN m[j] ELSE r[j - Len(m)]
    BY <1>3, <1>5, ConcatProperties
  <2>2. Len(m) = i /\ Len(m) + Len(r) = Len(s) + 1
    BY <1>1, <1>3, <1>5
  <2> QED BY <2>1, <2>2
<1>7. ASSUME NEW j \in 1 .. Len(s) + 1
      PROVE  (m \o r)[j] = IF j < i THEN s[j] ELSE IF j = i THEN e ELSE s[j - 1]
  <2>1. CASE j < i
    <3>1. j \in 1 .. i - 1
      BY <1>1, <2>1
    <3> QED BY <1>5, <1>6, <2>1, <3>1
  <2>2. CASE j = i
    BY <1>5, <1>6, <2>2
  <2>3. CASE j > i
    <3>1. j - i \in 1 .. Len(s) - i + 1 /\ i + (j - i) - 1 = j - 1
      BY <1>1, <2>3
    <3>2. r[j - i] = s[j - 1]
      BY <1>3, <3>1
    <3>3. ~(j =< i) /\ ~(j < i) /\ j # i
      BY <1>1, <2>3
    <3> QED BY <1>6, <3>2, <3>3
  <2>4. j < i \/ j = i \/ j > i
    BY <1>1
  <2> QED BY <2>1, <2>2, <2>3, <2>4
<1>8. InsertAt(s, i, e) = m \o r
  BY <1>4 DEF m
<1> QED BY <1>6, <1>7, <1>8

\* What the elements of an ordered list tell about each other.
LEMMA Ordered ==
    ASSUME NEW free, FreeList(free), NEW i \in 1 .. Len(free), NEW j \in 1 .. Len(free)
    PROVE  /\ free[i] \in Block /\ free[j] \in Block
           /\ i < j => /\ EndOf(free[i]) < free[j].offset
                       /\ free[i].offset < free[j].offset
                       /\ EndOf(free[i]) < EndOf(free[j])
           /\ free[i].offset = free[j].offset => i = j
<1>1. free[i] \in Block /\ free[j] \in Block
  BY ElementOfSeq DEF FreeList
<1>2. /\ EndOf(free[i]) = free[i].offset + free[i].size
      /\ EndOf(free[j]) = free[j].offset + free[j].size
      /\ free[i].offset \in Nat /\ free[i].size \in Nat /\ free[i].size > 0
      /\ free[j].offset \in Nat /\ free[j].size \in Nat /\ free[j].size > 0
  BY <1>1, BlockFacts
<1>3. Len(free) \in Nat
  BY DEF FreeList
<1>4. i < j => EndOf(free[i]) < free[j].offset
  BY DEF FreeList
<1>5. j < i => EndOf(free[j]) < free[i].offset
  BY DEF FreeList
<1>6. i \in Int /\ j \in Int
  BY <1>3
<1> QED BY <1>1, <1>2, <1>4, <1>5, <1>6

LEMMA BestFitFacts ==
    ASSUME NEW free, FreeList(free), NEW size \in Nat, HasRoom(free, size)
    PROVE  /\ BestFit(free, size) \in 1 .. Len(free)
           /\ free[BestFit(free, size)].size >= size
<1> DEFINE fits == FitBlocks(free, size)
<1>1. free \in Seq(Block) /\ Len(free) \in Nat /\ free # <<>>
  BY DEF FreeList, HasRoom
<1>2. Len(free) >= 1
  BY <1>1
<1>3. CASE fits = {}
  BY <1>2, <1>3 DEF BestFit, HasRoom
<1>4. CASE fits # {}
  \* the smallest, and the last of those
  <2>1. fits \in SUBSET (1 .. Len(free))
    BY <1>1 DEF FitBlocks
  <2> DEFINE Better(i, j) == \/ free[i].size < free[j].size
                             \/ free[i].size = free[j].size /\ i >= j
             F == {T \in SUBSET fits : T # {} => \E i \in T : \A j \in T : Better(i, j)}
  <2>2. \A i \in fits : free[i].size \in Int /\ i \in Int
    <3>1. ASSUME NEW i \in fits
          PROVE  free[i].size \in Int /\ i \in Int
      <4>1. i \in 1 .. Len(free)
        BY <2>1
      <4>2. free[i] \in Block
        BY <1>1, <4>1, ElementOfSeq
      <4> QED BY <1>1, <4>1, <4>2, BlockFacts
    <3> QED BY <3>1
  <2>3. \A i, j, k \in fits : Better(i, j) /\ Better(j, k) => Better(i, k)
    BY <2>2
  <2>4. \A i, j \in fits : Better(i, j) \/ Better(j, i)
    BY <2>2
  <2> HIDE DEF fits, Better
  <2>5. ASSUME NEW T \in SUBSET fits, \A x \in T : T \ {x} \in F
        PROVE  T \in F
    <3>1. ASSUME T # {}
          PROVE  \E i \in T : \A j \in T : Better(i, j)
      <4>1. PICK a \in T : TRUE
        BY <3>1
      <4>2. a \in fits /\ Better(a, a)
        BY <2>4
      <4>3. CASE T \ {a} = {}
        <5>1. \A j \in T : j = a
          BY <4>3
        <5> QED BY <4>1, <4>2, <5>1
      <4>4. CASE T \ {a} # {}
        <5>1. PICK x \in T \ {a} : \A j \in T \ {a} : Better(x, j)
          BY <2>5, <4>1, <4>4
        <5>2. CASE Better(a, x)
          <6>1. \A j \in T : Better(a, j)
            BY <2>3, <4>2, <5>1, <5>2
          <6> QED BY <4>1, <6>1
        <5>3. CASE Better(x, a)
          BY <5>1, <5>3
        <5> QED BY <2>4, <4>2, <5>1, <5>2, <5>3
      <4> QED BY <4>3, <4>4
    <3> QED BY <3>1
  <2>6. IsFiniteSet(fits)
    <3>1. IsFiniteSet(1 .. Len(free))
      BY <1>1, FS_Interval
    <3> QED BY <2>1, <3>1, FS_Subset
  <2>7. fits \in F
    <3> HIDE DEF F
    <3> QED BY <2>5, <2>6, FiniteInductive
  <2>8. \E i \in fits : \A j \in fits : Better(i, j)
    BY <1>4, <2>7
  <2>9. BestFit(free, size) = CHOOSE i \in fits : \A j \in fits : Better(i, j)
    BY <1>4 DEF BestFit, fits, Better
  <2>10. BestFit(free, size) \in fits
    BY <2>8, <2>9
  <2> QED BY <2>1, <2>10 DEF HasRoom
<1> QED BY <1>3, <1>4

\* Taking memory from a block takes it out of the free list, and nothing else.
LEMMA TakenFacts ==
    ASSUME NEW free, FreeList(free), NEW i \in 1 .. Len(free),
           NEW size \in Nat, size > 0, size =< free[i].size
    PROVE  LET taken == free[i].offset .. free[i].offset + size - 1
           IN  /\ FreeList(Taken(free, i, size))
               /\ taken \subseteq FreeUnits(free)
               /\ FreeUnits(Taken(free, i, size)) = FreeUnits(free) \ taken
<1> DEFINE o == free[i].offset
           taken == o .. o + size - 1
           n == Len(free)
<1>1. /\ n \in Nat /\ i \in Nat /\ DOMAIN free = 1 .. n
      /\ free \in Seq(Block)
      /\ \A j \in 1 .. n :
             /\ free[j] \in Block /\ free[j].offset \in Nat /\ free[j].size \in Nat
             /\ free[j].size > 0 /\ EndOf(free[j]) = free[j].offset + free[j].size
             /\ EndOf(free[j]) \in Nat /\ EndOf(free[j]) =< Arena
      /\ Arena \in Nat
  <2>1. n \in Nat /\ i \in Nat /\ DOMAIN free = 1 .. n /\ free \in Seq(Block)
    BY DEF FreeList
  <2>2. \A j \in 1 .. n : free[j] \in Block
    BY <2>1, ElementOfSeq
  <2> QED BY <2>1, <2>2, BlockFacts, GraphAllocAssumption DEF GraphAllocAssumption
<1>2. \A j, k \in 1 .. n : j < k => EndOf(free[j]) < free[k].offset
  BY DEF FreeList
<1>3. \A j \in 1 .. n : j # i => EndOf(free[j]) < o \/ EndOf(free[i]) < free[j].offset
  BY <1>1, <1>2
<1>4. o \in Nat /\ o + size =< EndOf(free[i]) /\ o + size \in Nat
  BY <1>1
<1>5. taken \subseteq FreeUnits(free)
  <2>1. \A x \in taken : x \in 0 .. Arena - 1 /\ x \in Span(free[i])
    BY <1>1, <1>4, SMTT(30) DEF Span
  <2> QED BY <2>1 DEF FreeUnits
<1> HIDE DEF o
<1>6. CASE free[i].size = size
  <2> DEFINE r == RemoveAt(free, i)
  <2>1. Taken(free, i, size) = r
    BY <1>6 DEF Taken
  <2>2. /\ r \in Seq(Block) /\ Len(r) = n - 1
        /\ \A j \in 1 .. n - 1 : r[j] = IF j < i THEN free[j] ELSE free[j + 1]
    BY <1>1, RemoveFacts, ZenonT(40)
  <2> HIDE DEF r
  <2>3. FreeList(r)
    <3>1. ASSUME NEW j \in 1 .. n - 1, NEW k \in 1 .. n - 1, j < k
          PROVE  EndOf(r[j]) < r[k].offset
      <4>1. j \in 1 .. n /\ j + 1 \in 1 .. n /\ k \in 1 .. n /\ k + 1 \in 1 .. n
            /\ j < k + 1 /\ j + 1 < k + 1 /\ (~(j < i) => ~(k < i))
        BY <1>1, <3>1
      <4>2. /\ EndOf(free[j]) < free[k].offset
            /\ EndOf(free[j]) < free[k + 1].offset
            /\ EndOf(free[j + 1]) < free[k + 1].offset
        BY <1>2, <3>1, <4>1
      <4> QED BY <2>2, <4>1, <4>2
    <3> QED BY <2>2, <3>1 DEF FreeList
  <2>4. ASSUME NEW x \in 0 .. Arena - 1
        PROVE  x \in FreeUnits(r) <=> x \in FreeUnits(free) \ taken
    <3>1. ASSUME NEW j \in 1 .. n - 1, x \in Span(r[j])
          PROVE  x \in FreeUnits(free) \ taken
      <4>1. PICK k \in 1 .. n : k # i /\ r[j] = free[k]
        <5>1. j \in 1 .. n /\ j + 1 \in 1 .. n /\ (j < i => j # i) /\ (~(j < i) => j + 1 # i)
          BY <1>1
        <5> QED BY <2>2, <5>1
      <4>2. x >= free[k].offset /\ x < EndOf(free[k])
        BY <1>1, <3>1, <4>1, SMTT(30) DEF Span
      <4>3. EndOf(free[k]) < o \/ o + size < free[k].offset
        BY <1>3, <1>4, <1>6, <4>1, <1>1
      <4>4. x \notin taken
        BY <1>1, <1>4, <4>2, <4>3
      <4> QED BY <3>1, <4>1, <4>4 DEF FreeUnits
    <3>2. ASSUME NEW k \in 1 .. n, x \in Span(free[k]), x \notin taken
          PROVE  x \in FreeUnits(r)
      <4>1. k # i
        <5>1. Span(free[i]) = taken
          BY <1>6 DEF Span, o
        <5> QED BY <3>2, <5>1
      <4>2. PICK j \in 1 .. n - 1 : r[j] = free[k]
        <5>1. CASE k < i
          <6>1. k \in 1 .. n - 1
            BY <1>1, <5>1
          <6> QED BY <2>2, <5>1, <6>1
        <5>2. CASE k > i
          <6>1. k - 1 \in 1 .. n - 1 /\ ~(k - 1 < i) /\ (k - 1) + 1 = k
            BY <1>1, <5>2
          <6> QED BY <2>2, <6>1
        <5> QED BY <1>1, <4>1, <5>1, <5>2
      <4> QED BY <2>2, <3>2, <4>2 DEF FreeUnits
    <3> QED BY <2>2, <3>1, <3>2 DEF FreeUnits
  <2>5. FreeUnits(r) = FreeUnits(free) \ taken
    BY <2>4 DEF FreeUnits
  <2> QED BY <1>5, <2>1, <2>3, <2>5 DEF o
<1>7. CASE free[i].size # size
  <2> DEFINE left == [offset |-> o + size, size |-> free[i].size - size]
             r == [free EXCEPT ![i] = left]
  <2>1. Taken(free, i, size) = r
    BY <1>7 DEF Taken, o
  <2>2. left \in Block /\ EndOf(left) = EndOf(free[i]) /\ left.offset = o + size
    <3>1. free[i].size - size \in Nat \ {0}
      BY <1>1, <1>7
    <3>2. EndOf(left) = EndOf(free[i])
      BY <1>1, <1>4 DEF EndOf, o
    <3> QED BY <1>1, <1>4, <3>1, <3>2 DEF Block
  <2> HIDE DEF left
  <2>3. /\ r \in Seq(Block) /\ Len(r) = n
        /\ \A j \in 1 .. n : r[j] = IF j = i THEN left ELSE free[j]
    BY <1>1, <2>2, ExceptSeq
  <2> HIDE DEF r
  <2>4. FreeList(r)
    <3>1. ASSUME NEW j \in 1 .. n, NEW k \in 1 .. n, j < k
          PROVE  EndOf(r[j]) < r[k].offset
      <4>1. EndOf(r[j]) = EndOf(free[j])
        BY <2>2, <2>3
      <4>2. r[k].offset >= free[k].offset /\ r[k].offset \in Nat
        BY <1>1, <1>4, <2>2, <2>3, SMTT(30) DEF o
      <4> QED BY <1>1, <1>2, <3>1, <4>1, <4>2
    <3> QED BY <2>3, <3>1 DEF FreeList
  <2>5. ASSUME NEW x \in 0 .. Arena - 1
        PROVE  x \in FreeUnits(r) <=> x \in FreeUnits(free) \ taken
    <3>1. Span(left) = Span(free[i]) \ taken /\ taken \subseteq Span(free[i])
      <4>1. Span(left) = o + size .. EndOf(free[i]) - 1 /\ Span(free[i]) = o .. EndOf(free[i]) - 1
        <5>1. /\ Span(left) = left.offset .. EndOf(left) - 1
              /\ Span(free[i]) = free[i].offset .. EndOf(free[i]) - 1
          BY <1>1, <2>2, SpanFacts
        <5> QED BY <2>2, <5>1 DEF o
      <4>2. \A p, s, e \in Nat : p + s =< e =>
                /\ (p + s .. e - 1) = (p .. e - 1) \ (p .. p + s - 1)
                /\ (p .. p + s - 1) \subseteq (p .. e - 1)
        OBVIOUS
      <4> QED BY <1>1, <1>4, <4>1, <4>2
    <3>2. \A k \in 1 .. n : k # i => Span(free[k]) \cap taken = {}
      <4>1. ASSUME NEW k \in 1 .. n, k # i, NEW y \in Span(free[k])
            PROVE  y \notin taken
        <5>1. y >= free[k].offset /\ y < EndOf(free[k]) /\ y \in Int
          BY <1>1 DEF Span
        <5>2. EndOf(free[k]) < o \/ EndOf(free[i]) < free[k].offset
          BY <1>3, <4>1
        <5> QED BY <1>1, <1>4, <5>1, <5>2
      <4> QED BY <4>1
    <3>3. ASSUME NEW j \in 1 .. n
          PROVE  x \in Span(r[j]) <=> x \in Span(free[j]) /\ x \notin taken
      BY <2>3, <3>1, <3>2
    <3> QED BY <2>3, <3>3 DEF FreeUnits
  <2>6. FreeUnits(r) = FreeUnits(free) \ taken
    BY <2>5 DEF FreeUnits
  <2> QED BY <1>5, <2>1, <2>4, <2>6 DEF o
<1> QED BY <1>6, <1>7

LEMMA LeastExists ==
    ASSUME NEW S \in SUBSET Nat, S # {}
    PROVE  \E i \in S : \A j \in S : i =< j
<1> DEFINE R == {ss \in Nat \X Nat : ss[1] < ss[2]}
<1>1. IsWellFoundedOn(R, Nat)
  BY NatLessThanWellFounded DEF OpToRel
<1>2. PICK i \in S : \A j \in S : ~(<<j, i>> \in R)
  <2> HIDE DEF R
  <2> QED BY <1>1, WFMin
<1>3. ASSUME NEW j \in S
      PROVE  i =< j
  <2>1. i \in Nat /\ j \in Nat /\ <<j, i>> \in Nat \X Nat
    OBVIOUS
  <2> QED BY <1>2, <2>1
<1> QED BY <1>3

\* In an ordered list, the blocks before a place are the first ones.
LEMMA FirstBlocks ==
    ASSUME NEW free, FreeList(free), NEW offset \in Nat
    PROVE  \E m \in 0 .. Len(free) :
               {j \in 1 .. Len(free) : free[j].offset < offset} = 1 .. m
<1> DEFINE n == Len(free)
           S == {k \in Nat : k =< n =>
                    \E m \in 0 .. k : {j \in 1 .. k : free[j].offset < offset} = 1 .. m}
<1>1. n \in Nat
  BY DEF FreeList
<1>2. 0 \in S
  <2>1. {j \in 1 .. 0 : free[j].offset < offset} = 1 .. 0
    OBVIOUS
  <2> QED BY <2>1
<1>3. ASSUME NEW k \in Nat, k \in S
      PROVE  k + 1 \in S
  <2> SUFFICES ASSUME k + 1 =< n
               PROVE  \E m \in 0 .. k + 1 :
                          {j \in 1 .. k + 1 : free[j].offset < offset} = 1 .. m
    OBVIOUS
  <2>1. PICK m \in 0 .. k : {j \in 1 .. k : free[j].offset < offset} = 1 .. m
    BY <1>1, <1>3
  <2>2. CASE free[k + 1].offset < offset
    <3>1. ASSUME NEW j \in 1 .. k
          PROVE  free[j].offset < offset
      <4>1. j \in 1 .. n /\ k + 1 \in 1 .. n /\ j < k + 1
        BY <1>1
      <4>2. /\ free[j].offset \in Nat /\ free[k + 1].offset \in Nat
            /\ free[j].offset < free[k + 1].offset
        BY <4>1, Ordered, BlockFacts
      <4> QED BY <2>2, <4>2
    <3>2. {j \in 1 .. k + 1 : free[j].offset < offset} = 1 .. k + 1
      <4>1. \A j \in 1 .. k + 1 : j \in 1 .. k \/ j = k + 1
        OBVIOUS
      <4> QED BY <2>2, <3>1, <4>1
    <3> QED BY <3>2
  <2>3. CASE ~(free[k + 1].offset < offset)
    <3>1. {j \in 1 .. k + 1 : free[j].offset < offset}
            = {j \in 1 .. k : free[j].offset < offset}
      <4>1. \A j : j \in 1 .. k + 1 <=> j \in 1 .. k \/ j = k + 1
        OBVIOUS
      <4> QED BY <2>3, <4>1
    <3> QED BY <2>1, <3>1
  <2> QED BY <2>2, <2>3
<1>4. \A k \in Nat : k \in S
  <2> HIDE DEF S
  <2> QED BY <1>2, <1>3, NatInductive
<1>5. n \in S
  BY <1>1, <1>4
<1> QED BY <1>1, <1>5

\* A range that is not free lies beside every block.
LEMMA Beside ==
    ASSUME NEW free, FreeList(free), NEW offset \in Nat, NEW size \in Nat, size > 0,
           offset + size =< Arena,
           (offset .. offset + size - 1) \cap FreeUnits(free) = {},
           NEW j \in 1 .. Len(free)
    PROVE  EndOf(free[j]) =< offset \/ offset + size =< free[j].offset
<1> SUFFICES ASSUME EndOf(free[j]) > offset, offset + size > free[j].offset
             PROVE  FALSE
  <2>1. EndOf(free[j]) \in Nat /\ free[j].offset \in Nat
    BY Ordered, BlockFacts
  <2> QED BY <2>1
<1> DEFINE x == IF offset >= free[j].offset THEN offset ELSE free[j].offset
<1>1. /\ free[j] \in Block /\ EndOf(free[j]) \in Nat /\ free[j].offset \in Nat
      /\ EndOf(free[j]) = free[j].offset + free[j].size
      /\ EndOf(free[j]) =< Arena /\ Arena \in Nat
      /\ free[j].size \in Nat /\ free[j].size > 0
  BY Ordered, BlockFacts
<1>2. x \in offset .. offset + size - 1
  BY <1>1
<1>3. x \in free[j].offset .. EndOf(free[j]) - 1 /\ x \in 0 .. Arena - 1
  BY <1>1
<1> HIDE DEF x
<1>4. x \in FreeUnits(free)
  BY <1>1, <1>3, SpanFacts DEF FreeUnits
<1> QED BY <1>2, <1>4

\* Blocks in order, of which some may touch.
Touching(s) ==
    /\ s \in Seq(Block)
    /\ \A i, j \in 1 .. Len(s) : i < j => EndOf(s[i]) =< s[j].offset

\* If no other two blocks touch, joining two makes the list a free list.
LEMMA JoinedFacts ==
    ASSUME NEW s, Touching(s), NEW k \in Int,
           \A i, j \in 1 .. Len(s) :
               i < j /\ EndOf(s[i]) = s[j].offset => i = k /\ j = k + 1
    PROVE  FreeList(Joined(s, k)) /\ FreeUnits(Joined(s, k)) = FreeUnits(s)
<1> DEFINE n == Len(s)
<1>1. n \in Nat /\ DOMAIN s = 1 .. n /\ s \in Seq(Block)
  BY DEF Touching
<1>2. /\ Arena \in Nat
      /\ \A i \in 1 .. n :
             /\ s[i] \in Block /\ s[i].offset \in Nat /\ s[i].size \in Nat
             /\ s[i].size > 0 /\ EndOf(s[i]) = s[i].offset + s[i].size
             /\ EndOf(s[i]) \in Nat /\ EndOf(s[i]) =< Arena
  <2>1. \A i \in 1 .. n : s[i] \in Block
    BY <1>1, ElementOfSeq
  <2> QED BY <2>1, BlockFacts, GraphAllocAssumption DEF GraphAllocAssumption
<1>3. \A i, j \in 1 .. n : i < j => EndOf(s[i]) =< s[j].offset
  BY DEF Touching
<1>4. CASE ~(k \in 1 .. n - 1 /\ EndOf(s[k]) = s[k + 1].offset)
  <2>1. Joined(s, k) = s
    BY <1>4 DEF Joined
  <2>2. ASSUME NEW i \in 1 .. n, NEW j \in 1 .. n, i < j
        PROVE  EndOf(s[i]) < s[j].offset
    <3>1. EndOf(s[i]) # s[j].offset
      <4> SUFFICES ASSUME EndOf(s[i]) = s[j].offset
                   PROVE  FALSE
        OBVIOUS
      <4>1. i = k /\ j = k + 1
        BY <2>2
      <4>2. k \in 1 .. n - 1
        BY <1>1, <4>1
      <4> QED BY <1>4, <4>1, <4>2
    <3> QED BY <1>2, <1>3, <2>2, <3>1
  <2> QED BY <1>1, <2>1, <2>2 DEF FreeList
<1>5. CASE k \in 1 .. n - 1 /\ EndOf(s[k]) = s[k + 1].offset
  <2> DEFINE both == [s[k] EXCEPT !.size = @ + s[k + 1].size]
             w == [s EXCEPT ![k] = both]
             r == RemoveAt(w, k + 1)
  <2>1. k \in 1 .. n /\ k + 1 \in 1 .. n /\ k < k + 1 /\ k \in Nat
    BY <1>1, <1>5
  <2>2. Joined(s, k) = r
    BY <1>1, <1>5, <2>1 DEF Joined
  <2>3. /\ both \in Block /\ both.offset = s[k].offset
        /\ EndOf(both) = EndOf(s[k + 1])
    <3>1. s[k] = [offset |-> s[k].offset, size |-> s[k].size]
      BY <1>2, <2>1, BlockFacts
    <3>2. both = [offset |-> s[k].offset, size |-> s[k].size + s[k + 1].size]
      BY <3>1
    <3> HIDE DEF both
    <3>3. both.offset = s[k].offset /\ both.size = s[k].size + s[k + 1].size
      BY <3>2
    <3>4. EndOf(both) = EndOf(s[k + 1])
      <4>1. EndOf(both) = s[k].offset + (s[k].size + s[k + 1].size)
        BY <3>3 DEF EndOf
      <4> QED BY <1>2, <1>5, <2>1, <4>1
    <3>5. s[k].size + s[k + 1].size \in Nat \ {0}
      BY <1>2, <2>1
    <3> QED BY <1>2, <2>1, <3>2, <3>3, <3>4, <3>5 DEF Block
  <2> HIDE DEF both
  <2>4. /\ w \in Seq(Block) /\ Len(w) = n
        /\ \A j \in 1 .. n : w[j] = IF j = k THEN both ELSE s[j]
    BY <1>1, <2>1, <2>3, ExceptSeq
  <2> HIDE DEF w
  <2>5. /\ r \in Seq(Block) /\ Len(r) = n - 1
        /\ \A j \in 1 .. n - 1 : r[j] = IF j < k + 1 THEN w[j] ELSE w[j + 1]
    BY <2>1, <2>4, RemoveFacts
  <2> HIDE DEF r
  <2>6. \A j \in 1 .. n - 1 :
            r[j] = IF j < k THEN s[j] ELSE IF j = k THEN both ELSE s[j + 1]
    <3> SUFFICES ASSUME NEW j \in 1 .. n - 1
                 PROVE  r[j] = IF j < k THEN s[j] ELSE IF j = k THEN both ELSE s[j + 1]
      OBVIOUS
    <3>1. j \in 1 .. n /\ j + 1 \in 1 .. n /\ (j < k + 1 <=> j < k \/ j = k)
          /\ (~(j < k + 1) => j + 1 # k)
      BY <1>1
    <3> QED BY <2>4, <2>5, <3>1
  <2>7. FreeList(r)
    <3>1. ASSUME NEW i \in 1 .. n - 1, NEW j \in 1 .. n - 1, i < j
          PROVE  EndOf(r[i]) < r[j].offset
      <4>1. PICK i2 \in 1 .. n : /\ EndOf(r[i]) = EndOf(s[i2])
                                 /\ i2 = IF i < k THEN i ELSE i + 1
        BY <1>1, <2>3, <2>6, <2>1
      <4>2. PICK j2 \in 1 .. n : /\ r[j].offset = s[j2].offset
                                 /\ j2 = IF j =< k THEN j ELSE j + 1
        BY <1>1, <2>3, <2>6, <2>1
      <4>3. i2 < j2 /\ ~(i2 = k /\ j2 = k + 1)
        BY <1>1, <2>1, <3>1, <4>1, <4>2
      <4>4. EndOf(s[i2]) =< s[j2].offset /\ EndOf(s[i2]) # s[j2].offset
        BY <1>3, <4>3
      <4> QED BY <1>2, <4>1, <4>2, <4>4, SMTT(30)
    <3> QED BY <2>5, <3>1 DEF FreeList
  <2>8. Span(both) = Span(s[k]) \cup Span(s[k + 1])
    <3>1. \A a, b, c \in Nat : a =< b /\ b =< c =>
              (a .. c - 1) = (a .. b - 1) \cup (b .. c - 1)
      OBVIOUS
    <3>2. /\ Span(both) = s[k].offset .. EndOf(s[k + 1]) - 1
          /\ Span(s[k]) = s[k].offset .. EndOf(s[k]) - 1
          /\ Span(s[k + 1]) = EndOf(s[k]) .. EndOf(s[k + 1]) - 1
      BY <1>2, <1>5, <2>1, <2>3, SpanFacts
    <3>3. s[k].offset =< EndOf(s[k]) /\ EndOf(s[k]) =< EndOf(s[k + 1])
      BY <1>2, <1>5, <2>1, SMTT(30)
    <3> QED BY <1>2, <2>1, <3>1, <3>2, <3>3
  <2>9. ASSUME NEW x \in 0 .. Arena - 1
        PROVE  x \in FreeUnits(r) <=> x \in FreeUnits(s)
    <3>1. ASSUME NEW j \in 1 .. n - 1, x \in Span(r[j])
          PROVE  x \in FreeUnits(s)
      <4>1. j \in 1 .. n /\ j + 1 \in 1 .. n
        BY <1>1
      <4> QED BY <2>1, <2>6, <2>8, <3>1, <4>1 DEF FreeUnits
    <3>2. ASSUME NEW j \in 1 .. n, x \in Span(s[j])
          PROVE  x \in FreeUnits(r)
      <4>1. CASE j < k
        <5>1. j \in 1 .. n - 1
          BY <1>1, <2>1, <4>1
        <5> QED BY <2>5, <2>6, <3>2, <4>1, <5>1 DEF FreeUnits
      <4>2. CASE j = k \/ j = k + 1
        <5>1. k \in 1 .. n - 1 /\ r[k] = both
          BY <1>5, <2>6
        <5> QED BY <2>5, <2>8, <3>2, <4>2, <5>1 DEF FreeUnits
      <4>3. CASE j > k + 1
        <5>1. j - 1 \in 1 .. n - 1 /\ ~(j - 1 < k) /\ j - 1 # k /\ (j - 1) + 1 = j
          BY <1>1, <2>1, <4>3
        <5>2. r[j - 1] = s[j]
          BY <2>6, <5>1
        <5> QED BY <2>5, <3>2, <5>1, <5>2 DEF FreeUnits
      <4>4. j < k \/ j = k \/ j = k + 1 \/ j > k + 1
        BY <2>1
      <4> QED BY <4>1, <4>2, <4>3, <4>4
    <3> QED BY <2>5, <3>1, <3>2 DEF FreeUnits
  <2>10. FreeUnits(r) = FreeUnits(s)
    BY <2>9 DEF FreeUnits
  <2> QED BY <2>2, <2>7, <2>10
<1> QED BY <1>4, <1>5

\* Giving a range back puts it into the free list, and nothing else.
LEMMA FreedFacts ==
    ASSUME NEW free, FreeList(free), NEW offset \in Nat, NEW size \in Nat, size > 0,
           offset + size =< Arena,
           (offset .. offset + size - 1) \cap FreeUnits(free) = {}
    PROVE  /\ FreeList(Freed(free, offset, size))
           /\ FreeUnits(Freed(free, offset, size))
                = FreeUnits(free) \cup (offset .. offset + size - 1)
<1> DEFINE n == Len(free)
           range == offset .. offset + size - 1
           Touches(b) == EndOf(b) = offset \/ offset + size = b.offset
           at == {i \in 1 .. n : Touches(free[i])}
<1>1. /\ n \in Nat /\ DOMAIN free = 1 .. n /\ free \in Seq(Block) /\ Arena \in Nat
      /\ offset + size \in Nat
      /\ \A j \in 1 .. n :
             /\ free[j] \in Block /\ free[j].offset \in Nat /\ free[j].size \in Nat
             /\ free[j].size > 0 /\ EndOf(free[j]) = free[j].offset + free[j].size
             /\ EndOf(free[j]) \in Nat /\ EndOf(free[j]) =< Arena
  <2>1. n \in Nat /\ DOMAIN free = 1 .. n /\ free \in Seq(Block) /\ offset + size \in Nat
    BY DEF FreeList
  <2>2. \A j \in 1 .. n : free[j] \in Block
    BY <2>1, ElementOfSeq
  <2> QED BY <2>1, <2>2, BlockFacts, GraphAllocAssumption DEF GraphAllocAssumption
<1>shape. \A j \in 1 .. n :
             /\ free[j] = [offset |-> free[j].offset, size |-> free[j].size]
             /\ Span(free[j]) = free[j].offset .. EndOf(free[j]) - 1
  BY <1>1, BlockFacts, SpanFacts
<1>2. \A j, k \in 1 .. n : j < k => EndOf(free[j]) < free[k].offset
  BY DEF FreeList
<1>3. \A j \in 1 .. n : EndOf(free[j]) =< offset \/ offset + size =< free[j].offset
  BY Beside
<1>4. range \subseteq 0 .. Arena - 1
  BY <1>1
<1>5. CASE at = {}
  <2> DEFINE before == {j \in 1 .. n : free[j].offset < offset}
             new == [offset |-> offset, size |-> size]
  <2>1. PICK m \in 0 .. n : before = 1 .. m
    BY FirstBlocks
  <2>2. Cardinality(before) = m
    <3>1. m \in Nat
      BY <1>1
    <3>2. Cardinality(1 .. m) = m
      BY <3>1, FS_Interval
    <3> QED BY <2>1, <3>2
  <2> DEFINE p == m + 1
             r == InsertAt(free, p, new)
  <2>3. Freed(free, offset, size) = r
    BY <1>5, <2>2 DEF Freed
  <2>4. new \in Block /\ EndOf(new) = offset + size /\ new.offset = offset
    BY <1>1 DEF Block, EndOf
  <2>5. Span(new) = range
    BY <2>4, SpanFacts
  <2> HIDE DEF new
  <2>6. m + 1 \in 1 .. n + 1 /\ m \in Nat
    BY <1>1
  <2>7. /\ r \in Seq(Block) /\ Len(r) = n + 1
        /\ \A j \in 1 .. n + 1 : r[j] = IF j < m + 1 THEN free[j]
                                        ELSE IF j = m + 1 THEN new ELSE free[j - 1]
    <3>1. p \in 1 .. Len(free) + 1
      BY <2>6
    <3> HIDE DEF p
    <3>2. /\ r \in Seq(Block) /\ Len(r) = n + 1
          /\ \A j \in 1 .. n + 1 : r[j] = IF j < p THEN free[j]
                                          ELSE IF j = p THEN new ELSE free[j - 1]
      BY <1>1, <2>4, <3>1, InsertFacts
    <3> QED BY <3>2 DEF p
  <2> HIDE DEF r, p
  <2>8. \A j \in 1 .. n : IF j =< m THEN EndOf(free[j]) < offset
                                    ELSE offset + size < free[j].offset
    <3> SUFFICES ASSUME NEW j \in 1 .. n
                 PROVE  IF j =< m THEN EndOf(free[j]) < offset
                                  ELSE offset + size < free[j].offset
      OBVIOUS
    <3>1. EndOf(free[j]) # offset /\ offset + size # free[j].offset
      BY <1>5
    <3>2. j =< m <=> free[j].offset < offset
      <4>1. j =< m <=> j \in 1 .. m
        BY <1>1, <2>6
      <4> QED BY <2>1, <4>1
    <3>3. /\ EndOf(free[j]) =< offset \/ offset + size =< free[j].offset
          /\ EndOf(free[j]) = free[j].offset + free[j].size
          /\ free[j].offset \in Nat /\ free[j].size \in Nat /\ free[j].size > 0
      BY <1>1, <1>3
    <3> HIDE DEF at, n
    <3>4. CASE j =< m
      <4>1. free[j].offset < offset
        BY <3>2, <3>4
      <4>2. ~(offset + size =< free[j].offset)
        BY <3>3, <4>1
      <4> QED BY <3>1, <3>3, <3>4, <4>2
    <3>5. CASE ~(j =< m)
      <4>1. ~(free[j].offset < offset)
        BY <3>2, <3>5
      <4>2. ~(EndOf(free[j]) =< offset)
        BY <3>3, <4>1
      <4> QED BY <3>1, <3>3, <3>5, <4>2
    <3> QED BY <3>4, <3>5
  <2>9. FreeList(r)
    <3>1. ASSUME NEW j \in 1 .. n + 1, NEW k \in 1 .. n + 1, j < k
          PROVE  EndOf(r[j]) < r[k].offset
      <4>1. CASE j < m + 1 /\ k < m + 1
        <5>1. j \in 1 .. n /\ k \in 1 .. n
          BY <1>1, <2>6, <4>1
        <5> QED BY <1>2, <2>7, <3>1, <4>1, <5>1
      <4>2. CASE j < m + 1 /\ k = m + 1
        <5>1. j \in 1 .. n /\ j =< m
          BY <1>1, <2>6, <4>2
        <5> QED BY <2>4, <2>7, <2>8, <4>2, <5>1
      <4>3. CASE j < m + 1 /\ k > m + 1
        <5>1. j \in 1 .. n /\ k - 1 \in 1 .. n /\ j < k - 1 /\ ~(k < m + 1) /\ k # m + 1
          BY <1>1, <2>6, <4>3
        <5>2. r[j] = free[j] /\ r[k] = free[k - 1]
          BY <2>7, <4>3, <5>1
        <5> QED BY <1>2, <5>1, <5>2
      <4>4. CASE j = m + 1
        <5>1. k - 1 \in 1 .. n /\ ~(k - 1 =< m) /\ ~(k < m + 1) /\ k # m + 1 /\ ~(j < m + 1)
          BY <1>1, <2>6, <3>1, <4>4
        <5>2. r[j] = new /\ r[k] = free[k - 1]
          BY <2>7, <4>4, <5>1
        <5> QED BY <2>4, <2>8, <5>1, <5>2
      <4>5. CASE j > m + 1
        <5>1. /\ j - 1 \in 1 .. n /\ k - 1 \in 1 .. n /\ j - 1 < k - 1
              /\ ~(j < m + 1) /\ j # m + 1 /\ ~(k < m + 1) /\ k # m + 1
          BY <1>1, <2>6, <3>1, <4>5
        <5>2. r[j] = free[j - 1] /\ r[k] = free[k - 1]
          BY <2>7, <5>1
        <5> QED BY <1>2, <5>1, <5>2
      <4>6. \/ j < m + 1 /\ (k < m + 1 \/ k = m + 1 \/ k > m + 1)
            \/ j = m + 1 \/ j > m + 1
        BY <1>1, <2>6
      <4> QED BY <4>1, <4>2, <4>3, <4>4, <4>5, <4>6
    <3> QED BY <2>7, <3>1 DEF FreeList
  <2>10. ASSUME NEW x \in 0 .. Arena - 1
         PROVE  x \in FreeUnits(r) <=> x \in FreeUnits(free) \cup range
    <3>1. ASSUME NEW j \in 1 .. n + 1, x \in Span(r[j])
          PROVE  x \in FreeUnits(free) \cup range
      <4>1. CASE j < m + 1
        <5>1. j \in 1 .. n
          BY <1>1, <2>6, <4>1
        <5> QED BY <2>7, <3>1, <4>1, <5>1 DEF FreeUnits
      <4>2. CASE j = m + 1
        BY <2>5, <2>7, <3>1, <4>2
      <4>3. CASE j > m + 1
        <5>1. j - 1 \in 1 .. n /\ ~(j < m + 1) /\ j # m + 1
          BY <1>1, <2>6, <4>3
        <5> QED BY <2>7, <3>1, <5>1 DEF FreeUnits
      <4>4. j < m + 1 \/ j = m + 1 \/ j > m + 1
        BY <1>1, <2>6
      <4> QED BY <4>1, <4>2, <4>3, <4>4
    <3>2. ASSUME x \in range
          PROVE  x \in FreeUnits(r)
      <4>1. m + 1 \in 1 .. n + 1 /\ ~(m + 1 < m + 1)
        BY <2>6
      <4>2. r[m + 1] = new
        BY <2>7, <4>1
      <4> QED BY <2>5, <2>7, <3>2, <4>1, <4>2 DEF FreeUnits
    <3>3. ASSUME NEW j \in 1 .. n, x \in Span(free[j])
          PROVE  x \in FreeUnits(r)
      <4>1. CASE j < m + 1
        <5>1. j \in 1 .. n + 1
          BY <1>1
        <5> QED BY <2>7, <3>3, <4>1, <5>1 DEF FreeUnits
      <4>2. CASE ~(j < m + 1)
        <5>1. j + 1 \in 1 .. n + 1 /\ ~(j + 1 < m + 1) /\ j + 1 # m + 1 /\ (j + 1) - 1 = j
          BY <1>1, <2>6, <4>2
        <5>2. r[j + 1] = free[j]
          BY <2>7, <5>1
        <5> QED BY <2>7, <3>3, <5>1, <5>2 DEF FreeUnits
      <4> QED BY <4>1, <4>2
    <3> QED BY <2>7, <3>1, <3>2, <3>3 DEF FreeUnits
  <2>11. FreeUnits(r) = FreeUnits(free) \cup range
    BY <1>4, <2>10 DEF FreeUnits
  <2> QED BY <2>3, <2>9, <2>11
<1>6. CASE at # {}
  <2> DEFINE i == CHOOSE i \in at : \A j \in at : i =< j
  <2>1. i \in at /\ \A j \in at : i =< j
    <3>1. at \in SUBSET Nat
      OBVIOUS
    <3>2. \E j \in at : \A k \in at : j =< k
      <4> HIDE DEF at
      <4> QED BY <1>6, <3>1, LeastExists
    <3> QED BY <3>2
  <2> DEFINE Result == IF EndOf(free[i]) = offset
                       THEN Joined([free EXCEPT ![i].size = @ + size], i)
                       ELSE Joined([free EXCEPT ![i] = [offset |-> offset,
                                                        size |-> @.size + size]], i - 1)
  <2>2. Freed(free, offset, size) = Result
    BY <1>6 DEF Freed
  <2> HIDE DEF i
  <2>3. i \in 1 .. n /\ Touches(free[i]) /\ i \in Int
    BY <1>1, <2>1
  <2>4. \A j \in 1 .. n : j < i => ~Touches(free[j])
    BY <1>1, <2>1, <2>3
  <2> HIDE DEF at
  \* What is common to the cases: block i grows by the range.
  <2>5. ASSUME NEW b \in Block, Span(b) = Span(free[i]) \cup range,
               NEW s, s = [free EXCEPT ![i] = b], Touching(s), NEW k \in Int,
               \A j1, j2 \in 1 .. n :
                   j1 < j2 /\ EndOf(s[j1]) = s[j2].offset => j1 = k /\ j2 = k + 1
        PROVE  /\ FreeList(Joined(s, k))
               /\ FreeUnits(Joined(s, k)) = FreeUnits(free) \cup range
    <3>1. /\ s \in Seq(Block) /\ Len(s) = n
          /\ \A j \in 1 .. n : s[j] = IF j = i THEN b ELSE free[j]
      BY <1>1, <2>3, <2>5, ExceptSeq
    <3>2. FreeList(Joined(s, k)) /\ FreeUnits(Joined(s, k)) = FreeUnits(s)
      BY <2>5, <3>1, JoinedFacts
    <3>3. ASSUME NEW x \in 0 .. Arena - 1
          PROVE  x \in FreeUnits(s) <=> x \in FreeUnits(free) \cup range
      <4>1. ASSUME NEW j \in 1 .. n
            PROVE  x \in Span(s[j]) <=> x \in Span(free[j]) \/ (j = i /\ x \in range)
        BY <2>5, <3>1
      <4> QED BY <2>3, <3>1, <4>1 DEF FreeUnits
    <3>4. FreeUnits(s) = FreeUnits(free) \cup range
      BY <1>4, <3>3 DEF FreeUnits
    <3> QED BY <3>2, <3>4
  <2>6. CASE EndOf(free[i]) = offset
    <3> DEFINE b == [offset |-> free[i].offset, size |-> free[i].size + size]
               s == [free EXCEPT ![i] = b]
    <3>1. Result = Joined(s, i)
      <4>1. [free[i] EXCEPT !.size = @ + size] = b
        <5>1. free[i] = [offset |-> free[i].offset, size |-> free[i].size]
          BY <1>shape, <2>3
        <5> QED BY <5>1
      <4>2. [free EXCEPT ![i].size = @ + size] = [free EXCEPT ![i] = b]
        BY <1>1, <2>3, <4>1
      <4> QED BY <1>1, <2>3, <2>6, <4>2
    <3>2. b \in Block /\ b.offset = free[i].offset /\ EndOf(b) = offset + size
      <4>1. EndOf(b) = free[i].offset + (free[i].size + size)
        BY DEF EndOf
      <4>2. EndOf(b) = offset + size
        BY <1>1, <2>3, <2>6, <4>1
      <4>3. free[i].size + size \in Nat \ {0} /\ free[i].offset \in Nat
        BY <1>1, <2>3
      <4> QED BY <4>2, <4>3 DEF Block
    <3> HIDE DEF b
    <3>3. Span(b) = Span(free[i]) \cup range
      <4>1. \A p, q, t \in Nat : p =< q /\ q =< t =>
                (p .. t - 1) = (p .. q - 1) \cup (q .. t - 1)
        OBVIOUS
      <4>2. Span(b) = free[i].offset .. offset + size - 1
            /\ Span(free[i]) = free[i].offset .. offset - 1
        BY <1>1, <2>3, <2>6, <3>2, SpanFacts
      <4>3. free[i].offset =< offset /\ offset =< offset + size /\ free[i].offset \in Nat
        BY <1>1, <2>3, <2>6, SMTT(30)
      <4> QED BY <1>1, <4>1, <4>2, <4>3
    <3>4. /\ s \in Seq(Block) /\ Len(s) = n
          /\ \A j \in 1 .. n : s[j] = IF j = i THEN b ELSE free[j]
      BY <1>1, <2>3, <3>2, ExceptSeq
    <3> HIDE DEF s
    <3>5. ASSUME NEW j \in 1 .. n, NEW k \in 1 .. n, j < k
          PROVE  /\ EndOf(s[j]) =< s[k].offset
                 /\ EndOf(s[j]) = s[k].offset => j = i /\ k = i + 1
      <4>1. CASE j = i
        <5>1. EndOf(free[i]) < free[k].offset
          BY <1>2, <2>3, <3>5, <4>1
        <5>2. offset + size =< free[k].offset
          <6>1. /\ EndOf(free[k]) =< offset \/ offset + size =< free[k].offset
                /\ EndOf(free[k]) = free[k].offset + free[k].size
                /\ free[k].offset \in Nat /\ free[k].size \in Nat
            BY <1>1, <1>3
          <6>2. offset < free[k].offset
            BY <2>6, <5>1
          <6> QED BY <6>1, <6>2
        <5>3. k # i /\ s[j] = b /\ s[k] = free[k]
          <6>1. k # i
            BY <2>3, <3>5, <4>1
          <6> QED BY <3>4, <4>1, <6>1
        <5>4. EndOf(s[j]) = s[k].offset => k = i + 1
          <6> SUFFICES ASSUME offset + size = free[k].offset, k # i + 1
                       PROVE  FALSE
            BY <3>2, <5>3
          <6>1. i + 1 \in 1 .. n /\ i < i + 1 /\ i + 1 < k
            BY <1>1, <2>3, <3>5, <4>1
          <6>2. EndOf(free[i]) < free[i + 1].offset /\ EndOf(free[i + 1]) < free[k].offset
            BY <1>2, <2>3, <6>1
          <6>3. EndOf(free[i + 1]) =< offset \/ offset + size =< free[i + 1].offset
            BY <1>3, <6>1
          <6>4. /\ offset < free[i + 1].offset
                /\ free[i + 1].offset \in Nat /\ free[i + 1].size \in Nat
                /\ free[i + 1].size > 0
                /\ EndOf(free[i + 1]) = free[i + 1].offset + free[i + 1].size
            BY <1>1, <2>6, <6>1, <6>2
          <6>5. EndOf(free[i + 1]) < offset + size
            BY <6>2
          <6> QED BY <6>3, <6>4, <6>5
        <5> QED BY <3>2, <4>1, <5>2, <5>3, <5>4
      <4>2. CASE j # i
        <5>1. s[j] = free[j] /\ s[k].offset = free[k].offset
          BY <3>2, <3>4, <4>2
        <5> QED BY <1>1, <1>2, <3>5, <5>1
      <4> QED BY <4>1, <4>2
    <3>6. Touching(s)
      BY <3>4, <3>5 DEF Touching
    <3>7. \A j1, j2 \in 1 .. n :
              j1 < j2 /\ EndOf(s[j1]) = s[j2].offset => j1 = i /\ j2 = i + 1
      BY <3>5
    <3>8. s = [free EXCEPT ![i] = b]
      BY DEF s
    <3> HIDE DEF Result, s
    <3>9. FreeList(Joined(s, i)) /\ FreeUnits(Joined(s, i)) = FreeUnits(free) \cup range
      BY <2>3, <2>5, <3>2, <3>3, <3>6, <3>7, <3>8
    <3> QED BY <2>2, <3>1, <3>9
  <2>7. CASE EndOf(free[i]) # offset
    <3> DEFINE b == [offset |-> offset, size |-> free[i].size + size]
               s == [free EXCEPT ![i] = b]
    <3>1. Result = Joined(s, i - 1)
      BY <1>1, <2>3, <2>7
    <3>2. /\ b \in Block /\ b.offset = offset /\ EndOf(b) = EndOf(free[i])
          /\ offset + size = free[i].offset
      <4>1. offset + size = free[i].offset
        BY <2>3, <2>7
      <4>2. EndOf(b) = offset + (free[i].size + size)
        BY DEF EndOf
      <4>3. EndOf(b) = EndOf(free[i])
        BY <1>1, <2>3, <4>1, <4>2
      <4>4. free[i].size + size \in Nat \ {0}
        BY <1>1, <2>3
      <4> QED BY <1>1, <2>3, <4>1, <4>3, <4>4 DEF Block
    <3> HIDE DEF b
    <3>3. Span(b) = Span(free[i]) \cup range
      <4>1. \A p, q, t \in Nat : p =< q /\ q =< t =>
                (p .. t - 1) = (p .. q - 1) \cup (q .. t - 1)
        OBVIOUS
      <4>2. Span(b) = offset .. EndOf(free[i]) - 1
            /\ Span(free[i]) = offset + size .. EndOf(free[i]) - 1
        BY <1>1, <2>3, <3>2, SpanFacts
      <4>3. offset =< offset + size /\ offset + size =< EndOf(free[i])
        BY <1>1, <2>3, <3>2, SMTT(30)
      <4> QED BY <1>1, <2>3, <4>1, <4>2, <4>3
    <3>4. /\ s \in Seq(Block) /\ Len(s) = n
          /\ \A j \in 1 .. n : s[j] = IF j = i THEN b ELSE free[j]
      BY <1>1, <2>3, <3>2, ExceptSeq
    <3> HIDE DEF s
    <3>5. ASSUME NEW j \in 1 .. n, NEW k \in 1 .. n, j < k
          PROVE  EndOf(s[j]) < s[k].offset
      <4>1. CASE k = i
        <5>1. EndOf(free[j]) < free[i].offset /\ s[j] = free[j] /\ s[k] = b
          BY <1>1, <1>2, <3>4, <3>5, <4>1
        <5>2. EndOf(free[j]) =< offset
          <6>1. /\ EndOf(free[j]) =< offset \/ offset + size =< free[j].offset
                /\ EndOf(free[j]) = free[j].offset + free[j].size
                /\ free[j].offset \in Nat /\ free[j].size \in Nat /\ free[j].size > 0
            BY <1>1, <1>3
          <6>2. EndOf(free[j]) < offset + size
            BY <3>2, <5>1
          <6> QED BY <6>1, <6>2
        <5>3. EndOf(free[j]) # offset
          BY <2>4, <3>5, <4>1
        <5> QED BY <1>1, <3>2, <5>1, <5>2, <5>3
      <4>2. CASE k # i
        <5>1. s[k] = free[k] /\ EndOf(s[j]) = EndOf(free[j])
          BY <3>2, <3>4, <4>2
        <5> QED BY <1>2, <3>5, <5>1
      <4> QED BY <4>1, <4>2
    <3>6. \A j \in 1 .. n : EndOf(s[j]) \in Nat /\ s[j].offset \in Nat
      BY <1>1, <3>2, <3>4
    <3>7. Touching(s)
      BY <3>4, <3>5, <3>6 DEF Touching
    <3>8. \A j1, j2 \in 1 .. n :
              j1 < j2 /\ EndOf(s[j1]) = s[j2].offset => j1 = i - 1 /\ j2 = (i - 1) + 1
      BY <3>5, <3>6
    <3>9. s = [free EXCEPT ![i] = b] /\ i - 1 \in Int
      BY <2>3 DEF s
    <3> HIDE DEF Result, s
    <3>10. /\ FreeList(Joined(s, i - 1))
           /\ FreeUnits(Joined(s, i - 1)) = FreeUnits(free) \cup range
      BY <2>5, <3>2, <3>3, <3>7, <3>8, <3>9
    <3> QED BY <2>2, <3>1, <3>10
  <2> QED BY <2>6, <2>7
<1> QED BY <1>5, <1>6

-----------------------------------------------------------------------------
(* Who holds what.                                                         *)

LEMMA AlignedFacts ==
    ASSUME NEW size \in Nat, size > 0
    PROVE  Aligned(size) \in Nat /\ Aligned(size) >= size /\ Aligned(size) > 0
<1>1. Alignment \in Nat /\ Alignment > 0
  BY GraphAllocAssumption DEF GraphAllocAssumption
<1>2. \A a, b \in Nat : b > 0 =>
          /\ a \div b \in Nat
          /\ (a \div b) * b \in Nat
          /\ a < (a \div b) * b + b
  OBVIOUS
<1>3. size + Alignment - 1 \in Nat
  BY <1>1
<1> DEFINE q == ((size + Alignment - 1) \div Alignment) * Alignment
<1>4. q \in Nat /\ size + Alignment - 1 < q + Alignment
  BY <1>1, <1>2, <1>3
<1>5. Aligned(size) = q
  BY DEF Aligned
<1> HIDE DEF q
<1> QED BY <1>1, <1>4, <1>5

\* What the allocator remembers of a tensor.
Slot == [children : Int, views : Int, offset : 0 .. Arena, allocated : BOOLEAN]

HeldIn(g, h, t) == h[t].offset .. h[t].offset + Aligned(g.tensor[t].size) - 1

\* The memory a tensor holds is not free, and nobody else holds it; views hold none.
HoldsAlone(g, h, free, t) ==
    /\ g.tensor[t].view_src = NoTensor
    /\ h[t].offset + Aligned(g.tensor[t].size) =< Arena
    /\ HeldIn(g, h, t) \cap FreeUnits(free) = {}
    /\ \A t2 \in DOMAIN g.tensor \ {t} :
           h[t2].allocated => HeldIn(g, h, t) \cap HeldIn(g, h, t2) = {}

\* Free memory and the memory held make up the arena.
Partition(g, h, free) ==
    /\ h \in [DOMAIN g.tensor -> Slot]
    /\ FreeList(free)
    /\ \A t \in DOMAIN g.tensor : h[t].allocated => HoldsAlone(g, h, free, t)
    /\ \A x \in (0 .. Arena - 1) \ FreeUnits(free) :
           \E t \in DOMAIN g.tensor : h[t].allocated /\ x \in HeldIn(g, h, t)

\* The states of the allocator.
Allocator(g) ==
    {a \in [hash : [DOMAIN g.tensor -> Slot], free : Seq(Block),
            max : 0 .. Arena, aborted : BOOLEAN] :
        Partition(g, a.hash, a.free)}

LEMMA TensorFacts ==
    ASSUME NEW g, Wellformed(g), NEW t \in DOMAIN g.tensor
    PROVE  /\ g.tensor[t].size \in Nat /\ g.tensor[t].size > 0
           /\ Aligned(g.tensor[t].size) \in Nat /\ Aligned(g.tensor[t].size) > 0
           /\ g.tensor[t].src \in Seq(DOMAIN g.tensor)
           /\ g.tensor[t].view_src # NoTensor =>
                /\ g.tensor[t].view_src \in DOMAIN g.tensor
                /\ g.tensor[g.tensor[t].view_src].view_src = NoTensor
<1>1. g.tensor[t] \in TensorType /\ g.tensor[t].src \in Seq(DOMAIN g.tensor)
  BY DEF Wellformed
<1>2. g.tensor[t].size \in Nat /\ g.tensor[t].size > 0
  BY <1>1 DEF TensorType
<1>3. g.tensor[t].view_src # NoTensor =>
         /\ g.tensor[t].view_src \in DOMAIN g.tensor
         /\ g.tensor[g.tensor[t].view_src].view_src = NoTensor
  BY DEF Wellformed
<1> QED BY <1>1, <1>2, <1>3, AlignedFacts

\* Only offsets and the marks of what is allocated count.
LEMMA SamePartition ==
    ASSUME NEW g, NEW h, NEW free, Partition(g, h, free),
           NEW h2 \in [DOMAIN g.tensor -> Slot],
           \A t \in DOMAIN g.tensor : /\ h2[t].allocated = h[t].allocated
                                      /\ h2[t].offset = h[t].offset
    PROVE  Partition(g, h2, free)
<1>1. \A t \in DOMAIN g.tensor : HeldIn(g, h2, t) = HeldIn(g, h, t)
  BY DEF HeldIn
<1>2. ASSUME NEW t \in DOMAIN g.tensor, h2[t].allocated
      PROVE  HoldsAlone(g, h2, free, t)
  <2>1. HoldsAlone(g, h, free, t)
    BY <1>2 DEF Partition
  <2> QED BY <1>1, <2>1 DEF HoldsAlone
<1>3. ASSUME NEW x \in (0 .. Arena - 1) \ FreeUnits(free)
      PROVE  \E t \in DOMAIN g.tensor : h2[t].allocated /\ x \in HeldIn(g, h2, t)
  <2>1. PICK t \in DOMAIN g.tensor : h[t].allocated /\ x \in HeldIn(g, h, t)
    BY DEF Partition
  <2> QED BY <1>1, <2>1
<1> QED BY <1>2, <1>3 DEF Partition

\* A tensor gets a range that was free.
LEMMA HolderAdded ==
    ASSUME NEW g, Wellformed(g), NEW h, NEW free, Partition(g, h, free),
           NEW t \in DOMAIN g.tensor, ~h[t].allocated, g.tensor[t].view_src = NoTensor,
           NEW h2 \in [DOMAIN g.tensor -> Slot], NEW free2, FreeList(free2),
           h2[t].allocated, HeldIn(g, h2, t) \subseteq FreeUnits(free),
           h2[t].offset + Aligned(g.tensor[t].size) =< Arena,
           FreeUnits(free2) = FreeUnits(free) \ HeldIn(g, h2, t),
           \A t2 \in DOMAIN g.tensor \ {t} : h2[t2] = h[t2]
    PROVE  Partition(g, h2, free2)
<1>1. \A t2 \in DOMAIN g.tensor \ {t} : HeldIn(g, h2, t2) = HeldIn(g, h, t2)
  BY DEF HeldIn
<1>2. ASSUME NEW t2 \in DOMAIN g.tensor, h2[t2].allocated
      PROVE  HoldsAlone(g, h2, free2, t2)
  <2>1. CASE t2 = t
    <3>1. ASSUME NEW t3 \in DOMAIN g.tensor \ {t}, h2[t3].allocated
          PROVE  HeldIn(g, h2, t) \cap HeldIn(g, h2, t3) = {}
      <4>1. HeldIn(g, h, t3) \cap FreeUnits(free) = {}
        BY <3>1 DEF Partition, HoldsAlone
      <4> QED BY <1>1, <4>1
    <3> QED BY <2>1, <3>1 DEF HoldsAlone
  <2>2. CASE t2 # t
    <3>1. HoldsAlone(g, h, free, t2) /\ h2[t2] = h[t2]
      BY <1>2, <2>2 DEF Partition
    <3>2. HeldIn(g, h2, t2) \cap HeldIn(g, h2, t) = {}
      BY <1>1, <2>2, <3>1 DEF HoldsAlone
    <3>3. ASSUME NEW t3 \in DOMAIN g.tensor \ {t2}, h2[t3].allocated
          PROVE  HeldIn(g, h2, t2) \cap HeldIn(g, h2, t3) = {}
      <4>1. CASE t3 = t
        BY <3>2, <4>1
      <4>2. CASE t3 # t
        <5>1. h[t3].allocated /\ HeldIn(g, h2, t3) = HeldIn(g, h, t3)
          BY <1>1, <3>3, <4>2
        <5> QED BY <1>1, <2>2, <3>1, <5>1 DEF HoldsAlone
      <4> QED BY <4>1, <4>2
    <3>4. HeldIn(g, h2, t2) \cap FreeUnits(free2) = {}
      BY <1>1, <2>2, <3>1 DEF HoldsAlone
    <3> QED BY <3>1, <3>3, <3>4 DEF HoldsAlone
  <2> QED BY <2>1, <2>2
<1>3. ASSUME NEW x \in (0 .. Arena - 1) \ FreeUnits(free2)
      PROVE  \E t2 \in DOMAIN g.tensor : h2[t2].allocated /\ x \in HeldIn(g, h2, t2)
  <2>1. CASE x \in FreeUnits(free)
    BY <1>3, <2>1
  <2>2. CASE x \notin FreeUnits(free)
    <3>1. PICK t2 \in DOMAIN g.tensor : h[t2].allocated /\ x \in HeldIn(g, h, t2)
      BY <2>2 DEF Partition
    <3>2. t2 # t
      BY <3>1
    <3> QED BY <1>1, <3>1, <3>2
  <2> QED BY <2>1, <2>2
<1> QED BY <1>2, <1>3 DEF Partition

\* A tensor gives its range back.
LEMMA HolderRemoved ==
    ASSUME NEW g, Wellformed(g), NEW h, NEW free, Partition(g, h, free),
           NEW t \in DOMAIN g.tensor, h[t].allocated,
           NEW h2 \in [DOMAIN g.tensor -> Slot], NEW free2, FreeList(free2),
           ~h2[t].allocated,
           FreeUnits(free2) = FreeUnits(free) \cup HeldIn(g, h, t),
           \A t2 \in DOMAIN g.tensor \ {t} : h2[t2] = h[t2]
    PROVE  Partition(g, h2, free2)
<1>1. \A t2 \in DOMAIN g.tensor \ {t} : HeldIn(g, h2, t2) = HeldIn(g, h, t2)
  BY DEF HeldIn
<1>2. ASSUME NEW t2 \in DOMAIN g.tensor, h2[t2].allocated
      PROVE  HoldsAlone(g, h2, free2, t2)
  <2>1. t2 # t
    BY <1>2
  <2>2. HoldsAlone(g, h, free, t2) /\ h2[t2] = h[t2]
    BY <1>2, <2>1 DEF Partition
  <2>3. HeldIn(g, h, t2) \cap HeldIn(g, h, t) = {}
    BY <2>1, <2>2 DEF HoldsAlone
  <2>4. ASSUME NEW t3 \in DOMAIN g.tensor \ {t2}, h2[t3].allocated
        PROVE  HeldIn(g, h2, t2) \cap HeldIn(g, h2, t3) = {}
    <3>1. t3 # t
      BY <2>4
    <3>2. h[t3].allocated /\ HeldIn(g, h2, t3) = HeldIn(g, h, t3)
      BY <1>1, <2>4, <3>1
    <3> QED BY <1>1, <2>1, <2>2, <3>2 DEF HoldsAlone
  <2>5. HeldIn(g, h2, t2) \cap FreeUnits(free2) = {}
    BY <1>1, <2>1, <2>2, <2>3 DEF HoldsAlone
  <2> QED BY <2>2, <2>4, <2>5 DEF HoldsAlone
<1>3. ASSUME NEW x \in (0 .. Arena - 1) \ FreeUnits(free2)
      PROVE  \E t2 \in DOMAIN g.tensor : h2[t2].allocated /\ x \in HeldIn(g, h2, t2)
  <2>1. PICK t2 \in DOMAIN g.tensor : h[t2].allocated /\ x \in HeldIn(g, h, t2)
    BY <1>3 DEF Partition
  <2>2. t2 # t
    BY <1>3, <2>1
  <2> QED BY <1>1, <2>1, <2>2
<1> QED BY <1>2, <1>3 DEF Partition

\* A tensor takes over the range of another one of its size.
LEMMA HolderReplaced ==
    ASSUME NEW g, Wellformed(g), NEW h, NEW free, Partition(g, h, free),
           NEW p \in DOMAIN g.tensor, h[p].allocated,
           NEW t \in DOMAIN g.tensor, ~h[t].allocated, g.tensor[t].view_src = NoTensor,
           g.tensor[t].size = g.tensor[p].size,
           NEW h2 \in [DOMAIN g.tensor -> Slot],
           ~h2[p].allocated, h2[t].allocated, h2[t].offset = h[p].offset,
           \A t2 \in DOMAIN g.tensor \ {p, t} : h2[t2] = h[t2]
    PROVE  Partition(g, h2, free)
<1>1. /\ \A t2 \in DOMAIN g.tensor \ {p, t} : HeldIn(g, h2, t2) = HeldIn(g, h, t2)
      /\ HeldIn(g, h2, t) = HeldIn(g, h, p)
  BY DEF HeldIn
<1>2. HoldsAlone(g, h, free, p)
  BY DEF Partition
<1>3. ASSUME NEW t2 \in DOMAIN g.tensor, h2[t2].allocated
      PROVE  HoldsAlone(g, h2, free, t2)
  <2>1. t2 # p
    BY <1>3
  <2>2. CASE t2 = t
    <3>1. ASSUME NEW t3 \in DOMAIN g.tensor \ {t}, h2[t3].allocated
          PROVE  HeldIn(g, h2, t) \cap HeldIn(g, h2, t3) = {}
      <4>1. t3 # p
        BY <3>1
      <4>2. h[t3].allocated /\ HeldIn(g, h2, t3) = HeldIn(g, h, t3)
        BY <1>1, <3>1, <4>1
      <4> QED BY <1>1, <1>2, <4>1, <4>2 DEF HoldsAlone
    <3>2. h2[t].offset + Aligned(g.tensor[t].size) =< Arena
      BY <1>2 DEF HoldsAlone
    <3>3. HeldIn(g, h2, t) \cap FreeUnits(free) = {}
      BY <1>1, <1>2 DEF HoldsAlone
    <3> QED BY <2>2, <3>1, <3>2, <3>3 DEF HoldsAlone
  <2>3. CASE t2 # t
    <3>1. HoldsAlone(g, h, free, t2) /\ h2[t2] = h[t2]
      BY <1>3, <2>1, <2>3 DEF Partition
    <3>2. HeldIn(g, h2, t2) \cap HeldIn(g, h2, t) = {}
      BY <1>1, <2>1, <2>3, <3>1 DEF HoldsAlone
    <3>3. ASSUME NEW t3 \in DOMAIN g.tensor \ {t2}, h2[t3].allocated
          PROVE  HeldIn(g, h2, t2) \cap HeldIn(g, h2, t3) = {}
      <4>1. CASE t3 = t
        BY <3>2, <4>1
      <4>2. CASE t3 # t
        <5>1. t3 # p
          BY <3>3
        <5>2. h[t3].allocated /\ HeldIn(g, h2, t3) = HeldIn(g, h, t3)
          BY <1>1, <3>3, <4>2, <5>1
        <5> QED BY <1>1, <2>1, <2>3, <3>1, <5>2 DEF HoldsAlone
      <4> QED BY <4>1, <4>2
    <3>4. HeldIn(g, h2, t2) \cap FreeUnits(free) = {}
      BY <1>1, <2>1, <2>3, <3>1 DEF HoldsAlone
    <3> QED BY <3>1, <3>3, <3>4 DEF HoldsAlone
  <2> QED BY <2>2, <2>3
<1>4. ASSUME NEW x \in (0 .. Arena - 1) \ FreeUnits(free)
      PROVE  \E t2 \in DOMAIN g.tensor : h2[t2].allocated /\ x \in HeldIn(g, h2, t2)
  <2>1. PICK t2 \in DOMAIN g.tensor : h[t2].allocated /\ x \in HeldIn(g, h, t2)
    BY DEF Partition
  <2>2. CASE t2 = p
    BY <1>1, <2>1, <2>2
  <2>3. CASE t2 # p
    <3>1. t2 # t
      BY <2>1
    <3> QED BY <1>1, <2>1, <2>3, <3>1
  <2> QED BY <2>2, <2>3
<1> QED BY <1>3, <1>4 DEF Partition

-----------------------------------------------------------------------------
(* The operations of the allocator.                                        *)

\* Of two states: the counters are the same, no tensor but those of T has got
\* memory, and an abort is not taken back.
Keeps(a, b, T) ==
    /\ \A t \in DOMAIN graph.tensor : /\ b.hash[t].children = a.hash[t].children
                                      /\ b.hash[t].views = a.hash[t].views
    /\ \A t \in DOMAIN graph.tensor \ T : b.hash[t].allocated => a.hash[t].allocated
    /\ a.aborted => b.aborted

\* Tensor t has got memory, and no other has lost it but an operand whose
\* memory it took over; the buffer is large enough for it.
Places(a, b, t) ==
    /\ b.hash[t].allocated
    /\ \A u \in DOMAIN graph.tensor \ {t} :
        /\ b.hash[u].offset = a.hash[u].offset
        /\ a.hash[u].allocated =>
             b.hash[u].allocated \/ (u \in ToSet(Of(t).src) /\ TakesOver(a, t, u))
    /\ a.max =< b.max
    /\ (\A u \in DOMAIN graph.tensor :
            a.hash[u].allocated => a.hash[u].offset + graph.tensor[u].size =< a.max)
          => b.hash[t].offset + graph.tensor[t].size =< b.max

LEMMA AllocatorFacts ==
    ASSUME NEW a \in Allocator(graph)
    PROVE  /\ a.hash \in [DOMAIN graph.tensor -> Slot]
           /\ a.free \in Seq(Block) /\ FreeList(a.free)
           /\ a.max \in 0 .. Arena /\ a.aborted \in BOOLEAN
           /\ Partition(graph, a.hash, a.free)
           /\ a = [hash |-> a.hash, free |-> a.free, max |-> a.max,
                   aborted |-> a.aborted]
  BY DEF Allocator, Partition

LEMMA FromBufferFacts ==
    ASSUME Wellformed(graph), NEW a \in Allocator(graph),
           NEW t \in DOMAIN graph.tensor, ~a.hash[t].allocated, ~IsView(t)
    PROVE  /\ FromBuffer(a, t) \in Allocator(graph)
           /\ Keeps(a, FromBuffer(a, t), {t})
           /\ FromBuffer(a, t).aborted \/ Places(a, FromBuffer(a, t), t)
<1> DEFINE size == Aligned(graph.tensor[t].size)
           i == BestFit(a.free, size)
           o == a.free[i].offset
           h2 == [a.hash EXCEPT ![t] = [@ EXCEPT !.offset = o, !.allocated = TRUE]]
           free2 == Taken(a.free, i, size)
           max2 == IF o + size > a.max THEN o + size ELSE a.max
           b == [hash |-> h2, free |-> free2, max |-> max2, aborted |-> a.aborted]
<1>1. /\ a.hash \in [DOMAIN graph.tensor -> Slot]
      /\ a.free \in Seq(Block) /\ FreeList(a.free)
      /\ a.max \in 0 .. Arena /\ a.aborted \in BOOLEAN
      /\ Partition(graph, a.hash, a.free)
      /\ a = [hash |-> a.hash, free |-> a.free, max |-> a.max, aborted |-> a.aborted]
  BY AllocatorFacts
<1>2. size \in Nat /\ size > 0 /\ graph.tensor[t].size \in Nat
      /\ graph.tensor[t].size =< size
  BY TensorFacts, AlignedFacts
<1>3. CASE ~HasRoom(a.free, size)
  <2> DEFINE c == [hash |-> a.hash, free |-> a.free, max |-> a.max, aborted |-> TRUE]
  <2>1. FromBuffer(a, t) = c
    <3>1. FromBuffer(a, t) = [a EXCEPT !.aborted = TRUE]
      BY <1>3 DEF FromBuffer, Of
    <3> QED BY <1>1, <3>1
  <2>2. c \in Allocator(graph) /\ Keeps(a, c, {t}) /\ c.aborted
    BY <1>1 DEF Allocator, Keeps
  <2> QED BY <2>1, <2>2
<1>4. CASE HasRoom(a.free, size)
  <2>1. i \in 1 .. Len(a.free) /\ a.free[i].size >= size
    BY <1>1, <1>2, <1>4, BestFitFacts
  <2>2. a.free[i] \in Block /\ o \in Nat /\ o \in 0 .. Arena /\ o + size =< Arena
    <3>1. a.free[i] \in Block
      BY <1>1, <2>1, ElementOfSeq
    <3>2. /\ a.free[i].offset \in Nat /\ a.free[i].size \in Nat
          /\ a.free[i].offset + a.free[i].size =< Arena /\ Arena \in Nat
      BY <3>1, BlockFacts
    <3> QED BY <1>2, <2>1, <3>1, <3>2
  <2>3. /\ FreeList(free2)
        /\ (o .. o + size - 1) \subseteq FreeUnits(a.free)
        /\ FreeUnits(free2) = FreeUnits(a.free) \ (o .. o + size - 1)
    <3> HIDE DEF i, size
    <3> QED BY <1>1, <1>2, <2>1, TakenFacts
  <2>4. FromBuffer(a, t) = b
    <3>1. FromBuffer(a, t)
            = [a EXCEPT !.hash[t].offset = o, !.hash[t].allocated = TRUE,
                        !.free = Taken(@, i, size),
                        !.max = IF o + size > @ THEN o + size ELSE @]
      BY <1>4 DEF FromBuffer, Of
    <3>2. [a.hash EXCEPT ![t].offset = o, ![t].allocated = TRUE] = h2
      <4> DEFINE x1 == [a.hash EXCEPT ![t].offset = o]
      <4>1. DOMAIN x1 = DOMAIN graph.tensor /\ x1[t] = [a.hash[t] EXCEPT !.offset = o]
            /\ \A x \in DOMAIN graph.tensor \ {t} : x1[x] = a.hash[x]
        BY <1>1
      <4> HIDE DEF x1, o
      <4>2. [x1 EXCEPT ![t].allocated = TRUE] = h2
        BY <1>1, <4>1
      <4> QED BY <4>2 DEF x1
    <3> HIDE DEF o, i, size, h2
    <3>3. FromBuffer(a, t) = [a EXCEPT !.hash = h2, !.free = free2, !.max = max2]
      BY <1>1, <3>1, <3>2
    <3> HIDE DEF free2, max2
    <3> QED BY <1>1, <3>3
  <2> HIDE DEF i, o, size, free2
  <2>5. /\ h2 \in [DOMAIN graph.tensor -> Slot]
        /\ h2[t].allocated /\ h2[t].offset = o
        /\ h2[t].children = a.hash[t].children /\ h2[t].views = a.hash[t].views
        /\ \A t2 \in DOMAIN graph.tensor \ {t} : h2[t2] = a.hash[t2]
    BY <1>1, <2>2 DEF Slot
  <2> HIDE DEF h2
  <2>6. Partition(graph, h2, free2)
    <3>1. HeldIn(graph, h2, t) = o .. o + size - 1
      BY <2>5 DEF HeldIn, size
    <3>2. h2[t].offset + Aligned(graph.tensor[t].size) =< Arena
      BY <2>2, <2>5 DEF size
    <3>3. graph.tensor[t].view_src = NoTensor
      BY DEF IsView, Of
    <3> QED BY <1>1, <2>3, <2>5, <3>1, <3>2, <3>3, HolderAdded
  <2>7. max2 \in 0 .. Arena /\ a.max =< max2 /\ o + graph.tensor[t].size =< max2
    BY <1>1, <1>2, <2>2, GraphAllocAssumption DEF GraphAllocAssumption
  <2> HIDE DEF max2
  <2>8. b \in Allocator(graph)
    BY <1>1, <2>3, <2>5, <2>6, <2>7 DEF Allocator, FreeList
  <2>9. Keeps(a, b, {t}) /\ Places(a, b, t)
    BY <2>5, <2>7 DEF Keeps, Places
  <2> QED BY <2>4, <2>8, <2>9
<1> QED BY <1>3, <1>4

LEMMA FromOperandFacts ==
    ASSUME Wellformed(graph), NEW a \in Allocator(graph),
           NEW t \in DOMAIN graph.tensor, ~a.hash[t].allocated, ~IsView(t),
           NEW p \in DOMAIN graph.tensor, p \in ToSet(Of(t).src), TakesOver(a, t, p)
    PROVE  /\ FromOperand(a, t, p) \in Allocator(graph)
           /\ Keeps(a, FromOperand(a, t, p), {t})
           /\ Places(a, FromOperand(a, t, p), t)
<1> DEFINE h2 == [a.hash EXCEPT ![t].offset = a.hash[p].offset,
                                ![t].allocated = TRUE, ![p].allocated = FALSE]
           b == [hash |-> h2, free |-> a.free, max |-> a.max, aborted |-> a.aborted]
<1>1. /\ a.hash \in [DOMAIN graph.tensor -> Slot]
      /\ a.free \in Seq(Block) /\ FreeList(a.free)
      /\ a.max \in 0 .. Arena /\ a.aborted \in BOOLEAN
      /\ Partition(graph, a.hash, a.free)
      /\ a = [hash |-> a.hash, free |-> a.free, max |-> a.max, aborted |-> a.aborted]
  BY AllocatorFacts
<1>2. a.hash[p].allocated /\ p # t /\ ~IsView(p)
      /\ graph.tensor[t].size = graph.tensor[p].size
  <2>1. a.hash[p].allocated /\ graph.tensor[t].size = graph.tensor[p].size
    BY DEF TakesOver, SameLayout, Of
  <2>2. HoldsAlone(graph, a.hash, a.free, p)
    BY <1>1, <2>1 DEF Partition
  <2> QED BY <2>1, <2>2 DEF HoldsAlone, IsView, Of
<1>3. FromOperand(a, t, p) = b
  <2>1. FromOperand(a, t, p) = [a EXCEPT !.hash = h2]
    BY <1>2 DEF FromOperand
  <2> HIDE DEF h2
  <2> QED BY <1>1, <2>1
<1>4. /\ h2 \in [DOMAIN graph.tensor -> Slot]
      /\ h2[t].allocated /\ h2[t].offset = a.hash[p].offset /\ ~h2[p].allocated
      /\ h2[t].children = a.hash[t].children /\ h2[t].views = a.hash[t].views
      /\ h2[p].children = a.hash[p].children /\ h2[p].views = a.hash[p].views
      /\ h2[p].offset = a.hash[p].offset
      /\ \A t2 \in DOMAIN graph.tensor \ {p, t} : h2[t2] = a.hash[t2]
  <2> DEFINE st == [a.hash[t] EXCEPT !.offset = a.hash[p].offset, !.allocated = TRUE]
             sp == [a.hash[p] EXCEPT !.allocated = FALSE]
  <2>1. a.hash[t] \in Slot /\ a.hash[p] \in Slot
    BY <1>1
  <2>2. /\ st \in Slot /\ st.allocated /\ st.offset = a.hash[p].offset
        /\ st.children = a.hash[t].children /\ st.views = a.hash[t].views
        /\ sp \in Slot /\ ~sp.allocated
        /\ sp.children = a.hash[p].children /\ sp.views = a.hash[p].views
        /\ sp.offset = a.hash[p].offset
    BY <2>1 DEF Slot
  <2>3. h2 = [x \in DOMAIN graph.tensor |-> IF x = t THEN st
                                            ELSE IF x = p THEN sp ELSE a.hash[x]]
    <3> DEFINE x1 == [a.hash EXCEPT ![t].offset = a.hash[p].offset]
               x2 == [x1 EXCEPT ![t].allocated = TRUE]
    <3>1. /\ DOMAIN x1 = DOMAIN graph.tensor
          /\ x1[t] = [a.hash[t] EXCEPT !.offset = a.hash[p].offset]
          /\ \A x \in DOMAIN graph.tensor \ {t} : x1[x] = a.hash[x]
      BY <1>1
    <3> HIDE DEF x1
    <3>2. /\ DOMAIN x2 = DOMAIN graph.tensor /\ x2[t] = st
          /\ \A x \in DOMAIN graph.tensor \ {t} : x2[x] = a.hash[x]
      BY <3>1
    <3> HIDE DEF x2, st
    <3>3. [x2 EXCEPT ![p].allocated = FALSE]
            = [x \in DOMAIN graph.tensor |-> IF x = t THEN st
                                            ELSE IF x = p THEN sp ELSE a.hash[x]]
      BY <1>2, <3>2
    <3> QED BY <3>3 DEF x1, x2
  <2> HIDE DEF h2, st, sp
  <2> QED BY <1>1, <1>2, <2>2, <2>3
<1> HIDE DEF h2
<1>5. Partition(graph, h2, a.free)
  <2>1. graph.tensor[t].view_src = NoTensor
    BY DEF IsView, Of
  <2> QED BY <1>1, <1>2, <1>4, <2>1, HolderReplaced
<1>6. b \in Allocator(graph)
  BY <1>1, <1>4, <1>5 DEF Allocator
<1>7. Keeps(a, b, {t})
  <2>1. \A x \in DOMAIN graph.tensor : /\ h2[x].children = a.hash[x].children
                                       /\ h2[x].views = a.hash[x].views
    BY <1>4
  <2> QED BY <1>4, <2>1 DEF Keeps
<1>8. Places(a, b, t)
  <2>1. a.max =< a.max
    BY <1>1
  <2> QED BY <1>2, <1>4, <2>1 DEF Places
<1> QED BY <1>3, <1>6, <1>7, <1>8

LEMMA AllocateNodeFacts ==
    ASSUME Wellformed(graph), NEW a \in Allocator(graph),
           NEW t \in DOMAIN graph.tensor
    PROVE  /\ AllocateNode(a, t) \in Allocator(graph)
           /\ Keeps(a, AllocateNode(a, t), {t})
           /\ AllocateNode(a, t).hash[t].allocated =>
                a.hash[t].allocated \/ ~graph.tensor[t].external
           /\ IF a.hash[t].allocated \/ External(t) \/ IsView(t)
              THEN AllocateNode(a, t) = a
              ELSE AllocateNode(a, t).aborted \/ Places(a, AllocateNode(a, t), t)
<1> DEFINE src == Of(t).src
           Usable == {i \in DOMAIN src : TakesOver(a, t, src[i])}
           i == CHOOSE i \in Usable : \A j \in Usable : i =< j
<1>1. CASE a.hash[t].allocated \/ External(t) \/ IsView(t)
  BY <1>1 DEF AllocateNode, Keeps
<1>2. CASE ~(a.hash[t].allocated \/ External(t) \/ IsView(t))
  <2> ~graph.tensor[t].external
    BY <1>2 DEF External, Root, Of
  <2>1. CASE CanInplace(Of(t).op) /\ Usable # {}
    <3>1. AllocateNode(a, t) = FromOperand(a, t, src[i])
      BY <1>2, <2>1 DEF AllocateNode
    <3>2. src \in Seq(DOMAIN graph.tensor)
      BY TensorFacts DEF Of
    <3> HIDE DEF src
    <3>3. i \in Usable
      <4>1. Usable \in SUBSET Nat
        BY <3>2
      <4>2. \E j \in Usable : \A k \in Usable : j =< k
        <5> HIDE DEF Usable
        <5> QED BY <2>1, <4>1, LeastExists
      <4> QED BY <4>2
    <3> HIDE DEF i
    <3>4. src[i] \in DOMAIN graph.tensor /\ TakesOver(a, t, src[i])
          /\ src[i] \in ToSet(Of(t).src)
      BY <3>2, <3>3 DEF ToSet, src
    <3> QED BY <1>2, <3>1, <3>4, FromOperandFacts
  <2>2. CASE ~(CanInplace(Of(t).op) /\ Usable # {})
    <3>1. AllocateNode(a, t) = FromBuffer(a, t)
      BY <1>2, <2>2 DEF AllocateNode
    <3> QED BY <1>2, <3>1, FromBufferFacts
  <2> QED BY <2>1, <2>2
<1> QED BY <1>1, <1>2

LEMMA FreeNodeFacts ==
    ASSUME Wellformed(graph), NEW a \in Allocator(graph),
           NEW t \in DOMAIN graph.tensor, a.hash[t].allocated
    PROVE  /\ FreeNode(a, t) \in Allocator(graph)
           /\ Keeps(a, FreeNode(a, t), {})
           /\ \/ FreeNode(a, t).aborted
              \/ Of(t).output
              \/ ~FreeNode(a, t).hash[t].allocated
<1> DEFINE size == Aligned(graph.tensor[t].size)
           o == a.hash[t].offset
           free2 == Freed(a.free, o, size)
           h2 == [a.hash EXCEPT ![t] = [@ EXCEPT !.allocated = FALSE]]
           b == [hash |-> h2, free |-> free2, max |-> a.max, aborted |-> a.aborted]
           c == [hash |-> a.hash, free |-> a.free, max |-> a.max, aborted |-> TRUE]
<1>1. /\ a.hash \in [DOMAIN graph.tensor -> Slot]
      /\ a.free \in Seq(Block) /\ FreeList(a.free)
      /\ a.max \in 0 .. Arena /\ a.aborted \in BOOLEAN
      /\ Partition(graph, a.hash, a.free)
      /\ a = [hash |-> a.hash, free |-> a.free, max |-> a.max, aborted |-> a.aborted]
  BY AllocatorFacts
<1>2. CASE Of(t).output
  BY <1>2 DEF FreeNode, Keeps
<1>3. CASE ~Of(t).output /\ Len(free2) > MaxFreeBlocks
  <2>1. FreeNode(a, t) = c
    <3>1. FreeNode(a, t) = [a EXCEPT !.aborted = TRUE]
      BY <1>3 DEF FreeNode, Of
    <3> QED BY <1>1, <3>1
  <2>2. c \in Allocator(graph) /\ Keeps(a, c, {}) /\ c.aborted
    BY <1>1 DEF Allocator, Keeps
  <2> QED BY <2>1, <2>2
<1>4. CASE ~Of(t).output /\ ~(Len(free2) > MaxFreeBlocks)
  <2>1. FreeNode(a, t) = b
    <3>1. FreeNode(a, t) = [a EXCEPT !.hash[t].allocated = FALSE, !.free = free2]
      BY <1>4 DEF FreeNode, Of
    <3> HIDE DEF free2
    <3> QED BY <1>1, <3>1
  <2>2. size \in Nat /\ size > 0
    BY TensorFacts
  <2>3. HoldsAlone(graph, a.hash, a.free, t) /\ o \in Nat
    BY <1>1 DEF Partition, Slot
  <2>4. FreeList(free2) /\ FreeUnits(free2) = FreeUnits(a.free) \cup HeldIn(graph, a.hash, t)
    <3>1. o + size =< Arena /\ (o .. o + size - 1) \cap FreeUnits(a.free) = {}
      BY <2>3 DEF HoldsAlone, HeldIn
    <3>2. HeldIn(graph, a.hash, t) = o .. o + size - 1
      BY DEF HeldIn
    <3> HIDE DEF o, size
    <3> QED BY <1>1, <2>2, <2>3, <3>1, <3>2, FreedFacts
  <2> HIDE DEF free2
  <2>5. /\ h2 \in [DOMAIN graph.tensor -> Slot]
        /\ ~h2[t].allocated
        /\ h2[t].children = a.hash[t].children /\ h2[t].views = a.hash[t].views
        /\ \A t2 \in DOMAIN graph.tensor \ {t} : h2[t2] = a.hash[t2]
    BY <1>1 DEF Slot
  <2> HIDE DEF h2
  <2>6. Partition(graph, h2, free2)
    BY <1>1, <2>4, <2>5, HolderRemoved
  <2>7. b \in Allocator(graph)
    BY <1>1, <2>4, <2>5, <2>6 DEF Allocator, FreeList
  <2>8. Keeps(a, b, {}) /\ ~b.hash[t].allocated
    BY <2>5 DEF Keeps
  <2> QED BY <2>1, <2>7, <2>8
<1> QED BY <1>2, <1>3, <1>4

-----------------------------------------------------------------------------
(* The counters.                                                           *)

\* The reads of a graph: node k has an operand at place i.
Reads(g) == UNION {{k} \X DOMAIN g.tensor[g.nodes[k]].src : k \in DOMAIN g.nodes}
OperandAt(g, r) == g.tensor[g.nodes[r[1]]].src[r[2]]

\* Of the reads D, those of tensor t.
Pending(g, D, t) == {r \in D : OperandAt(g, r) = t}

\* The views that still hold the tensor they view when D is still to be read:
\* a view lets go when its last reader is done.
Views(g) == {v \in ToSet(g.nodes) : g.tensor[v].view_src # NoTensor}
Holding(g, D) ==
    {v \in Views(g) : Pending(g, D, v) # {} \/ Pending(g, Reads(g), v) = {}}
HoldsOn(g, V, t) == {v \in V : g.tensor[v].view_src = t}

\* The counters count the reads D and the views V.
Counted(g, h, D, V) ==
    \A t \in DOMAIN g.tensor : /\ h[t].children = Cardinality(Pending(g, D, t))
                               /\ h[t].views = Cardinality(HoldsOn(g, V, t))

\* Memory is held by who has none of his own and is an output, will be read,
\* or is never read at all.
RootOf(g, t) == IF g.tensor[t].view_src # NoTensor THEN g.tensor[t].view_src ELSE t
NeverRead(g, t) == \A r \in Reads(g) : RootOf(g, OperandAt(g, r)) # t
Needed(g, h, t) ==
    g.tensor[t].output \/ h[t].children > 0 \/ h[t].views > 0 \/ NeverRead(g, t)
Wanted(g, h) ==
    \A t \in DOMAIN g.tensor :
        h[t].allocated => ~g.tensor[t].external /\ Needed(g, h, t)

LEMMA ReadsFacts ==
    ASSUME NEW g, Wellformed(g)
    PROVE  /\ \A k \in DOMAIN g.nodes : \A i \in DOMAIN g.tensor[g.nodes[k]].src :
                  <<k, i>> \in Reads(g)
           /\ \A r \in Reads(g) :
                  /\ r = <<r[1], r[2]>> /\ r[1] \in DOMAIN g.nodes
                  /\ r[2] \in DOMAIN g.tensor[g.nodes[r[1]]].src
                  /\ g.nodes[r[1]] \in DOMAIN g.tensor
                  /\ OperandAt(g, r) \in DOMAIN g.tensor
           /\ IsFiniteSet(Reads(g)) /\ IsFiniteSet(Views(g))
<1> DEFINE Part(k) == {k} \X DOMAIN g.tensor[g.nodes[k]].src
           n == Len(g.nodes)
<1>1. n \in Nat /\ DOMAIN g.nodes = 1 .. n
      /\ \A k \in 1 .. n : g.nodes[k] \in DOMAIN g.tensor
  BY DEF Wellformed
<1>2. \A t \in DOMAIN g.tensor : g.tensor[t].src \in Seq(DOMAIN g.tensor)
  BY TensorFacts
<1>3. ASSUME NEW r \in Reads(g)
      PROVE  /\ r = <<r[1], r[2]>> /\ r[1] \in DOMAIN g.nodes
             /\ r[2] \in DOMAIN g.tensor[g.nodes[r[1]]].src
             /\ g.nodes[r[1]] \in DOMAIN g.tensor
             /\ OperandAt(g, r) \in DOMAIN g.tensor
  <2>1. PICK k \in DOMAIN g.nodes : r \in Part(k)
    BY DEF Reads
  <2>2. r = <<r[1], r[2]>> /\ r[1] = k /\ r[2] \in DOMAIN g.tensor[g.nodes[k]].src
    BY <2>1
  <2>3. g.nodes[k] \in DOMAIN g.tensor
    BY <1>1
  <2>4. g.tensor[g.nodes[k]].src \in Seq(DOMAIN g.tensor)
    BY <1>2, <2>3
  <2>5. g.tensor[g.nodes[k]].src[r[2]] \in DOMAIN g.tensor
    BY <2>2, <2>4
  <2> QED BY <2>2, <2>3, <2>5 DEF OperandAt
<1>4. IsFiniteSet(Reads(g))
  <2> DEFINE T == {Part(k) : k \in 1 .. n}
             f == [k \in 1 .. n |-> Part(k)]
  <2>1. f \in Surjection(1 .. n, T)
    BY DEF Surjection
  <2>2. IsFiniteSet(1 .. n)
    BY <1>1, FS_Interval
  <2>3. IsFiniteSet(T)
    <3> HIDE DEF T, f
    <3> QED BY <2>1, <2>2, FS_Surjection
  <2>4. ASSUME NEW k \in 1 .. n
        PROVE  IsFiniteSet(Part(k))
    <3>1. g.tensor[g.nodes[k]].src \in Seq(DOMAIN g.tensor)
      BY <1>1, <1>2
    <3>2. IsFiniteSet(DOMAIN g.tensor[g.nodes[k]].src)
      <4>1. PICK m \in Nat : DOMAIN g.tensor[g.nodes[k]].src = 1 .. m
        BY <3>1
      <4> QED BY <4>1, FS_Interval
    <3>3. IsFiniteSet({k})
      BY FS_Singleton
    <3> QED BY <3>2, <3>3, FS_Product
  <2>5. IsFiniteSet(UNION T)
    <3> HIDE DEF Part
    <3>1. \A t \in T : IsFiniteSet(t)
      BY <2>4
    <3> HIDE DEF T
    <3> QED BY <2>3, <3>1, FS_UNION
  <2> QED BY <1>1, <2>5 DEF Reads
<1>5. IsFiniteSet(Views(g))
  <2>1. g.nodes \in Surjection(1 .. n, ToSet(g.nodes))
    <3>1. g.nodes \in [1 .. n -> ToSet(g.nodes)]
      BY <1>1 DEF ToSet, Wellformed
    <3>2. \A t \in ToSet(g.nodes) : \E s \in 1 .. n : g.nodes[s] = t
      BY <1>1 DEF ToSet
    <3> QED BY <3>1, <3>2 DEF Surjection
  <2>2. IsFiniteSet(1 .. n)
    BY <1>1, FS_Interval
  <2>3. IsFiniteSet(ToSet(g.nodes))
    BY <2>1, <2>2, FS_Surjection
  <2>4. Views(g) \subseteq ToSet(g.nodes)
    BY DEF Views
  <2> QED BY <2>3, <2>4, FS_Subset
<1>6. \A k \in DOMAIN g.nodes : \A i \in DOMAIN g.tensor[g.nodes[k]].src :
          <<k, i>> \in Reads(g)
  BY DEF Reads
<1> QED BY <1>3, <1>4, <1>5, <1>6

LEMMA CountFacts ==
    ASSUME NEW g, Wellformed(g), NEW h, NEW D \in SUBSET Reads(g),
           NEW V \in SUBSET Views(g), Counted(g, h, D, V), NEW t \in DOMAIN g.tensor
    PROVE  /\ IsFiniteSet(Pending(g, D, t)) /\ IsFiniteSet(HoldsOn(g, V, t))
           /\ h[t].children = Cardinality(Pending(g, D, t)) /\ h[t].children \in Nat
           /\ h[t].views = Cardinality(HoldsOn(g, V, t)) /\ h[t].views \in Nat
           /\ h[t].children = 0 <=> Pending(g, D, t) = {}
           /\ h[t].views = 0 <=> HoldsOn(g, V, t) = {}
<1>1. IsFiniteSet(Reads(g)) /\ IsFiniteSet(Views(g))
  BY ReadsFacts
<1>2. Pending(g, D, t) \subseteq Reads(g) /\ HoldsOn(g, V, t) \subseteq Views(g)
  BY DEF Pending, HoldsOn
<1>3. IsFiniteSet(Pending(g, D, t)) /\ IsFiniteSet(HoldsOn(g, V, t))
  BY <1>1, <1>2, FS_Subset
<1>4. /\ h[t].children = Cardinality(Pending(g, D, t))
      /\ h[t].views = Cardinality(HoldsOn(g, V, t))
  BY DEF Counted
<1>5. /\ Cardinality(Pending(g, D, t)) \in Nat /\ Cardinality(HoldsOn(g, V, t)) \in Nat
      /\ Cardinality(Pending(g, D, t)) = 0 <=> Pending(g, D, t) = {}
      /\ Cardinality(HoldsOn(g, V, t)) = 0 <=> HoldsOn(g, V, t) = {}
  BY <1>3, FS_CardinalityType, FS_EmptySet
<1> QED BY <1>3, <1>4, <1>5

\* Node t gives its memory back when it is dead.
LetGo(a, t) ==
    IF a.hash[t].children = 0 /\ a.hash[t].views = 0 /\ a.hash[t].allocated
    THEN FreeNode(a, t) ELSE a

LEMMA LetGoFacts ==
    ASSUME Wellformed(graph), NEW a \in Allocator(graph),
           NEW t \in DOMAIN graph.tensor
    PROVE  LetGo(a, t) \in Allocator(graph) /\ Keeps(a, LetGo(a, t), {})
<1>1. a \in Allocator(graph) /\ Keeps(a, a, {})
  BY DEF Keeps
<1> QED BY <1>1, FreeNodeFacts DEF LetGo

LEMMA LetGoWanted ==
    ASSUME Wellformed(graph), NEW a \in Allocator(graph),
           NEW t \in DOMAIN graph.tensor,
           NEW D \in SUBSET Reads(graph), NEW V \in SUBSET Views(graph),
           Counted(graph, a.hash, D, V),
           \/ a.aborted
           \/ \A u \in DOMAIN graph.tensor : a.hash[u].allocated =>
                  ~graph.tensor[u].external /\ (u # t => Needed(graph, a.hash, u))
    PROVE  /\ Counted(graph, LetGo(a, t).hash, D, V)
           /\ LetGo(a, t).aborted \/ Wanted(graph, LetGo(a, t).hash)
<1> DEFINE b == LetGo(a, t)
<1>1. b \in Allocator(graph) /\ Keeps(a, b, {})
  BY LetGoFacts
<1>2. Counted(graph, b.hash, D, V)
  BY <1>1 DEF Keeps, Counted
<1>3. ASSUME ~b.aborted, NEW u \in DOMAIN graph.tensor, b.hash[u].allocated
      PROVE  ~graph.tensor[u].external /\ Needed(graph, b.hash, u)
  <2>1. ~a.aborted /\ a.hash[u].allocated
    BY <1>1, <1>3 DEF Keeps
  <2>2. ~graph.tensor[u].external /\ (u # t => Needed(graph, a.hash, u))
    BY <2>1
  <2>3. Needed(graph, b.hash, u) <=> Needed(graph, a.hash, u)
    BY <1>1 DEF Keeps, Needed
  <2>4. CASE u = t
    <3>1. CASE a.hash[t].children = 0 /\ a.hash[t].views = 0
      <4>1. b = FreeNode(a, t)
        BY <2>1, <2>4, <3>1 DEF LetGo
      <4>2. Of(t).output
        BY <1>3, <2>1, <2>4, <4>1, FreeNodeFacts
      <4> QED BY <2>2, <2>4, <4>2 DEF Needed, Of
    <3>2. CASE ~(a.hash[t].children = 0 /\ a.hash[t].views = 0)
      <4>1. a.hash[t].children \in Nat /\ a.hash[t].views \in Nat
        BY CountFacts
      <4>2. a.hash[t].children > 0 \/ a.hash[t].views > 0
        BY <3>2, <4>1
      <4> QED BY <2>2, <2>3, <2>4, <4>2 DEF Needed
    <3> QED BY <3>1, <3>2
  <2> QED BY <2>2, <2>3, <2>4
<1> HIDE DEF b
<1>4. b.aborted \/ Wanted(graph, b.hash)
  BY <1>3 DEF Wanted
<1> QED BY <1>2, <1>4 DEF b

\* The state after a counter went down.
OneRead(a, p) == [a EXCEPT !.hash[p].children = @ - 1]
OneView(a, p) == [a EXCEPT !.hash[p].views = @ - 1]

LEMMA CounterFacts ==
    ASSUME Wellformed(graph), NEW a \in Allocator(graph),
           NEW p \in DOMAIN graph.tensor
    PROVE  /\ OneRead(a, p) \in Allocator(graph) /\ OneView(a, p) \in Allocator(graph)
           /\ OneRead(a, p).aborted = a.aborted /\ OneView(a, p).aborted = a.aborted
           /\ OneRead(a, p).max = a.max /\ OneView(a, p).max = a.max
           /\ \A t \in DOMAIN graph.tensor :
                /\ OneRead(a, p).hash[t].offset = a.hash[t].offset
                /\ OneView(a, p).hash[t].offset = a.hash[t].offset
                /\ OneRead(a, p).hash[t].allocated = a.hash[t].allocated
                /\ OneView(a, p).hash[t].allocated = a.hash[t].allocated
                /\ OneRead(a, p).hash[t].children =
                     IF t = p THEN a.hash[t].children - 1 ELSE a.hash[t].children
                /\ OneRead(a, p).hash[t].views = a.hash[t].views
                /\ OneView(a, p).hash[t].children = a.hash[t].children
                /\ OneView(a, p).hash[t].views =
                     IF t = p THEN a.hash[t].views - 1 ELSE a.hash[t].views
<1>1. /\ a.hash \in [DOMAIN graph.tensor -> Slot]
      /\ a.free \in Seq(Block) /\ FreeList(a.free)
      /\ a.max \in 0 .. Arena /\ a.aborted \in BOOLEAN
      /\ Partition(graph, a.hash, a.free)
      /\ a = [hash |-> a.hash, free |-> a.free, max |-> a.max, aborted |-> a.aborted]
  BY AllocatorFacts
<1>2. ASSUME NEW s \in Slot, s.allocated = a.hash[p].allocated,
             s.offset = a.hash[p].offset,
             NEW h2, h2 = [a.hash EXCEPT ![p] = s],
             NEW b, b = [hash |-> h2, free |-> a.free, max |-> a.max, aborted |-> a.aborted]
      PROVE  /\ b \in Allocator(graph) /\ b.aborted = a.aborted
             /\ \A t \in DOMAIN graph.tensor : b.hash[t].allocated = a.hash[t].allocated
  <2>1. /\ h2 \in [DOMAIN graph.tensor -> Slot]
        /\ \A t \in DOMAIN graph.tensor : /\ h2[t].allocated = a.hash[t].allocated
                                          /\ h2[t].offset = a.hash[t].offset
    BY <1>1, <1>2
  <2>2. Partition(graph, h2, a.free)
    BY <1>1, <2>1, SamePartition
  <2> QED BY <1>1, <1>2, <2>1, <2>2 DEF Allocator
<1> DEFINE sr == [a.hash[p] EXCEPT !.children = @ - 1]
           sv == [a.hash[p] EXCEPT !.views = @ - 1]
           hr == [a.hash EXCEPT ![p] = sr]
           hv == [a.hash EXCEPT ![p] = sv]
<1>3. /\ sr \in Slot /\ sr.allocated = a.hash[p].allocated /\ sr.offset = a.hash[p].offset
      /\ sr.children = a.hash[p].children - 1 /\ sr.views = a.hash[p].views
      /\ sv \in Slot /\ sv.allocated = a.hash[p].allocated /\ sv.offset = a.hash[p].offset
      /\ sv.children = a.hash[p].children /\ sv.views = a.hash[p].views - 1
      /\ a.hash[p].children \in Int /\ a.hash[p].views \in Int
  <2>1. a.hash[p] \in Slot
    BY <1>1
  <2> QED BY <2>1 DEF Slot
<1>4. /\ OneRead(a, p) = [hash |-> hr, free |-> a.free, max |-> a.max,
                           aborted |-> a.aborted]
      /\ OneView(a, p) = [hash |-> hv, free |-> a.free, max |-> a.max,
                           aborted |-> a.aborted]
  <2>1. OneRead(a, p) = [a EXCEPT !.hash = hr] /\ OneView(a, p) = [a EXCEPT !.hash = hv]
    BY <1>1 DEF OneRead, OneView
  <2> HIDE DEF hr, hv
  <2> QED BY <1>1, <2>1
<1>5. /\ OneRead(a, p) \in Allocator(graph) /\ OneView(a, p) \in Allocator(graph)
      /\ OneRead(a, p).aborted = a.aborted /\ OneView(a, p).aborted = a.aborted
      /\ \A t \in DOMAIN graph.tensor :
           /\ OneRead(a, p).hash[t].allocated = a.hash[t].allocated
           /\ OneView(a, p).hash[t].allocated = a.hash[t].allocated
  <2> HIDE DEF sr, sv
  <2> QED BY <1>2, <1>3, <1>4
<1>6. /\ \A t \in DOMAIN graph.tensor : hr[t] = IF t = p THEN sr ELSE a.hash[t]
      /\ \A t \in DOMAIN graph.tensor : hv[t] = IF t = p THEN sv ELSE a.hash[t]
  BY <1>1
<1>7. /\ OneRead(a, p).hash = hr /\ OneView(a, p).hash = hv
      /\ OneRead(a, p).max = a.max /\ OneView(a, p).max = a.max
  BY <1>4
<1> HIDE DEF hr, hv, sr, sv
<1> QED BY <1>3, <1>5, <1>6, <1>7

LEMMA ReadByIs ==
    ASSUME NEW a, NEW p
    PROVE  LET b == OneRead(a, p)
           IN  ReadBy(a, p) = IF ~IsView(p) THEN LetGo(b, p)
                              ELSE IF b.hash[p].children = 0 /\ b.hash[p].views = 0
                              THEN LetGo(OneView(b, Of(p).view_src), Of(p).view_src)
                              ELSE b
  BY DEF ReadBy, LetGo, OneRead, OneView

LEMMA ReadByStays ==
    ASSUME Wellformed(graph), NEW a \in Allocator(graph), NEW p \in DOMAIN graph.tensor
    PROVE  ReadBy(a, p) \in Allocator(graph) /\ (a.aborted => ReadBy(a, p).aborted)
<1> DEFINE b == OneRead(a, p)
           q == Of(p).view_src
           c == OneView(b, q)
<1>1. b \in Allocator(graph) /\ b.aborted = a.aborted
  BY CounterFacts
<1>2. CASE ~IsView(p)
  <2>1. ReadBy(a, p) = LetGo(b, p)
    BY <1>2, ReadByIs
  <2> HIDE DEF b
  <2> QED BY <1>1, <2>1, LetGoFacts DEF Keeps
<1>3. CASE IsView(p)
  <2>1. q \in DOMAIN graph.tensor
    BY <1>3, TensorFacts DEF IsView, Of
  <2>2. ReadBy(a, p) = LetGo(c, q) \/ ReadBy(a, p) = b
    BY <1>3, ReadByIs
  <2> HIDE DEF b, q
  <2>3. c \in Allocator(graph) /\ c.aborted = b.aborted
    BY <1>1, <2>1, CounterFacts
  <2> HIDE DEF c
  <2> QED BY <1>1, <2>1, <2>2, <2>3, LetGoFacts DEF Keeps
<1> QED BY <1>2, <1>3

\* After a read, what is still to be read is one less.
LEMMA ReadByCounts ==
    ASSUME Wellformed(graph), NEW a \in Allocator(graph),
           NEW D \in SUBSET Reads(graph), NEW r \in D,
           Counted(graph, a.hash, D, Holding(graph, D)),
           a.aborted \/ Wanted(graph, a.hash)
    PROVE  LET b == ReadBy(a, OperandAt(graph, r))
           IN  /\ Counted(graph, b.hash, D \ {r}, Holding(graph, D \ {r}))
               /\ b.aborted \/ Wanted(graph, b.hash)
<1> DEFINE p == OperandAt(graph, r)
           D2 == D \ {r}
           V == Holding(graph, D)
           V2 == Holding(graph, D2)
           b == OneRead(a, p)
           q == Of(p).view_src
           c == OneView(b, q)
           Result == ReadBy(a, p)
<1>1. p \in DOMAIN graph.tensor /\ r \in Reads(graph) /\ r \in Pending(graph, Reads(graph), p)
  BY ReadsFacts DEF Pending
<1>2. D2 \in SUBSET Reads(graph) /\ V \in SUBSET Views(graph) /\ V2 \in SUBSET Views(graph)
  BY DEF Holding
<1>3. /\ b \in Allocator(graph) /\ b.aborted = a.aborted
      /\ \A t \in DOMAIN graph.tensor :
            /\ b.hash[t].allocated = a.hash[t].allocated
            /\ b.hash[t].children = IF t = p THEN a.hash[t].children - 1
                                             ELSE a.hash[t].children
            /\ b.hash[t].views = a.hash[t].views
  BY <1>1, CounterFacts
<1>4. \A t \in DOMAIN graph.tensor :
          Pending(graph, D2, t) = IF t = p THEN Pending(graph, D, t) \ {r}
                                           ELSE Pending(graph, D, t)
  BY DEF Pending
<1>5. ASSUME NEW t \in DOMAIN graph.tensor
      PROVE  b.hash[t].children = Cardinality(Pending(graph, D2, t))
  <2>1. /\ IsFiniteSet(Pending(graph, D, t))
        /\ a.hash[t].children = Cardinality(Pending(graph, D, t))
    BY <1>2, CountFacts
  <2>2. CASE t = p
    <3>1. r \in Pending(graph, D, t)
      BY <2>2 DEF Pending
    <3>2. Cardinality(Pending(graph, D, t) \ {r}) = Cardinality(Pending(graph, D, t)) - 1
      BY <2>1, <3>1, FS_RemoveElement
    <3> HIDE DEF b, p, D2
    <3> QED BY <1>3, <1>4, <2>1, <2>2, <3>2
  <2>3. CASE t # p
    <3> HIDE DEF b, p, D2
    <3> QED BY <1>3, <1>4, <2>1, <2>3
  <2> QED BY <2>2, <2>3
<1>6. ASSUME NEW v \in Views(graph), v # p
      PROVE  v \in V2 <=> v \in V
  <2>1. v \in DOMAIN graph.tensor
    BY DEF Views, ToSet, Wellformed
  <2>2. Pending(graph, D2, v) = Pending(graph, D, v)
    BY <1>4, <1>6, <2>1
  <2> QED BY <2>2 DEF Holding
<1>7. p \in V2 <=> IsView(p) /\ Pending(graph, D2, p) # {} /\ p \in V
  <2>1. Pending(graph, Reads(graph), p) # {} /\ Pending(graph, D, p) # {}
    BY <1>1 DEF Pending
  <2>2. IsView(p) => p \in Views(graph)
    BY <1>1 DEF IsView, Of, Views, Wellformed
  <2>3. p \in Views(graph) => IsView(p)
    BY DEF IsView, Of, Views
  <2> HIDE DEF p, D2
  <2> QED BY <2>1, <2>2, <2>3 DEF Holding
<1>8. Wellformed(graph) /\ graph.tensor[p].view_src # NoTensor =>
          \A t \in DOMAIN graph.tensor : b.hash[t].allocated => t # p
  <2>1. Partition(graph, a.hash, a.free)
    BY AllocatorFacts
  <2> QED BY <1>3, <2>1 DEF Partition, HoldsAlone
<1>9. \A t \in DOMAIN graph.tensor : t # p =>
          (Needed(graph, b.hash, t) <=> Needed(graph, a.hash, t))
  BY <1>3 DEF Needed
<1> HIDE DEF p, D2, V, V2, b
<1>10. CASE ~IsView(p)
  <2>1. Result = LetGo(b, p)
    BY <1>10, ReadByIs DEF b
  <2>2. V2 = V
    BY <1>2, <1>6, <1>7, <1>10 DEF V, V2, Holding, Views, IsView, Of
  <2>3. Counted(graph, b.hash, D2, V2)
    BY <1>3, <1>5, <2>2 DEF Counted, V
  <2>4. \/ b.aborted
        \/ \A u \in DOMAIN graph.tensor : b.hash[u].allocated =>
               ~graph.tensor[u].external /\ (u # p => Needed(graph, b.hash, u))
    BY <1>3, <1>9 DEF Wanted
  <2> HIDE DEF Result
  <2>5. /\ Counted(graph, Result.hash, D2, V2)
        /\ Result.aborted \/ Wanted(graph, Result.hash)
    BY <1>1, <1>2, <1>3, <2>1, <2>3, <2>4, LetGoWanted
  <2> QED BY <2>5 DEF Result, p, D2, V2
<1>11. CASE IsView(p)
  <2>1. q \in DOMAIN graph.tensor /\ q # p
    BY <1>1, <1>11, TensorFacts DEF IsView, Of
  <2>2. b.hash[p].views = 0
    <3>1. HoldsOn(graph, V, p) = {}
      <4>1. ASSUME NEW v \in V, graph.tensor[v].view_src = p
            PROVE  FALSE
        <5>1. v \in DOMAIN graph.tensor /\ graph.tensor[v].view_src # NoTensor
          BY <1>2, <4>1 DEF Views, ToSet, Wellformed
        <5>2. graph.tensor[p].view_src = NoTensor
          BY <4>1, <5>1, TensorFacts
        <5> QED BY <1>11, <5>2 DEF IsView, Of
      <4> QED BY <4>1 DEF HoldsOn
    <3>2. Counted(graph, a.hash, D, V)
      BY DEF V
    <3>3. a.hash[p].views = Cardinality(HoldsOn(graph, V, p))
      BY <1>1, <3>2 DEF Counted
    <3>4. a.hash[p].views = 0
      BY <3>1, <3>3, FS_EmptySet
    <3> QED BY <1>1, <1>3, <3>4
  <2>3. b.hash[p].children = 0 <=> Pending(graph, D2, p) = {}
    <3>1. IsFiniteSet(Pending(graph, D2, p))
      <4>1. IsFiniteSet(Pending(graph, D, p))
        BY <1>1, <1>2, CountFacts DEF V
      <4> QED BY <1>1, <1>4, <4>1, FS_RemoveElement
    <3> QED BY <1>1, <1>5, <3>1, FS_EmptySet
  <2>4. CASE Pending(graph, D2, p) # {}
    <3>1. Result = b
      BY <1>11, <2>3, <2>4, ReadByIs DEF b
    <3>2. p \in V
      <4>1. Pending(graph, D, p) # {} /\ p \in Views(graph)
        <5>1. p \in Views(graph)
          BY <1>1, <1>11 DEF IsView, Of, Views, Wellformed
        <5>2. r \in Pending(graph, D, p)
          BY DEF Pending, p
        <5> QED BY <5>1, <5>2
      <4> QED BY <4>1 DEF V, Holding
    <3>3. V2 = V
      BY <1>2, <1>6, <1>7, <1>11, <2>4, <3>2
    <3>4. Counted(graph, b.hash, D2, V2)
      BY <1>3, <1>5, <3>3 DEF Counted, V
    <3>5. b.aborted \/ Wanted(graph, b.hash)
      BY <1>3, <1>8, <1>9, <1>11 DEF Wanted, IsView, Of
    <3> HIDE DEF Result
    <3>6. /\ Counted(graph, Result.hash, D2, V2)
          /\ Result.aborted \/ Wanted(graph, Result.hash)
      BY <3>1, <3>4, <3>5
    <3> QED BY <3>6 DEF Result, p, D2, V2
  <2>5. CASE Pending(graph, D2, p) = {}
    <3>1. Result = LetGo(c, q)
      BY <1>11, <2>2, <2>3, <2>5, ReadByIs DEF b
    <3>2. p \in V /\ V2 = V \ {p}
      <4>1. p \in Views(graph)
        BY <1>1, <1>11 DEF IsView, Of, Views, Wellformed
      <4>2. Pending(graph, D, p) # {}
        BY DEF Pending, p
      <4>3. p \in V
        BY <4>1, <4>2 DEF V, Holding
      <4> QED BY <1>2, <1>6, <1>7, <2>5, <4>3
    <3>3. /\ c \in Allocator(graph) /\ c.aborted = b.aborted
          /\ \A t \in DOMAIN graph.tensor :
                /\ c.hash[t].allocated = b.hash[t].allocated
                /\ c.hash[t].children = b.hash[t].children
                /\ c.hash[t].views = IF t = q THEN b.hash[t].views - 1
                                              ELSE b.hash[t].views
      <4> HIDE DEF q
      <4> QED BY <1>3, <2>1, CounterFacts
    <3>4. \A t \in DOMAIN graph.tensor :
              HoldsOn(graph, V2, t) = IF t = q THEN HoldsOn(graph, V, t) \ {p}
                                               ELSE HoldsOn(graph, V, t)
      BY <3>2 DEF HoldsOn, Of
    <3> HIDE DEF q, c
    <3>5. ASSUME NEW t \in DOMAIN graph.tensor
          PROVE  c.hash[t].views = Cardinality(HoldsOn(graph, V2, t))
      <4>1. /\ IsFiniteSet(HoldsOn(graph, V, t))
            /\ a.hash[t].views = Cardinality(HoldsOn(graph, V, t))
        BY <1>2, CountFacts DEF V
      <4>2. CASE t = q
        <5>1. p \in HoldsOn(graph, V, t)
          BY <3>2, <4>2 DEF HoldsOn, q, Of
        <5>2. Cardinality(HoldsOn(graph, V, t) \ {p}) = Cardinality(HoldsOn(graph, V, t)) - 1
          BY <4>1, <5>1, FS_RemoveElement
        <5> QED BY <1>3, <3>3, <3>4, <4>1, <4>2, <5>2, ZenonT(40)
      <4>3. CASE t # q
        BY <1>3, <3>3, <3>4, <4>1, <4>3
      <4> QED BY <4>2, <4>3
    <3>6. Counted(graph, c.hash, D2, V2)
      BY <1>5, <3>3, <3>5 DEF Counted
    <3>7. \/ c.aborted
          \/ \A u \in DOMAIN graph.tensor : c.hash[u].allocated =>
                 ~graph.tensor[u].external /\ (u # q => Needed(graph, c.hash, u))
      <4>1. SUFFICES ASSUME ~a.aborted, NEW u \in DOMAIN graph.tensor, c.hash[u].allocated
                     PROVE  /\ ~graph.tensor[u].external
                            /\ u # q => Needed(graph, c.hash, u)
        BY <1>3, <3>3
      <4>2. u # p /\ a.hash[u].allocated
        BY <1>3, <1>8, <1>11, <3>3, <4>1 DEF IsView, Of
      <4>3. ~graph.tensor[u].external /\ Needed(graph, b.hash, u)
        BY <1>9, <4>1, <4>2 DEF Wanted
      <4> QED BY <3>3, <4>3 DEF Needed
    <3> HIDE DEF Result
    <3>8. /\ Counted(graph, Result.hash, D2, V2)
          /\ Result.aborted \/ Wanted(graph, Result.hash)
      BY <1>2, <2>1, <3>1, <3>3, <3>6, <3>7, LetGoWanted
    <3> QED BY <3>8 DEF Result, p, D2, V2
  <2> QED BY <2>4, <2>5
<1> QED BY <1>10, <1>11

LEMMA AllocateNodeWanted ==
    ASSUME Wellformed(graph), NEW a \in Allocator(graph),
           NEW t \in DOMAIN graph.tensor, NEW D, NEW V,
           Counted(graph, a.hash, D, V), Wanted(graph, a.hash),
           Needed(graph, a.hash, t)
    PROVE  /\ Counted(graph, AllocateNode(a, t).hash, D, V)
           /\ Wanted(graph, AllocateNode(a, t).hash)
<1> DEFINE b == AllocateNode(a, t)
<1>1. /\ b \in Allocator(graph) /\ Keeps(a, b, {t})
      /\ b.hash[t].allocated => a.hash[t].allocated \/ ~graph.tensor[t].external
  BY AllocateNodeFacts
<1> HIDE DEF b
<1>2. Counted(graph, b.hash, D, V)
  BY <1>1 DEF Keeps, Counted
<1>3. ASSUME NEW u \in DOMAIN graph.tensor, b.hash[u].allocated
      PROVE  ~graph.tensor[u].external /\ Needed(graph, b.hash, u)
  <2>1. Needed(graph, b.hash, u) <=> Needed(graph, a.hash, u)
    BY <1>1 DEF Keeps, Needed
  <2>2. CASE u = t
    BY <1>1, <1>3, <2>1, <2>2 DEF Wanted
  <2>3. CASE u # t
    BY <1>1, <1>3, <2>1, <2>3 DEF Wanted, Keeps
  <2> QED BY <2>2, <2>3
<1> QED BY <1>2, <1>3 DEF Wanted, b

\* The reads before and from node k.
Before(g, k) == {r \in Reads(g) : r[1] < k}
From(g, k) == {r \in Reads(g) : r[1] >= k}
ViewsBefore(g, k) == {v \in Views(g) : \E j \in 1 .. k - 1 : g.nodes[j] = v}

\* What a node reads or views is an earlier node or a leaf.
LEMMA OperandFacts ==
    ASSUME NEW g, Wellformed(g), NEW k \in DOMAIN g.nodes, NEW p, p # NoTensor,
           p \in ToSet(g.tensor[g.nodes[k]].src) \cup {g.tensor[g.nodes[k]].view_src}
    PROVE  /\ p \in ToSet(g.nodes) => \E j \in 1 .. k - 1 : g.nodes[j] = p
           /\ p \notin ToSet(g.nodes) => g.tensor[p].external
  BY DEF Wellformed

\* When a node gets its memory, whoever reads it or a view of it is to come.
LEMMA NodeNeeded ==
    ASSUME NEW g, Wellformed(g), NEW k \in DOMAIN g.nodes, NEW h,
           Counted(g, h, From(g, k), Holding(g, From(g, k)))
    PROVE  Needed(g, h, g.nodes[k])
<1> DEFINE t == g.nodes[k]
           D == From(g, k)
           V == Holding(g, D)
<1>1. t \in DOMAIN g.tensor /\ DOMAIN g.nodes = 1 .. Len(g.nodes) /\ Len(g.nodes) \in Nat
  BY DEF Wellformed
<1>2. D \in SUBSET Reads(g) /\ V \in SUBSET Views(g)
  BY DEF From, Holding
\* Whatever reads or views a node stands behind it.
<1>3. ASSUME NEW j \in DOMAIN g.nodes, NEW i \in DOMAIN g.nodes,
             \/ g.nodes[i] \in ToSet(g.tensor[g.nodes[j]].src)
             \/ g.nodes[i] = g.tensor[g.nodes[j]].view_src
      PROVE  i < j
  <2>1. g.nodes[i] \in ToSet(g.nodes) /\ g.nodes[i] # NoTensor
    BY GraphAllocAssumption DEF ToSet, Wellformed, GraphAllocAssumption
  <2>2. PICK i2 \in 1 .. j - 1 : g.nodes[i2] = g.nodes[i]
    BY <1>3, <2>1, OperandFacts
  <2>3. i2 \in DOMAIN g.nodes
    BY <1>1, <2>2
  <2>4. i2 = i
    BY <2>2, <2>3 DEF Wellformed, IsInjective
  <2> QED BY <1>1, <2>2, <2>4
<1>4. CASE NeverRead(g, t)
  BY <1>4 DEF Needed
<1>5. CASE ~NeverRead(g, t)
  <2>1. PICK r \in Reads(g) : RootOf(g, OperandAt(g, r)) = t
    BY <1>5 DEF NeverRead
  <2>2. /\ r[1] \in DOMAIN g.nodes /\ OperandAt(g, r) \in DOMAIN g.tensor
        /\ OperandAt(g, r) \in ToSet(g.tensor[g.nodes[r[1]]].src)
    BY ReadsFacts DEF OperandAt, ToSet
  <2>3. CASE OperandAt(g, r) = t
    <3>1. k < r[1]
      BY <1>3, <2>2, <2>3
    <3>2. r \in D
      BY <1>1, <2>2, <3>1 DEF From
    <3>3. r \in Pending(g, D, t)
      BY <2>3, <3>2 DEF Pending
    <3> HIDE DEF t, D, V
    <3>4. h[t].children # 0 /\ h[t].children \in Nat
      BY <1>1, <1>2, <3>3, CountFacts DEF D, V
    <3> QED BY <3>4 DEF Needed, t
  <2>4. CASE OperandAt(g, r) # t
    <3> DEFINE v == OperandAt(g, r)
    <3>1. g.tensor[v].view_src = t /\ t # NoTensor
      BY <2>1, <2>4 DEF RootOf
    <3>2. v \in ToSet(g.nodes)
      BY <2>2, <3>1 DEF Wellformed
    <3>3. PICK j \in DOMAIN g.nodes : g.nodes[j] = v
      BY <3>2 DEF ToSet
    <3>4. k < j
      BY <1>3, <3>1, <3>3
    <3>5. j < r[1]
      BY <1>3, <2>2, <3>3
    <3>6. r \in D
      BY <1>1, <2>2, <3>4, <3>5 DEF From
    <3>7. v \in V
      BY <3>1, <3>2, <3>6 DEF Holding, Views, Pending
    <3>8. v \in HoldsOn(g, V, t)
      BY <3>1, <3>7 DEF HoldsOn
    <3> HIDE DEF t, D, V, v
    <3>9. h[t].views # 0 /\ h[t].views \in Nat
      BY <1>1, <1>2, <3>8, CountFacts DEF D, V
    <3> QED BY <3>9 DEF Needed, t
  <2> QED BY <2>3, <2>4
<1> QED BY <1>4, <1>5

-----------------------------------------------------------------------------
(* The loops over the operands.                                            *)

LEMMA MaxIsMember ==
    ASSUME NEW n \in Nat, NEW T \in SUBSET (1 .. n), T # {}
    PROVE  Max(T) \in T /\ \A y \in T : Max(T) >= y
<1> DEFINE F == {s \in SUBSET T : s # {} => \E x \in s : \A y \in s : x >= y}
<1>1. ASSUME NEW s \in SUBSET T, \A x \in s : s \ {x} \in F
      PROVE  s \in F
  <2>1. ASSUME s # {}
        PROVE  \E x \in s : \A y \in s : x >= y
    <3>1. PICK a \in s : TRUE
      BY <2>1
    <3>2. CASE s \ {a} = {}
      <4>1. \A y \in s : y = a
        BY <3>2
      <4> QED BY <3>1, <4>1
    <3>3. CASE s \ {a} # {}
      <4>1. PICK x \in s \ {a} : \A y \in s \ {a} : x >= y
        BY <1>1, <3>3
      <4>2. \A y \in s : y \in Int
        OBVIOUS
      <4>3. CASE a >= x
        BY <4>1, <4>2, <4>3
      <4>4. CASE x >= a
        BY <4>1, <4>2, <4>4
      <4> QED BY <4>2, <4>3, <4>4
    <3> QED BY <3>2, <3>3
  <2> QED BY <2>1
<1>2. IsFiniteSet(T)
  <2>1. IsFiniteSet(1 .. n)
    BY FS_Interval, 1 \in Int, n \in Int
  <2> QED BY <2>1, FS_Subset
<1>3. T \in F
  <2> HIDE DEF F
  <2> QED BY <1>1, <1>2, FiniteInductive
<1>4. \E x \in T : \A y \in T : x >= y
  BY <1>3
<1> QED BY <1>4 DEF Max

\* Induction over the sets of turns.
LEMMA TurnsInductive ==
    ASSUME NEW n \in Nat, NEW F,
           \A s \in SUBSET (1 .. n) : (\A x \in s : s \ {x} \in F) => s \in F
    PROVE  \A s \in SUBSET (1 .. n) : s \in F
<1>1. IsFiniteSet(1 .. n)
  BY FS_Interval
<1> SUFFICES ASSUME NEW u \in SUBSET (1 .. n)
             PROVE  u \in F
  OBVIOUS
<1>2. IsFiniteSet(u)
  BY <1>1, FS_Subset
<1>3. \A s \in SUBSET u : (\A x \in s : s \ {x} \in F) => s \in F
  OBVIOUS
<1> QED BY <1>2, <1>3, FiniteInductive

\* What a loop over 1 .. n has come to after the turns s.
Turn(g, s, base, step) ==
    IF s = {} THEN base ELSE step[<<g[s \ {Max(s)}], Max(s)>>]

IsLoop(g, n, X, base, step) ==
    /\ g \in [SUBSET (1 .. n) -> X]
    /\ \A s \in SUBSET (1 .. n) : g[s] = Turn(g, s, base, step)

LEMMA LoopExists ==
    ASSUME NEW n \in Nat, NEW X, NEW base \in X, NEW step \in [X \X (1 .. n) -> X]
    PROVE  \E g : IsLoop(g, n, X, base, step)
<1> DEFINE Loop(g, m) == /\ g \in [SUBSET (1 .. m) -> X]
                         /\ \A s \in SUBSET (1 .. m) : g[s] = Turn(g, s, base, step)
           S == {m \in Nat : m =< n => \E g : Loop(g, m)}
<1>1. 0 \in S
  <2> DEFINE g == [s \in SUBSET (1 .. 0) |-> base]
  <2>1. \A s \in SUBSET (1 .. 0) : s = {}
    OBVIOUS
  <2>2. Loop(g, 0)
    BY <2>1 DEF Turn
  <2> QED BY <2>2
<1>2. ASSUME NEW m \in Nat, m \in S
      PROVE  m + 1 \in S
  <2> HIDE DEF Loop
  <2> SUFFICES ASSUME m + 1 =< n
               PROVE  \E h : Loop(h, m + 1)
    OBVIOUS
  <2>1. PICK g : Loop(g, m)
    <3>1. m =< n
      OBVIOUS
    <3> QED BY <1>2, <3>1
  <2> USE DEF Loop
  <2> DEFINE h == [u \in SUBSET (1 .. (m + 1)) |->
                      IF m + 1 \in u THEN step[<<g[u \ {m + 1}], m + 1>>] ELSE g[u]]
  <2>2. \A u \in SUBSET (1 .. (m + 1)) : m + 1 \notin u => u \in SUBSET (1 .. m)
    OBVIOUS
  <2>3. \A u \in SUBSET (1 .. (m + 1)) : u \ {m + 1} \in SUBSET (1 .. m)
    OBVIOUS
  <2>4. h \in [SUBSET (1 .. (m + 1)) -> X]
    <3>1. ASSUME NEW u \in SUBSET (1 .. (m + 1))
          PROVE  h[u] \in X
      <4>1. m + 1 \in 1 .. n
        OBVIOUS
      <4>2. CASE m + 1 \in u
        <5>1. g[u \ {m + 1}] \in X
          BY <2>1, <2>3
        <5>2. step[<<g[u \ {m + 1}], m + 1>>] \in X
          BY <4>1, <5>1
        <5> QED BY <4>2, <5>2
      <4>3. CASE m + 1 \notin u
        <5>1. g[u] \in X
          BY <2>1, <2>2, <4>3
        <5> QED BY <4>3, <5>1
      <4> QED BY <4>2, <4>3
    <3> QED BY <3>1
  <2>5. ASSUME NEW u \in SUBSET (1 .. (m + 1))
        PROVE  h[u] = Turn(h, u, base, step)
    <3>1. CASE m + 1 \in u
      <4>1. Max(u) = m + 1
        <5>1. Max(u) \in u /\ Max(u) >= m + 1
          BY <3>1, MaxIsMember, m + 1 \in Nat
        <5>2. Max(u) \in 1 .. (m + 1)
          BY <5>1
        <5> QED BY <5>1, <5>2
      <4>2. u \ {m + 1} \in SUBSET (1 .. (m + 1)) /\ m + 1 \notin u \ {m + 1}
        OBVIOUS
      <4>3. h[u \ {m + 1}] = g[u \ {m + 1}]
        BY <4>2
      <4>4. h[u] = step[<<g[u \ {m + 1}], m + 1>>]
        BY <3>1
      <4>5. u # {}
        BY <3>1
      <4> HIDE DEF h
      <4> QED BY <4>1, <4>3, <4>4, <4>5 DEF Turn
    <3>2. CASE m + 1 \notin u
      <4>1. u \in SUBSET (1 .. m) /\ h[u] = g[u]
        BY <2>2, <3>2
      <4>2. g[u] = Turn(g, u, base, step)
        BY <2>1, <4>1
      <4>3. CASE u = {}
        <5> HIDE DEF h
        <5> QED BY <4>1, <4>2, <4>3 DEF Turn
      <4>4. CASE u # {}
        <5>1. u \ {Max(u)} \in SUBSET (1 .. (m + 1)) /\ m + 1 \notin u \ {Max(u)}
          BY <3>2
        <5>2. h[u \ {Max(u)}] = g[u \ {Max(u)}]
          BY <5>1
        <5> HIDE DEF h
        <5> QED BY <4>1, <4>2, <4>4, <5>2 DEF Turn
      <4> QED BY <4>3, <4>4
    <3> QED BY <3>1, <3>2
  <2>6. Loop(h, m + 1)
    <3> HIDE DEF h
    <3> QED BY <2>4, <2>5
  <2> QED BY <2>6
<1>3. \A m \in Nat : m \in S
  <2> HIDE DEF S
  <2> QED BY <1>1, <1>2, NatInductive
<1>4. \E g : Loop(g, n)
  <2> HIDE DEF Loop
  <2>1. n \in S
    BY <1>3
  <2>2. n =< n
    OBVIOUS
  <2> QED BY <2>1, <2>2
<1> QED BY <1>4 DEF IsLoop

\* One more reader of p.
CountRead(h, p) == [h EXCEPT ![p].children = @ + 1]

\* The loops of ggml_gallocr_alloc_graph_impl over the operands of a node.
AllocateTurn(it, s, base, src) ==
    IF s = {} THEN base ELSE AllocateNode(it[s \ {Max(s)}], src[Max(s)])
ReadTurn(it, s, base, src) ==
    IF s = {} THEN base ELSE ReadBy(it[s \ {Max(s)}], src[Max(s)])
CountTurn(it, s, base, src) ==
    IF s = {} THEN base ELSE CountRead(it[s \ {Max(s)}], src[Max(s)])

LEMMA AllocateLoop ==
    ASSUME Wellformed(graph), NEW base \in Allocator(graph),
           NEW src \in Seq(DOMAIN graph.tensor)
    PROVE  \E it \in [SUBSET (1 .. Len(src)) -> Allocator(graph)] :
              /\ FoldLeft(AllocateNode, base, src) = it[1 .. Len(src)]
              /\ \A s \in SUBSET (1 .. Len(src)) : it[s] = AllocateTurn(it, s, base, src)
<1> DEFINE n == Len(src)
           X == Allocator(graph)
           step == [ai \in X \X (1 .. n) |-> AllocateNode(ai[1], src[ai[2]])]
           iter == CHOOSE it : it = [s \in SUBSET (1 .. n) |-> AllocateTurn(it, s, base, src)]
<1>1. n \in Nat /\ DOMAIN src = 1 .. n /\ \A i \in 1 .. n : src[i] \in DOMAIN graph.tensor
  OBVIOUS
<1>2. FoldLeft(AllocateNode, base, src) = iter[1 .. n]
  <2>1. FoldLeft(AllocateNode, base, src)
          = (CHOOSE it : it = [s \in SUBSET DOMAIN src |->
                                  AllocateTurn(it, s, base, src)])[DOMAIN src]
    BY DEF FoldLeft, MapThenFoldSet, AllocateTurn
  <2> QED BY <1>1, <2>1
<1>3. step \in [X \X (1 .. n) -> X]
  <2> HIDE DEF n
  <2>1. ASSUME NEW ai \in X \X (1 .. n)
        PROVE  AllocateNode(ai[1], src[ai[2]]) \in X
    BY <1>1, <2>1, AllocateNodeFacts
  <2> QED BY <2>1
<1>4. PICK g : IsLoop(g, n, X, base, step)
  <2> HIDE DEF step, X, n
  <2>1. base \in X
    BY DEF X
  <2> QED BY <1>1, <1>3, <2>1, LoopExists
<1>5. ASSUME NEW s \in SUBSET (1 .. n)
      PROVE  g[s] = AllocateTurn(g, s, base, src)
  <2>1. CASE s = {}
    BY <1>4, <2>1 DEF IsLoop, Turn, AllocateTurn
  <2>2. CASE s # {}
    <3>1. Max(s) \in s
      BY <1>1, <2>2, MaxIsMember
    <3>2. g[s \ {Max(s)}] \in X /\ Max(s) \in 1 .. n
      BY <1>4, <3>1 DEF IsLoop
    <3>3. step[<<g[s \ {Max(s)}], Max(s)>>] = AllocateNode(g[s \ {Max(s)}], src[Max(s)])
      BY <3>2
    <3> HIDE DEF step
    <3> QED BY <1>4, <2>2, <3>3 DEF IsLoop, Turn, AllocateTurn
  <2> QED BY <2>1, <2>2
<1>6. g = [s \in SUBSET (1 .. n) |-> AllocateTurn(g, s, base, src)]
  <2> DEFINE P(s) == AllocateTurn(g, s, base, src)
  <2>1. \A s \in SUBSET (1 .. n) : g[s] = P(s)
    BY <1>5
  <2> HIDE DEF P, n, X
  <2>2. g = [s \in SUBSET (1 .. n) |-> P(s)]
    BY <1>4, <2>1 DEF IsLoop
  <2> QED BY <2>2 DEF P
<1>7. iter = [s \in SUBSET (1 .. n) |-> AllocateTurn(iter, s, base, src)]
  BY <1>6
<1> HIDE DEF iter, n
<1>8. \A s \in SUBSET (1 .. n) : iter[s] = AllocateTurn(iter, s, base, src)
  BY <1>7
<1> DEFINE F == {s \in SUBSET (1 .. n) : iter[s] \in X}
<1>9. ASSUME NEW s \in SUBSET (1 .. n), \A x \in s : s \ {x} \in F
      PROVE  s \in F
  <2>1. CASE s = {}
    BY <1>8, <2>1 DEF AllocateTurn
  <2>2. CASE s # {}
    <3>1. Max(s) \in s
      BY <1>1, <2>2, MaxIsMember
    <3>2. iter[s \ {Max(s)}] \in X /\ src[Max(s)] \in DOMAIN graph.tensor
      BY <1>1, <1>9, <3>1
    <3> QED BY <1>8, <2>2, <3>2, AllocateNodeFacts DEF AllocateTurn
  <2> QED BY <2>1, <2>2
<1>10. \A s \in SUBSET (1 .. n) : s \in F
  <2> HIDE DEF F
  <2> QED BY <1>1, <1>9, TurnsInductive
<1>11. iter \in [SUBSET (1 .. n) -> X]
  <2> DEFINE P(s) == AllocateTurn(iter, s, base, src)
  <2>1. iter = [s \in SUBSET (1 .. n) |-> P(s)]
    BY <1>7
  <2>2. \A s \in SUBSET (1 .. n) : iter[s] \in X
    BY <1>10
  <2> HIDE DEF P, X
  <2> QED BY <2>1, <2>2
<1> QED BY <1>2, <1>8, <1>11 DEF n

LEMMA ReadLoop ==
    ASSUME Wellformed(graph), NEW base \in Allocator(graph),
           NEW src \in Seq(DOMAIN graph.tensor)
    PROVE  \E it \in [SUBSET (1 .. Len(src)) -> Allocator(graph)] :
              /\ FoldLeft(ReadBy, base, src) = it[1 .. Len(src)]
              /\ \A s \in SUBSET (1 .. Len(src)) : it[s] = ReadTurn(it, s, base, src)
<1> DEFINE n == Len(src)
           X == Allocator(graph)
           step == [ai \in X \X (1 .. n) |-> ReadBy(ai[1], src[ai[2]])]
           iter == CHOOSE it : it = [s \in SUBSET (1 .. n) |-> ReadTurn(it, s, base, src)]
<1>1. n \in Nat /\ DOMAIN src = 1 .. n /\ \A i \in 1 .. n : src[i] \in DOMAIN graph.tensor
  OBVIOUS
<1>2. FoldLeft(ReadBy, base, src) = iter[1 .. n]
  <2>1. FoldLeft(ReadBy, base, src)
          = (CHOOSE it : it = [s \in SUBSET DOMAIN src |->
                                  ReadTurn(it, s, base, src)])[DOMAIN src]
    BY DEF FoldLeft, MapThenFoldSet, ReadTurn
  <2> QED BY <1>1, <2>1
<1>3. step \in [X \X (1 .. n) -> X]
  <2> HIDE DEF n
  <2>1. ASSUME NEW ai \in X \X (1 .. n)
        PROVE  ReadBy(ai[1], src[ai[2]]) \in X
    BY <1>1, <2>1, ReadByStays
  <2> QED BY <2>1
<1>4. PICK g : IsLoop(g, n, X, base, step)
  <2> HIDE DEF step, X, n
  <2>1. base \in X
    BY DEF X
  <2> QED BY <1>1, <1>3, <2>1, LoopExists
<1>5. ASSUME NEW s \in SUBSET (1 .. n)
      PROVE  g[s] = ReadTurn(g, s, base, src)
  <2>1. CASE s = {}
    BY <1>4, <2>1 DEF IsLoop, Turn, ReadTurn
  <2>2. CASE s # {}
    <3>1. Max(s) \in s
      BY <1>1, <2>2, MaxIsMember
    <3>2. g[s \ {Max(s)}] \in X /\ Max(s) \in 1 .. n
      BY <1>4, <3>1 DEF IsLoop
    <3>3. step[<<g[s \ {Max(s)}], Max(s)>>] = ReadBy(g[s \ {Max(s)}], src[Max(s)])
      BY <3>2
    <3> HIDE DEF step
    <3> QED BY <1>4, <2>2, <3>3 DEF IsLoop, Turn, ReadTurn
  <2> QED BY <2>1, <2>2
<1>6. g = [s \in SUBSET (1 .. n) |-> ReadTurn(g, s, base, src)]
  <2> DEFINE P(s) == ReadTurn(g, s, base, src)
  <2>1. \A s \in SUBSET (1 .. n) : g[s] = P(s)
    BY <1>5
  <2> HIDE DEF P, n, X
  <2>2. g = [s \in SUBSET (1 .. n) |-> P(s)]
    BY <1>4, <2>1 DEF IsLoop
  <2> QED BY <2>2 DEF P
<1>7. iter = [s \in SUBSET (1 .. n) |-> ReadTurn(iter, s, base, src)]
  BY <1>6
<1> HIDE DEF iter, n
<1>8. \A s \in SUBSET (1 .. n) : iter[s] = ReadTurn(iter, s, base, src)
  BY <1>7
<1> DEFINE F == {s \in SUBSET (1 .. n) : iter[s] \in X}
<1>9. ASSUME NEW s \in SUBSET (1 .. n), \A x \in s : s \ {x} \in F
      PROVE  s \in F
  <2>1. CASE s = {}
    BY <1>8, <2>1 DEF ReadTurn
  <2>2. CASE s # {}
    <3>1. Max(s) \in s
      BY <1>1, <2>2, MaxIsMember
    <3>2. iter[s \ {Max(s)}] \in X /\ src[Max(s)] \in DOMAIN graph.tensor
      BY <1>1, <1>9, <3>1
    <3> QED BY <1>8, <2>2, <3>2, ReadByStays DEF ReadTurn
  <2> QED BY <2>1, <2>2
<1>10. \A s \in SUBSET (1 .. n) : s \in F
  <2> HIDE DEF F
  <2> QED BY <1>1, <1>9, TurnsInductive
<1>11. iter \in [SUBSET (1 .. n) -> X]
  <2> DEFINE P(s) == ReadTurn(iter, s, base, src)
  <2>1. iter = [s \in SUBSET (1 .. n) |-> P(s)]
    BY <1>7
  <2>2. \A s \in SUBSET (1 .. n) : iter[s] \in X
    BY <1>10
  <2> HIDE DEF P, X
  <2> QED BY <2>1, <2>2
<1> QED BY <1>2, <1>8, <1>11 DEF n

LEMMA CountReadStays ==
    ASSUME NEW h \in [DOMAIN graph.tensor -> Slot], NEW p \in DOMAIN graph.tensor
    PROVE  /\ CountRead(h, p) \in [DOMAIN graph.tensor -> Slot]
           /\ \A t \in DOMAIN graph.tensor :
                /\ CountRead(h, p)[t].children = IF t = p THEN h[t].children + 1
                                                          ELSE h[t].children
                /\ CountRead(h, p)[t].views = h[t].views
                /\ CountRead(h, p)[t].offset = h[t].offset
                /\ CountRead(h, p)[t].allocated = h[t].allocated
<1> DEFINE sl == [h[p] EXCEPT !.children = @ + 1]
<1>1. /\ sl \in Slot /\ sl.children = h[p].children + 1 /\ sl.views = h[p].views
      /\ sl.offset = h[p].offset /\ sl.allocated = h[p].allocated
  <2>1. h[p] \in Slot
    OBVIOUS
  <2> QED BY <2>1 DEF Slot
<1>2. CountRead(h, p) = [h EXCEPT ![p] = sl]
  BY DEF CountRead
<1> HIDE DEF sl
<1> QED BY <1>1, <1>2

LEMMA CountLoop ==
    ASSUME NEW base \in [DOMAIN graph.tensor -> Slot],
           NEW src \in Seq(DOMAIN graph.tensor)
    PROVE  \E it \in [SUBSET (1 .. Len(src)) -> [DOMAIN graph.tensor -> Slot]] :
              /\ FoldLeft(CountRead, base, src) = it[1 .. Len(src)]
              /\ \A s \in SUBSET (1 .. Len(src)) : it[s] = CountTurn(it, s, base, src)
<1> DEFINE n == Len(src)
           X == [DOMAIN graph.tensor -> Slot]
           step == [ai \in X \X (1 .. n) |-> CountRead(ai[1], src[ai[2]])]
           iter == CHOOSE it : it = [s \in SUBSET (1 .. n) |-> CountTurn(it, s, base, src)]
<1>1. n \in Nat /\ DOMAIN src = 1 .. n /\ \A i \in 1 .. n : src[i] \in DOMAIN graph.tensor
  OBVIOUS
<1>2. FoldLeft(CountRead, base, src) = iter[1 .. n]
  <2>1. FoldLeft(CountRead, base, src)
          = (CHOOSE it : it = [s \in SUBSET DOMAIN src |->
                                  CountTurn(it, s, base, src)])[DOMAIN src]
    BY DEF CountRead, FoldLeft, MapThenFoldSet, CountTurn
  <2> QED BY <1>1, <2>1
<1>3. step \in [X \X (1 .. n) -> X]
  <2> HIDE DEF n
  <2>1. ASSUME NEW ai \in X \X (1 .. n)
        PROVE  CountRead(ai[1], src[ai[2]]) \in X
    BY <1>1, <2>1, CountReadStays
  <2> QED BY <2>1
<1>4. PICK g : IsLoop(g, n, X, base, step)
  <2> HIDE DEF step, X, n
  <2>1. base \in X
    BY DEF X
  <2> QED BY <1>1, <1>3, <2>1, LoopExists
<1>5. ASSUME NEW s \in SUBSET (1 .. n)
      PROVE  g[s] = CountTurn(g, s, base, src)
  <2>1. CASE s = {}
    BY <1>4, <2>1 DEF IsLoop, Turn, CountTurn
  <2>2. CASE s # {}
    <3>1. Max(s) \in s
      BY <1>1, <2>2, MaxIsMember
    <3>2. g[s \ {Max(s)}] \in X /\ Max(s) \in 1 .. n
      BY <1>4, <3>1 DEF IsLoop
    <3>3. step[<<g[s \ {Max(s)}], Max(s)>>] = CountRead(g[s \ {Max(s)}], src[Max(s)])
      BY <3>2
    <3> HIDE DEF step
    <3> QED BY <1>4, <2>2, <3>3 DEF IsLoop, Turn, CountTurn
  <2> QED BY <2>1, <2>2
<1>6. g = [s \in SUBSET (1 .. n) |-> CountTurn(g, s, base, src)]
  <2> DEFINE P(s) == CountTurn(g, s, base, src)
  <2>1. \A s \in SUBSET (1 .. n) : g[s] = P(s)
    BY <1>5
  <2> HIDE DEF P, n, X
  <2>2. g = [s \in SUBSET (1 .. n) |-> P(s)]
    BY <1>4, <2>1 DEF IsLoop
  <2> QED BY <2>2 DEF P
<1>7. iter = [s \in SUBSET (1 .. n) |-> CountTurn(iter, s, base, src)]
  BY <1>6
<1> HIDE DEF iter, n
<1>8. \A s \in SUBSET (1 .. n) : iter[s] = CountTurn(iter, s, base, src)
  BY <1>7
<1> DEFINE F == {s \in SUBSET (1 .. n) : iter[s] \in X}
<1>9. ASSUME NEW s \in SUBSET (1 .. n), \A x \in s : s \ {x} \in F
      PROVE  s \in F
  <2>1. CASE s = {}
    BY <1>8, <2>1 DEF CountTurn
  <2>2. CASE s # {}
    <3>1. Max(s) \in s
      BY <1>1, <2>2, MaxIsMember
    <3>2. iter[s \ {Max(s)}] \in X /\ src[Max(s)] \in DOMAIN graph.tensor
      BY <1>1, <1>9, <3>1
    <3>3. CountRead(iter[s \ {Max(s)}], src[Max(s)]) \in X
      BY <3>2, CountReadStays
    <3>4. iter[s] = CountRead(iter[s \ {Max(s)}], src[Max(s)])
      BY <1>8, <2>2 DEF CountTurn
    <3> QED BY <3>3, <3>4
  <2> QED BY <2>1, <2>2
<1>10. \A s \in SUBSET (1 .. n) : s \in F
  <2> HIDE DEF F
  <2> QED BY <1>1, <1>9, TurnsInductive
<1>11. iter \in [SUBSET (1 .. n) -> X]
  <2> DEFINE P(s) == CountTurn(iter, s, base, src)
  <2>1. iter = [s \in SUBSET (1 .. n) |-> P(s)]
    BY <1>7
  <2>2. \A s \in SUBSET (1 .. n) : iter[s] \in X
    BY <1>10
  <2> HIDE DEF P, X
  <2> QED BY <2>1, <2>2
<1> QED BY <1>2, <1>8, <1>11 DEF n

-----------------------------------------------------------------------------
(* The steps.                                                              *)

LEMMA NodeFacts ==
    ASSUME Wellformed(graph), NEW k \in DOMAIN graph.nodes
    PROVE  /\ Len(graph.nodes) \in Nat /\ k \in 1 .. Len(graph.nodes)
           /\ graph.nodes[k] \in DOMAIN graph.tensor /\ graph.nodes[k] \in Node
           /\ Of(graph.nodes[k]).src \in Seq(DOMAIN graph.tensor)
           /\ Root(graph.nodes[k]) \in DOMAIN graph.tensor
<1>1. Len(graph.nodes) \in Nat /\ DOMAIN graph.nodes = 1 .. Len(graph.nodes)
      /\ graph.nodes[k] \in DOMAIN graph.tensor /\ graph.nodes[k] \in Node
  BY DEF Wellformed, Node, ToSet
<1> QED BY <1>1, TensorFacts DEF Of, Root, IsView

\* The first loop counts the readers and the views of a node.
LEMMA CountNode ==
    ASSUME Wellformed(graph), NEW k \in DOMAIN graph.nodes,
           NEW h \in [DOMAIN graph.tensor -> Slot],
           Counted(graph, h, Before(graph, k), ViewsBefore(graph, k))
    PROVE  LET t == graph.nodes[k]
               viewed == [h EXCEPT ![Root(t)].views = IF IsView(t) THEN @ + 1 ELSE @]
               h2 == FoldLeft(CountRead, viewed, Of(t).src)
           IN  /\ h2 \in [DOMAIN graph.tensor -> Slot]
               /\ Counted(graph, h2, Before(graph, k + 1), ViewsBefore(graph, k + 1))
               /\ \A u \in DOMAIN graph.tensor : /\ h2[u].allocated = h[u].allocated
                                                 /\ h2[u].offset = h[u].offset
<1> DEFINE t == graph.nodes[k]
           src == Of(t).src
           n == Len(src)
           root == Root(t)
           sl == [h[root] EXCEPT !.views = IF IsView(t) THEN @ + 1 ELSE @]
           viewed == [h EXCEPT ![root].views = IF IsView(t) THEN @ + 1 ELSE @]
           V == ViewsBefore(graph, k)
           V2 == ViewsBefore(graph, k + 1)
           D(s) == Before(graph, k) \cup ({k} \X s)
           h2 == FoldLeft(CountRead, viewed, src)
<1>1. /\ t \in DOMAIN graph.tensor /\ src \in Seq(DOMAIN graph.tensor)
      /\ root \in DOMAIN graph.tensor /\ k \in Nat /\ k >= 1
      /\ DOMAIN graph.nodes = 1 .. Len(graph.nodes) /\ Len(graph.nodes) \in Nat
  BY NodeFacts
<1>2. n \in Nat /\ DOMAIN src = 1 .. n
  BY <1>1
<1>3. V \in SUBSET Views(graph) /\ V2 \in SUBSET Views(graph)
      /\ Before(graph, k) \in SUBSET Reads(graph)
  BY DEF ViewsBefore, Before
<1>4. V2 = (IF IsView(t) THEN V \cup {t} ELSE V) /\ t \notin V
  <2>1. ASSUME NEW v
        PROVE  (\E j \in 1 .. (k + 1) - 1 : graph.nodes[j] = v)
                 <=> v = t \/ \E j \in 1 .. k - 1 : graph.nodes[j] = v
    <3>1. \A j : j \in 1 .. (k + 1) - 1 <=> j \in 1 .. k - 1 \/ j = k
      BY <1>1
    <3> QED BY <3>1
  <2>2. t \in Views(graph) <=> IsView(t)
    BY DEF Views, IsView, Of, ToSet
  <2>3. t \notin V
    <3>1. \A j \in 1 .. k - 1 : j \in DOMAIN graph.nodes /\ j # k
      BY <1>1
    <3>2. \A j \in 1 .. k - 1 : graph.nodes[j] # t
      BY <3>1 DEF Wellformed, IsInjective
    <3> QED BY <3>2 DEF ViewsBefore
  <2> HIDE DEF t
  <2> QED BY <2>1, <2>2, <2>3 DEF ViewsBefore
<1>5. /\ sl \in Slot /\ sl.children = h[root].children
      /\ sl.views = IF IsView(t) THEN h[root].views + 1 ELSE h[root].views
      /\ sl.offset = h[root].offset /\ sl.allocated = h[root].allocated
  <2>1. h[root] \in Slot
    BY <1>1
  <2> HIDE DEF root, t
  <2> QED BY <2>1 DEF Slot
<1>6. /\ viewed \in [DOMAIN graph.tensor -> Slot]
      /\ \A u \in DOMAIN graph.tensor : viewed[u] = IF u = root THEN sl ELSE h[u]
  <2>1. viewed = [h EXCEPT ![root] = sl]
    BY <1>1
  <2> HIDE DEF viewed, root, sl
  <2> QED BY <1>1, <1>5, <2>1
<1> HIDE DEF viewed, sl
<1>7. ASSUME NEW u \in DOMAIN graph.tensor
      PROVE  /\ viewed[u].children = Cardinality(Pending(graph, Before(graph, k), u))
             /\ viewed[u].views = Cardinality(HoldsOn(graph, V2, u))
             /\ viewed[u].allocated = h[u].allocated /\ viewed[u].offset = h[u].offset
  <2>1. /\ IsFiniteSet(HoldsOn(graph, V, u))
        /\ h[u].children = Cardinality(Pending(graph, Before(graph, k), u))
        /\ h[u].views = Cardinality(HoldsOn(graph, V, u))
    BY <1>3, CountFacts
  <2>2. CASE u = root /\ IsView(t)
    <3>1. graph.tensor[t].view_src = u
      BY <2>2 DEF Root, Of
    <3>2. HoldsOn(graph, V2, u) = HoldsOn(graph, V, u) \cup {t} /\ t \notin HoldsOn(graph, V, u)
      <4> HIDE DEF t, V, V2
      <4> QED BY <1>4, <2>2, <3>1 DEF HoldsOn
    <3>3. Cardinality(HoldsOn(graph, V2, u)) = Cardinality(HoldsOn(graph, V, u)) + 1
      <4> HIDE DEF t, V, V2
      <4> QED BY <2>1, <3>2, FS_AddElement
    <3> QED BY <1>5, <1>6, <2>1, <2>2, <3>3
  <2>3. CASE ~(u = root /\ IsView(t))
    <3>1. IsView(t) => graph.tensor[t].view_src # u
      BY <2>3 DEF Root, Of
    <3>2. HoldsOn(graph, V2, u) = HoldsOn(graph, V, u)
      <4> HIDE DEF t, V, V2
      <4> QED BY <1>4, <3>1 DEF HoldsOn
    <3> QED BY <1>5, <1>6, <2>1, <2>3, <3>2
  <2> QED BY <2>2, <2>3
<1>8. PICK it \in [SUBSET (1 .. n) -> [DOMAIN graph.tensor -> Slot]] :
          /\ h2 = it[1 .. n]
          /\ \A s \in SUBSET (1 .. n) : it[s] = CountTurn(it, s, viewed, src)
  <2> HIDE DEF src
  <2> QED BY <1>1, <1>6, CountLoop
<1> HIDE DEF h2
<1> DEFINE F == {s \in SUBSET (1 .. n) :
                    \A u \in DOMAIN graph.tensor :
                        /\ it[s][u].children = Cardinality(Pending(graph, D(s), u))
                        /\ it[s][u].views = viewed[u].views
                        /\ it[s][u].allocated = h[u].allocated
                        /\ it[s][u].offset = h[u].offset}
<1>9. ASSUME NEW s \in SUBSET (1 .. n), \A x \in s : s \ {x} \in F
      PROVE  s \in F
  <2>1. CASE s = {}
    <3>1. it[s] = viewed /\ D(s) = Before(graph, k)
      BY <1>8, <2>1 DEF CountTurn
    <3> QED BY <1>7, <3>1
  <2>2. CASE s # {}
    <3> DEFINE i == Max(s)
               m == it[s \ {i}]
               p == src[i]
    <3>1. i \in s /\ i \in 1 .. n
      BY <1>2, <2>2, MaxIsMember
    <3> HIDE DEF i
    <3>2. m \in [DOMAIN graph.tensor -> Slot] /\ p \in DOMAIN graph.tensor
      <4>1. s \ {i} \in SUBSET (1 .. n)
        OBVIOUS
      <4>2. m \in [DOMAIN graph.tensor -> Slot]
        BY <1>8, <4>1
      <4>3. p \in DOMAIN graph.tensor
        <5> HIDE DEF src
        <5> QED BY <1>1, <1>2, <3>1
      <4> QED BY <4>2, <4>3
    <3>3. it[s] = CountRead(m, p)
      BY <1>8, <2>2 DEF CountTurn, i
    <3>4. s \ {i} \in F
      BY Zenon, <1>9, <3>1
    <3> DEFINE r == <<k, i>>
    <3>5. r \in Reads(graph) /\ OperandAt(graph, r) = p /\ r \notin D(s \ {i})
      <4>1. r \in Reads(graph)
        BY <1>2, <3>1, ReadsFacts DEF Of
      <4>2. OperandAt(graph, r) = p
        BY DEF OperandAt, Of
      <4>3. r \notin Before(graph, k)
        BY <1>1 DEF Before
      <4> QED BY <4>1, <4>2, <4>3
    <3>6. D(s) = D(s \ {i}) \cup {r}
      BY <3>1
    <3>7. D(s \ {i}) \in SUBSET Reads(graph)
      <4>1. \A j \in 1 .. n : <<k, j>> \in Reads(graph)
        BY <1>2, ReadsFacts DEF Of
      <4>2. \A x \in {k} \X (s \ {i}) : x = <<k, x[2]>> /\ x[2] \in 1 .. n
        <5> DEFINE u == s \ {i}
        <5>1. \A j \in u : j \in 1 .. n
          OBVIOUS
        <5> HIDE DEF u
        <5>2. \A x \in {k} \X u : x = <<k, x[2]>> /\ x[2] \in u
          OBVIOUS
        <5> QED BY <5>1, <5>2 DEF u
      <4>3. \A x \in {k} \X (s \ {i}) : x \in Reads(graph)
        BY <4>1, <4>2
      <4> QED BY <1>3, <4>3
    <3> HIDE DEF D, p, m, r
    <3>8. ASSUME NEW u \in DOMAIN graph.tensor
          PROVE  /\ it[s][u].children = Cardinality(Pending(graph, D(s), u))
                 /\ it[s][u].views = viewed[u].views
                 /\ it[s][u].allocated = h[u].allocated
                 /\ it[s][u].offset = h[u].offset
      <4>1. /\ m[u].children = Cardinality(Pending(graph, D(s \ {i}), u))
            /\ m[u].views = viewed[u].views
            /\ m[u].allocated = h[u].allocated /\ m[u].offset = h[u].offset
        BY <3>4 DEF m
      <4>2. /\ it[s][u].children = IF u = p THEN m[u].children + 1 ELSE m[u].children
            /\ it[s][u].views = m[u].views
            /\ it[s][u].allocated = m[u].allocated /\ it[s][u].offset = m[u].offset
        BY <3>2, <3>3, CountReadStays
      <4>3. IsFiniteSet(Pending(graph, D(s \ {i}), u))
        <5>1. Pending(graph, D(s \ {i}), u) \subseteq Reads(graph)
          BY <3>7 DEF Pending
        <5> QED BY <5>1, ReadsFacts, FS_Subset
      <4>4. Pending(graph, D(s), u) = IF u = p THEN Pending(graph, D(s \ {i}), u) \cup {r}
                                              ELSE Pending(graph, D(s \ {i}), u)
        BY <3>5, <3>6 DEF Pending
      <4>5. r \notin Pending(graph, D(s \ {i}), u)
        BY <3>5 DEF Pending
      <4>6. Cardinality(Pending(graph, D(s \ {i}), u) \cup {r})
              = Cardinality(Pending(graph, D(s \ {i}), u)) + 1
        BY <4>3, <4>5, FS_AddElement
      <4> QED BY <4>1, <4>2, <4>4, <4>6
    <3> QED BY <3>8
  <2> QED BY <2>1, <2>2
<1>10. 1 .. n \in F
  <2>1. \A s \in SUBSET (1 .. n) : s \in F
    <3> HIDE DEF F
    <3> QED BY <1>2, <1>9, TurnsInductive
  <2> QED BY <2>1
<1>11. D(1 .. n) = Before(graph, k + 1)
  <2>1. ASSUME NEW r \in Reads(graph)
        PROVE  r \in D(1 .. n) <=> r[1] < k + 1
    <3>1. r = <<r[1], r[2]>> /\ r[1] \in Nat
      BY <1>1, ReadsFacts
    <3>2. r[1] = k => r[2] \in 1 .. n
      BY <1>2, ReadsFacts DEF Of
    <3>3. r \in {k} \X (1 .. n) <=> r[1] = k
      BY <3>1, <3>2
    <3>4. r \in Before(graph, k) <=> r[1] < k
      BY DEF Before
    <3> QED BY <1>1, <3>1, <3>3, <3>4
  <2>2. D(1 .. n) \in SUBSET Reads(graph)
    <3>1. \A j \in 1 .. n : <<k, j>> \in Reads(graph)
      BY <1>2, ReadsFacts DEF Of
    <3> QED BY <1>3, <3>1
  <2> HIDE DEF D
  <2> QED BY <2>1, <2>2 DEF Before
<1>12. /\ \A u \in DOMAIN graph.tensor : /\ h2[u].allocated = h[u].allocated
                                         /\ h2[u].offset = h[u].offset
       /\ h2 \in [DOMAIN graph.tensor -> Slot]
       /\ Counted(graph, h2, Before(graph, k + 1), V2)
  <2> HIDE DEF D, V2
  <2>1. h2 = it[1 .. n] /\ h2 \in [DOMAIN graph.tensor -> Slot]
    BY <1>8
  <2> QED BY <1>7, <1>10, <1>11, <2>1 DEF Counted
<1> QED BY Zenon, <1>12 DEF h2, viewed

\* The second loop places a node and lets its operands go.
LEMMA PlaceNode ==
    ASSUME Wellformed(graph), NEW k \in DOMAIN graph.nodes,
           NEW a \in Allocator(graph),
           Counted(graph, a.hash, From(graph, k), Holding(graph, From(graph, k))),
           Wanted(graph, a.hash)
    PROVE  LET t == graph.nodes[k]
               placed == AllocateNode(FoldLeft(AllocateNode, a, Of(t).src), t)
               after == FoldLeft(ReadBy, placed, Of(t).src)
           IN  /\ after \in Allocator(graph)
               /\ Counted(graph, after.hash, From(graph, k + 1),
                          Holding(graph, From(graph, k + 1)))
               /\ after.aborted \/ Wanted(graph, after.hash)
<1> DEFINE t == graph.nodes[k]
           src == Of(t).src
           n == Len(src)
           D == From(graph, k)
           V == Holding(graph, D)
           b == FoldLeft(AllocateNode, a, src)
           placed == AllocateNode(b, t)
           after == FoldLeft(ReadBy, placed, src)
           E(s) == D \ ({k} \X s)
<1>1. /\ t \in DOMAIN graph.tensor /\ src \in Seq(DOMAIN graph.tensor)
      /\ k \in Nat /\ k >= 1
      /\ DOMAIN graph.nodes = 1 .. Len(graph.nodes) /\ Len(graph.nodes) \in Nat
  BY NodeFacts
<1>2. n \in Nat /\ DOMAIN src = 1 .. n /\ \A i \in 1 .. n : src[i] \in DOMAIN graph.tensor
  BY <1>1
<1>3. D \in SUBSET Reads(graph) /\ V \in SUBSET Views(graph)
  BY DEF From, Holding
<1>4. ASSUME NEW i \in 1 .. n
      PROVE  <<k, i>> \in D /\ OperandAt(graph, <<k, i>>) = src[i]
  <2>1. <<k, i>> \in Reads(graph)
    BY <1>2, ReadsFacts DEF Of
  <2> QED BY <1>1, <2>1 DEF From, OperandAt, Of
<1>5. /\ b \in Allocator(graph) /\ Counted(graph, b.hash, D, V)
      /\ Wanted(graph, b.hash)
  <2>1. PICK it \in [SUBSET (1 .. n) -> Allocator(graph)] :
            /\ b = it[1 .. n]
            /\ \A s \in SUBSET (1 .. n) : it[s] = AllocateTurn(it, s, a, src)
    <3> HIDE DEF src
    <3> QED BY <1>1, AllocateLoop
  <2> HIDE DEF b
  <2> DEFINE F == {s \in SUBSET (1 .. n) : /\ Counted(graph, it[s].hash, D, V)
                                           /\ Wanted(graph, it[s].hash)}
  <2>2. ASSUME NEW s \in SUBSET (1 .. n), \A x \in s : s \ {x} \in F
        PROVE  s \in F
    <3>1. CASE s = {}
      <4>1. it[s] = a
        BY <2>1, <3>1 DEF AllocateTurn
      <4> QED BY <4>1
    <3>2. CASE s # {}
      <4> DEFINE i == Max(s)
                 m == it[s \ {i}]
                 p == src[i]
      <4>1. i \in s /\ i \in 1 .. n
        BY <1>2, <3>2, MaxIsMember
      <4>2. it[s] = AllocateNode(m, p)
        BY <2>1, <3>2 DEF AllocateTurn
      <4> HIDE DEF i
      <4>3. m \in Allocator(graph) /\ p \in DOMAIN graph.tensor
        BY <1>2, <2>1, <4>1
      <4>4. Counted(graph, m.hash, D, V) /\ Wanted(graph, m.hash)
        BY <2>2, <4>1
      <4>5. m.hash[p].children # 0 /\ m.hash[p].children \in Nat
        <5>1. <<k, i>> \in Pending(graph, D, p)
          BY <1>4, <4>1 DEF Pending
        <5> HIDE DEF m, p, D, V
        <5> QED BY <1>3, <4>3, <4>4, <5>1, CountFacts
      <4> HIDE DEF m, p, D, V
      <4>6. Needed(graph, m.hash, p)
        <5> DEFINE c == m.hash[p].children
        <5>1. c > 0
          <6>1. c # 0 /\ c \in Nat
            BY <4>5
          <6> HIDE DEF c
          <6> QED BY <6>1
        <5> QED BY <5>1, Zenon DEF Needed
      <4>7. Counted(graph, it[s].hash, D, V) /\ Wanted(graph, it[s].hash)
        BY <4>2, <4>3, <4>4, <4>6, AllocateNodeWanted
      <4> QED BY <4>7
    <3> QED BY <3>1, <3>2
  <2>3. 1 .. n \in F
    <3>1. \A s \in SUBSET (1 .. n) : s \in F
      <4> HIDE DEF F
      <4> QED BY <1>2, <2>2, TurnsInductive
    <3> QED BY <3>1
  <2> QED BY <2>1, <2>3
<1> HIDE DEF b
<1>6. /\ placed \in Allocator(graph) /\ Counted(graph, placed.hash, D, V)
      /\ Wanted(graph, placed.hash)
  <2>1. Needed(graph, b.hash, t)
    BY <1>5, NodeNeeded
  <2> HIDE DEF t
  <2> QED BY <1>1, <1>5, <2>1, AllocateNodeFacts, AllocateNodeWanted
<1> HIDE DEF placed
<1>7. PICK it \in [SUBSET (1 .. n) -> Allocator(graph)] :
          /\ after = it[1 .. n]
          /\ \A s \in SUBSET (1 .. n) : it[s] = ReadTurn(it, s, placed, src)
  <2> HIDE DEF src
  <2> QED BY <1>1, <1>6, ReadLoop
<1> HIDE DEF after
<1> DEFINE F == {s \in SUBSET (1 .. n) :
                    /\ Counted(graph, it[s].hash, E(s), Holding(graph, E(s)))
                    /\ it[s].aborted \/ Wanted(graph, it[s].hash)}
<1>8. ASSUME NEW s \in SUBSET (1 .. n), \A x \in s : s \ {x} \in F
      PROVE  s \in F
  <2>1. CASE s = {}
    <3>1. it[s] = placed /\ E(s) = D
      BY <1>7, <2>1 DEF ReadTurn
    <3> QED BY <1>6, <3>1
  <2>2. CASE s # {}
    <3> DEFINE i == Max(s)
               m == it[s \ {i}]
               r == <<k, i>>
    <3>1. i \in s /\ i \in 1 .. n
      BY <1>2, <2>2, MaxIsMember
    <3>2. it[s] = ReadBy(m, src[i])
      BY <1>7, <2>2 DEF ReadTurn
    <3> HIDE DEF i
    <3>3. m \in Allocator(graph)
      BY <1>7
    <3>4. /\ Counted(graph, m.hash, E(s \ {i}), Holding(graph, E(s \ {i})))
          /\ m.aborted \/ Wanted(graph, m.hash)
      BY <1>8, <3>1
    <3>5. r \in E(s \ {i}) /\ OperandAt(graph, r) = src[i]
      BY <1>4, <3>1
    <3>6. E(s) = E(s \ {i}) \ {r}
      BY <3>1
    <3>7. E(s \ {i}) \in SUBSET Reads(graph)
      BY <1>3
    <3> HIDE DEF E, m, r
    <3>8. /\ Counted(graph, it[s].hash, E(s), Holding(graph, E(s)))
          /\ it[s].aborted \/ Wanted(graph, it[s].hash)
      <4> DEFINE w == ReadBy(m, OperandAt(graph, r))
      <4>1. /\ Counted(graph, w.hash, E(s \ {i}) \ {r}, Holding(graph, E(s \ {i}) \ {r}))
            /\ w.aborted \/ Wanted(graph, w.hash)
        BY <3>3, <3>4, <3>5, <3>7, ReadByCounts
      <4>2. it[s] = w
        BY <3>2, <3>5
      <4> HIDE DEF w
      <4> QED BY <3>6, <4>1, <4>2
    <3> QED BY <3>8
  <2> QED BY <2>1, <2>2
<1>9. 1 .. n \in F
  <2>1. \A s \in SUBSET (1 .. n) : s \in F
    <3> HIDE DEF F
    <3> QED BY <1>2, <1>8, TurnsInductive
  <2> QED BY <2>1
<1>10. E(1 .. n) = From(graph, k + 1)
  <2>1. ASSUME NEW r \in Reads(graph)
        PROVE  r \in E(1 .. n) <=> r[1] >= k + 1
    <3>1. r = <<r[1], r[2]>> /\ r[1] \in Nat
      BY <1>1, ReadsFacts
    <3>2. r[1] = k => r[2] \in 1 .. n
      BY <1>2, ReadsFacts DEF Of
    <3>3. r \in {k} \X (1 .. n) <=> r[1] = k
      BY <3>1, <3>2
    <3>4. r \in D <=> r[1] >= k
      BY DEF From
    <3> HIDE DEF D
    <3> QED BY <1>1, <3>1, <3>3, <3>4
  <2>2. E(1 .. n) \in SUBSET Reads(graph)
    BY <1>3
  <2> HIDE DEF E
  <2> QED BY <2>1, <2>2 DEF From
<1>11. /\ after \in Allocator(graph)
       /\ Counted(graph, after.hash, From(graph, k + 1),
                  Holding(graph, From(graph, k + 1)))
       /\ after.aborted \/ Wanted(graph, after.hash)
  <2> HIDE DEF E
  <2>1. after = it[1 .. n] /\ after \in Allocator(graph)
    BY <1>7
  <2> QED BY <1>9, <1>10, <2>1
<1> QED BY <1>11 DEF after, placed, b

-----------------------------------------------------------------------------
(* The invariant.                                                          *)

\* The counters, in each phase.
Counters ==
    /\ phase = "count" =>
          /\ Counted(graph, hash, Before(graph, next), ViewsBefore(graph, next))
          /\ \A t \in DOMAIN graph.tensor : ~hash[t].allocated
    /\ phase \in {"alloc", "aborted"} =>
          /\ Counted(graph, hash, From(graph, next), Holding(graph, From(graph, next)))
          /\ Wanted(graph, hash)
    /\ phase \in {"compute", "done"} =>
          /\ Counted(graph, hash, {}, Holding(graph, {}))
          /\ Wanted(graph, hash)

\* The allocator's state as the record its operations change.
State == [hash |-> hash, free |-> free_blocks, max |-> max_size, aborted |-> FALSE]

GInv ==
    /\ graph \in Graphs
    /\ phase \in {"count", "alloc", "compute", "done", "aborted"}
    /\ next \in DOMAIN graph.nodes
    /\ State \in Allocator(graph)
    /\ Counters
    /\ \A u \in DOMAIN memory : memory[u] \in Tensor \cup {NoTensor}
    /\ written \subseteq Node

LEMMA GraphFacts ==
    ASSUME graph \in Graphs
    PROVE  Wellformed(graph) /\ Len(graph.nodes) \in Nat \ {0}
           /\ DOMAIN graph.nodes = 1 .. Len(graph.nodes)
<1>1. Wellformed(graph)
  BY GraphAllocAssumption DEF GraphAllocAssumption
<1>2. graph.nodes \in Seq(DOMAIN graph.tensor) /\ graph.nodes # <<>>
  BY <1>1 DEF Wellformed
<1>3. Len(graph.nodes) \in Nat \ {0} /\ DOMAIN graph.nodes = 1 .. Len(graph.nodes)
  BY <1>2
<1> QED BY <1>1, <1>3

LEMMA GraphInit == Init => GInv
<1> SUFFICES ASSUME Init
             PROVE  GInv
  OBVIOUS
<1> USE DEF Init
<1>1. /\ Wellformed(graph) /\ Len(graph.nodes) \in Nat \ {0}
      /\ DOMAIN graph.nodes = 1 .. Len(graph.nodes)
  BY GraphFacts
<1>2. Arena \in Nat /\ Arena > 0
  BY GraphAllocAssumption DEF GraphAllocAssumption
<1> DEFINE b == [offset |-> 0, size |-> Arena]
<1>3. b \in Block /\ b.offset = 0 /\ EndOf(b) = Arena
  BY <1>2 DEF Block, EndOf
<1>4. Span(b) = 0 .. Arena - 1
  BY <1>3, SpanFacts
<1> HIDE DEF b
<1>5. FreeList(free_blocks) /\ FreeUnits(free_blocks) = 0 .. Arena - 1
  <2>1. free_blocks = <<b>>
    BY DEF b
  <2>2. free_blocks \in Seq(Block) /\ Len(free_blocks) = 1 /\ free_blocks[1] = b
    BY <1>3, <2>1
  <2>3. FreeList(free_blocks)
    <3>1. \A i, j \in 1 .. Len(free_blocks) : ~(i < j)
      BY <2>2
    <3> QED BY <2>2, <3>1 DEF FreeList
  <2>4. FreeUnits(free_blocks) = {x \in 0 .. Arena - 1 : x \in Span(b)}
    <3>1. 1 .. Len(free_blocks) = {1}
      BY <2>2
    <3> QED BY <2>2, <3>1, Zenon DEF FreeUnits
  <2> QED BY <1>4, <2>3, <2>4
<1>6. /\ hash \in [DOMAIN graph.tensor -> Slot]
      /\ \A t \in DOMAIN graph.tensor :
            ~hash[t].allocated /\ hash[t].children = 0 /\ hash[t].views = 0
  <2>1. Fresh \in Slot /\ ~Fresh.allocated /\ Fresh.children = 0 /\ Fresh.views = 0
    BY <1>2 DEF Fresh, Slot
  <2> QED BY <2>1
<1>7. State \in Allocator(graph)
  <2>1. Partition(graph, hash, free_blocks)
    BY <1>5, <1>6 DEF Partition
  <2> QED BY <1>2, <1>5, <1>6, <2>1 DEF State, Allocator, FreeList
<1>8. Counters
  <2>1. ASSUME NEW t \in DOMAIN graph.tensor
        PROVE  /\ Pending(graph, Before(graph, next), t) = {}
               /\ HoldsOn(graph, ViewsBefore(graph, next), t) = {}
    <3>1. Before(graph, next) = {}
      BY <1>1, ReadsFacts DEF Before
    <3>2. ViewsBefore(graph, next) = {}
      BY DEF ViewsBefore
    <3> QED BY <3>1, <3>2 DEF Pending, HoldsOn
  <2> QED BY <1>6, <2>1, FS_EmptySet DEF Counters, Counted
<1>9. next \in DOMAIN graph.nodes
  BY <1>1
<1> QED BY <1>7, <1>8, <1>9 DEF GInv

\* Where the loops over the nodes begin and end.
LEMMA LoopBounds ==
    ASSUME NEW g, Wellformed(g)
    PROVE  /\ Before(g, Len(g.nodes) + 1) = Reads(g)
           /\ From(g, 1) = Reads(g)
           /\ From(g, Len(g.nodes) + 1) = {}
           /\ ViewsBefore(g, Len(g.nodes) + 1) = Views(g)
           /\ Holding(g, Reads(g)) = Views(g)
<1>1. /\ Len(g.nodes) \in Nat /\ DOMAIN g.nodes = 1 .. Len(g.nodes)
      /\ \A r \in Reads(g) : r[1] \in 1 .. Len(g.nodes)
  <2>1. Len(g.nodes) \in Nat /\ DOMAIN g.nodes = 1 .. Len(g.nodes)
    BY DEF Wellformed
  <2> QED BY <2>1, ReadsFacts
<1>2. \A r \in Reads(g) : r[1] < Len(g.nodes) + 1 /\ r[1] >= 1
                          /\ ~(r[1] >= Len(g.nodes) + 1)
  BY <1>1
<1>3. ViewsBefore(g, Len(g.nodes) + 1) = Views(g)
  <2>1. (Len(g.nodes) + 1) - 1 = Len(g.nodes)
    BY <1>1
  <2>2. \A v \in Views(g) : \E j \in 1 .. Len(g.nodes) : g.nodes[j] = v
    BY <1>1 DEF Views, ToSet
  <2> QED BY <2>1, <2>2 DEF ViewsBefore
<1>4. Holding(g, Reads(g)) = Views(g)
  BY DEF Holding
<1> QED BY <1>2, <1>3, <1>4 DEF Before, From

LEMMA CountReadersStep == GInv /\ CountReaders => GInv'
<1> SUFFICES ASSUME GInv, CountReaders
             PROVE  GInv'
  OBVIOUS
<1> DEFINE t == graph.nodes[next]
           viewed == [hash EXCEPT ![Root(t)].views = IF IsView(t) THEN @ + 1 ELSE @]
<1>1. /\ Wellformed(graph) /\ Len(graph.nodes) \in Nat \ {0}
      /\ DOMAIN graph.nodes = 1 .. Len(graph.nodes)
      /\ next \in DOMAIN graph.nodes /\ graph \in Graphs
      /\ phase = "count" /\ Proceed("alloc")
  BY GraphFacts DEF GInv, CountReaders
<1>2. /\ hash \in [DOMAIN graph.tensor -> Slot] /\ Partition(graph, hash, free_blocks)
      /\ free_blocks \in Seq(Block) /\ max_size \in 0 .. Arena
  BY DEF GInv, Allocator, State, Partition
<1>3. hash' = FoldLeft(CountRead, viewed, Of(t).src)
  BY Zenon DEF CountReaders, This, CountRead, FoldLeft, MapThenFoldSet
<1>4. /\ Counted(graph, hash, Before(graph, next), ViewsBefore(graph, next))
      /\ \A u \in DOMAIN graph.tensor : ~hash[u].allocated
  BY <1>1 DEF GInv, Counters
<1>5. /\ hash' \in [DOMAIN graph.tensor -> Slot]
      /\ Counted(graph, hash', Before(graph, next + 1), ViewsBefore(graph, next + 1))
      /\ \A u \in DOMAIN graph.tensor : /\ hash'[u].allocated = hash[u].allocated
                                        /\ hash'[u].offset = hash[u].offset
  <2> DEFINE h2 == FoldLeft(CountRead, viewed, Of(t).src)
  <2>1. /\ h2 \in [DOMAIN graph.tensor -> Slot]
        /\ Counted(graph, h2, Before(graph, next + 1), ViewsBefore(graph, next + 1))
        /\ \A u \in DOMAIN graph.tensor : /\ h2[u].allocated = hash[u].allocated
                                          /\ h2[u].offset = hash[u].offset
    BY <1>1, <1>2, <1>4, CountNode
  <2>2. hash' = h2
    BY <1>3
  <2> HIDE DEF h2
  <2> QED BY <2>1, <2>2
<1> HIDE DEF t, viewed
<1>6. State' \in Allocator(graph)
  <2>1. Partition(graph, hash', free_blocks)
    BY <1>2, <1>5, SamePartition
  <2> QED BY <1>2, <1>5, <2>1 DEF CountReaders, State, Allocator
<1>7. /\ graph' = graph /\ free_blocks' = free_blocks /\ max_size' = max_size
      /\ memory' = memory /\ written' = written
      /\ (\A u \in DOMAIN memory : memory[u] \in Tensor \cup {NoTensor})'
      /\ (written \subseteq Node)'
  BY DEF CountReaders, GInv, Node
<1>8. CASE next < Len(graph.nodes)
  <2>1. next' = next + 1 /\ phase' = "count" /\ next' \in DOMAIN graph.nodes
    BY <1>1, <1>8 DEF Proceed
  <2>2. Counters'
    BY <1>4, <1>5, <1>7, <2>1 DEF Counters
  <2> QED BY <1>6, <1>7, <1>1, <2>1, <2>2 DEF GInv
<1>9. CASE ~(next < Len(graph.nodes))
  <2>1. /\ next' = 1 /\ phase' = "alloc" /\ next' \in DOMAIN graph.nodes
        /\ next = Len(graph.nodes)
    BY <1>1, <1>9 DEF Proceed
  <2>2. Counted(graph, hash', From(graph, 1), Holding(graph, From(graph, 1)))
    BY <1>1, <1>5, <2>1, LoopBounds
  <2>3. Wanted(graph, hash')
    BY <1>4, <1>5 DEF Wanted
  <2>4. Counters'
    BY <1>7, <2>1, <2>2, <2>3 DEF Counters
  <2> QED BY <1>6, <1>7, <1>1, <2>1, <2>4 DEF GInv
<1> QED BY <1>8, <1>9

LEMMA PlaceStep == GInv /\ Place => GInv'
<1> SUFFICES ASSUME GInv, Place
             PROVE  GInv'
  OBVIOUS
<1> DEFINE t == graph.nodes[next]
           placed == AllocateNode(FoldLeft(AllocateNode, State, Of(t).src), t)
           after == FoldLeft(ReadBy, placed, Of(t).src)
<1>1. /\ Wellformed(graph) /\ Len(graph.nodes) \in Nat \ {0}
      /\ DOMAIN graph.nodes = 1 .. Len(graph.nodes)
      /\ next \in DOMAIN graph.nodes /\ graph \in Graphs
  BY GraphFacts DEF GInv
<1>2. /\ Counted(graph, hash, From(graph, next), Holding(graph, From(graph, next)))
      /\ Wanted(graph, hash) /\ phase = "alloc"
  BY DEF GInv, Counters, Place
<1>3. State \in Allocator(graph) /\ State.hash = hash
  BY DEF GInv, State
<1>4. /\ after \in Allocator(graph)
      /\ Counted(graph, after.hash, From(graph, next + 1),
                 Holding(graph, From(graph, next + 1)))
      /\ after.aborted \/ Wanted(graph, after.hash)
  BY <1>1, <1>2, <1>3, PlaceNode
<1>5. /\ IF after.aborted
         THEN /\ phase' = "aborted"
              /\ UNCHANGED <<next, hash, free_blocks, max_size>>
         ELSE /\ hash' = after.hash
              /\ free_blocks' = after.free
              /\ max_size' = after.max
              /\ Proceed("compute")
      /\ memory' = IF phase' = "compute"
                   THEN [u \in 0 .. max_size' - 1 |-> NoTensor] ELSE memory
      /\ graph' = graph /\ written' = written
  BY DEF Place, This, State
<1> HIDE DEF after
<1>6. \A u \in DOMAIN memory' : memory'[u] \in Tensor \cup {NoTensor}
  BY <1>5 DEF GInv
<1>7. (written \subseteq Node)'
  BY <1>5 DEF GInv, Node
<1>8. CASE after.aborted
  <2>1. State' = State /\ next' = next /\ hash' = hash /\ phase' = "aborted"
    BY <1>5, <1>8 DEF State
  <2>2. Counters'
    BY <1>2, <1>5, <2>1 DEF Counters
  <2> QED BY <1>1, <1>3, <1>5, <1>6, <1>7, <2>1, <2>2 DEF GInv
<1>9. CASE ~after.aborted
  <2>1. /\ hash' = after.hash /\ free_blocks' = after.free /\ max_size' = after.max
        /\ Proceed("compute")
    BY <1>5, <1>9
  <2>2. State' \in Allocator(graph)
    <3>1. /\ after = [hash |-> after.hash, free |-> after.free, max |-> after.max,
                      aborted |-> after.aborted]
          /\ after.aborted = FALSE
      BY <1>4, <1>9, AllocatorFacts
    <3>2. State' = [hash |-> after.hash, free |-> after.free, max |-> after.max,
                    aborted |-> FALSE]
      BY <2>1 DEF State
    <3> QED BY <1>4, <3>1, <3>2
  <2>3. CASE next < Len(graph.nodes)
    <3>1. next' = next + 1 /\ phase' = "alloc" /\ next' \in DOMAIN graph.nodes
      BY <1>1, <1>2, <2>1, <2>3 DEF Proceed
    <3>2. Counters'
      BY <1>4, <1>5, <1>9, <2>1, <3>1 DEF Counters
    <3> QED BY <1>1, <1>5, <1>6, <1>7, <2>2, <3>1, <3>2 DEF GInv
  <2>4. CASE ~(next < Len(graph.nodes))
    <3>1. /\ next' = 1 /\ phase' = "compute" /\ next' \in DOMAIN graph.nodes
          /\ next = Len(graph.nodes)
      BY <1>1, <2>1, <2>4 DEF Proceed
    <3>2. Counted(graph, hash', {}, Holding(graph, {}))
      BY <1>1, <1>4, <2>1, <3>1, LoopBounds
    <3>3. Counters'
      BY <1>4, <1>5, <1>9, <2>1, <3>1, <3>2 DEF Counters
    <3> QED BY <1>1, <1>5, <1>6, <1>7, <2>2, <3>1, <3>3 DEF GInv
  <2> QED BY <2>3, <2>4
<1> QED BY <1>8, <1>9

LEMMA ComputeStep == GInv /\ Compute => GInv'
<1> SUFFICES ASSUME GInv, Compute
             PROVE  GInv'
  OBVIOUS
<1> USE DEF GInv
<1>1. /\ Wellformed(graph) /\ Len(graph.nodes) \in Nat \ {0}
      /\ DOMAIN graph.nodes = 1 .. Len(graph.nodes)
  BY GraphFacts
<1>2. /\ graph' = graph /\ hash' = hash /\ free_blocks' = free_blocks
      /\ max_size' = max_size /\ phase = "compute" /\ Proceed("done")
  BY DEF Compute
<1>3. State' \in Allocator(graph)
  BY <1>2 DEF State
<1>4. /\ next' \in DOMAIN graph.nodes /\ phase' \in {"compute", "done"}
  BY <1>1, <1>2 DEF Proceed
<1>5. Counters'
  BY <1>2, <1>4 DEF Counters
<1>6. This \in Node /\ Root(This) \in DOMAIN graph.tensor /\ Root(This) \in Tensor
  <2>1. This \in Node /\ Root(This) \in DOMAIN graph.tensor
    BY <1>1, NodeFacts DEF This
  <2> QED BY <1>1, <2>1 DEF Wellformed
<1>7. \A u \in DOMAIN memory' : memory'[u] \in Tensor \cup {NoTensor}
  BY <1>6 DEF Compute
<1>8. (written \subseteq Node)'
  BY <1>2, <1>6 DEF Compute, Node
<1> QED BY <1>2, <1>3, <1>4, <1>5, <1>7, <1>8

LEMMA GraphInvariant == Spec => []GInv
<1>1. GInv /\ UNCHANGED vars => GInv'
  BY DEF GInv, State, Counters, Node, vars
<1>2. GInv /\ [Next]_vars => GInv'
  BY <1>1, CountReadersStep, PlaceStep, ComputeStep DEF Next
<1> QED BY <1>2, GraphInit, PTL DEF Spec

-----------------------------------------------------------------------------
(* What the invariant says.                                                *)

\* In every phase the counters count some reads and some views.
LEMMA CountersCount ==
    ASSUME GInv
    PROVE  \E D \in SUBSET Reads(graph), V \in SUBSET Views(graph) :
               Counted(graph, hash, D, V)
<1>1. /\ Before(graph, next) \in SUBSET Reads(graph)
      /\ From(graph, next) \in SUBSET Reads(graph)
      /\ {} \in SUBSET Reads(graph)
  BY DEF Before, From
<1>2. /\ ViewsBefore(graph, next) \in SUBSET Views(graph)
      /\ \A D : Holding(graph, D) \in SUBSET Views(graph)
  BY DEF ViewsBefore, Holding
<1>3. CASE phase = "count"
  BY <1>1, <1>2, <1>3 DEF GInv, Counters
<1>4. CASE phase \in {"alloc", "aborted"}
  BY <1>1, <1>2, <1>4 DEF GInv, Counters
<1>5. CASE phase \in {"compute", "done"}
  BY <1>1, <1>2, <1>5 DEF GInv, Counters
<1> QED BY <1>3, <1>4, <1>5 DEF GInv

\* The variables keep their types: no counter goes below zero, no block is
\* empty or reaches out of the arena, whatever the graph
\* (ggml_gallocr_alloc_graph_impl, ggml_dyn_tallocr_alloc).
THEOREM GraphTypeCorrect == Spec => []TypeOK
<1>1. ASSUME GInv
      PROVE  TypeOK
  <2>1. /\ Wellformed(graph) /\ Len(graph.nodes) \in Nat \ {0}
        /\ DOMAIN graph.nodes = 1 .. Len(graph.nodes)
    BY <1>1, GraphFacts DEF GInv
  <2>2. /\ hash \in [DOMAIN graph.tensor -> Slot] /\ free_blocks \in Seq(Block)
        /\ max_size \in 0 .. Arena
    BY <1>1 DEF GInv, State, Allocator
  <2>3. PICK D \in SUBSET Reads(graph), V \in SUBSET Views(graph) :
            Counted(graph, hash, D, V)
    BY <1>1, CountersCount
  <2>4. ASSUME NEW t \in DOMAIN graph.tensor
        PROVE  hash[t] \in [children : Nat, views : Nat, offset : 0 .. Arena,
                            allocated : BOOLEAN]
    <3>1. hash[t].children \in Nat /\ hash[t].views \in Nat
      BY <2>1, <2>3, CountFacts
    <3>2. hash[t] \in Slot
      BY <2>2
    <3> QED BY <3>1, <3>2 DEF Slot
  <2>5. hash \in [DOMAIN graph.tensor -> [children : Nat, views : Nat,
                                          offset : 0 .. Arena, allocated : BOOLEAN]]
    BY <2>2, <2>4
  <2>6. free_blocks \in Seq([offset : 0 .. Arena, size : 1 .. Arena])
    <3>1. ASSUME NEW b \in Block
          PROVE  b \in [offset : 0 .. Arena, size : 1 .. Arena]
      <4>1. /\ b.offset \in 0 .. Arena /\ b.size \in 1 .. Arena
            /\ b = [offset |-> b.offset, size |-> b.size]
        BY BlockFacts
      <4> QED BY <4>1
    <3> DEFINE T == [offset : 0 .. Arena, size : 1 .. Arena]
    <3>2. Block \subseteq T
      BY <3>1
    <3>3. \A i \in 1 .. Len(free_blocks) : free_blocks[i] \in Block
      BY <2>2
    <3> HIDE DEF T
    <3>4. free_blocks \in Seq(T)
      BY <2>2, <3>2, <3>3
    <3> QED BY <3>4 DEF T
  <2>7. next \in 1 .. Len(graph.nodes)
    BY <1>1, <2>1 DEF GInv
  <2>8. /\ phase \in {"count", "alloc", "compute", "done", "aborted"}
        /\ \A u \in DOMAIN memory : memory[u] \in Tensor \cup {NoTensor}
        /\ written \subseteq Node
    BY <1>1 DEF GInv
  <2> QED BY <2>2, <2>5, <2>6, <2>7, <2>8 DEF TypeOK
<1> QED BY <1>1, GraphInvariant, PTL

\* Every unit of the arena is free in exactly one block or held by exactly one
\* tensor, and no two free blocks touch: after any number of tensors placed in
\* the buffer or over an operand, and given back (ggml_dyn_tallocr_alloc,
\* ggml_dyn_tallocr_free_tensor, ggml_gallocr_allocate_node).
THEOREM ArenaIsAccounted == Spec => []Accounted
<1>1. ASSUME GInv
      PROVE  Accounted
  <2>1. Wellformed(graph) /\ Partition(graph, hash, free_blocks)
        /\ hash \in [DOMAIN graph.tensor -> Slot]
    BY <1>1, GraphFacts DEF GInv, State, Allocator
  <2>2. FreeList(free_blocks) /\ free_blocks \in Seq(Block)
        /\ Len(free_blocks) \in Nat /\ DOMAIN free_blocks = 1 .. Len(free_blocks)
    BY <2>1 DEF Partition, FreeList
  <2>3. \A t : Held(t) = HeldIn(graph, hash, t)
    BY DEF Held, HeldIn, Of
  <2>4. Holders \subseteq DOMAIN graph.tensor
        /\ \A t \in DOMAIN graph.tensor : t \in Holders <=> hash[t].allocated
    BY DEF Holders
  <2>5. ASSUME NEW u \in 0 .. Arena - 1
        PROVE  Cardinality({i \in DOMAIN free_blocks : u \in Span(free_blocks[i])})
               + Cardinality({t \in Holders : u \in Held(t)}) = 1
    <3> DEFINE A == {i \in DOMAIN free_blocks : u \in Span(free_blocks[i])}
               B == {t \in Holders : u \in Held(t)}
    <3>1. \A i, j \in A : i = j
      <4>1. ASSUME NEW i \in A, NEW j \in A, i < j
            PROVE  FALSE
        <5>1. free_blocks[i] \in Block /\ free_blocks[j] \in Block
              /\ EndOf(free_blocks[i]) < free_blocks[j].offset
          BY <2>2, <4>1 DEF FreeList
        <5>2. u < EndOf(free_blocks[i]) /\ u >= free_blocks[j].offset
          BY <5>1, SpanFacts, BlockFacts, SMTT(30)
        <5> QED BY <5>1, <5>2, BlockFacts
      <4>2. A \subseteq Nat
        BY <2>2
      <4> QED BY <4>1, <4>2
    <3>2. A # {} <=> u \in FreeUnits(free_blocks)
      BY <2>2 DEF FreeUnits
    <3>3. \A t1, t2 \in B : t1 = t2
      BY <2>1, <2>3, <2>4 DEF Partition, HoldsAlone
    <3>4. A # {} => B = {}
      BY <2>1, <2>3, <2>4, <3>2 DEF Partition, HoldsAlone
    <3>5. A = {} => B # {}
      BY <2>1, <2>3, <2>4, <3>2 DEF Partition
    <3> HIDE DEF A, B
    <3>6. CASE A # {}
      <4>1. PICK i \in A : A = {i}
        BY <3>1, <3>6
      <4>2. Cardinality(A) = 1 /\ Cardinality(B) = 0
        BY <3>4, <3>6, <4>1, FS_EmptySet, FS_Singleton
      <4> QED BY <4>2 DEF A, B
    <3>7. CASE A = {}
      <4>1. PICK t \in B : B = {t}
        BY <3>3, <3>5, <3>7
      <4>2. Cardinality(A) = 0 /\ Cardinality(B) = 1
        BY <3>7, <4>1, FS_EmptySet, FS_Singleton
      <4> QED BY <4>2 DEF A, B
    <3> QED BY <3>6, <3>7
  <2>6. \A i \in 1 .. Len(free_blocks) - 1 :
            EndOf(free_blocks[i]) < free_blocks[i + 1].offset
    <3>1. ASSUME NEW i \in 1 .. Len(free_blocks) - 1
          PROVE  i \in 1 .. Len(free_blocks) /\ i + 1 \in 1 .. Len(free_blocks)
                 /\ i < i + 1
      BY <2>2
    <3> QED BY <2>2, <3>1 DEF FreeList
  <2> QED BY <2>5, <2>6 DEF Accounted
<1> QED BY <1>1, GraphInvariant, PTL

\* When the graph is placed, everything but outputs and what no node reads has
\* been given back: the counters of ggml_gallocr_alloc_graph_impl come to zero,
\* and the last reader of a tensor or of its last view frees it.
THEOREM PlacedIsReturned == Spec => []AllReturned
<1>1. ASSUME GInv, phase \in {"compute", "done"},
             NEW t \in Holders, ~Of(t).output
      PROVE  ~\E n \in Node : \E i \in DOMAIN Of(n).src : Root(Of(n).src[i]) = t
  <2>1. /\ Wellformed(graph) /\ t \in DOMAIN graph.tensor /\ hash[t].allocated
        /\ DOMAIN graph.nodes = 1 .. Len(graph.nodes)
    BY <1>1, GraphFacts DEF GInv, Holders
  <2>2. /\ Counted(graph, hash, {}, Holding(graph, {})) /\ Wanted(graph, hash)
        /\ Holding(graph, {}) \in SUBSET Views(graph)
    BY <1>1 DEF GInv, Counters, Holding
  <2>3. ~graph.tensor[t].external /\ Needed(graph, hash, t)
    BY <2>1, <2>2 DEF Wanted
  <2>4. Pending(graph, {}, t) = {} /\ {} \in SUBSET Reads(graph)
    BY DEF Pending
  <2>5. hash[t].children = 0
    BY <2>1, <2>2, <2>4, CountFacts
  <2>6. hash[t].views = 0
    <3>1. ASSUME NEW v \in HoldsOn(graph, Holding(graph, {}), t)
          PROVE  FALSE
      <4>1. /\ v \in ToSet(graph.nodes) /\ graph.tensor[v].view_src = t
            /\ v \in DOMAIN graph.tensor /\ t # NoTensor
            /\ Pending(graph, Reads(graph), v) = {}
        <5>1. /\ v \in Views(graph) /\ graph.tensor[v].view_src = t
              /\ Pending(graph, {}, v) # {} \/ Pending(graph, Reads(graph), v) = {}
          BY DEF HoldsOn, Holding
        <5>2. Pending(graph, {}, v) = {}
          BY DEF Pending
        <5>3. v \in ToSet(graph.nodes) /\ v \in DOMAIN graph.tensor /\ t # NoTensor
          BY <2>1, <5>1 DEF Views, ToSet, Wellformed
        <5> QED BY <5>1, <5>2, <5>3
      <4>2. PICK n \in ToSet(graph.nodes) : v \in ToSet(graph.tensor[n].src)
        BY <2>1, <2>3, <4>1 DEF Wellformed
      <4>3. PICK k \in DOMAIN graph.nodes : graph.nodes[k] = n
        BY <4>2 DEF ToSet
      <4>4. PICK i \in DOMAIN graph.tensor[n].src : graph.tensor[n].src[i] = v
        BY <4>2 DEF ToSet
      <4>5. <<k, i>> \in Reads(graph) /\ OperandAt(graph, <<k, i>>) = v
        BY <2>1, <4>3, <4>4, ReadsFacts DEF OperandAt
      <4> QED BY <4>1, <4>5 DEF Pending
    <3> QED BY <2>1, <2>2, <2>4, <3>1, CountFacts
  <2>7. NeverRead(graph, t)
    BY <1>1, <2>3, <2>5, <2>6 DEF Needed, Of
  <2>8. ASSUME NEW n \in Node, NEW i \in DOMAIN Of(n).src, Root(Of(n).src[i]) = t
        PROVE  FALSE
    <3>1. PICK k \in DOMAIN graph.nodes : graph.nodes[k] = n
      BY DEF Node, ToSet
    <3>2. <<k, i>> \in Reads(graph) /\ OperandAt(graph, <<k, i>>) = Of(n).src[i]
      BY <2>1, <3>1, ReadsFacts DEF OperandAt, Of
    <3> QED BY <2>7, <2>8, <3>2 DEF NeverRead, RootOf, Root, IsView, Of
  <2> QED BY <2>8
<1>2. GInv => AllReturned
  BY <1>1 DEF AllReturned
<1> QED BY <1>2, GraphInvariant, PTL

-----------------------------------------------------------------------------
(* Whose value the memory has.                                             *)

\* The tensor whose memory node m uses; whether that is memory of the buffer,
\* and whether it is the node's own.
RootAt(g, m) == RootOf(g, g.nodes[m])
Uses(g, m) == ~g.tensor[RootAt(g, m)].external
Owns(g, a) == Uses(g, a) /\ g.tensor[g.nodes[a]].view_src = NoTensor

UnitsIn(g, h, t) == h[t].offset .. h[t].offset + g.tensor[t].size - 1

\* What node m writes is not in the memory of node a, unless it is a's value.
Apart(g, h, m, a) ==
    RootAt(g, m) = g.nodes[a]
    \/ UnitsIn(g, h, RootAt(g, m)) \cap UnitsIn(g, h, g.nodes[a]) = {}

\* Of the nodes before k, those that will be read have memory, and nobody else.
Live(g, h, t) == g.tensor[t].output \/ h[t].children > 0 \/ h[t].views > 0
LiveHold(g, h, k) ==
    \A a \in 1 .. k - 1 :
        Owns(g, a) /\ Live(g, h, g.nodes[a]) => h[g.nodes[a]].allocated
OnlyPlaced(g, h, k) ==
    \A t \in DOMAIN g.tensor :
        h[t].allocated => \E a \in 1 .. k - 1 : g.nodes[a] = t /\ Owns(g, a)

\* Memory that is held was not written since its node; nor was that of an
\* operand between its node and the node that reads it.
HeldKept(g, h, k) ==
    \A m \in 1 .. k - 1 : \A a \in 1 .. m - 1 :
        Uses(g, m) /\ h[g.nodes[a]].allocated => Apart(g, h, m, a)
ReadsKept(g, h, k) ==
    \A r \in Reads(g) : r[1] < k =>
        \A m \in 1 .. r[1] - 1 : \A a \in 1 .. m - 1 :
            Uses(g, m) /\ Owns(g, a) /\ g.nodes[a] = RootOf(g, OperandAt(g, r))
                => Apart(g, h, m, a)

\* The buffer is large enough.
WithinBuffer(g, h, max, k) ==
    \A a \in 1 .. k - 1 :
        Owns(g, a) => h[g.nodes[a]].offset + g.tensor[g.nodes[a]].size =< max

Placement(g, h, max, k) ==
    /\ LiveHold(g, h, k)
    /\ OnlyPlaced(g, h, k)
    /\ HeldKept(g, h, k)
    /\ ReadsKept(g, h, k)
    /\ WithinBuffer(g, h, max, k)

\* A unit of the memory of a node before k has its value, or that of a later
\* node that uses the unit.
Values(g, h, mem, k) ==
    \A a \in 1 .. k - 1 : Owns(g, a) =>
        \A u \in UnitsIn(g, h, g.nodes[a]) :
            /\ u \in DOMAIN mem
            /\ \/ mem[u] = g.nodes[a]
               \/ \E m \in a + 1 .. k - 1 :
                    /\ Uses(g, m) /\ RootAt(g, m) # g.nodes[a]
                    /\ u \in UnitsIn(g, h, RootAt(g, m))
LEMMA SameNode ==
    ASSUME NEW g, Wellformed(g), NEW a \in DOMAIN g.nodes, NEW b \in DOMAIN g.nodes,
           g.nodes[a] = g.nodes[b]
    PROVE  a = b
  BY DEF Wellformed, IsInjective

LEMMA NodesFacts ==
    ASSUME NEW g, Wellformed(g)
    PROVE  /\ Len(g.nodes) \in Nat /\ DOMAIN g.nodes = 1 .. Len(g.nodes)
           /\ \A k \in DOMAIN g.nodes : /\ g.nodes[k] \in DOMAIN g.tensor
                                        /\ g.nodes[k] \in ToSet(g.nodes)
           /\ \A t \in DOMAIN g.tensor : t # NoTensor
  BY GraphAllocAssumption DEF Wellformed, ToSet, GraphAllocAssumption

\* The memory of the buffer a node uses is that of a node no later.
LEMMA RootFacts ==
    ASSUME NEW g, Wellformed(g), NEW m \in DOMAIN g.nodes
    PROVE  /\ RootAt(g, m) \in DOMAIN g.tensor
           /\ g.tensor[RootAt(g, m)].view_src = NoTensor
           /\ Uses(g, m) => \E b \in 1 .. m : g.nodes[b] = RootAt(g, m) /\ Owns(g, b)
<1> DEFINE t == g.nodes[m]
           v == g.tensor[t].view_src
<1>1. Len(g.nodes) \in Nat /\ m \in 1 .. Len(g.nodes) /\ t \in DOMAIN g.tensor
  BY NodesFacts
<1>2. CASE v = NoTensor
  BY <1>1, <1>2 DEF RootAt, RootOf, Owns
<1>3. CASE v # NoTensor
  <2>1. /\ v \in DOMAIN g.tensor /\ g.tensor[v].view_src = NoTensor
        /\ RootAt(g, m) = v
    BY <1>1, <1>3, TensorFacts DEF RootAt, RootOf
  <2>2. ASSUME Uses(g, m)
        PROVE  \E b \in 1 .. m : g.nodes[b] = RootAt(g, m) /\ Owns(g, b)
    <3>1. PICK b \in 1 .. m - 1 : g.nodes[b] = v
      BY <1>3, <2>1, <2>2, OperandFacts DEF Uses
    <3>2. b \in 1 .. m /\ RootAt(g, b) = v
      BY <1>1, <2>1, <3>1 DEF RootAt, RootOf
    <3> QED BY <2>1, <2>2, <3>1, <3>2 DEF Owns, Uses
  <2> QED BY <2>1, <2>2
<1> QED BY <1>2, <1>3

\* What a node reads from the buffer an earlier node has computed.
LEMMA ReadRootFacts ==
    ASSUME NEW g, Wellformed(g), NEW r \in Reads(g),
           ~g.tensor[RootOf(g, OperandAt(g, r))].external
    PROVE  \E a \in 1 .. r[1] - 1 :
               g.nodes[a] = RootOf(g, OperandAt(g, r)) /\ Owns(g, a)
<1> DEFINE p == OperandAt(g, r)
           k == r[1]
<1>1. /\ k \in DOMAIN g.nodes /\ p \in DOMAIN g.tensor
      /\ p \in ToSet(g.tensor[g.nodes[k]].src)
      /\ Len(g.nodes) \in Nat /\ DOMAIN g.nodes = 1 .. Len(g.nodes) /\ p # NoTensor
  BY Zenon, ReadsFacts, NodesFacts DEF OperandAt, ToSet
<1>2. p \in ToSet(g.nodes)
  <2>1. CASE g.tensor[p].view_src = NoTensor
    <3>1. ~g.tensor[p].external
      BY <2>1 DEF RootOf
    <3> QED BY <1>1, <3>1, OperandFacts
  <2>2. CASE g.tensor[p].view_src # NoTensor
    BY <1>1, <2>2 DEF Wellformed
  <2> QED BY <2>1, <2>2
<1>3. PICK j \in 1 .. k - 1 : g.nodes[j] = p
  BY <1>1, <1>2, OperandFacts
<1>4. j \in DOMAIN g.nodes /\ RootAt(g, j) = RootOf(g, p) /\ Uses(g, j)
  BY <1>1, <1>3 DEF RootAt, Uses
<1>5. PICK b \in 1 .. j : g.nodes[b] = RootOf(g, p) /\ Owns(g, b)
  BY <1>4, RootFacts
<1> QED BY <1>1, <1>3, <1>5

\* A tensor with memory holds its units, and no other tensor one of them.
LEMMA UnitsFacts ==
    ASSUME NEW g, Wellformed(g), NEW h, NEW free, Partition(g, h, free),
           NEW s \in DOMAIN g.tensor, NEW t \in DOMAIN g.tensor, s # t,
           h[s].allocated, h[t].allocated
    PROVE  UnitsIn(g, h, s) \cap UnitsIn(g, h, t) = {}
<1>1. ASSUME NEW u \in DOMAIN g.tensor
      PROVE  UnitsIn(g, h, u) \subseteq HeldIn(g, h, u)
  <2>1. h[u].offset \in Nat /\ g.tensor[u].size \in Nat /\ g.tensor[u].size > 0
    BY GraphAllocAssumption, TensorFacts, SMTT(30) DEF Partition, Slot, GraphAllocAssumption
  <2>2. Aligned(g.tensor[u].size) \in Nat /\ Aligned(g.tensor[u].size) >= g.tensor[u].size
    BY <2>1, AlignedFacts
  <2> QED BY <2>1, <2>2 DEF UnitsIn, HeldIn
<1>2. HeldIn(g, h, s) \cap HeldIn(g, h, t) = {}
  BY DEF Partition, HoldsAlone
<1> QED BY <1>1, <1>2

-----------------------------------------------------------------------------
(* What the operations of the allocator leave where it is.                 *)

\* From state a to state b memory was only given back, and only by tensors
\* nobody needs.
Follows(a, b) ==
    /\ \A u \in DOMAIN graph.tensor :
        /\ b.hash[u].offset = a.hash[u].offset
        /\ b.hash[u].allocated => a.hash[u].allocated
        /\ Live(graph, b.hash, u) => Live(graph, a.hash, u)
        /\ Live(graph, b.hash, u) /\ a.hash[u].allocated => b.hash[u].allocated
    /\ b.max = a.max
    /\ a.aborted => b.aborted

LEMMA FollowsTransitive ==
    ASSUME NEW a, NEW b, NEW c, Follows(a, b), Follows(b, c)
    PROVE  Follows(a, c)
  BY DEF Follows

LEMMA LetGoFollows ==
    ASSUME NEW a \in Allocator(graph), NEW t \in DOMAIN graph.tensor
    PROVE  Follows(a, LetGo(a, t))
<1>1. a.hash \in [DOMAIN graph.tensor -> Slot] /\ a.aborted \in BOOLEAN
      /\ a = [hash |-> a.hash, free |-> a.free, max |-> a.max, aborted |-> a.aborted]
  BY AllocatorFacts
<1>2. Follows(a, a)
  BY DEF Follows
<1> DEFINE free == Freed(a.free, a.hash[t].offset, Aligned(Of(t).size))
           h2 == [a.hash EXCEPT ![t] = [@ EXCEPT !.allocated = FALSE]]
<1>3. CASE LetGo(a, t) = a
  BY <1>2, <1>3
<1>4. CASE LetGo(a, t) # a
  <2>1. LetGo(a, t) = FreeNode(a, t) /\ a.hash[t].children = 0 /\ a.hash[t].views = 0
        /\ ~Of(t).output
    BY <1>4 DEF LetGo, FreeNode
  <2>2. CASE Len(free) > MaxFreeBlocks
    <3>1. FreeNode(a, t) = [a EXCEPT !.aborted = TRUE]
      BY <2>1, <2>2 DEF FreeNode
    <3>2. /\ FreeNode(a, t).hash = a.hash /\ FreeNode(a, t).max = a.max
          /\ FreeNode(a, t).aborted = TRUE
      BY <1>1, <3>1
    <3> QED BY <2>1, <3>2 DEF Follows
  <2>3. CASE ~(Len(free) > MaxFreeBlocks)
    <3>1. FreeNode(a, t) = [a EXCEPT !.hash[t].allocated = FALSE, !.free = free]
      BY <2>1, <2>3 DEF FreeNode
    <3> HIDE DEF free
    <3>2. /\ FreeNode(a, t).hash = h2 /\ FreeNode(a, t).max = a.max
          /\ FreeNode(a, t).aborted = a.aborted
      BY <1>1, <3>1
    <3>3. \A u \in DOMAIN graph.tensor :
              /\ h2[u].offset = a.hash[u].offset
              /\ h2[u].children = a.hash[u].children
              /\ h2[u].views = a.hash[u].views
              /\ h2[u].allocated => a.hash[u].allocated
              /\ u # t => h2[u].allocated = a.hash[u].allocated
      BY <1>1 DEF Slot
    <3> HIDE DEF h2
    <3>4. ~Live(graph, h2, t)
      BY <2>1, <3>3 DEF Live, Of
    <3>5. \A u \in DOMAIN graph.tensor : Live(graph, h2, u) <=> Live(graph, a.hash, u)
      BY <3>3 DEF Live
    <3> QED BY <2>1, <3>2, <3>3, <3>4, <3>5 DEF Follows
  <2> QED BY <2>2, <2>3
<1> QED BY <1>3, <1>4

LEMMA CounterFollows ==
    ASSUME Wellformed(graph), NEW a \in Allocator(graph), NEW p \in DOMAIN graph.tensor
    PROVE  Follows(a, OneRead(a, p)) /\ Follows(a, OneView(a, p))
<1>1. a.hash \in [DOMAIN graph.tensor -> Slot]
  BY AllocatorFacts
<1>2. \A t \in DOMAIN graph.tensor : a.hash[t].children \in Int /\ a.hash[t].views \in Int
  BY <1>1 DEF Slot
<1> DEFINE b == OneRead(a, p)
           c == OneView(a, p)
<1>3. /\ b.aborted = a.aborted /\ c.aborted = a.aborted
      /\ b.max = a.max /\ c.max = a.max
      /\ \A t \in DOMAIN graph.tensor :
           /\ b.hash[t].offset = a.hash[t].offset /\ c.hash[t].offset = a.hash[t].offset
           /\ b.hash[t].allocated = a.hash[t].allocated
           /\ c.hash[t].allocated = a.hash[t].allocated
           /\ b.hash[t].views = a.hash[t].views
           /\ c.hash[t].children = a.hash[t].children
           /\ b.hash[t].children =
                IF t = p THEN a.hash[t].children - 1 ELSE a.hash[t].children
           /\ c.hash[t].views = IF t = p THEN a.hash[t].views - 1 ELSE a.hash[t].views
  BY CounterFacts
<1> HIDE DEF b, c
<1>4. \A t \in DOMAIN graph.tensor :
          /\ b.hash[t].children > 0 => a.hash[t].children > 0
          /\ c.hash[t].views > 0 => a.hash[t].views > 0
  BY <1>2, <1>3
<1>5. Follows(a, b) /\ Follows(a, c)
  BY <1>3, <1>4 DEF Follows, Live
<1> QED BY <1>5 DEF b, c

LEMMA ReadByFollows ==
    ASSUME Wellformed(graph), NEW a \in Allocator(graph), NEW p \in DOMAIN graph.tensor
    PROVE  Follows(a, ReadBy(a, p))
<1> DEFINE b == OneRead(a, p)
           q == Of(p).view_src
           c == OneView(b, q)
<1>1. b \in Allocator(graph) /\ Follows(a, b)
  BY CounterFacts, CounterFollows
<1>2. CASE ~IsView(p)
  <2>1. ReadBy(a, p) = LetGo(b, p)
    BY <1>2, ReadByIs
  <2> HIDE DEF b
  <2>2. Follows(b, LetGo(b, p))
    BY <1>1, LetGoFollows
  <2> QED BY <1>1, <2>1, <2>2, FollowsTransitive
<1>3. CASE IsView(p)
  <2>1. q \in DOMAIN graph.tensor
    BY <1>3, TensorFacts DEF IsView, Of
  <2>2. ReadBy(a, p) = LetGo(c, q) \/ ReadBy(a, p) = b
    BY <1>3, ReadByIs
  <2> HIDE DEF b, q
  <2>3. c \in Allocator(graph) /\ Follows(b, c)
    BY <1>1, <2>1, CounterFacts, CounterFollows
  <2> HIDE DEF c
  <2>4. Follows(c, LetGo(c, q))
    BY <2>1, <2>3, LetGoFollows
  <2>5. Follows(a, LetGo(c, q))
    BY <1>1, <2>3, <2>4, FollowsTransitive
  <2> QED BY <1>1, <2>2, <2>5
<1> QED BY <1>2, <1>3

\* The update of a node's operands.
LEMMA ReadsFollow ==
    ASSUME Wellformed(graph), NEW base \in Allocator(graph),
           NEW src \in Seq(DOMAIN graph.tensor)
    PROVE  Follows(base, FoldLeft(ReadBy, base, src))
<1> DEFINE n == Len(src)
<1>1. n \in Nat /\ \A i \in 1 .. n : src[i] \in DOMAIN graph.tensor
  OBVIOUS
<1>2. PICK it \in [SUBSET (1 .. n) -> Allocator(graph)] :
          /\ FoldLeft(ReadBy, base, src) = it[1 .. n]
          /\ \A s \in SUBSET (1 .. n) : it[s] = ReadTurn(it, s, base, src)
  BY ReadLoop
<1> DEFINE F == {s \in SUBSET (1 .. n) : Follows(base, it[s])}
<1> HIDE DEF n
<1>3. ASSUME NEW s \in SUBSET (1 .. n), \A x \in s : s \ {x} \in F
      PROVE  s \in F
  <2>1. CASE s = {}
    <3>1. it[s] = base
      BY <1>2, <2>1 DEF ReadTurn
    <3> QED BY <3>1 DEF Follows
  <2>2. CASE s # {}
    <3> DEFINE i == Max(s)
               m == it[s \ {i}]
    <3>1. i \in s /\ i \in 1 .. n
      BY <1>1, <2>2, MaxIsMember
    <3>2. it[s] = ReadBy(m, src[i])
      BY <1>2, <2>2 DEF ReadTurn
    <3> HIDE DEF i
    <3>3. m \in Allocator(graph) /\ Follows(base, m)
      BY <1>2, <1>3, <3>1
    <3>4. src[i] \in DOMAIN graph.tensor
      BY <1>1, <3>1
    <3> HIDE DEF m
    <3>5. Follows(m, ReadBy(m, src[i]))
      BY <3>3, <3>4, ReadByFollows
    <3>6. Follows(base, it[s])
      BY <3>2, <3>3, <3>5, FollowsTransitive
    <3> QED BY <3>6
  <2> QED BY <2>1, <2>2
<1>4. 1 .. n \in F
  <2>1. \A s \in SUBSET (1 .. n) : s \in F
    <3> HIDE DEF F
    <3> QED BY <1>1, <1>3, TurnsInductive
  <2> QED BY <2>1
<1> QED BY <1>2, <1>4

\* Operands that have memory, or need none, are left alone.
LEMMA OperandsPlaced ==
    ASSUME Wellformed(graph), NEW a \in Allocator(graph),
           NEW src \in Seq(DOMAIN graph.tensor),
           \A i \in 1 .. Len(src) :
               a.hash[src[i]].allocated \/ External(src[i]) \/ IsView(src[i])
    PROVE  FoldLeft(AllocateNode, a, src) = a
<1> DEFINE n == Len(src)
<1>1. n \in Nat /\ \A i \in 1 .. n : /\ src[i] \in DOMAIN graph.tensor
                                     /\ AllocateNode(a, src[i]) = a
  BY DEF AllocateNode
<1>2. PICK it \in [SUBSET (1 .. n) -> Allocator(graph)] :
          /\ FoldLeft(AllocateNode, a, src) = it[1 .. n]
          /\ \A s \in SUBSET (1 .. n) : it[s] = AllocateTurn(it, s, a, src)
  BY AllocateLoop
<1> DEFINE F == {s \in SUBSET (1 .. n) : it[s] = a}
<1> HIDE DEF n
<1>3. ASSUME NEW s \in SUBSET (1 .. n), \A x \in s : s \ {x} \in F
      PROVE  s \in F
  <2>1. CASE s = {}
    BY <1>2, <2>1 DEF AllocateTurn
  <2>2. CASE s # {}
    <3>1. Max(s) \in s /\ Max(s) \in 1 .. n
      BY <1>1, <2>2, MaxIsMember
    <3>2. it[s \ {Max(s)}] = a
      BY <1>3, <3>1
    <3> QED BY <1>1, <1>2, <2>2, <3>1, <3>2 DEF AllocateTurn
  <2> QED BY <2>1, <2>2
<1>4. 1 .. n \in F
  <2>1. \A s \in SUBSET (1 .. n) : s \in F
    <3> HIDE DEF F
    <3> QED BY <1>1, <1>3, TurnsInductive
  <2> QED BY <2>1
<1> QED BY <1>2, <1>4

\* When a node is placed, its operands and what it views are needed.
LEMMA ReadsLive ==
    ASSUME NEW g, Wellformed(g), NEW k \in DOMAIN g.nodes, NEW h,
           Counted(g, h, From(g, k), Holding(g, From(g, k)))
    PROVE  /\ \A r \in Reads(g) : r[1] = k => Live(g, h, RootOf(g, OperandAt(g, r)))
           /\ g.tensor[g.nodes[k]].view_src # NoTensor => Live(g, h, RootAt(g, k))
<1> DEFINE D == From(g, k)
           V == Holding(g, D)
<1>1. /\ Len(g.nodes) \in Nat /\ DOMAIN g.nodes = 1 .. Len(g.nodes)
      /\ g.nodes[k] \in DOMAIN g.tensor /\ g.nodes[k] \in ToSet(g.nodes)
  BY NodesFacts
<1>2. D \in SUBSET Reads(g) /\ V \in SUBSET Views(g)
  BY DEF From, Holding
<1>3. ASSUME NEW v \in V
      PROVE  Live(g, h, g.tensor[v].view_src)
  <2> DEFINE t == g.tensor[v].view_src
  <2>1. v \in DOMAIN g.tensor /\ t # NoTensor
    BY <1>2, NodesFacts, SMTT(30) DEF Views, ToSet
  <2>2. t \in DOMAIN g.tensor /\ v \in HoldsOn(g, V, t)
    BY <2>1, TensorFacts DEF HoldsOn
  <2> HIDE DEF t, D, V
  <2>3. h[t].views # 0 /\ h[t].views \in Nat
    BY <1>2, <2>2, CountFacts DEF D, V
  <2> QED BY <2>3 DEF Live, t
<1>4. ASSUME NEW r \in Reads(g), r[1] = k
      PROVE  Live(g, h, RootOf(g, OperandAt(g, r)))
  <2> DEFINE p == OperandAt(g, r)
  <2>1. p \in DOMAIN g.tensor /\ k \in 1 .. Len(g.nodes)
    BY <1>1, ReadsFacts
  <2>2. r \in Pending(g, D, p)
    BY <1>4, <2>1 DEF From, Pending
  <2>3. CASE g.tensor[p].view_src = NoTensor
    <3> HIDE DEF p, D, V
    <3>1. h[p].children # 0 /\ h[p].children \in Nat
      BY <1>2, <2>1, <2>2, CountFacts DEF D, V
    <3>2. RootOf(g, p) = p
      BY <2>3 DEF RootOf
    <3> QED BY <3>1, <3>2 DEF Live, p
  <2>4. CASE g.tensor[p].view_src # NoTensor
    <3>1. p \in ToSet(g.nodes)
      BY <2>1, <2>4 DEF Wellformed
    <3>2. p \in V
      BY <2>2, <2>4, <3>1 DEF Holding, Views
    <3> QED BY <1>3, <2>4, <3>2 DEF RootOf
  <2> QED BY <2>3, <2>4
<1>5. ASSUME g.tensor[g.nodes[k]].view_src # NoTensor
      PROVE  Live(g, h, RootAt(g, k))
  <2> DEFINE v == g.nodes[k]
  <2>1. ASSUME NEW r \in Pending(g, Reads(g), v)
        PROVE  r \in Pending(g, D, v)
    <3>1. /\ r \in Reads(g) /\ OperandAt(g, r) = v /\ r[1] \in DOMAIN g.nodes
          /\ v \in ToSet(g.tensor[g.nodes[r[1]]].src) /\ v # NoTensor
      BY Zenon, <1>1, ReadsFacts, NodesFacts DEF Pending, OperandAt, ToSet
    <3>2. PICK j \in 1 .. r[1] - 1 : g.nodes[j] = v
      BY <1>1, <3>1, OperandFacts
    <3>3. j = k
      BY <1>1, <3>1, <3>2, SameNode
    <3> QED BY <1>1, <3>1, <3>2, <3>3 DEF Pending, From
  <2>2. v \in V
    BY <1>1, <1>5, <2>1 DEF Holding, Views
  <2> QED BY <1>3, <1>5, <2>2 DEF RootAt, RootOf
<1> QED BY <1>4, <1>5

\* An operand whose memory is taken over is read for the last time.
LEMMA TakenIsDone ==
    ASSUME Wellformed(graph), NEW k \in DOMAIN graph.nodes,
           NEW a, Counted(graph, a.hash, From(graph, k), Holding(graph, From(graph, k))),
           NEW h, Counted(graph, h, From(graph, k + 1), Holding(graph, From(graph, k + 1))),
           NEW u \in ToSet(Of(graph.nodes[k]).src), u \in DOMAIN graph.tensor,
           TakesOver(a, graph.nodes[k], u)
    PROVE  ~Live(graph, h, u)
<1> DEFINE D == From(graph, k)
           E == From(graph, k + 1)
           V == Holding(graph, D)
           W == Holding(graph, E)
<1>1. /\ ~Of(u).output /\ a.hash[u].children = 1 /\ a.hash[u].views = 0
  BY DEF TakesOver
<1>2. /\ D \in SUBSET Reads(graph) /\ E \in SUBSET Reads(graph)
      /\ V \in SUBSET Views(graph) /\ W \in SUBSET Views(graph)
  BY DEF From, Holding
<1>3. /\ E \subseteq D /\ \A r \in E : r[1] # k
      /\ k \in Nat
  <2>1. k \in Nat /\ \A r \in Reads(graph) : r[1] \in Nat
    BY NodesFacts, ReadsFacts
  <2> QED BY <2>1 DEF From
<1>4. W \subseteq V
  BY <1>3 DEF Holding, Pending
<1>5. PICK i \in DOMAIN graph.tensor[graph.nodes[k]].src :
          graph.tensor[graph.nodes[k]].src[i] = u
  BY DEF ToSet, Of
<1> DEFINE r1 == <<k, i>>
<1>6. r1 \in Pending(graph, D, u)
  <2>1. r1 \in Reads(graph)
    BY ReadsFacts
  <2> QED BY <1>3, <1>5, <2>1 DEF Pending, From, OperandAt
<1>7. /\ Cardinality(Pending(graph, D, u)) = 1 /\ IsFiniteSet(Pending(graph, D, u))
      /\ HoldsOn(graph, V, u) = {}
  <2> HIDE DEF D, V
  <2> QED BY Zenon, <1>1, <1>2, CountFacts DEF D, V
<1>8. Pending(graph, E, u) = {}
  <2>1. PICK x : Pending(graph, D, u) = {x}
    BY <1>7, FS_Singleton
  <2>2. Pending(graph, E, u) \subseteq Pending(graph, D, u) \ {r1}
    BY <1>3 DEF Pending
  <2> QED BY <1>6, <2>1, <2>2
<1>9. HoldsOn(graph, W, u) = {}
  BY <1>4, <1>7 DEF HoldsOn
<1>10. h[u].children = 0 /\ h[u].views = 0
  <2> HIDE DEF E, W
  <2> QED BY <1>2, <1>8, <1>9, CountFacts DEF E, W
<1> QED BY <1>1, <1>10 DEF Live, Of

\* Placing a node leaves what was placed where it is needed.
LEMMA PlacementStep ==
    ASSUME Wellformed(graph), NEW k \in DOMAIN graph.nodes, NEW a \in Allocator(graph),
           Counted(graph, a.hash, From(graph, k), Holding(graph, From(graph, k))),
           Wanted(graph, a.hash), Placement(graph, a.hash, a.max, k)
    PROVE  LET t == graph.nodes[k]
               placed == AllocateNode(FoldLeft(AllocateNode, a, Of(t).src), t)
               after == FoldLeft(ReadBy, placed, Of(t).src)
           IN  after.aborted \/ Placement(graph, after.hash, after.max, k + 1)
<1> DEFINE t == graph.nodes[k]
           src == Of(t).src
           b == FoldLeft(AllocateNode, a, src)
           placed == AllocateNode(b, t)
           after == FoldLeft(ReadBy, placed, src)
<1>1. /\ Len(graph.nodes) \in Nat /\ DOMAIN graph.nodes = 1 .. Len(graph.nodes)
      /\ k \in Nat /\ k >= 1 /\ t \in DOMAIN graph.tensor
      /\ src \in Seq(DOMAIN graph.tensor)
      /\ \A j \in 1 .. k : /\ j \in DOMAIN graph.nodes
                           /\ graph.nodes[j] \in DOMAIN graph.tensor
  BY NodesFacts, NodeFacts
<1>2. /\ LiveHold(graph, a.hash, k) /\ OnlyPlaced(graph, a.hash, k)
      /\ HeldKept(graph, a.hash, k) /\ ReadsKept(graph, a.hash, k)
      /\ WithinBuffer(graph, a.hash, a.max, k)
  BY DEF Placement
\* Its operands have been placed.
<1>3. b = a
  <2>1. ASSUME NEW i \in 1 .. Len(src), ~External(src[i]), ~IsView(src[i])
        PROVE  a.hash[src[i]].allocated
    <3>1. <<k, i>> \in Reads(graph) /\ OperandAt(graph, <<k, i>>) = src[i]
      BY <1>1, ReadsFacts DEF OperandAt, Of
    <3>2. RootOf(graph, src[i]) = src[i] /\ ~graph.tensor[src[i]].external
      BY <2>1 DEF RootOf, External, Root, IsView, Of
    <3>3. PICK j \in 1 .. k - 1 : graph.nodes[j] = src[i] /\ Owns(graph, j)
      BY <3>1, <3>2, ReadRootFacts
    <3>4. Live(graph, a.hash, src[i])
      BY <3>1, <3>2, ReadsLive
    <3> QED BY <1>2, <3>3, <3>4 DEF LiveHold
  <2> HIDE DEF src
  <2> QED BY <1>1, <2>1, OperandsPlaced
<1> HIDE DEF b
<1>4. SUFFICES ASSUME ~after.aborted
               PROVE  Placement(graph, after.hash, after.max, k + 1)
  BY DEF b
<1>5. /\ placed \in Allocator(graph) /\ Follows(placed, after)
      /\ Keeps(a, placed, {t}) /\ ~placed.aborted
  <2>1. placed \in Allocator(graph) /\ Keeps(a, placed, {t})
    BY <1>1, <1>3, AllocateNodeFacts
  <2> HIDE DEF placed, src
  <2>2. Follows(placed, after)
    BY <1>1, <2>1, ReadsFollow
  <2> QED BY <1>4, <2>1, <2>2 DEF Follows
<1>6. Counted(graph, after.hash, From(graph, k + 1), Holding(graph, From(graph, k + 1)))
  BY PlaceNode DEF b
<1>7. ~a.hash[t].allocated
  <2>1. ASSUME NEW j \in 1 .. k - 1, graph.nodes[j] = t
        PROVE  FALSE
    BY <1>1, <2>1, SameNode
  <2> QED BY <1>1, <1>2, <2>1 DEF OnlyPlaced
<1>8. /\ Owns(graph, k) => Places(a, placed, t)
      /\ ~Owns(graph, k) => placed = a
  <2>1. Owns(graph, k) <=> ~(External(t) \/ IsView(t))
    BY DEF Owns, Uses, RootAt, RootOf, External, Root, IsView, Of
  <2>2. IF a.hash[t].allocated \/ External(t) \/ IsView(t)
        THEN AllocateNode(a, t) = a
        ELSE AllocateNode(a, t).aborted \/ Places(a, AllocateNode(a, t), t)
    <3> HIDE DEF t
    <3> QED BY <1>1, AllocateNodeFacts
  <2> QED BY <1>3, <1>5, <1>7, <2>1, <2>2
<1>9. /\ a.hash \in [DOMAIN graph.tensor -> Slot] /\ a.max \in Nat
      /\ placed.max \in Nat /\ a.max =< placed.max /\ after.max = placed.max
      /\ \A u \in DOMAIN graph.tensor : after.hash[u].offset = placed.hash[u].offset
      /\ \A u \in DOMAIN graph.tensor \ {t} : placed.hash[u].offset = a.hash[u].offset
      /\ \A u \in DOMAIN graph.tensor \ {t} :
            placed.hash[u].allocated => a.hash[u].allocated
      /\ \A u \in DOMAIN graph.tensor :
            after.hash[u].allocated => placed.hash[u].allocated
  <2>1. a.hash \in [DOMAIN graph.tensor -> Slot] /\ a.max \in 0 .. Arena
        /\ placed.max \in 0 .. Arena
    BY <1>5, AllocatorFacts
  <2> HIDE DEF placed, after, t
  <2>2. a.max =< placed.max
    BY <1>8, <2>1 DEF Places
  <2>3. \A u \in DOMAIN graph.tensor \ {t} : placed.hash[u].offset = a.hash[u].offset
    BY <1>8 DEF Places
  <2> QED BY <1>5, <2>1, <2>2, <2>3 DEF Follows, Keeps
<1> HIDE DEF after, placed
\* Of the nodes before, none uses the memory of this one.
<1>10. ASSUME NEW m \in 1 .. k - 1
       PROVE  /\ m \in DOMAIN graph.nodes /\ graph.nodes[m] # t
              /\ graph.nodes[m] \in DOMAIN graph.tensor
              /\ RootAt(graph, m) \in DOMAIN graph.tensor
              /\ Uses(graph, m) => RootAt(graph, m) # t
  <2>1. m \in DOMAIN graph.nodes /\ m \in 1 .. k
    BY <1>1
  <2>2. \A c \in 1 .. m : graph.nodes[c] # t
    <3>1. ASSUME NEW c \in 1 .. m, graph.nodes[c] = t
          PROVE  FALSE
      <4>1. c \in DOMAIN graph.nodes /\ c # k
        BY <1>1
      <4> QED BY <3>1, <4>1, SameNode
    <3> QED BY <3>1
  <2>3. m \in 1 .. m
    BY <1>1
  <2> QED BY <1>1, <2>1, <2>2, <2>3, RootFacts
<1>11. ASSUME NEW m \in 1 .. k - 1, NEW c \in 1 .. k - 1, Uses(graph, m),
              Apart(graph, a.hash, m, c)
       PROVE  Apart(graph, after.hash, m, c)
  <2>1. /\ after.hash[RootAt(graph, m)].offset = a.hash[RootAt(graph, m)].offset
        /\ after.hash[graph.nodes[c]].offset = a.hash[graph.nodes[c]].offset
    BY <1>9, <1>10, <1>11
  <2> QED BY <1>11, <2>1 DEF Apart, UnitsIn
<1>12. LiveHold(graph, after.hash, k + 1)
  <2>1. ASSUME NEW c \in 1 .. k, Owns(graph, c), Live(graph, after.hash, graph.nodes[c])
        PROVE  after.hash[graph.nodes[c]].allocated
    <3> DEFINE u == graph.nodes[c]
    <3>1. CASE c = k
      <4>1. placed.hash[t].allocated
        BY <1>8, <2>1, <3>1 DEF Places
      <4> QED BY <1>1, <1>5, <2>1, <3>1, <4>1 DEF Follows
    <3>2. CASE c # k
      <4>1. c \in 1 .. k - 1 /\ u \in DOMAIN graph.tensor /\ u # t
        BY <1>1, <1>10, <3>2
      <4>2. Live(graph, placed.hash, u)
        BY <1>5, <2>1, <4>1 DEF Follows
      <4>3. Live(graph, a.hash, u)
        BY <1>5, <4>1, <4>2 DEF Live, Keeps
      <4>4. a.hash[u].allocated
        BY <1>2, <2>1, <4>1, <4>3 DEF LiveHold
      <4>5. placed.hash[u].allocated
        <5>1. CASE placed.hash = a.hash
          BY <4>4, <5>1
        <5>2. CASE placed.hash # a.hash
          <6>1. Places(a, placed, t)
            BY <1>8, <5>2
          <6>2. placed.hash[u].allocated \/ (u \in ToSet(src) /\ TakesOver(a, t, u))
            BY <4>1, <4>4, <6>1 DEF Places
          <6>3. ~(u \in ToSet(src) /\ TakesOver(a, t, u))
            <7> HIDE DEF u
            <7>1. Live(graph, after.hash, u)
              BY <2>1 DEF u
            <7> QED BY <1>6, <4>1, <7>1, TakenIsDone
          <6> QED BY <6>2, <6>3
        <5> QED BY <5>1, <5>2
      <4> QED BY <1>5, <2>1, <4>1, <4>5 DEF Follows
    <3> QED BY <3>1, <3>2
  <2> QED BY <1>1, <2>1 DEF LiveHold
<1>13. OnlyPlaced(graph, after.hash, k + 1)
  <2>1. ASSUME NEW u \in DOMAIN graph.tensor, after.hash[u].allocated
        PROVE  \E c \in 1 .. k : graph.nodes[c] = u /\ Owns(graph, c)
    <3>1. CASE u = t
      <4>1. placed.hash[t].allocated
        BY <1>1, <1>9, <2>1, <3>1
      <4>2. Owns(graph, k)
        BY <1>7, <1>8, <4>1
      <4> QED BY <1>1, <3>1, <4>2
    <3>2. CASE u # t
      <4>1. a.hash[u].allocated
        BY <1>9, <2>1, <3>2
      <4>2. PICK c \in 1 .. k - 1 : graph.nodes[c] = u /\ Owns(graph, c)
        BY <1>2, <4>1 DEF OnlyPlaced
      <4> QED BY <1>1, <4>2
    <3> QED BY <3>1, <3>2
  <2> QED BY <1>1, <2>1 DEF OnlyPlaced
<1>14. ASSUME NEW c \in 1 .. k - 1, Uses(graph, k), after.hash[graph.nodes[c]].allocated
       PROVE  Apart(graph, after.hash, k, c)
  <2> DEFINE u == graph.nodes[c]
             r == RootAt(graph, k)
  <2>1. /\ u \in DOMAIN graph.tensor /\ u # t
        /\ placed.hash[u].allocated /\ a.hash[u].allocated
    BY <1>9, <1>10, <1>14
  <2>2. r \in DOMAIN graph.tensor /\ graph.tensor[r].view_src = NoTensor
    BY RootFacts
  <2>3. CASE r = u
    BY <2>3 DEF Apart
  <2>4. CASE r # u /\ IsView(t)
    <3>1. r # t
      BY <2>2, <2>4 DEF IsView, Of
    <3>2. PICK d \in 1 .. k : graph.nodes[d] = r /\ Owns(graph, d)
      BY <1>14, RootFacts
    <3>3. d \in 1 .. k - 1
      BY <1>1, <3>1, <3>2
    <3>4. Live(graph, a.hash, r)
      BY <2>4, ReadsLive DEF IsView, Of
    <3>5. a.hash[r].allocated
      BY <1>2, <3>2, <3>3, <3>4 DEF LiveHold
    <3>6. UnitsIn(graph, a.hash, r) \cap UnitsIn(graph, a.hash, u) = {}
      <4>1. Partition(graph, a.hash, a.free)
        BY AllocatorFacts
      <4> HIDE DEF r, u
      <4> QED BY <2>1, <2>2, <2>4, <3>5, <4>1, UnitsFacts
    <3>7. /\ after.hash[r].offset = a.hash[r].offset
          /\ after.hash[u].offset = a.hash[u].offset
      BY <1>9, <2>1, <2>2, <3>1
    <3> QED BY <3>6, <3>7 DEF Apart, UnitsIn
  <2>5. CASE r # u /\ ~IsView(t)
    <3>1. Owns(graph, k) /\ r = t
      BY <1>14, <2>5 DEF Owns, RootAt, RootOf, IsView, Of
    <3>2. placed.hash[t].allocated
      BY <1>8, <3>1 DEF Places
    <3>3. UnitsIn(graph, placed.hash, t) \cap UnitsIn(graph, placed.hash, u) = {}
      <4>1. Partition(graph, placed.hash, placed.free)
        BY <1>5, AllocatorFacts
      <4> HIDE DEF t, u
      <4> QED BY <1>1, <2>1, <3>2, <4>1, UnitsFacts
    <3>4. /\ after.hash[t].offset = placed.hash[t].offset
          /\ after.hash[u].offset = placed.hash[u].offset
      BY <1>1, <1>9, <2>1
    <3> QED BY <3>1, <3>3, <3>4 DEF Apart, UnitsIn
  <2> QED BY <2>3, <2>4, <2>5
<1>15. HeldKept(graph, after.hash, k + 1)
  <2>1. ASSUME NEW m \in 1 .. k, NEW c \in 1 .. m - 1, Uses(graph, m),
               after.hash[graph.nodes[c]].allocated
        PROVE  Apart(graph, after.hash, m, c)
    <3>1. CASE m = k
      BY <1>14, <2>1, <3>1
    <3>2. CASE m # k
      <4>1. m \in 1 .. k - 1 /\ c \in 1 .. k - 1
        BY <1>1, <3>2
      <4>2. a.hash[graph.nodes[c]].allocated
        BY <1>9, <1>10, <2>1, <4>1
      <4>3. Apart(graph, a.hash, m, c)
        BY <1>2, <2>1, <4>1, <4>2 DEF HeldKept
      <4> QED BY <1>11, <2>1, <4>1, <4>3
    <3> QED BY <3>1, <3>2
  <2> QED BY <1>1, <2>1 DEF HeldKept
<1>16. ReadsKept(graph, after.hash, k + 1)
  <2>1. ASSUME NEW r \in Reads(graph), r[1] < k + 1,
               NEW m \in 1 .. r[1] - 1, NEW c \in 1 .. m - 1, Uses(graph, m),
               Owns(graph, c), graph.nodes[c] = RootOf(graph, OperandAt(graph, r))
        PROVE  Apart(graph, after.hash, m, c)
    <3>1. r[1] \in 1 .. Len(graph.nodes)
      BY <1>1, ReadsFacts
    <3>2. m \in 1 .. k - 1 /\ c \in 1 .. k - 1
      BY <1>1, <2>1, <3>1
    <3>3. Apart(graph, a.hash, m, c)
      <4>1. CASE r[1] < k
        BY <1>2, <2>1, <4>1 DEF ReadsKept
      <4>2. CASE ~(r[1] < k)
        <5>1. r[1] = k
          BY <1>1, <2>1, <3>1, <4>2
        <5>2. Live(graph, a.hash, graph.nodes[c])
          BY <2>1, <5>1, ReadsLive
        <5>3. a.hash[graph.nodes[c]].allocated
          BY <1>2, <2>1, <3>2, <5>2 DEF LiveHold
        <5> QED BY <1>2, <2>1, <3>2, <5>3 DEF HeldKept
      <4> QED BY <4>1, <4>2
    <3> QED BY <1>11, <2>1, <3>2, <3>3
  <2> QED BY <2>1 DEF ReadsKept
<1>17. WithinBuffer(graph, after.hash, after.max, k + 1)
  <2>1. ASSUME NEW c \in 1 .. k, Owns(graph, c)
        PROVE  after.hash[graph.nodes[c]].offset + graph.tensor[graph.nodes[c]].size
                 =< after.max
    <3>1. CASE c = k
      <4>1. ASSUME NEW u \in DOMAIN graph.tensor, a.hash[u].allocated
            PROVE  a.hash[u].offset + graph.tensor[u].size =< a.max
        BY <1>2, <4>1 DEF OnlyPlaced, WithinBuffer
      <4>2. placed.hash[t].offset + graph.tensor[t].size =< placed.max
        BY <1>8, <2>1, <3>1, <4>1 DEF Places
      <4> QED BY <1>1, <1>9, <3>1, <4>2
    <3>2. CASE c # k
      <4> DEFINE u == graph.nodes[c]
      <4>1. c \in 1 .. k - 1 /\ u \in DOMAIN graph.tensor /\ u # t
        BY <1>1, <1>10, <3>2
      <4>2. a.hash[u].offset + graph.tensor[u].size =< a.max
        BY <1>2, <2>1, <4>1 DEF WithinBuffer
      <4>3. after.hash[u].offset = a.hash[u].offset
        BY <1>9, <4>1
      <4>4. a.hash[u].offset \in Nat /\ graph.tensor[u].size \in Nat
        BY <1>9, <4>1, TensorFacts, GraphAllocAssumption DEF Slot, GraphAllocAssumption
      <4> QED BY <1>9, <4>2, <4>3, <4>4
    <3> QED BY <3>1, <3>2
  <2> QED BY <1>1, <2>1 DEF WithinBuffer
<1> QED BY <1>12, <1>13, <1>15, <1>16, <1>17 DEF Placement

\* The invariant with the places and the values: the places of the nodes dealt
\* with when they are placed, and the values of those computed.
Reached == IF phase = "compute" THEN next ELSE Len(graph.nodes) + 1

VInv ==
    /\ GInv
    /\ phase = "alloc" => Placement(graph, hash, max_size, next)
    /\ phase \in {"compute", "done"} =>
          /\ Placement(graph, hash, max_size, Len(graph.nodes) + 1)
          /\ DOMAIN memory = 0 .. max_size - 1
          /\ Values(graph, hash, memory, Reached)

\* The first loop gives no memory to anybody.
LEMMA CountReadersUnplaced ==
    GInv /\ CountReaders => \A t \in DOMAIN graph.tensor : ~hash'[t].allocated
<1> SUFFICES ASSUME GInv, CountReaders
             PROVE  \A t \in DOMAIN graph.tensor : ~hash'[t].allocated
  OBVIOUS
<1> DEFINE t == graph.nodes[next]
           viewed == [hash EXCEPT ![Root(t)].views = IF IsView(t) THEN @ + 1 ELSE @]
           h2 == FoldLeft(CountRead, viewed, Of(t).src)
<1>1. /\ Wellformed(graph) /\ next \in DOMAIN graph.nodes /\ phase = "count"
      /\ hash \in [DOMAIN graph.tensor -> Slot]
      /\ Counted(graph, hash, Before(graph, next), ViewsBefore(graph, next))
      /\ \A u \in DOMAIN graph.tensor : ~hash[u].allocated
  BY GraphFacts DEF GInv, CountReaders, Counters, Allocator, State
<1>2. \A u \in DOMAIN graph.tensor : h2[u].allocated = hash[u].allocated
  BY <1>1, CountNode
<1>3. hash' = h2
  BY Zenon DEF CountReaders, This, CountRead, FoldLeft, MapThenFoldSet
<1> HIDE DEF h2
<1> QED BY <1>1, <1>2, <1>3

\* Computing a node leaves it its value and takes nobody's unnoticed.
LEMMA ValuesStep ==
    ASSUME Wellformed(graph), NEW k \in DOMAIN graph.nodes, NEW max \in Nat,
           NEW h \in [DOMAIN graph.tensor -> Slot],
           WithinBuffer(graph, h, max, Len(graph.nodes) + 1),
           NEW mem, DOMAIN mem = 0 .. max - 1, Values(graph, h, mem, k),
           NEW mem2,
           mem2 = IF OnlyDescribes(graph.nodes[k]) \/ External(graph.nodes[k]) THEN mem
                  ELSE [u \in DOMAIN mem |->
                          IF u \in UnitsIn(graph, h, RootAt(graph, k))
                          THEN RootAt(graph, k) ELSE mem[u]]
    PROVE  DOMAIN mem2 = 0 .. max - 1 /\ Values(graph, h, mem2, k + 1)
<1> DEFINE t == graph.nodes[k]
           r == RootAt(graph, k)
<1>1. /\ Len(graph.nodes) \in Nat /\ DOMAIN graph.nodes = 1 .. Len(graph.nodes)
      /\ k \in 1 .. Len(graph.nodes) /\ t \in DOMAIN graph.tensor
      /\ External(t) <=> ~Uses(graph, k)
  BY Zenon, NodesFacts DEF External, Uses, RootAt, RootOf, Root, IsView, Of
<1>2. OnlyDescribes(t) => ~Owns(graph, k)
  BY <1>1 DEF Wellformed, OnlyDescribes, Of, Owns
<1>3. Owns(graph, k) => ~OnlyDescribes(t) /\ ~External(t) /\ r = t
  BY <1>1, <1>2 DEF Owns, RootAt, RootOf
<1>4. ASSUME NEW a \in 1 .. k - 1, Owns(graph, a), NEW u \in UnitsIn(graph, h, graph.nodes[a])
      PROVE  /\ u \in DOMAIN mem
             /\ \/ mem[u] = graph.nodes[a]
                \/ \E m \in a + 1 .. k - 1 :
                     /\ Uses(graph, m) /\ RootAt(graph, m) # graph.nodes[a]
                     /\ u \in UnitsIn(graph, h, RootAt(graph, m))
  BY <1>4 DEF Values
<1>5. CASE OnlyDescribes(t) \/ External(t)
  <2>1. mem2 = mem /\ ~Owns(graph, k)
    BY <1>3, <1>5
  <2>2. ASSUME NEW a \in 1 .. (k + 1) - 1, Owns(graph, a),
               NEW u \in UnitsIn(graph, h, graph.nodes[a])
        PROVE  /\ u \in DOMAIN mem2
               /\ \/ mem2[u] = graph.nodes[a]
                  \/ \E m \in a + 1 .. (k + 1) - 1 :
                       /\ Uses(graph, m) /\ RootAt(graph, m) # graph.nodes[a]
                       /\ u \in UnitsIn(graph, h, RootAt(graph, m))
    <3>1. a # k
      BY <2>1, <2>2
    <3>2. a \in 1 .. k - 1 /\ \A m \in a + 1 .. k - 1 : m \in a + 1 .. (k + 1) - 1
      BY <1>1, <3>1
    <3> QED BY <1>4, <2>1, <2>2, <3>2
  <2> QED BY <2>1, <2>2 DEF Values
<1>6. CASE ~(OnlyDescribes(t) \/ External(t))
  <2>1. /\ DOMAIN mem2 = DOMAIN mem
        /\ \A u \in DOMAIN mem :
              mem2[u] = IF u \in UnitsIn(graph, h, r) THEN r ELSE mem[u]
    BY <1>6
  <2>2. ASSUME NEW a \in 1 .. (k + 1) - 1, Owns(graph, a),
               NEW u \in UnitsIn(graph, h, graph.nodes[a])
        PROVE  /\ u \in DOMAIN mem2
               /\ \/ mem2[u] = graph.nodes[a]
                  \/ \E m \in a + 1 .. (k + 1) - 1 :
                       /\ Uses(graph, m) /\ RootAt(graph, m) # graph.nodes[a]
                       /\ u \in UnitsIn(graph, h, RootAt(graph, m))
    <3>1. CASE a = k
      <4>1. r = t /\ u \in UnitsIn(graph, h, t)
        BY <1>3, <2>2, <3>1
      <4>2. h[t].offset + graph.tensor[t].size =< max
        <5>1. k \in 1 .. (Len(graph.nodes) + 1) - 1
          BY <1>1
        <5> QED BY <2>2, <3>1, <5>1 DEF WithinBuffer
      <4>3. h[t].offset \in Nat /\ graph.tensor[t].size \in Nat
        <5>1. h[t] \in Slot /\ graph.tensor[t].size \in Nat
          BY <1>1, TensorFacts
        <5> QED BY <5>1, GraphAllocAssumption DEF Slot, GraphAllocAssumption
      <4>4. u \in 0 .. max - 1
        <5> DEFINE o == h[t].offset
                   s == graph.tensor[t].size
        <5>1. u \in o .. o + s - 1 /\ o + s =< max /\ o \in Nat /\ s \in Nat
          BY <4>1, <4>2, <4>3 DEF UnitsIn
        <5> HIDE DEF o, s
        <5> QED BY <5>1
      <4> QED BY <2>1, <3>1, <4>1, <4>4
    <3>2. CASE a # k
      <4>1. /\ a \in 1 .. k - 1 /\ k \in a + 1 .. (k + 1) - 1
            /\ \A m \in a + 1 .. k - 1 : m \in a + 1 .. (k + 1) - 1
        BY <1>1, <3>2
      <4>2. u \in DOMAIN mem
        BY <1>4, <2>2, <4>1
      <4>3. CASE u \in UnitsIn(graph, h, r)
        <5>1. mem2[u] = r /\ Uses(graph, k)
          BY <1>1, <1>6, <2>1, <4>2, <4>3
        <5> QED BY <2>1, <4>1, <4>2, <4>3, <5>1
      <4>4. CASE u \notin UnitsIn(graph, h, r)
        <5>1. mem2[u] = mem[u]
          BY <2>1, <4>2, <4>4
        <5> QED BY <1>4, <2>1, <2>2, <4>1, <4>2, <5>1
      <4> QED BY <4>3, <4>4
    <3> QED BY <3>1, <3>2
  <2> QED BY <2>1, <2>2 DEF Values
<1> QED BY <1>5, <1>6

\* A node whose memory nobody else used since has its value.
LEMMA ValueThere ==
    ASSUME Wellformed(graph), NEW k \in 1 .. Len(graph.nodes) + 1, NEW h, NEW mem,
           Values(graph, h, mem, k), NEW a \in 1 .. k - 1, Owns(graph, a),
           \A m \in a + 1 .. k - 1 : Uses(graph, m) => Apart(graph, h, m, a)
    PROVE  \A u \in UnitsIn(graph, h, graph.nodes[a]) : mem[u] = graph.nodes[a]
<1>1. ASSUME NEW u \in UnitsIn(graph, h, graph.nodes[a]), NEW m \in a + 1 .. k - 1,
             Uses(graph, m), RootAt(graph, m) # graph.nodes[a],
             u \in UnitsIn(graph, h, RootAt(graph, m))
      PROVE  FALSE
  BY <1>1 DEF Apart
<1> QED BY <1>1 DEF Values

\* Before the first node nothing is placed.
LEMMA PlacementInit ==
    ASSUME Wellformed(graph), NEW h, NEW max,
           \A t \in DOMAIN graph.tensor : ~h[t].allocated
    PROVE  Placement(graph, h, max, 1)
<1>1. \A r \in Reads(graph) : ~(r[1] < 1)
  BY NodesFacts, ReadsFacts
<1>2. 1 .. 1 - 1 = {}
  OBVIOUS
<1> QED BY <1>1, <1>2
        DEF Placement, LiveHold, OnlyPlaced, HeldKept, ReadsKept, WithinBuffer

LEMMA CountReadersPlacement == VInv /\ CountReaders => VInv'
<1> SUFFICES ASSUME VInv, CountReaders
             PROVE  VInv'
  OBVIOUS
<1>1. /\ GInv /\ GInv' /\ phase = "count" /\ graph' = graph
      /\ Proceed("alloc")
  BY CountReadersStep DEF VInv, CountReaders
<1>2. Wellformed(graph)
  BY <1>1, GraphFacts DEF GInv
<1>3. CASE next < Len(graph.nodes)
  <2>1. phase' = "count"
    BY <1>1, <1>3 DEF Proceed
  <2> QED BY <1>1, <2>1 DEF VInv
<1>4. CASE ~(next < Len(graph.nodes))
  <2>1. phase' = "alloc" /\ next' = 1
    BY <1>1, <1>4 DEF Proceed
  <2>2. \A t \in DOMAIN graph.tensor : ~hash'[t].allocated
    BY <1>1, <1>2, CountReadersUnplaced
  <2>3. Placement(graph, hash', max_size', 1)
    BY <1>2, <2>2, PlacementInit
  <2> QED BY <1>1, <2>1, <2>3 DEF VInv
<1> QED BY <1>3, <1>4

LEMMA PlacePlacement == VInv /\ Place => VInv'
<1> SUFFICES ASSUME VInv, Place
             PROVE  VInv'
  OBVIOUS
<1> DEFINE t == graph.nodes[next]
           placed == AllocateNode(FoldLeft(AllocateNode, State, Of(t).src), t)
           after == FoldLeft(ReadBy, placed, Of(t).src)
<1>1. /\ GInv /\ GInv' /\ phase = "alloc" /\ graph' = graph
      /\ Placement(graph, hash, max_size, next)
  BY PlaceStep DEF VInv, Place
<1>2. /\ Wellformed(graph) /\ Len(graph.nodes) \in Nat \ {0}
      /\ DOMAIN graph.nodes = 1 .. Len(graph.nodes) /\ next \in DOMAIN graph.nodes
  BY <1>1, GraphFacts DEF GInv
<1>3. after.aborted \/ Placement(graph, after.hash, after.max, next + 1)
  <2>1. /\ State \in Allocator(graph) /\ State.hash = hash /\ State.max = max_size
        /\ Counted(graph, hash, From(graph, next), Holding(graph, From(graph, next)))
        /\ Wanted(graph, hash)
    BY <1>1 DEF GInv, Counters, State
  <2> QED BY <1>1, <1>2, <2>1, PlacementStep
<1>4. /\ IF after.aborted
         THEN phase' = "aborted"
         ELSE hash' = after.hash /\ max_size' = after.max /\ Proceed("compute")
      /\ memory' = IF phase' = "compute"
                   THEN [u \in 0 .. max_size' - 1 |-> NoTensor] ELSE memory
  BY DEF Place, This, State
<1> HIDE DEF after
<1>5. CASE after.aborted
  BY <1>1, <1>4, <1>5 DEF VInv
<1>6. CASE ~after.aborted
  <2>1. Placement(graph, hash', max_size', next + 1) /\ Proceed("compute")
    BY <1>3, <1>4, <1>6
  <2>2. CASE next < Len(graph.nodes)
    <3>1. phase' = "alloc" /\ next' = next + 1
      BY <1>1, <2>1, <2>2 DEF Proceed
    <3> QED BY <1>1, <2>1, <3>1 DEF VInv
  <2>3. CASE ~(next < Len(graph.nodes))
    <3>1. phase' = "compute" /\ next' = 1 /\ next = Len(graph.nodes)
      BY <1>1, <1>2, <2>1, <2>3 DEF Proceed
    <3>2. DOMAIN memory' = 0 .. max_size' - 1
      BY <1>4, <3>1
    <3>3. Values(graph, hash', memory', 1)
      BY DEF Values
    <3> QED BY <1>1, <2>1, <3>1, <3>2, <3>3 DEF VInv, Reached
  <2> QED BY <2>2, <2>3
<1> QED BY <1>5, <1>6

LEMMA ComputeValues == VInv /\ Compute => VInv'
<1> SUFFICES ASSUME VInv, Compute
             PROVE  VInv'
  OBVIOUS
<1>1. /\ GInv /\ GInv' /\ phase = "compute" /\ Proceed("done")
      /\ graph' = graph /\ hash' = hash /\ max_size' = max_size
  BY ComputeStep DEF VInv, Compute
<1>2. /\ Wellformed(graph) /\ Len(graph.nodes) \in Nat \ {0}
      /\ DOMAIN graph.nodes = 1 .. Len(graph.nodes) /\ next \in DOMAIN graph.nodes
      /\ hash \in [DOMAIN graph.tensor -> Slot] /\ max_size \in Nat
  <2>1. State \in Allocator(graph) /\ State.hash = hash /\ State.max = max_size
    BY <1>1 DEF GInv, State
  <2>2. hash \in [DOMAIN graph.tensor -> Slot] /\ max_size \in 0 .. Arena
    BY <2>1, AllocatorFacts
  <2> QED BY <1>1, <2>2, GraphFacts DEF GInv
<1>3. /\ Placement(graph, hash, max_size, Len(graph.nodes) + 1)
      /\ DOMAIN memory = 0 .. max_size - 1
      /\ Values(graph, hash, memory, next)
  BY <1>1 DEF VInv, Reached
<1>4. memory' = IF OnlyDescribes(graph.nodes[next]) \/ External(graph.nodes[next])
                THEN memory
                ELSE [u \in DOMAIN memory |->
                        IF u \in UnitsIn(graph, hash, RootAt(graph, next))
                        THEN RootAt(graph, next) ELSE memory[u]]
  BY DEF Compute, This, Units, UnitsIn, RootAt, RootOf, Root, IsView, Of
<1>5. DOMAIN memory' = 0 .. max_size - 1 /\ Values(graph, hash, memory', next + 1)
  BY <1>2, <1>3, <1>4, ValuesStep DEF Placement
<1>6. phase' \in {"compute", "done"} /\ Reached' = next + 1
  <2>1. CASE next < Len(graph.nodes)
    BY <1>1, <2>1 DEF Proceed, Reached
  <2>2. CASE ~(next < Len(graph.nodes))
    <3>1. phase' = "done" /\ next = Len(graph.nodes)
      BY <1>1, <1>2, <2>2 DEF Proceed
    <3> QED BY <1>1, <3>1 DEF Reached
  <2> QED BY <2>1, <2>2
<1>7. phase' # "alloc"
  BY <1>6
<1> QED BY <1>1, <1>3, <1>5, <1>6, <1>7 DEF VInv

LEMMA ValuesInvariant == Spec => []VInv
<1>1. Init => VInv
  BY GraphInit DEF Init, VInv
<1>2. VInv /\ UNCHANGED vars => VInv'
  <2>1. GInv /\ UNCHANGED vars => GInv'
    BY DEF GInv, State, Counters, Node, vars
  <2> QED BY <2>1 DEF VInv, Reached, vars
<1>3. VInv /\ [Next]_vars => VInv'
  BY <1>2, CountReadersPlacement, PlacePlacement, ComputeValues DEF Next
<1> QED BY <1>1, <1>3, PTL DEF Spec

\* What a node reads has, when the node is computed, the value its operand was
\* given, and so has an output at the end: whatever was placed over it was
\* placed after its last reader (ggml_gallocr_alloc_graph_impl, and the
\* conditions for working in place in ggml_gallocr_allocate_node).
THEOREM OperandsStayIntact == Spec => []OperandsIntact
<1>1. ASSUME VInv
      PROVE  OperandsIntact
  <2> DEFINE N == Len(graph.nodes)
  <2>1. GInv
    BY <1>1 DEF VInv
  <2>2. /\ Wellformed(graph) /\ N \in Nat /\ DOMAIN graph.nodes = 1 .. N
        /\ next \in 1 .. N
    BY <2>1, GraphFacts DEF GInv
  <2>3. \A p : /\ Root(p) = RootOf(graph, p)
               /\ External(p) = graph.tensor[RootOf(graph, p)].external
               /\ Units(p) = UnitsIn(graph, hash, RootOf(graph, p))
    BY DEF Root, RootOf, IsView, Of, External, Units, UnitsIn
  <2>4. ASSUME phase = "compute", NEW i \in DOMAIN Of(This).src,
               ~External(Of(This).src[i])
        PROVE  \A u \in Units(Of(This).src[i]) : memory[u] = Root(Of(This).src[i])
    <3> DEFINE p == Of(This).src[i]
               r == <<next, i>>
    <3>1. r \in Reads(graph) /\ OperandAt(graph, r) = p /\ r[1] = next
      BY <2>2, ReadsFacts DEF Of, This, OperandAt
    <3> HIDE DEF r
    <3>2. PICK a \in 1 .. next - 1 : graph.nodes[a] = RootOf(graph, p) /\ Owns(graph, a)
      BY <2>2, <2>3, <2>4, <3>1, ReadRootFacts
    <3>3. /\ ReadsKept(graph, hash, N + 1) /\ Values(graph, hash, memory, next)
      BY <1>1, <2>4 DEF VInv, Placement, Reached
    <3>4. ASSUME NEW m \in a + 1 .. next - 1, Uses(graph, m)
          PROVE  Apart(graph, hash, m, a)
      <4>1. /\ m \in 1 .. next - 1 /\ a \in 1 .. m - 1 /\ next < N + 1
        BY <2>2
      <4> QED BY <3>1, <3>2, <3>3, <3>4, <4>1 DEF ReadsKept
    <3>5. next \in 1 .. N + 1
      BY <2>2
    <3>6. \A u \in UnitsIn(graph, hash, graph.nodes[a]) : memory[u] = graph.nodes[a]
      BY <2>2, <3>2, <3>3, <3>4, <3>5, ValueThere
    <3> QED BY <2>3, <3>2, <3>6
  <2>5. ASSUME phase = "done", NEW t \in Node, Of(t).output, ~External(t)
        PROVE  \A u \in Units(t) : memory[u] = Root(t)
    <3>1. PICK a \in 1 .. N : graph.nodes[a] = t
      BY <2>2 DEF Node, ToSet
    <3>2. graph.tensor[t].view_src = NoTensor /\ t \in DOMAIN graph.tensor
      BY <2>2, <2>5, <3>1 DEF Wellformed, Of
    <3>3. Owns(graph, a) /\ Root(t) = t
      BY <2>3, <2>5, <3>1, <3>2 DEF Owns, Uses, RootAt, RootOf
    <3>4. /\ LiveHold(graph, hash, N + 1) /\ HeldKept(graph, hash, N + 1)
          /\ Values(graph, hash, memory, N + 1)
      BY <1>1, <2>5 DEF VInv, Placement, Reached
    <3>5. N + 1 \in 1 .. N + 1 /\ a \in 1 .. (N + 1) - 1
      BY <2>2
    <3>6. hash[t].allocated
      BY <2>5, <3>1, <3>3, <3>4, <3>5 DEF LiveHold, Live, Of
    <3>7. ASSUME NEW m \in a + 1 .. (N + 1) - 1, Uses(graph, m)
          PROVE  Apart(graph, hash, m, a)
      <4>1. m \in 1 .. (N + 1) - 1 /\ a \in 1 .. m - 1
        BY <2>2
      <4> QED BY <3>1, <3>4, <3>6, <3>7, <4>1 DEF HeldKept
    <3>8. \A u \in UnitsIn(graph, hash, graph.nodes[a]) : memory[u] = graph.nodes[a]
      BY <2>2, <3>3, <3>4, <3>5, <3>7, ValueThere
    <3> QED BY <2>3, <3>1, <3>3, <3>8
  <2> QED BY <2>4, <2>5 DEF OperandsIntact
<1> QED BY <1>1, ValuesInvariant, PTL

-----------------------------------------------------------------------------
(* The tensors of a forward pass, as the proof of HistoryWritten needs them: *)
(* which of them are the KV cache or views of it, and what they are made of. *)

CONSTANTS NLayer, NHead, NHeadKv, HeadDim, NFf, NVocab
Engine == INSTANCE ForwardGraph

\* The names of the tensors of a layer, of those that are the KV cache or views
\* of it, and of those its copies depend on.
LayerNames ==
    {"kv_k", "kv_v", "norm", "normed", "q_w", "k_w", "v_w", "q_b", "k_b",
     "v_b", "q_3d", "k_3d", "v_3d", "q", "k", "k_cont", "v_cont",
     "k_flat", "v_flat", "k_write", "v_write", "k_cpy", "v_cpy",
     "k_read", "v_read", "k_hist", "v_hist", "k_hist3", "v_hist3",
     "q_perm", "k_turned", "v_turned", "k_perm", "v_perm", "kq",
     "kq_scaled", "kq_soft", "av", "av_turned", "av_cont", "av_2d",
     "attn", "attn_res", "ffn_norm", "ffn_in", "gate_w", "gate", "up",
     "ffn_mul", "ffn", "ffn_res"}
OuterNames ==
    {"weight", "tokens", "pos", "mask", "embd", "norm", "normed", "last",
     "logits"}
OuterLeaves == {"weight", "tokens", "pos", "mask"}
CacheNames == {"kv_k", "kv_v", "k_write", "v_write", "k_read", "v_read", "k_cpy", "v_cpy"}
CopyNames == {"k_cpy", "v_cpy"}
EarlyNames ==
    {"kv_k", "kv_v", "norm", "normed", "k_w", "k_b", "k_3d", "k", "k_cont", "k_flat",
     "k_write", "v_w", "v_b", "v_3d", "v_cont", "v_flat", "v_write"}

\* What comes before layer l.
Below(l) == ((1 .. l - 1) \X LayerNames)
                \cup {<<0, "weight">>, <<0, "tokens">>, <<0, "pos">>,
                      <<0, "mask">>, <<0, "embd">>}

Within(src, S) == \A i \in DOMAIN src : src[i] \in S

\* Tensor d called name of layer l: the copies depend on nothing that reads the
\* cache, and what is no part of the cache is made from the cache only as
\* k_hist and v_hist are.
LayerTensor(l, name, d) ==
    /\ Within(d.src, Below(l) \cup ({l} \X LayerNames))
    /\ name \in EarlyNames \cup CopyNames => Within(d.src, Below(l) \cup ({l} \X EarlyNames))
    /\ name \in {"kv_k", "kv_v"} <=> d.op = "NONE"
    /\ name \in {"kv_k", "kv_v"} => ~d.view
    /\ name \in {"k_write", "k_read"} => d.view /\ d.op = "VIEW" /\ d.src = <<<<l, "kv_k">>>>
    /\ name \in {"v_write", "v_read"} => d.view /\ d.op = "VIEW" /\ d.src = <<<<l, "kv_v">>>>
    /\ name = "k_cpy" => d.view /\ d.op = "CPY" /\ d.src = <<<<l, "k_flat">>, <<l, "k_write">>>>
    /\ name = "v_cpy" => d.view /\ d.op = "CPY" /\ d.src = <<<<l, "v_flat">>, <<l, "v_write">>>>
    /\ name = "k_hist" => d.src = <<<<l, "k_read">>>>
    /\ name = "v_hist" => d.src = <<<<l, "v_read">>>>
    /\ name \notin CacheNames \cup {"k_hist", "v_hist"} =>
          \A i \in DOMAIN d.src : d.src[i][2] \notin CacheNames
    /\ name \notin CacheNames /\ d.view =>
          Len(d.src) = 1 /\ d.src[1][2] \notin OuterLeaves /\ name \notin {"k_hist", "v_hist"}

LEMMA LayerTensors ==
    ASSUME NLayer \in Nat, NEW l \in 1 .. NLayer, NEW n, NEW head, NEW bias
    PROVE  \A name \in LayerNames :
              LayerTensor(l, name, Engine!Layer(l, n, head, bias)[name])
<1> DEFINE L == Engine!Layer(l, n, head, bias)
           cur == IF l = 1 THEN <<0, "embd">> ELSE <<l - 1, "ffn_res">>
<1>0. /\ cur \in Below(l) /\ cur[2] \notin CacheNames
      /\ <<0, "weight">> \in Below(l) /\ <<0, "pos">> \in Below(l)
      /\ <<0, "mask">> \in Below(l)
  BY DEF Below, LayerNames, CacheNames
<1>1. /\ L["kv_k"].op = "NONE" /\ ~L["kv_k"].view /\ L["kv_k"].src = <<>>
      /\ L["kv_v"].op = "NONE" /\ ~L["kv_v"].view /\ L["kv_v"].src = <<>>
      /\ L["norm"].op = "RMS_NORM" /\ ~L["norm"].view /\ L["norm"].src = <<cur>>
      /\ L["normed"].op = "MUL" /\ ~L["normed"].view
           /\ L["normed"].src = <<<<l, "norm">>, <<0, "weight">>>>
      /\ L["q_w"].op = "MUL_MAT" /\ ~L["q_w"].view
           /\ L["q_w"].src = <<<<0, "weight">>, <<l, "normed">>>>
      /\ L["k_w"].op = "MUL_MAT" /\ ~L["k_w"].view
           /\ L["k_w"].src = <<<<0, "weight">>, <<l, "normed">>>>
      /\ L["v_w"].op = "MUL_MAT" /\ ~L["v_w"].view
           /\ L["v_w"].src = <<<<0, "weight">>, <<l, "normed">>>>
  BY Zenon DEF Engine!Layer, Engine!View, Engine!Result, Engine!Leaf
<1>2. /\ L["q_b"].op = "ADD" /\ ~L["q_b"].view /\ L["q_b"].src = <<<<l, "q_w">>, <<0, "weight">>>>
      /\ L["k_b"].op = "ADD" /\ ~L["k_b"].view /\ L["k_b"].src = <<<<l, "k_w">>, <<0, "weight">>>>
      /\ L["v_b"].op = "ADD" /\ ~L["v_b"].view /\ L["v_b"].src = <<<<l, "v_w">>, <<0, "weight">>>>
      /\ L["q_3d"].op = "RESHAPE" /\ L["q_3d"].view
           /\ L["q_3d"].src = IF bias THEN <<<<l, "q_b">>>> ELSE <<<<l, "q_w">>>>
      /\ L["k_3d"].op = "RESHAPE" /\ L["k_3d"].view
           /\ L["k_3d"].src = IF bias THEN <<<<l, "k_b">>>> ELSE <<<<l, "k_w">>>>
      /\ L["v_3d"].op = "RESHAPE" /\ L["v_3d"].view
           /\ L["v_3d"].src = IF bias THEN <<<<l, "v_b">>>> ELSE <<<<l, "v_w">>>>
  BY Zenon DEF Engine!Layer, Engine!View, Engine!Result, Engine!Leaf
<1>3. /\ L["q"].op = "ROPE" /\ ~L["q"].view /\ L["q"].src = <<<<l, "q_3d">>, <<0, "pos">>>>
      /\ L["k"].op = "ROPE" /\ ~L["k"].view /\ L["k"].src = <<<<l, "k_3d">>, <<0, "pos">>>>
      /\ L["k_cont"].op = "CONT" /\ ~L["k_cont"].view /\ L["k_cont"].src = <<<<l, "k">>>>
      /\ L["v_cont"].op = "CONT" /\ ~L["v_cont"].view /\ L["v_cont"].src = <<<<l, "v_3d">>>>
      /\ L["k_flat"].op = "RESHAPE" /\ L["k_flat"].view /\ L["k_flat"].src = <<<<l, "k_cont">>>>
      /\ L["v_flat"].op = "RESHAPE" /\ L["v_flat"].view /\ L["v_flat"].src = <<<<l, "v_cont">>>>
  BY Zenon DEF Engine!Layer, Engine!View, Engine!Result, Engine!Leaf
<1>4. /\ L["k_write"].op = "VIEW" /\ L["k_write"].view /\ L["k_write"].src = <<<<l, "kv_k">>>>
      /\ L["v_write"].op = "VIEW" /\ L["v_write"].view /\ L["v_write"].src = <<<<l, "kv_v">>>>
      /\ L["k_cpy"].op = "CPY" /\ L["k_cpy"].view
           /\ L["k_cpy"].src = <<<<l, "k_flat">>, <<l, "k_write">>>>
      /\ L["v_cpy"].op = "CPY" /\ L["v_cpy"].view
           /\ L["v_cpy"].src = <<<<l, "v_flat">>, <<l, "v_write">>>>
      /\ L["k_read"].op = "VIEW" /\ L["k_read"].view /\ L["k_read"].src = <<<<l, "kv_k">>>>
      /\ L["v_read"].op = "VIEW" /\ L["v_read"].view /\ L["v_read"].src = <<<<l, "kv_v">>>>
  BY Zenon DEF Engine!Layer, Engine!View, Engine!Result, Engine!Leaf
<1>5. /\ L["k_hist"].op = "CONT" /\ ~L["k_hist"].view /\ L["k_hist"].src = <<<<l, "k_read">>>>
      /\ L["v_hist"].op = "CONT" /\ ~L["v_hist"].view /\ L["v_hist"].src = <<<<l, "v_read">>>>
      /\ L["k_hist3"].op = "RESHAPE" /\ L["k_hist3"].view
           /\ L["k_hist3"].src = <<<<l, "k_hist">>>>
      /\ L["v_hist3"].op = "RESHAPE" /\ L["v_hist3"].view
           /\ L["v_hist3"].src = <<<<l, "v_hist">>>>
      /\ L["q_perm"].op = "PERMUTE" /\ L["q_perm"].view /\ L["q_perm"].src = <<<<l, "q">>>>
      /\ L["k_turned"].op = "PERMUTE" /\ L["k_turned"].view
           /\ L["k_turned"].src = <<<<l, "k_hist3">>>>
      /\ L["v_turned"].op = "PERMUTE" /\ L["v_turned"].view
           /\ L["v_turned"].src = <<<<l, "v_hist3">>>>
  BY Zenon DEF Engine!Layer, Engine!View, Engine!Result, Engine!Leaf
<1>6. /\ L["k_perm"].op = "CONT" /\ ~L["k_perm"].view /\ L["k_perm"].src = <<<<l, "k_turned">>>>
      /\ L["v_perm"].op = "CONT" /\ ~L["v_perm"].view /\ L["v_perm"].src = <<<<l, "v_turned">>>>
      /\ L["kq"].op = "MUL_MAT" /\ ~L["kq"].view
           /\ L["kq"].src = <<<<l, "k_perm">>, <<l, "q_perm">>>>
      /\ L["kq_scaled"].op = "SCALE" /\ ~L["kq_scaled"].view
           /\ L["kq_scaled"].src = <<<<l, "kq">>>>
      /\ L["kq_soft"].op = "SOFT_MAX" /\ ~L["kq_soft"].view
           /\ L["kq_soft"].src = <<<<l, "kq_scaled">>, <<0, "mask">>>>
      /\ L["av"].op = "MUL_MAT" /\ ~L["av"].view
           /\ L["av"].src = <<<<l, "v_perm">>, <<l, "kq_soft">>>>
      /\ L["av_turned"].op = "PERMUTE" /\ L["av_turned"].view
           /\ L["av_turned"].src = <<<<l, "av">>>>
      /\ L["av_cont"].op = "CONT" /\ ~L["av_cont"].view
           /\ L["av_cont"].src = <<<<l, "av_turned">>>>
      /\ L["av_2d"].op = "RESHAPE" /\ L["av_2d"].view /\ L["av_2d"].src = <<<<l, "av_cont">>>>
  BY Zenon DEF Engine!Layer, Engine!View, Engine!Result, Engine!Leaf
<1>7. /\ L["attn"].op = "MUL_MAT" /\ ~L["attn"].view
           /\ L["attn"].src = <<<<0, "weight">>, <<l, "av_2d">>>>
      /\ L["attn_res"].op = "ADD" /\ ~L["attn_res"].view
           /\ L["attn_res"].src = <<cur, <<l, "attn">>>>
      /\ L["ffn_norm"].op = "RMS_NORM" /\ ~L["ffn_norm"].view
           /\ L["ffn_norm"].src = <<<<l, "attn_res">>>>
      /\ L["ffn_in"].op = "MUL" /\ ~L["ffn_in"].view
           /\ L["ffn_in"].src = <<<<l, "ffn_norm">>, <<0, "weight">>>>
      /\ L["gate_w"].op = "MUL_MAT" /\ ~L["gate_w"].view
           /\ L["gate_w"].src = <<<<0, "weight">>, <<l, "ffn_in">>>>
      /\ L["gate"].op = "UNARY" /\ ~L["gate"].view /\ L["gate"].src = <<<<l, "gate_w">>>>
      /\ L["up"].op = "MUL_MAT" /\ ~L["up"].view
           /\ L["up"].src = <<<<0, "weight">>, <<l, "ffn_in">>>>
      /\ L["ffn_mul"].op = "MUL" /\ ~L["ffn_mul"].view
           /\ L["ffn_mul"].src = <<<<l, "gate">>, <<l, "up">>>>
      /\ L["ffn"].op = "MUL_MAT" /\ ~L["ffn"].view
           /\ L["ffn"].src = <<<<0, "weight">>, <<l, "ffn_mul">>>>
      /\ L["ffn_res"].op = "ADD" /\ ~L["ffn_res"].view
           /\ L["ffn_res"].src = <<<<l, "attn_res">>, <<l, "ffn">>>>
  BY Zenon DEF Engine!Layer, Engine!View, Engine!Result, Engine!Leaf
<1> HIDE DEF L, cur
<1>8. /\ LayerTensor(l, "kv_k", L["kv_k"])
       /\ LayerTensor(l, "kv_v", L["kv_v"])
       /\ LayerTensor(l, "norm", L["norm"])
       /\ LayerTensor(l, "normed", L["normed"])
       /\ LayerTensor(l, "q_w", L["q_w"])
       /\ LayerTensor(l, "k_w", L["k_w"])
       /\ LayerTensor(l, "v_w", L["v_w"])
  <2>1. /\ LayerTensor(l, "kv_k", L["kv_k"])
        /\ LayerTensor(l, "kv_v", L["kv_v"])
    BY <1>0, <1>1, SMTT(120) DEF LayerTensor, Within, CacheNames, CopyNames,
            EarlyNames, LayerNames, OuterLeaves
  <2>2. /\ LayerTensor(l, "norm", L["norm"])
        /\ LayerTensor(l, "normed", L["normed"])
    BY <1>0, <1>1, SMTT(120) DEF LayerTensor, Within, CacheNames, CopyNames,
            EarlyNames, LayerNames, OuterLeaves
  <2>3. /\ LayerTensor(l, "q_w", L["q_w"])
        /\ LayerTensor(l, "k_w", L["k_w"])
    BY <1>0, <1>1, SMTT(120) DEF LayerTensor, Within, CacheNames, CopyNames,
            EarlyNames, LayerNames, OuterLeaves
  <2>4. LayerTensor(l, "v_w", L["v_w"])
    BY <1>0, <1>1, SMTT(120) DEF LayerTensor, Within, CacheNames, CopyNames,
            EarlyNames, LayerNames, OuterLeaves
  <2> QED BY <2>1, <2>2, <2>3, <2>4
<1>9. /\ LayerTensor(l, "q_b", L["q_b"])
       /\ LayerTensor(l, "k_b", L["k_b"])
       /\ LayerTensor(l, "v_b", L["v_b"])
       /\ LayerTensor(l, "q_3d", L["q_3d"])
       /\ LayerTensor(l, "k_3d", L["k_3d"])
       /\ LayerTensor(l, "v_3d", L["v_3d"])
  <2>1. /\ LayerTensor(l, "q_b", L["q_b"])
        /\ LayerTensor(l, "k_b", L["k_b"])
    BY <1>0, <1>2, SMTT(120) DEF LayerTensor, Within, CacheNames, CopyNames,
            EarlyNames, LayerNames, OuterLeaves
  <2>2. /\ LayerTensor(l, "v_b", L["v_b"])
        /\ LayerTensor(l, "q_3d", L["q_3d"])
    BY <1>0, <1>2, SMTT(120) DEF LayerTensor, Within, CacheNames, CopyNames,
            EarlyNames, LayerNames, OuterLeaves
  <2>3. /\ LayerTensor(l, "k_3d", L["k_3d"])
        /\ LayerTensor(l, "v_3d", L["v_3d"])
    BY <1>0, <1>2, SMTT(120) DEF LayerTensor, Within, CacheNames, CopyNames,
            EarlyNames, LayerNames, OuterLeaves
  <2> QED BY <2>1, <2>2, <2>3
<1>10. /\ LayerTensor(l, "q", L["q"])
       /\ LayerTensor(l, "k", L["k"])
       /\ LayerTensor(l, "k_cont", L["k_cont"])
       /\ LayerTensor(l, "v_cont", L["v_cont"])
       /\ LayerTensor(l, "k_flat", L["k_flat"])
       /\ LayerTensor(l, "v_flat", L["v_flat"])
  <2>1. /\ LayerTensor(l, "q", L["q"])
        /\ LayerTensor(l, "k", L["k"])
    BY <1>0, <1>3, SMTT(120) DEF LayerTensor, Within, CacheNames, CopyNames,
            EarlyNames, LayerNames, OuterLeaves
  <2>2. /\ LayerTensor(l, "k_cont", L["k_cont"])
        /\ LayerTensor(l, "v_cont", L["v_cont"])
    BY <1>0, <1>3, SMTT(120) DEF LayerTensor, Within, CacheNames, CopyNames,
            EarlyNames, LayerNames, OuterLeaves
  <2>3. /\ LayerTensor(l, "k_flat", L["k_flat"])
        /\ LayerTensor(l, "v_flat", L["v_flat"])
    BY <1>0, <1>3, SMTT(120) DEF LayerTensor, Within, CacheNames, CopyNames,
            EarlyNames, LayerNames, OuterLeaves
  <2> QED BY <2>1, <2>2, <2>3
<1>11. /\ LayerTensor(l, "k_write", L["k_write"])
       /\ LayerTensor(l, "v_write", L["v_write"])
       /\ LayerTensor(l, "k_cpy", L["k_cpy"])
       /\ LayerTensor(l, "v_cpy", L["v_cpy"])
       /\ LayerTensor(l, "k_read", L["k_read"])
       /\ LayerTensor(l, "v_read", L["v_read"])
  BY <1>0, <1>4, SMTT(120) DEF LayerTensor, Within, CacheNames, CopyNames, EarlyNames,
       LayerNames, OuterLeaves
<1>12. /\ LayerTensor(l, "k_hist", L["k_hist"])
       /\ LayerTensor(l, "v_hist", L["v_hist"])
       /\ LayerTensor(l, "k_hist3", L["k_hist3"])
       /\ LayerTensor(l, "v_hist3", L["v_hist3"])
       /\ LayerTensor(l, "q_perm", L["q_perm"])
       /\ LayerTensor(l, "k_turned", L["k_turned"])
       /\ LayerTensor(l, "v_turned", L["v_turned"])
  BY <1>0, <1>5, SMTT(120) DEF LayerTensor, Within, CacheNames, CopyNames, EarlyNames,
       LayerNames, OuterLeaves
<1>13. /\ LayerTensor(l, "k_perm", L["k_perm"])
       /\ LayerTensor(l, "v_perm", L["v_perm"])
       /\ LayerTensor(l, "kq", L["kq"])
       /\ LayerTensor(l, "kq_scaled", L["kq_scaled"])
       /\ LayerTensor(l, "kq_soft", L["kq_soft"])
       /\ LayerTensor(l, "av", L["av"])
       /\ LayerTensor(l, "av_turned", L["av_turned"])
       /\ LayerTensor(l, "av_cont", L["av_cont"])
       /\ LayerTensor(l, "av_2d", L["av_2d"])
  <2>1. /\ LayerTensor(l, "k_perm", L["k_perm"])
        /\ LayerTensor(l, "v_perm", L["v_perm"])
    BY <1>0, <1>6, SMTT(120) DEF LayerTensor, Within, CacheNames, CopyNames,
            EarlyNames, LayerNames, OuterLeaves
  <2>2. /\ LayerTensor(l, "kq", L["kq"])
        /\ LayerTensor(l, "kq_scaled", L["kq_scaled"])
    BY <1>0, <1>6, SMTT(120) DEF LayerTensor, Within, CacheNames, CopyNames,
            EarlyNames, LayerNames, OuterLeaves
  <2>3. /\ LayerTensor(l, "kq_soft", L["kq_soft"])
        /\ LayerTensor(l, "av", L["av"])
    BY <1>0, <1>6, SMTT(120) DEF LayerTensor, Within, CacheNames, CopyNames,
            EarlyNames, LayerNames, OuterLeaves
  <2>4. /\ LayerTensor(l, "av_turned", L["av_turned"])
        /\ LayerTensor(l, "av_cont", L["av_cont"])
    BY <1>0, <1>6, SMTT(120) DEF LayerTensor, Within, CacheNames, CopyNames,
            EarlyNames, LayerNames, OuterLeaves
  <2>5. LayerTensor(l, "av_2d", L["av_2d"])
    BY <1>0, <1>6, SMTT(120) DEF LayerTensor, Within, CacheNames, CopyNames,
            EarlyNames, LayerNames, OuterLeaves
  <2> QED BY <2>1, <2>2, <2>3, <2>4, <2>5
<1>14. /\ LayerTensor(l, "attn", L["attn"])
       /\ LayerTensor(l, "attn_res", L["attn_res"])
       /\ LayerTensor(l, "ffn_norm", L["ffn_norm"])
       /\ LayerTensor(l, "ffn_in", L["ffn_in"])
       /\ LayerTensor(l, "gate_w", L["gate_w"])
  <2>1. LayerTensor(l, "attn", L["attn"])
    BY <1>0, <1>7, SMTT(120) DEF LayerTensor, Within, CacheNames, CopyNames,
            EarlyNames, LayerNames, OuterLeaves
  <2>2. LayerTensor(l, "attn_res", L["attn_res"])
    BY <1>0, <1>7, SMTT(120) DEF LayerTensor, Within, CacheNames, CopyNames,
            EarlyNames, LayerNames, OuterLeaves
  <2>3. LayerTensor(l, "ffn_norm", L["ffn_norm"])
    BY <1>0, <1>7, SMTT(120) DEF LayerTensor, Within, CacheNames, CopyNames,
            EarlyNames, LayerNames, OuterLeaves
  <2>4. /\ LayerTensor(l, "ffn_in", L["ffn_in"])
        /\ LayerTensor(l, "gate_w", L["gate_w"])
    BY <1>0, <1>7, SMTT(120) DEF LayerTensor, Within, CacheNames, CopyNames,
            EarlyNames, LayerNames, OuterLeaves
  <2> QED BY <2>1, <2>2, <2>3, <2>4
<1>15. /\ LayerTensor(l, "gate", L["gate"])
       /\ LayerTensor(l, "up", L["up"])
       /\ LayerTensor(l, "ffn_mul", L["ffn_mul"])
       /\ LayerTensor(l, "ffn", L["ffn"])
       /\ LayerTensor(l, "ffn_res", L["ffn_res"])
  <2>1. /\ LayerTensor(l, "gate", L["gate"])
        /\ LayerTensor(l, "up", L["up"])
    BY <1>0, <1>7, SMTT(120) DEF LayerTensor, Within, CacheNames, CopyNames,
            EarlyNames, LayerNames, OuterLeaves
  <2>2. /\ LayerTensor(l, "ffn_mul", L["ffn_mul"])
        /\ LayerTensor(l, "ffn", L["ffn"])
    BY <1>0, <1>7, SMTT(120) DEF LayerTensor, Within, CacheNames, CopyNames,
            EarlyNames, LayerNames, OuterLeaves
  <2>3. LayerTensor(l, "ffn_res", L["ffn_res"])
    BY <1>0, <1>7, SMTT(120) DEF LayerTensor, Within, CacheNames, CopyNames,
            EarlyNames, LayerNames, OuterLeaves
  <2> QED BY <2>1, <2>2, <2>3
<1> QED
  <2> SUFFICES ASSUME NEW name \in LayerNames
               PROVE  LayerTensor(l, name, L[name])
    BY DEF L
  <2> QED BY <1>8, <1>9, <1>10, <1>11, <1>12, <1>13, <1>14, <1>15, ZenonT(60) DEF LayerNames

\* Tensor d called name outside the layers.
OuterTensor(name, d) ==
    /\ Within(d.src, ({0} \X OuterNames) \cup ((1 .. NLayer) \X LayerNames))
    /\ name \in OuterLeaves \cup {"embd"} =>
          Within(d.src, {<<0, "weight">>, <<0, "tokens">>})
    /\ name \in OuterLeaves <=> d.op = "NONE"
    /\ name \in OuterLeaves => ~d.view
    /\ \A i \in DOMAIN d.src : d.src[i][2] \notin CacheNames
    /\ d.view => Len(d.src) = 1 /\ d.src[1][2] \notin OuterLeaves

LEMMA OuterTensors ==
    ASSUME NLayer \in Nat, NEW n
    PROVE  \A name \in OuterNames : OuterTensor(name, Engine!Outer(n)[name])
<1> DEFINE O == Engine!Outer(n)
           cur == IF NLayer = 0 THEN <<0, "embd">> ELSE <<NLayer, "ffn_res">>
<1>0. cur \in ({0} \X OuterNames) \cup ((1 .. NLayer) \X LayerNames) /\ cur[2] \notin CacheNames
  BY DEF OuterNames, LayerNames, CacheNames
<1>1. /\ O["weight"].op = "NONE" /\ ~O["weight"].view /\ O["weight"].src = <<>>
      /\ O["tokens"].op = "NONE" /\ ~O["tokens"].view /\ O["tokens"].src = <<>>
      /\ O["pos"].op = "NONE" /\ ~O["pos"].view /\ O["pos"].src = <<>>
      /\ O["mask"].op = "NONE" /\ ~O["mask"].view /\ O["mask"].src = <<>>
      /\ O["embd"].op = "GET_ROWS" /\ ~O["embd"].view
      /\ O["embd"].src = <<<<0, "weight">>, <<0, "tokens">>>>
      /\ O["norm"].op = "RMS_NORM" /\ ~O["norm"].view /\ O["norm"].src = <<cur>>
      /\ O["normed"].op = "MUL" /\ ~O["normed"].view
      /\ O["normed"].src = <<<<0, "norm">>, <<0, "weight">>>>
      /\ O["last"].op = "VIEW" /\ O["last"].view /\ O["last"].src = <<<<0, "normed">>>>
      /\ O["logits"].op = "MUL_MAT" /\ ~O["logits"].view
      /\ O["logits"].src = <<<<0, "weight">>, <<0, "last">>>>
  BY DEF Engine!Outer, Engine!View, Engine!Result, Engine!Leaf
<1> HIDE DEF O, cur
<1>2. /\ OuterTensor("weight", O["weight"]) /\ OuterTensor("tokens", O["tokens"])
      /\ OuterTensor("pos", O["pos"]) /\ OuterTensor("mask", O["mask"])
      /\ OuterTensor("embd", O["embd"])
  BY <1>0, <1>1, SMTT(60) DEF OuterTensor, OuterLeaves, OuterNames, Within, CacheNames
<1>3. /\ OuterTensor("norm", O["norm"]) /\ OuterTensor("normed", O["normed"])
      /\ OuterTensor("last", O["last"]) /\ OuterTensor("logits", O["logits"])
  BY <1>0, <1>1, SMTT(60) DEF OuterTensor, OuterLeaves, OuterNames, Within, CacheNames
<1> QED
  <2> SUFFICES ASSUME NEW name \in OuterNames
               PROVE  OuterTensor(name, O[name])
    BY DEF O
  <2> QED BY <1>2, <1>3, ZenonT(60) DEF OuterNames

\* The tensors of a pass.
LEMMA EngineTensors ==
    ASSUME NLayer \in Nat, NEW n, NEW head, NEW bias
    PROVE  /\ Engine!TensorNames = ({0} \X OuterNames) \cup ((1 .. NLayer) \X LayerNames)
           /\ \A l \in 1 .. NLayer : \A name \in LayerNames :
                LayerTensor(l, name, Engine!Tensors(n, head, bias)[<<l, name>>])
           /\ \A name \in OuterNames :
                OuterTensor(name, Engine!Tensors(n, head, bias)[<<0, name>>])
<1>1. DOMAIN Engine!Layer(1, 1, 0, FALSE) = LayerNames
  BY DEF Engine!Layer, LayerNames
<1>2. DOMAIN Engine!Outer(1) = OuterNames
  BY DEF Engine!Outer, OuterNames
<1>3. Engine!TensorNames = ({0} \X OuterNames) \cup ((1 .. NLayer) \X LayerNames)
  <2>1. {<<0, name>> : name \in OuterNames} = {0} \X OuterNames
    OBVIOUS
  <2>2. Engine!TensorNames = {<<0, name>> : name \in OuterNames}
                                \cup ((1 .. NLayer) \X LayerNames)
    BY <1>1, <1>2, Zenon DEF Engine!TensorNames
  <2> QED BY <2>1, <2>2
<1>4. ASSUME NEW l \in 1 .. NLayer, NEW name \in LayerNames
      PROVE  LayerTensor(l, name, Engine!Tensors(n, head, bias)[<<l, name>>])
  <2>1. <<l, name>> \in Engine!TensorNames /\ l # 0
    BY <1>3
  <2>2. Engine!Tensors(n, head, bias)[<<l, name>>] = Engine!Layer(l, n, head, bias)[name]
    BY <2>1 DEF Engine!Tensors, Engine!TensorOf
  <2> QED BY <2>2, LayerTensors
<1>5. ASSUME NEW name \in OuterNames
      PROVE  OuterTensor(name, Engine!Tensors(n, head, bias)[<<0, name>>])
  <2>1. <<0, name>> \in Engine!TensorNames
    BY <1>3
  <2>2. Engine!Tensors(n, head, bias)[<<0, name>>] = Engine!Outer(n)[name]
    BY <2>1 DEF Engine!Tensors, Engine!TensorOf
  <2> QED BY <2>2, OuterTensors
<1> QED BY <1>3, <1>4, <1>5

-----------------------------------------------------------------------------
(* ggml_build_forward_expand: what a visit of a tensor comes to.            *)

\* The tensors that are visited, and the functions that say what a visit of a
\* tensor comes to.
Visitor == [Engine!TensorNames -> [Engine!Visited -> Engine!Visited]]

\* The loop of ggml_visit_parents over the operands of a tensor.
VisitTurn(it, s, base, src, visit) ==
    IF s = {} THEN base ELSE visit[src[Max(s)]][it[s \ {Max(s)}]]

LEMMA VisitLoop ==
    ASSUME NEW visit \in Visitor, NEW base \in Engine!Visited,
           NEW src \in Seq(Engine!TensorNames)
    PROVE  \E it \in [SUBSET (1 .. Len(src)) -> Engine!Visited] :
              /\ Engine!FoldLeft(LAMBDA a, p : visit[p][a], base, src) = it[1 .. Len(src)]
              /\ \A s \in SUBSET (1 .. Len(src)) : it[s] = VisitTurn(it, s, base, src, visit)
<1> DEFINE n == Len(src)
           X == Engine!Visited
           step == [ai \in X \X (1 .. n) |-> visit[src[ai[2]]][ai[1]]]
           iter == CHOOSE it : it = [s \in SUBSET (1 .. n) |-> VisitTurn(it, s, base, src, visit)]
<1>1. n \in Nat /\ DOMAIN src = 1 .. n /\ \A i \in 1 .. n : src[i] \in Engine!TensorNames
  OBVIOUS
<1>2. Engine!FoldLeft(LAMBDA a, p : visit[p][a], base, src) = iter[1 .. n]
  <2>1. Engine!FoldLeft(LAMBDA a, p : visit[p][a], base, src)
          = (CHOOSE it : it = [s \in SUBSET DOMAIN src |->
                                  VisitTurn(it, s, base, src, visit)])[DOMAIN src]
    BY DEF Engine!FoldLeft, Engine!MapThenFoldSet, Engine!Max, Max, VisitTurn
  <2> QED BY <1>1, <2>1
<1>0. ASSUME NEW a \in X, NEW p \in Engine!TensorNames
      PROVE  visit[p][a] \in X
  BY DEF Visitor
<1>3. step \in [X \X (1 .. n) -> X]
  <2> HIDE DEF n, X
  <2>1. ASSUME NEW ai \in X \X (1 .. n)
        PROVE  visit[src[ai[2]]][ai[1]] \in X
    BY <1>0, <1>1, <2>1
  <2> QED BY <2>1
<1>4. PICK g : IsLoop(g, n, X, base, step)
  <2> HIDE DEF step, n
  <2>1. base \in X
    BY DEF X
  <2> HIDE DEF X
  <2> QED BY <1>1, <1>3, <2>1, LoopExists
<1>5. ASSUME NEW s \in SUBSET (1 .. n)
      PROVE  g[s] = VisitTurn(g, s, base, src, visit)
  <2>1. CASE s = {}
    BY <1>4, <2>1 DEF IsLoop, Turn, VisitTurn
  <2>2. CASE s # {}
    <3>1. Max(s) \in s
      BY <1>1, <2>2, MaxIsMember
    <3>2. g[s \ {Max(s)}] \in X /\ Max(s) \in 1 .. n
      BY <1>4, <3>1 DEF IsLoop
    <3>3. step[<<g[s \ {Max(s)}], Max(s)>>] = visit[src[Max(s)]][g[s \ {Max(s)}]]
      BY <3>2
    <3> HIDE DEF step
    <3> QED BY <1>4, <2>2, <3>3 DEF IsLoop, Turn, VisitTurn
  <2> QED BY <2>1, <2>2
<1>6. g = [s \in SUBSET (1 .. n) |-> VisitTurn(g, s, base, src, visit)]
  <2> DEFINE P(s) == VisitTurn(g, s, base, src, visit)
  <2>1. \A s \in SUBSET (1 .. n) : g[s] = P(s)
    BY <1>5
  <2> HIDE DEF P, n, X
  <2>2. g = [s \in SUBSET (1 .. n) |-> P(s)]
    BY <1>4, <2>1 DEF IsLoop
  <2> QED BY <2>2 DEF P
<1>7. iter = [s \in SUBSET (1 .. n) |-> VisitTurn(iter, s, base, src, visit)]
  BY <1>6
<1> HIDE DEF iter, n
<1>8. \A s \in SUBSET (1 .. n) : iter[s] = VisitTurn(iter, s, base, src, visit)
  BY <1>7
<1> DEFINE F == {s \in SUBSET (1 .. n) : iter[s] \in X}
<1>9. ASSUME NEW s \in SUBSET (1 .. n), \A x \in s : s \ {x} \in F
      PROVE  s \in F
  <2>1. CASE s = {}
    BY <1>8, <2>1 DEF VisitTurn
  <2>2. CASE s # {}
    <3>1. Max(s) \in s
      BY <1>1, <2>2, MaxIsMember
    <3>2. iter[s \ {Max(s)}] \in X /\ src[Max(s)] \in Engine!TensorNames
      BY <1>1, <1>9, <3>1
    <3>3. visit[src[Max(s)]][iter[s \ {Max(s)}]] \in X
      BY <1>0, <3>2
    <3> HIDE DEF X
    <3> QED BY <1>8, <2>2, <3>3 DEF VisitTurn
  <2> QED BY <2>1, <2>2
<1>10. \A s \in SUBSET (1 .. n) : s \in F
  <2> HIDE DEF F
  <2> QED BY <1>1, <1>9, TurnsInductive
<1>11. iter \in [SUBSET (1 .. n) -> X]
  <2> DEFINE P(s) == VisitTurn(iter, s, base, src, visit)
  <2>1. iter = [s \in SUBSET (1 .. n) |-> P(s)]
    BY <1>7
  <2>2. \A s \in SUBSET (1 .. n) : iter[s] \in X
    BY <1>10
  <2> HIDE DEF P, X
  <2> QED BY <2>1, <2>2
<1> QED BY <1>2, <1>8, <1>11 DEF n

\* r is what the visit of a tensor that was not visited before leads to.
Opens(tensors, visit, v, id, r) ==
    \E base \in Engine!Visited, w \in Engine!Visited,
       it \in [SUBSET (1 .. Len(tensors[id].src)) -> Engine!Visited] :
        /\ base = [seen |-> v.seen \cup {id}, nodes |-> v.nodes]
        /\ \A s \in SUBSET (1 .. Len(tensors[id].src)) :
              it[s] = VisitTurn(it, s, base, tensors[id].src, visit)
        /\ w = it[1 .. Len(tensors[id].src)]
        /\ r = IF tensors[id].op = "NONE" THEN w
               ELSE [seen |-> w.seen, nodes |-> Append(w.nodes, id)]

LEMMA VisitWithIs ==
    ASSUME NEW tensors, \A id \in Engine!TensorNames
             : tensors[id].src \in Seq(Engine!TensorNames),
           NEW visit \in Visitor
    PROVE  /\ Engine!VisitWith(tensors, visit) \in Visitor
           /\ \A v \in Engine!Visited, id \in Engine!TensorNames :
                IF id \in v.seen THEN Engine!VisitWith(tensors, visit)[id][v] = v
                ELSE Opens(tensors, visit, v, id, Engine!VisitWith(tensors, visit)[id][v])
<1> DEFINE T == Engine!TensorNames
           X == Engine!Visited
           base(v, id) == [seen |-> v.seen \cup {id}, nodes |-> v.nodes]
           w(v, id) == Engine!FoldLeft(LAMBDA a, p : visit[p][a], base(v, id), tensors[id].src)
           R(v, id) == IF id \in v.seen THEN v
                       ELSE IF tensors[id].op = "NONE" THEN w(v, id)
                       ELSE [seen |-> w(v, id).seen, nodes |-> Append(w(v, id).nodes, id)]
<1>1. Engine!VisitWith(tensors, visit) = [id \in T |-> [v \in X |-> R(v, id)]]
  BY DEF Engine!VisitWith
<1>2. ASSUME NEW v \in X, NEW id \in T
      PROVE  /\ base(v, id) \in X
             /\ base(v, id) = [seen |-> v.seen \cup {id}, nodes |-> v.nodes]
  BY DEF Engine!Visited
<1>3. ASSUME NEW v \in X, NEW id \in T
      PROVE  \E it \in [SUBSET (1 .. Len(tensors[id].src)) -> X] :
                /\ w(v, id) = it[1 .. Len(tensors[id].src)]
                /\ \A s \in SUBSET (1 .. Len(tensors[id].src)) :
                      it[s] = VisitTurn(it, s, base(v, id), tensors[id].src, visit)
  <2>1. base(v, id) \in X
    BY <1>2
  <2>2. tensors[id].src \in Seq(T)
    OBVIOUS
  <2> HIDE DEF base
  <2> QED BY Zenon, <2>1, <2>2, VisitLoop
<1>4. ASSUME NEW v \in X, NEW id \in T
      PROVE  w(v, id) \in X
  <2>1. 1 .. Len(tensors[id].src) \in SUBSET (1 .. Len(tensors[id].src))
    OBVIOUS
  <2>2. PICK it \in [SUBSET (1 .. Len(tensors[id].src)) -> X] :
                w(v, id) = it[1 .. Len(tensors[id].src)]
    BY Zenon, <1>3
  <2> HIDE DEF w, base, X
  <2> QED BY <2>1, <2>2
<1>5. ASSUME NEW v \in X, NEW id \in T
      PROVE  R(v, id) \in X
  <2> DEFINE u == w(v, id)
  <2>1. u \in X
    BY <1>4
  <2> HIDE DEF u, w
  <2>2. [seen |-> u.seen, nodes |-> Append(u.nodes, id)] \in X
    BY <2>1 DEF Engine!Visited
  <2> QED BY <2>1, <2>2 DEF u
<1> HIDE DEF w, base
<1>6. ASSUME NEW v \in X, NEW id \in T
      PROVE  Engine!VisitWith(tensors, visit)[id][v] = R(v, id)
  <2> HIDE DEF R, X, T
  <2> QED BY <1>1
<1>7. Engine!VisitWith(tensors, visit) \in Visitor
  <2>1. \A v \in X, id \in T : R(v, id) \in X
    BY <1>5
  <2> HIDE DEF R, X, T
  <2>2. [id \in T |-> [v \in X |-> R(v, id)]] \in [T -> [X -> X]]
    BY <2>1
  <2> QED BY <1>1, <2>2 DEF Visitor, X, T
<1>8. ASSUME NEW v \in X, NEW id \in T, id \notin v.seen
      PROVE  Opens(tensors, visit, v, id, Engine!VisitWith(tensors, visit)[id][v])
  <2>1. PICK it \in [SUBSET (1 .. Len(tensors[id].src)) -> X] :
                /\ w(v, id) = it[1 .. Len(tensors[id].src)]
                /\ \A s \in SUBSET (1 .. Len(tensors[id].src)) :
                      it[s] = VisitTurn(it, s, base(v, id), tensors[id].src, visit)
    BY <1>3
  <2>2. Engine!VisitWith(tensors, visit)[id][v]
          = IF tensors[id].op = "NONE" THEN w(v, id)
            ELSE [seen |-> w(v, id).seen, nodes |-> Append(w(v, id).nodes, id)]
    BY <1>5, <1>6, <1>8
  <2>3. w(v, id) \in X /\ base(v, id) \in X
        /\ base(v, id) = [seen |-> v.seen \cup {id}, nodes |-> v.nodes]
    BY <1>2, <1>4
  <2> DEFINE r == Engine!VisitWith(tensors, visit)[id][v]
             b == base(v, id)
             u == w(v, id)
  <2>4. /\ b \in X /\ u \in X /\ b = [seen |-> v.seen \cup {id}, nodes |-> v.nodes]
        /\ u = it[1 .. Len(tensors[id].src)]
        /\ \A s \in SUBSET (1 .. Len(tensors[id].src)) :
              it[s] = VisitTurn(it, s, b, tensors[id].src, visit)
        /\ r = IF tensors[id].op = "NONE" THEN u
               ELSE [seen |-> u.seen, nodes |-> Append(u.nodes, id)]
    BY <2>1, <2>2, <2>3
  <2> HIDE DEF r, b, u
  <2>5. Opens(tensors, visit, v, id, r)
    BY <2>4, Zenon DEF Opens
  <2> QED BY <2>5 DEF r
<1>9. ASSUME NEW v \in X, NEW id \in T, id \in v.seen
      PROVE  Engine!VisitWith(tensors, visit)[id][v] = v
  BY <1>6, <1>9
<1> QED BY <1>7, <1>8, <1>9

\* The nodes that read the history of the cache, and the copy that writes the
\* part of it a pass adds.
IsHistory(id) == id[2] \in {"k_hist", "v_hist"}
Writer(id) == <<id[1], IF id[2] = "k_hist" THEN "k_cpy" ELSE "v_cpy">>

\* No node reads the history before it is written.
WritersFirst(nodes) ==
    \A i \in DOMAIN nodes :
        IsHistory(nodes[i]) => \E j \in 1 .. i - 1 : nodes[j] = Writer(nodes[i])

\* No leaf is a node.
NoLeaves(tensors, nodes) == \A i \in DOMAIN nodes : tensors[nodes[i]].op # "NONE"

\* What reads the history among the tensors C may be visited.
Ready(v, C) == \A id \in C : IsHistory(id) => Writer(id) \in ToSet(v.nodes)

\* A visit that stays among the tensors C leads from v to w.
Leads(tensors, C, v, w) ==
    Ready(v, C) =>
        /\ w.seen \subseteq v.seen \cup C
        /\ ToSet(v.nodes) \subseteq ToSet(w.nodes)
        /\ WritersFirst(v.nodes) => WritersFirst(w.nodes)
        /\ NoLeaves(tensors, v.nodes) => NoLeaves(tensors, w.nodes)

LEMMA LeadsOn ==
    ASSUME NEW tensors, NEW C, NEW v, NEW w, NEW x,
           Leads(tensors, C, v, w), Leads(tensors, C, w, x)
    PROVE  Leads(tensors, C, v, x)
<1>1. Ready(v, C) => Ready(w, C)
  BY DEF Leads, Ready
<1> QED BY <1>1, Zenon DEF Leads

LEMMA LeadsToSeen ==
    ASSUME NEW tensors, NEW C, NEW id \in C, NEW v
    PROVE  Leads(tensors, C, v, [seen |-> v.seen \cup {id}, nodes |-> v.nodes])
BY DEF Leads

LEMMA AppendFacts ==
    ASSUME NEW nodes \in Seq(Engine!TensorNames), NEW id \in Engine!TensorNames
    PROVE  /\ Append(nodes, id) \in Seq(Engine!TensorNames)
           /\ DOMAIN Append(nodes, id) = 1 .. Len(nodes) + 1
           /\ \A i \in 1 .. Len(nodes) : Append(nodes, id)[i] = nodes[i]
           /\ Append(nodes, id)[Len(nodes) + 1] = id
           /\ DOMAIN nodes = 1 .. Len(nodes) /\ Len(nodes) \in Nat
           /\ ToSet(Append(nodes, id)) = ToSet(nodes) \cup {id}
<1>1. /\ Append(nodes, id) \in Seq(Engine!TensorNames)
      /\ DOMAIN Append(nodes, id) = 1 .. Len(nodes) + 1
      /\ \A i \in 1 .. Len(nodes) : Append(nodes, id)[i] = nodes[i]
      /\ Append(nodes, id)[Len(nodes) + 1] = id
      /\ DOMAIN nodes = 1 .. Len(nodes) /\ Len(nodes) \in Nat
  BY AppendProperties
<1>2. ToSet(Append(nodes, id)) = ToSet(nodes) \cup {id}
  <2> DEFINE app == Append(nodes, id)
             n == Len(nodes)
  <2> HIDE DEF app
  <2>1. DOMAIN app = 1 .. n + 1 /\ (\A i \in 1 .. n : app[i] = nodes[i]) /\ app[n + 1] = id
        /\ DOMAIN nodes = 1 .. n /\ n \in Nat
    BY <1>1 DEF app
  <2> HIDE DEF n
  <2>2. \A i \in 1 .. n + 1 : i \in 1 .. n \/ i = n + 1
    BY <2>1
  <2>3. ToSet(app) \subseteq ToSet(nodes) \cup {id}
    BY <2>1, <2>2 DEF ToSet
  <2>4. ToSet(nodes) \cup {id} \subseteq ToSet(app)
    BY <2>1 DEF ToSet
  <2> QED BY <2>3, <2>4 DEF app
<1> QED BY <1>1, <1>2

LEMMA LeadsToAppended ==
    ASSUME NEW tensors, NEW C \in SUBSET Engine!TensorNames, NEW id \in C,
           NEW v \in Engine!Visited, tensors[id].op # "NONE"
    PROVE  Leads(tensors, C, v, [seen |-> v.seen, nodes |-> Append(v.nodes, id)])
<1> DEFINE nodes == v.nodes
           app == Append(nodes, id)
           n == Len(nodes)
<1>1. nodes \in Seq(Engine!TensorNames)
  BY DEF Engine!Visited
<1>2. DOMAIN app = 1 .. n + 1 /\ (\A i \in 1 .. n : app[i] = nodes[i]) /\ app[n + 1] = id
      /\ DOMAIN nodes = 1 .. n /\ n \in Nat /\ ToSet(app) = ToSet(nodes) \cup {id}
  BY <1>1, AppendFacts
<1> HIDE DEF nodes, app, n
<1>3. \A i \in 1 .. n + 1 : i \in 1 .. n \/ i = n + 1
  BY <1>2
<1>4. ASSUME Ready(v, C), WritersFirst(nodes)
      PROVE  WritersFirst(app)
  <2> SUFFICES ASSUME NEW i \in DOMAIN app, IsHistory(app[i])
               PROVE  \E j \in 1 .. i - 1 : app[j] = Writer(app[i])
    BY DEF WritersFirst
  <2>1. CASE i \in 1 .. n
    <3>1. PICK j \in 1 .. i - 1 : nodes[j] = Writer(nodes[i])
      BY <1>2, <1>4, <2>1 DEF WritersFirst
    <3>2. j \in 1 .. n
      BY <1>2, <2>1
    <3> QED BY <1>2, <2>1, <3>1, <3>2
  <2>2. CASE i = n + 1
    <3>1. app[i] = id /\ IsHistory(id)
      BY <1>2, <2>2
    <3>2. Writer(id) \in ToSet(nodes)
      BY <1>4, <3>1 DEF Ready, nodes
    <3>3. PICK j \in 1 .. n : nodes[j] = Writer(id)
      BY <1>2, <3>2 DEF ToSet
    <3>4. j \in 1 .. i - 1
      BY <1>2, <2>2
    <3> QED BY <1>2, <3>1, <3>3, <3>4
  <2> QED BY <1>2, <1>3, <2>1, <2>2
<1>5. ASSUME NoLeaves(tensors, nodes)
      PROVE  NoLeaves(tensors, app)
  BY <1>2, <1>3, <1>5 DEF NoLeaves
<1> DEFINE w == [seen |-> v.seen, nodes |-> app]
<1>6. w.seen = v.seen /\ w.nodes = app
  OBVIOUS
<1> HIDE DEF w
<1>7. ToSet(nodes) \subseteq ToSet(app)
  BY <1>2
<1>8. Leads(tensors, C, v, w)
  BY <1>4, <1>5, <1>6, <1>7 DEF Leads, nodes
<1> QED BY <1>8 DEF w, app, nodes

\* If the calls for its operands stay among the tensors C, so does the visit of
\* a tensor of C, and the tensor becomes a node.
LEMMA VisitWithLeads ==
    ASSUME NEW tensors, \A id \in Engine!TensorNames
             : tensors[id].src \in Seq(Engine!TensorNames),
           NEW C \in SUBSET Engine!TensorNames,
           \A id \in C : Within(tensors[id].src, C),
           NEW visit \in Visitor,
           \A id \in C : \A v \in Engine!Visited : Leads(tensors, C, v, visit[id][v]),
           NEW id \in C, NEW v \in Engine!Visited
    PROVE  /\ Leads(tensors, C, v, Engine!VisitWith(tensors, visit)[id][v])
           /\ id \notin v.seen /\ tensors[id].op # "NONE" =>
                id \in ToSet(Engine!VisitWith(tensors, visit)[id][v].nodes)
<1> DEFINE r == Engine!VisitWith(tensors, visit)[id][v]
           src == tensors[id].src
           n == Len(src)
<1>0. src \in Seq(Engine!TensorNames) /\ n \in Nat /\ DOMAIN src = 1 .. n
        /\ id \in Engine!TensorNames
  OBVIOUS
<1>1. CASE id \in v.seen
  <2>1. r = v
    BY <1>0, <1>1, VisitWithIs
  <2> HIDE DEF r
  <2>2. Leads(tensors, C, v, r)
    BY <2>1 DEF Leads
  <2> QED BY <1>1, <2>2 DEF r
<1>2. CASE id \notin v.seen
  <2>1. PICK base \in Engine!Visited, w \in Engine!Visited,
             it \in [SUBSET (1 .. n) -> Engine!Visited] :
                /\ base = [seen |-> v.seen \cup {id}, nodes |-> v.nodes]
                /\ \A s \in SUBSET (1 .. n) : it[s] = VisitTurn(it, s, base, src, visit)
                /\ w = it[1 .. n]
                /\ r = IF tensors[id].op = "NONE" THEN w
                       ELSE [seen |-> w.seen, nodes |-> Append(w.nodes, id)]
    <3>1. Opens(tensors, visit, v, id, r)
      BY <1>0, <1>2, VisitWithIs
    <3> HIDE DEF r
    <3> QED BY <3>1, Zenon DEF Opens
  <2> HIDE DEF r
  <2> DEFINE F == {s \in SUBSET (1 .. n) : Leads(tensors, C, v, it[s])}
  <2>2. Leads(tensors, C, v, base)
    BY <2>1, LeadsToSeen
  <2>3. ASSUME NEW s \in SUBSET (1 .. n), \A x \in s : s \ {x} \in F
        PROVE  s \in F
    <3>1. CASE s = {}
      <4>1. it[s] = base
        BY <2>1, <3>1 DEF VisitTurn
      <4> QED BY <2>2, <4>1
    <3>2. CASE s # {}
      <4> DEFINE m == Max(s)
                 u == it[s \ {m}]
      <4>1. m \in s
        BY <1>0, <3>2, MaxIsMember
      <4>2. u \in Engine!Visited /\ Leads(tensors, C, v, u)
        BY <2>1, <2>3, <4>1
      <4>3. src[m] \in C
        BY <1>0, <4>1 DEF Within
      <4>4. it[s] = visit[src[m]][u]
        BY <2>1, <3>2 DEF VisitTurn
      <4> HIDE DEF m, u, src
      <4>5. Leads(tensors, C, u, it[s])
        BY <4>2, <4>3, <4>4
      <4>6. Leads(tensors, C, v, it[s])
        BY <4>2, <4>5, LeadsOn
      <4> QED BY <4>6
    <3> QED BY <3>1, <3>2
  <2>4. Leads(tensors, C, v, w)
    <3>1. \A s \in SUBSET (1 .. n) : s \in F
      <4> HIDE DEF F, n
      <4> QED BY <1>0, <2>3, TurnsInductive
    <3> QED BY <2>1, <3>1
  <2>5. CASE tensors[id].op = "NONE"
    BY <2>1, <2>4, <2>5 DEF r
  <2>6. CASE tensors[id].op # "NONE"
    <3>1. r = [seen |-> w.seen, nodes |-> Append(w.nodes, id)]
      BY <2>1, <2>6
    <3>2. Leads(tensors, C, w, r)
      BY <2>6, <3>1, LeadsToAppended
    <3>3. Leads(tensors, C, v, r)
      BY <2>4, <3>2, LeadsOn
    <3>4. w.nodes \in Seq(Engine!TensorNames)
      BY DEF Engine!Visited
    <3>5. id \in ToSet(Append(w.nodes, id))
      BY <1>0, <3>4, AppendFacts
    <3>6. id \in ToSet(r.nodes)
      BY <3>1, <3>5
    <3> QED BY <3>3, <3>6 DEF r
  <2> QED BY <2>5, <2>6
<1> QED BY <1>1, <1>2

\* The tensors are finitely many.
LEMMA SmallSets ==
    ASSUME NEW a, NEW b, NEW c, NEW d
    PROVE  IsFiniteSet({a, b, c, d})
<1>1. <<a, b, c, d>> \in Seq({a, b, c, d}) /\ Len(<<a, b, c, d>>) = 4
  OBVIOUS
<1>2. \A x \in {a, b, c, d} : \E i \in 1 .. Len(<<a, b, c, d>>) : <<a, b, c, d>>[i] = x
  <2>1. 1 \in 1 .. 4 /\ 2 \in 1 .. 4 /\ 3 \in 1 .. 4 /\ 4 \in 1 .. 4
    OBVIOUS
  <2> QED BY <1>1, <2>1
<1> QED BY <1>1, <1>2, Zenon DEF IsFiniteSet

LEMMA NamesFinite == IsFiniteSet(LayerNames) /\ IsFiniteSet(OuterNames)
<1> DEFINE S1 == {"kv_k", "kv_v", "norm", "normed"}
           S2 == {"q_w", "k_w", "v_w", "q_b"}
           S3 == {"k_b", "v_b", "q_3d", "k_3d"}
           S4 == {"v_3d", "q", "k", "k_cont"}
           S5 == {"v_cont", "k_flat", "v_flat", "k_write"}
           S6 == {"v_write", "k_cpy", "v_cpy", "k_read"}
           S7 == {"v_read", "k_hist", "v_hist", "k_hist3"}
           S8 == {"v_hist3", "q_perm", "k_turned", "v_turned"}
           S9 == {"k_perm", "v_perm", "kq", "kq_scaled"}
           S10 == {"kq_soft", "av", "av_turned", "av_cont"}
           S11 == {"av_2d", "attn", "attn_res", "ffn_norm"}
           S12 == {"ffn_in", "gate_w", "gate", "up"}
           S13 == {"ffn_mul", "ffn", "ffn_res", "ffn_res"}
<1>1. /\ IsFiniteSet(S1)
      /\ IsFiniteSet(S2)
      /\ IsFiniteSet(S3)
      /\ IsFiniteSet(S4)
      /\ IsFiniteSet(S5)
      /\ IsFiniteSet(S6)
      /\ IsFiniteSet(S7)
      /\ IsFiniteSet(S8)
      /\ IsFiniteSet(S9)
      /\ IsFiniteSet(S10)
      /\ IsFiniteSet(S11)
      /\ IsFiniteSet(S12)
      /\ IsFiniteSet(S13)
  BY SmallSets
<1>2. LayerNames = S1 \cup S2 \cup S3 \cup S4 \cup S5 \cup S6 \cup S7 \cup S8 \cup S9 \cup S10
        \cup S11 \cup S12 \cup S13
  BY DEF LayerNames
<1> HIDE DEF S1, S2, S3, S4, S5, S6, S7, S8, S9, S10, S11, S12, S13
<1>3. IsFiniteSet(LayerNames)
  BY <1>1, <1>2, FS_Union
<1>4. OuterNames = {"weight", "tokens", "pos", "mask"} \cup {"embd", "norm", "normed", "last"}
                       \cup {"logits", "logits", "logits", "logits"}
  BY DEF OuterNames
<1>5. IsFiniteSet(OuterNames)
  BY <1>4, SmallSets, FS_Union
<1> QED BY <1>3, <1>5

LEMMA TensorNamesFinite ==
    ASSUME NLayer \in Nat
    PROVE  Engine!Cardinality(Engine!TensorNames) \in Nat \ {0}
<1>1. Engine!TensorNames = ({0} \X OuterNames) \cup ((1 .. NLayer) \X LayerNames)
  BY EngineTensors
<1>2. IsFiniteSet(Engine!TensorNames)
  <2>1. IsFiniteSet({0}) /\ IsFiniteSet(1 .. NLayer)
    <3>1. IsFiniteSet({0})
      BY FS_Singleton
    <3>2. IsFiniteSet(1 .. NLayer)
      BY FS_Interval
    <3> QED BY <3>1, <3>2
  <2>2. IsFiniteSet({0} \X OuterNames)
    BY <2>1, NamesFinite, FS_Product
  <2>3. IsFiniteSet((1 .. NLayer) \X LayerNames)
    BY <2>1, NamesFinite, FS_Product
  <2>4. IsFiniteSet(({0} \X OuterNames) \cup ((1 .. NLayer) \X LayerNames))
    BY <2>2, <2>3, FS_Union
  <2> QED BY <1>1, <2>4
<1>3. Engine!TensorNames # {}
  <2>1. "pos" \in OuterNames /\ 0 \in {0}
    BY DEF OuterNames
  <2>2. <<0, "pos">> \in {0} \X OuterNames
    BY <2>1
  <2> QED BY <1>1, <2>2
<1>4. Cardinality(Engine!TensorNames) \in Nat \ {0}
  BY <1>2, <1>3, FS_CardinalityType, FS_EmptySet
<1>5. Engine!Cardinality(Engine!TensorNames) = Cardinality(Engine!TensorNames)
  BY DEF Cardinality, Engine!Cardinality
<1> QED BY <1>4, <1>5

\* A recursive function of 0 .. n exists.
IsIteration(f, n, X, base, step) ==
    /\ f \in [0 .. n -> X]
    /\ f[0] = base
    /\ \A i \in 1 .. n : f[i] = step[<<f[i - 1], i>>]

LEMMA IterationExists ==
    ASSUME NEW n \in Nat, NEW X, NEW base \in X, NEW step \in [X \X (1 .. n) -> X]
    PROVE  \E f : IsIteration(f, n, X, base, step)
<1> DEFINE Iteration(f, m) == /\ f \in [0 .. m -> X]
                              /\ f[0] = base
                              /\ \A i \in 1 .. m : f[i] = step[<<f[i - 1], i>>]
           S == {m \in Nat : m =< n => \E f : Iteration(f, m)}
<1>1. 0 \in S
  <2> DEFINE f == [i \in 0 .. 0 |-> base]
  <2>1. Iteration(f, 0)
    OBVIOUS
  <2> QED BY <2>1
<1>2. ASSUME NEW m \in Nat, m \in S
      PROVE  m + 1 \in S
  <2> HIDE DEF Iteration
  <2> SUFFICES ASSUME m + 1 =< n
               PROVE  \E h : Iteration(h, m + 1)
    OBVIOUS
  <2>1. PICK f : Iteration(f, m)
    <3>1. m =< n
      OBVIOUS
    <3> QED BY <1>2, <3>1
  <2> USE DEF Iteration
  <2> DEFINE last == step[<<f[m], m + 1>>]
             h == [i \in 0 .. (m + 1) |-> IF i = m + 1 THEN last ELSE f[i]]
  <2>2. last \in X
    <3>1. f[m] \in X /\ m + 1 \in 1 .. n
      BY <2>1
    <3> QED BY <3>1
  <2>3. f \in [0 .. m -> X] /\ f[0] = base /\ \A i \in 1 .. m : f[i] = step[<<f[i - 1], i>>]
    BY <2>1
  <2> HIDE DEF last
  <2>4. h \in [0 .. (m + 1) -> X]
    BY <2>2, <2>3
  <2>5. \A i \in 0 .. m : h[i] = f[i]
    OBVIOUS
  <2>6. h[m + 1] = step[<<h[m], m + 1>>]
    <3>1. h[m + 1] = last /\ h[m] = f[m]
      BY <2>5
    <3> QED BY <3>1 DEF last
  <2>7. h[0] = base
    BY <2>3, <2>5
  <2> HIDE DEF h
  <2>8. ASSUME NEW i \in 1 .. (m + 1)
        PROVE  h[i] = step[<<h[i - 1], i>>]
    <3>1. CASE i = m + 1
      BY <2>6, <3>1
    <3>2. CASE i # m + 1
      <4>1. i \in 1 .. m /\ i \in 0 .. m /\ i - 1 \in 0 .. m
        BY <3>2
      <4> QED BY <2>3, <2>5, <4>1
    <3> QED BY <3>1, <3>2
  <2>9. Iteration(h, m + 1)
    BY <2>4, <2>7, <2>8
  <2> QED BY <2>9
<1>3. \A m \in Nat : m \in S
  <2> HIDE DEF S
  <2> QED BY <1>1, <1>2, NatInductive
<1>4. \E f : Iteration(f, n)
  <2> HIDE DEF Iteration
  <2>1. n \in S
    BY <1>3
  <2>2. n =< n
    OBVIOUS
  <2> QED BY <2>1, <2>2
<1> QED BY <1>4 DEF IsIteration

\* Induction on the turns of such a function.
LEMMA TurnInductive ==
    ASSUME NEW n \in Nat, NEW S, 0 \in S,
           \A i \in 1 .. n : i - 1 \in S => i \in S
    PROVE  \A i \in 0 .. n : i \in S
<1> DEFINE F == {m \in Nat : m =< n => m \in S}
<1>1. 0 \in F
  OBVIOUS
<1>2. ASSUME NEW m \in Nat, m \in F
      PROVE  m + 1 \in F
  <2>1. (m + 1) - 1 = m
    OBVIOUS
  <2> SUFFICES ASSUME m + 1 =< n
               PROVE  m + 1 \in S
    OBVIOUS
  <2>2. m + 1 \in 1 .. n /\ m \in S
    BY <1>2
  <2> QED BY <2>1, <2>2
<1>3. \A m \in Nat : m \in F
  <2> HIDE DEF F
  <2> QED BY <1>1, <1>2, NatInductive
<1> QED BY <1>3

\* The visits of ggml_build_forward_expand stay among the tensors they start
\* from, and make a node of the tensor they start with.
LEMMA VisitParentsLead ==
    ASSUME NLayer \in Nat, NEW tensors,
           \A id \in Engine!TensorNames : tensors[id].src \in Seq(Engine!TensorNames)
    PROVE  /\ Engine!VisitParents(tensors) \in Visitor
           /\ \A C \in SUBSET Engine!TensorNames :
                (\A id \in C : Within(tensors[id].src, C)) =>
                \A id \in C : \A v \in Engine!Visited :
                   /\ Leads(tensors, C, v, Engine!VisitParents(tensors)[id][v])
                   /\ id \notin v.seen /\ tensors[id].op # "NONE" =>
                        id \in ToSet(Engine!VisitParents(tensors)[id][v].nodes)
<1> DEFINE n == Engine!Cardinality(Engine!TensorNames)
           none == [id \in Engine!TensorNames |-> [v \in Engine!Visited |-> v]]
           With(visit) == Engine!VisitWith(tensors, visit)
           step == [ci \in Visitor \X (1 .. n) |-> With(ci[1])]
           Body(f) == [depth \in 0 .. n |-> IF depth = 0 THEN none ELSE With(f[depth - 1])]
           calls == CHOOSE f : f = Body(f)
<1>1. n \in Nat \ {0}
  BY TensorNamesFinite
<1>2. Engine!VisitParents(tensors) = calls[n]
  BY DEF Engine!VisitParents
<1>3. none \in Visitor
  BY DEF Visitor
<1>4. \A visit \in Visitor : With(visit) \in Visitor
  BY VisitWithIs
<1> HIDE DEF n, none, With, calls
<1>5. step \in [Visitor \X (1 .. n) -> Visitor]
  BY <1>4
<1>6. PICK f : IsIteration(f, n, Visitor, none, step)
  <2> HIDE DEF step
  <2> QED BY <1>1, <1>3, <1>5, IterationExists
<1>7. f = Body(f)
  <2>1. f \in [0 .. n -> Visitor] /\ f[0] = none
    BY <1>6 DEF IsIteration
  <2>2. ASSUME NEW i \in 0 .. n, i # 0
        PROVE  f[i] = With(f[i - 1])
    <3>1. i \in 1 .. n /\ i - 1 \in 0 .. n
      BY <1>1, <2>2
    <3>2. f[i] = step[<<f[i - 1], i>>] /\ f[i - 1] \in Visitor
      BY <1>6, <2>1, <3>1 DEF IsIteration
    <3> QED BY <3>1, <3>2
  <2> QED BY <2>1, <2>2
<1> HIDE DEF Body
<1>8. calls = Body(calls)
  BY <1>7 DEF calls
<1>9. /\ calls[0] = none
      /\ \A i \in 1 .. n : calls[i] = With(calls[i - 1])
  BY <1>1, <1>8 DEF Body
<1>10. \A i \in 0 .. n : calls[i] \in Visitor
  <2> DEFINE S == {i \in 0 .. n : calls[i] \in Visitor}
  <2>1. 0 \in S
    BY <1>1, <1>3, <1>9
  <2>2. \A i \in 1 .. n : i - 1 \in S => i \in S
    BY <1>1, <1>4, <1>9
  <2> HIDE DEF S
  <2>3. \A i \in 0 .. n : i \in S
    BY <1>1, <2>1, <2>2, TurnInductive
  <2> QED BY <2>3 DEF S
<1>11. ASSUME NEW C \in SUBSET Engine!TensorNames,
              \A id \in C : Within(tensors[id].src, C)
       PROVE  \A i \in 0 .. n : \A id \in C : \A v \in Engine!Visited :
                 Leads(tensors, C, v, calls[i][id][v])
  <2> DEFINE S == {i \in 0 .. n : \A id \in C : \A v \in Engine!Visited :
                                    Leads(tensors, C, v, calls[i][id][v])}
  <2>1. 0 \in S
    <3>1. ASSUME NEW id \in C, NEW v \in Engine!Visited
          PROVE  Leads(tensors, C, v, calls[0][id][v])
      <4>1. calls[0][id][v] = v
        BY <1>9 DEF none
      <4> QED BY <4>1 DEF Leads
    <3> QED BY <1>1, <3>1
  <2>2. ASSUME NEW i \in 1 .. n, i - 1 \in S
        PROVE  i \in S
    <3>1. i - 1 \in 0 .. n
      BY <1>1
    <3> DEFINE visit == calls[i - 1]
    <3>2. visit \in Visitor
      BY <1>10, <3>1
    <3>3. calls[i] = Engine!VisitWith(tensors, visit)
      BY <1>9 DEF With
    <3>4. \A id \in C : \A v \in Engine!Visited : Leads(tensors, C, v, visit[id][v])
      BY <2>2
    <3> HIDE DEF visit
    <3>5. \A id \in C : \A v \in Engine!Visited : Leads(tensors, C, v, calls[i][id][v])
      BY <1>11, <3>2, <3>3, <3>4, VisitWithLeads
    <3> QED BY <1>1, <3>5
  <2> HIDE DEF S
  <2>3. \A i \in 0 .. n : i \in S
    BY <1>1, <2>1, <2>2, TurnInductive
  <2> QED BY <2>3 DEF S
<1>12. ASSUME NEW C \in SUBSET Engine!TensorNames,
              \A id \in C : Within(tensors[id].src, C),
              NEW id \in C, NEW v \in Engine!Visited
       PROVE  /\ Leads(tensors, C, v, calls[n][id][v])
              /\ id \notin v.seen /\ tensors[id].op # "NONE" =>
                    id \in ToSet(calls[n][id][v].nodes)
  <2>1. n \in 1 .. n /\ n - 1 \in 0 .. n
    BY <1>1
  <2> DEFINE visit == calls[n - 1]
  <2>2. visit \in Visitor
    BY <1>10, <2>1
  <2>3. calls[n] = Engine!VisitWith(tensors, visit)
    BY <1>9, <2>1 DEF With
  <2>4. \A i \in C : \A u \in Engine!Visited : Leads(tensors, C, u, visit[i][u])
    BY <1>11, <1>12, <2>1
  <2> HIDE DEF visit
  <2> QED BY <1>12, <2>2, <2>3, <2>4, VisitWithLeads
<1>13. calls[n] \in Visitor
  BY <1>1, <1>10
<1> QED BY <1>2, <1>12, <1>13

-----------------------------------------------------------------------------
(* The order of the nodes of a pass.                                       *)

\* What is known of the tensors of a pass.
PassTensors(tensors) ==
    /\ \A l \in 1 .. NLayer : \A name \in LayerNames : LayerTensor(l, name, tensors[<<l, name>>])
    /\ \A name \in OuterNames : OuterTensor(name, tensors[<<0, name>>])
    /\ \A id \in Engine!TensorNames : tensors[id].src \in Seq(Engine!TensorNames)

\* What the copies of layer l need, that of K first.
ForK(l) == Below(l) \cup ({l} \X (EarlyNames \cup {"k_cpy"}))
ForV(l) == Below(l) \cup ({l} \X (EarlyNames \cup CopyNames))

LEMMA NamesOf ==
    ASSUME NLayer \in Nat, NEW l \in 1 .. NLayer
    PROVE  /\ Engine!TensorNames = ({0} \X OuterNames) \cup ((1 .. NLayer) \X LayerNames)
           /\ EarlyNames \cup CopyNames \subseteq LayerNames
           /\ {<<0, "weight">>, <<0, "tokens">>, <<0, "pos">>, <<0, "mask">>, <<0, "embd">>}
                 \subseteq Engine!TensorNames
           /\ ForK(l) \subseteq Engine!TensorNames /\ ForV(l) \subseteq Engine!TensorNames
           /\ <<l, "k_cpy">> \in ForK(l) /\ <<l, "v_cpy">> \in ForV(l)
           /\ ForK(l) \subseteq ForV(l) /\ ForV(l) \subseteq Below(l + 1)
           /\ Below(l) \subseteq ForK(l)
<1>1. Engine!TensorNames = ({0} \X OuterNames) \cup ((1 .. NLayer) \X LayerNames)
  BY EngineTensors
<1>2. EarlyNames \cup CopyNames \subseteq LayerNames
  BY DEF EarlyNames, CopyNames, LayerNames
<1>3. {<<0, "weight">>, <<0, "tokens">>, <<0, "pos">>, <<0, "mask">>, <<0, "embd">>}
         \subseteq Engine!TensorNames
  <2>1. {"weight", "tokens", "pos", "mask", "embd"} \subseteq OuterNames
    BY DEF OuterNames
  <2> QED BY <1>1, <2>1
<1>4. "k_cpy" \in CopyNames /\ "v_cpy" \in CopyNames
  BY DEF CopyNames
<1>5. Below(l) \subseteq Engine!TensorNames
  <2>1. (1 .. l - 1) \X LayerNames \subseteq (1 .. NLayer) \X LayerNames
    OBVIOUS
  <2> QED BY <1>1, <1>3, <2>1 DEF Below
<1>6. ForV(l) \subseteq Engine!TensorNames
  <2>1. {l} \X (EarlyNames \cup CopyNames) \subseteq (1 .. NLayer) \X LayerNames
    BY <1>2
  <2> QED BY <1>1, <1>5, <2>1 DEF ForV
<1>7. ForK(l) \subseteq ForV(l) /\ Below(l) \subseteq ForK(l)
  BY <1>4 DEF ForK, ForV
<1>8. ForV(l) \subseteq Below(l + 1)
  <2>1. (l + 1) - 1 = l
    OBVIOUS
  <2>2. {l} \X (EarlyNames \cup CopyNames) \subseteq (1 .. l) \X LayerNames
    BY <1>2
  <2>3. (1 .. l - 1) \X LayerNames \subseteq (1 .. l) \X LayerNames
    OBVIOUS
  <2> QED BY <2>1, <2>2, <2>3 DEF ForV, Below
<1>9. <<l, "k_cpy">> \in ForK(l) /\ <<l, "v_cpy">> \in ForV(l)
  BY <1>4 DEF ForK, ForV
<1> QED BY <1>1, <1>2, <1>3, <1>6, <1>7, <1>8, <1>9

\* Nothing else is needed for them.
LEMMA CopiesClosed ==
    ASSUME NLayer \in Nat, NEW tensors, PassTensors(tensors), NEW l \in 1 .. NLayer
    PROVE  /\ \A id \in ForK(l) : Within(tensors[id].src, ForK(l))
           /\ \A id \in ForV(l) : Within(tensors[id].src, ForV(l))
<1>1. EarlyNames \cup CopyNames \subseteq LayerNames
  BY NamesOf
<1>2. ASSUME NEW id \in Below(l)
      PROVE  Within(tensors[id].src, Below(l))
  <2>1. CASE id \in (1 .. l - 1) \X LayerNames
    <3>1. PICK m \in 1 .. l - 1, name \in LayerNames : id = <<m, name>>
      BY <2>1
    <3>2. m \in 1 .. NLayer /\ 1 .. m - 1 \subseteq 1 .. l - 1
      OBVIOUS
    <3>3. Within(tensors[id].src, Below(m) \cup ({m} \X LayerNames))
      BY <3>1, <3>2 DEF PassTensors, LayerTensor
    <3>4. Below(m) \subseteq Below(l)
      <4>1. (1 .. m - 1) \X LayerNames \subseteq (1 .. l - 1) \X LayerNames
        BY <3>2
      <4> QED BY <4>1 DEF Below
    <3>5. {m} \X LayerNames \subseteq Below(l)
      <4>1. {m} \X LayerNames \subseteq (1 .. l - 1) \X LayerNames
        OBVIOUS
      <4> QED BY <4>1 DEF Below
    <3> QED BY <3>3, <3>4, <3>5 DEF Within
  <2>2. CASE id \notin (1 .. l - 1) \X LayerNames
    <3>1. PICK name \in {"weight", "tokens", "pos", "mask", "embd"} : id = <<0, name>>
      BY <2>2 DEF Below
    <3>2. name \in OuterNames /\ name \in OuterLeaves \cup {"embd"}
      BY DEF OuterNames, OuterLeaves
    <3>3. Within(tensors[id].src, {<<0, "weight">>, <<0, "tokens">>})
      BY <3>1, <3>2 DEF PassTensors, OuterTensor
    <3>4. {<<0, "weight">>, <<0, "tokens">>} \subseteq Below(l)
      BY DEF Below
    <3> QED BY <3>3, <3>4 DEF Within
  <2> QED BY <2>1, <2>2
<1>3. ASSUME NEW name \in EarlyNames \cup CopyNames
      PROVE  Within(tensors[<<l, name>>].src, Below(l) \cup ({l} \X EarlyNames))
  <2>1. name \in LayerNames
    BY <1>1
  <2> QED BY <2>1 DEF PassTensors, LayerTensor
<1>4. ASSUME NEW id \in ForK(l)
      PROVE  Within(tensors[id].src, ForK(l))
  <2>1. CASE id \in Below(l)
    BY <1>2, <2>1 DEF ForK, Within
  <2>2. CASE id \notin Below(l)
    <3>1. PICK name \in EarlyNames \cup {"k_cpy"} : id = <<l, name>>
      BY <2>2 DEF ForK
    <3>2. name \in EarlyNames \cup CopyNames
      BY DEF CopyNames
    <3> QED BY <1>3, <3>1, <3>2 DEF ForK, Within
  <2> QED BY <2>1, <2>2
<1>5. ASSUME NEW id \in ForV(l)
      PROVE  Within(tensors[id].src, ForV(l))
  <2>1. CASE id \in Below(l)
    BY <1>2, <2>1 DEF ForV, Within
  <2>2. CASE id \notin Below(l)
    <3>1. PICK name \in EarlyNames \cup CopyNames : id = <<l, name>>
      BY <2>2 DEF ForV
    <3> QED BY <1>3, <3>1 DEF ForV, Within
  <2> QED BY <2>1, <2>2
<1> QED BY <1>4, <1>5

\* The order ggml_build_forward_expand leaves the nodes in.
LEMMA EngineOrder ==
    ASSUME NLayer \in Nat, NEW tensors, PassTensors(tensors)
    PROVE  /\ Engine!NodesInOrder(tensors) \in Seq(Engine!TensorNames)
           /\ WritersFirst(Engine!NodesInOrder(tensors))
           /\ NoLeaves(tensors, Engine!NodesInOrder(tensors))
           /\ \A l \in 1 .. NLayer : {<<l, "k_cpy">>, <<l, "v_cpy">>}
                                        \subseteq ToSet(Engine!NodesInOrder(tensors))
<1> DEFINE visit == Engine!VisitParents(tensors)
           none == [seen |-> {}, nodes |-> <<>>]
           After(v, l) == visit[<<l, "v_cpy">>][visit[<<l, "k_cpy">>][v]]
           step == [ci \in Engine!Visited \X (1 .. NLayer) |-> After(ci[1], ci[2])]
           Body(f) == [l \in 0 .. NLayer |-> IF l = 0 THEN none ELSE After(f[l - 1], l)]
           copied == CHOOSE f : f = Body(f)
<1>1. Engine!NodesInOrder(tensors) = visit[<<0, "logits">>][copied[NLayer]].nodes
  BY DEF Engine!NodesInOrder
<1>2. \A id \in Engine!TensorNames : tensors[id].src \in Seq(Engine!TensorNames)
  BY DEF PassTensors
<1>3. /\ visit \in Visitor
      /\ \A C \in SUBSET Engine!TensorNames :
           (\A id \in C : Within(tensors[id].src, C)) =>
           \A id \in C : \A v \in Engine!Visited :
              /\ Leads(tensors, C, v, visit[id][v])
              /\ id \notin v.seen /\ tensors[id].op # "NONE" => id \in ToSet(visit[id][v].nodes)
  BY <1>2, VisitParentsLead
<1> HIDE DEF visit
<1>4. none \in Engine!Visited
  BY DEF Engine!Visited
<1>5. \A l \in 1 .. NLayer : <<l, "k_cpy">> \in Engine!TensorNames
        /\ <<l, "v_cpy">> \in Engine!TensorNames
  BY NamesOf
<1>6. ASSUME NEW l \in 1 .. NLayer, NEW v \in Engine!Visited
      PROVE  visit[<<l, "k_cpy">>][v] \in Engine!Visited /\ After(v, l) \in Engine!Visited
  BY <1>3, <1>5 DEF Visitor
<1>7. step \in [Engine!Visited \X (1 .. NLayer) -> Engine!Visited]
  <2> HIDE DEF After
  <2> QED BY <1>6
<1>8. PICK f : IsIteration(f, NLayer, Engine!Visited, none, step)
  <2> HIDE DEF step, none
  <2> QED BY <1>4, <1>7, IterationExists
<1> HIDE DEF After, none
<1>9. f = Body(f)
  <2>1. f \in [0 .. NLayer -> Engine!Visited] /\ f[0] = none
    BY <1>8 DEF IsIteration
  <2>2. ASSUME NEW i \in 0 .. NLayer, i # 0
        PROVE  f[i] = After(f[i - 1], i)
    <3>1. i \in 1 .. NLayer /\ i - 1 \in 0 .. NLayer
      BY <2>2
    <3>2. f[i] = step[<<f[i - 1], i>>] /\ f[i - 1] \in Engine!Visited
      BY <1>8, <2>1, <3>1 DEF IsIteration
    <3> QED BY <3>1, <3>2
  <2> QED BY <2>1, <2>2
<1> HIDE DEF Body, step
<1>10. copied = Body(copied)
  BY <1>9
<1> HIDE DEF copied
<1>11. copied[0] = none /\ \A i \in 1 .. NLayer : copied[i] = After(copied[i - 1], i)
  BY <1>10 DEF Body
\* Both copies of the layers so far are nodes, and nothing of the layers to come
\* was visited.
<1> DEFINE Copied(v, l) == \A m \in 1 .. l : {<<m, "k_cpy">>, <<m,
             "v_cpy">>} \subseteq ToSet(v.nodes)
           Good(v, l) == /\ v \in Engine!Visited
                         /\ v.seen \subseteq Below(l + 1)
                         /\ Copied(v, l)
                         /\ WritersFirst(v.nodes) /\ NoLeaves(tensors, v.nodes)
<1>12. Good(copied[0], 0)
  BY <1>4, <1>11 DEF none, WritersFirst, NoLeaves
<1>13. ASSUME NEW v, NEW l \in 1 .. NLayer, Good(v, l - 1)
       PROVE  Good(After(v, l), l)
  <2> DEFINE k == <<l, "k_cpy">>
             kk == <<l, "v_cpy">>
             w == visit[k][v]
             x == visit[kk][w]
  <2>1. x = After(v, l) /\ w \in Engine!Visited /\ x \in Engine!Visited
    BY <1>6, <1>13 DEF After
  <2>2. tensors[k].op # "NONE" /\ tensors[kk].op # "NONE"
    <3>1. "k_cpy" \in LayerNames /\ "v_cpy" \in LayerNames
      BY DEF LayerNames
    <3> QED BY <3>1 DEF PassTensors, LayerTensor
  <2>3. v.seen \subseteq Below(l)
    <3>1. (l - 1) + 1 = l
      OBVIOUS
    <3> QED BY <1>13, <3>1
  <2>4. /\ ForK(l) \in SUBSET Engine!TensorNames /\ ForV(l) \in SUBSET Engine!TensorNames
        /\ k \in ForK(l) /\ kk \in ForV(l)
        /\ ForK(l) \subseteq ForV(l) /\ ForV(l) \subseteq Below(l + 1)
             /\ Below(l) \subseteq ForK(l)
    BY NamesOf
  <2>5. ASSUME NEW id \in ForV(l), IsHistory(id)
        PROVE  /\ id[1] \in 1 .. l - 1
               /\ Writer(id) = <<id[1], "k_cpy">> \/ Writer(id) = <<id[1], "v_cpy">>
    BY <2>5 DEF ForV, Below, IsHistory, Writer, EarlyNames, CopyNames
  <2>6. Ready(v, ForV(l)) /\ Ready(v, ForK(l))
    BY <1>13, <2>4, <2>5 DEF Ready
  <2>7. k \notin Below(l) /\ kk \notin ForK(l)
    BY DEF Below, ForK, EarlyNames
  <2> HIDE DEF k, kk
  <2>8. /\ Leads(tensors, ForK(l), v, w)
        /\ k \notin v.seen /\ tensors[k].op # "NONE" => k \in ToSet(w.nodes)
    BY <1>3, <1>13, <2>4, CopiesClosed
  <2>9. /\ Leads(tensors, ForV(l), w, x)
        /\ kk \notin w.seen /\ tensors[kk].op # "NONE" => kk \in ToSet(x.nodes)
    BY <1>3, <2>1, <2>4, CopiesClosed
  <2> HIDE DEF w, x
  <2>10. /\ w.seen \subseteq ForK(l) /\ ToSet(v.nodes) \subseteq ToSet(w.nodes)
         /\ k \in ToSet(w.nodes) /\ WritersFirst(w.nodes) /\ NoLeaves(tensors, w.nodes)
    BY <1>13, <2>2, <2>3, <2>4, <2>6, <2>7, <2>8 DEF Leads
  <2>11. Ready(w, ForV(l))
    BY <2>6, <2>10 DEF Ready
  <2>12. /\ x.seen \subseteq Below(l + 1) /\ ToSet(w.nodes) \subseteq ToSet(x.nodes)
         /\ kk \in ToSet(x.nodes) /\ WritersFirst(x.nodes) /\ NoLeaves(tensors, x.nodes)
    BY <2>2, <2>4, <2>7, <2>9, <2>10, <2>11 DEF Leads
  <2>13. Copied(x, l)
    <3>1. ASSUME NEW m \in 1 .. l
          PROVE  {<<m, "k_cpy">>, <<m, "v_cpy">>} \subseteq ToSet(x.nodes)
      <4>1. CASE m = l
        BY <2>10, <2>12, <4>1 DEF k, kk
      <4>2. CASE m # l
        <5>1. m \in 1 .. l - 1
          BY <4>2
        <5> QED BY <1>13, <2>10, <2>12, <5>1
      <4> QED BY <4>1, <4>2
    <3> QED BY <3>1
  <2> QED BY <2>1, <2>12, <2>13
<1>14. \A i \in 0 .. NLayer : Good(copied[i], i)
  <2> DEFINE S == {i \in 0 .. NLayer : Good(copied[i], i)}
  <2>1. 0 \in S
    BY <1>12
  <2>2. ASSUME NEW i \in 1 .. NLayer, i - 1 \in S
        PROVE  i \in S
    <3>1. Good(copied[i - 1], i - 1)
      BY <2>2
    <3> HIDE DEF Good
    <3>2. Good(After(copied[i - 1], i), i)
      BY <1>13, <3>1
    <3> QED BY <1>11, <3>2
  <2> HIDE DEF S
  <2>3. \A i \in 0 .. NLayer : i \in S
    BY <2>1, <2>2, TurnInductive
  <2> QED BY <2>3 DEF S
<1>15. Good(copied[NLayer], NLayer)
  <2> HIDE DEF Good
  <2> QED BY <1>14
<1> DEFINE last == copied[NLayer]
           w == visit[<<0, "logits">>][last]
<1>16. /\ Engine!TensorNames = ({0} \X OuterNames) \cup ((1 .. NLayer) \X LayerNames)
       /\ <<0, "logits">> \in Engine!TensorNames
  <2>1. "logits" \in OuterNames
    BY DEF OuterNames
  <2> QED BY <2>1, EngineTensors
<1>17. \A id \in Engine!TensorNames : Within(tensors[id].src, Engine!TensorNames)
  BY <1>2 DEF Within
<1>18. Leads(tensors, Engine!TensorNames, last, w) /\ w \in Engine!Visited
  <2>1. last \in Engine!Visited
    BY <1>15
  <2> HIDE DEF last
  <2> QED BY Zenon, <1>3, <1>16, <1>17, <2>1 DEF Visitor
<1>19. Ready(last, Engine!TensorNames)
  <2>1. ASSUME NEW id \in Engine!TensorNames, IsHistory(id)
        PROVE  /\ id[1] \in 1 .. NLayer
               /\ Writer(id) = <<id[1], "k_cpy">> \/ Writer(id) = <<id[1], "v_cpy">>
    BY <1>16, <2>1 DEF IsHistory, Writer, OuterNames
  <2> QED BY <1>15, <2>1 DEF Ready
<1> HIDE DEF w
<1>20. WritersFirst(w.nodes) /\ NoLeaves(tensors, w.nodes) /\ Copied(w, NLayer)
  BY <1>15, <1>18, <1>19 DEF Leads
<1>21. w.nodes \in Seq(Engine!TensorNames)
  BY <1>18 DEF Engine!Visited
<1>22. Engine!NodesInOrder(tensors) = w.nodes
  BY <1>1 DEF w
<1> QED BY <1>20, <1>21, <1>22

-----------------------------------------------------------------------------
(* The reads and the writes of the cache in a graph.                       *)

\* A graph the engine builds, and one that nothing outside it is read through.
IsForwardGraph(g) ==
    \E n \in Nat \ {0}, head \in Nat, bias \in BOOLEAN : g = Engine!ForwardGraph(n, head, bias)
ViewsNothingExternal(g) ==
    \A t \in DOMAIN g.tensor :
        g.tensor[t].view_src # NoTensor => ~g.tensor[g.tensor[t].view_src].external

\* The nodes of g that write into the memory of r.
MemoryOf(g, t) == IF g.tensor[t].view_src # NoTensor THEN g.tensor[t].view_src ELSE t
Describes(g, t) == g.tensor[t].op \in {"VIEW", "RESHAPE", "PERMUTE"}
WritersOf(g, r) == {t \in ToSet(g.nodes) : MemoryOf(g, t) = r /\ ~Describes(g, t)}

\* Node k of g reads the external tensor r only after it was written.
ReadsWritten(g, k, r) ==
    g.nodes[k] \notin WritersOf(g, r) =>
        /\ WritersOf(g, r) # {}
        /\ \A t \in WritersOf(g, r) : \E j \in 1 .. k - 1 : g.nodes[j] = t

\* What a graph must be like for the history to be written when it is read.
HistoryFirst(g) ==
    \A k \in DOMAIN g.nodes : ~Describes(g, g.nodes[k]) =>
        \A i \in DOMAIN g.tensor[g.nodes[k]].src :
            LET r == g.tensor[g.tensor[g.nodes[k]].src[i]].view_src IN
            r # NoTensor /\ g.tensor[r].external => ReadsWritten(g, k, r)

\* The cache of layer l, its views and the copies into it.
CacheTensors(tensors, l) ==
    /\ tensors[<<l, "kv_k">>].op = "NONE" /\ tensors[<<l, "kv_v">>].op = "NONE"
    /\ tensors[<<l, "k_write">>].op = "VIEW" /\ tensors[<<l, "v_write">>].op = "VIEW"
    /\ tensors[<<l, "k_read">>].op = "VIEW" /\ tensors[<<l, "v_read">>].op = "VIEW"
    /\ tensors[<<l, "k_cpy">>].op = "CPY" /\ tensors[<<l, "v_cpy">>].op = "CPY"
    /\ tensors[<<l, "k_cpy">>].src = <<<<l, "k_flat">>, <<l, "k_write">>>>
    /\ tensors[<<l, "v_cpy">>].src = <<<<l, "v_flat">>, <<l, "v_write">>>>
    /\ Engine!ViewSrc(tensors, <<l, "k_write">>) = <<l, "kv_k">>
    /\ Engine!ViewSrc(tensors, <<l, "k_read">>) = <<l, "kv_k">>
    /\ Engine!ViewSrc(tensors, <<l, "k_cpy">>) = <<l, "kv_k">>
    /\ Engine!ViewSrc(tensors, <<l, "v_write">>) = <<l, "kv_v">>
    /\ Engine!ViewSrc(tensors, <<l, "v_read">>) = <<l, "kv_v">>
    /\ Engine!ViewSrc(tensors, <<l, "v_cpy">>) = <<l, "kv_v">>

LEMMA LayerNodes ==
    ASSUME NLayer \in Nat, NEW tensors, PassTensors(tensors),
           NEW l \in 1 .. NLayer
    PROVE  CacheTensors(tensors, l)
<1>1. \A name \in LayerNames : LayerTensor(l, name, tensors[<<l, name>>])
  BY DEF PassTensors
<1>2. CacheNames \subseteq LayerNames
  BY DEF CacheNames, LayerNames
<1>4. /\ ~tensors[<<l, "kv_k">>].view /\ ~tensors[<<l, "kv_v">>].view
      /\ tensors[<<l, "kv_k">>].op = "NONE" /\ tensors[<<l, "kv_v">>].op = "NONE"
      /\ tensors[<<l, "k_write">>].view /\ tensors[<<l, "k_write">>].op = "VIEW"
      /\ tensors[<<l, "k_write">>].src = <<<<l, "kv_k">>>>
      /\ tensors[<<l, "k_read">>].view /\ tensors[<<l, "k_read">>].op = "VIEW"
      /\ tensors[<<l, "k_read">>].src = <<<<l, "kv_k">>>>
      /\ tensors[<<l, "v_write">>].view /\ tensors[<<l, "v_write">>].op = "VIEW"
      /\ tensors[<<l, "v_write">>].src = <<<<l, "kv_v">>>>
      /\ tensors[<<l, "v_read">>].view /\ tensors[<<l, "v_read">>].op = "VIEW"
      /\ tensors[<<l, "v_read">>].src = <<<<l, "kv_v">>>>
      /\ tensors[<<l, "k_cpy">>].view /\ tensors[<<l, "k_cpy">>].op = "CPY"
      /\ tensors[<<l, "k_cpy">>].src = <<<<l, "k_flat">>, <<l, "k_write">>>>
      /\ tensors[<<l, "v_cpy">>].view /\ tensors[<<l, "v_cpy">>].op = "CPY"
      /\ tensors[<<l, "v_cpy">>].src = <<<<l, "v_flat">>, <<l, "v_write">>>>
  <2>1. {"kv_k", "kv_v", "k_write", "v_write", "k_read", "v_read", "k_cpy",
          "v_cpy"} \subseteq LayerNames
    BY <1>2 DEF CacheNames
  <2> QED BY <1>1, <2>1 DEF LayerTensor
<1>5. /\ Engine!Last(tensors[<<l, "k_write">>].src) = <<l, "kv_k">>
      /\ Engine!Last(tensors[<<l, "k_read">>].src) = <<l, "kv_k">>
      /\ Engine!Last(tensors[<<l, "v_write">>].src) = <<l, "kv_v">>
      /\ Engine!Last(tensors[<<l, "v_read">>].src) = <<l, "kv_v">>
      /\ Engine!Last(tensors[<<l, "k_cpy">>].src) = <<l, "k_write">>
      /\ Engine!Last(tensors[<<l, "v_cpy">>].src) = <<l, "v_write">>
  BY <1>4 DEF Engine!Last
<1>6. /\ Engine!ViewSrc(tensors, <<l, "k_write">>) = <<l, "kv_k">>
      /\ Engine!ViewSrc(tensors, <<l, "k_read">>) = <<l, "kv_k">>
      /\ Engine!ViewSrc(tensors, <<l, "v_write">>) = <<l, "kv_v">>
      /\ Engine!ViewSrc(tensors, <<l, "v_read">>) = <<l, "kv_v">>
      /\ Engine!ViewSrc(tensors, <<l, "k_cpy">>) = <<l, "kv_k">>
      /\ Engine!ViewSrc(tensors, <<l, "v_cpy">>) = <<l, "kv_v">>
  BY <1>4, <1>5 DEF Engine!ViewSrc
<1> QED BY <1>4, <1>6 DEF CacheTensors

\* What is no part of the cache views none of its tensors, and reads them only
\* as the two histories do.
PlainTensor(tensors, id) ==
    /\ Engine!ViewSrc(tensors, id) # NoTensor =>
          tensors[Engine!ViewSrc(tensors, id)].op # "NONE"
    /\ IsHistory(id) => /\ id[1] \in 1 .. NLayer
                        /\ tensors[id].src =
                             <<<<id[1], IF id[2] = "k_hist" THEN "k_read" ELSE "v_read">>>>
    /\ ~IsHistory(id) => \A i \in DOMAIN tensors[id].src : tensors[id].src[i][2] \notin CacheNames

LEMMA OtherNodes ==
    ASSUME NLayer \in Nat, NEW tensors, PassTensors(tensors),
           NEW id \in Engine!TensorNames, id[2] \notin CacheNames
    PROVE  PlainTensor(tensors, id)
<1>1. Engine!TensorNames = ({0} \X OuterNames) \cup ((1 .. NLayer) \X LayerNames)
  BY EngineTensors
<1> DEFINE Plain(t) == t \in Engine!TensorNames /\ t[2] \notin CacheNames
           Of1(t) == tensors[t].src[1]
<1>2. ASSUME NEW t, Plain(t)
      PROVE  /\ t[2] \notin OuterLeaves => tensors[t].op # "NONE"
             /\ tensors[t].view => Len(tensors[t].src) = 1
                  /\ Of1(t)[2] \notin CacheNames \cup OuterLeaves
             /\ IsHistory(t) => /\ t[1] \in 1 .. NLayer
                                /\ tensors[t].src =
                                    <<<<t[1], IF t[2] = "k_hist" THEN "k_read" ELSE "v_read">>>>
             /\ ~IsHistory(t) => \A i \in DOMAIN tensors[t].src
                  : tensors[t].src[i][2] \notin CacheNames
  <2>1. CASE t \in {0} \X OuterNames
    <3>1. PICK name \in OuterNames : t = <<0, name>>
      BY <2>1
    <3>2. OuterTensor(name, tensors[t]) /\ t[2] = name
      BY <3>1 DEF PassTensors
    <3>3. tensors[t].src \in Seq(Engine!TensorNames)
      BY <1>2 DEF PassTensors
    <3>4. ~IsHistory(t)
      BY <3>2 DEF IsHistory, OuterNames
    <3>5. tensors[t].view => Len(tensors[t].src) = 1 /\ Of1(t)[2] \notin OuterLeaves
      BY <3>2 DEF OuterTensor
    <3>6. \A i \in DOMAIN tensors[t].src : tensors[t].src[i][2] \notin CacheNames
      BY <3>2 DEF OuterTensor
    <3>7. tensors[t].view => 1 \in DOMAIN tensors[t].src
      BY <3>3, <3>5
    <3>8. t[2] \notin OuterLeaves => tensors[t].op # "NONE"
      BY <3>2 DEF OuterTensor
    <3> QED BY <3>4, <3>5, <3>6, <3>7, <3>8
  <2>2. CASE t \in (1 .. NLayer) \X LayerNames
    <3>1. PICK l \in 1 .. NLayer, name \in LayerNames : t = <<l, name>>
      BY <2>2
    <3>2. LayerTensor(l, name, tensors[t]) /\ name \notin CacheNames /\ t[1] = l /\ t[2] = name
      BY <1>2, <3>1 DEF PassTensors
    <3>3. tensors[t].src \in Seq(Engine!TensorNames)
      BY <1>2 DEF PassTensors
    <3>4. tensors[t].op # "NONE"
      BY <3>2 DEF LayerTensor, CacheNames
    <3>5. tensors[t].view => /\ Len(tensors[t].src) = 1 /\ Of1(t)[2] \notin OuterLeaves
                             /\ name \notin {"k_hist", "v_hist"}
      BY <3>2 DEF LayerTensor
    <3>6. name \notin {"k_hist", "v_hist"} =>
             \A i \in DOMAIN tensors[t].src : tensors[t].src[i][2] \notin CacheNames
      BY <3>2 DEF LayerTensor
    <3>7. tensors[t].view => 1 \in DOMAIN tensors[t].src
      BY <3>3, <3>5
    <3>8. /\ name = "k_hist" => tensors[t].src = <<<<l, "k_read">>>>
          /\ name = "v_hist" => tensors[t].src = <<<<l, "v_read">>>>
      BY <3>2 DEF LayerTensor
    <3> QED BY <3>2, <3>4, <3>5, <3>6, <3>7, <3>8 DEF IsHistory
  <2> QED BY <1>1, <1>2, <2>1, <2>2
<1>3. ASSUME NEW t, Plain(t), tensors[t].view
      PROVE  /\ Engine!Last(tensors[t].src) = Of1(t)
             /\ Plain(Of1(t)) /\ tensors[Of1(t)].op # "NONE"
  <2>1. tensors[t].src \in Seq(Engine!TensorNames)
    BY <1>3 DEF PassTensors
  <2>2. Len(tensors[t].src) = 1 /\ Of1(t)[2] \notin CacheNames \cup OuterLeaves
    BY <1>2, <1>3
  <2>3. Of1(t) \in Engine!TensorNames
    BY <2>1, <2>2
  <2>4. tensors[Of1(t)].op # "NONE"
    BY <1>2, <2>2, <2>3
  <2> QED BY <2>2, <2>3, <2>4 DEF Engine!Last
<1>4. ASSUME Engine!ViewSrc(tensors, id) # NoTensor
      PROVE  tensors[Engine!ViewSrc(tensors, id)].op # "NONE"
  <2> DEFINE one == Of1(id)
  <2>1. tensors[id].view /\ Plain(id)
    BY <1>4 DEF Engine!ViewSrc
  <2>2. /\ Engine!Last(tensors[id].src) = one /\ Plain(one) /\ tensors[one].op # "NONE"
    BY <1>3, <2>1
  <2> HIDE DEF one
  <2>3. CASE tensors[one].view
    <3>1. Engine!Last(tensors[one].src) = Of1(one) /\ tensors[Of1(one)].op # "NONE"
      BY <1>3, <2>2, <2>3
    <3> QED BY <2>1, <2>2, <2>3, <3>1 DEF Engine!ViewSrc
  <2>4. CASE ~tensors[one].view
    BY <2>1, <2>2, <2>4 DEF Engine!ViewSrc
  <2> QED BY <2>3, <2>4
<1> QED BY <1>2, <1>4 DEF PlainTensor

\* g is the graph of these tensors.
GraphOfPass(g, tensors) ==
    /\ PassTensors(tensors)
    /\ g.nodes = Engine!NodesInOrder(tensors)
    /\ DOMAIN g.tensor = Engine!TensorNames
    /\ \A id \in Engine!TensorNames :
          /\ g.tensor[id].op = tensors[id].op
          /\ g.tensor[id].src = tensors[id].src
          /\ g.tensor[id].view_src = Engine!ViewSrc(tensors, id)
          /\ g.tensor[id].external <=> tensors[id].op = "NONE"
    /\ NoTensor \notin Engine!TensorNames

LEMMA ForwardGraphFacts ==
    ASSUME NLayer \in Nat, NEW g \in Graphs, NEW n, NEW head, NEW bias,
           g = Engine!ForwardGraph(n, head, bias), NEW tensors, tensors = Engine!Tensors(n,
             head, bias)
    PROVE  GraphOfPass(g, tensors)
<1> DEFINE Size(ne) == Engine!FoldLeft(LAMBDA a, b : a * b, 1, ne)
           D(id) == [op |-> tensors[id].op, src |-> tensors[id].src,
                     view_src |-> Engine!ViewSrc(tensors, id), ne |-> tensors[id].ne,
                     size |-> Size(tensors[id].ne),
                     external |-> tensors[id].op = "NONE",
                     output |-> id = <<0, "logits">>]
<1>1. g = [nodes |-> Engine!NodesInOrder(tensors),
           tensor |-> [id \in Engine!TensorNames |-> D(id)]]
  BY Zenon DEF Engine!ForwardGraph
<1> HIDE DEF Size
<1>2. \A id \in Engine!TensorNames :
         /\ D(id).op = tensors[id].op
         /\ D(id).src = tensors[id].src
         /\ D(id).view_src = Engine!ViewSrc(tensors, id)
         /\ D(id).external <=> tensors[id].op = "NONE"
  OBVIOUS
<1> HIDE DEF D
<1>3. /\ g.nodes = Engine!NodesInOrder(tensors)
      /\ DOMAIN g.tensor = Engine!TensorNames
      /\ \A id \in Engine!TensorNames : g.tensor[id] = D(id)
  BY <1>1
<1>4. /\ \A id \in DOMAIN g.tensor : g.tensor[id].src \in Seq(DOMAIN g.tensor)
      /\ NoTensor \notin DOMAIN g.tensor
  BY GraphAllocAssumption DEF Wellformed
<1>5. \A id \in Engine!TensorNames : tensors[id].src \in Seq(Engine!TensorNames)
  BY <1>2, <1>3, <1>4
<1>6. PassTensors(tensors)
  BY <1>5, EngineTensors DEF PassTensors
<1> QED BY <1>2, <1>3, <1>4, <1>6 DEF GraphOfPass

\* Only its copy writes into the cache.
LEMMA CacheWriters ==
    ASSUME NLayer \in Nat, NEW tensors, PassTensors(tensors),
           NoTensor \notin Engine!TensorNames,
           NEW t \in Engine!TensorNames, tensors[t].op \notin {"NONE", "VIEW"},
           NEW l \in 1 .. NLayer, NEW kv \in {"kv_k", "kv_v"},
           (IF Engine!ViewSrc(tensors, t) # NoTensor THEN Engine!ViewSrc(tensors,
             t) ELSE t) = <<l, kv>>
    PROVE  t = <<l, IF kv = "kv_k" THEN "k_cpy" ELSE "v_cpy">>
<1>1. Engine!TensorNames = ({0} \X OuterNames) \cup ((1 .. NLayer) \X LayerNames)
  BY EngineTensors
<1>2. tensors[<<l, kv>>].op = "NONE"
  <2>1. CacheTensors(tensors, l)
    BY LayerNodes
  <2> QED BY <2>1 DEF CacheTensors
<1>3. CASE t[2] \notin CacheNames
  <2>1. kv \in CacheNames
    BY DEF CacheNames
  <2>2. CASE Engine!ViewSrc(tensors, t) # NoTensor
    <3>1. PlainTensor(tensors, t)
      BY <1>3, OtherNodes
    <3> QED BY <1>2, <2>2, <3>1 DEF PlainTensor
  <2>3. CASE Engine!ViewSrc(tensors, t) = NoTensor
    BY <1>3, <2>1, <2>3
  <2> QED BY <2>2, <2>3
<1>4. CASE t[2] \in CacheNames
  <2>1. PICK m \in 1 .. NLayer, name \in CacheNames : t = <<m, name>>
    <3>1. t \notin {0} \X OuterNames
      BY <1>4 DEF CacheNames, OuterNames
    <3> QED BY <1>1, <1>4, <3>1
  <2>2. CacheTensors(tensors, m)
    BY LayerNodes
  <2>3. name \in {"k_cpy", "v_cpy"}
    BY <2>1, <2>2 DEF CacheNames, CacheTensors
  <2>4. /\ Engine!ViewSrc(tensors, <<m, "k_cpy">>) = <<m, "kv_k">>
        /\ Engine!ViewSrc(tensors, <<m, "v_cpy">>) = <<m, "kv_v">>
    BY <2>2 DEF CacheTensors
  <2>5. <<m, "kv_k">> \in Engine!TensorNames /\ <<m, "kv_v">> \in Engine!TensorNames
    <3>1. "kv_k" \in LayerNames /\ "kv_v" \in LayerNames
      BY DEF LayerNames
    <3> QED BY <1>1, <3>1
  <2> QED BY <2>1, <2>3, <2>4, <2>5
<1> QED BY <1>3, <1>4

\* What is known of an element of a sequence, and of what comes before it.
LEMMA PlaceInSeq ==
    ASSUME NEW T, NEW s \in Seq(T), NEW n \in DOMAIN s
    PROVE  s[n] \in T /\ s[n] \in ToSet(s) /\ n \in 1 .. Len(s)
<1>1. s[n] \in ToSet(s)
  BY DEF ToSet
<1>2. s[n] \in T /\ n \in 1 .. Len(s)
  OBVIOUS
<1> QED BY <1>1, <1>2

LEMMA PlaceOfMember ==
    ASSUME NEW T, NEW s \in Seq(T), NEW t \in ToSet(s)
    PROVE  t \in T /\ \E j \in DOMAIN s : t = s[j]
<1>1. PICK j \in DOMAIN s : t = s[j]
  BY DEF ToSet
<1>2. s[j] \in T
  OBVIOUS
<1> QED BY <1>1, <1>2

LEMMA PlaceBefore ==
    ASSUME NEW T, NEW s \in Seq(T), NEW n \in DOMAIN s, NEW j \in 1 .. n - 1
    PROVE  j \in DOMAIN s
OBVIOUS

\* A node of such a graph reads the cache only after it was written.
LEMMA ForwardReads ==
    ASSUME NLayer \in Nat, NEW g \in Graphs, NEW tensors, GraphOfPass(g, tensors),
           NEW k \in DOMAIN g.nodes, NEW x, x = g.nodes[k], ~Describes(g, x),
           NEW i \in DOMAIN tensors[x].src, NEW p, p = tensors[x].src[i],
           NEW r, r = g.tensor[p].view_src, r # NoTensor, g.tensor[r].external
    PROVE  ReadsWritten(g, k, r)
<1>1. /\ PassTensors(tensors)
      /\ DOMAIN g.tensor = Engine!TensorNames
      /\ \A id \in Engine!TensorNames :
            /\ g.tensor[id].op = tensors[id].op
            /\ g.tensor[id].view_src = Engine!ViewSrc(tensors, id)
            /\ g.tensor[id].external <=> tensors[id].op = "NONE"
      /\ NoTensor \notin Engine!TensorNames
  BY DEF GraphOfPass
<1>2. /\ g.nodes \in Seq(Engine!TensorNames)
      /\ WritersFirst(g.nodes)
      /\ NoLeaves(tensors, g.nodes)
  BY EngineOrder DEF GraphOfPass
<1>3. Engine!TensorNames = ({0} \X OuterNames) \cup ((1 .. NLayer) \X LayerNames)
  BY Zenon, EngineTensors
<1>4. x \in Engine!TensorNames /\ x \in ToSet(g.nodes) /\ tensors[x].op # "NONE"
  <2>1. g.nodes[k] \in Engine!TensorNames /\ g.nodes[k] \in ToSet(g.nodes)
        /\ k \in 1 .. Len(g.nodes)
    BY Zenon, <1>2, PlaceInSeq
  <2>2. tensors[g.nodes[k]].op # "NONE"
    BY ONLY <1>2, <2>1 DEF NoLeaves
  <2> QED BY Zenon, <2>1, <2>2
<1>5. p \in Engine!TensorNames /\ r = Engine!ViewSrc(tensors, p)
  <2>1. tensors[x].src \in Seq(Engine!TensorNames)
    BY Zenon, <1>1, <1>4 DEF PassTensors
  <2>2. p \in Engine!TensorNames
    BY Zenon, <2>1, PlaceInSeq
  <2> QED BY Zenon, <1>1, <2>2
<1>6. tensors[x].op # "VIEW"
  BY Zenon, <1>1, <1>4 DEF Describes
<1>7. CASE x \in WritersOf(g, r)
  BY Zenon, <1>7 DEF ReadsWritten
<1>8. ASSUME p[2] \notin CacheNames
      PROVE  FALSE
  <2>1. PlainTensor(tensors, p)
    BY <1>1, <1>5, <1>8, OtherNodes
  <2>2. tensors[r].op # "NONE"
    BY Zenon, <1>5, <2>1 DEF PlainTensor
  <2>3. r \in DOMAIN g.tensor
    <3>1. p \in DOMAIN g.tensor
      BY <1>1, <1>5
    <3> QED BY Zenon, <3>1, GraphAllocAssumption DEF Wellformed
  <2> QED BY Zenon, <1>1, <2>2, <2>3
<1>9. CASE x[2] \notin CacheNames
  <2>0. PlainTensor(tensors, x)
    BY Zenon, <1>1, <1>4, <1>9, OtherNodes
  <2>1. IsHistory(x)
    BY Zenon, <1>5, <1>8, <2>0 DEF PlainTensor
  <2> DEFINE l == x[1]
             read == IF x[2] = "k_hist" THEN "k_read" ELSE "v_read"
             kv == IF x[2] = "k_hist" THEN "kv_k" ELSE "kv_v"
             cpy == IF x[2] = "k_hist" THEN "k_cpy" ELSE "v_cpy"
  <2>2. l \in 1 .. NLayer /\ tensors[x].src = <<<<l, read>>>>
    BY Zenon, <2>0, <2>1 DEF PlainTensor
  <2>3. p = <<l, read>>
    BY <1>5, <2>2
  <2>4. CacheTensors(tensors, l)
    BY <1>1, <2>2, LayerNodes
  <2>5. r = <<l, kv>> /\ Writer(x) = <<l, cpy>>
        /\ tensors[<<l, cpy>>].op = "CPY" /\ Engine!ViewSrc(tensors, <<l, cpy>>) = <<l, kv>>
    BY Zenon, <1>5, <2>3, <2>4 DEF CacheTensors, Writer
  <2>6. kv \in {"kv_k", "kv_v"} /\ cpy = IF kv = "kv_k" THEN "k_cpy" ELSE "v_cpy"
    BY Zenon
  <2>7. PICK j \in 1 .. k - 1 : g.nodes[j] = Writer(x)
    BY Zenon, <1>2, <2>1 DEF WritersFirst
  <2> HIDE DEF l, read, kv, cpy
  <2>8. ASSUME NEW t \in WritersOf(g, r)
        PROVE  t = Writer(x)
    <3>1. t \in Engine!TensorNames /\ tensors[t].op # "NONE" /\ MemoryOf(g, t) = r
            /\ ~Describes(g, t)
      <4>1. t \in ToSet(g.nodes) /\ MemoryOf(g, t) = r /\ ~Describes(g, t)
        BY Zenon, <2>8 DEF WritersOf
      <4>2. PICK m \in DOMAIN g.nodes : t = g.nodes[m]
        BY ONLY <4>1 DEF ToSet
      <4>3. t \in Engine!TensorNames
        BY Zenon, <1>2, <4>1, PlaceOfMember
      <4>4. tensors[g.nodes[m]].op # "NONE"
        BY ONLY <1>2, m \in DOMAIN g.nodes DEF NoLeaves
      <4> QED BY Zenon, <4>1, <4>2, <4>3, <4>4
    <3>2. tensors[t].op # "VIEW"
      BY Zenon, <1>1, <3>1 DEF Describes
    <3>3. (IF Engine!ViewSrc(tensors, t) # NoTensor THEN Engine!ViewSrc(tensors,
            t) ELSE t) = <<l, kv>>
      BY <1>1, <2>5, <3>1 DEF MemoryOf
    <3>4. t = <<l, IF kv = "kv_k" THEN "k_cpy" ELSE "v_cpy">>
      BY <1>1, <2>2, <2>6, <3>1, <3>2, <3>3, CacheWriters
    <3> QED BY <2>5, <2>6, <3>4
  <2>9. Writer(x) \in WritersOf(g, r)
    <3>1. Writer(x) \in ToSet(g.nodes) /\ Writer(x) \in Engine!TensorNames
      <4>1. j \in DOMAIN g.nodes
        BY Zenon, <1>2, PlaceBefore
      <4>2. g.nodes[j] \in ToSet(g.nodes) /\ g.nodes[j] \in Engine!TensorNames
        BY Zenon, <1>2, <4>1, PlaceInSeq
      <4> QED BY Zenon, <2>7, <4>2
    <3>2. <<l, kv>> # NoTensor
      BY <1>6, <2>5
    <3>3. MemoryOf(g, Writer(x)) = r /\ ~Describes(g, Writer(x))
      BY <1>1, <2>5, <3>1, <3>2 DEF MemoryOf, Describes
    <3> QED BY Zenon, <3>1, <3>3 DEF WritersOf
  <2> QED BY Zenon, <2>7, <2>8, <2>9 DEF ReadsWritten
<1>10. CASE x[2] \in CacheNames
  <2>1. PICK l \in 1 .. NLayer, name \in CacheNames : x = <<l, name>>
    <3>1. x \notin {0} \X OuterNames
      BY Zenon, <1>10 DEF CacheNames, OuterNames
    <3>2. x \in (1 .. NLayer) \X LayerNames
      BY ONLY <1>3, <1>4, <3>1
    <3>3. PICK l \in 1 .. NLayer, name \in LayerNames : x = <<l, name>>
      BY ONLY <3>2
    <3> QED BY ONLY <1>10, <3>3
  <2>2. CacheTensors(tensors, l)
    BY Zenon, <1>1, LayerNodes
  <2>3. name \in {"k_cpy", "v_cpy"}
    BY <1>4, <1>6, <2>1, <2>2 DEF CacheNames, CacheTensors
  <2>4. /\ x = <<l, "k_cpy">> => p = <<l, "k_flat">> \/ p = <<l, "k_write">>
        /\ x = <<l, "v_cpy">> => p = <<l, "v_flat">> \/ p = <<l, "v_write">>
    <3>1. CASE x = <<l, "k_cpy">>
      <4>1. tensors[x].src = <<<<l, "k_flat">>, <<l, "k_write">>>>
        BY <2>2, <3>1 DEF CacheTensors
      <4>2. i \in {1, 2}
        BY <1>5, <4>1
      <4> QED BY <1>5, <3>1, <4>1, <4>2
    <3>2. CASE x = <<l, "v_cpy">>
      <4>1. tensors[x].src = <<<<l, "v_flat">>, <<l, "v_write">>>>
        BY <2>2, <3>2 DEF CacheTensors
      <4>2. i \in {1, 2}
        BY <1>5, <4>1
      <4> QED BY <1>5, <3>2, <4>1, <4>2
    <3> QED BY Zenon, <3>1, <3>2
  <2>5. /\ x = <<l, "k_cpy">> => p = <<l, "k_write">>
        /\ x = <<l, "v_cpy">> => p = <<l, "v_write">>
    <3>1. <<l, "k_flat">>[2] \notin CacheNames /\ <<l, "v_flat">>[2] \notin CacheNames
      BY Zenon DEF CacheNames
    <3>2. p # <<l, "k_flat">> /\ p # <<l, "v_flat">>
      BY ONLY <1>8, <3>1
    <3> QED BY ONLY <2>4, <3>2
  <2>6. r = Engine!ViewSrc(tensors, x)
    BY <1>5, <2>1, <2>2, <2>3, <2>5 DEF CacheTensors
  <2>7. MemoryOf(g, x) = r
    BY <1>1, <1>4, <1>6, <2>6 DEF MemoryOf
  <2>8. x \in WritersOf(g, r)
    BY Zenon, <1>4, <2>7 DEF WritersOf
  <2> QED BY Zenon, <1>7, <2>8
<1> QED BY Zenon, <1>9, <1>10

LEMMA ForwardHistoryFirst ==
    ASSUME NLayer \in Nat, NEW g \in Graphs, IsForwardGraph(g)
    PROVE  HistoryFirst(g)
<1> PICK n \in Nat \ {0}, head \in Nat, bias \in BOOLEAN : g = Engine!ForwardGraph(n, head, bias)
  BY DEF IsForwardGraph
<1> DEFINE tensors == Engine!Tensors(n, head, bias)
<1>1. GraphOfPass(g, tensors)
  BY ForwardGraphFacts
<1> HIDE DEF tensors
<1>2. g.nodes \in Seq(Engine!TensorNames)
  BY <1>1, EngineOrder DEF GraphOfPass
<1>3. ASSUME NEW k \in DOMAIN g.nodes, ~Describes(g, g.nodes[k]),
             NEW i \in DOMAIN g.tensor[g.nodes[k]].src,
             NEW r, r = g.tensor[g.tensor[g.nodes[k]].src[i]].view_src,
             r # NoTensor, g.tensor[r].external
      PROVE  ReadsWritten(g, k, r)
  <2> DEFINE x == g.nodes[k]
             p == tensors[x].src[i]
  <2>1. x \in Engine!TensorNames
    BY <1>2
  <2>2. g.tensor[x].src = tensors[x].src
    BY <1>1, <2>1 DEF GraphOfPass
  <2>3. r = g.tensor[p].view_src /\ i \in DOMAIN tensors[x].src /\ ~Describes(g, x)
          /\ x = g.nodes[k]
    BY Zenon, <1>3, <2>2
  <2> HIDE DEF x
  <2>4. p = tensors[x].src[i]
    OBVIOUS
  <2> HIDE DEF p
  <2> QED BY Zenon, <1>1, <1>3, <2>3, <2>4, ForwardReads
<1> QED BY Zenon, <1>3 DEF HistoryFirst

-----------------------------------------------------------------------------
(* A history is written when it is read.                                   *)

LEMMA NothingExternalFirst ==
    ASSUME NEW g \in Graphs, ViewsNothingExternal(g)
    PROVE  HistoryFirst(g)
<1>1. /\ g.nodes \in Seq(DOMAIN g.tensor)
      /\ \A t \in DOMAIN g.tensor : g.tensor[t].src \in Seq(DOMAIN g.tensor)
  BY GraphAllocAssumption DEF Wellformed
<1>2. ASSUME NEW k \in DOMAIN g.nodes, NEW i \in DOMAIN g.tensor[g.nodes[k]].src
      PROVE  g.tensor[g.nodes[k]].src[i] \in DOMAIN g.tensor
  <2>1. g.nodes[k] \in DOMAIN g.tensor
    BY <1>1, PlaceInSeq
  <2>2. g.tensor[g.nodes[k]].src \in Seq(DOMAIN g.tensor)
    BY <1>1, <2>1
  <2> QED BY <2>2, PlaceInSeq
<1> QED BY Zenon, <1>2 DEF HistoryFirst, ViewsNothingExternal

\* The nodes computed so far that write into external memory have been written.
WInv ==
    /\ GInv
    /\ phase = "compute" =>
          \A j \in 1 .. next - 1 :
              External(graph.nodes[j]) /\ ~OnlyDescribes(graph.nodes[j])
                  => graph.nodes[j] \in written

LEMMA ComputeWrites == WInv /\ Compute => WInv'
<1> SUFFICES ASSUME WInv, Compute
             PROVE  WInv'
  OBVIOUS
<1>1. /\ GInv /\ GInv' /\ phase = "compute" /\ Proceed("done") /\ graph' = graph
      /\ written' = IF External(graph.nodes[next]) /\ ~OnlyDescribes(graph.nodes[next])
                    THEN written \cup {graph.nodes[next]} ELSE written
  BY ComputeStep DEF WInv, Compute, This
<1>2. next \in Nat
  BY <1>1, GraphFacts DEF GInv
<1>3. ASSUME phase' = "compute", NEW j \in 1 .. next' - 1,
             External(graph.nodes[j]), ~OnlyDescribes(graph.nodes[j])
      PROVE  graph.nodes[j] \in written'
  <2>1. next' = next + 1
    BY <1>1, <1>3 DEF Proceed
  <2>2. j = next \/ j \in 1 .. next - 1
    BY <1>2, <2>1
  <2>3. CASE j = next
    BY <1>1, <1>3, <2>3
  <2>4. CASE j \in 1 .. next - 1
    BY <1>1, <1>3, <2>4 DEF WInv
  <2> QED BY <2>2, <2>3, <2>4
<1>4. \A t : (External(t))' = External(t) /\ (OnlyDescribes(t))' = OnlyDescribes(t)
  BY <1>1 DEF External, OnlyDescribes, Root, IsView, Of
<1> QED BY <1>1, <1>3, <1>4 DEF WInv

LEMMA WritesInvariant == Spec => []WInv
<1>1. Init => WInv
  BY GraphInit DEF Init, WInv
<1>2. WInv /\ UNCHANGED vars => WInv'
  <2>1. GInv /\ UNCHANGED vars => GInv'
    BY DEF GInv, State, Counters, Node, vars
  <2> QED BY <2>1 DEF WInv, vars, External, OnlyDescribes, Root, IsView, Of
<1>3. WInv /\ CountReaders => WInv'
  <2>1. CountReaders => phase = "count" /\ Proceed("alloc")
    BY Zenon DEF CountReaders
  <2>2. CountReaders => phase' # "compute"
    BY <2>1 DEF Proceed
  <2> QED BY <2>2, CountReadersStep DEF WInv
<1>4. WInv /\ Place => WInv'
  <2> SUFFICES ASSUME WInv, Place
               PROVE  WInv'
    OBVIOUS
  <2>1. GInv'
    BY PlaceStep DEF WInv
  <2>2. phase' = "compute" => 1 .. next' - 1 = {}
    <3>1. phase = "alloc" /\ (phase' = "aborted" \/ Proceed("compute"))
      BY DEF Place
    <3>2. phase' = "compute" => next' = 1
      BY <3>1 DEF Proceed
    <3> QED BY <3>2
  <2> QED BY <2>1, <2>2 DEF WInv
<1>5. WInv /\ [Next]_vars => WInv'
  BY <1>2, <1>3, <1>4, ComputeWrites DEF Next
<1> QED BY <1>1, <1>5, PTL DEF Spec

\* A node that reads a part of the KV cache is computed after every node that
\* writes into it, and there is one: the order ggml_build_forward_expand leaves
\* the nodes in, for every number of layers, batch, position and head, with
\* biases or without (LlamaGraph::forward).  The pass may also be over any graph
\* that has no view of memory outside the buffer.
THEOREM HistoryIsWritten ==
    ASSUME NLayer \in Nat,
           \A g \in Graphs : IsForwardGraph(g) \/ ViewsNothingExternal(g)
    PROVE  Spec => []HistoryWritten
<1>1. ASSUME WInv
      PROVE  HistoryWritten
  <2>1. graph \in Graphs /\ next \in DOMAIN graph.nodes
    BY <1>1 DEF WInv, GInv
  <2>2. HistoryFirst(graph)
    BY <2>1, ForwardHistoryFirst, NothingExternalFirst
  <2>3. \A r : {t \in Node : Root(t) = r /\ ~OnlyDescribes(t)} = WritersOf(graph, r)
    BY DEF Node, Root, IsView, Of, OnlyDescribes, WritersOf, MemoryOf, Describes
  <2>4. ASSUME phase = "compute", ~OnlyDescribes(This), NEW i \in DOMAIN Of(This).src,
               NEW p, p = Of(This).src[i], IsView(p), External(p),
               This \notin WritersOf(graph, Root(p))
        PROVE  WritersOf(graph, Root(p)) # {} /\ WritersOf(graph, Root(p)) \subseteq written
    <3> DEFINE r == Root(p)
    <3>1. r = graph.tensor[p].view_src /\ r # NoTensor /\ graph.tensor[r].external
      <4>1. r = graph.tensor[p].view_src /\ r # NoTensor
        BY <2>4 DEF Root, IsView, Of
      <4>2. graph.tensor[r].external
        BY <2>4 DEF External, Of
      <4> QED BY <4>1, <4>2
    <3>2. /\ ~Describes(graph, graph.nodes[next])
               /\ i \in DOMAIN graph.tensor[graph.nodes[next]].src
          /\ p = graph.tensor[graph.nodes[next]].src[i]
          /\ graph.nodes[next] \notin WritersOf(graph, r)
      BY <2>4 DEF OnlyDescribes, Describes, Of, This
    <3> HIDE DEF r
    <3>3. ReadsWritten(graph, next, r)
      BY Zenon, <2>1, <2>2, <3>1, <3>2 DEF HistoryFirst
    <3>4. /\ WritersOf(graph, r) # {}
          /\ \A t \in WritersOf(graph, r) : \E j \in 1 .. next - 1 : graph.nodes[j] = t
      BY <3>2, <3>3 DEF ReadsWritten
    <3>5. \A t \in WritersOf(graph, r) : External(t) /\ ~OnlyDescribes(t)
      BY <2>3, <3>1 DEF External, Of
    <3>6. \A t \in WritersOf(graph, r) : t \in written
      BY <1>1, <2>4, <3>4, <3>5 DEF WInv
    <3> QED BY <3>4, <3>6 DEF r
  <2> QED BY <2>3, <2>4 DEF HistoryWritten
<1> QED BY <1>1, WritesInvariant, PTL
=============================================================================
