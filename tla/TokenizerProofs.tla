-------------------------- MODULE TokenizerProofs --------------------------
(***************************************************************************)
(* Theorems about Tokenizer.tla, for every vocabulary, every list of merge *)
(* rules and every text.                                                   *)
(*                                                                         *)
(* The argument: a spelling is cut into characters in one way only, so a   *)
(* slice of whole characters that starts at a boundary ends at one         *)
(* (WholeSlice), and the longest match is such a slice: the one entry that *)
(* is not whole, a raw byte, is shorter than the character it begins       *)
(* (LongestIsWhole). Every token the matching or a merge appends is        *)
(* therefore legible: it was looked up by the spelling of some bytes, and  *)
(* decode gives those bytes (LegibleBytes). The invariant TInv says that   *)
(* the tokens together spell a prefix of the text that ends at pos, and    *)
(* that no two neighbours spell an entry the matching would have           *)
(* preferred. Segmented adds where each of them stands, and that no longer *)
(* entry that is looked up stands there.                                   *)
(*                                                                         *)
(* The library's induction theorems are not used: sums over a list of      *)
(* tokens go through the partial results of FlattenSeq's fold (FlattenBy,  *)
(* Parts) and the least counterexample (NatInductive).                     *)
(***************************************************************************)
EXTENDS Tokenizer, SequenceTheorems, FiniteSetTheorems, TLAPS

-----------------------------------------------------------------------------
(* Numbers.                                                                *)

LEMMA LeastExists ==
    ASSUME NEW S, S \subseteq Nat, S # {}
    PROVE  \E x \in S : \A y \in S : x =< y
<1> DEFINE R == {ss \in Nat \X Nat : ss[1] < ss[2]}
<1>1. IsWellFoundedOn(R, Nat)
  BY NatLessThanWellFounded DEF OpToRel
<1>2. PICK x \in S : \A y \in S : ~(<<y, x>> \in R)
  <2> HIDE DEF R
  <2> QED BY <1>1, WFMin
<1>3. ASSUME NEW y \in S
      PROVE  x =< y
  <2>1. <<y, x>> \in Nat \X Nat /\ <<y, x>> \notin R
    BY <1>2
  <2>2. ~(y < x)
    BY <2>1
  <2>3. x \in Nat /\ y \in Nat
    OBVIOUS
  <2> QED BY <2>2, <2>3
<1> QED BY <1>3

LEMMA MinIsMember ==
    ASSUME NEW S, S \subseteq Nat, S # {}
    PROVE  Min(S) \in S
BY LeastExists DEF Min

LEMMA MaxIsMember ==
    ASSUME NEW n \in Nat, NEW S, S \subseteq 0 .. n, S # {}
    PROVE  Max(S) \in S /\ \A y \in S : Max(S) >= y
<1> DEFINE D == {n - x : x \in S}
<1>1. D \subseteq Nat /\ D # {}
  <2>1. \A x \in S : n - x \in Nat
    OBVIOUS
  <2> QED BY <2>1
<1>2. PICK d \in D : \A e \in D : d =< e
  BY <1>1, LeastExists
<1>3. PICK x \in S : d = n - x
  OBVIOUS
<1>4. \A y \in S : x >= y
  <2> SUFFICES ASSUME NEW y \in S
               PROVE  x >= y
    OBVIOUS
  <2>1. d =< n - y
    BY <1>2
  <2> QED BY <1>3, <2>1
<1> QED BY <1>4 DEF Max

LEMMA NatInductive ==
    ASSUME NEW S, 0 \in S, \A n \in Nat : n \in S => n + 1 \in S
    PROVE  \A n \in Nat : n \in S
<1> DEFINE Rest == {n \in Nat : n \notin S}
<1> SUFFICES ASSUME Rest # {}
             PROVE  FALSE
  OBVIOUS
<1>1. PICK x \in Rest : \A y \in Rest : x =< y
  BY LeastExists
<1>2. x \in Nat /\ x \notin S /\ x # 0
  OBVIOUS
<1>3. x - 1 \in Nat /\ ~(x =< x - 1) /\ (x - 1) + 1 = x
  BY <1>2
<1> QED BY <1>1, <1>2, <1>3

-----------------------------------------------------------------------------
(* FlattenSeq.                                                             *)

\* Any list of the partial concatenations ends with the flattened sequence.
LEMMA FlattenBy ==
    ASSUME NEW S, NEW s \in Seq(Seq(S)), NEW f, f[0] = <<>>,
           \A i \in 1 .. Len(s) : f[i] = f[i - 1] \o s[i]
    PROVE  FlattenSeq(s) = f[Len(s)]
<1> DEFINE n == Len(s)
           Step(g, i) == IF i = 1 THEN s[i] ELSE g[i - 1] \o s[i]
           Solves(g) == g = [i \in 1 .. n |-> Step(g, i)]
           flatten == CHOOSE g : Solves(g)
<1>1. n \in Nat /\ \A i \in 1 .. n : s[i] \in Seq(S)
  OBVIOUS
<1>2. CASE n = 0
  <2>1. s = <<>>
    BY <1>2
  <2> QED BY <1>2, <2>1 DEF FlattenSeq
<1>3. CASE n # 0
  <2>1. FlattenSeq(s) = flatten[n]
    BY <1>3 DEF FlattenSeq
  <2>2. \E g : Solves(g)
    <3> DEFINE g == [i \in 1 .. n |-> f[i]]
    <3>1. ASSUME NEW i \in 1 .. n
          PROVE  g[i] = Step(g, i)
      <4>1. CASE i = 1
        <5>1. s[1] \in Seq(S)
          BY <1>1, <4>1
        <5>2. <<>> \o s[1] = s[1]
          BY <5>1, ConcatEmptySeq
        <5>3. f[1] = s[1]
          BY <4>1, <5>2, 1 - 1 = 0
        <5> QED BY <4>1, <5>3
      <4>2. CASE i # 1
        <5>1. i - 1 \in 1 .. n
          BY <1>1, <4>2
        <5> QED BY <4>2, <5>1
      <4> QED BY <4>1, <4>2
    <3>2. Solves(g)
      <4> DEFINE P(i) == Step(g, i)
      <4>1. \A i \in 1 .. n : g[i] = P(i)
        BY <3>1
      <4> HIDE DEF P, n
      <4>2. g = [i \in 1 .. n |-> P(i)]
        BY <4>1
      <4> QED BY <4>2 DEF P
    <3> HIDE DEF g, Solves
    <3> QED BY <3>2
  <2>3. Solves(flatten)
    <3> HIDE DEF Solves
    <3> QED BY <2>2
  <2> HIDE DEF flatten
  <2>4. \A i \in 1 .. n : flatten[i] = Step(flatten, i)
    <3> DEFINE P(i) == Step(flatten, i)
    <3>1. flatten = [i \in 1 .. n |-> P(i)]
      BY <2>3
    <3> HIDE DEF P, n
    <3>2. \A i \in 1 .. n : flatten[i] = P(i)
      BY <3>1
    <3> QED BY <3>2 DEF P
  <2> DEFINE T == {i \in Nat : i \in 1 .. n => flatten[i] = f[i]}
  <2>5. 0 \in T
    BY <1>1
  <2>6. ASSUME NEW i \in Nat, i \in T
        PROVE  i + 1 \in T
    <3> SUFFICES ASSUME i + 1 \in 1 .. n
                 PROVE  flatten[i + 1] = f[i + 1]
      OBVIOUS
    <3>1. f[i + 1] = f[i] \o s[i + 1]
      <4>1. (i + 1) - 1 = i
        OBVIOUS
      <4> QED BY <4>1
    <3>2. CASE i = 0
      <4>1. flatten[1] = s[1]
        BY <2>4, <3>2
      <4>2. s[1] \in Seq(S)
        BY <1>1, <3>2
      <4>3. <<>> \o s[1] = s[1]
        BY <4>2, ConcatEmptySeq
      <4>4. f[1] = f[0] \o s[1]
        <5>1. 1 \in 1 .. n /\ 1 - 1 = 0
          BY <1>1, <3>2
        <5> QED BY ONLY <5>1, \A j \in 1 .. n : f[j] = f[j - 1] \o s[j]
      <4>5. f[1] = s[1]
        BY <4>3, <4>4
      <4> QED BY <3>2, <4>1, <4>5
    <3>3. CASE i # 0
      <4>1. i \in 1 .. n /\ (i + 1) - 1 = i /\ i + 1 # 1
        BY <3>3, <1>1
      <4>2. flatten[i] = f[i]
        BY <2>6, <4>1
      <4>3. flatten[i + 1] = flatten[i] \o s[i + 1]
        BY <2>4, <4>1
      <4> QED BY <3>1, <4>2, <4>3
    <3> QED BY <3>2, <3>3
  <2>7. \A i \in Nat : i \in T
    <3> HIDE DEF T
    <3> QED BY <2>5, <2>6, NatInductive
  <2>8. n \in 1 .. n
    BY <1>1, <1>3
  <2> QED BY <1>1, <2>1, <2>7, <2>8
<1> QED BY <1>2, <1>3

\* The partial concatenations of the first n members exist.
Parts(f, s, n, S) ==
    /\ f \in [0 .. n -> Seq(S)]
    /\ f[0] = <<>>
    /\ \A i \in 1 .. n : f[i] = f[i - 1] \o s[i]

LEMMA PartsExtend ==
    ASSUME NEW S, NEW s, NEW n \in Nat, NEW f, Parts(f, s, n, S),
           s[n + 1] \in Seq(S)
    PROVE  \E g : Parts(g, s, n + 1, S)
<1>1. f[n] \in Seq(S)
  BY DEF Parts
<1> DEFINE x == f[n] \o s[n + 1]
           g == [i \in 0 .. (n + 1) |-> IF i = n + 1 THEN x ELSE f[i]]
<1>2. x \in Seq(S)
  BY <1>1, ConcatProperties
<1> HIDE DEF x
<1>3. \A i \in 0 .. n : f[i] \in Seq(S)
  BY DEF Parts
<1>4. g \in [0 .. (n + 1) -> Seq(S)]
  BY <1>2, <1>3
<1>5. g[n + 1] = x
  OBVIOUS
<1>6. \A i \in 0 .. n : g[i] = f[i]
  OBVIOUS
<1> HIDE DEF g
<1>7. g[0] = <<>>
  BY <1>6 DEF Parts
<1>8. ASSUME NEW i \in 1 .. (n + 1)
      PROVE  g[i] = g[i - 1] \o s[i]
  <2>1. i - 1 \in 0 .. n
    OBVIOUS
  <2>2. g[i - 1] = f[i - 1]
    BY <1>6, <2>1
  <2>3. CASE i = n + 1
    <3>1. i - 1 = n
      BY <2>3
    <3> QED BY <1>5, <2>2, <2>3, <3>1 DEF x
  <2>4. CASE i # n + 1
    <3>1. i \in 1 .. n /\ i \in 0 .. n
      BY <2>4
    <3>2. f[i] = f[i - 1] \o s[i]
      BY <3>1 DEF Parts
    <3> QED BY <1>6, <2>2, <3>1, <3>2
  <2> QED BY <2>3, <2>4
<1> QED BY <1>4, <1>7, <1>8 DEF Parts

LEMMA PartsExist ==
    ASSUME NEW S, NEW s \in Seq(Seq(S))
    PROVE  \E f : Parts(f, s, Len(s), S) /\ FlattenSeq(s) = f[Len(s)]
<1> DEFINE T == {n \in Nat : n =< Len(s) => \E f : Parts(f, s, n, S)}
<1>l. Len(s) \in Nat
  OBVIOUS
<1>1. 0 \in T
  <2> DEFINE f == [i \in 0 .. 0 |-> <<>>]
  <2>1. <<>> \in Seq(S)
    OBVIOUS
  <2>2. f \in [0 .. 0 -> Seq(S)] /\ f[0] = <<>>
    BY <2>1
  <2> HIDE DEF f
  <2>3. Parts(f, s, 0, S)
    BY <2>2 DEF Parts
  <2> QED BY <2>3
<1>2. ASSUME NEW n \in Nat, n \in T
      PROVE  n + 1 \in T
  <2> SUFFICES ASSUME n + 1 =< Len(s)
               PROVE  \E f : Parts(f, s, n + 1, S)
    OBVIOUS
  <2>1. n =< Len(s) /\ n + 1 \in 1 .. Len(s)
    BY <1>l
  <2>2. PICK f : Parts(f, s, n, S)
    BY <1>2, <2>1
  <2>3. s[n + 1] \in Seq(S)
    BY <2>1, ElementOfSeq
  <2> QED BY <2>2, <2>3, PartsExtend
<1>3. \A n \in Nat : n \in T
  <2> HIDE DEF T
  <2> QED BY <1>1, <1>2, NatInductive
<1>4. PICK f : Parts(f, s, Len(s), S)
  <2>1. Len(s) \in T
    BY <1>3, <1>l
  <2> QED BY <1>l, <2>1
<1>5. FlattenSeq(s) = f[Len(s)]
  BY <1>4, FlattenBy DEF Parts
<1> QED BY <1>4, <1>5

LEMMA FlattenParts ==
    ASSUME NEW S, NEW s \in Seq(Seq(S))
    PROVE  \E f \in [0 .. Len(s) -> Seq(S)] :
               /\ f[0] = <<>>
               /\ \A i \in 1 .. Len(s) : f[i] = f[i - 1] \o s[i]
               /\ FlattenSeq(s) = f[Len(s)]
BY PartsExist DEF Parts

LEMMA FlattenType ==
    ASSUME NEW S, NEW s \in Seq(Seq(S))
    PROVE  FlattenSeq(s) \in Seq(S)
<1>1. Len(s) \in 0 .. Len(s)
  <2>1. Len(s) \in Nat
    OBVIOUS
  <2> QED BY <2>1
<1>2. PICK f \in [0 .. Len(s) -> Seq(S)] : FlattenSeq(s) = f[Len(s)]
  BY FlattenParts
<1> QED BY <1>1, <1>2

LEMMA FlattenEmpty == FlattenSeq(<<>>) = <<>>
BY DEF FlattenSeq

LEMMA FlattenOne ==
    ASSUME NEW S, NEW x \in Seq(S)
    PROVE  FlattenSeq(<<x>>) = x
<1>1. <<x>> \in Seq(Seq(S)) /\ Len(<<x>>) = 1 /\ <<x>>[1] = x
  OBVIOUS
<1>2. PICK f \in [0 .. Len(<<x>>) -> Seq(S)] :
          /\ f[0] = <<>>
          /\ \A i \in 1 .. Len(<<x>>) : f[i] = f[i - 1] \o <<x>>[i]
          /\ FlattenSeq(<<x>>) = f[Len(<<x>>)]
  BY ONLY <1>1, FlattenParts
<1>3. 1 \in 1 .. Len(<<x>>) /\ 1 - 1 = 0
  BY <1>1
<1>4. f[1] = <<>> \o x
  BY <1>1, <1>2, <1>3
<1> QED BY <1>1, <1>2, <1>4, ConcatEmptySeq

LEMMA FlattenConcat ==
    ASSUME NEW S, NEW s \in Seq(Seq(S)), NEW t \in Seq(Seq(S))
    PROVE  FlattenSeq(s \o t) = FlattenSeq(s) \o FlattenSeq(t)
<1> DEFINE m == Len(s)
           n == Len(t)
<1>1. PICK f \in [0 .. m -> Seq(S)] :
          /\ f[0] = <<>>
          /\ \A i \in 1 .. m : f[i] = f[i - 1] \o s[i]
          /\ FlattenSeq(s) = f[m]
  BY FlattenParts
<1>2. PICK g \in [0 .. n -> Seq(S)] :
          /\ g[0] = <<>>
          /\ \A i \in 1 .. n : g[i] = g[i - 1] \o t[i]
          /\ FlattenSeq(t) = g[n]
  BY FlattenParts
<1>3. /\ s \o t \in Seq(Seq(S))
      /\ Len(s \o t) = m + n
      /\ \A i \in 1 .. m + n : (s \o t)[i] = IF i =< m THEN s[i] ELSE t[i - m]
  BY ConcatProperties
<1>4. m \in Nat /\ n \in Nat /\ f[m] \in Seq(S)
  <2>1. m \in Nat /\ n \in Nat
    OBVIOUS
  <2>2. m \in 0 .. m
    BY <2>1
  <2> QED BY <1>1, <2>1, <2>2
<1>t. \A i \in 1 .. n : t[i] \in Seq(S)
  OBVIOUS
<1> HIDE DEF m, n
<1> DEFINE h == [i \in 0 .. m + n |->
                    IF i =< m THEN f[i] ELSE f[m] \o g[i - m]]
<1>5. \A i \in 0 .. m : h[i] = f[i]
  BY <1>4
<1>6. \A i \in m .. m + n : h[i] = f[m] \o g[i - m]
  <2> SUFFICES ASSUME NEW i \in m .. m + n
               PROVE  h[i] = f[m] \o g[i - m]
    OBVIOUS
  <2>1. CASE i = m
    <3>1. i - m = 0 /\ f[m] \o <<>> = f[m]
      <4> DEFINE y == f[m]
      <4>1. i - m = 0 /\ y \in Seq(S)
        BY <1>4, <2>1
      <4> HIDE DEF y
      <4>2. y \o <<>> = y
        BY ONLY <4>1, ConcatEmptySeq
      <4> QED BY <4>1, <4>2 DEF y
    <3> QED BY <1>2, <1>4, <1>5, <2>1, <3>1
  <2>2. CASE i # m
    <3>1. i \in 0 .. m + n /\ ~(i =< m)
      BY <1>4, <2>2
    <3> QED BY <3>1
  <2> QED BY <2>1, <2>2
<1> HIDE DEF h
<1>7. ASSUME NEW i \in 1 .. m + n
      PROVE  h[i] = h[i - 1] \o (s \o t)[i]
  <2>1. CASE i =< m
    <3>1. i \in 1 .. m /\ i \in 0 .. m /\ i - 1 \in 0 .. m
      BY <1>4, <2>1
    <3>2. (s \o t)[i] = s[i]
      BY <1>3, <2>1
    <3> QED BY <1>1, <1>5, <3>1, <3>2
  <2>2. CASE ~(i =< m)
    <3>1. /\ i \in m .. m + n /\ i - 1 \in m .. m + n
          /\ i - m \in 1 .. n /\ (i - m) - 1 \in 0 .. n
          /\ (i - 1) - m = (i - m) - 1
      BY <1>4, <2>2
    <3>2. (s \o t)[i] = t[i - m]
      BY <1>3, <2>2
    <3>3. g[i - m] = g[(i - m) - 1] \o t[i - m]
      BY <1>2, <3>1
    <3>4. g[(i - m) - 1] \in Seq(S) /\ t[i - m] \in Seq(S)
      BY <1>2, <1>t, <3>1
    <3>5. h[i - 1] = f[m] \o g[(i - m) - 1]
      BY <1>6, <3>1
    <3>6. h[i] = f[m] \o (g[(i - m) - 1] \o t[i - m])
      BY <1>6, <3>1, <3>3
    <3>7. h[i] = (f[m] \o g[(i - m) - 1]) \o t[i - m]
      <4> DEFINE u == f[m]
                 v == g[(i - m) - 1]
                 w == t[i - m]
      <4>1. u \in Seq(S) /\ v \in Seq(S) /\ w \in Seq(S)
        BY <1>4, <3>4
      <4>2. h[i] = u \o (v \o w)
        BY <3>6
      <4> HIDE DEF u, v, w
      <4>3. (u \o v) \o w = u \o (v \o w)
        BY ONLY <4>1, ConcatAssociative, SMTT(40)
      <4> QED BY <4>2, <4>3 DEF u, v, w
    <3> QED BY <3>2, <3>5, <3>7
  <2> QED BY <2>1, <2>2
<1>8. h[0] = <<>>
  BY <1>1, <1>4, <1>5
<1>9. FlattenSeq(s \o t) = h[m + n]
  <2>1. \A i \in 1 .. Len(s \o t) : h[i] = h[i - 1] \o (s \o t)[i]
    BY <1>3, <1>7
  <2> QED BY <1>3, <1>8, <2>1, FlattenBy
<1>10. m + n \in m .. m + n /\ (m + n) - m = n
  BY <1>4
<1> QED BY <1>1, <1>2, <1>6, <1>9, <1>10

\* What f gives for each member of s, one after the other: Gpt2, Decode and
\* the spelling of a list of tokens are of this form.
Maps(f, D, R) == f \in [D -> R]
Each(f, s) == [i \in DOMAIN s |-> f[s[i]]]
Cat(f, s) == FlattenSeq(Each(f, s))

LEMMA EachFacts ==
    ASSUME NEW D, NEW R, NEW f, Maps(f, D, R), NEW s \in Seq(D)
    PROVE  /\ Each(f, s) \in Seq(R)
           /\ Len(Each(f, s)) = Len(s)
           /\ \A i \in 1 .. Len(s) : Each(f, s)[i] = f[s[i]]
<1>1. \A i \in 1 .. Len(s) : f[s[i]] \in R
  BY DEF Maps
<1>2. Len(s) \in Nat /\ DOMAIN s = 1 .. Len(s)
  OBVIOUS
<1> QED BY <1>1, <1>2 DEF Each

LEMMA EachConcat ==
    ASSUME NEW D, NEW R, NEW f, Maps(f, D, R), NEW s \in Seq(D), NEW t \in Seq(D)
    PROVE  Each(f, s \o t) = Each(f, s) \o Each(f, t)
<1>1. /\ s \o t \in Seq(D)
      /\ Len(s \o t) = Len(s) + Len(t)
      /\ \A i \in 1 .. Len(s) + Len(t) :
             (s \o t)[i] = IF i =< Len(s) THEN s[i] ELSE t[i - Len(s)]
  BY ConcatProperties
<1> DEFINE u == Each(f, s)
           v == Each(f, t)
           w == Each(f, s \o t)
<1>2. /\ u \in Seq(R) /\ Len(u) = Len(s) /\ \A i \in 1 .. Len(s) : u[i] = f[s[i]]
      /\ v \in Seq(R) /\ Len(v) = Len(t) /\ \A i \in 1 .. Len(t) : v[i] = f[t[i]]
  <2>1. /\ Each(f, s) \in Seq(R)
        /\ Len(Each(f, s)) = Len(s)
        /\ \A i \in 1 .. Len(s) : Each(f, s)[i] = f[s[i]]
    BY EachFacts
  <2>2. /\ Each(f, t) \in Seq(R)
        /\ Len(Each(f, t)) = Len(t)
        /\ \A i \in 1 .. Len(t) : Each(f, t)[i] = f[t[i]]
    BY EachFacts
  <2> QED BY <2>1, <2>2
<1>3. /\ w \in Seq(R) /\ Len(w) = Len(s \o t)
      /\ \A i \in 1 .. Len(s \o t) : w[i] = f[(s \o t)[i]]
  <2> DEFINE z == s \o t
  <2>1. z \in Seq(D)
    BY <1>1
  <2> HIDE DEF z
  <2>2. /\ Each(f, z) \in Seq(R)
        /\ Len(Each(f, z)) = Len(z)
        /\ \A i \in 1 .. Len(z) : Each(f, z)[i] = f[z[i]]
    BY <2>1, EachFacts
  <2> QED BY <2>2 DEF z
<1>4. Len(s) \in Nat /\ Len(t) \in Nat
  OBVIOUS
<1> HIDE DEF u, v, w
<1>5. /\ u \o v \in Seq(R)
      /\ Len(u \o v) = Len(u) + Len(v)
      /\ \A i \in 1 .. Len(u) + Len(v) :
             (u \o v)[i] = IF i =< Len(u) THEN u[i] ELSE v[i - Len(u)]
  <2>1. u \in Seq(R) /\ v \in Seq(R)
    BY <1>2
  <2> QED BY ONLY <2>1, ConcatProperties
<1>6. ASSUME NEW i \in 1 .. Len(w)
      PROVE  w[i] = (u \o v)[i]
  <2>1. i \in 1 .. Len(s) + Len(t)
    BY <1>1, <1>3
  <2>2. w[i] = f[(s \o t)[i]]
    BY <1>3
  <2>3. CASE i =< Len(s)
    <3>1. i \in 1 .. Len(s)
      BY <1>4, <2>1, <2>3
    <3>2. (u \o v)[i] = u[i] /\ (s \o t)[i] = s[i]
      BY <1>1, <1>2, <1>5, <2>1, <2>3
    <3> QED BY <1>2, <2>2, <3>1, <3>2
  <2>4. CASE ~(i =< Len(s))
    <3>1. i - Len(s) \in 1 .. Len(t)
      BY <1>4, <2>1, <2>4
    <3>2. (u \o v)[i] = v[i - Len(s)] /\ (s \o t)[i] = t[i - Len(s)]
      BY <1>1, <1>2, <1>5, <2>1, <2>4
    <3> QED BY <1>2, <2>2, <3>1, <3>2
  <2> QED BY <2>3, <2>4
<1>7. w = u \o v
  BY <1>1, <1>2, <1>3, <1>5, <1>6, SeqEqual
<1> QED BY <1>7 DEF u, v, w

LEMMA CatType ==
    ASSUME NEW D, NEW S, NEW f, Maps(f, D, Seq(S)), NEW s \in Seq(D)
    PROVE  Cat(f, s) \in Seq(S)
<1>1. Each(f, s) \in Seq(Seq(S))
  BY EachFacts
<1> QED BY <1>1, FlattenType DEF Cat

LEMMA CatEmpty ==
    ASSUME NEW f
    PROVE  Cat(f, <<>>) = <<>>
<1>1. Each(f, <<>>) = <<>>
  BY DEF Each
<1> QED BY <1>1, FlattenEmpty DEF Cat

LEMMA CatOne ==
    ASSUME NEW D, NEW S, NEW f, Maps(f, D, Seq(S)), NEW x \in D
    PROVE  Cat(f, <<x>>) = f[x]
<1>1. Each(f, <<x>>) = <<f[x]>>
  BY DEF Each
<1>2. f[x] \in Seq(S)
  BY DEF Maps
<1> QED BY <1>1, <1>2, FlattenOne DEF Cat

LEMMA CatConcat ==
    ASSUME NEW D, NEW S, NEW f, Maps(f, D, Seq(S)),
           NEW s \in Seq(D), NEW t \in Seq(D)
    PROVE  Cat(f, s \o t) = Cat(f, s) \o Cat(f, t)
<1>1. Each(f, s \o t) = Each(f, s) \o Each(f, t)
  BY EachConcat
<1>2. Each(f, s) \in Seq(Seq(S)) /\ Each(f, t) \in Seq(Seq(S))
  BY EachFacts
<1>3. FlattenSeq(Each(f, s) \o Each(f, t))
         = FlattenSeq(Each(f, s)) \o FlattenSeq(Each(f, t))
  BY <1>2, FlattenConcat
<1> QED BY <1>1, <1>3 DEF Cat

-----------------------------------------------------------------------------
(* The GPT-2 alphabet.                                                     *)

LEMMA CodePointFacts ==
    ASSUME NEW b \in Byte
    PROVE  /\ Printable(b) => CodePoint[b] = b
           /\ ~Printable(b) => CodePoint[b] \in 256 .. 511
           /\ CodePoint[b] \in 0 .. 511
           /\ CodePoint[b] < 128 => CodePoint[b] = b
<1> DEFINE S == {c \in 0 .. b - 1 : ~Printable(c)}
<1>1. b \in 0 .. 255 /\ b \in Int
  BY DEF Byte
<1>2. IsFiniteSet(0 .. b - 1) /\ Cardinality(0 .. b - 1) = b
  <2>1. 0 \in Int /\ b - 1 \in Int
    BY <1>1
  <2>2. /\ IsFiniteSet(0 .. b - 1)
        /\ Cardinality(0 .. b - 1) = IF 0 > b - 1 THEN 0 ELSE (b - 1) - 0 + 1
    BY ONLY <2>1, FS_Interval
  <2> QED BY <1>1, <2>2
<1>3. S \subseteq 0 .. b - 1
  OBVIOUS
<1> HIDE DEF S
<1>4. Cardinality(S) \in Nat /\ Cardinality(S) =< b
  <2>1. /\ IsFiniteSet(S)
        /\ Cardinality(S) =< Cardinality(0 .. b - 1)
    BY <1>2, <1>3, FS_Subset
  <2>2. Cardinality(S) \in Nat
    BY <2>1, FS_CardinalityType
  <2> QED BY <1>1, <1>2, <2>1, <2>2
<1>5. CodePoint[b] = IF Printable(b) THEN b ELSE 256 + Cardinality(S)
  BY DEF CodePoint, S
<1> QED BY <1>1, <1>4, <1>5

LEMMA LaterCodePoint ==
    ASSUME NEW b \in Byte, NEW c \in Byte, b < c, ~Printable(b), ~Printable(c)
    PROVE  CodePoint[b] # CodePoint[c]
<1> DEFINE S(x) == {y \in 0 .. x - 1 : ~Printable(y)}
<1>1. b \in 0 .. 255 /\ c \in 0 .. 255
  BY DEF Byte
<1>2. b \notin S(b) /\ S(b) \cup {b} \subseteq S(c)
  BY <1>1
<1>3. IsFiniteSet(S(c)) /\ IsFiniteSet(S(b))
  <2>1. IsFiniteSet(0 .. c - 1) /\ IsFiniteSet(0 .. b - 1)
    <3>1. 0 \in Int /\ c - 1 \in Int /\ b - 1 \in Int
      BY <1>1
    <3> QED BY <3>1, FS_Interval
  <2>2. S(c) \subseteq 0 .. c - 1 /\ S(b) \subseteq 0 .. b - 1
    OBVIOUS
  <2> QED BY <2>1, <2>2, FS_Subset
<1>4. CodePoint[b] = 256 + Cardinality(S(b)) /\ CodePoint[c] = 256 + Cardinality(S(c))
  BY DEF CodePoint
<1> HIDE DEF S
<1>5. Cardinality(S(b)) \in Nat /\ Cardinality(S(c)) \in Nat
  BY <1>3, FS_CardinalityType
<1>6. IsFiniteSet(S(b) \cup {b}) /\ Cardinality(S(b) \cup {b}) = Cardinality(S(b)) + 1
  BY <1>2, <1>3, FS_AddElement
<1>7. Cardinality(S(b) \cup {b}) =< Cardinality(S(c))
  BY <1>2, <1>3, FS_Subset
<1> QED BY <1>4, <1>5, <1>6, <1>7

LEMMA CodePointInjective ==
    ASSUME NEW b \in Byte, NEW c \in Byte, CodePoint[b] = CodePoint[c]
    PROVE  b = c
<1>1. b \in 0 .. 255 /\ c \in 0 .. 255
  BY DEF Byte
<1>2. CASE Printable(b) \/ Printable(c)
  <2> DEFINE x == CodePoint[b]
             y == CodePoint[c]
  <2>0. /\ x = y
        /\ Printable(b) => x = b
        /\ ~Printable(b) => x >= 256
        /\ Printable(c) => y = c
        /\ ~Printable(c) => y >= 256
    BY CodePointFacts
  <2> HIDE DEF x, y
  <2>1. CASE Printable(b) /\ Printable(c)
    BY <2>0, <2>1
  <2>2. CASE Printable(b) /\ ~Printable(c)
    BY <1>1, <2>0, <2>2
  <2>3. CASE ~Printable(b) /\ Printable(c)
    BY <1>1, <2>0, <2>3
  <2> QED BY <1>2, <2>1, <2>2, <2>3
<1>3. CASE ~Printable(b) /\ ~Printable(c)
  BY <1>1, <1>3, LaterCodePoint
<1> QED BY <1>2, <1>3

\* A character is a printable ASCII byte, or a lead unit and a continuation.
LEMMA CharFacts ==
    ASSUME NEW b \in Byte
    PROVE  /\ Char[b] \in Seq(Byte)
           /\ \/ Char[b] = <<b>> /\ Len(Char[b]) = 1 /\ b < 128
              \/ /\ Len(Char[b]) = 2
                 /\ Char[b][1] \in 192 .. 223
                 /\ Char[b][2] \in 128 .. 191
<1> DEFINE cp == CodePoint[b]
<1>1. b \in 0 .. 255 /\ cp \in 0 .. 511 /\ (cp < 128 => cp = b)
  <2>1. cp \in 0 .. 511 /\ (cp < 128 => cp = b)
    BY CodePointFacts
  <2> QED BY <2>1 DEF Byte
<1>2. Char[b] = Utf8(cp)
  BY DEF Char
<1> HIDE DEF cp
<1>3. CASE cp < 128
  <2>1. Char[b] = <<b>>
    BY <1>1, <1>2, <1>3 DEF Utf8
  <2>2. b < 128
    BY <1>1, <1>3
  <2> QED BY <2>1, <2>2
<1>4. CASE ~(cp < 128)
  <2> DEFINE u == 192 + (cp \div 64)
             v == 128 + (cp % 64)
  <2>1. u \in 192 .. 223 /\ v \in 128 .. 191
    BY <1>1
  <2>2. Char[b] = <<u, v>>
    BY <1>2, <1>4 DEF Utf8
  <2> HIDE DEF u, v
  <2>3. u \in Byte /\ v \in Byte
    BY <2>1 DEF Byte
  <2> QED BY <2>1, <2>2, <2>3
<1> QED BY <1>3, <1>4

LEMMA CharInjective ==
    ASSUME NEW b \in Byte, NEW c \in Byte, Char[b] = Char[c]
    PROVE  b = c
<1> DEFINE x == CodePoint[b]
           y == CodePoint[c]
<1>1. x \in 0 .. 511 /\ y \in 0 .. 511
  BY CodePointFacts
<1>2. Utf8(x) = Utf8(y)
  BY DEF Char
<1>3. x = y => b = c
  BY CodePointInjective
<1> HIDE DEF x, y
<1>4. x = y
  <2>1. CASE x < 128 /\ y < 128
    <3>1. <<x>> = <<y>>
      BY <1>2, <2>1 DEF Utf8
    <3>2. <<x>>[1] = x /\ <<y>>[1] = y
      OBVIOUS
    <3> QED BY <3>1, <3>2
  <2>2. CASE ~(x < 128) /\ ~(y < 128)
    <3> DEFINE u == 192 + (x \div 64)
               v == 128 + (x % 64)
               w == 192 + (y \div 64)
               z == 128 + (y % 64)
    <3>1. <<u, v>> = <<w, z>>
      BY <1>2, <2>2 DEF Utf8
    <3>2. u = w /\ v = z
      <4> HIDE DEF u, v, w, z
      <4>1. <<u, v>>[1] = u /\ <<w, z>>[1] = w /\ <<u, v>>[2] = v /\ <<w, z>>[2] = z
        OBVIOUS
      <4> QED BY <3>1, <4>1
    <3> QED BY <1>1, <3>2
  <2>3. ASSUME NEW p, NEW q, NEW r
        PROVE  <<p>> # <<q, r>>
    <3>1. Len(<<p>>) = 1 /\ Len(<<q, r>>) = 2
      OBVIOUS
    <3> QED BY <3>1
  <2>4. CASE x < 128 /\ ~(y < 128)
    BY <1>2, <2>3, <2>4 DEF Utf8
  <2>5. CASE ~(x < 128) /\ y < 128
    BY <1>2, <2>3, <2>5 DEF Utf8
  <2> QED BY <2>1, <2>2, <2>4, <2>5
<1> QED BY <1>3, <1>4

LEMMA CharOrigin ==
    ASSUME NEW b \in Byte
    PROVE  OriginalBytes(Char[b]) = <<b>>
<1> DEFINE S == {c \in Byte : Char[c] = Char[b]}
<1>1. S = {b}
  BY CharInjective
<1>2. b \in 0 .. 255
  BY DEF Byte
<1> HIDE DEF S
<1>3. Max(S) = b
  <2>1. S \subseteq 0 .. 255 /\ S # {} /\ 255 \in Nat
    BY <1>1, <1>2
  <2>2. Max(S) \in S
    BY ONLY <2>1, MaxIsMember
  <2> QED BY <1>1, <2>2
<1>4. OriginalBytes(Char[b]) = IF S = {} THEN Char[b] ELSE <<Max(S)>>
  BY DEF OriginalBytes, S
<1> QED BY <1>1, <1>3, <1>4

LEMMA OriginalBytesType ==
    ASSUME NEW s \in Seq(Byte)
    PROVE  OriginalBytes(s) \in Seq(Byte)
<1> DEFINE S == {b \in Byte : Char[b] = s}
<1>1. S \subseteq Byte
  OBVIOUS
<1>2. OriginalBytes(s) = IF S = {} THEN s ELSE <<Max(S)>>
  BY DEF OriginalBytes
<1> HIDE DEF S
<1>3. CASE S = {}
  BY <1>2, <1>3
<1>4. CASE S # {}
  <2>1. S \subseteq 0 .. 255 /\ 255 \in Nat
    BY <1>1 DEF Byte
  <2>2. Max(S) \in Byte
    BY <1>1, <1>4, <2>1, MaxIsMember
  <2> QED BY <1>2, <1>4, <2>2
<1> QED BY <1>3, <1>4

\* What the character that starts at i contributes to FromGpt2.
From(s, i) ==
    IF Continues(s[i]) THEN <<>>
    ELSE OriginalBytes(SubSeq(s, i, i + Utf8Len(s[i]) - 1))

LEMMA Utf8LenType ==
    ASSUME NEW u \in Byte
    PROVE  Utf8Len(u) \in 1 .. 4
BY DEF Utf8Len, Byte

LEMMA FromType ==
    ASSUME NEW s \in Seq(Byte), Whole(s), NEW i \in 1 .. Len(s)
    PROVE  From(s, i) \in Seq(Byte)
<1> DEFINE n == Utf8Len(s[i])
           j == i + n - 1
<1>1. DOMAIN s = 1 .. Len(s) /\ Len(s) \in Nat /\ \A k \in 1 .. Len(s) : s[k] \in Byte
  OBVIOUS
<1>2. n \in 1 .. 4
  BY <1>1, Utf8LenType
<1>3. CASE Continues(s[i])
  BY <1>3 DEF From
<1>4. CASE ~Continues(s[i])
  <2>1. j =< Len(s)
    BY <1>1, <1>4 DEF Whole
  <2> HIDE DEF n
  <2>2. \A k \in i .. j : s[k] \in Byte
    BY <1>1, <1>2, <2>1
  <2>3. i \in Int /\ j \in Int
    BY <1>1, <1>2
  <2> HIDE DEF j
  <2>4. SubSeq(s, i, j) \in Seq(Byte)
    BY <2>2, <2>3, SubSeqProperties
  <2>5. From(s, i) = OriginalBytes(SubSeq(s, i, j))
    BY <1>4 DEF From, j, n
  <2> QED BY <2>4, <2>5, OriginalBytesType
<1> QED BY <1>3, <1>4

FromEach(s) == [i \in DOMAIN s |-> From(s, i)]

LEMMA FromEachFacts ==
    ASSUME NEW s \in Seq(Byte), Whole(s)
    PROVE  /\ FromEach(s) \in Seq(Seq(Byte))
           /\ Len(FromEach(s)) = Len(s)
           /\ \A i \in 1 .. Len(s) : FromEach(s)[i] = From(s, i)
           /\ FromGpt2(s) = FlattenSeq(FromEach(s))
<1>1. \A i \in 1 .. Len(s) : From(s, i) \in Seq(Byte)
  BY FromType
<1>2. Len(s) \in Nat /\ DOMAIN s = 1 .. Len(s)
  OBVIOUS
<1>3. FromGpt2(s) = FlattenSeq(FromEach(s))
  BY DEF FromGpt2, FromEach, From
<1> QED BY <1>1, <1>2, <1>3 DEF FromEach

\* The characters of a concatenation are those of its two parts.
LEMMA FromLeft ==
    ASSUME NEW s \in Seq(Byte), NEW t \in Seq(Byte), Whole(s),
           NEW i \in 1 .. Len(s)
    PROVE  From(s \o t, i) = From(s, i)
<1> DEFINE st == s \o t
           n == Utf8Len(s[i])
           j == i + n - 1
<1>1. /\ st \in Seq(Byte)
      /\ Len(st) = Len(s) + Len(t)
      /\ \A k \in 1 .. Len(s) + Len(t) :
             st[k] = IF k =< Len(s) THEN s[k] ELSE t[k - Len(s)]
  BY ConcatProperties
<1>2. /\ Len(s) \in Nat /\ Len(t) \in Nat /\ DOMAIN s = 1 .. Len(s)
      /\ \A k \in 1 .. Len(s) : s[k] \in Byte
  OBVIOUS
<1> HIDE DEF st
<1>3. \A k \in 1 .. Len(s) : st[k] = s[k]
  BY <1>1, <1>2
<1>4. CASE Continues(s[i])
  BY <1>3, <1>4 DEF From, st
<1>5. CASE ~Continues(s[i])
  <2>1. j =< Len(s)
    BY <1>2, <1>5 DEF Whole
  <2>2. n \in 1 .. 4
    BY <1>2, Utf8LenType
  <2>3. From(st, i) = OriginalBytes(SubSeq(st, i, j))
    BY <1>3, <1>5 DEF From
  <2>4. From(s, i) = OriginalBytes(SubSeq(s, i, j))
    BY <1>5 DEF From
  <2> HIDE DEF n
  <2>5. i \in 1 .. Len(s) /\ j \in 1 .. Len(s)
    BY <1>2, <2>1, <2>2
  <2> HIDE DEF j
  <2>6. SubSeq(s \o t, i, j) = SubSeq(s, i, j)
    BY ONLY <2>5, s \in Seq(Byte), t \in Seq(Byte), SubSeqOfConcat1
  <2> QED BY <2>3, <2>4, <2>6 DEF st
<1> QED BY <1>4, <1>5

LEMMA FromRight ==
    ASSUME NEW s \in Seq(Byte), NEW t \in Seq(Byte), Whole(t),
           NEW i \in 1 .. Len(t)
    PROVE  From(s \o t, Len(s) + i) = From(t, i)
<1> DEFINE st == s \o t
           m == Len(s)
           n == Utf8Len(t[i])
           j == i + n - 1
<1>1. /\ st \in Seq(Byte)
      /\ Len(st) = m + Len(t)
      /\ \A k \in 1 .. m + Len(t) :
             st[k] = IF k =< m THEN s[k] ELSE t[k - m]
  BY ConcatProperties
<1>2. /\ m \in Nat /\ Len(t) \in Nat /\ DOMAIN t = 1 .. Len(t)
      /\ \A k \in 1 .. Len(t) : t[k] \in Byte
  OBVIOUS
<1> HIDE DEF st, m
<1>3. st[m + i] = t[i]
  <2>1. m + i \in 1 .. m + Len(t) /\ ~(m + i =< m) /\ (m + i) - m = i
    BY <1>2
  <2> QED BY <1>1, <2>1
<1>4. CASE Continues(t[i])
  BY <1>3, <1>4 DEF From, st, m
<1>5. CASE ~Continues(t[i])
  <2>1. j =< Len(t)
    BY <1>2, <1>5 DEF Whole
  <2>2. n \in 1 .. 4
    BY <1>2, Utf8LenType
  <2>3. From(st, m + i) = OriginalBytes(SubSeq(st, m + i, (m + i) + n - 1))
    BY <1>3, <1>5 DEF From
  <2>4. From(t, i) = OriginalBytes(SubSeq(t, i, j))
    BY <1>5 DEF From
  <2> HIDE DEF n
  <2>5. /\ (m + i) + n - 1 = m + j
        /\ m + i \in m + 1 .. m + Len(t) /\ m + j \in m + 1 .. m + Len(t)
        /\ (m + i) - m = i /\ (m + j) - m = j
    BY <1>2, <2>1, <2>2
  <2> HIDE DEF j
  <2>6. SubSeq(st, m + i, m + j) = SubSeq(t, i, j)
    <3> DEFINE p == m + i
               q == m + j
    <3>1. p \in Len(s) + 1 .. Len(s) + Len(t) /\ q \in Len(s) + 1 .. Len(s) + Len(t)
      BY <2>5 DEF m
    <3> HIDE DEF p, q
    <3>2. SubSeq(s \o t, p, q) = SubSeq(t, p - Len(s), q - Len(s))
      BY ONLY <3>1, s \in Seq(Byte), t \in Seq(Byte), SubSeqOfConcat2
    <3> QED BY <2>5, <3>2 DEF m, st, p, q
  <2> QED BY <2>3, <2>4, <2>5, <2>6 DEF st, m
<1> QED BY <1>4, <1>5

LEMMA WholeConcat ==
    ASSUME NEW s \in Seq(Byte), NEW t \in Seq(Byte), Whole(s), Whole(t)
    PROVE  Whole(s \o t)
<1> DEFINE st == s \o t
<1>1. /\ st \in Seq(Byte)
      /\ Len(st) = Len(s) + Len(t)
      /\ \A k \in 1 .. Len(s) + Len(t) :
             st[k] = IF k =< Len(s) THEN s[k] ELSE t[k - Len(s)]
  BY ConcatProperties
<1>2. /\ Len(s) \in Nat /\ Len(t) \in Nat
      /\ DOMAIN s = 1 .. Len(s) /\ DOMAIN t = 1 .. Len(t) /\ DOMAIN st = 1 .. Len(st)
      /\ \A k \in 1 .. Len(s) : s[k] \in Byte
      /\ \A k \in 1 .. Len(t) : t[k] \in Byte
  BY <1>1
<1> HIDE DEF st
<1>3. ASSUME NEW i \in DOMAIN st, ~Continues(st[i])
      PROVE  i + Utf8Len(st[i]) - 1 =< Len(st)
  <2>1. CASE i =< Len(s)
    <3>1. i \in 1 .. Len(s) /\ st[i] = s[i]
      BY <1>1, <1>2, <2>1
    <3>2. i + Utf8Len(s[i]) - 1 =< Len(s) /\ Utf8Len(s[i]) \in 1 .. 4
      BY <1>2, <1>3, <3>1, Utf8LenType DEF Whole
    <3> QED BY <1>1, <1>2, <3>1, <3>2
  <2>2. CASE ~(i =< Len(s))
    <3> DEFINE k == i - Len(s)
    <3>1. k \in 1 .. Len(t) /\ st[i] = t[k] /\ i = Len(s) + k
      BY <1>1, <1>2, <2>2
    <3> HIDE DEF k
    <3>2. k + Utf8Len(t[k]) - 1 =< Len(t) /\ Utf8Len(t[k]) \in 1 .. 4
      BY <1>2, <1>3, <3>1, Utf8LenType DEF Whole
    <3> QED BY <1>1, <1>2, <3>1, <3>2
  <2> QED BY <2>1, <2>2
<1> QED BY <1>3 DEF Whole, st

LEMMA FromGpt2Concat ==
    ASSUME NEW s \in Seq(Byte), NEW t \in Seq(Byte), Whole(s), Whole(t)
    PROVE  FromGpt2(s \o t) = FromGpt2(s) \o FromGpt2(t)
<1> DEFINE st == s \o t
           u == FromEach(s)
           v == FromEach(t)
           w == FromEach(st)
<1>1. st \in Seq(Byte) /\ Len(st) = Len(s) + Len(t) /\ Whole(st)
  BY ConcatProperties, WholeConcat
<1>2. Len(s) \in Nat /\ Len(t) \in Nat
  OBVIOUS
<1>3. /\ u \in Seq(Seq(Byte)) /\ Len(u) = Len(s) /\ FromGpt2(s) = FlattenSeq(u)
      /\ \A i \in 1 .. Len(s) : u[i] = From(s, i)
  BY FromEachFacts
<1>4. /\ v \in Seq(Seq(Byte)) /\ Len(v) = Len(t) /\ FromGpt2(t) = FlattenSeq(v)
      /\ \A i \in 1 .. Len(t) : v[i] = From(t, i)
  BY FromEachFacts
<1> HIDE DEF st
<1>5. /\ w \in Seq(Seq(Byte)) /\ Len(w) = Len(st) /\ FromGpt2(st) = FlattenSeq(w)
      /\ \A i \in 1 .. Len(st) : w[i] = From(st, i)
  BY <1>1, FromEachFacts
<1> HIDE DEF u, v, w
<1>6. /\ u \o v \in Seq(Seq(Byte))
      /\ Len(u \o v) = Len(u) + Len(v)
      /\ \A i \in 1 .. Len(u) + Len(v) :
             (u \o v)[i] = IF i =< Len(u) THEN u[i] ELSE v[i - Len(u)]
  <2> DEFINE W == Seq(Byte)
  <2>1. u \in Seq(W) /\ v \in Seq(W)
    BY <1>3, <1>4
  <2> HIDE DEF W
  <2>2. /\ u \o v \in Seq(W)
        /\ Len(u \o v) = Len(u) + Len(v)
        /\ \A i \in 1 .. Len(u) + Len(v) :
               (u \o v)[i] = IF i =< Len(u) THEN u[i] ELSE v[i - Len(u)]
    BY ONLY <2>1, ConcatProperties
  <2> QED BY <2>2 DEF W
<1>7. ASSUME NEW i \in 1 .. Len(w)
      PROVE  w[i] = (u \o v)[i]
  <2>1. i \in 1 .. Len(s) + Len(t) /\ w[i] = From(st, i)
    BY <1>1, <1>5
  <2>2. CASE i =< Len(s)
    <3>1. i \in 1 .. Len(s)
      BY <1>2, <2>1, <2>2
    <3>2. From(st, i) = From(s, i)
      BY <3>1, FromLeft DEF st
    <3> QED BY <1>3, <1>4, <1>6, <2>1, <2>2, <3>1, <3>2
  <2>3. CASE ~(i =< Len(s))
    <3> DEFINE k == i - Len(s)
    <3>1. k \in 1 .. Len(t) /\ i = Len(s) + k
      BY <1>2, <2>1, <2>3
    <3> HIDE DEF k
    <3>2. From(st, Len(s) + k) = From(t, k)
      BY <3>1, FromRight DEF st
    <3>3. (u \o v)[i] = v[k]
      BY <1>3, <1>4, <1>6, <2>1, <2>3 DEF k
    <3> QED BY <1>4, <2>1, <3>1, <3>2, <3>3
  <2> QED BY <2>2, <2>3
<1>8. w = u \o v
  BY <1>1, <1>3, <1>4, <1>5, <1>6, <1>7, SeqEqual
<1>9. FlattenSeq(u \o v) = FlattenSeq(u) \o FlattenSeq(v)
  BY <1>3, <1>4, FlattenConcat
<1> QED BY <1>3, <1>4, <1>5, <1>8, <1>9 DEF st

LEMMA Gpt2IsCat ==
    /\ Maps(Char, Byte, Seq(Byte))
    /\ \A bs : Gpt2(bs) = Cat(Char, bs)
<1>1. Char \in [Byte -> Seq(Byte)]
  <2>1. \A b \in Byte : Char[b] \in Seq(Byte)
    BY CharFacts
  <2>2. Char = [b \in Byte |-> Char[b]]
    BY DEF Char
  <2> QED BY <2>1, <2>2
<1> QED BY <1>1 DEF Maps, Gpt2, Cat, Each

LEMMA Gpt2Type ==
    ASSUME NEW bs \in Seq(Byte)
    PROVE  Gpt2(bs) \in Seq(Byte)
BY Gpt2IsCat, CatType

LEMMA Gpt2Empty == Gpt2(<<>>) = <<>>
BY Gpt2IsCat, CatEmpty

LEMMA Gpt2One ==
    ASSUME NEW b \in Byte
    PROVE  Gpt2(<<b>>) = Char[b]
BY Gpt2IsCat, CatOne

LEMMA Gpt2Concat ==
    ASSUME NEW s \in Seq(Byte), NEW t \in Seq(Byte)
    PROVE  Gpt2(s \o t) = Gpt2(s) \o Gpt2(t)
<1>1. Cat(Char, s \o t) = Cat(Char, s) \o Cat(Char, t)
  BY Gpt2IsCat, CatConcat
<1> QED BY ONLY <1>1, Gpt2IsCat

LEMMA LeadUnit ==
    ASSUME NEW u \in 192 .. 223
    PROVE  ~Continues(u) /\ Utf8Len(u) = 2
BY DEF Continues, Utf8Len

LEMMA WholeChar ==
    ASSUME NEW b \in Byte
    PROVE  Whole(Char[b])
<1> DEFINE c == Char[b]
<1>1. c \in Seq(Byte) /\ DOMAIN c = 1 .. Len(c)
  BY CharFacts
<1>2. CASE c = <<b>> /\ b < 128
  <2>1. Utf8Len(b) = 1
    BY <1>2 DEF Utf8Len
  <2>2. Len(c) = 1 /\ c[1] = b /\ DOMAIN c = 1 .. 1
    BY <1>1, <1>2
  <2> HIDE DEF c
  <2> QED BY <2>1, <2>2 DEF Whole, c
<1>3. CASE Len(c) = 2 /\ c[1] \in 192 .. 223 /\ c[2] \in 128 .. 191
  <2> HIDE DEF c
  <2>1. Utf8Len(c[1]) = 2 /\ Continues(c[2])
    BY <1>3 DEF Utf8Len, Continues
  <2> QED BY <1>1, <1>3, <2>1 DEF Whole, c
<1> QED BY <1>2, <1>3, CharFacts

LEMMA FromChar ==
    ASSUME NEW b \in Byte
    PROVE  FromGpt2(Char[b]) = <<b>>
<1> DEFINE c == Char[b]
           e == FromEach(c)
<1>1. c \in Seq(Byte) /\ Whole(c)
  BY CharFacts, WholeChar
<1>2. OriginalBytes(c) = <<b>>
  BY CharOrigin
<1>c. \/ c = <<b>> /\ Len(c) = 1 /\ b < 128
      \/ Len(c) = 2 /\ c[1] \in 192 .. 223 /\ c[2] \in 128 .. 191
  BY CharFacts
<1> HIDE DEF c
<1>3. /\ e \in Seq(Seq(Byte)) /\ Len(e) = Len(c)
      /\ \A i \in 1 .. Len(c) : e[i] = From(c, i)
      /\ FromGpt2(c) = FlattenSeq(e)
  BY <1>1, FromEachFacts
<1> HIDE DEF e
<1>4. SubSeq(c, 1, Len(c)) = c
  BY <1>1, SubSeqFull
<1>5. CASE c = <<b>> /\ Len(c) = 1 /\ b < 128
  <2>1. c[1] = b /\ Utf8Len(b) = 1 /\ ~Continues(b)
    BY <1>5 DEF Utf8Len, Continues
  <2>2. From(c, 1) = <<b>>
    <3>1. 1 + Utf8Len(c[1]) - 1 = Len(c) /\ ~Continues(c[1])
      BY <1>5, <2>1
    <3> QED BY ONLY <1>2, <1>4, <3>1 DEF From
  <2>3. e = <<<<b>>>>
    BY <1>3, <1>5, <2>2
  <2>4. <<b>> \in Seq(Byte)
    OBVIOUS
  <2> QED BY <1>3, <2>3, <2>4, FlattenOne DEF c
<1>6. CASE Len(c) = 2 /\ c[1] \in 192 .. 223 /\ c[2] \in 128 .. 191
  <2>1. Utf8Len(c[1]) = 2 /\ ~Continues(c[1]) /\ Continues(c[2])
    BY <1>6 DEF Utf8Len, Continues
  <2>2. From(c, 1) = <<b>>
    <3>1. 1 + Utf8Len(c[1]) - 1 = Len(c) /\ ~Continues(c[1])
      BY <1>6, <2>1
    <3> QED BY ONLY <1>2, <1>4, <3>1 DEF From
  <2>3. From(c, 2) = <<>>
    BY <2>1 DEF From
  <2>4. e[1] = <<b>> /\ e[2] = <<>> /\ Len(e) = 2
    BY <1>3, <1>6, <2>2, <2>3
  <2> DEFINE f == [i \in 0 .. 2 |-> IF i = 0 THEN <<>> ELSE <<b>>]
  <2>5. f[0] = <<>> /\ f[1] = <<b>> /\ f[2] = <<b>>
    OBVIOUS
  <2> HIDE DEF f
  <2>6. <<>> \o <<b>> = <<b>> /\ <<b>> \o <<>> = <<b>>
    BY <<b>> \in Seq(Byte), ConcatEmptySeq
  <2>7. \A i \in 1 .. Len(e) : f[i] = f[i - 1] \o e[i]
    <3>1. f[1] = f[1 - 1] \o e[1]
      BY <2>4, <2>5, <2>6
    <3>2. f[2] = f[2 - 1] \o e[2]
      BY <2>4, <2>5, <2>6
    <3>3. 1 .. Len(e) = {1, 2}
      BY <2>4
    <3> QED BY <3>1, <3>2, <3>3
  <2>8. FlattenSeq(e) = f[Len(e)]
    BY ONLY <1>3, <2>5, <2>7, FlattenBy
  <2> QED BY <1>3, <2>4, <2>5, <2>8 DEF c
<1> QED BY <1>c, <1>5, <1>6

\* Reading a spelling back gives the bytes it was made of: decode's reversal
\* undoes bytes_to_gpt2_unicode, for every sequence of bytes.
LEMMA SpellingReadsBack ==
    \A bs \in Seq(Byte) : Whole(Gpt2(bs)) /\ FromGpt2(Gpt2(bs)) = bs
<1> DEFINE T == {n \in Nat : \A bs \in Seq(Byte) : Len(bs) = n =>
                    Whole(Gpt2(bs)) /\ FromGpt2(Gpt2(bs)) = bs}
<1>1. 0 \in T
  <2>1. Whole(<<>>) /\ FromGpt2(<<>>) = <<>>
    BY FlattenEmpty DEF Whole, FromGpt2
  <2>2. \A bs \in Seq(Byte) : Len(bs) = 0 => bs = <<>>
    OBVIOUS
  <2> QED BY <2>1, <2>2, Gpt2Empty
<1>2. ASSUME NEW n \in Nat, n \in T
      PROVE  n + 1 \in T
  <2> SUFFICES ASSUME NEW bs \in Seq(Byte), Len(bs) = n + 1
               PROVE  Whole(Gpt2(bs)) /\ FromGpt2(Gpt2(bs)) = bs
    OBVIOUS
  <2> DEFINE s == SubSeq(bs, 1, n)
             b == bs[n + 1]
  <2>1. s \in Seq(Byte) /\ Len(s) = n /\ b \in Byte
    OBVIOUS
  <2>2. bs = s \o <<b>>
    OBVIOUS
  <2> HIDE DEF s, b
  <2>3. Whole(Gpt2(s)) /\ FromGpt2(Gpt2(s)) = s /\ Gpt2(s) \in Seq(Byte)
    BY <1>2, <2>1, Gpt2Type
  <2>4. Whole(Char[b]) /\ FromGpt2(Char[b]) = <<b>> /\ Char[b] \in Seq(Byte)
    BY <2>1, WholeChar, FromChar, CharFacts
  <2>5. Gpt2(bs) = Gpt2(s) \o Char[b]
    <3>1. <<b>> \in Seq(Byte)
      BY <2>1
    <3>2. Gpt2(s \o <<b>>) = Gpt2(s) \o Gpt2(<<b>>)
      BY <2>1, <3>1, Gpt2Concat
    <3> QED BY <2>1, <2>2, <3>2, Gpt2One
  <2> QED BY <2>2, <2>3, <2>4, <2>5, WholeConcat, FromGpt2Concat
<1>3. \A n \in Nat : n \in T
  <2> HIDE DEF T
  <2> QED BY <1>1, <1>2, NatInductive
<1> SUFFICES ASSUME NEW bs \in Seq(Byte)
             PROVE  Whole(Gpt2(bs)) /\ FromGpt2(Gpt2(bs)) = bs
  OBVIOUS
<1>4. Len(bs) \in T
  BY <1>3
<1> QED BY <1>4

-----------------------------------------------------------------------------
(* Cutting a text and its spelling.                                        *)

LEMMA Part ==
    ASSUME NEW S, NEW s \in Seq(S), NEW m \in Nat, NEW k \in Nat, m + k =< Len(s)
    PROVE  /\ SubSeq(s, m + 1, m + k) \in Seq(S)
           /\ Len(SubSeq(s, m + 1, m + k)) = k
           /\ \A i \in 1 .. k : SubSeq(s, m + 1, m + k)[i] = s[m + i]
<1> DEFINE a == m + 1
           b == m + k
<1>1. Len(s) \in Nat
  OBVIOUS
<1>2. \A i \in a .. b : s[i] \in S
  <2>1. \A i \in a .. b : i \in 1 .. Len(s)
    BY <1>1
  <2> QED BY <2>1, ElementOfSeq
<1>3. /\ a \in Int /\ b \in Int /\ b - a + 1 = k
      /\ (IF a =< b THEN b - a + 1 ELSE 0) = k
      /\ \A i \in 1 .. k : a + i - 1 = m + i
  OBVIOUS
<1> HIDE DEF a, b
<1>4. /\ SubSeq(s, a, b) \in Seq(S)
      /\ Len(SubSeq(s, a, b)) = IF a =< b THEN b - a + 1 ELSE 0
      /\ \A i \in 1 .. b - a + 1 : SubSeq(s, a, b)[i] = s[a + i - 1]
  BY <1>2, <1>3, SubSeqProperties
<1>5. /\ SubSeq(s, a, b) \in Seq(S)
      /\ Len(SubSeq(s, a, b)) = k
      /\ \A i \in 1 .. k : SubSeq(s, a, b)[i] = s[m + i]
  BY <1>3, <1>4
<1> QED BY <1>5 DEF a, b

LEMMA Middle ==
    ASSUME NEW S, NEW a \in Seq(S), NEW b \in Seq(S), NEW c \in Seq(S)
    PROVE  SubSeq((a \o b) \o c, Len(a) + 1, Len(a) + Len(b)) = b
<1> DEFINE ab == a \o b
           abc == ab \o c
           x == SubSeq(abc, Len(a) + 1, Len(a) + Len(b))
<1>1. Len(a) \in Nat /\ Len(b) \in Nat /\ Len(c) \in Nat
  OBVIOUS
<1>2. /\ ab \in Seq(S) /\ Len(ab) = Len(a) + Len(b)
      /\ \A i \in 1 .. Len(a) + Len(b) :
             ab[i] = IF i =< Len(a) THEN a[i] ELSE b[i - Len(a)]
  BY ConcatProperties
<1> HIDE DEF ab
<1>3. /\ abc \in Seq(S) /\ Len(abc) = Len(ab) + Len(c)
      /\ \A i \in 1 .. Len(ab) + Len(c) :
             abc[i] = IF i =< Len(ab) THEN ab[i] ELSE c[i - Len(ab)]
  <2>1. ab \in Seq(S)
    BY <1>2
  <2> QED BY ONLY <2>1, c \in Seq(S), ConcatProperties
<1> HIDE DEF abc
<1>4. ASSUME NEW j \in 1 .. Len(b)
      PROVE  abc[Len(a) + j] = b[j]
  <2>1. /\ Len(a) + j \in 1 .. Len(a) + Len(b)
        /\ Len(a) + j \in 1 .. Len(ab) + Len(c)
        /\ Len(a) + j =< Len(ab) /\ ~(Len(a) + j =< Len(a))
        /\ (Len(a) + j) - Len(a) = j
    BY <1>1, <1>2
  <2> QED BY <1>2, <1>3, <2>1
<1>5. \A i \in Len(a) + 1 .. Len(a) + Len(b) : abc[i] \in S
  <2> SUFFICES ASSUME NEW i \in Len(a) + 1 .. Len(a) + Len(b)
               PROVE  abc[i] \in S
    OBVIOUS
  <2>1. i \in 1 .. Len(abc)
    BY <1>1, <1>2, <1>3
  <2> QED BY <1>3, <2>1, ElementOfSeq
<1>6. Len(a) + 1 \in Int /\ Len(a) + Len(b) \in Int
  BY <1>1
<1>7. /\ x \in Seq(S)
      /\ Len(x) = IF Len(a) + 1 =< Len(a) + Len(b)
                  THEN (Len(a) + Len(b)) - (Len(a) + 1) + 1 ELSE 0
      /\ \A i \in 1 .. (Len(a) + Len(b)) - (Len(a) + 1) + 1 :
             x[i] = abc[(Len(a) + 1) + i - 1]
  BY <1>5, <1>6, SubSeqProperties
<1> HIDE DEF x
<1>8. Len(x) = Len(b)
  BY <1>1, <1>7
<1>9. ASSUME NEW i \in 1 .. Len(x)
      PROVE  x[i] = b[i]
  <2>1. /\ i \in 1 .. Len(b) /\ i \in 1 .. (Len(a) + Len(b)) - (Len(a) + 1) + 1
        /\ (Len(a) + 1) + i - 1 = Len(a) + i
    BY <1>1, <1>8
  <2> QED BY <1>4, <1>7, <2>1
<1>10. x = b
  BY <1>7, <1>8, <1>9, SeqEqual
<1> QED BY <1>10 DEF x, abc, ab

\* The units of the first n bytes of t.
Units(t, n) == Len(Gpt2(SubSeq(t, 1, n)))

LEMMA PartType ==
    ASSUME NEW t \in Seq(Byte), NEW m \in 0 .. Len(t), NEW n \in 0 .. Len(t)
    PROVE  /\ SubSeq(t, m + 1, n) \in Seq(Byte)
           /\ Len(SubSeq(t, m + 1, n)) = IF m =< n THEN n - m ELSE 0
           /\ Gpt2(SubSeq(t, m + 1, n)) \in Seq(Byte)
           /\ Units(t, n) \in Nat
<1>1. Len(t) \in Nat /\ \A i \in 1 .. Len(t) : t[i] \in Byte
  OBVIOUS
<1>2. /\ m + 1 \in Int /\ n \in Int /\ 1 \in Int
      /\ \A i \in m + 1 .. n : t[i] \in Byte
      /\ \A i \in 1 .. n : t[i] \in Byte
  BY <1>1
<1>3. /\ SubSeq(t, m + 1, n) \in Seq(Byte)
      /\ Len(SubSeq(t, m + 1, n)) = IF m + 1 =< n THEN n - (m + 1) + 1 ELSE 0
  BY <1>2, SubSeqProperties
<1>4. SubSeq(t, 1, n) \in Seq(Byte)
  BY <1>2, SubSeqProperties
<1>5. Gpt2(SubSeq(t, 1, n)) \in Seq(Byte)
  BY <1>4, Gpt2Type
<1>6. Units(t, n) \in Nat
  BY <1>5, LenProperties DEF Units
<1>7. Gpt2(SubSeq(t, m + 1, n)) \in Seq(Byte)
  BY <1>3, Gpt2Type
<1>8. Len(SubSeq(t, m + 1, n)) = IF m =< n THEN n - m ELSE 0
  BY <1>1, <1>3
<1> QED BY <1>3, <1>6, <1>7, <1>8

LEMMA Gpt2Cut ==
    ASSUME NEW t \in Seq(Byte), NEW m \in 0 .. Len(t), NEW n \in m .. Len(t)
    PROVE  /\ Gpt2(SubSeq(t, 1, n))
                  = Gpt2(SubSeq(t, 1, m)) \o Gpt2(SubSeq(t, m + 1, n))
           /\ Units(t, n) = Units(t, m) + Len(Gpt2(SubSeq(t, m + 1, n)))
<1>1. Len(t) \in Nat
  OBVIOUS
<1>2. 1 \in 1 .. Len(t) + 1 /\ m \in 1 - 1 .. Len(t) /\ 0 \in 0 .. Len(t) /\ 0 + 1 = 1
      /\ n \in 0 .. Len(t)
  BY <1>1
<1>3. SubSeq(t, 1, m) \o SubSeq(t, m + 1, n) = SubSeq(t, 1, n)
  BY <1>2, ConcatAdjacentSubSeq
<1>4. SubSeq(t, 1, m) \in Seq(Byte) /\ SubSeq(t, m + 1, n) \in Seq(Byte)
  <2>1. SubSeq(t, 0 + 1, m) \in Seq(Byte)
    BY <1>2, PartType
  <2>2. SubSeq(t, m + 1, n) \in Seq(Byte)
    BY <1>2, PartType
  <2> QED BY <1>2, <2>1, <2>2
<1> DEFINE x == SubSeq(t, 1, m)
           y == SubSeq(t, m + 1, n)
<1>5. Gpt2(x \o y) = Gpt2(x) \o Gpt2(y)
  <2> HIDE DEF x, y
  <2> QED BY <1>4, Gpt2Concat DEF x, y
<1>6. Gpt2(x) \in Seq(Byte) /\ Gpt2(y) \in Seq(Byte)
  BY <1>4, Gpt2Type
<1>7. Len(Gpt2(x) \o Gpt2(y)) = Len(Gpt2(x)) + Len(Gpt2(y))
  <2> HIDE DEF x, y
  <2> QED BY <1>6, ConcatProperties
<1> QED BY <1>3, <1>5, <1>7 DEF Units

LEMMA UnitsEnds ==
    ASSUME NEW t \in Seq(Byte)
    PROVE  Units(t, 0) = 0 /\ Units(t, Len(t)) = Len(Gpt2(t))
<1>1. SubSeq(t, 1, 0) = <<>> /\ SubSeq(t, 1, Len(t)) = t
  BY SubSeqFull, SubSeqEmpty, 0 < 1
<1>2. Units(t, 0) = Len(<<>>) /\ Units(t, Len(t)) = Len(Gpt2(t))
  BY ONLY <1>1, Gpt2Empty DEF Units
<1> QED BY <1>2

\* Between two boundaries of the spelling stands the spelling of what is
\* between them in the text.
LEMMA Gpt2Slice ==
    ASSUME NEW t \in Seq(Byte), NEW m \in 0 .. Len(t), NEW n \in m .. Len(t)
    PROVE  /\ SubSeq(Gpt2(t), Units(t, m) + 1, Units(t, n))
                  = Gpt2(SubSeq(t, m + 1, n))
           /\ Units(t, m) =< Units(t, n) /\ Units(t, n) =< Len(Gpt2(t))
<1>1. Len(t) \in Nat
  OBVIOUS
<1>2. n \in 0 .. Len(t) /\ Len(t) \in n .. Len(t) /\ Len(t) \in 0 .. Len(t)
      /\ 0 \in 0 .. Len(t) /\ 0 + 1 = 1
  BY <1>1
<1> DEFINE a == Gpt2(SubSeq(t, 1, m))
           b == Gpt2(SubSeq(t, m + 1, n))
           c == Gpt2(SubSeq(t, n + 1, Len(t)))
           g == Gpt2(t)
<1>3. a \in Seq(Byte) /\ b \in Seq(Byte) /\ c \in Seq(Byte)
  <2>1. Gpt2(SubSeq(t, 0 + 1, m)) \in Seq(Byte)
    BY <1>2, PartType
  <2>2. b \in Seq(Byte)
    BY <1>2, PartType
  <2>3. c \in Seq(Byte)
    BY <1>2, PartType
  <2> QED BY <1>2, <2>1, <2>2, <2>3
<1>4. Gpt2(SubSeq(t, 1, n)) = a \o b /\ Units(t, n) = Len(a) + Len(b)
  BY Gpt2Cut DEF Units
<1>5. Gpt2(SubSeq(t, 1, Len(t))) = Gpt2(SubSeq(t, 1, n)) \o c
      /\ Units(t, Len(t)) = Units(t, n) + Len(c)
  BY <1>2, Gpt2Cut
<1>6. g = (a \o b) \o c
  BY <1>4, <1>5, SubSeqFull
<1>7. Units(t, m) = Len(a)
  BY DEF Units
<1>8. Units(t, Len(t)) = Len(g)
  BY UnitsEnds
<1> HIDE DEF a, b, c, g
<1>9. SubSeq(g, Units(t, m) + 1, Units(t, n)) = b
  <2>1. SubSeq((a \o b) \o c, Len(a) + 1, Len(a) + Len(b)) = b
    BY ONLY <1>3, Middle
  <2> QED BY <1>4, <1>6, <1>7, <2>1
<1>10. Len(a) \in Nat /\ Len(b) \in Nat /\ Len(c) \in Nat
  BY <1>3
<1>11. Units(t, m) =< Units(t, n) /\ Units(t, n) =< Len(g)
  BY <1>4, <1>5, <1>7, <1>8, <1>10
<1> QED BY <1>9, <1>11 DEF b, g

LEMMA NextBoundary ==
    ASSUME NEW t \in Seq(Byte), NEW m \in 0 .. Len(t), m < Len(t)
    PROVE  /\ t[m + 1] \in Byte
           /\ Units(t, m + 1) = Units(t, m) + Len(Char[t[m + 1]])
           /\ SubSeq(Gpt2(t), Units(t, m) + 1, Units(t, m + 1)) = Char[t[m + 1]]
           /\ Units(t, m + 1) =< Len(Gpt2(t))
<1>1. Len(t) \in Nat
  OBVIOUS
<1>2. m + 1 \in m .. Len(t) /\ m + 1 \in 1 .. Len(t) /\ m \in 0 .. Len(t)
  BY <1>1
<1>3. t[m + 1] \in Byte
  BY <1>2, ElementOfSeq
<1>4. SubSeq(t, m + 1, m + 1) = <<t[m + 1]>>
  <2> DEFINE k == m + 1
             x == SubSeq(t, k, k)
  <2>1. k \in Int /\ \A i \in k .. k : t[i] \in Byte
    BY <1>2, <1>3
  <2> HIDE DEF k
  <2>2. /\ x \in Seq(Byte)
        /\ Len(x) = IF k =< k THEN k - k + 1 ELSE 0
        /\ \A i \in 1 .. k - k + 1 : x[i] = t[k + i - 1]
    BY <2>1, SubSeqProperties
  <2> HIDE DEF x
  <2>3. Len(x) = 1 /\ x[1] = t[k]
    <3>1. k - k + 1 = 1 /\ k + 1 - 1 = k /\ 1 \in 1 .. 1 /\ k =< k
      BY <2>1
    <3>2. x[1] = t[k + 1 - 1]
      BY <2>2, <3>1
    <3> QED BY <2>2, <3>1, <3>2
  <2>4. x = <<t[k]>>
    BY <2>2, <2>3
  <2> QED BY <2>4 DEF k, x
<1>5. Gpt2(SubSeq(t, m + 1, m + 1)) = Char[t[m + 1]]
  BY <1>3, <1>4, Gpt2One
<1>6. Units(t, m + 1) = Units(t, m) + Len(Gpt2(SubSeq(t, m + 1, m + 1)))
  BY <1>2, Gpt2Cut
<1>7. /\ SubSeq(Gpt2(t), Units(t, m) + 1, Units(t, m + 1))
              = Gpt2(SubSeq(t, m + 1, m + 1))
      /\ Units(t, m + 1) =< Len(Gpt2(t))
  BY <1>2, Gpt2Slice
<1> QED BY <1>3, <1>5, <1>6, <1>7

\* A place in the spelling is a boundary or behind the first unit of two.
LEMMA BoundaryOrInside ==
    ASSUME NEW t \in Seq(Byte), NEW p \in 0 .. Len(Gpt2(t))
    PROVE  \E m \in 0 .. Len(t) :
               \/ p = Units(t, m)
               \/ /\ m < Len(t)
                  /\ p = Units(t, m) + 1
                  /\ Len(Char[t[m + 1]]) = 2
<1> DEFINE At(q) == \E m \in 0 .. Len(t) :
                       \/ q = Units(t, m)
                       \/ /\ m < Len(t)
                          /\ q = Units(t, m) + 1
                          /\ Len(Char[t[m + 1]]) = 2
           T == {n \in Nat : n =< Len(t) => \A q \in 0 .. Units(t, n) : At(q)}
<1>1. Len(t) \in Nat
  OBVIOUS
<1>2. 0 \in T
  <2>1. 0 \in 0 .. Len(t)
    BY <1>1
  <2>2. \A q \in 0 .. Units(t, 0) : q = Units(t, 0)
    BY UnitsEnds
  <2> QED BY <2>1, <2>2
<1>3. ASSUME NEW n \in Nat, n \in T
      PROVE  n + 1 \in T
  <2> SUFFICES ASSUME n + 1 =< Len(t), NEW q \in 0 .. Units(t, n + 1)
               PROVE  At(q)
    OBVIOUS
  <2>1. n \in 0 .. Len(t) /\ n < Len(t) /\ n + 1 \in 0 .. Len(t) /\ n =< Len(t)
    BY <1>1
  <2>2. Units(t, n + 1) = Units(t, n) + Len(Char[t[n + 1]]) /\ t[n + 1] \in Byte
    BY <2>1, NextBoundary
  <2>3. Len(Char[t[n + 1]]) \in {1, 2}
    BY <2>2, CharFacts
  <2>4. Units(t, n) \in Nat
    BY <2>1, PartType
  <2> DEFINE u == Units(t, n)
             v == Units(t, n + 1)
             k == Len(Char[t[n + 1]])
  <2>5. u \in Nat /\ k \in {1, 2} /\ v = u + k /\ q \in 0 .. v
    BY <2>2, <2>3, <2>4
  <2>6. CASE q \in 0 .. u
    BY <1>3, <2>1, <2>6
  <2> HIDE DEF u, v, k
  <2>7. CASE q \notin 0 .. u
    <3>1. q = v \/ (q = u + 1 /\ k = 2)
      BY <2>5, <2>7
    <3> QED BY <2>1, <3>1 DEF u, v, k
  <2> QED BY <2>6, <2>7
<1>4. \A n \in Nat : n \in T
  <2> HIDE DEF T
  <2> QED BY <1>2, <1>3, NatInductive
<1>5. \A q \in 0 .. Units(t, Len(t)) : At(q)
  BY <1>1, <1>4
<1> QED BY <1>5, UnitsEnds

\* A whole slice that starts at a boundary ends at one.
LEMMA WholeSlice ==
    ASSUME NEW t \in Seq(Byte), NEW m \in 0 .. Len(t), NEW n \in Nat \ {0},
           Units(t, m) + n =< Len(Gpt2(t)),
           Whole(SubSeq(Gpt2(t), Units(t, m) + 1, Units(t, m) + n))
    PROVE  \E k \in m + 1 .. Len(t) :
               /\ Units(t, k) = Units(t, m) + n
               /\ SubSeq(Gpt2(t), Units(t, m) + 1, Units(t, m) + n)
                      = Gpt2(SubSeq(t, m + 1, k))
<1> DEFINE g == Gpt2(t)
           p == Units(t, m)
           s == SubSeq(g, p + 1, p + n)
<1>1. Len(t) \in Nat /\ p \in Nat /\ g \in Seq(Byte) /\ Len(g) \in Nat
  BY PartType, Gpt2Type, LenProperties
<1>2. p + n \in 0 .. Len(g)
  BY <1>1
<1>3. PICK k \in 0 .. Len(t) :
          \/ p + n = Units(t, k)
          \/ /\ k < Len(t)
             /\ p + n = Units(t, k) + 1
             /\ Len(Char[t[k + 1]]) = 2
  BY <1>2, BoundaryOrInside
<1>4. Units(t, k) \in Nat
  BY PartType
<1>5. CASE p + n = Units(t, k)
  <2>1. k > m
    <3>1. CASE m \in k .. Len(t)
      <4>1. Units(t, k) =< Units(t, m)
        BY <3>1, Gpt2Slice
      <4> QED BY <1>1, <1>5, <4>1
    <3>2. CASE m \notin k .. Len(t)
      BY <1>1, <3>2
    <3> QED BY <3>1, <3>2
  <2>2. k \in m .. Len(t) /\ k \in m + 1 .. Len(t)
    BY <1>1, <2>1
  <2>3. SubSeq(g, p + 1, Units(t, k)) = Gpt2(SubSeq(t, m + 1, k))
    BY <2>2, Gpt2Slice
  <2> QED BY <1>5, <2>2, <2>3
<1>6. CASE /\ k < Len(t)
           /\ p + n = Units(t, k) + 1
           /\ Len(Char[t[k + 1]]) = 2
  <2> DEFINE q == Units(t, k)
             c == Char[t[k + 1]]
  <2>1. /\ t[k + 1] \in Byte
        /\ Units(t, k + 1) = q + 2
        /\ SubSeq(g, q + 1, Units(t, k + 1)) = c
        /\ q + 2 =< Len(g)
    BY <1>6, NextBoundary
  <2>2. c[1] \in 192 .. 223
    <3>1. \/ Len(c) = 1
          \/ Len(c) = 2 /\ c[1] \in 192 .. 223
      BY <2>1, CharFacts
    <3> QED BY <1>6, <3>1
  <2>3. g[q + 1] = c[1]
    <3> HIDE DEF g, q, c
    <3>1. SubSeq(g, q + 1, q + 2) = c
      BY <2>1
    <3>2. q \in Nat
      BY <1>4 DEF q
    <3>3. /\ q + 1 \in Int /\ q + 2 \in Int /\ 1 \in 1 .. (q + 2) - (q + 1) + 1
          /\ (q + 1) + 1 - 1 = q + 1
          /\ \A i \in q + 1 .. q + 2 : g[i] \in Byte
      BY <1>1, <2>1, <3>2
    <3>4. SubSeq(g, q + 1, q + 2)[1] = g[(q + 1) + 1 - 1]
      BY <3>3, SubSeqProperties
    <3> QED BY <3>1, <3>3, <3>4
  <2>4. /\ Len(s) = n /\ DOMAIN s = 1 .. n
        /\ s[n] = g[p + n]
    <3> HIDE DEF g, p
    <3>1. /\ p + 1 \in Int /\ p + n \in Int
          /\ \A i \in p + 1 .. p + n : g[i] \in Byte
          /\ (p + n) - (p + 1) + 1 = n /\ n \in 1 .. n /\ p + 1 =< p + n
          /\ (p + 1) + n - 1 = p + n
      BY <1>1, <1>2
    <3>2. /\ s \in Seq(Byte) /\ Len(s) = IF p + 1 =< p + n THEN (p + n) - (p + 1) + 1 ELSE 0
          /\ \A i \in 1 .. (p + n) - (p + 1) + 1 : s[i] = g[(p + 1) + i - 1]
      BY <3>1, SubSeqProperties, SMTT(40)
    <3> HIDE DEF s
    <3> QED BY <3>1, <3>2
  <2>5. s[n] \in 192 .. 223
    BY <1>6, <2>2, <2>3, <2>4
  <2>6. ~Continues(s[n]) /\ Utf8Len(s[n]) = 2
    <3> HIDE DEF s
    <3> QED BY <2>5, LeadUnit
  <2>7. Whole(s)
    OBVIOUS
  <2> HIDE DEF s
  <2>8. n + Utf8Len(s[n]) - 1 =< Len(s)
    BY <2>4, <2>6, <2>7 DEF Whole
  <2> QED BY <2>4, <2>6, <2>8
<1> QED BY <1>3, <1>5, <1>6

-----------------------------------------------------------------------------
(* The tables.                                                             *)

TokenText == [id \in Id |-> Vocab[id].text]
TokenBytes == [id \in Id |-> BytesOf(id)]

\* The spelling of a list of tokens.
Spelling(ids) == Cat(TokenText, ids)

LEMMA EntryFacts ==
    ASSUME NEW id \in Id
    PROVE  /\ Vocab[id].text \in Seq(Byte)
           /\ TokenText[id] = Vocab[id].text
           /\ Vocab[id].is_byte_fallback => Len(Vocab[id].text) = 1
           /\ ~Vocab[id].is_byte_fallback => Whole(Vocab[id].text)
           /\ id \in 1 .. Len(Vocab) /\ Len(Vocab) \in Nat
<1>1. Vocab \in Seq(Entries)
  BY TokenizerAssumption
<1>2. DOMAIN Vocab = 1 .. Len(Vocab) /\ Len(Vocab) \in Nat
  BY <1>1
<1>3. Vocab[id] \in Entries
  BY <1>1, <1>2, ElementOfSeq DEF Id
<1>4. Vocab[id].text \in Seq(Byte)
  BY <1>3 DEF Entries
<1>5. /\ Vocab[id].is_byte_fallback => Len(Vocab[id].text) = 1
      /\ ~Vocab[id].is_byte_fallback => Whole(Vocab[id].text)
  BY TokenizerAssumption
<1> QED BY <1>2, <1>4, <1>5 DEF Id, TokenText

LEMMA TokenTextMaps == Maps(TokenText, Id, Seq(Byte))
BY EntryFacts DEF Maps, TokenText

LEMMA BytesOfType ==
    ASSUME NEW id \in Id
    PROVE  BytesOf(id) \in Seq(Byte)
<1> DEFINE s == Vocab[id].text
<1>1. /\ s \in Seq(Byte)
      /\ ~Vocab[id].is_byte_fallback => Whole(s)
  BY EntryFacts
<1>2. BytesOf(id) \in {<<>>, s} \/ (Whole(s) /\ BytesOf(id) = FromGpt2(s))
  BY <1>1 DEF BytesOf
<1> HIDE DEF s
<1>3. Whole(s) => FromGpt2(s) \in Seq(Byte)
  BY <1>1, FromEachFacts, FlattenType
<1>4. <<>> \in Seq(Byte)
  OBVIOUS
<1>5. CASE BytesOf(id) = <<>>
  BY <1>4, <1>5
<1>6. CASE BytesOf(id) = s
  BY <1>1, <1>6
<1>7. CASE Whole(s) /\ BytesOf(id) = FromGpt2(s)
  BY <1>3, <1>7
<1> QED BY <1>2, <1>5, <1>6, <1>7

LEMMA TokenBytesMaps == Maps(TokenBytes, Id, Seq(Byte))
BY BytesOfType DEF Maps, TokenBytes

LEMMA TokenFound ==
    ASSUME NEW s \in Spellings
    PROVE  TokenToId(s) \in Id /\ Vocab[TokenToId(s)].text = s
<1> DEFINE S == {id \in Id : Vocab[id].text = s}
<1>1. S # {}
  BY DEF Spellings
<1>2. S \subseteq 0 .. Len(Vocab) /\ Len(Vocab) \in Nat
  <2>1. \A id \in Id : id \in 1 .. Len(Vocab) /\ Len(Vocab) \in Nat
    BY EntryFacts
  <2> QED BY <1>1, <2>1
<1> HIDE DEF S
<1>3. Max(S) \in S
  BY <1>1, <1>2, MaxIsMember
<1> QED BY <1>3 DEF S, TokenToId

\* A token that was looked up, and spells some bytes.
Legible(id) ==
    /\ id \in Id
    /\ TokenToId(Vocab[id].text) = id
    /\ \E bs \in Seq(Byte) : bs # <<>> /\ Vocab[id].text = Gpt2(bs)

LEMMA LookedUpIsLegible ==
    ASSUME NEW bs \in Seq(Byte), bs # <<>>, Gpt2(bs) \in Spellings
    PROVE  /\ Legible(TokenToId(Gpt2(bs)))
           /\ Vocab[TokenToId(Gpt2(bs))].text = Gpt2(bs)
BY TokenFound DEF Legible

LEMMA Gpt2NotEmpty ==
    ASSUME NEW bs \in Seq(Byte), bs # <<>>
    PROVE  Len(Gpt2(bs)) \in Nat /\ Len(Gpt2(bs)) >= 1
<1>1. Len(bs) \in Nat /\ 0 < Len(bs) /\ 0 \in 0 .. Len(bs)
  BY EmptySeq
<1>2. bs[0 + 1] \in Byte /\ Units(bs, 0 + 1) =< Len(Gpt2(bs))
      /\ Units(bs, 0 + 1) = Units(bs, 0) + Len(Char[bs[0 + 1]])
  BY <1>1, NextBoundary
<1>3. Len(Char[bs[0 + 1]]) \in {1, 2}
  BY <1>2, CharFacts
<1>4. Units(bs, 0) = 0
  BY UnitsEnds
<1>5. Len(Gpt2(bs)) \in Nat
  BY Gpt2Type, LenProperties
<1>6. ASSUME NEW u, NEW l, NEW n \in Nat, l \in {1, 2}, u = 0 + l, u =< n
      PROVE  n >= 1
  BY <1>6
<1> HIDE DEF Units
<1>7. Len(Gpt2(bs)) >= 1
  BY ONLY <1>2, <1>3, <1>4, <1>5, <1>6
<1> QED BY <1>5, <1>7

\* decode gives the bytes of a legible token it does not skip: the ones it
\* spells, also when the token is a raw byte.
LEMMA LegibleBytes ==
    ASSUME NEW id, Legible(id), ~Skipped(id)
    PROVE  BytesOf(id) \in Seq(Byte) /\ Gpt2(BytesOf(id)) = Vocab[id].text
<1> DEFINE s == Vocab[id].text
<1>1. PICK bs \in Seq(Byte) : bs # <<>> /\ s = Gpt2(bs)
  BY DEF Legible
<1>2. /\ id \in Id
      /\ Vocab[id].is_byte_fallback => Len(s) = 1
  BY EntryFacts DEF Legible
<1>3. CASE Vocab[id].is_byte_fallback
  <2>1. BytesOf(id) = s /\ Len(s) = 1
    BY <1>2, <1>3 DEF BytesOf
  <2>2. Len(bs) \in Nat /\ 0 < Len(bs)
    BY <1>1, EmptySeq
  <2>3. bs[1] \in Byte /\ SubSeq(s, 1, Units(bs, 1)) = Char[bs[1]] /\ Units(bs, 1) =< Len(s)
        /\ Units(bs, 1) = Len(Char[bs[1]])
    <3>1. 0 \in 0 .. Len(bs) /\ 0 + 1 = 1 /\ Units(bs, 0) = 0
      BY <2>2, UnitsEnds
    <3>2. /\ bs[0 + 1] \in Byte
          /\ Units(bs, 0 + 1) = Units(bs, 0) + Len(Char[bs[0 + 1]])
          /\ SubSeq(Gpt2(bs), Units(bs, 0) + 1, Units(bs, 0 + 1)) = Char[bs[0 + 1]]
          /\ Units(bs, 0 + 1) =< Len(Gpt2(bs))
      BY <2>2, <3>1, NextBoundary
    <3>3. bs[1] \in Byte
      BY <3>1, <3>2
    <3>4. Len(Char[bs[1]]) \in Nat
      BY <3>3, CharFacts
    <3>5. Units(bs, 1) = 0 + Len(Char[bs[1]])
      BY ONLY <3>1, <3>2
    <3>6. Units(bs, 1) = Len(Char[bs[1]])
      BY ONLY <3>4, <3>5
    <3>7. SubSeq(Gpt2(bs), 1, Units(bs, 1)) = Char[bs[1]] /\ Units(bs, 1) =< Len(Gpt2(bs))
      BY ONLY <3>1, <3>2
    <3> QED BY <1>1, <3>3, <3>6, <3>7
  <2> DEFINE b == bs[1]
  <2>4. Len(Char[b]) = 1 /\ Char[b] = <<b>>
    <3>1. \/ Len(Char[b]) = 1 /\ Char[b] = <<b>>
          \/ Len(Char[b]) = 2
      BY <2>3, CharFacts
    <3>2. ~(Len(Char[b]) = 2)
      <4>1. Len(Char[b]) =< Len(s)
        BY ONLY <2>3
      <4>2. Len(s) = 1
        BY <2>1
      <4>3. Len(Char[b]) \in Nat
        BY <2>3, CharFacts
      <4>4. \A c \in Nat : \A d : c =< d /\ d = 1 => c # 2
        OBVIOUS
      <4> QED BY <4>1, <4>2, <4>3, <4>4
    <3> QED BY <3>1, <3>2, Zenon
  <2>5. s \in Seq(Byte)
    BY <1>2, EntryFacts
  <2> HIDE DEF s, b
  <2>6. s = Char[b]
    <3>1. SubSeq(s, 1, Len(s)) = s
      BY <2>5, SubSeqFull
    <3> QED BY <2>1, <2>3, <2>4, <3>1 DEF b
  <2>7. BytesOf(id) = <<b>> /\ b \in Byte
    BY <2>1, <2>3, <2>4, <2>6 DEF b
  <2>8. Gpt2(<<b>>) = Char[b]
    BY <2>7, Gpt2One
  <2> QED BY <2>6, <2>7, <2>8 DEF s
<1>4. CASE ~Vocab[id].is_byte_fallback
  <2>1. BytesOf(id) = FromGpt2(s)
    BY <1>4 DEF BytesOf
  <2>2. FromGpt2(Gpt2(bs)) = bs
    BY SpellingReadsBack
  <2> QED BY <1>1, <2>1, <2>2
<1> QED BY <1>3, <1>4

LEMMA SpellingType ==
    ASSUME NEW ids \in Seq(Id)
    PROVE  Spelling(ids) \in Seq(Byte)
BY TokenTextMaps, CatType DEF Spelling

LEMMA SpellingOne ==
    ASSUME NEW id \in Id
    PROVE  Spelling(<<id>>) = Vocab[id].text
BY TokenTextMaps, CatOne, EntryFacts DEF Spelling

LEMMA SpellingConcat ==
    ASSUME NEW s \in Seq(Id), NEW t \in Seq(Id)
    PROVE  Spelling(s \o t) = Spelling(s) \o Spelling(t)
<1>1. Cat(TokenText, s \o t) = Cat(TokenText, s) \o Cat(TokenText, t)
  BY TokenTextMaps, CatConcat
<1> QED BY ONLY <1>1 DEF Spelling

LEMMA DecodeIsCat ==
    ASSUME NEW ids \in Seq(Id)
    PROVE  Decode(ids) = Cat(TokenBytes, ids) /\ Decode(ids) \in Seq(Byte)
<1>1. DOMAIN ids = 1 .. Len(ids) /\ \A i \in 1 .. Len(ids) : ids[i] \in Id
  OBVIOUS
<1>2. \A i \in DOMAIN ids : BytesOf(ids[i]) = TokenBytes[ids[i]]
  BY <1>1 DEF TokenBytes
<1>3. [i \in DOMAIN ids |-> BytesOf(ids[i])] = [i \in DOMAIN ids |-> TokenBytes[ids[i]]]
  BY <1>2
<1>4. Decode(ids) = Cat(TokenBytes, ids)
  BY <1>3 DEF Decode, Cat, Each
<1> QED BY <1>4, TokenBytesMaps, CatType

\* What decode gives for legible tokens has their spelling.
LEMMA DecodedSpelling ==
    ASSUME NEW ids \in Seq(Id),
           \A i \in 1 .. Len(ids) : Legible(ids[i]) /\ ~Skipped(ids[i])
    PROVE  Gpt2(Decode(ids)) = Spelling(ids)
<1> DEFINE Good(s) == Gpt2(Decode(s)) = Spelling(s)
           T == {n \in Nat : n =< Len(ids) => Good(SubSeq(ids, 1, n))}
<1>1. Len(ids) \in Nat /\ \A i \in 1 .. Len(ids) : ids[i] \in Id
  OBVIOUS
<1>2. 0 \in T
  <2>1. SubSeq(ids, 1, 0) = <<>>
    BY SubSeqEmpty, 0 < 1
  <2>2. Decode(<<>>) = <<>> /\ Spelling(<<>>) = <<>>
    <3>1. <<>> \in Seq(Id)
      OBVIOUS
    <3> QED BY <3>1, DecodeIsCat, CatEmpty DEF Spelling
  <2>3. Good(<<>>)
    BY <2>2, Gpt2Empty
  <2> HIDE DEF Good
  <2> QED BY <2>1, <2>3
<1>3. ASSUME NEW n \in Nat, n \in T
      PROVE  n + 1 \in T
  <2> SUFFICES ASSUME n + 1 =< Len(ids)
               PROVE  Good(SubSeq(ids, 1, n + 1))
    OBVIOUS
  <2> DEFINE s == SubSeq(ids, 1, n)
             id == ids[n + 1]
  <2>1. n + 1 \in 1 .. Len(ids) /\ n =< Len(ids)
    BY <1>1
  <2>2. s \in Seq(Id)
    BY <1>1, <2>1
  <2>3. id \in Id /\ Legible(id) /\ ~Skipped(id)
    BY <1>1, <2>1
  <2>4. SubSeq(ids, 1, n + 1) = s \o <<id>>
    <3>1. 1 \in 1 .. Len(ids) /\ n + 1 \in 1 .. Len(ids) /\ (n + 1) - 1 = n
      BY <1>1, <2>1
    <3>2. SubSeq(ids, 1, n + 1) = SubSeq(ids, 1, (n + 1) - 1) \o <<ids[n + 1]>>
      BY <3>1, SubSeqRecursiveSecond
    <3> QED BY <3>1, <3>2
  <2>5. Good(s)
    BY <1>3, <2>1
  <2> HIDE DEF s, id
  <2>6. <<id>> \in Seq(Id)
    BY <2>3
  <2>7. Decode(s) \in Seq(Byte) /\ Decode(s \o <<id>>) = Decode(s) \o BytesOf(id)
    <3>1. Cat(TokenBytes, s \o <<id>>) = Cat(TokenBytes, s) \o Cat(TokenBytes, <<id>>)
      <4> DEFINE y == <<id>>
      <4>1. y \in Seq(Id)
        BY <2>6
      <4> HIDE DEF y
      <4>2. Cat(TokenBytes, s \o y) = Cat(TokenBytes, s) \o Cat(TokenBytes, y)
        BY ONLY <2>2, <4>1, TokenBytesMaps, CatConcat
      <4> QED BY <4>2 DEF y
    <3>2. Cat(TokenBytes, <<id>>) = BytesOf(id)
      BY <2>3, TokenBytesMaps, CatOne DEF TokenBytes
    <3>3. s \o <<id>> \in Seq(Id)
      BY <2>2, <2>6
    <3>4. Decode(s \o <<id>>) = Cat(TokenBytes, s \o <<id>>)
      BY <3>3, DecodeIsCat
    <3> QED BY <2>2, <3>1, <3>2, <3>4, DecodeIsCat
  <2>8. Spelling(s \o <<id>>) = Spelling(s) \o Vocab[id].text
    BY <2>2, <2>3, <2>6, SpellingConcat, SpellingOne
  <2>9. BytesOf(id) \in Seq(Byte) /\ Gpt2(BytesOf(id)) = Vocab[id].text
    BY <2>3, LegibleBytes
  <2>10. Gpt2(Decode(s) \o BytesOf(id)) = Gpt2(Decode(s)) \o Gpt2(BytesOf(id))
    BY <2>7, <2>9, Gpt2Concat
  <2> QED BY <2>4, <2>5, <2>7, <2>8, <2>9, <2>10
<1>4. \A n \in Nat : n \in T
  <2> HIDE DEF T
  <2> QED BY <1>2, <1>3, NatInductive
<1>5. Good(SubSeq(ids, 1, Len(ids)))
  BY <1>1, <1>4
<1> QED BY <1>5, SubSeqFull

-----------------------------------------------------------------------------
(* The longest match.                                                      *)

\* Where the matching is: at a boundary, with part of the text covered.
AtBoundary(m) ==
    /\ text \in Seq(Byte) /\ units = Gpt2(text)
    /\ m \in 0 .. Len(text) /\ pos = Units(text, m)

LEMMA BoundaryFacts ==
    ASSUME NEW m, AtBoundary(m)
    PROVE  /\ units \in Seq(Byte) /\ Len(units) \in Nat /\ Len(text) \in Nat
           /\ pos \in Nat /\ pos =< Len(units)
           /\ pos < Len(units) => m < Len(text)
           /\ m = Len(text) => pos = Len(units)
<1>1. Len(text) \in Nat /\ units \in Seq(Byte) /\ Len(units) \in Nat
  BY Gpt2Type, LenProperties DEF AtBoundary
<1>2. pos \in Nat
  BY PartType DEF AtBoundary
<1>3. m \in m .. Len(text)
  BY <1>1 DEF AtBoundary
<1>4. pos =< Len(units)
  BY <1>3, Gpt2Slice DEF AtBoundary
<1>5. m = Len(text) => pos = Len(units)
  BY UnitsEnds DEF AtBoundary
<1>6. m \in 0 .. Len(text)
  BY DEF AtBoundary
<1> QED BY <1>1, <1>2, <1>4, <1>5, <1>6

\* A character with an entry is looked up sooner or later: its spelling is short.
LEMMA CharFound ==
    ASSUME NEW m, AtBoundary(m), m < Len(text), Char[text[m + 1]] \in Spellings
    PROVE  /\ text[m + 1] \in Byte
           /\ Len(Char[text[m + 1]]) \in MatchLengths
<1> DEFINE k == Len(Char[text[m + 1]])
<1>1. /\ text[m + 1] \in Byte
      /\ Units(text, m + 1) = pos + k
      /\ SubSeq(units, pos + 1, Units(text, m + 1)) = Char[text[m + 1]]
      /\ Units(text, m + 1) =< Len(units)
  BY NextBoundary DEF AtBoundary
<1>2. k \in {1, 2}
  BY <1>1, CharFacts
<1>3. k \in 1 .. MaxMatch
  <2>1. MaxMatch \in Nat /\ MaxMatch >= 2
    BY TokenizerAssumption
  <2> HIDE DEF k
  <2> QED BY <1>2, <2>1
<1>4. Slice(k) \in Spellings /\ pos + k =< Len(units)
  BY <1>1 DEF Slice
<1>5. k \in MatchLengths
  BY <1>3, <1>4 DEF MatchLengths
<1> QED BY <1>1, <1>5

LEMMA CharMatches ==
    ASSUME NEW m, AtBoundary(m), Spelled, m < Len(text)
    PROVE  /\ text[m + 1] \in Byte
           /\ Len(Char[text[m + 1]]) \in MatchLengths
<1>1. m + 1 \in DOMAIN text
  BY DEF AtBoundary
<1> QED BY <1>1, CharFound DEF Spelled

LEMMA LongestFacts ==
    ASSUME MatchLengths # {}
    PROVE  /\ Max(MatchLengths) \in MatchLengths
           /\ \A n \in MatchLengths : n =< Max(MatchLengths)
           /\ Max(MatchLengths) \in 1 .. MaxMatch
           /\ pos + Max(MatchLengths) =< Len(units)
           /\ Slice(Max(MatchLengths)) \in Spellings
<1>1. MatchLengths \subseteq 0 .. MaxMatch /\ MaxMatch \in Nat
  BY TokenizerAssumption DEF MatchLengths
<1> DEFINE n == Max(MatchLengths)
<1>2. n \in MatchLengths /\ \A k \in MatchLengths : n >= k
  BY <1>1, MaxIsMember
<1>3. \A k \in MatchLengths : k \in Nat
  BY <1>1
<1> HIDE DEF n
<1>4. \A k \in MatchLengths : k =< n
  BY <1>2, <1>3
<1>5. n \in 1 .. MaxMatch /\ pos + n =< Len(units) /\ Slice(n) \in Spellings
  BY <1>2 DEF MatchLengths
<1> QED BY <1>2, <1>4, <1>5 DEF n

\* The longest match covers whole characters.  A raw byte that happens to be
\* the first unit of a character is not it, for the character is longer.
LEMMA LongestIsWhole ==
    ASSUME NEW m, AtBoundary(m), Spelled, MatchLengths # {}
    PROVE  \E k \in m + 1 .. Len(text) :
               /\ pos + Max(MatchLengths) = Units(text, k)
               /\ Slice(Max(MatchLengths)) = Gpt2(SubSeq(text, m + 1, k))
<1> DEFINE n == Max(MatchLengths)
<1>1. /\ n \in MatchLengths /\ n \in 1 .. MaxMatch /\ pos + n =< Len(units)
      /\ \A j \in MatchLengths : j =< n
      /\ Slice(n) \in Spellings
  BY LongestFacts
<1> HIDE DEF n
<1>2. /\ pos \in Nat /\ units \in Seq(Byte) /\ Len(units) \in Nat /\ n \in Nat \ {0}
      /\ MaxMatch \in Nat /\ Len(text) \in Nat
      /\ m \in 0 .. Len(text) /\ units = Gpt2(text) /\ pos = Units(text, m)
      /\ text \in Seq(Byte)
      /\ pos < Len(units) => m < Len(text)
  <2>1. MaxMatch \in Nat
    BY TokenizerAssumption
  <2>2. n \in Nat \ {0}
    BY <1>1, <2>1
  <2> QED BY <2>1, <2>2, BoundaryFacts DEF AtBoundary
<1>3. PICK id \in Id : Vocab[id].text = Slice(n)
  BY <1>1 DEF Spellings
<1>4. CASE Whole(Slice(n))
  <2>1. /\ Units(text, m) + n =< Len(Gpt2(text))
        /\ Whole(SubSeq(Gpt2(text), Units(text, m) + 1, Units(text, m) + n))
    BY <1>1, <1>2, <1>4 DEF Slice
  <2>2. \E k \in m + 1 .. Len(text) :
            /\ Units(text, k) = Units(text, m) + n
            /\ SubSeq(Gpt2(text), Units(text, m) + 1, Units(text, m) + n)
                   = Gpt2(SubSeq(text, m + 1, k))
    BY <1>2, <2>1, WholeSlice
  <2> QED BY <1>2, <2>2 DEF Slice, n
<1>5. CASE ~Whole(Slice(n))
  <2>1. Len(Slice(n)) = 1
    BY <1>3, <1>5, EntryFacts
  <2>2. Len(Slice(n)) = n
    <3>1. n \in Nat /\ pos \in Nat /\ pos + n =< Len(units) /\ units \in Seq(Byte)
      BY <1>1, <1>2
    <3> QED BY ONLY <3>1, Part DEF Slice
  <2> DEFINE b == text[m + 1]
  <2>3. m < Len(text)
    BY <1>1, <1>2
  <2>4. b \in Byte /\ Len(Char[b]) \in MatchLengths
    BY <2>3, CharMatches
  <2>5. Len(Char[b]) \in {1, 2}
    BY <2>4, CharFacts
  <2>6. Len(Char[b]) = 1
    <3>1. n = 1
      BY <2>1, <2>2
    <3>2. Len(Char[b]) =< n
      BY <1>1, <2>4
    <3> HIDE DEF b
    <3> QED BY <2>5, <3>1, <3>2
  <2>7. /\ SubSeq(units, pos + 1, Units(text, m + 1)) = Char[b]
        /\ Units(text, m + 1) = pos + Len(Char[b])
    BY <1>2, <2>3, NextBoundary
  <2>8. Slice(n) = Char[b]
    BY <2>1, <2>2, <2>6, <2>7 DEF Slice
  <2> QED BY <1>5, <2>4, <2>8, WholeChar
<1> QED BY <1>4, <1>5

-----------------------------------------------------------------------------
(* The best pair and its merge.                                            *)

LEMMA RankType ==
    ASSUME NEW ids, NEW i \in Pairs(ids)
    PROVE  RankAt(ids, i) \in Nat
<1> DEFINE S == Ranks(ids[i], ids[i + 1])
<1>1. S # {}
  BY DEF Pairs
<1>2. S \subseteq DOMAIN Merges
  BY DEF Ranks, Rules
<1>3. DOMAIN Merges = 1 .. Len(Merges) /\ Len(Merges) \in Nat
  <2>1. Merges \in Seq(Seq(Byte) \X Seq(Byte))
    BY TokenizerAssumption
  <2> QED BY <2>1, LenProperties
<1> HIDE DEF S
<1>4. S \subseteq 0 .. Len(Merges)
  BY <1>2, <1>3
<1>5. Max(S) \in S
  BY <1>1, <1>3, <1>4, MaxIsMember
<1>6. Max(S) \in Nat
  <2>1. 0 .. Len(Merges) \subseteq Nat
    BY <1>3
  <2> QED BY <1>4, <1>5, <2>1
<1>7. RankAt(ids, i) = Max(S)
  BY DEF RankAt, S
<1> QED BY <1>6, <1>7

LEMMA BestPosFacts ==
    ASSUME NEW ids \in Seq(Id), Pairs(ids) # {}
    PROVE  BestPos(ids) \in 1 .. Len(ids) - 1
<1> DEFINE R == {RankAt(ids, i) : i \in Pairs(ids)}
           B == {i \in Pairs(ids) : \A j \in Pairs(ids) : RankAt(ids, i) <= RankAt(ids, j)}
<1>1. R \subseteq Nat /\ R # {}
  BY RankType
<1>2. PICK r \in R : \A s \in R : r =< s
  BY <1>1, LeastExists
<1>3. PICK i \in Pairs(ids) : r = RankAt(ids, i)
  OBVIOUS
<1>4. i \in B
  BY <1>2, <1>3
<1>5. Pairs(ids) \subseteq 1 .. Len(ids) - 1
  BY DEF Pairs
<1>6. B \subseteq Pairs(ids)
  OBVIOUS
<1>7. BestPos(ids) = Min(B)
  BY DEF BestPos
<1> HIDE DEF B
<1>8. B \subseteq Nat
  <2>1. Len(ids) \in Nat
    OBVIOUS
  <2>2. 1 .. Len(ids) - 1 \subseteq Nat
    BY <2>1
  <2> QED BY <1>5, <1>6, <2>2
<1>9. Min(B) \in B
  BY <1>4, <1>8, MinIsMember
<1> QED BY <1>5, <1>6, <1>7, <1>9

\* What a merge leaves where.
LEMMA MergeElements ==
    ASSUME NEW ids \in Seq(Id), NEW i \in 1 .. Len(ids) - 1,
           MergedText(ids, i) \in Spellings
    PROVE  /\ MergeAt(ids, i) \in Seq(Id)
           /\ Len(MergeAt(ids, i)) = Len(ids) - 1
           /\ \A j \in 1 .. Len(ids) - 1 :
                  MergeAt(ids, i)[j] =
                      IF j < i THEN ids[j]
                      ELSE IF j = i THEN TokenToId(MergedText(ids, i))
                      ELSE ids[j + 1]
<1> DEFINE new == TokenToId(MergedText(ids, i))
           s == [ids EXCEPT ![i] = new]
           n == Len(ids)
<1>1. new \in Id
  BY TokenFound
<1>2. n \in Nat /\ i \in 1 .. n /\ i + 1 \in 1 .. n
  OBVIOUS
<1>m. MergeAt(ids, i) = RemoveAt(s, i + 1)
  BY DEF MergeAt
<1> HIDE DEF new
<1>3. /\ s \in Seq(Id) /\ Len(s) = n
      /\ \A j \in 1 .. n : s[j] = IF j = i THEN new ELSE ids[j]
  BY <1>1, <1>2, ExceptSeq
<1> HIDE DEF s
<1> DEFINE a == SubSeq(s, 1, i)
           c == SubSeq(s, i + 2, n)
<1>4. RemoveAt(s, i + 1) = a \o c
  <2>1. (i + 1) - 1 = i /\ (i + 1) + 1 = i + 2
    BY <1>2
  <2> QED BY <1>3, <2>1 DEF RemoveAt
<1>5. \A j \in 1 .. n : s[j] \in Id
  BY <1>3, ElementOfSeq
<1>6. /\ a \in Seq(Id) /\ Len(a) = i
      /\ \A j \in 1 .. i : a[j] = s[j]
  <2>1. /\ \A j \in 1 .. i : s[j] \in Id
        /\ 1 \in Int /\ i \in Int /\ 1 =< i /\ i - 1 + 1 = i
        /\ \A j \in 1 .. i : 1 + j - 1 = j
    BY <1>2, <1>5
  <2>2. /\ a \in Seq(Id) /\ Len(a) = IF 1 =< i THEN i - 1 + 1 ELSE 0
        /\ \A j \in 1 .. i - 1 + 1 : a[j] = s[1 + j - 1]
    BY <2>1, SubSeqProperties
  <2> HIDE DEF a
  <2> QED BY <2>1, <2>2
<1>7. /\ c \in Seq(Id) /\ Len(c) = n - i - 1
      /\ \A j \in 1 .. n - i - 1 : c[j] = s[i + 1 + j]
  <2> DEFINE m == i + 1
             k == n - i - 1
  <2>1. /\ m \in Nat /\ k \in Nat /\ m + k =< Len(s)
        /\ m + 1 = i + 2 /\ m + k = n
    BY <1>2, <1>3
  <2> HIDE DEF m, k
  <2>2. /\ SubSeq(s, m + 1, m + k) \in Seq(Id)
        /\ Len(SubSeq(s, m + 1, m + k)) = k
        /\ \A j \in 1 .. k : SubSeq(s, m + 1, m + k)[j] = s[m + j]
    BY <1>3, <2>1, Part
  <2>3. SubSeq(s, m + 1, m + k) = c
    BY <2>1
  <2> HIDE DEF c
  <2> QED BY <2>2, <2>3 DEF m, k
<1> HIDE DEF a, c, n
<1>8. /\ a \o c \in Seq(Id) /\ Len(a \o c) = Len(a) + Len(c)
      /\ \A j \in 1 .. Len(a) + Len(c) :
             (a \o c)[j] = IF j =< Len(a) THEN a[j] ELSE c[j - Len(a)]
  BY <1>6, <1>7, ConcatProperties
<1>9. Len(a) + Len(c) = n - 1
  BY <1>2, <1>6, <1>7
<1>10. ASSUME NEW j \in 1 .. n - 1
       PROVE  (a \o c)[j] = IF j < i THEN ids[j] ELSE IF j = i THEN new ELSE ids[j + 1]
  <2>0. j \in 1 .. n /\ j + 1 \in 1 .. n
    BY <1>2
  <2>1. CASE j < i
    <3>1. j =< i /\ j \in 1 .. i /\ j # i
      BY <1>2, <2>1
    <3> QED BY <1>3, <1>6, <1>8, <1>9, <2>0, <2>1, <3>1
  <2>2. CASE j = i
    <3>1. j =< i /\ j \in 1 .. i
      BY <1>2, <2>2
    <3> QED BY <1>2, <1>3, <1>6, <1>8, <1>9, <2>0, <2>2, <3>1
  <2>3. CASE j > i
    <3>1. ~(j =< i) /\ ~(j < i) /\ j # i /\ j + 1 # i /\ j - i \in 1 .. n - i - 1
          /\ i + 1 + (j - i) = j + 1
      BY <1>2, <2>3
    <3>2. (a \o c)[j] = s[j + 1]
      BY <1>6, <1>7, <1>8, <1>9, <3>1
    <3>3. (a \o c)[j] = ids[j + 1]
      BY <1>3, <2>0, <3>1, <3>2
    <3> QED BY <3>1, <3>3
  <2>4. j < i \/ j = i \/ j > i
    BY <1>2
  <2> QED BY ONLY <2>1, <2>2, <2>3, <2>4
<1>11. /\ a \o c \in Seq(Id) /\ Len(a \o c) = Len(ids) - 1
       /\ \A j \in 1 .. Len(ids) - 1 :
              (a \o c)[j] = IF j < i THEN ids[j] ELSE IF j = i THEN new ELSE ids[j + 1]
  BY <1>8, <1>9, <1>10 DEF n
<1>12. MergeAt(ids, i) = a \o c
  BY <1>m, <1>4
<1> HIDE DEF a, c
<1> QED BY <1>11, <1>12 DEF new

\* A merge keeps the spelling.
LEMMA MergeKeepsSpelling ==
    ASSUME NEW ids \in Seq(Id), NEW i \in 1 .. Len(ids) - 1,
           MergedText(ids, i) \in Spellings
    PROVE  Spelling(MergeAt(ids, i)) = Spelling(ids)
<1> DEFINE new == TokenToId(MergedText(ids, i))
           n == Len(ids)
           x == ids[i]
           y == ids[i + 1]
           r == MergeAt(ids, i)
           a == SubSeq(ids, 1, i - 1)
           c == SubSeq(ids, i + 2, n)
<1>1. /\ new \in Id /\ Vocab[new].text = Vocab[x].text \o Vocab[y].text
      /\ n \in Nat /\ i \in 1 .. n /\ i + 1 \in 1 .. n
      /\ x \in Id /\ y \in Id
  <2>1. new \in Id /\ Vocab[new].text = MergedText(ids, i)
    BY TokenFound
  <2>2. n \in Nat /\ i \in 1 .. n /\ i + 1 \in 1 .. n
    OBVIOUS
  <2>3. x \in Id /\ y \in Id
    BY <2>2, ElementOfSeq
  <2> QED BY <2>1, <2>2, <2>3 DEF MergedText
<1>2. /\ r \in Seq(Id) /\ Len(r) = n - 1
      /\ \A j \in 1 .. n - 1 :
             r[j] = IF j < i THEN ids[j] ELSE IF j = i THEN new ELSE ids[j + 1]
  BY MergeElements
<1>3. \A j \in 1 .. n : ids[j] \in Id
  OBVIOUS
<1> HIDE DEF new, x, y, r
<1>4. /\ a \in Seq(Id) /\ Len(a) = i - 1
      /\ \A j \in 1 .. i - 1 : a[j] = ids[j]
  <2>1. /\ \A j \in 1 .. i - 1 : ids[j] \in Id
        /\ 1 \in Int /\ i - 1 \in Int /\ (i - 1) - 1 + 1 = i - 1
        /\ (IF 1 =< i - 1 THEN (i - 1) - 1 + 1 ELSE 0) = i - 1
        /\ \A j \in 1 .. i - 1 : 1 + j - 1 = j
    BY <1>1, <1>3
  <2>2. /\ a \in Seq(Id) /\ Len(a) = IF 1 =< i - 1 THEN (i - 1) - 1 + 1 ELSE 0
        /\ \A j \in 1 .. (i - 1) - 1 + 1 : a[j] = ids[1 + j - 1]
    BY <2>1, SubSeqProperties
  <2> HIDE DEF a
  <2> QED BY <2>1, <2>2
<1>5. /\ c \in Seq(Id) /\ Len(c) = n - i - 1
      /\ \A j \in 1 .. n - i - 1 : c[j] = ids[i + 1 + j]
  <2> DEFINE m == i + 1
             k == n - i - 1
  <2>1. /\ m \in Nat /\ k \in Nat /\ m + k =< Len(ids)
        /\ m + 1 = i + 2 /\ m + k = n
    BY <1>1
  <2> HIDE DEF m, k
  <2>2. /\ SubSeq(ids, m + 1, m + k) \in Seq(Id)
        /\ Len(SubSeq(ids, m + 1, m + k)) = k
        /\ \A j \in 1 .. k : SubSeq(ids, m + 1, m + k)[j] = ids[m + j]
    <3>1. ids \in Seq(Id)
      OBVIOUS
    <3> QED BY ONLY <2>1, <3>1, Part
  <2>3. SubSeq(ids, m + 1, m + k) = c
    BY <2>1
  <2> HIDE DEF c
  <2> QED BY <2>2, <2>3 DEF m, k
<1> HIDE DEF a, c, n
<1> DEFINE one == <<new>>
           two == <<x, y>>
<1>6. /\ one \in Seq(Id) /\ Len(one) = 1 /\ one[1] = new
      /\ two \in Seq(Id) /\ Len(two) = 2 /\ two[1] = x /\ two[2] = y
  BY <1>1
<1>7. Spelling(one) = Spelling(two)
  <2>1. two = <<x>> \o <<y>>
    <3> DEFINE p == <<x>>
               q == <<y>>
    <3>1. p \in Seq(Id) /\ q \in Seq(Id) /\ Len(p) = 1 /\ Len(q) = 1 /\ p[1] = x /\ q[1] = y
      BY <1>1
    <3> HIDE DEF p, q, two
    <3>2. /\ p \o q \in Seq(Id) /\ Len(p \o q) = Len(p) + Len(q)
          /\ \A j \in 1 .. Len(p) + Len(q) :
                 (p \o q)[j] = IF j =< Len(p) THEN p[j] ELSE q[j - Len(p)]
      BY <3>1, ConcatProperties
    <3>3. Len(p \o q) = 2 /\ (p \o q)[1] = x /\ (p \o q)[2] = y
      BY <3>1, <3>2
    <3>4. two = p \o q
      <4>1. \A j \in 1 .. Len(two) : j = 1 \/ j = 2
        BY <1>6
      <4>2. \A j \in 1 .. Len(two) : two[j] = (p \o q)[j]
        BY <1>6, <3>3, <4>1
      <4> QED BY <1>6, <3>2, <3>3, <4>2, SeqEqual
    <3> QED BY <3>4 DEF p, q
  <2>2. <<x>> \in Seq(Id) /\ <<y>> \in Seq(Id)
    BY <1>1
  <2>3. Spelling(<<x>> \o <<y>>) = Spelling(<<x>>) \o Spelling(<<y>>)
    <3> DEFINE p == <<x>>
               q == <<y>>
    <3>1. p \in Seq(Id) /\ q \in Seq(Id)
      BY <2>2
    <3> HIDE DEF p, q
    <3>2. Spelling(p \o q) = Spelling(p) \o Spelling(q)
      BY <3>1, SpellingConcat
    <3> QED BY <3>2 DEF p, q
  <2>4. /\ Spelling(<<x>>) = Vocab[x].text /\ Spelling(<<y>>) = Vocab[y].text
        /\ Spelling(<<new>>) = Vocab[new].text
    BY <1>1, SpellingOne
  <2> QED BY <1>1, <2>1, <2>3, <2>4
<1> HIDE DEF one, two
<1>8. ASSUME NEW z \in Seq(Id)
      PROVE  /\ (a \o z) \o c \in Seq(Id)
             /\ Len((a \o z) \o c) = (i - 1) + Len(z) + (n - i - 1)
             /\ \A j \in 1 .. (i - 1) + Len(z) + (n - i - 1) :
                    ((a \o z) \o c)[j] =
                        IF j < i THEN ids[j]
                        ELSE IF j =< (i - 1) + Len(z) THEN z[j - (i - 1)]
                        ELSE ids[(j - Len(z)) + 2]
             /\ Spelling((a \o z) \o c) = (Spelling(a) \o Spelling(z)) \o Spelling(c)
  <2> DEFINE az == a \o z
  <2>1. /\ az \in Seq(Id) /\ Len(az) = Len(a) + Len(z)
        /\ \A j \in 1 .. Len(a) + Len(z) :
               az[j] = IF j =< Len(a) THEN a[j] ELSE z[j - Len(a)]
    BY <1>4, ConcatProperties
  <2>2. Spelling(az) = Spelling(a) \o Spelling(z)
    BY <1>4, SpellingConcat
  <2> HIDE DEF az
  <2>3. /\ az \o c \in Seq(Id) /\ Len(az \o c) = Len(az) + Len(c)
        /\ \A j \in 1 .. Len(az) + Len(c) :
               (az \o c)[j] = IF j =< Len(az) THEN az[j] ELSE c[j - Len(az)]
    <3>1. az \in Seq(Id) /\ c \in Seq(Id)
      BY <1>5, <2>1
    <3> QED BY ONLY <3>1, ConcatProperties
  <2>4. Spelling(az \o c) = Spelling(az) \o Spelling(c)
    BY <1>5, <2>1, SpellingConcat
  <2>5. Len(z) \in Nat /\ Len(az) = (i - 1) + Len(z)
        /\ Len(az \o c) = (i - 1) + Len(z) + (n - i - 1)
        /\ Len(az) + Len(c) = (i - 1) + Len(z) + (n - i - 1)
    BY <1>1, <1>4, <1>5, <2>1, <2>3
  <2>6. ASSUME NEW j \in 1 .. (i - 1) + Len(z) + (n - i - 1)
        PROVE  (az \o c)[j] =
                   IF j < i THEN ids[j]
                   ELSE IF j =< (i - 1) + Len(z) THEN z[j - (i - 1)]
                   ELSE ids[(j - Len(z)) + 2]
    <3>1. CASE j < i
      <4>1. j \in 1 .. i - 1 /\ j =< i - 1 /\ j =< Len(az) /\ j \in 1 .. Len(a) + Len(z)
        BY <1>1, <1>4, <2>5, <3>1
      <4> QED BY <1>4, <2>1, <2>3, <2>5, <3>1, <4>1
    <3>2. CASE ~(j < i) /\ j =< (i - 1) + Len(z)
      <4>1. ~(j =< i - 1) /\ j =< Len(az) /\ j \in 1 .. Len(a) + Len(z)
        BY <1>1, <1>4, <2>5, <3>2
      <4> QED BY <1>4, <2>1, <2>3, <2>5, <3>2, <4>1
    <3>3. CASE ~(j < i) /\ ~(j =< (i - 1) + Len(z))
      <4>1. /\ ~(j =< Len(az)) /\ j - Len(az) \in 1 .. n - i - 1
            /\ i + 1 + (j - Len(az)) = (j - Len(z)) + 2
        BY <1>1, <2>5, <3>3
      <4> QED BY <1>5, <2>3, <2>5, <3>3, <4>1
    <3> QED BY <3>1, <3>2, <3>3
  <2> QED BY <2>2, <2>3, <2>4, <2>5, <2>6 DEF az
<1>9. r = (a \o one) \o c
  <2> DEFINE w == (a \o one) \o c
  <2>1. /\ w \in Seq(Id)
        /\ Len(w) = (i - 1) + 1 + (n - i - 1)
        /\ \A j \in 1 .. (i - 1) + 1 + (n - i - 1) :
               w[j] = IF j < i THEN ids[j]
                      ELSE IF j =< (i - 1) + 1 THEN one[j - (i - 1)]
                      ELSE ids[(j - 1) + 2]
    <3>1. one \in Seq(Id) /\ Len(one) = 1
      BY <1>6
    <3>2. /\ w \in Seq(Id)
          /\ Len(w) = (i - 1) + Len(one) + (n - i - 1)
          /\ \A j \in 1 .. (i - 1) + Len(one) + (n - i - 1) :
                 w[j] = IF j < i THEN ids[j]
                        ELSE IF j =< (i - 1) + Len(one) THEN one[j - (i - 1)]
                        ELSE ids[(j - Len(one)) + 2]
      BY <1>8, <3>1
    <3> HIDE DEF w
    <3> QED BY <3>1, <3>2
  <2> HIDE DEF w
  <2>2. Len(w) = n - 1 /\ (i - 1) + 1 + (n - i - 1) = n - 1
    BY <1>1, <2>1
  <2>3. ASSUME NEW j \in 1 .. n - 1
        PROVE  r[j] = w[j]
    <3>1. CASE j < i
      BY <1>2, <2>1, <2>2, <3>1
    <3>2. CASE j = i
      <4>1. ~(j < i) /\ j =< (i - 1) + 1 /\ j - (i - 1) = 1
        BY <1>1, <3>2
      <4> QED BY <1>2, <1>6, <2>1, <2>2, <3>2, <4>1
    <3>3. CASE j > i
      <4>1. ~(j < i) /\ j # i /\ ~(j =< (i - 1) + 1) /\ (j - 1) + 2 = j + 1
        BY <1>1, <3>3
      <4> QED BY <1>2, <2>1, <2>2, <4>1
    <3> QED BY <1>1, <3>1, <3>2, <3>3
  <2>4. r = w
    BY <1>2, <2>1, <2>2, <2>3, SeqEqual
  <2> QED BY <2>4 DEF w
<1>10. ids = (a \o two) \o c
  <2> DEFINE w == (a \o two) \o c
  <2>1. /\ w \in Seq(Id)
        /\ Len(w) = (i - 1) + 2 + (n - i - 1)
        /\ \A j \in 1 .. (i - 1) + 2 + (n - i - 1) :
               w[j] = IF j < i THEN ids[j]
                      ELSE IF j =< (i - 1) + 2 THEN two[j - (i - 1)]
                      ELSE ids[(j - 2) + 2]
    <3>1. two \in Seq(Id) /\ Len(two) = 2
      BY <1>6
    <3>2. /\ w \in Seq(Id)
          /\ Len(w) = (i - 1) + Len(two) + (n - i - 1)
          /\ \A j \in 1 .. (i - 1) + Len(two) + (n - i - 1) :
                 w[j] = IF j < i THEN ids[j]
                        ELSE IF j =< (i - 1) + Len(two) THEN two[j - (i - 1)]
                        ELSE ids[(j - Len(two)) + 2]
      BY <1>8, <3>1
    <3> HIDE DEF w
    <3> QED BY <3>1, <3>2
  <2> HIDE DEF w
  <2>2. Len(w) = n /\ (i - 1) + 2 + (n - i - 1) = n
    BY <1>1, <2>1
  <2>3. ASSUME NEW j \in 1 .. n
        PROVE  ids[j] = w[j]
    <3>1. CASE j < i
      BY <2>1, <2>2, <3>1
    <3>2. CASE j = i
      <4>1. ~(j < i) /\ j =< (i - 1) + 2 /\ j - (i - 1) = 1
        BY <1>1, <3>2
      <4> QED BY <1>6, <2>1, <2>2, <3>2, <4>1 DEF x
    <3>3. CASE j = i + 1
      <4>1. ~(j < i) /\ j =< (i - 1) + 2 /\ j - (i - 1) = 2
        BY <1>1, <3>3
      <4> QED BY <1>6, <2>1, <2>2, <3>3, <4>1 DEF y
    <3>4. CASE j > i + 1
      <4>1. ~(j < i) /\ ~(j =< (i - 1) + 2) /\ (j - 2) + 2 = j
        BY <1>1, <3>4
      <4> QED BY <2>1, <2>2, <4>1
    <3> QED BY <1>1, <3>1, <3>2, <3>3, <3>4
  <2>4. ids = w
    BY <2>1, <2>2, <2>3, SeqEqual DEF n
  <2> QED BY <2>4 DEF w
<1>11. /\ Spelling(r) = (Spelling(a) \o Spelling(one)) \o Spelling(c)
       /\ Spelling(ids) = (Spelling(a) \o Spelling(two)) \o Spelling(c)
  BY <1>6, <1>8, <1>9, <1>10
<1> QED BY <1>7, <1>11 DEF r

-----------------------------------------------------------------------------
(* The invariant.                                                          *)

\* The tokens so far are legible and spell the first m bytes of the text.
Covering(m) ==
    /\ AtBoundary(m)
    /\ working \in Seq(Id) /\ \A i \in 1 .. Len(working) : Legible(working[i])
    /\ Spelling(working) = Gpt2(SubSeq(text, 1, m))

LastText == Vocab[working[Len(working)]].text

\* The last token stands in the spelling where the matching found it, and no
\* longer entry of a length that is looked up stands there.
LastIsLongest ==
    working # <<>> =>
        \E p \in 0 .. Len(units) :
            /\ pos = p + Len(LastText)
            /\ LastText = SubSeq(units, p + 1, p + Len(LastText))
            /\ \A n \in 1 .. MaxMatch :
                   p + n =< Len(units) /\ SubSeq(units, p + 1, p + n) \in Spellings
                       => n =< Len(LastText)

\* Neighbours spell no entry together, but for one too long to be looked up.
Separate(ids) ==
    \A i \in 1 .. Len(ids) - 1 :
        MergedText(ids, i) \in Spellings => Len(MergedText(ids, i)) > MaxMatch

LongToken(ids) == \E i \in 1 .. Len(ids) : Len(Vocab[ids[i]].text) > MaxMatch

TInv ==
    /\ text \in Texts /\ units = Gpt2(text)
    /\ Spelled =>
           /\ phase \in {"match", "merge", "done"}
           /\ \E m \in 0 .. Len(text) :
                  Covering(m) /\ (phase # "match" => m = Len(text))
           /\ phase = "match" => LastIsLongest /\ Separate(working)
           /\ phase = "merge" => Separate(working) \/ LongToken(working)

LEMMA TextIsBytes ==
    ASSUME text \in Texts
    PROVE  text \in Seq(Byte) /\ Len(text) \in Nat
BY TokenizerAssumption

LEMMA TInvInit ==
    ASSUME Init
    PROVE  TInv
<1>1. text \in Texts /\ units = Gpt2(text) /\ pos = 0 /\ working = <<>> /\ phase = "match"
  BY DEF Init
<1>2. text \in Seq(Byte) /\ Len(text) \in Nat /\ 0 \in 0 .. Len(text)
  BY <1>1, TextIsBytes
<1>3. AtBoundary(0)
  BY <1>1, <1>2, UnitsEnds DEF AtBoundary
<1>4. Spelling(<<>>) = Gpt2(SubSeq(text, 1, 0))
  <2>1. SubSeq(text, 1, 0) = <<>>
    BY SubSeqEmpty, 0 < 1
  <2>2. Spelling(<<>>) = <<>>
    BY CatEmpty DEF Spelling
  <2> QED BY <2>1, <2>2, Gpt2Empty
<1>5. <<>> \in Seq(Id) /\ Len(<<>>) = 0
  OBVIOUS
<1>6. Covering(0)
  BY <1>1, <1>3, <1>4, <1>5 DEF Covering
<1>7. Separate(working) /\ LastIsLongest
  BY <1>1, <1>5 DEF Separate, LastIsLongest
<1> QED BY <1>1, <1>2, <1>6, <1>7 DEF TInv

\* At the end of the spelling the text is at its end too.
LEMMA CoveredText ==
    ASSUME NEW m, AtBoundary(m), pos >= Len(units)
    PROVE  m = Len(text)
<1>1. m \in 0 .. Len(text) /\ text \in Seq(Byte) /\ units = Gpt2(text) /\ pos = Units(text, m)
  BY DEF AtBoundary
<1>2. Len(text) \in Nat /\ Len(units) \in Nat /\ pos \in Nat
  BY BoundaryFacts
<1>3. ASSUME m < Len(text)
      PROVE  FALSE
  <2> DEFINE k == Len(Char[text[m + 1]])
  <2>1. text[m + 1] \in Byte /\ Units(text, m + 1) = pos + k /\ Units(text, m + 1) =< Len(units)
    BY <1>1, <1>3, NextBoundary
  <2>2. k \in {1, 2}
    BY <2>1, CharFacts
  <2>3. pos + k =< Len(units)
    BY <2>1
  <2> HIDE DEF k
  <2> QED BY <1>2, <2>2, <2>3
<1> QED BY <1>1, <1>2, <1>3

LEMMA AppendToken ==
    ASSUME NEW ids \in Seq(Id), NEW id \in Id
    PROVE  /\ Append(ids, id) \in Seq(Id)
           /\ Len(Append(ids, id)) = Len(ids) + 1 /\ Len(ids) \in Nat
           /\ \A i \in 1 .. Len(ids) : Append(ids, id)[i] = ids[i]
           /\ Append(ids, id)[Len(ids) + 1] = id
           /\ Spelling(Append(ids, id)) = Spelling(ids) \o Vocab[id].text
<1>1. /\ Append(ids, id) \in Seq(Id)
      /\ Len(Append(ids, id)) = Len(ids) + 1 /\ Len(ids) \in Nat
      /\ \A i \in 1 .. Len(ids) : Append(ids, id)[i] = ids[i]
      /\ Append(ids, id)[Len(ids) + 1] = id
  BY AppendProperties
<1>2. Append(ids, id) = ids \o <<id>>
  BY AppendIsConcat
<1> DEFINE y == <<id>>
<1>3. y \in Seq(Id)
  OBVIOUS
<1>4. Spelling(y) = Vocab[id].text
  BY SpellingOne
<1> HIDE DEF y
<1>5. Spelling(ids \o y) = Spelling(ids) \o Spelling(y)
  BY <1>3, SpellingConcat
<1> QED BY <1>1, <1>2, <1>4, <1>5 DEF y

\* A match covers the bytes it spells, with a token of its own.
LEMMA MatchStep ==
    ASSUME TInv, Spelled, MatchLongest
    PROVE  /\ \E m \in 0 .. Len(text) : Covering(m)'
           /\ LastIsLongest'
           /\ Separate(working')
<1> DEFINE n == Max(MatchLengths)
           id == TokenToId(Slice(n))
<1>1. /\ phase = "match" /\ MatchLengths # {}
      /\ working' = Append(working, id) /\ pos' = pos + n
      /\ text' = text /\ units' = units
  BY DEF MatchLongest
<1>2. PICK m \in 0 .. Len(text) : Covering(m)
  BY DEF TInv
<1>3. /\ AtBoundary(m) /\ working \in Seq(Id)
      /\ \A i \in 1 .. Len(working) : Legible(working[i])
      /\ Spelling(working) = Gpt2(SubSeq(text, 1, m))
  BY <1>2 DEF Covering
<1>4. /\ text \in Seq(Byte) /\ units = Gpt2(text) /\ pos = Units(text, m)
      /\ Len(text) \in Nat /\ Len(units) \in Nat /\ pos \in Nat /\ units \in Seq(Byte)
  BY <1>3, BoundaryFacts DEF AtBoundary
<1>5. PICK k \in m + 1 .. Len(text) :
          pos + n = Units(text, k) /\ Slice(n) = Gpt2(SubSeq(text, m + 1, k))
  BY <1>1, <1>3, LongestIsWhole
<1>6. /\ k \in 0 .. Len(text) /\ k \in m .. Len(text) /\ m =< k /\ k - m > 0
      /\ m \in Nat /\ k \in Nat
  BY <1>4
<1>7. /\ n \in MatchLengths /\ n \in 1 .. MaxMatch /\ pos + n =< Len(units)
      /\ \A j \in MatchLengths : j =< n
      /\ Slice(n) \in Spellings
  BY <1>1, LongestFacts
<1>8. MaxMatch \in Nat /\ n \in Nat /\ n >= 1
  <2>1. MaxMatch \in Nat
    BY TokenizerAssumption
  <2> HIDE DEF n
  <2> QED BY <1>7, <2>1
<1> HIDE DEF n
<1>9. Len(Slice(n)) = n
  <2>1. pos \in Nat /\ n \in Nat /\ pos + n =< Len(units) /\ units \in Seq(Byte)
    BY <1>4, <1>7, <1>8
  <2> QED BY ONLY <2>1, Part DEF Slice
<1>10. Legible(id) /\ id \in Id /\ Vocab[id].text = Slice(n)
  <2> DEFINE bs == SubSeq(text, m + 1, k)
  <2>1. bs \in Seq(Byte) /\ Len(bs) = IF m =< k THEN k - m ELSE 0
    BY <1>4, <1>6, PartType
  <2>2. Len(bs) > 0
    BY <1>6, <2>1
  <2> HIDE DEF bs
  <2>3. bs # <<>>
    BY <2>2
  <2>4. Slice(n) = Gpt2(bs)
    BY <1>5 DEF bs
  <2>5. Legible(id) /\ Vocab[id].text = Slice(n)
    BY <1>7, <2>1, <2>3, <2>4, LookedUpIsLegible
  <2> QED BY <2>5 DEF Legible
<1> HIDE DEF id
<1>11. /\ working' \in Seq(Id)
       /\ Len(working') = Len(working) + 1 /\ Len(working) \in Nat
       /\ \A i \in 1 .. Len(working) : working'[i] = working[i]
       /\ working'[Len(working) + 1] = id
       /\ Spelling(working') = Spelling(working) \o Vocab[id].text
  BY <1>1, <1>3, <1>10, AppendToken
<1>12. Covering(k)'
  <2>1. AtBoundary(k)'
    BY <1>1, <1>4, <1>5, <1>6 DEF AtBoundary
  <2>2. \A i \in 1 .. Len(working') : Legible(working'[i])
    <3>1. \A i \in 1 .. Len(working') : i \in 1 .. Len(working) \/ i = Len(working) + 1
      BY <1>11
    <3> QED BY <1>3, <1>10, <1>11, <3>1
  <2>3. Spelling(working') = Gpt2(SubSeq(text, 1, k))
    <3>1. Gpt2(SubSeq(text, 1, k)) = Gpt2(SubSeq(text, 1, m)) \o Gpt2(SubSeq(text, m + 1, k))
      BY <1>4, <1>6, Gpt2Cut
    <3> QED BY <1>3, <1>5, <1>10, <1>11, <3>1
  <2> QED BY <1>1, <1>11, <2>1, <2>2, <2>3 DEF Covering
<1>13. LastText' = Slice(n)
  <2>1. LastText' = Vocab[working'[Len(working')]].text
    BY DEF LastText
  <2> QED BY <1>10, <1>11, <2>1
<1>14. LastIsLongest'
  <2>1. pos \in 0 .. Len(units)
    BY <1>4, <1>7, <1>8
  <2>2. ASSUME NEW j \in 1 .. MaxMatch, pos + j =< Len(units),
               SubSeq(units, pos + 1, pos + j) \in Spellings
        PROVE  j =< n
    <3>1. j \in MatchLengths
      BY <2>2 DEF MatchLengths, Slice
    <3> QED BY <1>7, <3>1
  <2>3. Slice(n) = SubSeq(units, pos + 1, pos + n)
    BY DEF Slice
  <2>4. \E p \in 0 .. Len(units) :
            /\ pos' = p + Len(LastText')
            /\ LastText' = SubSeq(units, p + 1, p + Len(LastText'))
            /\ \A j \in 1 .. MaxMatch :
                   p + j =< Len(units) /\ SubSeq(units, p + 1, p + j) \in Spellings
                       => j =< Len(LastText')
    BY <1>1, <1>9, <1>13, <2>1, <2>2, <2>3
  <2> QED BY <1>1, <2>4 DEF LastIsLongest
<1>15. Separate(working')
  <2> SUFFICES ASSUME NEW i \in 1 .. Len(working') - 1,
                      MergedText(working', i) \in Spellings
               PROVE  Len(MergedText(working', i)) > MaxMatch
    BY DEF Separate
  <2>1. CASE i < Len(working)
    <3>1. i \in 1 .. Len(working) /\ i + 1 \in 1 .. Len(working) /\ i \in 1 .. Len(working) - 1
      BY <1>11, <2>1
    <3>2. MergedText(working', i) = MergedText(working, i)
      BY <1>11, <3>1 DEF MergedText
    <3>3. Separate(working)
      BY <1>1 DEF TInv
    <3> QED BY <3>1, <3>2, <3>3 DEF Separate
  <2>2. CASE i = Len(working)
    <3>1. i \in 1 .. Len(working) /\ working # <<>> /\ i + 1 = Len(working) + 1
      BY <1>11, <2>2
    <3> DEFINE t == LastText
    <3>2. MergedText(working', i) = t \o Slice(n)
      BY <1>10, <1>11, <2>2, <3>1 DEF MergedText, LastText
    <3>3. PICK p \in 0 .. Len(units) :
              /\ pos = p + Len(t)
              /\ t = SubSeq(units, p + 1, p + Len(t))
              /\ \A j \in 1 .. MaxMatch :
                     p + j =< Len(units) /\ SubSeq(units, p + 1, p + j) \in Spellings
                         => j =< Len(t)
      BY <1>1, <3>1 DEF TInv, LastIsLongest
    <3>4. t \in Seq(Byte) /\ Slice(n) \in Seq(Byte)
      <4>1. working[Len(working)] \in Id
        BY <1>3, <2>2, <3>1, ElementOfSeq
      <4> QED BY <1>10, <4>1, EntryFacts DEF LastText
    <3> HIDE DEF t
    <3>5. /\ Len(t) \in Nat
          /\ Len(t \o Slice(n)) = Len(t) + n
      <4> DEFINE u == Slice(n)
      <4>1. u \in Seq(Byte) /\ Len(u) = n
        BY <1>9, <3>4
      <4> HIDE DEF u
      <4>2. Len(t) \in Nat /\ Len(t \o u) = Len(t) + Len(u)
        BY <3>4, <4>1, ConcatProperties, LenProperties
      <4> QED BY <4>1, <4>2 DEF u
    <3>6. t \o Slice(n) = SubSeq(units, p + 1, p + (Len(t) + n))
      <4>1. p \in Nat /\ p =< Len(units)
        BY <1>4
      <4>2. /\ p + 1 \in 1 .. Len(units) + 1 /\ pos \in (p + 1) - 1 .. Len(units)
            /\ pos + n \in pos .. Len(units)
        BY <1>4, <1>7, <1>8, <3>3, <3>5, <4>1
      <4>3. SubSeq(units, p + 1, pos) \o SubSeq(units, pos + 1, pos + n)
                = SubSeq(units, p + 1, pos + n)
        BY <1>4, <4>2, ConcatAdjacentSubSeq
      <4>4. pos + n = p + (Len(t) + n)
        BY <1>8, <3>3, <3>5, <4>1
      <4> QED BY <3>3, <4>3, <4>4 DEF Slice
    <3>7. ASSUME Len(t) + n =< MaxMatch
          PROVE  FALSE
      <4>1. /\ Len(t) + n \in 1 .. MaxMatch /\ ~(Len(t) + n =< Len(t))
            /\ p + (Len(t) + n) =< Len(units)
        BY <1>4, <1>7, <1>8, <3>3, <3>5, <3>7
      <4>2. SubSeq(units, p + 1, p + (Len(t) + n)) \in Spellings
        BY <3>2, <3>6
      <4>3. \A j \in 1 .. MaxMatch :
                p + j =< Len(units) /\ SubSeq(units, p + 1, p + j) \in Spellings
                    => j =< Len(t)
        BY <3>3
      <4> QED BY ONLY <4>1, <4>2, <4>3
    <3> QED BY <1>8, <3>2, <3>5, <3>7
  <2> QED BY <1>11, <2>1, <2>2
<1> QED BY <1>6, <1>12, <1>14, <1>15

\* With an entry for every character the byte table is not used.
LEMMA NoFallback ==
    ASSUME TInv, Spelled, phase = "match", pos < Len(units)
    PROVE  MatchLengths # {}
<1>1. PICK m \in 0 .. Len(text) : Covering(m)
  BY DEF TInv
<1>2. AtBoundary(m) /\ m < Len(text)
  BY <1>1, BoundaryFacts DEF Covering
<1> QED BY <1>2, CharMatches

\* A merge puts one legible token in the place of two.
LEMMA MergeStep ==
    ASSUME TInv, Spelled, Merge
    PROVE  Covering(Len(text))' /\ LongToken(working')
<1> DEFINE i == BestPos(working)
           id == TokenToId(MergedText(working, i))
<1>1. /\ phase = "merge" /\ Pairs(working) # {} /\ MergedText(working, i) \in Spellings
      /\ working' = MergeAt(working, i)
      /\ text' = text /\ units' = units /\ pos' = pos
  BY DEF Merge, Mergeable
<1>2. Covering(Len(text)) /\ (Separate(working) \/ LongToken(working))
  BY <1>1 DEF TInv
<1>3. /\ AtBoundary(Len(text)) /\ working \in Seq(Id)
      /\ \A j \in 1 .. Len(working) : Legible(working[j])
      /\ Spelling(working) = Gpt2(SubSeq(text, 1, Len(text)))
  BY <1>2 DEF Covering
<1>4. i \in 1 .. Len(working) - 1
  BY <1>1, <1>3, BestPosFacts
<1> HIDE DEF i
<1> DEFINE n == Len(working)
           x == working[i]
           y == working[i + 1]
<1>5. n \in Nat /\ i \in 1 .. n /\ i + 1 \in 1 .. n
  BY <1>3, <1>4, LenProperties
<1>6. /\ working' \in Seq(Id) /\ Len(working') = n - 1
      /\ \A j \in 1 .. n - 1 :
             working'[j] = IF j < i THEN working[j] ELSE IF j = i THEN id ELSE working[j + 1]
  BY <1>1, <1>3, <1>4, MergeElements
<1>7. Spelling(working') = Spelling(working)
  BY <1>1, <1>3, <1>4, MergeKeepsSpelling
<1>8. Legible(x) /\ Legible(y)
  BY <1>3, <1>5
<1>9. MergedText(working, i) = Vocab[x].text \o Vocab[y].text
  BY DEF MergedText
<1> HIDE DEF x, y
<1>10. PICK b \in Seq(Byte) : b # <<>> /\ Vocab[x].text = Gpt2(b)
  BY <1>8 DEF Legible
<1>11. PICK c \in Seq(Byte) : c # <<>> /\ Vocab[y].text = Gpt2(c)
  BY <1>8 DEF Legible
<1>12. /\ b \o c \in Seq(Byte) /\ b \o c # <<>>
       /\ MergedText(working, i) = Gpt2(b \o c)
       /\ Len(MergedText(working, i)) = Len(Gpt2(b)) + Len(Gpt2(c))
  <2>1. /\ b \o c \in Seq(Byte) /\ Len(b \o c) = Len(b) + Len(c)
        /\ Len(b) \in Nat \ {0} /\ Len(c) \in Nat
    BY <1>10, <1>11, ConcatProperties, EmptySeq, LenProperties
  <2>2. b \o c # <<>>
    BY <2>1
  <2>3. Gpt2(b \o c) = Gpt2(b) \o Gpt2(c)
    BY Gpt2Concat
  <2> DEFINE g == Gpt2(b)
             h == Gpt2(c)
  <2>4. g \in Seq(Byte) /\ h \in Seq(Byte)
    BY Gpt2Type
  <2>5. Len(g \o h) = Len(g) + Len(h)
    <3> HIDE DEF g, h
    <3> QED BY <2>4, ConcatProperties
  <2> QED BY <1>9, <1>10, <1>11, <2>1, <2>2, <2>3, <2>5
<1>13. Legible(id) /\ Vocab[id].text = MergedText(working, i)
  BY <1>1, <1>12, LookedUpIsLegible
<1> HIDE DEF id
<1>14. ASSUME NEW j \in 1 .. n - 1
       PROVE  Legible(working'[j])
  <2>1. j \in 1 .. n /\ j + 1 \in 1 .. n
    BY <1>5
  <2>2. Legible(working[j]) /\ Legible(working[j + 1])
    BY <1>3, <2>1
  <2>3. working'[j] \in {working[j], id, working[j + 1]}
    BY <1>6
  <2> QED BY <1>13, <2>2, <2>3
<1>15. Covering(Len(text))'
  <2>1. AtBoundary(Len(text))'
    BY <1>1, <1>3 DEF AtBoundary
  <2>2. Spelling(working') = Gpt2(SubSeq(text, 1, Len(text)))
    BY <1>3, <1>7
  <2>3. \A j \in 1 .. Len(working') : Legible(working'[j])
    BY <1>6, <1>14
  <2> QED BY <1>1, <1>6, <2>1, <2>2, <2>3 DEF Covering
<1>16. i \in 1 .. n - 1 /\ working'[i] = id
  BY <1>4, <1>5, <1>6
<1>17. ASSUME NEW j \in 1 .. n - 1, Len(Vocab[working'[j]].text) > MaxMatch
       PROVE  LongToken(working')
  <2>1. j \in 1 .. Len(working')
    BY <1>6
  <2> QED BY <1>17, <2>1 DEF LongToken
<1>18. CASE Separate(working)
  <2>1. Len(Vocab[id].text) > MaxMatch
    BY <1>1, <1>4, <1>13, <1>18 DEF Separate
  <2>2. Len(Vocab[working'[i]].text) > MaxMatch
    BY <1>16, <2>1
  <2> QED BY <1>15, <1>16, <1>17, <2>2
<1>19. CASE LongToken(working)
  <2>1. PICK j \in 1 .. n : Len(Vocab[working[j]].text) > MaxMatch
    BY <1>19 DEF LongToken
  <2>2. CASE j < i
    <3>1. j \in 1 .. n - 1 /\ working'[j] = working[j]
      BY <1>5, <1>6, <2>2
    <3> QED BY <1>15, <1>17, <2>1, <3>1
  <2>3. CASE j > i + 1
    <3>1. j - 1 \in 1 .. n - 1 /\ ~(j - 1 < i) /\ j - 1 # i /\ (j - 1) + 1 = j
      BY <1>5, <2>3
    <3>2. working'[j - 1] = working[j]
      BY <1>6, <3>1
    <3> QED BY <1>15, <1>17, <2>1, <3>1, <3>2
  <2>4. CASE j = i \/ j = i + 1
    <3>1. working[j] = x \/ working[j] = y
      BY <2>4 DEF x, y
    <3>2. MaxMatch \in Nat /\ Len(Gpt2(b)) \in Nat /\ Len(Gpt2(c)) \in Nat
      BY TokenizerAssumption, Gpt2NotEmpty, <1>10, <1>11
    <3>3. Len(Gpt2(b)) > MaxMatch \/ Len(Gpt2(c)) > MaxMatch
      BY <1>10, <1>11, <2>1, <3>1
    <3>4. Len(MergedText(working, i)) > MaxMatch
      BY <1>12, <3>2, <3>3
    <3>5. Len(Vocab[working'[i]].text) > MaxMatch
      BY <1>13, <1>16, <3>4
    <3> QED BY <1>15, <1>16, <1>17, <3>5
  <2> QED BY <1>5, <2>2, <2>3, <2>4
<1> QED BY <1>2, <1>15, <1>18, <1>19

LEMMA TInvNext ==
    ASSUME TInv, [Next]_vars
    PROVE  TInv'
<1>1. text' = text /\ units' = units
  BY DEF Next, Encode, MatchLongest, Fallback, FallbackPanics, Covered, Merge,
         MergesDone, vars
<1>2. CASE ~Spelled
  BY <1>1, <1>2 DEF TInv, Spelled
<1>3. CASE Spelled
  <2> USE <1>3
  <2>1. PICK m \in 0 .. Len(text) : Covering(m) /\ (phase # "match" => m = Len(text))
    BY DEF TInv
  <2>2. Len(text) \in 0 .. Len(text) /\ Len(text) \in Nat
    BY TextIsBytes DEF TInv
  <2>3. Spelled'
    BY <1>1 DEF Spelled
  <2>4. CASE MatchLongest
    <3>1. phase' = "match"
      BY <2>4 DEF MatchLongest
    <3>2. /\ \E k \in 0 .. Len(text) : Covering(k)'
          /\ LastIsLongest' /\ Separate(working')
      BY <2>4, MatchStep
    <3> QED BY <1>1, <3>1, <3>2 DEF TInv
  <2>5. CASE Fallback \/ FallbackPanics
    BY <2>5, NoFallback DEF Fallback, FallbackPanics
  <2>6. CASE Covered
    <3>1. /\ phase = "match" /\ phase' = "merge" /\ pos >= Len(units)
          /\ working' = working /\ pos' = pos
      BY <2>6 DEF Covered
    <3>2. m = Len(text)
      BY <2>1, <3>1, CoveredText DEF Covering
    <3>3. Covering(m)'
      BY <1>1, <2>1, <3>1 DEF Covering, AtBoundary
    <3>4. Separate(working')
      BY <3>1 DEF TInv
    <3> QED BY <1>1, <2>2, <3>1, <3>2, <3>3, <3>4 DEF TInv
  <2>7. CASE Merge
    <3>1. phase' = "merge"
      BY <2>7 DEF Merge
    <3>2. Covering(Len(text))' /\ LongToken(working')
      BY <2>7, MergeStep
    <3> QED BY <1>1, <2>2, <3>1, <3>2 DEF TInv
  <2>8. CASE MergesDone
    <3>1. /\ phase = "merge" /\ phase' = "done"
          /\ working' = working /\ pos' = pos
      BY <2>8 DEF MergesDone
    <3>2. Covering(m)' /\ m = Len(text)
      BY <1>1, <2>1, <3>1 DEF Covering, AtBoundary
    <3> QED BY <1>1, <2>2, <3>1, <3>2 DEF TInv
  <2>9. CASE UNCHANGED vars
    BY <2>9 DEF vars, TInv, Spelled, Covering, AtBoundary, LastIsLongest, LastText
  <2> QED BY <2>4, <2>5, <2>6, <2>7, <2>8, <2>9 DEF Next, Encode
<1> QED BY <1>2, <1>3

THEOREM SpecTInv == Spec => []TInv
<1>1. Init => TInv
  BY TInvInit
<1>2. TInv /\ [Next]_vars => TInv'
  BY TInvNext
<1> QED BY <1>1, <1>2, PTL DEF Spec

-----------------------------------------------------------------------------
(* The theorems.                                                           *)

\* Each token's text stands in the spelling of the list, whatever follows.
LEMMA TokenStands ==
    ASSUME NEW ids \in Seq(Id), NEW i \in 1 .. Len(ids), NEW r \in Seq(Byte)
    PROVE  \E p \in Nat :
               /\ SubSeq(Spelling(ids) \o r, p + 1, p + Len(Vocab[ids[i]].text))
                      = Vocab[ids[i]].text
               /\ p + Len(Vocab[ids[i]].text) =< Len(Spelling(ids) \o r)
<1> DEFINE n == Len(ids)
           x == ids[i]
           t == Vocab[x].text
           m == i - 1
           k == n - i
<1>1. n \in Nat /\ m \in Nat /\ k \in Nat /\ m + 1 = i /\ i + k = n /\ i \in Nat
  BY LenProperties
<1>2. x \in Id /\ t \in Seq(Byte)
  BY ElementOfSeq, EntryFacts
<1>3. /\ i \in 1 .. Len(ids) + 1 /\ i \in i - 1 .. Len(ids)
      /\ m \in 1 - 1 .. Len(ids) /\ 1 \in 1 .. Len(ids) + 1
      /\ i \in m .. Len(ids) /\ n \in i .. Len(ids) /\ i \in 1 - 1 .. Len(ids)
      /\ 0 + 1 = 1 /\ 0 + m = m /\ 0 \in Nat /\ 0 + m =< Len(ids) /\ i + k =< Len(ids)
  BY <1>1
<1> DEFINE a == SubSeq(ids, 1, m)
           c == SubSeq(ids, i + 1, n)
           one == <<x>>
<1>4. SubSeq(ids, 1, i) = a \o one
  <2>1. SubSeq(ids, 1, i) = SubSeq(ids, 1, i - 1) \o <<ids[i]>>
    <3>1. 1 \in 1 .. Len(ids) /\ i \in 1 .. Len(ids)
      BY <1>1
    <3> QED BY <3>1, SubSeqRecursiveSecond
  <2> QED BY <2>1
<1>5. ids = SubSeq(ids, 1, i) \o c
  <2>1. SubSeq(ids, 1, i) \o SubSeq(ids, i + 1, n) = SubSeq(ids, 1, n)
    BY <1>3, ConcatAdjacentSubSeq
  <2> QED BY <2>1, SubSeqFull
<1>6. a \in Seq(Id) /\ c \in Seq(Id)
  <2>1. SubSeq(ids, 0 + 1, 0 + m) \in Seq(Id)
    BY <1>1, <1>3, Part
  <2>2. SubSeq(ids, i + 1, i + k) \in Seq(Id)
    BY <1>1, <1>3, Part
  <2>3. SubSeq(ids, 0 + 1, 0 + m) = a /\ SubSeq(ids, i + 1, i + k) = c
    BY <1>1, <1>3
  <2> QED BY <2>1, <2>2, <2>3
<1>7. one \in Seq(Id) /\ Spelling(one) = t
  BY <1>2, SpellingOne
<1> HIDE DEF a, c, one, n, m, k
<1>8. Spelling(ids) = (Spelling(a) \o t) \o Spelling(c)
  <2> DEFINE ao == a \o one
  <2>1. ao \in Seq(Id)
    BY <1>6, <1>7, ConcatProperties
  <2>2. Spelling(ao) = Spelling(a) \o Spelling(one)
    BY <1>6, <1>7, SpellingConcat
  <2>3. ids = ao \o c
    BY <1>4, <1>5
  <2> HIDE DEF ao
  <2>4. Spelling(ao \o c) = Spelling(ao) \o Spelling(c)
    BY <1>6, <2>1, SpellingConcat
  <2> QED BY <1>7, <2>2, <2>3, <2>4
<1> DEFINE sa == Spelling(a)
           sc == Spelling(c)
           f == sc \o r
<1>9. sa \in Seq(Byte) /\ sc \in Seq(Byte)
  BY <1>6, SpellingType
<1> HIDE DEF sa, sc, t
<1>10. /\ sa \o t \in Seq(Byte) /\ Len(sa \o t) = Len(sa) + Len(t)
       /\ f \in Seq(Byte)
  BY <1>2, <1>9, ConcatProperties
<1>11. Spelling(ids) \o r = (sa \o t) \o f
  <2> DEFINE st == sa \o t
  <2>1. st \in Seq(Byte)
    BY <1>10
  <2> HIDE DEF st
  <2>2. (st \o sc) \o r = st \o (sc \o r)
    <3>1. st \in Seq(Byte) /\ sc \in Seq(Byte) /\ r \in Seq(Byte)
      BY <1>9, <2>1
    <3> QED BY ONLY <3>1, ConcatAssociative, SMTT(40)
  <2>3. Spelling(ids) = (sa \o t) \o sc
    BY <1>8 DEF sa, sc, t
  <2> QED BY <2>2, <2>3 DEF st
<1> HIDE DEF f
<1>12. Len((sa \o t) \o f) = Len(sa \o t) + Len(f)
  <2> DEFINE st == sa \o t
  <2>1. st \in Seq(Byte)
    BY <1>10
  <2> HIDE DEF st
  <2>2. Len(st \o f) = Len(st) + Len(f)
    BY <1>10, <2>1, ConcatProperties
  <2> QED BY <2>2 DEF st
<1>13. SubSeq((sa \o t) \o f, Len(sa) + 1, Len(sa) + Len(t)) = t
  BY ONLY <1>2, <1>9, <1>10, Middle
<1>14. Len(sa) \in Nat /\ Len(t) \in Nat /\ Len(f) \in Nat
  BY <1>2, <1>9, <1>10, LenProperties
<1>15. Len(sa) + Len(t) =< Len((sa \o t) \o f)
  BY <1>10, <1>12, <1>14
<1>16. \E p \in Nat : /\ SubSeq(Spelling(ids) \o r, p + 1, p + Len(t)) = t
                      /\ p + Len(t) =< Len(Spelling(ids) \o r)
  BY <1>11, <1>13, <1>14, <1>15
<1> QED BY <1>16 DEF t, x

\* In a plain text no token is one that decode skips.
LEMMA NoneSkipped ==
    ASSUME NEW m, Covering(m), Plain, NEW i \in 1 .. Len(working)
    PROVE  ~Skipped(working[i])
<1> DEFINE x == working[i]
           t == Vocab[x].text
           r == Gpt2(SubSeq(text, m + 1, Len(text)))
<1>1. /\ text \in Seq(Byte) /\ units = Gpt2(text) /\ m \in 0 .. Len(text)
      /\ working \in Seq(Id) /\ Spelling(working) = Gpt2(SubSeq(text, 1, m))
      /\ Legible(x)
  BY DEF Covering, AtBoundary
<1>2. Len(text) \in Nat /\ Len(text) \in m .. Len(text) /\ Len(text) \in 0 .. Len(text)
  BY <1>1, LenProperties
<1>3. units = Spelling(working) \o r
  <2>1. Gpt2(SubSeq(text, 1, Len(text))) = Gpt2(SubSeq(text, 1, m)) \o r
    BY <1>1, <1>2, Gpt2Cut
  <2>2. SubSeq(text, 1, Len(text)) = text
    BY <1>1, SubSeqFull
  <2> QED BY <1>1, <2>1, <2>2
<1>4. r \in Seq(Byte)
  BY <1>1, <1>2, PartType
<1> HIDE DEF r
<1>5. PICK p \in Nat :
          SubSeq(units, p + 1, p + Len(t)) = t /\ p + Len(t) =< Len(units)
  <2>1. \E p \in Nat :
            /\ SubSeq(Spelling(working) \o r, p + 1, p + Len(t)) = t
            /\ p + Len(t) =< Len(Spelling(working) \o r)
    BY <1>1, <1>4, TokenStands
  <2> QED BY <1>3, <2>1
<1>6. t \in Spellings /\ TokenToId(t) = x
  BY <1>1 DEF Legible, Spellings
<1>7. Len(t) \in Nat /\ Len(t) >= 1
  BY <1>1, Gpt2NotEmpty DEF Legible
<1>8. DOMAIN units = 1 .. Len(units) /\ Len(units) \in Nat
  <2>1. units \in Seq(Byte)
    BY <1>1, Gpt2Type
  <2> QED BY <2>1, LenProperties
<1> HIDE DEF t, x
<1>9. p + 1 \in DOMAIN units /\ p + Len(t) \in p + 1 .. Len(units)
  BY <1>5, <1>7, <1>8
<1>10. ~Skipped(TokenToId(SubSeq(units, p + 1, p + Len(t))))
  BY <1>5, <1>6, <1>9 DEF Plain
<1> QED BY <1>5, <1>6, <1>10 DEF x

LEMMA TInvNothingLost ==
    ASSUME TInv
    PROVE  NothingLost
<1> SUFFICES ASSUME Spelled, Plain
             PROVE  \E n \in 0 .. Len(text) :
                        /\ Decode(working) = SubSeq(text, 1, n)
                        /\ UnitsOf(n) = pos
                        /\ phase # "match" => n = Len(text)
  BY DEF NothingLost
<1>1. PICK m \in 0 .. Len(text) : Covering(m) /\ (phase # "match" => m = Len(text))
  BY DEF TInv
<1>2. /\ text \in Seq(Byte) /\ pos = Units(text, m) /\ working \in Seq(Id)
      /\ \A i \in 1 .. Len(working) : Legible(working[i])
      /\ Spelling(working) = Gpt2(SubSeq(text, 1, m))
  BY <1>1 DEF Covering, AtBoundary
<1>3. \A i \in 1 .. Len(working) : ~Skipped(working[i])
  BY <1>1, NoneSkipped
<1>4. Gpt2(Decode(working)) = Gpt2(SubSeq(text, 1, m))
  BY <1>2, <1>3, DecodedSpelling
<1>5. Decode(working) \in Seq(Byte)
  BY <1>2, DecodeIsCat
<1>6. SubSeq(text, 1, m) \in Seq(Byte)
  <2>1. Len(text) \in Nat /\ 0 \in 0 .. Len(text) /\ 0 + 1 = 1
    BY <1>2, LenProperties
  <2>2. SubSeq(text, 0 + 1, m) \in Seq(Byte)
    BY <1>2, <2>1, PartType
  <2> QED BY <2>1, <2>2
<1> DEFINE d == Decode(working)
           s == SubSeq(text, 1, m)
<1>7. d = s
  <2> HIDE DEF d, s
  <2>1. d \in Seq(Byte) /\ s \in Seq(Byte) /\ Gpt2(d) = Gpt2(s)
    BY <1>4, <1>5, <1>6 DEF d, s
  <2>2. FromGpt2(Gpt2(d)) = d /\ FromGpt2(Gpt2(s)) = s
    BY <2>1, SpellingReadsBack
  <2> QED BY <2>1, <2>2
<1>8. UnitsOf(m) = pos
  BY <1>2 DEF UnitsOf, Units
<1> QED BY <1>1, <1>7, <1>8

\* Neither the longest match nor a merge loses, repeats or reorders a byte, and
\* decode undoes the spelling: whatever the entries, their order and the merge
\* rules are, if every character of the text has an entry and no part of the
\* text spells a token that decode skips (encode, initial_tokenise, bpe_merge
\* and decode).
THEOREM SpecNothingLost == Spec => []NothingLost
<1>1. TInv => NothingLost
  BY TInvNothingLost
<1> QED BY <1>1, SpecTInv, PTL

\* decode gives the text back when encode is through, and encode does not
\* panic (the round trip the tests try on a few texts).
RoundTrip ==
    Spelled =>
        /\ phase # "panicked"
        /\ Plain /\ phase = "done" => Decode(working) = text

\* The round trip holds for every text, vocabulary and set of rules.
THEOREM SpecRoundTrip == Spec => []RoundTrip
<1>1. ASSUME TInv
      PROVE  RoundTrip
  <2>1. NothingLost
    BY <1>1, TInvNothingLost
  <2>2. text \in Seq(Byte)
    BY <1>1, TextIsBytes DEF TInv
  <2>3. SubSeq(text, 1, Len(text)) = text
    BY <2>2, SubSeqFull
  <2>4. Spelled => phase \in {"match", "merge", "done"}
    BY <1>1 DEF TInv
  <2> QED BY <2>1, <2>3, <2>4 DEF RoundTrip, NothingLost
<1> QED BY <1>1, SpecTInv, PTL

\* Two tokens of the longest-match pass never spell an entry of at most
\* MaxMatch units: every merge of bpe_merge leaves a token longer than the
\* slices initial_tokenise looks up.
THEOREM SpecMergesOnlyLongTokens == Spec => MergesOnlyLongTokens
<1>1. ASSUME TInv, [Next]_vars
      PROVE  [Spelled /\ phase = "merge" /\ working' # working =>
                 \E i \in DOMAIN working' : Len(Vocab[working'[i]].text) > MaxMatch]_vars
  <2> SUFFICES ASSUME Spelled, phase = "merge", working' # working
               PROVE  \E i \in DOMAIN working' : Len(Vocab[working'[i]].text) > MaxMatch
    OBVIOUS
  <2>1. Merge
    BY <1>1 DEF Next, Encode, MatchLongest, Fallback, FallbackPanics, Covered,
                Merge, MergesDone, vars
  <2>2. Covering(Len(text))' /\ LongToken(working')
    BY <1>1, <2>1, MergeStep
  <2>3. DOMAIN working' = 1 .. Len(working')
    BY <2>2, LenProperties DEF Covering
  <2> QED BY <2>2, <2>3 DEF LongToken
<1>2. TInv /\ [Next]_vars =>
          [Spelled /\ phase = "merge" /\ working' # working =>
              \E i \in DOMAIN working' : Len(Vocab[working'[i]].text) > MaxMatch]_vars
  BY <1>1
<1> QED BY <1>2, SpecTInv, PTL DEF Spec, MergesOnlyLongTokens

-----------------------------------------------------------------------------
(* The segmentation.                                                       *)

\* The start of a token is the length of what the tokens before it spell.
LEMMA StartIsSpelled ==
    ASSUME NEW ids \in Seq(Id), NEW i \in Nat, i =< Len(ids)
    PROVE  /\ StartOf(ids, i + 1) = Len(Spelling(SubSeq(ids, 1, i)))
           /\ StartOf(ids, i + 1) \in Nat
<1> DEFINE a == SubSeq(ids, 1, i)
<1>1. /\ a \in Seq(Id) /\ Len(a) = i
      /\ \A j \in 1 .. i : a[j] = ids[j]
  <2>1. 0 \in Nat /\ 0 + 1 = 1 /\ 0 + i = i /\ \A j \in 1 .. i : 0 + j = j
    OBVIOUS
  <2>2. /\ SubSeq(ids, 0 + 1, 0 + i) \in Seq(Id)
        /\ Len(SubSeq(ids, 0 + 1, 0 + i)) = i
        /\ \A j \in 1 .. i : SubSeq(ids, 0 + 1, 0 + i)[j] = ids[0 + j]
    BY <2>1, Part
  <2> QED BY <2>1, <2>2
<1> HIDE DEF a
<1>2. DOMAIN a = 1 .. i /\ \A j \in 1 .. i : a[j] \in Id
  BY <1>1, LenProperties, ElementOfSeq
<1>3. \A j \in 1 .. i : TokenText[a[j]] = Vocab[ids[j]].text
  BY <1>1, <1>2 DEF TokenText
<1>4. Each(TokenText, a) = [j \in 1 .. i |-> Vocab[ids[j]].text]
  BY <1>2, <1>3 DEF Each
<1>5. (i + 1) - 1 = i
  OBVIOUS
<1>6. StartOf(ids, i + 1) = Len(Spelling(a))
  BY <1>4, <1>5 DEF StartOf, Spelling, Cat
<1>7. Len(Spelling(a)) \in Nat
  BY <1>1, SpellingType, LenProperties
<1> QED BY <1>6, <1>7 DEF a

\* A token starts where the one before it ends.
LEMMA StartNext ==
    ASSUME NEW ids \in Seq(Id), NEW i \in 1 .. Len(ids)
    PROVE  /\ StartOf(ids, i) \in Nat
           /\ StartOf(ids, i + 1) = StartOf(ids, i) + Len(Vocab[ids[i]].text)
<1> DEFINE m == i - 1
           a == SubSeq(ids, 1, m)
           x == ids[i]
<1>1. /\ m \in Nat /\ m + 1 = i /\ m =< Len(ids) /\ i \in Nat /\ i =< Len(ids)
      /\ 1 \in 1 .. Len(ids)
  BY LenProperties
<1>2. x \in Id /\ Vocab[x].text \in Seq(Byte)
  BY ElementOfSeq, EntryFacts
<1>3. SubSeq(ids, 1, i) = a \o <<x>>
  BY <1>1, SubSeqRecursiveSecond
<1>4. a \in Seq(Id)
  <2>1. 0 + 1 = 1 /\ 0 + m = m /\ 0 \in Nat /\ 0 + m =< Len(ids)
    BY <1>1
  <2>2. SubSeq(ids, 0 + 1, 0 + m) \in Seq(Id)
    BY <1>1, <2>1, Part
  <2> QED BY <2>1, <2>2
<1>5. StartOf(ids, m + 1) = Len(Spelling(a)) /\ StartOf(ids, m + 1) \in Nat
  BY <1>1, StartIsSpelled
<1>6. StartOf(ids, i + 1) = Len(Spelling(SubSeq(ids, 1, i)))
  BY <1>1, StartIsSpelled
<1> DEFINE one == <<x>>
<1>7. one \in Seq(Id) /\ Spelling(one) = Vocab[x].text
  BY <1>2, SpellingOne
<1> HIDE DEF a, x, m, one
<1>8. Spelling(a \o one) = Spelling(a) \o Spelling(one)
  BY <1>4, <1>7, SpellingConcat
<1>9. Len(Spelling(a) \o Spelling(one)) = Len(Spelling(a)) + Len(Spelling(one))
  <2>1. Spelling(a) \in Seq(Byte) /\ Spelling(one) \in Seq(Byte)
    BY <1>4, <1>7, SpellingType
  <2> QED BY <2>1, ConcatProperties
<1>10. SubSeq(ids, 1, i) = a \o one
  BY <1>3 DEF one
<1> QED BY <1>1, <1>5, <1>6, <1>7, <1>8, <1>9, <1>10 DEF x

\* What comes later does not move a start.
LEMMA StartKept ==
    ASSUME NEW ids, NEW jds, NEW i \in Nat, \A j \in 1 .. i - 1 : jds[j] = ids[j]
    PROVE  StartOf(jds, i) = StartOf(ids, i)
<1>1. [j \in 1 .. i - 1 |-> Vocab[jds[j]].text] = [j \in 1 .. i - 1 |-> Vocab[ids[j]].text]
  OBVIOUS
<1> QED BY <1>1 DEF StartOf

\* Nor does a merge move those behind it.
LEMMA StartMerged ==
    ASSUME NEW ids \in Seq(Id), NEW i \in 1 .. Len(ids) - 1,
           MergedText(ids, i) \in Spellings, NEW j \in i + 1 .. Len(ids) - 1
    PROVE  StartOf(MergeAt(ids, i), j) = StartOf(ids, j + 1)
<1> DEFINE n == Len(ids)
           r == MergeAt(ids, i)
           p == SubSeq(ids, 1, j)
           k == j - 1
<1>1. /\ n \in Nat /\ i \in Nat /\ j \in Nat /\ k \in Nat /\ k + 1 = j
      /\ j =< n /\ k =< n - 1 /\ i \in 1 .. j - 1 /\ i \in 1 .. j /\ i + 1 \in 1 .. j
      /\ 0 + 1 = 1 /\ 0 + j = j /\ 0 \in Nat /\ 0 + k = k
  BY LenProperties
<1>2. /\ r \in Seq(Id) /\ Len(r) = n - 1
      /\ \A l \in 1 .. n - 1 :
             r[l] = IF l < i THEN ids[l]
                    ELSE IF l = i THEN TokenToId(MergedText(ids, i)) ELSE ids[l + 1]
  BY MergeElements
<1>3. p \in Seq(Id) /\ Len(p) = j /\ \A l \in 1 .. j : p[l] = ids[l]
  <2>1. /\ SubSeq(ids, 0 + 1, 0 + j) \in Seq(Id) /\ Len(SubSeq(ids, 0 + 1, 0 + j)) = j
        /\ \A l \in 1 .. j : SubSeq(ids, 0 + 1, 0 + j)[l] = ids[0 + l]
    BY <1>1, Part
  <2> QED BY <1>1, <2>1
<1> HIDE DEF p, r, n, k
<1>4. MergedText(p, i) = MergedText(ids, i)
  BY <1>1, <1>3 DEF MergedText
<1> DEFINE q == MergeAt(p, i)
<1>5. i \in 1 .. Len(p) - 1 /\ MergedText(p, i) \in Spellings
  BY <1>1, <1>3, <1>4
<1>6. /\ q \in Seq(Id) /\ Len(q) = j - 1
      /\ \A l \in 1 .. j - 1 :
             q[l] = IF l < i THEN p[l]
                    ELSE IF l = i THEN TokenToId(MergedText(p, i)) ELSE p[l + 1]
  BY <1>3, <1>5, MergeElements
<1>7. Spelling(q) = Spelling(p)
  BY <1>3, <1>5, MergeKeepsSpelling
<1> HIDE DEF q
<1>8. /\ SubSeq(r, 1, k) \in Seq(Id) /\ Len(SubSeq(r, 1, k)) = k
      /\ \A l \in 1 .. k : SubSeq(r, 1, k)[l] = r[l]
  <2>1. /\ SubSeq(r, 0 + 1, 0 + k) \in Seq(Id) /\ Len(SubSeq(r, 0 + 1, 0 + k)) = k
        /\ \A l \in 1 .. k : SubSeq(r, 0 + 1, 0 + k)[l] = r[0 + l]
    BY <1>1, <1>2, Part
  <2> QED BY <1>1, <2>1
<1>9. ASSUME NEW l \in 1 .. k
      PROVE  SubSeq(r, 1, k)[l] = q[l]
  <2>1. l \in 1 .. n - 1 /\ l \in 1 .. j - 1 /\ l \in 1 .. j /\ l + 1 \in 1 .. j
    BY <1>1
  <2>2. r[l] = q[l]
    BY <1>2, <1>3, <1>4, <1>6, <2>1
  <2> QED BY <1>8, <2>2
<1>10. SubSeq(r, 1, k) = q
  <2>1. Len(q) = k
    BY <1>1, <1>6
  <2> QED BY <1>6, <1>8, <1>9, <2>1, SeqEqual
<1>11. StartOf(r, k + 1) = Len(Spelling(SubSeq(r, 1, k)))
  BY <1>1, <1>2, StartIsSpelled
<1>12. StartOf(ids, j + 1) = Len(Spelling(p))
  BY <1>1, StartIsSpelled DEF n, p
<1> QED BY <1>1, <1>7, <1>10, <1>11, <1>12 DEF r

\* The text t is spelled at p, and no longer entry that is looked up is.
LongestAt(p, t) ==
    /\ p + Len(t) =< Len(units)
    /\ SubSeq(units, p + 1, p + Len(t)) = t
    /\ \A n \in Len(t) + 1 .. MaxMatch :
           p + n =< Len(units) => SubSeq(units, p + 1, p + n) \notin Spellings

Segmented ==
    \A i \in 1 .. Len(working) : LongestAt(StartOf(working, i), Vocab[working[i]].text)

\* A match adds a token that is the longest where it stands, and it stands
\* where the others end.
LEMMA SegmentMatch ==
    ASSUME TInv, Spelled, Segmented, MatchLongest
    PROVE  Segmented'
<1> DEFINE n == Max(MatchLengths)
           id == TokenToId(Slice(n))
           l == Len(working)
<1>1. /\ phase = "match" /\ MatchLengths # {}
      /\ working' = Append(working, id) /\ pos' = pos + n
      /\ text' = text /\ units' = units
  BY DEF MatchLongest
<1>2. PICK m \in 0 .. Len(text) : Covering(m)
  BY DEF TInv
<1>3. /\ working \in Seq(Id) /\ AtBoundary(m)
      /\ Spelling(working) = Gpt2(SubSeq(text, 1, m))
  BY <1>2 DEF Covering
<1>4. pos \in Nat /\ Len(units) \in Nat /\ units \in Seq(Byte) /\ pos = Len(Spelling(working))
  BY <1>3, BoundaryFacts DEF AtBoundary, Units
<1>5. /\ n \in 1 .. MaxMatch /\ pos + n =< Len(units)
      /\ \A k \in MatchLengths : k =< n
      /\ Slice(n) \in Spellings
  BY <1>1, LongestFacts
<1>6. MaxMatch \in Nat /\ n \in Nat
  <2>1. MaxMatch \in Nat
    BY TokenizerAssumption
  <2> HIDE DEF n
  <2> QED BY <1>5, <2>1
<1>7. id \in Id /\ Vocab[id].text = Slice(n)
  BY <1>5, TokenFound
<1> HIDE DEF n, id
<1>8. Len(Slice(n)) = n
  BY ONLY <1>4, <1>5, <1>6, Part DEF Slice
<1>9. LongestAt(pos, Slice(n))
  <2>1. Slice(n) = SubSeq(units, pos + 1, pos + n)
    BY DEF Slice
  <2>2. ASSUME NEW k \in n + 1 .. MaxMatch, pos + k =< Len(units),
               SubSeq(units, pos + 1, pos + k) \in Spellings
        PROVE  FALSE
    <3>1. k \in 1 .. MaxMatch /\ ~(k =< n)
      BY <1>6
    <3>2. k \in MatchLengths
      BY <2>2, <3>1 DEF MatchLengths, Slice
    <3> QED BY <1>5, <3>1, <3>2
  <2> QED BY <1>5, <1>8, <2>1, <2>2 DEF LongestAt
<1>10. /\ working' \in Seq(Id) /\ l \in Nat /\ Len(working') = l + 1
       /\ \A i \in 1 .. l : working'[i] = working[i]
       /\ working'[l + 1] = id
  BY <1>1, <1>3, <1>7, AppendToken
<1>11. StartOf(working', l + 1) = pos
  <2>1. \A j \in 1 .. (l + 1) - 1 : working'[j] = working[j]
    BY <1>10
  <2>2. StartOf(working', l + 1) = StartOf(working, l + 1)
    BY <1>10, <2>1, StartKept
  <2>3. StartOf(working, l + 1) = Len(Spelling(SubSeq(working, 1, l)))
    BY <1>3, <1>10, StartIsSpelled
  <2>4. SubSeq(working, 1, l) = working
    BY <1>3, SubSeqFull
  <2> QED BY <1>4, <2>2, <2>3, <2>4
<1> HIDE DEF l
<1>12. ASSUME NEW i \in 1 .. Len(working')
       PROVE  LongestAt(StartOf(working', i), Vocab[working'[i]].text)
  <2>1. CASE i \in 1 .. l
    <3>1. \A j \in 1 .. i - 1 : working'[j] = working[j]
      BY <1>10, <2>1
    <3>2. StartOf(working', i) = StartOf(working, i)
      BY <1>10, <3>1, StartKept
    <3>3. LongestAt(StartOf(working, i), Vocab[working[i]].text)
      BY <2>1 DEF Segmented, l
    <3> QED BY <1>10, <2>1, <3>2, <3>3
  <2>2. CASE i = l + 1
    BY <1>7, <1>9, <1>10, <1>11, <2>2
  <2> QED BY <1>10, <2>1, <2>2
<1> QED BY <1>1, <1>12 DEF Segmented, LongestAt

\* A merge puts a longer token at the start of its left one; the tokens on
\* both sides stay where they are.
LEMMA SegmentMerge ==
    ASSUME TInv, Spelled, Segmented, Merge
    PROVE  Segmented'
<1> DEFINE i == BestPos(working)
           id == TokenToId(MergedText(working, i))
           n == Len(working)
<1>1. /\ phase = "merge" /\ Pairs(working) # {} /\ MergedText(working, i) \in Spellings
      /\ working' = MergeAt(working, i)
      /\ text' = text /\ units' = units
  BY DEF Merge, Mergeable
<1>2. working \in Seq(Id)
  BY <1>1 DEF TInv, Covering
<1>3. i \in 1 .. n - 1
  BY <1>1, <1>2, BestPosFacts
<1> HIDE DEF i
<1>4. /\ working' \in Seq(Id) /\ Len(working') = n - 1
      /\ \A j \in 1 .. n - 1 :
             working'[j] = IF j < i THEN working[j] ELSE IF j = i THEN id ELSE working[j + 1]
  BY <1>1, <1>2, <1>3, MergeElements
<1>5. id \in Id /\ Vocab[id].text = MergedText(working, i)
  BY <1>1, TokenFound
<1>6. n \in Nat /\ i \in 1 .. n /\ i + 1 \in 1 .. n /\ i \in Nat
  BY <1>2, <1>3, LenProperties
<1> DEFINE x == Vocab[working[i]].text
           y == Vocab[working[i + 1]].text
           p == StartOf(working, i)
<1>7. x \in Seq(Byte) /\ y \in Seq(Byte)
  BY <1>2, <1>6, ElementOfSeq, EntryFacts
<1>8. p \in Nat /\ StartOf(working, i + 1) = p + Len(x)
  BY <1>2, <1>6, StartNext
<1>9. LongestAt(p, x) /\ LongestAt(p + Len(x), y)
  BY <1>6, <1>8 DEF Segmented
<1>10. MergedText(working, i) = x \o y
  BY DEF MergedText
<1> HIDE DEF id, n, x, y, p
<1>11. LongestAt(p, x \o y)
  <2>1. units \in Seq(Byte) /\ Len(units) \in Nat /\ MaxMatch \in Nat
    BY TextIsBytes, Gpt2Type, LenProperties, TokenizerAssumption DEF TInv
  <2>2. Len(x) \in Nat /\ Len(y) \in Nat /\ Len(x \o y) = Len(x) + Len(y)
    BY <1>7, ConcatProperties, LenProperties
  <2> DEFINE a == Len(x)
             b == Len(y)
  <2>3. /\ p + a =< Len(units) /\ SubSeq(units, p + 1, p + a) = x
        /\ (p + a) + b =< Len(units) /\ SubSeq(units, (p + a) + 1, (p + a) + b) = y
        /\ \A k \in a + 1 .. MaxMatch :
               p + k =< Len(units) => SubSeq(units, p + 1, p + k) \notin Spellings
    BY <1>9 DEF LongestAt
  <2>4. a \in Nat /\ b \in Nat /\ Len(x \o y) = a + b
    BY <2>2
  <2> HIDE DEF a, b
  <2>5. SubSeq(units, p + 1, p + a) \o SubSeq(units, (p + a) + 1, (p + a) + b)
            = SubSeq(units, p + 1, (p + a) + b)
    <3>1. /\ p + 1 \in 1 .. Len(units) + 1 /\ p + a \in (p + 1) - 1 .. Len(units)
          /\ (p + a) + b \in p + a .. Len(units)
      BY <1>8, <2>1, <2>3, <2>4
    <3> QED BY <2>1, <3>1, ConcatAdjacentSubSeq
  <2>6. p + (a + b) = (p + a) + b
    BY <1>8, <2>4
  <2>7. \A k \in (a + b) + 1 .. MaxMatch : k \in a + 1 .. MaxMatch
    BY <2>1, <2>4
  <2> QED BY <2>3, <2>4, <2>5, <2>6, <2>7 DEF LongestAt
<1>12. ASSUME NEW j \in 1 .. Len(working')
       PROVE  LongestAt(StartOf(working', j), Vocab[working'[j]].text)
  <2>1. CASE j =< i
    <3>1. j \in Nat /\ \A k \in 1 .. j - 1 : working'[k] = working[k]
      <4>1. \A k \in 1 .. j - 1 : k \in 1 .. n - 1 /\ k < i
        BY <1>4, <1>6, <2>1
      <4> QED BY <1>4, <4>1
    <3>2. StartOf(working', j) = StartOf(working, j)
      BY <3>1, StartKept
    <3>3. CASE j = i
      <4>1. working'[j] = id
        BY <1>4, <1>6, <3>3
      <4> QED BY <1>5, <1>10, <1>11, <3>2, <3>3, <4>1 DEF p
    <3>4. CASE j < i
      <4>1. j \in 1 .. Len(working) /\ working'[j] = working[j]
        BY <1>4, <1>6, <3>4 DEF n
      <4> QED BY <3>2, <4>1 DEF Segmented
    <3> QED BY <1>6, <2>1, <3>1, <3>3, <3>4
  <2>2. CASE ~(j =< i)
    <3>1. /\ j \in i + 1 .. Len(working) - 1 /\ j + 1 \in 1 .. Len(working)
          /\ i \in 1 .. Len(working) - 1 /\ ~(j < i) /\ j # i /\ j \in 1 .. n - 1
      BY <1>3, <1>4, <1>6, <2>2 DEF n
    <3>2. StartOf(working', j) = StartOf(working, j + 1)
      BY <1>1, <1>2, <3>1, StartMerged
    <3>3. working'[j] = working[j + 1]
      BY <1>4, <3>1
    <3> QED BY <3>1, <3>2, <3>3 DEF Segmented
  <2> QED BY <2>1, <2>2
<1> QED BY <1>1, <1>12 DEF Segmented, LongestAt

\* The longest-match pass of initial_tokenise fixes the starts of the tokens,
\* and bpe_merge keeps them or drops them: in the result, for every text whose
\* characters have entries, no entry that could have been looked up is longer
\* than the token that stands where it would.
THEOREM SpecLongestMatched == Spec => []LongestMatched
<1> DEFINE SInv == Spelled => Segmented
<1>1. Init => SInv
  BY DEF Init, Segmented
<1>2. TInv /\ SInv /\ [Next]_vars => SInv'
  <2> SUFFICES ASSUME TInv, SInv, [Next]_vars, Spelled'
               PROVE  Segmented'
    OBVIOUS
  <2>1. text' = text /\ units' = units
    BY DEF Next, Encode, MatchLongest, Fallback, FallbackPanics, Covered, Merge,
           MergesDone, vars
  <2>2. Spelled /\ Segmented
    BY <2>1 DEF Spelled
  <2>3. CASE MatchLongest
    BY <2>2, <2>3, SegmentMatch
  <2>4. CASE Fallback \/ FallbackPanics
    BY <2>2, <2>4, NoFallback DEF Fallback, FallbackPanics
  <2>5. CASE Merge
    BY <2>2, <2>5, SegmentMerge
  <2>6. CASE Covered \/ MergesDone \/ UNCHANGED vars
    <3>1. working' = working
      BY <2>6 DEF Covered, MergesDone, vars
    <3> QED BY <2>1, <2>2, <3>1 DEF Segmented, LongestAt
  <2> QED BY <2>3, <2>4, <2>5, <2>6 DEF Next, Encode
<1>3. TInv /\ SInv => LongestMatched
  <2> SUFFICES ASSUME TInv, Segmented, Spelled
               PROVE  LongestMatched
    BY DEF LongestMatched
  <2>1. DOMAIN working = 1 .. Len(working)
    BY LenProperties DEF TInv, Covering
  <2> QED BY <2>1 DEF Segmented, LongestAt, LongestMatched
<1> QED BY <1>1, <1>2, <1>3, SpecTInv, PTL DEF Spec

\* initial_tokenise panics only for a character that has no entry and stands
\* in the text beyond the size of the byte table: a place inside a character,
\* where a raw byte can lead, or one whose character has an entry, never
\* indexes the table out of its range.
PanicsOnlyUnspelled ==
    phase = "panicked" =>
        \E i \in TableLen + 1 .. Len(text) : Char[text[i]] \notin Spellings

\* encode panics only for a character without an entry beyond the byte table:
\* orig_byte_at gives an index that large only where a character starts, and
\* the matching finds an entry of that character alone.
THEOREM SpecPanicsOnlyUnspelled == Spec => []PanicsOnlyUnspelled
<1>1. Init => PanicsOnlyUnspelled
  BY DEF Init, PanicsOnlyUnspelled
<1>2. TInv /\ PanicsOnlyUnspelled /\ [Next]_vars => PanicsOnlyUnspelled'
  <2> SUFFICES ASSUME TInv, PanicsOnlyUnspelled, [Next]_vars, phase' = "panicked"
               PROVE  \E i \in TableLen + 1 .. Len(text') : Char[text'[i]] \notin Spellings
    BY DEF PanicsOnlyUnspelled
  <2>1. CASE FallbackPanics
    <3>1. /\ MatchLengths = {} /\ OrigByteAt >= TableLen /\ text' = text
          /\ TableLen \in Nat \ {0}
      BY <2>1, TokenizerAssumption DEF FallbackPanics
    <3>2. text \in Seq(Byte) /\ Len(text) \in Nat /\ units = Gpt2(text)
      BY TextIsBytes DEF TInv
    <3> DEFINE n == OrigByteAt
    <3>3. n \in 0 .. Len(text) - 1 /\ UnitsOf(n) = pos
      <4>1. OrigByteAt # 0
        BY <3>1
      <4> QED BY <4>1 DEF OrigByteAt
    <3> HIDE DEF n
    <3>4. AtBoundary(n) /\ n < Len(text)
      BY <3>2, <3>3 DEF AtBoundary, Units, UnitsOf
    <3>5. Char[text[n + 1]] \notin Spellings
      BY <3>1, <3>4, CharFound
    <3>6. n + 1 \in TableLen + 1 .. Len(text)
      <4>1. n >= TableLen
        BY <3>1 DEF n
      <4> QED BY <3>1, <3>2, <3>3, <4>1
    <3> QED BY <3>1, <3>5, <3>6
  <2>2. CASE UNCHANGED vars
    BY <2>2 DEF vars, PanicsOnlyUnspelled
  <2> QED BY <2>1, <2>2 DEF Next, Encode, MatchLongest, Fallback, Covered, Merge, MergesDone
<1> QED BY <1>1, <1>2, SpecTInv, PTL DEF Spec
=============================================================================
