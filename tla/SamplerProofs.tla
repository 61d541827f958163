--------------------------- MODULE SamplerProofs ---------------------------
(***************************************************************************)
(* Theorems about Sampler.tla, for every vocabulary, every set of logits   *)
(* and every configuration.  The two folds of the model, the mass of a set *)
(* of tokens and the repeat penalty, are first shown to do what their      *)
(* names say, one element at a time.  The cuts then rest on one fact: the  *)
(* first n of a list sorted best first are the heaviest n tokens there     *)
(* are, whichever of several equal tokens came first (Heaviest).           *)
(***************************************************************************)
EXTENDS Sampler, SequenceTheorems, FunctionTheorems, FiniteSetTheorems, TLAPS

\* The recent tokens are a list of tokens that ended no reply.
Recent == recent \in Seq(Token) /\ Eos \notin ToSet(recent)

\* A call starts from the answer of the model and goes on with a configuration
\* that validate let through.
Called ==
    /\ pc = "call" => logits = raw
    /\ pc \in {"topk", "topp", "draw", "returned"} => Valid(cfg)

\* The list is sorted, then cut, then drawn from.
Sorted ==
    pc = "topp" => /\ Keep(cfg) \in 1 .. Vocab
                   /\ indices \in BestFirst(logits, Keep(cfg))

Cut ==
    pc \in {"draw", "returned"} =>
        /\ Keep(cfg) \in 1 .. Vocab
        /\ \E s \in BestFirst(logits, Keep(cfg)) :
               indices = SubSeq(s, 1, Cutoff(logits, s, cfg.top_p))

Drawn == pc = "returned" => chosen \in ToSet(indices)

SInv ==
    /\ TypeOK /\ Recent /\ Called
    /\ NeverPromoted /\ EndNeverPenalised
    /\ Sorted /\ Cut /\ Drawn

-----------------------------------------------------------------------------
(* Induction.                                                              *)

LEMMA NatInductive ==
    ASSUME NEW S, 0 \in S, \A n \in Nat : n \in S => n + 1 \in S
    PROVE  \A n \in Nat : n \in S
<1> DEFINE R == {ss \in Nat \X Nat : ss[1] < ss[2]}
           Rest == {n \in Nat : n \notin S}
<1>1. IsWellFoundedOn(R, Nat)
  BY NatLessThanWellFounded DEF OpToRel
<1> SUFFICES ASSUME Rest # {}
             PROVE  FALSE
  OBVIOUS
<1>2. PICK x \in Rest : \A y \in Rest : ~(<<y, x>> \in R)
  <2> HIDE DEF R
  <2> QED BY <1>1, WFMin
<1>3. x \in Nat /\ x \notin S /\ x # 0
  OBVIOUS
<1>4. x - 1 \in Nat /\ x - 1 < x /\ (x - 1) + 1 = x
  BY <1>3
<1>5. x - 1 \notin S
  BY <1>3, <1>4
<1>6. <<x - 1, x>> \in Nat \X Nat /\ <<x - 1, x>> \in R
  BY <1>3, <1>4
<1> QED BY <1>2, <1>4, <1>5, <1>6

\* A family holds every finite set when it holds a set whenever it holds all
\* that are one element smaller.
LEMMA FiniteInductive ==
    ASSUME NEW T, IsFiniteSet(T), NEW F,
           \A s \in SUBSET T : (\A x \in s : s \ {x} \in F) => s \in F
    PROVE  T \in F
<1> DEFINE S == {n \in Nat : \A s \in SUBSET T : Cardinality(s) = n => s \in F}
<1>1. \A s \in SUBSET T : IsFiniteSet(s) /\ Cardinality(s) \in Nat
  BY FS_Subset, FS_CardinalityType
<1>2. 0 \in S
  <2>1. ASSUME NEW s \in SUBSET T, Cardinality(s) = 0
        PROVE  s \in F
    <3>1. s = {}
      BY <1>1, <2>1, FS_EmptySet
    <3> QED BY <3>1
  <2> QED BY <2>1
<1>3. ASSUME NEW n \in Nat, n \in S
      PROVE  n + 1 \in S
  <2>1. ASSUME NEW s \in SUBSET T, Cardinality(s) = n + 1
        PROVE  s \in F
    <3>1. ASSUME NEW x \in s
          PROVE  s \ {x} \in F
      <4>1. Cardinality(s \ {x}) = Cardinality(s) - 1
        BY <1>1, FS_RemoveElement
      <4>2. Cardinality(s \ {x}) = n
        BY <2>1, <4>1
      <4> QED BY <1>3, <4>2
    <3> QED BY <3>1
  <2> QED BY <2>1
<1>4. \A n \in Nat : n \in S
  <2> HIDE DEF S
  <2> QED BY <1>2, <1>3, NatInductive
<1>5. Cardinality(T) \in S
  BY <1>1, <1>4
<1> QED BY <1>5

-----------------------------------------------------------------------------
(* Sums.                                                                   *)

\* g adds up the weights of the sets of tokens.
IsSum(g, W, T) ==
    /\ g \in [SUBSET T -> Nat]
    /\ g[{}] = 0
    /\ \A s \in SUBSET T : \A x \in s : g[s] = W[x] + g[s \ {x}]

LEMMA SumExtends ==
    ASSUME NEW T, NEW W \in [T -> Nat], NEW s \in SUBSET T, NEW x \in T \ s,
           NEW g, IsSum(g, W, s)
    PROVE  \E h : IsSum(h, W, s \cup {x})
<1> DEFINE h == [u \in SUBSET (s \cup {x}) |->
                     g[u \ {x}] + (IF x \in u THEN W[x] ELSE 0)]
<1>1. \A u \in SUBSET (s \cup {x}) : u \ {x} \in SUBSET s /\ g[u \ {x}] \in Nat
  BY DEF IsSum
<1>2. W[x] \in Nat
  OBVIOUS
<1>3. h \in [SUBSET (s \cup {x}) -> Nat]
  <2>1. ASSUME NEW u \in SUBSET (s \cup {x})
        PROVE  g[u \ {x}] + (IF x \in u THEN W[x] ELSE 0) \in Nat
    <3>1. g[u \ {x}] \in Nat
      BY <1>1
    <3> QED BY <1>2, <3>1
  <2> QED BY <2>1
<1>4. h[{}] = 0
  <2>1. {} \in SUBSET (s \cup {x}) /\ {} \ {x} = {} /\ x \notin {}
    OBVIOUS
  <2>2. h[{}] = g[{}] + 0
    BY <2>1
  <2> QED BY <2>2 DEF IsSum
<1>5. ASSUME NEW u \in SUBSET (s \cup {x}), NEW y \in u
      PROVE  h[u] = W[y] + h[u \ {y}]
  <2>1. u \ {y} \in SUBSET (s \cup {x})
    OBVIOUS
  <2>2. CASE y = x
    <3>1. (u \ {y}) \ {x} = u \ {x} /\ x \in u /\ x \notin u \ {y}
      BY <2>2
    <3>2. h[u] = g[u \ {x}] + W[x] /\ h[u \ {y}] = g[u \ {x}] + 0
      BY <2>1, <3>1
    <3> HIDE DEF h
    <3> QED BY <1>1, <1>2, <2>2, <3>2
  <2>3. CASE y # x
    <3>1. u \ {x} \in SUBSET s /\ y \in u \ {x}
          /\ (u \ {x}) \ {y} = (u \ {y}) \ {x}
          /\ (x \in u <=> x \in u \ {y})
      BY <2>3
    <3>2. g[u \ {x}] = W[y] + g[(u \ {y}) \ {x}]
      BY <3>1 DEF IsSum
    <3>3. h[u] = g[u \ {x}] + (IF x \in u THEN W[x] ELSE 0)
          /\ h[u \ {y}] = g[(u \ {y}) \ {x}] + (IF x \in u THEN W[x] ELSE 0)
      BY <2>1, <3>1
    <3>4. g[(u \ {y}) \ {x}] \in Nat /\ W[y] \in Nat /\ g[u \ {x}] \in Nat
          /\ (IF x \in u THEN W[x] ELSE 0) \in Nat
      BY <1>1, <1>2, <2>1
    <3> HIDE DEF h
    <3> QED BY <3>2, <3>3, <3>4
  <2> QED BY <2>2, <2>3
<1>6. IsSum(h, W, s \cup {x})
  <2> HIDE DEF h
  <2> QED BY <1>3, <1>4, <1>5 DEF IsSum
<1> QED BY <1>6

LEMMA SumExists ==
    ASSUME NEW T, IsFiniteSet(T), NEW W \in [T -> Nat]
    PROVE  \E g : IsSum(g, W, T)
<1> DEFINE F == {s \in SUBSET T : \E g : IsSum(g, W, s)}
<1>1. ASSUME NEW s \in SUBSET T, \A x \in s : s \ {x} \in F
      PROVE  s \in F
  <2>1. CASE s = {}
    <3> DEFINE z == [u \in SUBSET {} |-> 0]
    <3>1. IsSum(z, W, {})
      BY DEF IsSum
    <3> QED BY <2>1, <3>1
  <2>2. CASE s # {}
    <3>1. PICK x \in s : TRUE
      BY <2>2
    <3>2. PICK g : IsSum(g, W, s \ {x})
      BY <1>1, <3>1
    <3>3. \E h : IsSum(h, W, (s \ {x}) \cup {x})
      BY <3>2, SumExtends
    <3>4. (s \ {x}) \cup {x} = s
      OBVIOUS
    <3> QED BY <3>3, <3>4
  <2> QED BY <2>1, <2>2
<1>2. T \in F
  <2> HIDE DEF F
  <2> QED BY <1>1, FiniteInductive
<1> QED BY <1>2

-----------------------------------------------------------------------------
(* Weights.                                                                *)

Lowest(ls) == {ls[u] : u \in Token}

LEMMA LeastLogit ==
    ASSUME NEW ls \in [Token -> Int]
    PROVE  /\ Min(Lowest(ls)) \in Int
           /\ \A t \in Token : Min(Lowest(ls)) =< ls[t]
<1> DEFINE F == {s \in SUBSET Token : s # {} =>
                     \E x \in s : \A y \in s : ls[x] =< ls[y]}
<1>1. ASSUME NEW s \in SUBSET Token, \A x \in s : s \ {x} \in F
      PROVE  s \in F
  <2>1. ASSUME s # {}
        PROVE  \E x \in s : \A y \in s : ls[x] =< ls[y]
    <3>1. PICK a \in s : TRUE
      BY <2>1
    <3>2. CASE s \ {a} = {}
      <4>1. \A y \in s : y = a
        BY <3>2
      <4> QED BY <3>1, <4>1
    <3>3. CASE s \ {a} # {}
      <4>1. PICK x \in s \ {a} : \A y \in s \ {a} : ls[x] =< ls[y]
        BY <1>1, <3>3
      <4>2. \A y \in s : ls[y] \in Int
        OBVIOUS
      <4>3. CASE ls[a] =< ls[x]
        BY <4>1, <4>2, <4>3
      <4>4. CASE ls[x] =< ls[a]
        BY <4>1, <4>2, <4>4
      <4> QED BY <4>2, <4>3, <4>4
    <3> QED BY <3>2, <3>3
  <2> QED BY <2>1
<1>2. Token \in F
  <2> HIDE DEF F
  <2> QED BY <1>1, FiniteInductive, SamplerAssumption DEF SamplerAssumption
<1>3. PICK x \in Token : \A y \in Token : ls[x] =< ls[y]
  BY <1>2, SamplerAssumption DEF SamplerAssumption
<1>4. ls[x] \in Lowest(ls) /\ \A y \in Lowest(ls) : ls[x] =< y
  BY <1>3 DEF Lowest
<1>5. Min(Lowest(ls)) \in Lowest(ls) /\ \A y \in Lowest(ls) : Min(Lowest(ls)) =< y
  BY <1>4 DEF Min
<1> QED BY <1>5 DEF Lowest

LEMMA PowersOfTwo ==
    ASSUME NEW n \in Nat
    PROVE  2 ^ n \in Nat /\ 2 ^ n >= 1 /\ \A m \in 0 .. n : 2 ^ m =< 2 ^ n
<1>1. ASSUME NEW m \in Nat
      PROVE  /\ IsFiniteSet(SUBSET (1 .. m))
             /\ Cardinality(SUBSET (1 .. m)) = 2 ^ m
  <2>1. IsFiniteSet(1 .. m) /\ Cardinality(1 .. m) = m
    BY FS_Interval
  <2> QED BY <2>1, FS_SUBSET
<1>2. 2 ^ n \in Nat /\ 2 ^ n # 0
  <2>1. SUBSET (1 .. n) # {}
    OBVIOUS
  <2>2. Cardinality(SUBSET (1 .. n)) \in Nat
    BY <1>1, FS_CardinalityType
  <2>3. Cardinality(SUBSET (1 .. n)) # 0
    BY <1>1, <2>1, FS_EmptySet
  <2> QED BY <1>1, <2>2, <2>3
<1>3. ASSUME NEW m \in 0 .. n
      PROVE  2 ^ m =< 2 ^ n
  <2>1. SUBSET (1 .. m) \in SUBSET SUBSET (1 .. n)
    OBVIOUS
  <2>2. Cardinality(SUBSET (1 .. m)) =< Cardinality(SUBSET (1 .. n))
    BY <1>1, <2>1, FS_Subset
  <2>3. m \in Nat
    OBVIOUS
  <2> QED BY <1>1, <2>2, <2>3
<1>4. 2 ^ n >= 1
  BY <1>2
<1> QED BY <1>2, <1>3, <1>4

\* The softmax keeps the order of the logits, and gives every token a weight.
LEMMA WeightFacts ==
    ASSUME NEW ls \in [Token -> Int], NEW t \in Token
    PROVE  /\ Weight(ls, t) \in Nat /\ Weight(ls, t) >= 1
           /\ \A u \in Token : ls[u] =< ls[t] => Weight(ls, u) =< Weight(ls, t)
<1> DEFINE least == Min(Lowest(ls))
<1>1. least \in Int /\ \A u \in Token : least =< ls[u]
  BY LeastLogit
<1>2. \A u \in Token : Weight(ls, u) = 2 ^ (ls[u] - least)
  BY DEF Weight, Lowest
<1> HIDE DEF least
<1>3. \A u \in Token : ls[u] - least \in Nat
  BY <1>1
<1>4. Weight(ls, t) \in Nat /\ Weight(ls, t) >= 1
  BY <1>2, <1>3, PowersOfTwo
<1>5. ASSUME NEW u \in Token, ls[u] =< ls[t]
      PROVE  Weight(ls, u) =< Weight(ls, t)
  <2>1. ls[u] \in Int /\ ls[t] \in Int
    OBVIOUS
  <2>2. ls[u] - least \in 0 .. (ls[t] - least)
    BY <1>1, <1>3, <1>5, <2>1
  <2> QED BY <1>2, <1>3, <2>2, PowersOfTwo
<1> QED BY <1>4, <1>5

\* What MapThenSumSet computes for Mass, whichever element it takes next.
LEMMA MassIsSum ==
    ASSUME NEW ls, NEW W, NEW g, IsSum(g, W, Token),
           \A t \in Token : W[t] = Weight(ls, t),
           NEW ts \in SUBSET Token
    PROVE  Mass(ls, ts) = g[ts]
<1> DEFINE body(it, s) == IF s = {} THEN 0
                          ELSE Weight(ls, CHOOSE x \in s : TRUE)
                               + it[s \ {CHOOSE x \in s : TRUE}]
           iter == CHOOSE it : it = [s \in SUBSET ts |-> body(it, s)]
           r == [s \in SUBSET ts |-> g[s]]
<1>1. Mass(ls, ts) = iter[ts]
  BY DEF Mass, MapThenSumSet, MapThenFoldSet
<1>2. ASSUME NEW s \in SUBSET ts
      PROVE  r[s] = body(r, s)
  <2>1. CASE s = {}
    BY <2>1 DEF IsSum
  <2>2. CASE s # {}
    <3> DEFINE x == CHOOSE x \in s : TRUE
    <3>1. x \in s
      BY <2>2
    <3>2. g[s] = W[x] + g[s \ {x}]
      BY <3>1 DEF IsSum
    <3>3. s \ {x} \in SUBSET ts
      OBVIOUS
    <3>4. Weight(ls, x) = W[x]
      BY <3>1
    <3> QED BY <2>2, <3>2, <3>3, <3>4
  <2> QED BY <2>1, <2>2
<1>3. r = [s \in SUBSET ts |-> body(r, s)]
  BY <1>2
<1>4. iter = [s \in SUBSET ts |-> body(iter, s)]
  BY <1>3
<1> HIDE DEF iter
<1> DEFINE F == {s \in SUBSET ts : iter[s] = g[s]}
<1>5. ASSUME NEW s \in SUBSET ts, \A x \in s : s \ {x} \in F
      PROVE  s \in F
  <2>1. iter[s] = body(iter, s)
    <3> HIDE DEF body
    <3> QED BY <1>4
  <2>2. CASE s = {}
    BY <2>1, <2>2 DEF IsSum
  <2>3. CASE s # {}
    <3> DEFINE x == CHOOSE x \in s : TRUE
    <3>1. x \in s
      BY <2>3
    <3>2. g[s] = W[x] + g[s \ {x}]
      BY <3>1 DEF IsSum
    <3>3. iter[s \ {x}] = g[s \ {x}]
      BY <1>5, <3>1
    <3>4. Weight(ls, x) = W[x]
      BY <3>1
    <3>5. iter[s] = Weight(ls, x) + iter[s \ {x}]
      BY <2>1, <2>3
    <3> QED BY <3>2, <3>3, <3>4, <3>5
  <2> QED BY <2>2, <2>3
<1>6. IsFiniteSet(ts)
  BY FS_Subset, SamplerAssumption DEF SamplerAssumption
<1>7. ts \in F
  <2> HIDE DEF F
  <2> QED BY <1>5, <1>6, FiniteInductive
<1> QED BY <1>1, <1>7

\* The mass of a set of tokens adds up their weights.
LEMMA MassFacts ==
    ASSUME NEW ls \in [Token -> Int], NEW ts \in SUBSET Token
    PROVE  /\ Mass(ls, ts) \in Nat
           /\ Mass(ls, {}) = 0
           /\ \A t \in ts : /\ Mass(ls, ts \ {t}) \in Nat
                            /\ Mass(ls, ts) = Weight(ls, t) + Mass(ls, ts \ {t})
<1> DEFINE W == [t \in Token |-> Weight(ls, t)]
<1>1. W \in [Token -> Nat]
  BY WeightFacts
<1>2. PICK g : IsSum(g, W, Token)
  BY <1>1, SumExists, SamplerAssumption DEF SamplerAssumption
<1>3. \A t \in Token : W[t] = Weight(ls, t)
  OBVIOUS
<1> HIDE DEF W
<1>4. \A s \in SUBSET Token : Mass(ls, s) = g[s]
  BY <1>2, <1>3, MassIsSum
<1>5. {} \in SUBSET Token /\ \A t \in ts : ts \ {t} \in SUBSET Token
  OBVIOUS
<1> QED BY <1>2, <1>3, <1>4, <1>5 DEF IsSum

LEMMA MassMonotone ==
    ASSUME NEW ls \in [Token -> Int], NEW ts \in SUBSET Token
    PROVE  \A s \in SUBSET ts : Mass(ls, s) =< Mass(ls, ts)
<1> DEFINE F == {u \in SUBSET Token : \A s \in SUBSET u : Mass(ls, s) =< Mass(ls, u)}
<1>1. ASSUME NEW u \in SUBSET ts, \A x \in u : u \ {x} \in F
      PROVE  u \in F
  <2>1. ASSUME NEW s \in SUBSET u
        PROVE  Mass(ls, s) =< Mass(ls, u)
    <3>1. u \in SUBSET Token /\ s \in SUBSET Token
      OBVIOUS
    <3>2. Mass(ls, s) \in Nat /\ Mass(ls, u) \in Nat
      BY <3>1, MassFacts
    <3>3. CASE s = u
      BY <3>2, <3>3
    <3>4. CASE s # u
      <4>1. PICK x \in u : x \notin s
        BY <3>4
      <4>2. s \in SUBSET (u \ {x})
        BY <4>1
      <4>3. Mass(ls, s) =< Mass(ls, u \ {x})
        BY <1>1, <4>2
      <4>4. Mass(ls, u) = Weight(ls, x) + Mass(ls, u \ {x})
            /\ Mass(ls, u \ {x}) \in Nat
        BY <3>1, MassFacts
      <4>5. x \in Token
        OBVIOUS
      <4>6. Weight(ls, x) \in Nat
        BY <4>5, WeightFacts
      <4> QED BY <3>2, <4>3, <4>4, <4>6
    <3> QED BY <3>3, <3>4
  <2> QED BY <2>1
<1>2. IsFiniteSet(ts)
  BY FS_Subset, SamplerAssumption DEF SamplerAssumption
<1>3. ts \in F
  <2> HIDE DEF F
  <2> QED BY <1>1, <1>2, FiniteInductive
<1> QED BY <1>3

-----------------------------------------------------------------------------
(* Lists sorted best first.                                                *)

First(s, n) == {s[i] : i \in 1 .. n}

LEMMA SortedFacts ==
    ASSUME NEW ls \in [Token -> Int], NEW k \in Nat \ {0},
           NEW s \in BestFirst(ls, k)
    PROVE  /\ s \in Seq(Token) /\ Len(s) = k /\ IsInjective(s)
           /\ ToSet(s) = First(s, k)
           /\ \A n \in 0 .. k : /\ SubSeq(s, 1, n) \in Seq(Token)
                                /\ Len(SubSeq(s, 1, n)) = n
                                /\ IsInjective(SubSeq(s, 1, n))
                                /\ ToSet(SubSeq(s, 1, n)) = First(s, n)
                                /\ First(s, n) \in SUBSET Token
           /\ \A n \in 1 .. k : /\ s[n] \in Token
                                /\ s[n] \in First(s, n)
                                /\ First(s, n) \ {s[n]} = First(s, n - 1)
           /\ \A n \in 1 .. k : \A t \in Token \ First(s, n - 1) : ls[t] =< ls[s[n]]
<1>1. s \in [1 .. k -> Token]
      /\ (\A i, j \in 1 .. k : i < j => s[i] # s[j] /\ ls[s[i]] >= ls[s[j]])
      /\ (\A t \in Token \ ToSet(s) : ls[t] <= ls[s[k]])
  BY DEF BestFirst
<1>2. s \in Seq(Token) /\ Len(s) = k /\ DOMAIN s = 1 .. k
  BY <1>1, IsASeq, LenProperties
<1>3. ToSet(s) = First(s, k)
  BY <1>2 DEF ToSet, First
<1>4. \A i, j \in 1 .. k : s[i] = s[j] => i = j
  <2>1. ASSUME NEW i \in 1 .. k, NEW j \in 1 .. k, s[i] = s[j]
        PROVE  i = j
    <3>1. ~(i < j) /\ ~(j < i)
      BY <1>1, <2>1
    <3> QED BY <3>1
  <2> QED BY <2>1
<1>5. IsInjective(s)
  BY <1>2, <1>4 DEF IsInjective
<1>6. ASSUME NEW n \in 0 .. k
      PROVE  /\ SubSeq(s, 1, n) \in Seq(Token)
             /\ Len(SubSeq(s, 1, n)) = n
             /\ IsInjective(SubSeq(s, 1, n))
             /\ ToSet(SubSeq(s, 1, n)) = First(s, n)
             /\ First(s, n) \in SUBSET Token
  <2> DEFINE r == SubSeq(s, 1, n)
  <2>1. r \in Seq(Token) /\ Len(r) = n /\ \A i \in 1 .. n : r[i] = s[i]
    BY <1>2
  <2>2. DOMAIN r = 1 .. n
    BY <2>1
  <2> HIDE DEF r
  <2>3. \A i \in 1 .. n : i \in 1 .. k
    OBVIOUS
  <2>4. IsInjective(r)
    BY <1>4, <2>1, <2>2, <2>3 DEF IsInjective
  <2>5. ToSet(r) = First(s, n)
    BY <2>1, <2>2 DEF ToSet, First
  <2>6. First(s, n) \in SUBSET Token
    BY <1>1, <2>3 DEF First
  <2> QED BY <2>1, <2>4, <2>5, <2>6 DEF r
<1>7. ASSUME NEW n \in 1 .. k
      PROVE  s[n] \in Token /\ s[n] \in First(s, n)
             /\ First(s, n) \ {s[n]} = First(s, n - 1)
  <2>1. s[n] \in Token
    BY <1>1
  <2>2. n \in 1 .. n /\ 1 .. n = (1 .. n - 1) \cup {n} /\ n \notin 1 .. n - 1
        /\ \A i \in 1 .. n : i \in 1 .. k
    OBVIOUS
  <2>3. s[n] \in First(s, n)
    BY <2>2 DEF First
  <2>4. \A i \in 1 .. n - 1 : s[i] # s[n]
    BY <1>4, <2>2
  <2>5. First(s, n) = First(s, n - 1) \cup {s[n]}
    BY <2>2 DEF First
  <2>6. s[n] \notin First(s, n - 1)
    BY <2>4 DEF First
  <2> QED BY <2>1, <2>3, <2>5, <2>6
<1>8. ASSUME NEW n \in 1 .. k, NEW t \in Token \ First(s, n - 1)
      PROVE  ls[t] =< ls[s[n]]
  <2>1. k \in 1 .. k /\ \A i \in 1 .. k : ls[s[i]] \in Int
    BY <1>1
  <2>2. ls[s[k]] =< ls[s[n]]
    <3>1. CASE n = k
      BY <2>1, <3>1
    <3>2. CASE n # k
      <4>1. n < k
        BY <3>2
      <4> QED BY <1>1, <2>1, <4>1
    <3> QED BY <3>1, <3>2
  <2>3. CASE t \notin ToSet(s)
    <3>1. ls[t] <= ls[s[k]] /\ ls[t] \in Int
      BY <1>1, <2>3
    <3> QED BY <2>1, <2>2, <3>1
  <2>4. CASE t \in ToSet(s)
    <3>1. PICK i \in 1 .. k : t = s[i]
      BY <1>2, <2>4 DEF ToSet
    <3>2. i \notin 1 .. n - 1
      BY <3>1 DEF First
    <3>3. n = i \/ n < i
      BY <3>2
    <3>4. CASE n = i
      BY <2>1, <3>1, <3>4
    <3>5. CASE n < i
      BY <1>1, <3>1, <3>5
    <3> QED BY <3>3, <3>4, <3>5
  <2> QED BY <2>3, <2>4
<1> QED BY <1>2, <1>3, <1>5, <1>6, <1>7, <1>8

\* No n tokens are heavier than the first n of a list sorted best first.
LEMMA Heaviest ==
    ASSUME NEW ls \in [Token -> Int], NEW k \in Nat \ {0},
           NEW s \in BestFirst(ls, k), NEW n \in 0 .. k,
           NEW ts \in SUBSET Token, Cardinality(ts) =< n
    PROVE  Mass(ls, ts) =< Mass(ls, First(s, n))
<1> DEFINE S == {m \in Nat : m =< k =>
                    \A u \in SUBSET Token : Cardinality(u) =< m =>
                        Mass(ls, u) =< Mass(ls, First(s, m))}
<1>1. \A u \in SUBSET Token : IsFiniteSet(u) /\ Cardinality(u) \in Nat
  BY FS_Subset, FS_CardinalityType, SamplerAssumption DEF SamplerAssumption
<1>2. 0 \in S
  <2>1. ASSUME NEW u \in SUBSET Token, Cardinality(u) =< 0
        PROVE  Mass(ls, u) =< Mass(ls, First(s, 0))
    <3>1. Cardinality(u) = 0
      BY <1>1, <2>1
    <3>2. u = {}
      BY <1>1, <3>1, FS_EmptySet
    <3>3. First(s, 0) = {}
      BY DEF First
    <3>4. Mass(ls, {}) = 0
      BY <3>2, MassFacts
    <3> QED BY <3>2, <3>3, <3>4
  <2> QED BY <2>1
<1>3. ASSUME NEW m \in Nat, m \in S
      PROVE  m + 1 \in S
  <2>1. ASSUME m + 1 =< k,
               NEW u \in SUBSET Token, Cardinality(u) =< m + 1
        PROVE  Mass(ls, u) =< Mass(ls, First(s, m + 1))
    <3> DEFINE best == s[m + 1]
               before == First(s, m)
               upto == First(s, m + 1)
    <3>1. m + 1 \in 1 .. k /\ (m + 1) - 1 = m /\ m \in 0 .. k /\ m + 1 \in 0 .. k
          /\ m =< k
      BY <2>1
    <3>2. best \in Token /\ best \in upto /\ upto \ {best} = before
          /\ upto \in SUBSET Token /\ before \in SUBSET Token
          /\ \A t \in Token \ before : ls[t] =< ls[best]
      BY <3>1, SortedFacts
    <3> HIDE DEF best, before, upto
    <3>3. /\ Mass(ls, upto) = Weight(ls, best) + Mass(ls, before)
          /\ Mass(ls, before) \in Nat
          /\ Mass(ls, upto) \in Nat
          /\ Weight(ls, best) \in Nat
      BY <3>2, MassFacts, WeightFacts
    <3>4. CASE u \in SUBSET before
      <4>1. Mass(ls, u) =< Mass(ls, before)
        BY <3>2, <3>4, MassMonotone
      <4>2. Mass(ls, u) \in Nat
        BY MassFacts
      <4> QED BY <3>3, <4>1, <4>2 DEF upto
    <3>5. CASE u \notin SUBSET before
      <4>1. PICK x \in u : x \notin before
        BY <3>5
      <4>2. x \in Token
        BY <4>1
      <4>3. ls[x] =< ls[best]
        BY <3>2, <4>1, <4>2
      <4>4. Weight(ls, x) =< Weight(ls, best) /\ Weight(ls, x) \in Nat
        BY <3>2, <4>2, <4>3, WeightFacts
      <4>5. /\ Mass(ls, u) = Weight(ls, x) + Mass(ls, u \ {x})
            /\ Mass(ls, u \ {x}) \in Nat
        BY MassFacts
      <4>6. u \ {x} \in SUBSET Token /\ Cardinality(u \ {x}) = Cardinality(u) - 1
        BY <1>1, FS_RemoveElement
      <4>7. Cardinality(u \ {x}) =< m
        BY <1>1, <2>1, <4>6
      <4>8. Mass(ls, u \ {x}) =< Mass(ls, before)
        BY <1>3, <3>1, <4>6, <4>7 DEF before
      <4> QED BY <3>3, <4>4, <4>5, <4>8 DEF upto
    <3> QED BY <3>4, <3>5
  <2> QED BY <2>1
<1>4. \A m \in Nat : m \in S
  <2> HIDE DEF S
  <2> QED BY <1>2, <1>3, NatInductive
<1>5. n \in S /\ n =< k
  BY <1>4
<1> QED BY <1>5

\* So all lists of the k best have the same mass.
LEMMA SameMass ==
    ASSUME NEW ls \in [Token -> Int], NEW k \in Nat \ {0},
           NEW r \in BestFirst(ls, k), NEW s \in BestFirst(ls, k)
    PROVE  Mass(ls, ToSet(r)) = Mass(ls, ToSet(s))
<1>1. ASSUME NEW q \in BestFirst(ls, k)
      PROVE  /\ ToSet(q) \in SUBSET Token
             /\ ToSet(q) = First(q, k)
             /\ Cardinality(ToSet(q)) =< k
             /\ Mass(ls, ToSet(q)) \in Nat
  <2>1. q \in Seq(Token) /\ Len(q) = k /\ IsInjective(q) /\ ToSet(q) = First(q, k)
    BY SortedFacts
  <2>2. k \in 0 .. k
    OBVIOUS
  <2>3. First(q, k) \in SUBSET Token
    BY <2>2, SortedFacts
  <2>4. q \in [1 .. k -> ToSet(q)] /\ \A t \in ToSet(q) : \E i \in 1 .. k : q[i] = t
    BY <2>1 DEF ToSet
  <2>5. q \in Surjection(1 .. k, ToSet(q))
    BY <2>4 DEF Surjection
  <2>6. IsFiniteSet(1 .. k) /\ Cardinality(1 .. k) = k
    BY FS_Interval
  <2>7. Cardinality(ToSet(q)) =< k
    BY <2>5, <2>6, FS_Surjection
  <2> QED BY <2>1, <2>3, <2>7, MassFacts
<1>2. k \in 0 .. k
  OBVIOUS
<1>3. Mass(ls, ToSet(r)) =< Mass(ls, ToSet(s))
  BY <1>1, <1>2, Heaviest
<1>4. Mass(ls, ToSet(s)) =< Mass(ls, ToSet(r))
  BY <1>1, <1>2, Heaviest
<1> QED BY <1>1, <1>3, <1>4

-----------------------------------------------------------------------------
(* The cut.                                                                *)

LEMMA ProductMonotone ==
    ASSUME NEW a \in Int, NEW b \in Int, a =< b, NEW c \in Nat
    PROVE  a * c =< b * c /\ a * c \in Int /\ b * c \in Int
<1>1. b - a \in Nat /\ b = a + (b - a)
  OBVIOUS
<1>2. (b - a) * c \in Nat
  <2>1. \A d \in Nat : d * c \in Nat
    OBVIOUS
  <2> QED BY <1>1, <2>1
<1>3. b * c = a * c + (b - a) * c
  OBVIOUS
<1>4. a * c \in Int /\ b * c \in Int
  OBVIOUS
<1>5. \A x, y \in Int, z \in Nat : y = x + z => x =< y
  OBVIOUS
<1> QED BY <1>2, <1>3, <1>4, <1>5

\* A share a validated configuration asks for.
Share == {p \in Nat \X (Nat \ {0}) : p[1] > 0 /\ p[1] =< p[2]}

\* A set at most as heavy falls short as well.
LEMMA FallsShort ==
    ASSUME NEW ls \in [Token -> Int], NEW p \in Share,
           NEW whole \in SUBSET Token, NEW ts \in SUBSET Token,
           NEW u \in SUBSET Token, Mass(ls, u) =< Mass(ls, ts),
           ~Reaches(ls, ts, whole, p)
    PROVE  ~Reaches(ls, u, whole, p)
<1>1. Mass(ls, u) \in Nat /\ Mass(ls, ts) \in Nat /\ Mass(ls, whole) \in Nat
  BY MassFacts
<1>2. p[1] \in Nat /\ p[2] \in Nat
  BY DEF Share
<1>3. Mass(ls, u) * p[2] =< Mass(ls, ts) * p[2]
      /\ Mass(ls, u) * p[2] \in Int /\ Mass(ls, ts) * p[2] \in Int
  BY <1>1, <1>2, ProductMonotone
<1>4. p[1] * Mass(ls, whole) \in Int
  BY <1>1, <1>2
<1>5. \A x, y, z \in Int : x =< y /\ ~(y >= z) => ~(x >= z)
  OBVIOUS
<1> QED BY <1>3, <1>4, <1>5 DEF Reaches

\* The cut comes right behind the token that reaches the share.
LEMMA CutoffFacts ==
    ASSUME NEW ls \in [Token -> Int], NEW k \in Nat \ {0},
           NEW s \in BestFirst(ls, k), NEW p \in Share
    PROVE  LET c == Cutoff(ls, s, p)
           IN  /\ c \in 1 .. k
               /\ Reaches(ls, First(s, c), ToSet(s), p)
               /\ \A n \in 0 .. c - 1 : ~Reaches(ls, First(s, n), ToSet(s), p)
<1> DEFINE c == Cutoff(ls, s, p)
           C == {k} \cup {n \in 1 .. k : Reaches(ls, First(s, n), ToSet(s), p)}
<1>1. Len(s) = k /\ ToSet(s) = First(s, k)
      /\ \A n \in 0 .. k : ToSet(SubSeq(s, 1, n)) = First(s, n)
                           /\ First(s, n) \in SUBSET Token
  BY SortedFacts
<1>2. \A n \in 1 .. k : n \in 0 .. k
  OBVIOUS
<1>3. {n \in 1 .. k : Reaches(ls, ToSet(SubSeq(s, 1, n)), ToSet(s), p)}
         = {n \in 1 .. k : Reaches(ls, First(s, n), ToSet(s), p)}
  BY <1>1, <1>2
<1>4. c = Min(C)
  BY <1>1, <1>3 DEF Cutoff
<1>5. C \subseteq 1 .. k /\ k \in C
  OBVIOUS
<1>6. c \in C /\ \A n \in C : c =< n
  <2> HIDE DEF C, c
  <2>1. \E x \in C : \A y \in C : x =< y
    <3> DEFINE R == {ss \in Nat \X Nat : ss[1] < ss[2]}
    <3>1. IsWellFoundedOn(R, Nat)
      BY NatLessThanWellFounded DEF OpToRel
    <3>2. C \subseteq Nat /\ C # {}
      BY <1>5
    <3>3. PICK x \in C : \A y \in C : ~(<<y, x>> \in R)
      <4> HIDE DEF R
      <4> QED BY <3>1, <3>2, WFMin
    <3>4. ASSUME NEW y \in C
          PROVE  x =< y
      <4>1. x \in Nat /\ y \in Nat
        BY <3>2
      <4>2. ~(y < x)
        BY <3>3, <4>1
      <4> QED BY <4>1, <4>2
    <3> QED BY <3>4
  <2> QED BY <1>4, <2>1 DEF Min
<1>7. /\ Mass(ls, ToSet(s)) \in Nat
      /\ Mass(ls, ToSet(s)) >= 1
      /\ ToSet(s) \in SUBSET Token
  <2>1. k \in 1 .. k /\ k \in 0 .. k
    OBVIOUS
  <2>2. s[k] \in Token /\ s[k] \in First(s, k) /\ First(s, k) \in SUBSET Token
    BY <2>1, SortedFacts
  <2>3. s[k] \in ToSet(s) /\ ToSet(s) \in SUBSET Token
    BY <1>1, <2>2
  <2>4. /\ Mass(ls, ToSet(s)) = Weight(ls, s[k]) + Mass(ls, ToSet(s) \ {s[k]})
        /\ Mass(ls, ToSet(s) \ {s[k]}) \in Nat
    BY <2>3, MassFacts
  <2>5. Weight(ls, s[k]) \in Nat /\ Weight(ls, s[k]) >= 1
    BY <2>2, WeightFacts
  <2> QED BY <2>3, <2>4, <2>5
<1>8. p[1] \in Nat /\ p[2] \in Nat /\ p[1] > 0 /\ p[1] =< p[2]
  BY DEF Share
<1>9. Reaches(ls, ToSet(s), ToSet(s), p)
  <2> DEFINE M == Mass(ls, ToSet(s))
  <2>1. p[1] * M =< p[2] * M /\ p[1] * M \in Int /\ p[2] * M \in Int
    BY <1>7, <1>8, ProductMonotone
  <2>2. p[2] * M = M * p[2]
    BY <1>7, <1>8
  <2>3. \A x, y \in Int : x =< y => y >= x
    OBVIOUS
  <2> QED BY <2>1, <2>2, <2>3 DEF Reaches
<1>10. c \in 1 .. k
  BY <1>5, <1>6
<1>11. Reaches(ls, First(s, c), ToSet(s), p)
  <2> HIDE DEF c
  <2>1. CASE c = k
    BY <1>1, <1>9, <2>1
  <2>2. CASE c # k
    BY <1>6, <2>2
  <2> QED BY <2>1, <2>2
<1>12. ASSUME NEW n \in 0 .. c - 1
       PROVE  ~Reaches(ls, First(s, n), ToSet(s), p)
  <2> HIDE DEF c
  <2>1. CASE n = 0
    <3>1. First(s, n) = {}
      BY <2>1 DEF First
    <3>2. Mass(ls, First(s, n)) = 0
      BY <1>7, <3>1, MassFacts
    <3>3. \A x, y \in Nat : x > 0 /\ y >= 1 => x * y \in Nat /\ x * y > 0
      OBVIOUS
    <3>4. p[1] * Mass(ls, ToSet(s)) \in Nat /\ p[1] * Mass(ls, ToSet(s)) > 0
      BY <1>7, <1>8, <3>3
    <3>5. 0 * p[2] = 0
      BY <1>8
    <3>6. \A x \in Nat : x > 0 => ~(0 >= x)
      OBVIOUS
    <3> QED BY <3>2, <3>4, <3>5, <3>6 DEF Reaches
  <2>2. CASE n # 0
    <3>1. n \in 1 .. k /\ ~(c =< n)
      BY <1>10, <2>2
    <3>2. n \notin C
      BY <1>6, <3>1
    <3> QED BY <3>1, <3>2
  <2> QED BY <2>1, <2>2
<1> HIDE DEF c, C
<1> QED BY <1>10, <1>11, <1>12 DEF c

\* NucleusIsSmallest, for one list.
LEMMA SmallestNucleus ==
    ASSUME NEW ls \in [Token -> Int], NEW k \in Nat \ {0},
           NEW s \in BestFirst(ls, k), NEW p \in Share,
           NEW r \in BestFirst(ls, k)
    PROVE  LET c == Cutoff(ls, s, p)
           IN  /\ Reaches(ls, First(s, c), ToSet(r), p)
               /\ \A ts \in SUBSET ToSet(r) :
                      Reaches(ls, ts, ToSet(r), p) => Cardinality(ts) >= c
<1> DEFINE c == Cutoff(ls, s, p)
<1>1. /\ c \in 1 .. k
      /\ Reaches(ls, First(s, c), ToSet(s), p)
      /\ \A n \in 0 .. c - 1 : ~Reaches(ls, First(s, n), ToSet(s), p)
  BY CutoffFacts
<1> HIDE DEF c
<1>2. Mass(ls, ToSet(r)) = Mass(ls, ToSet(s))
  BY SameMass
<1>3. \A ts : Reaches(ls, ts, ToSet(r), p) <=> Reaches(ls, ts, ToSet(s), p)
  BY <1>2 DEF Reaches
<1>4. ToSet(r) \in SUBSET Token /\ ToSet(s) \in SUBSET Token
  <2>1. k \in 0 .. k
    OBVIOUS
  <2> QED BY <2>1, SortedFacts
<1>5. ASSUME NEW ts \in SUBSET ToSet(r), Reaches(ls, ts, ToSet(r), p)
      PROVE  Cardinality(ts) >= c
  <2>1. ts \in SUBSET Token
    BY <1>4
  <2>2. Cardinality(ts) \in Nat
    BY <2>1, FS_Subset, FS_CardinalityType, SamplerAssumption DEF SamplerAssumption
  <2>3. ASSUME Cardinality(ts) < c
        PROVE  FALSE
    <3> DEFINE n == Cardinality(ts)
    <3>1. n \in 0 .. c - 1 /\ n \in 0 .. k /\ n =< n
      BY <1>1, <2>2, <2>3
    <3>2. Mass(ls, ts) =< Mass(ls, First(s, n))
      <4> HIDE DEF n
      <4>1. Cardinality(ts) =< n
        BY <3>1 DEF n
      <4> QED BY <2>1, <3>1, <4>1, Heaviest
    <3>3. First(s, n) \in SUBSET Token
      BY <3>1, SortedFacts
    <3>4. ~Reaches(ls, First(s, n), ToSet(s), p)
      BY <1>1, <3>1
    <3>5. ~Reaches(ls, ts, ToSet(s), p)
      <4> HIDE DEF n
      <4> QED BY <1>4, <2>1, <3>2, <3>3, <3>4, FallsShort
    <3> QED BY <1>3, <1>5, <3>5
  <2> QED BY <1>1, <2>2, <2>3
<1> QED BY <1>1, <1>3, <1>5 DEF c

\* The tokens better than one that is kept are few and fall short.
LEMMA BetterFallShort ==
    ASSUME NEW ls \in [Token -> Int], NEW k \in Nat \ {0},
           NEW s \in BestFirst(ls, k), NEW p \in Share,
           NEW t \in First(s, Cutoff(ls, s, p))
    PROVE  LET better == {u \in Token : ls[u] > ls[t]}
           IN  /\ Cardinality(better) < k
               /\ ~Reaches(ls, better, ToSet(s), p)
<1> DEFINE c == Cutoff(ls, s, p)
           better == {u \in Token : ls[u] > ls[t]}
<1>1. /\ c \in 1 .. k
      /\ \A n \in 0 .. c - 1 : ~Reaches(ls, First(s, n), ToSet(s), p)
  BY CutoffFacts
<1>2. PICK j \in 1 .. c : t = s[j]
  BY DEF First
<1> HIDE DEF c
<1> DEFINE m == j - 1
<1>3. j \in 1 .. k /\ m \in 0 .. c - 1 /\ m \in 0 .. k /\ m < k
      /\ k \in 0 .. k
  BY <1>1, <1>2
<1>4. First(s, m) \in SUBSET Token /\ ToSet(s) \in SUBSET Token /\ t \in Token
      /\ \A u \in Token \ First(s, m) : ls[u] =< ls[t]
  BY <1>2, <1>3, SortedFacts
<1>5. better \in SUBSET First(s, m) /\ better \in SUBSET Token
  <2>1. \A u \in Token : ls[u] \in Int
    OBVIOUS
  <2>2. ASSUME NEW u \in better
        PROVE  u \in First(s, m)
    <3>1. u \in Token /\ ~(ls[u] =< ls[t])
      BY <1>4, <2>1
    <3> QED BY <1>4, <3>1
  <2> QED BY <2>2
<1> HIDE DEF better, m
<1>6. Cardinality(better) < k
  <2>1. IsFiniteSet(1 .. m) /\ Cardinality(1 .. m) = m
    BY <1>3, FS_Interval
  <2> DEFINE h == [i \in 1 .. m |-> s[i]]
  <2>2. h \in Surjection(1 .. m, First(s, m))
    BY DEF First, Surjection
  <2>3. IsFiniteSet(First(s, m)) /\ Cardinality(First(s, m)) =< m
    <3> HIDE DEF h
    <3> QED BY <2>1, <2>2, FS_Surjection
  <2>4. Cardinality(better) =< Cardinality(First(s, m))
        /\ IsFiniteSet(better)
    BY <1>5, <2>3, FS_Subset
  <2>5. Cardinality(better) \in Nat /\ Cardinality(First(s, m)) \in Nat
    BY <2>3, <2>4, FS_CardinalityType
  <2> QED BY <1>3, <2>3, <2>4, <2>5
<1>7. Mass(ls, better) =< Mass(ls, First(s, m))
  BY <1>4, <1>5, MassMonotone
<1>8. ~Reaches(ls, better, ToSet(s), p)
  BY <1>1, <1>3, <1>4, <1>5, <1>7, FallsShort
<1> QED BY <1>6, <1>8 DEF better

-----------------------------------------------------------------------------
(* The repeat penalty.                                                     *)

LEMMA MaxIsMember ==
    ASSUME NEW n \in Nat, NEW T \in SUBSET (1 .. n), T # {}
    PROVE  Max(T) \in T /\ \A y \in T : Max(T) >= y
<1> DEFINE F == {s \in SUBSET T : s # {} => \E x \in s : \A y \in s : x >= y}
<1>1. ASSUME NEW s \in SUBSET T, \A x \in s : s \ {x} \in F
      PROVE  s \in F
  <2>1. ASSUME s # {}
        PROVE  \E x \in s : \A y \in s : x >= y
    <3>1. PICK a \in s : TRUE
      BY <2>1
    <3>2. CASE s \ {a} = {}
      <4>1. \A y \in s : y = a
        BY <3>2
      <4> QED BY <3>1, <4>1
    <3>3. CASE s \ {a} # {}
      <4>1. PICK x \in s \ {a} : \A y \in s \ {a} : x >= y
        BY <1>1, <3>3
      <4>2. \A y \in s : y \in Int
        OBVIOUS
      <4>3. CASE a >= x
        BY <4>1, <4>2, <4>3
      <4>4. CASE x >= a
        BY <4>1, <4>2, <4>4
      <4> QED BY <4>2, <4>3, <4>4
    <3> QED BY <3>2, <3>3
  <2> QED BY <2>1
<1>2. IsFiniteSet(T)
  <2>1. IsFiniteSet(1 .. n)
    BY FS_Interval, 1 \in Int, n \in Int
  <2> QED BY <2>1, FS_Subset
<1>3. T \in F
  <2> HIDE DEF F
  <2> QED BY <1>1, <1>2, FiniteInductive
<1>4. \E x \in T : \A y \in T : x >= y
  BY <1>3
<1> QED BY <1>4 DEF Max

\* One turn of the loop of apply_repeat_penalty, and the loop over the places
\* in s, from the first to the last.
Pass(ls, toks, i, penalty) == [ls EXCEPT ![toks[i]] = Penalised(@, penalty)]

Passes(it, s, ls, toks, penalty) ==
    IF s = {} THEN ls ELSE Pass(it[s \ {Max(s)}], toks, Max(s), penalty)

IsScan(it, T, ls, toks, penalty) ==
    it = [s \in SUBSET T |-> Passes(it, s, ls, toks, penalty)]

LEMMA ScanExtends ==
    ASSUME NEW ls, NEW toks, NEW penalty, NEW m \in Nat,
           NEW g, IsScan(g, 1 .. m, ls, toks, penalty)
    PROVE  \E h : IsScan(h, 1 .. (m + 1), ls, toks, penalty)
<1> DEFINE h == [u \in SUBSET (1 .. (m + 1)) |->
                    IF m + 1 \in u THEN Pass(g[u \ {m + 1}], toks, m + 1, penalty)
                                   ELSE g[u]]
<1>1. ASSUME NEW u \in SUBSET (1 .. (m + 1))
      PROVE  h[u] = Passes(h, u, ls, toks, penalty)
  <2>1. CASE m + 1 \in u
    <3>1. Max(u) = m + 1
      <4>1. Max(u) \in u /\ Max(u) >= m + 1
        BY <2>1, MaxIsMember, m + 1 \in Nat
      <4>2. Max(u) \in 1 .. (m + 1)
        BY <4>1
      <4> QED BY <4>1, <4>2
    <3>2. u \ {m + 1} \in SUBSET (1 .. (m + 1)) /\ m + 1 \notin u \ {m + 1}
      OBVIOUS
    <3>3. h[u \ {m + 1}] = g[u \ {m + 1}]
      BY <3>2
    <3>4. h[u] = Pass(g[u \ {m + 1}], toks, m + 1, penalty)
      BY <2>1
    <3>5. u # {}
      BY <2>1
    <3> HIDE DEF h
    <3> QED BY <3>1, <3>3, <3>4, <3>5 DEF Passes
  <2>2. CASE m + 1 \notin u
    <3>1. u \in SUBSET (1 .. m)
      BY <2>2
    <3>2. h[u] = g[u]
      BY <2>2
    <3>3. g[u] = Passes(g, u, ls, toks, penalty)
      BY <3>1 DEF IsScan
    <3>4. CASE u = {}
      <4> HIDE DEF h
      <4> QED BY <3>2, <3>3, <3>4 DEF Passes
    <3>5. CASE u # {}
      <4>1. u \ {Max(u)} \in SUBSET (1 .. (m + 1)) /\ m + 1 \notin u \ {Max(u)}
        BY <2>2
      <4>2. h[u \ {Max(u)}] = g[u \ {Max(u)}]
        BY <4>1
      <4> HIDE DEF h
      <4> QED BY <3>2, <3>3, <3>5, <4>2 DEF Passes
    <3> QED BY <3>4, <3>5
  <2> QED BY <2>1, <2>2
<1>2. h = [u \in SUBSET (1 .. (m + 1)) |-> Passes(h, u, ls, toks, penalty)]
  <2> DEFINE P(u) == Passes(h, u, ls, toks, penalty)
  <2>1. \A u \in SUBSET (1 .. (m + 1)) : h[u] = P(u)
    BY <1>1
  <2> HIDE DEF P
  <2>2. h = [u \in SUBSET (1 .. (m + 1)) |-> P(u)]
    BY <2>1
  <2> QED BY <2>2 DEF P
<1> HIDE DEF h
<1>3. IsScan(h, 1 .. (m + 1), ls, toks, penalty)
  BY <1>2 DEF IsScan
<1> QED BY <1>3

LEMMA ScanExists ==
    ASSUME NEW ls, NEW toks, NEW penalty, NEW n \in Nat
    PROVE  \E g : IsScan(g, 1 .. n, ls, toks, penalty)
<1> DEFINE S == {m \in Nat : \E g : IsScan(g, 1 .. m, ls, toks, penalty)}
<1>1. 0 \in S
  <2> DEFINE g == [s \in SUBSET {} |-> ls]
  <2>1. 1 .. 0 = {} /\ \A s \in SUBSET {} : s = {}
    OBVIOUS
  <2>2. g = [s \in SUBSET {} |-> Passes(g, s, ls, toks, penalty)]
    BY <2>1 DEF Passes
  <2> HIDE DEF g
  <2>3. IsScan(g, 1 .. 0, ls, toks, penalty)
    BY <2>1, <2>2 DEF IsScan
  <2> QED BY <2>3
<1>2. ASSUME NEW m \in Nat, m \in S
      PROVE  m + 1 \in S
  BY <1>2, ScanExtends
<1>3. \A m \in Nat : m \in S
  <2> HIDE DEF S
  <2> QED BY <1>1, <1>2, NatInductive
<1> QED BY <1>3

LEMMA PenalisedFacts ==
    ASSUME NEW l \in Int, NEW penalty \in Nat \ {0}
    PROVE  Penalised(l, penalty) \in Int /\ Penalised(l, penalty) =< l
<1>1. CASE l > 0
  <2> DEFINE q == l \div penalty
  <2>1. \A a \in Nat, b \in Nat : b > 0 => a \div b \in Nat /\ (a \div b) * b =< a
    OBVIOUS
  <2>2. l \in Nat /\ penalty \in Nat /\ penalty > 0 /\ 1 =< penalty
    BY <1>1
  <2>3. q \in Nat /\ q * penalty =< l
    BY <2>1, <2>2
  <2> HIDE DEF q
  <2>4. 1 * q =< penalty * q /\ 1 * q = q /\ penalty * q = q * penalty
        /\ q * penalty \in Int
    BY <2>2, <2>3, ProductMonotone
  <2>5. q =< l
    BY <2>2, <2>3, <2>4
  <2>6. Penalised(l, penalty) = q
    BY <1>1 DEF Penalised, q
  <2> QED BY <2>3, <2>5, <2>6
<1>2. CASE ~(l > 0)
  <2>1. penalty - 1 \in Nat /\ l =< 0
    BY <1>2
  <2>2. l * (penalty - 1) =< 0 * (penalty - 1) /\ l * (penalty - 1) \in Int
    BY <2>1, ProductMonotone
  <2>3. l * penalty = l * (penalty - 1) + l /\ 0 * (penalty - 1) = 0
    OBVIOUS
  <2>4. l * penalty \in Int /\ l * penalty =< l
    BY <2>2, <2>3
  <2> QED BY <1>2, <2>4 DEF Penalised
<1> QED BY <1>1, <1>2

\* The loop of apply_repeat_penalty lowers recent tokens only.
Lowered(m, ls, toks) ==
    /\ m \in [Token -> Int]
    /\ \A t \in Token : m[t] =< ls[t]
    /\ \A t \in Token \ ToSet(toks) : m[t] = ls[t]

LEMMA PenaltyLowers ==
    ASSUME NEW ls \in [Token -> Int], NEW toks \in Seq(Token),
           NEW penalty \in Nat \ {0}
    PROVE  Lowered(RepeatPenalty(ls, toks, penalty), ls, toks)
<1> DEFINE n == Len(toks)
           iter == CHOOSE it : it = [s \in SUBSET (1 .. n) |->
                                        Passes(it, s, ls, toks, penalty)]
<1>1. n \in Nat /\ DOMAIN toks = 1 .. n
  OBVIOUS
<1>2. RepeatPenalty(ls, toks, penalty) = iter[1 .. n]
  <2>1. RepeatPenalty(ls, toks, penalty)
           = (CHOOSE it : it = [s \in SUBSET DOMAIN toks |->
                                   Passes(it, s, ls, toks, penalty)])[DOMAIN toks]
    BY DEF RepeatPenalty, FoldLeft, MapThenFoldSet, Passes, Pass
  <2> QED BY <1>1, <2>1
<1> HIDE DEF n
<1>3. iter = [s \in SUBSET (1 .. n) |-> Passes(iter, s, ls, toks, penalty)]
  <2>1. PICK g : IsScan(g, 1 .. n, ls, toks, penalty)
    BY <1>1, ScanExists
  <2>2. g = [s \in SUBSET (1 .. n) |-> Passes(g, s, ls, toks, penalty)]
    BY <2>1 DEF IsScan
  <2> QED BY <2>2
<1> HIDE DEF iter
<1> DEFINE F == {s \in SUBSET (1 .. n) : Lowered(iter[s], ls, toks)}
<1>4. ASSUME NEW s \in SUBSET (1 .. n), \A x \in s : s \ {x} \in F
      PROVE  s \in F
  <2>1. iter[s] = Passes(iter, s, ls, toks, penalty)
    BY <1>3
  <2>2. CASE s = {}
    <3>1. iter[s] = ls
      BY <2>1, <2>2 DEF Passes
    <3>2. \A t \in Token : ls[t] \in Int
      OBVIOUS
    <3>3. Lowered(ls, ls, toks)
      BY <3>2 DEF Lowered
    <3> QED BY <3>1, <3>3
  <2>3. CASE s # {}
    <3> DEFINE i == Max(s)
               m == iter[s \ {i}]
               tok == toks[i]
    <3>1. i \in s
      BY <1>1, <2>3, MaxIsMember
    <3>2. Lowered(m, ls, toks)
      BY <1>4, <3>1
    <3>3. tok \in Token /\ tok \in ToSet(toks)
      <4>1. i \in 1 .. n
        BY <3>1
      <4>2. tok \in Token
        BY <4>1 DEF n
      <4> QED BY <1>1, <4>1, <4>2 DEF ToSet
    <3>4. iter[s] = [m EXCEPT ![tok] = Penalised(@, penalty)]
      <4>1. iter[s] = Pass(m, toks, i, penalty)
        BY <2>1, <2>3 DEF Passes
      <4> QED BY <4>1 DEF Pass
    <3> HIDE DEF i, m, tok
    <3>5. m \in [Token -> Int]
      BY <3>2 DEF Lowered
    <3>6. m[tok] \in Int
      BY <3>3, <3>5
    <3>7. Penalised(m[tok], penalty) \in Int /\ Penalised(m[tok], penalty) =< m[tok]
      BY <3>6, PenalisedFacts
    <3>8. iter[s] \in [Token -> Int]
      BY <3>4, <3>5, <3>7
    <3>9. ASSUME NEW t \in Token
          PROVE  iter[s][t] =< ls[t] /\ (t \notin ToSet(toks) => iter[s][t] = ls[t])
      <4>1. CASE t = tok
        <5>1. iter[s][t] = Penalised(m[tok], penalty)
          BY <3>4, <3>5, <4>1
        <5>2. m[tok] =< ls[tok] /\ ls[tok] \in Int
          BY <3>2, <3>3 DEF Lowered
        <5> QED BY <3>3, <3>6, <3>7, <4>1, <5>1, <5>2
      <4>2. CASE t # tok
        <5>1. iter[s][t] = m[t]
          BY <3>4, <3>5, <4>2
        <5> QED BY <3>2, <5>1 DEF Lowered
      <4> QED BY <4>1, <4>2
    <3>10. Lowered(iter[s], ls, toks)
      BY <3>8, <3>9 DEF Lowered
    <3> QED BY <3>10
  <2> QED BY <2>2, <2>3
<1>5. IsFiniteSet(1 .. n)
  BY <1>1, FS_Interval
<1>6. 1 .. n \in F
  <2> HIDE DEF F
  <2> QED BY <1>4, <1>5, FiniteInductive
<1> QED BY <1>2, <1>6

-----------------------------------------------------------------------------
(* The steps.                                                              *)

LEMMA ConfigFacts ==
    ASSUME NEW c \in Configs
    PROVE  /\ c.inv_temp \in Nat /\ c.penalty \in Nat \ {0}
           /\ c.top_p \in Nat \X (Nat \ {0})
           /\ Valid(c) => c.top_p \in Share /\ c.inv_temp > 0
           /\ Vocab \in Nat \ {0}
           /\ Keep(c) \in Nat /\ Keep(c) =< Vocab
           /\ Keep(c) = 0 => c.top_k = 0
<1>1. c \in ConfigType
  BY SamplerAssumption DEF SamplerAssumption
<1>2. /\ c.inv_temp \in Nat /\ c.penalty \in Nat \ {0}
      /\ c.top_p \in Nat \X (Nat \ {0}) /\ c.top_k \in Nat \cup {NoLimit}
  BY <1>1 DEF ConfigType
<1>3. Vocab \in Nat \ {0}
  <2>1. IsFiniteSet(Token) /\ Token # {}
    BY SamplerAssumption DEF SamplerAssumption
  <2>2. Cardinality(Token) \in Nat /\ Cardinality(Token) # 0
    BY <2>1, FS_CardinalityType, FS_EmptySet
  <2> QED BY <2>2 DEF Vocab
<1>4. Valid(c) => c.top_p \in Share /\ c.inv_temp > 0
  BY <1>2 DEF Valid, Share
<1>5. Keep(c) \in Nat /\ Keep(c) =< Vocab /\ (Keep(c) = 0 => c.top_k = 0)
  <2> HIDE DEF Vocab
  <2>1. CASE c.top_k = NoLimit \/ c.top_k > Vocab
    <3>1. Keep(c) = Vocab
      BY <2>1 DEF Keep
    <3> QED BY <1>3, <3>1
  <2>2. CASE ~(c.top_k = NoLimit \/ c.top_k > Vocab)
    <3>1. Keep(c) = c.top_k /\ c.top_k \in Nat
      BY <1>2, <2>2 DEF Keep
    <3> QED BY <1>3, <2>2, <3>1
  <2> QED BY <2>1, <2>2
<1> QED BY <1>2, <1>3, <1>4, <1>5

\* Every sequence of tokens without repetition is a list of indices.
LEMMA ListType ==
    ASSUME NEW s \in Seq(Token), IsInjective(s)
    PROVE  s \in [1 .. Len(s) -> Token] /\ IsInjective(s)
OBVIOUS

LEMMA SamplerInit == Init => SInv
<1> SUFFICES ASSUME Init PROVE SInv
  OBVIOUS
<1> USE DEF Init
<1>1. recent = <<>> /\ recent \in Seq(Token) /\ ToSet(recent) = {} /\ Len(recent) = 0
  BY DEF ToSet
<1>2. indices \in [1 .. Len(indices) -> Token] /\ IsInjective(indices)
  BY DEF IsInjective
<1>3. TypeOK
  BY <1>1, <1>2, SamplerAssumption DEF TypeOK, SamplerAssumption, Label
<1>4. Recent
  BY <1>1 DEF Recent
<1> QED BY <1>3, <1>4
    DEF SInv, Called, NeverPromoted, EndNeverPenalised, Sorted, Cut, Drawn

\* Penalties and scaling keep a recent token behind one that is not recent, and
\* the end token where the model put it.
LEMMA RescaleKeeps ==
    SInv /\ Rescale => NeverPromoted' /\ EndNeverPenalised'
                       /\ logits' \in [Token -> Int]
<1> SUFFICES ASSUME SInv, Rescale
             PROVE  NeverPromoted' /\ EndNeverPenalised' /\ logits' \in [Token -> Int]
  OBVIOUS
<1> DEFINE m == RepeatPenalty(logits, recent, cfg.penalty)
           inv == cfg.inv_temp
<1>1. /\ logits = raw /\ raw \in [Token -> Int] /\ cfg \in Configs
      /\ recent \in Seq(Token) /\ Eos \notin ToSet(recent) /\ Eos \in Token
      /\ ToSet(recent) \subseteq Token
  BY SamplerAssumption DEF SInv, TypeOK, Recent, Called, Rescale, SamplerAssumption
<1>2. cfg.penalty \in Nat \ {0} /\ inv \in Nat
  BY <1>1, ConfigFacts
<1>3. Lowered(m, raw, recent)
  BY <1>1, <1>2, PenaltyLowers
<1>4. logits' = [t \in Token |-> m[t] * inv] /\ UNCHANGED <<cfg, raw, recent>>
  BY DEF Rescale
<1> HIDE DEF m, inv
<1>5. m \in [Token -> Int] /\ (\A t \in Token : m[t] =< raw[t])
      /\ \A t \in Token \ ToSet(recent) : m[t] = raw[t]
  BY <1>3 DEF Lowered
<1>6. \A t \in Token : m[t] * inv \in Int
  BY <1>2, <1>5
<1>7. logits' \in [Token -> Int]
  BY <1>4, <1>6
<1>8. ASSUME NEW t \in ToSet(recent), NEW u \in Token \ ToSet(recent),
             raw[t] <= raw[u]
      PROVE  logits'[t] <= logits'[u]
  <2>1. t \in Token
    BY <1>1
  <2>2. m[t] \in Int /\ m[u] \in Int /\ raw[t] \in Int /\ raw[u] \in Int
        /\ m[t] =< raw[t] /\ m[u] = raw[u]
    BY <1>1, <1>5, <2>1
  <2>3. m[t] =< m[u]
    BY <1>8, <2>2
  <2>4. m[t] * inv =< m[u] * inv
    BY <1>2, <2>2, <2>3, ProductMonotone
  <2> QED BY <1>4, <2>1, <2>4
<1>9. NeverPromoted'
  BY <1>4, <1>8 DEF NeverPromoted
<1>10. logits'[Eos] = raw[Eos] * inv
  BY <1>1, <1>4, <1>5
<1>11. EndNeverPenalised'
  BY <1>4, <1>10 DEF EndNeverPenalised, inv
<1> QED BY <1>7, <1>9, <1>11

LEMMA SamplerNext == SInv /\ [Next]_vars => SInv'
<1> SUFFICES ASSUME SInv, [Next]_vars
             PROVE  SInv'
  OBVIOUS
<1> USE DEF SInv
<1>1. CASE ModelAnswers
  <2> USE <1>1 DEF ModelAnswers
  <2>1. raw' \in [Token -> Logit \cup {0}] /\ logits' \in [Token -> Int]
    <3>1. raw' \in [Token -> Logit] /\ Logit \subseteq Int
      BY SamplerAssumption DEF SamplerAssumption
    <3> QED BY <3>1
  <2>2. TypeOK'
    BY <2>1 DEF TypeOK, Label
  <2>3. Recent'
    BY DEF Recent
  <2> QED BY <2>2, <2>3
      DEF Called, NeverPromoted, EndNeverPenalised, Sorted, Cut, Drawn
<1>2. CASE Refuse
  <2> USE <1>2 DEF Refuse
  <2>1. TypeOK'
    BY DEF TypeOK, Label
  <2>2. Recent'
    BY DEF Recent
  <2> QED BY <2>1, <2>2
      DEF Called, NeverPromoted, EndNeverPenalised, Sorted, Cut, Drawn
<1>3. CASE Rescale
  <2>1. NeverPromoted' /\ EndNeverPenalised' /\ logits' \in [Token -> Int]
    BY <1>3, RescaleKeeps
  <2>2. pc' = "topk" /\ Valid(cfg) /\ UNCHANGED <<cfg, raw, recent, indices, chosen>>
    BY <1>3 DEF Rescale
  <2>3. TypeOK'
    BY <2>1, <2>2 DEF TypeOK, Label
  <2>4. Recent'
    BY <2>2 DEF Recent
  <2> QED BY <2>1, <2>2, <2>3, <2>4 DEF Called, Sorted, Cut, Drawn
<1>4. CASE SelectTopK
  <2>1. /\ pc = "topk" /\ pc' = "topp" /\ Keep(cfg) \in 1 .. Vocab
        /\ indices' \in BestFirst(logits, Keep(cfg))
        /\ UNCHANGED <<cfg, raw, logits, recent, chosen>>
    BY <1>4 DEF SelectTopK
  <2>2. Keep(cfg) \in Nat \ {0} /\ logits \in [Token -> Int]
    BY <2>1, ConfigFacts DEF TypeOK
  <2>3. indices' \in Seq(Token) /\ IsInjective(indices')
    BY <2>1, <2>2, SortedFacts
  <2>4. TypeOK'
    BY <2>1, <2>3, ListType DEF TypeOK, Label
  <2>5. Recent' /\ Called' /\ Sorted'
    BY <2>1 DEF Recent, Called, Sorted
  <2> QED BY <2>1, <2>4, <2>5
      DEF NeverPromoted, EndNeverPenalised, Cut, Drawn
<1>5. CASE TopKPanics
  <2>1. /\ pc = "topk" /\ pc' = "panicked" /\ Keep(cfg) - 1 \notin 0 .. Vocab - 1
        /\ UNCHANGED <<cfg, raw, logits, recent, indices, chosen>>
    BY <1>5 DEF TopKPanics
  <2>2. /\ cfg \in Configs /\ Keep(cfg) \in Nat /\ Vocab \in Nat
        /\ Keep(cfg) =< Vocab /\ (Keep(cfg) = 0 => cfg.top_k = 0)
    BY ConfigFacts DEF TypeOK
  <2>3. cfg.top_k = 0
    <3>1. \A k, v \in Nat : k =< v /\ k - 1 \notin 0 .. v - 1 => k = 0
      OBVIOUS
    <3> QED BY <2>1, <2>2, <3>1
  <2>4. TypeOK'
    BY <2>1, <2>3 DEF TypeOK, Label
  <2>5. Recent'
    BY <2>1 DEF Recent
  <2> QED BY <2>1, <2>4, <2>5
      DEF Called, NeverPromoted, EndNeverPenalised, Sorted, Cut, Drawn
<1>6. CASE CutNucleus
  <2> DEFINE c == Cutoff(logits, indices, cfg.top_p)
  <2>1. /\ pc = "topp" /\ pc' = "draw" /\ indices' = SubSeq(indices, 1, c)
        /\ UNCHANGED <<cfg, raw, logits, recent, chosen>>
    BY <1>6 DEF CutNucleus
  <2>2. /\ Keep(cfg) \in 1 .. Vocab /\ indices \in BestFirst(logits, Keep(cfg))
        /\ cfg.top_p \in Share /\ logits \in [Token -> Int]
        /\ Keep(cfg) \in Nat \ {0} /\ Valid(cfg)
    BY <2>1, ConfigFacts DEF Sorted, Called, TypeOK
  <2>3. c \in 0 .. Keep(cfg)
    <3>1. c \in 1 .. Keep(cfg)
      BY <2>2, CutoffFacts
    <3> QED BY <3>1
  <2> HIDE DEF c
  <2>4. indices' \in Seq(Token) /\ IsInjective(indices')
    BY <2>1, <2>2, <2>3, SortedFacts
  <2>5. TypeOK'
    BY <2>1, <2>4, ListType DEF TypeOK, Label
  <2>6. Cut'
    BY <2>1, <2>2 DEF Cut, c
  <2>7. Recent' /\ Called'
    BY <2>1, <2>2 DEF Recent, Called
  <2> QED BY <2>1, <2>5, <2>6, <2>7
      DEF NeverPromoted, EndNeverPenalised, Sorted, Drawn
<1>7. CASE Draw
  <2>1. /\ pc = "draw" /\ pc' = "returned" /\ chosen' \in ToSet(indices)
        /\ UNCHANGED <<cfg, raw, logits, recent, indices>>
    BY <1>7 DEF Draw, Drawable
  <2>2. ToSet(indices) \subseteq Token
    <3>1. \A i \in DOMAIN indices : indices[i] \in Token
      BY DEF TypeOK
    <3> QED BY <3>1 DEF ToSet
  <2>3. TypeOK'
    BY <2>1, <2>2 DEF TypeOK, Label
  <2>4. Recent' /\ Called' /\ Cut' /\ Drawn'
    BY <2>1 DEF Recent, Called, Cut, Drawn
  <2> QED BY <2>1, <2>3, <2>4 DEF NeverPromoted, EndNeverPenalised, Sorted
<1>8. CASE Continue
  <2>1. /\ pc = "returned" /\ pc' = "model" /\ chosen # Eos
        /\ recent' = Trimmed(Append(recent, chosen))
        /\ indices' = <<>> /\ chosen' = NoToken
        /\ UNCHANGED <<cfg, raw, logits>>
    BY <1>8 DEF Continue, Remembered
  <2>2. chosen \in Token
    <3>1. chosen \in ToSet(indices)
      BY <2>1 DEF Drawn
    <3> QED BY <3>1 DEF TypeOK, ToSet
  <2> DEFINE r == Append(recent, chosen)
  <2>3. /\ r \in Seq(Token) /\ Len(r) = Len(recent) + 1
        /\ Len(recent) \in Nat /\ Len(recent) <= RecentMax /\ RecentMax \in Nat
        /\ DOMAIN r = 1 .. Len(r)
        /\ \A i \in 1 .. Len(r) : r[i] # Eos
    <3>1. /\ recent \in Seq(Token) /\ Len(recent) <= RecentMax /\ Len(recent) \in Nat
          /\ RecentMax \in Nat
      BY SamplerAssumption DEF Recent, TypeOK, SamplerAssumption
    <3>2. \A i \in 1 .. Len(recent) : recent[i] # Eos
      BY <3>1 DEF Recent, ToSet
    <3> QED BY <2>1, <2>2, <3>1, <3>2
  <2> HIDE DEF r
  <2>4. /\ recent' \in Seq(Token) /\ Len(recent') <= RecentMax
        /\ \A i \in 1 .. Len(recent') : recent'[i] # Eos
    <3>1. CASE Len(r) > RecentMax
      <4>1. recent' = Tail(r) /\ r # <<>>
        <5>1. recent' = Trimmed(r)
          BY <2>1 DEF r
        <5>2. recent' = Tail(r)
          BY <3>1, <5>1 DEF Trimmed
        <5>3. Len(r) # 0
          BY <2>3
        <5>4. r # <<>>
          BY <5>3
        <5> QED BY <5>2, <5>4
      <4>2. Tail(r) \in Seq(Token) /\ Len(Tail(r)) = Len(r) - 1
            /\ \A i \in 1 .. Len(Tail(r)) : Tail(r)[i] = r[i + 1]
        BY <2>3, <4>1
      <4>3. \A i \in 1 .. Len(Tail(r)) : i + 1 \in 1 .. Len(r)
        BY <2>3, <4>2
      <4> QED BY <2>3, <4>1, <4>2, <4>3
    <3>2. CASE ~(Len(r) > RecentMax)
      <4>1. recent' = r
        BY <2>1, <3>2 DEF Trimmed, r
      <4> QED BY <2>3, <3>2, <4>1
    <3> QED BY <3>1, <3>2
  <2>5. DOMAIN recent' = 1 .. Len(recent')
        /\ \A i \in 1 .. Len(recent') : recent'[i] \in Token
    BY <2>4
  <2>6. ToSet(recent') \subseteq Token /\ Eos \notin ToSet(recent')
    BY <2>4, <2>5 DEF ToSet
  <2>7. indices' \in [1 .. Len(indices') -> Token] /\ IsInjective(indices')
    BY <2>1 DEF IsInjective
  <2>8. TypeOK'
    BY <2>1, <2>4, <2>6, <2>7 DEF TypeOK, Label
  <2>9. Recent'
    BY <2>4, <2>6 DEF Recent
  <2> QED BY <2>1, <2>8, <2>9
      DEF Called, NeverPromoted, EndNeverPenalised, Sorted, Cut, Drawn
<1>9. CASE EndReply
  <2>1. /\ pc' = "model" /\ recent' = <<>> /\ indices' = <<>> /\ chosen' = NoToken
        /\ UNCHANGED <<cfg, raw, logits>>
    BY <1>9 DEF EndReply
  <2>2. ToSet(recent') = {} /\ recent' \in Seq(Token) /\ Len(recent') = 0
    BY <2>1 DEF ToSet
  <2>3. indices' \in [1 .. Len(indices') -> Token] /\ IsInjective(indices')
    BY <2>1 DEF IsInjective
  <2>4. TypeOK'
    BY <2>1, <2>2, <2>3, SamplerAssumption DEF TypeOK, Label, SamplerAssumption
  <2>5. Recent'
    BY <2>2 DEF Recent
  <2> QED BY <2>1, <2>4, <2>5
      DEF Called, NeverPromoted, EndNeverPenalised, Sorted, Cut, Drawn
<1>10. CASE UNCHANGED vars
  BY <1>10 DEF vars, TypeOK, Recent, Called, NeverPromoted, EndNeverPenalised,
               Sorted, Cut, Drawn
<1> QED
  BY <1>1, <1>2, <1>3, <1>4, <1>5, <1>6, <1>7, <1>8, <1>9, <1>10 DEF Next

-----------------------------------------------------------------------------
(* The theorems.                                                           *)

LEMMA SamplerInvariant == Spec => []SInv
  BY SamplerInit, SamplerNext, PTL DEF Spec

\* sample_token keeps its types, and panics for top_k = Some(0) only.
THEOREM SamplerTypeCorrect == Spec => []TypeOK
<1>1. SInv => TypeOK
  BY DEF SInv
<1> QED BY <1>1, SamplerInvariant, PTL

\* apply_repeat_penalty and the scaling never lift a recent token past one that
\* is not, whatever the penalty and however often the token occurs.
THEOREM RecentNeverPromoted == Spec => []NeverPromoted
<1>1. SInv => NeverPromoted
  BY DEF SInv
<1> QED BY <1>1, SamplerInvariant, PTL

\* The loop of run_generation_inner never penalises the end token.
THEOREM EndKeepsItsLogit == Spec => []EndNeverPenalised
<1>1. SInv => EndNeverPenalised
  BY DEF SInv
<1> QED BY <1>1, SamplerInvariant, PTL

\* The scan for the nucleus keeps a smallest set of the k best that makes up
\* top_p of their mass, for every vocabulary and every order of equal logits.
THEOREM NucleusIsASmallestSet == Spec => []NucleusIsSmallest
<1>1. SInv => NucleusIsSmallest
  <2> SUFFICES ASSUME SInv, pc = "draw",
                      NEW r \in BestFirst(logits, Keep(cfg))
               PROVE  /\ Reaches(logits, ToSet(indices), ToSet(r), cfg.top_p)
                      /\ \A ts \in SUBSET ToSet(r) :
                             Reaches(logits, ts, ToSet(r), cfg.top_p) =>
                                 Cardinality(ts) >= Len(indices)
    BY DEF NucleusIsSmallest
  <2>1. PICK s \in BestFirst(logits, Keep(cfg)) :
               indices = SubSeq(s, 1, Cutoff(logits, s, cfg.top_p))
    BY DEF SInv, Cut
  <2>2. Keep(cfg) \in Nat \ {0} /\ cfg.top_p \in Share /\ logits \in [Token -> Int]
    BY ConfigFacts DEF SInv, TypeOK, Cut, Called
  <2> DEFINE c == Cutoff(logits, s, cfg.top_p)
  <2>3. c \in 0 .. Keep(cfg)
    <3>1. c \in 1 .. Keep(cfg)
      BY <2>2, CutoffFacts
    <3> QED BY <3>1
  <2>4. /\ Reaches(logits, First(s, c), ToSet(r), cfg.top_p)
        /\ \A ts \in SUBSET ToSet(r) :
               Reaches(logits, ts, ToSet(r), cfg.top_p) => Cardinality(ts) >= c
    BY <2>2, SmallestNucleus
  <2> HIDE DEF c
  <2>5. Len(indices) = c /\ ToSet(indices) = First(s, c)
    BY <2>1, <2>2, <2>3, SortedFacts DEF c
  <2> QED BY <2>4, <2>5
<1> QED BY <1>1, SamplerInvariant, PTL

\* The token returned is one of the k best, and those better than it fall short
\* of top_p.
THEOREM TokenIsFromTheBest == Spec => []DrawnFromBest
<1>1. SInv => DrawnFromBest
  <2> SUFFICES ASSUME SInv, pc = "returned"
               PROVE  LET better == {t \in Token : logits[t] > logits[chosen]}
                      IN  /\ Cardinality(better) < Keep(cfg)
                          /\ \E s \in BestFirst(logits, Keep(cfg)) :
                                 ~Reaches(logits, better, ToSet(s), cfg.top_p)
    BY DEF DrawnFromBest
  <2> DEFINE better == {t \in Token : logits[t] > logits[chosen]}
  <2>1. PICK s \in BestFirst(logits, Keep(cfg)) :
               indices = SubSeq(s, 1, Cutoff(logits, s, cfg.top_p))
    BY DEF SInv, Cut
  <2>2. Keep(cfg) \in Nat \ {0} /\ cfg.top_p \in Share /\ logits \in [Token -> Int]
    BY ConfigFacts DEF SInv, TypeOK, Cut, Called
  <2> DEFINE c == Cutoff(logits, s, cfg.top_p)
  <2>3. c \in 0 .. Keep(cfg)
    <3>1. c \in 1 .. Keep(cfg)
      BY <2>2, CutoffFacts
    <3> QED BY <3>1
  <2>4. chosen \in First(s, c)
    <3> HIDE DEF c
    <3>1. ToSet(indices) = First(s, c)
      BY <2>1, <2>2, <2>3, SortedFacts DEF c
    <3> QED BY <3>1 DEF SInv, Drawn
  <2>5. /\ Cardinality(better) < Keep(cfg)
        /\ ~Reaches(logits, better, ToSet(s), cfg.top_p)
    BY <2>2, <2>4, BetterFallShort
  <2> QED BY <2>5
<1> QED BY <1>1, SamplerInvariant, PTL
=============================================================================
