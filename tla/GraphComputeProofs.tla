------------------------- MODULE GraphComputeProofs -------------------------
(***************************************************************************)
(* Theorems of GraphCompute, for any number of threads, any graph and any  *)
(* chunk size.                                                             *)
(***************************************************************************)
EXTENDS GraphCompute, FiniteSetTheorems, TLAPS

-----------------------------------------------------------------------------
(* Numbers, and the division of the work.                                  *)

\* A number is the divisor times the quotient, and the remainder.
LEMMA DivMod ==
    ASSUME NEW a \in Nat, NEW b \in Nat \ {0}
    PROVE  /\ a \div b \in Nat
           /\ a % b \in 0 .. b - 1
           /\ a = b * (a \div b) + (a % b)
BY SMT

\* There is only one way to write it so.
LEMMA DivModUnique ==
    ASSUME NEW b \in Nat \ {0}, NEW q \in Nat, NEW r \in 0 .. b - 1
    PROVE  /\ (b * q + r) \div b = q
           /\ (b * q + r) % b = r
BY SMT

\* Multiples are as far apart as their numbers.
LEMMA Multiples ==
    ASSUME NEW a \in Nat, NEW p \in Nat, NEW q \in Nat, p < q
    PROVE  a * p + a <= a * q
BY SMT

\* A product of naturals is a natural.
LEMMA ProductInNat ==
    ASSUME NEW a \in Nat, NEW b \in Nat
    PROVE  a * b \in Nat
BY SMT

\* The quotient rounded up is positive, and its multiple covers the dividend.
LEMMA CeilDivCovers ==
    ASSUME NEW a \in Nat \ {0}, NEW b \in Nat \ {0}
    PROVE  /\ CeilDiv(a, b) \in Nat \ {0}
           /\ a <= CeilDiv(a, b) * b
<1> DEFINE s == a + b - 1
<1>1. s \in Nat
  OBVIOUS
<1>2. /\ s \div b \in Nat
      /\ s % b \in 0 .. b - 1
      /\ s = b * (s \div b) + (s % b)
  BY <1>1, DivMod
<1>3. CeilDiv(a, b) = s \div b
  BY DEF CeilDiv
<1> HIDE DEF s
<1>4. s = a + b - 1
  BY DEF s
<1>5. b * (s \div b) >= a
  BY <1>2, <1>4, SMT
<1>6. s \div b # 0
  BY <1>2, <1>5, SMT
<1>7. b * (s \div b) = (s \div b) * b
  BY <1>2, SMT
<1> QED
  BY <1>2, <1>3, <1>5, <1>6, <1>7, SMT

\* A stripe is a range of rows.
LEMMA StripeWithin ==
    ASSUME NEW nr \in Nat \ {0}, NEW parts \in Nat \ {0}, NEW part \in Nat
    PROVE  Stripe(nr, parts, part) \subseteq 0 .. nr - 1
<1> DEFINE dr == CeilDiv(nr, parts)
<1>1. dr \in Nat \ {0}
  BY CeilDivCovers
<1>2. Stripe(nr, parts, part)
        = dr * part .. (IF dr * part + dr < nr THEN dr * part + dr ELSE nr) - 1
  BY DEF Stripe
<1> HIDE DEF dr
<1>3. dr * part \in Nat
  BY <1>1, ProductInNat
<1> QED
  BY <1>1, <1>2, <1>3, SMT

\* Every row is in a stripe.
LEMMA StripesCover ==
    ASSUME NEW nr \in Nat \ {0}, NEW parts \in Nat \ {0}, NEW r \in 0 .. nr - 1
    PROVE  \E part \in 0 .. parts - 1 : r \in Stripe(nr, parts, part)
<1> DEFINE dr == CeilDiv(nr, parts)
           part == r \div dr
<1>1. dr \in Nat \ {0} /\ nr <= dr * parts
  BY CeilDivCovers
<1>2. Stripe(nr, parts, part)
        = dr * part .. (IF dr * part + dr < nr THEN dr * part + dr ELSE nr) - 1
  BY DEF Stripe
<1> HIDE DEF dr
<1>3. part \in Nat /\ r % dr \in 0 .. dr - 1 /\ r = dr * part + (r % dr)
  <2>1. r \in Nat
    OBVIOUS
  <2> QED
    BY <1>1, <2>1, DivMod
<1> HIDE DEF part
<1>4. dr * part \in Nat /\ dr * parts \in Nat
  BY <1>1, <1>3, ProductInNat
<1>5. part < parts
  <2>1. SUFFICES ASSUME parts <= part PROVE FALSE
    BY <1>3
  <2>2. dr * parts <= dr * part
    BY <1>1, <1>3, <2>1, Multiples, SMT
  <2> QED
    BY <1>1, <1>3, <1>4, <2>2, SMT
<1>6. r \in Stripe(nr, parts, part)
  BY <1>1, <1>2, <1>3, <1>4, SMT
<1> QED
  BY <1>3, <1>5, <1>6

\* No row is in two stripes.
LEMMA StripesDisjoint ==
    ASSUME NEW nr \in Nat \ {0}, NEW parts \in Nat \ {0},
           NEW p \in Nat, NEW q \in Nat, p # q
    PROVE  Stripe(nr, parts, p) \cap Stripe(nr, parts, q) = {}
<1> DEFINE dr == CeilDiv(nr, parts)
<1>1. dr \in Nat \ {0}
  BY CeilDivCovers
<1>2. /\ Stripe(nr, parts, p)
           = dr * p .. (IF dr * p + dr < nr THEN dr * p + dr ELSE nr) - 1
      /\ Stripe(nr, parts, q)
           = dr * q .. (IF dr * q + dr < nr THEN dr * q + dr ELSE nr) - 1
  BY DEF Stripe
<1> HIDE DEF dr
<1>3. dr * p \in Nat /\ dr * q \in Nat
  BY <1>1, ProductInNat
<1>4. dr * p + dr <= dr * q \/ dr * q + dr <= dr * p
  <2>1. CASE p < q
    BY <1>1, <2>1, Multiples
  <2>2. CASE q < p
    BY <1>1, <2>2, Multiples
  <2> QED
    BY <2>1, <2>2
<1>5. SUFFICES ASSUME NEW r \in Stripe(nr, parts, p), r \in Stripe(nr, parts, q)
               PROVE  FALSE
  OBVIOUS
<1>6. /\ r \in Int
      /\ dr * p <= r /\ r < dr * p + dr
      /\ dr * q <= r /\ r < dr * q + dr
  BY <1>1, <1>2, <1>3, <1>5, SMT
<1> QED
  BY <1>1, <1>3, <1>4, <1>6, SMT

\* The grid of a product has chunks along both sides.
LEMMA GridType ==
    ASSUME NEW node \in NodeType
    PROVE  /\ ChunkGrid(node)[1] \in Nat \ {0}
           /\ ChunkGrid(node)[2] \in Nat \ {0}
           /\ NChunks(node) \in Nat
<1> DEFINE size == IF node.nr0 = 1 \/ node.nr1 = 1 THEN VecChunkSize ELSE ChunkSize
           n0 == CeilDiv(node.nr0, size)
           n1 == CeilDiv(node.nr1, size)
<1>1. /\ size \in Nat \ {0} /\ NThreads \in Nat \ {0}
      /\ node.nr0 \in Nat \ {0} /\ node.nr1 \in Nat \ {0}
  BY GraphComputeAssumption DEF GraphComputeAssumption, NodeType
<1>2. ChunkGrid(node) = IF n0 * n1 >= NThreads * 4 THEN <<n0, n1>>
                        ELSE IF node.nr0 > node.nr1 THEN <<NThreads, 1>>
                        ELSE <<1, NThreads>>
  BY DEF ChunkGrid
<1> HIDE DEF size
<1>3. n0 \in Nat \ {0} /\ n1 \in Nat \ {0}
  BY <1>1, CeilDivCovers
<1> HIDE DEF n0, n1
<1>4. ChunkGrid(node)[1] \in Nat \ {0} /\ ChunkGrid(node)[2] \in Nat \ {0}
  BY <1>1, <1>2, <1>3
<1> QED
  BY <1>4, ProductInNat DEF NChunks

\* The cells of a chunk are cells of the output,
LEMMA ChunkWithin ==
    ASSUME NEW node \in NodeType, NEW c \in Nat
    PROVE  ChunkCells(node, c) \subseteq AllCells(node)
<1> DEFINE g0 == ChunkGrid(node)[1]
           g1 == ChunkGrid(node)[2]
<1>1. g0 \in Nat \ {0} /\ g1 \in Nat \ {0}
  BY GridType
<1>2. node.nr0 \in Nat \ {0} /\ node.nr1 \in Nat \ {0}
  BY DEF NodeType
<1>3. ChunkCells(node, c)
        = Stripe(node.nr0, g0, c % g0) \X Stripe(node.nr1, g1, c \div g0)
  BY DEF ChunkCells
<1> HIDE DEF g0, g1
<1>4. c % g0 \in Nat /\ c \div g0 \in Nat
  BY <1>1, DivMod
<1>5. /\ Stripe(node.nr0, g0, c % g0) \subseteq 0 .. node.nr0 - 1
      /\ Stripe(node.nr1, g1, c \div g0) \subseteq 0 .. node.nr1 - 1
  BY <1>1, <1>2, <1>4, StripeWithin
<1> QED
  BY <1>3, <1>5 DEF AllCells

\* every cell of the output is in a chunk,
LEMMA ChunksCover ==
    ASSUME NEW node \in NodeType, NEW cell \in AllCells(node)
    PROVE  \E c \in 0 .. NChunks(node) - 1 : cell \in ChunkCells(node, c)
<1> DEFINE g0 == ChunkGrid(node)[1]
           g1 == ChunkGrid(node)[2]
<1>1. g0 \in Nat \ {0} /\ g1 \in Nat \ {0} /\ NChunks(node) = g0 * g1
  BY GridType DEF NChunks
<1>2. node.nr0 \in Nat \ {0} /\ node.nr1 \in Nat \ {0}
  BY DEF NodeType
<1>3. ASSUME NEW c \in Nat
      PROVE  ChunkCells(node, c)
               = Stripe(node.nr0, g0, c % g0) \X Stripe(node.nr1, g1, c \div g0)
  BY DEF ChunkCells
<1> HIDE DEF g0, g1
<1>4. cell[1] \in 0 .. node.nr0 - 1 /\ cell[2] \in 0 .. node.nr1 - 1
      /\ cell = <<cell[1], cell[2]>>
  BY DEF AllCells
<1>5. PICK p \in 0 .. g0 - 1 : cell[1] \in Stripe(node.nr0, g0, p)
  BY <1>1, <1>2, <1>4, StripesCover
<1>6. PICK q \in 0 .. g1 - 1 : cell[2] \in Stripe(node.nr1, g1, q)
  BY <1>1, <1>2, <1>4, StripesCover
<1>7. (g0 * q + p) \div g0 = q /\ (g0 * q + p) % g0 = p
  BY <1>1, DivModUnique
<1>8. g0 * q + p \in 0 .. NChunks(node) - 1
  <2>1. g0 * q \in Nat /\ g0 * g1 \in Nat
    BY <1>1, ProductInNat
  <2>2. g0 * q + g0 <= g0 * g1
    BY <1>1, <1>6, Multiples
  <2> QED
    BY <1>1, <2>1, <2>2
<1> DEFINE c == g0 * q + p
<1>9. c \in 0 .. NChunks(node) - 1 /\ c \in Nat /\ c % g0 = p /\ c \div g0 = q
  BY <1>1, <1>7, <1>8
<1> HIDE DEF c
<1>10. cell \in ChunkCells(node, c)
  BY <1>3, <1>4, <1>5, <1>6, <1>9
<1> QED
  BY <1>9, <1>10

\* and none is in two.
LEMMA ChunksDisjoint ==
    ASSUME NEW node \in NodeType, NEW c \in Nat, NEW d \in Nat, c # d
    PROVE  ChunkCells(node, c) \cap ChunkCells(node, d) = {}
<1> DEFINE g0 == ChunkGrid(node)[1]
           g1 == ChunkGrid(node)[2]
<1>1. g0 \in Nat \ {0} /\ g1 \in Nat \ {0}
  BY GridType
<1>2. node.nr0 \in Nat \ {0} /\ node.nr1 \in Nat \ {0}
  BY DEF NodeType
<1>3. /\ ChunkCells(node, c)
           = Stripe(node.nr0, g0, c % g0) \X Stripe(node.nr1, g1, c \div g0)
      /\ ChunkCells(node, d)
           = Stripe(node.nr0, g0, d % g0) \X Stripe(node.nr1, g1, d \div g0)
  BY DEF ChunkCells
<1> HIDE DEF g0, g1
<1>4. /\ c % g0 \in Nat /\ c \div g0 \in Nat /\ c = g0 * (c \div g0) + (c % g0)
      /\ d % g0 \in Nat /\ d \div g0 \in Nat /\ d = g0 * (d \div g0) + (d % g0)
  BY <1>1, DivMod
<1>5. CASE c % g0 # d % g0
  <2>1. Stripe(node.nr0, g0, c % g0) \cap Stripe(node.nr0, g0, d % g0) = {}
    BY <1>1, <1>2, <1>4, <1>5, StripesDisjoint
  <2> QED
    BY <1>3, <2>1
<1>6. CASE c \div g0 # d \div g0
  <2>1. Stripe(node.nr1, g1, c \div g0) \cap Stripe(node.nr1, g1, d \div g0) = {}
    BY <1>1, <1>2, <1>4, <1>6, StripesDisjoint
  <2> QED
    BY <1>3, <2>1
<1> QED
  BY <1>4, <1>5, <1>6

\* The shares of a row-wise operation are cells of the output,
LEMMA RowsWithin ==
    ASSUME NEW node \in NodeType, NEW t \in Thread
    PROVE  RowCells(node, t) \subseteq AllCells(node)
<1>1. node.nr1 \in Nat \ {0} /\ NThreads \in Nat \ {0} /\ t \in Nat
  BY GraphComputeAssumption DEF GraphComputeAssumption, NodeType, Thread
<1>2. Stripe(node.nr1, NThreads, t) \subseteq 0 .. node.nr1 - 1
  BY <1>1, StripeWithin
<1> QED
  BY <1>2 DEF RowCells, AllCells

\* and all of them together.
LEMMA RowsCover ==
    ASSUME NEW node \in NodeType, NEW cell \in AllCells(node)
    PROVE  \E t \in Thread : cell \in RowCells(node, t)
<1>1. node.nr1 \in Nat \ {0} /\ NThreads \in Nat \ {0}
  BY GraphComputeAssumption DEF GraphComputeAssumption, NodeType
<1>2. cell[1] \in 0 .. node.nr0 - 1 /\ cell[2] \in 0 .. node.nr1 - 1
      /\ cell = <<cell[1], cell[2]>>
  BY DEF AllCells
<1>3. PICK t \in 0 .. NThreads - 1 : cell[2] \in Stripe(node.nr1, NThreads, t)
  BY <1>1, <1>2, StripesCover
<1> QED
  BY <1>2, <1>3 DEF RowCells, Thread

-----------------------------------------------------------------------------
(* The barrier.  A thread that spins on a number of passages that is past  *)
(* is released: it has only to notice.  Counting it where it will then be, *)
(* all threads are at the same place of the graph (Together), and whoever  *)
(* is about to open the barrier has all the others waiting (Counted).      *)

AtBarrier == {"arrive", "count", "reset", "release", "spin"}

Released(t) == pc[t] = "spin" /\ passed_old[t] # n_barrier_passed
Waiting(t) == pc[t] = "spin" /\ passed_old[t] = n_barrier_passed
Waiters == {t \in Thread : Waiting(t)}

\* Where a thread is, as a node and whether the barrier inside it is still
\* ahead, and where it is after the next barrier.
Here(t) == <<node_n[t], inner[t]>>
After(t) == IF inner[t] THEN <<node_n[t], FALSE>>
            ELSE <<node_n[t] + 1, IsProduct(node_n[t] + 1)>>
Place(t) == IF Released(t) THEN After(t) ELSE Here(t)

Together == \A t, u \in Thread : Place(t) = Place(u)

Counted ==
    /\ \A t \in Thread :
         /\ pc[t] = "count" => passed_old[t] = n_barrier_passed
         /\ pc[t] = "reset" => \A u \in Thread \ {t} : Waiting(u)
         /\ pc[t] = "release" =>
              n_barrier = 0 /\ \A u \in Thread \ {t} : Waiting(u)
    /\ (\A t \in Thread : pc[t] \notin {"reset", "release"}) =>
            n_barrier = Cardinality(Waiters)

\* What a thread's program counter says of where it is.
ShapeOf(t) ==
    /\ pc[t] \in {"create", "store", "join", "returned"} => t = 0
    /\ pc[t] \in {"unborn", "ended"} => t # 0
    /\ pc[t] \in {"join", "ended", "returned"} => node_n[t] \notin Node
    /\ pc[t] \in {"create", "unborn"} =>
         node_n[t] = 1 /\ inner[t] = IsProduct(1) /\ i11[t] = t
    /\ pc[t] \in {"convert", "store"} => inner[t]
    /\ pc[t] = "convert" => Graph[node_n[t]].quantized
    /\ pc[t] \in {"chunk", "fetch"} => IsProduct(node_n[t]) /\ ~inner[t]
    /\ pc[t] = "chunk" => chunk[t] < NChunks(Graph[node_n[t]])
    /\ pc[t] = "rows" => node_n[t] \in Node /\ ~inner[t] /\ ~IsProduct(node_n[t])
    /\ pc[t] \in AtBarrier => node_n[t] \in Node
    /\ inner[t] => IsProduct(node_n[t])
Shape == \A t \in Thread : ShapeOf(t)

BarrierInv == TypeOK /\ Shape /\ Counted /\ Together

\* There are NThreads threads, and thread 0 is one of them.
LEMMA ThreadFacts ==
    /\ NThreads \in Nat \ {0}
    /\ Thread \subseteq Nat
    /\ 0 \in Thread
    /\ IsFiniteSet(Thread)
    /\ Cardinality(Thread) = NThreads
<1>1. NThreads \in Nat \ {0}
  BY GraphComputeAssumption DEF GraphComputeAssumption
<1> QED
  BY <1>1, FS_Interval DEF Thread

\* The nodes and their sizes; the work area has room for every node.
LEMMA NodeFacts ==
    /\ Len(Graph) \in Nat
    /\ Node \subseteq Nat \ {0}
    /\ \A n \in Node : /\ Graph[n] \in NodeType
                       /\ Graph[n].op \in {"mul_mat", "rows"}
                       /\ Graph[n].nr0 \in Nat \ {0}
                       /\ Graph[n].nr1 \in Nat \ {0}
                       /\ 0 .. Graph[n].nr1 - 1 \subseteq WorkRow
<1>1. Len(Graph) \in Nat /\ \A n \in Node : Graph[n] \in NodeType
  BY GraphComputeAssumption DEF GraphComputeAssumption, Node
<1> QED
  BY <1>1 DEF Node, NodeType, WorkRow

\* Where a thread can start on a node, and on which.
LEMMA FirstStepType ==
    ASSUME NEW t \in Thread, NEW n \in 1 .. Len(Graph) + 1
    PROVE  /\ FirstStep(t, n) \in {"convert", "store", "arrive", "rows", "join", "ended"}
           /\ FirstStep(t, n) \in {"join", "ended"} <=> n \notin Node
           /\ FirstStep(t, n) \in {"join", "store"} => t = 0
           /\ FirstStep(t, n) = "ended" => t # 0
           /\ FirstStep(t, n) \in {"convert", "store"} => IsProduct(n)
           /\ FirstStep(t, n) = "convert" => Graph[n].quantized
           /\ FirstStep(t, n) = "rows" <=> n \in Node /\ ~IsProduct(n)
           /\ FirstStep(t, n) = "arrive" => IsProduct(n) /\ ~Graph[n].quantized /\ t # 0
  BY NodeFacts DEF FirstStep, IsProduct

\* Leaving a barrier: a thread is at the place after it, with nothing done.
LEMMA LeaveStep ==
    ASSUME TypeOK, Shape, NEW t \in Thread, pc[t] \in AtBarrier, Leave(t)
    PROVE  /\ pc' = [pc EXCEPT ![t] = pc'[t]]
           /\ pc'[t] \in Label \ {"count", "reset", "release", "spin", "fetch",
                                  "create", "unborn", "returned"}
           /\ node_n' = [node_n EXCEPT ![t] = After(t)[1]]
           /\ inner' = [inner EXCEPT ![t] = After(t)[2]]
           /\ After(t)[1] \in 1 .. Len(Graph) + 1 /\ After(t)[2] \in BOOLEAN
           /\ passed_old' = passed_old
           /\ i11' \in [Thread -> Nat] /\ chunk' \in [Thread -> Nat]
           /\ \A u \in Thread \ {t} : i11'[u] = i11[u] /\ chunk'[u] = chunk[u]
           /\ Here(t)' = After(t)
           /\ inner[t] => /\ chunk'[t] = t /\ i11' = i11
                          /\ pc'[t] = IF t < NChunks(Graph[node_n[t]])
                                      THEN "chunk" ELSE "arrive"
           /\ ~inner[t] => /\ i11'[t] = t /\ chunk' = chunk
                           /\ pc'[t] = FirstStep(t, node_n[t] + 1)
<1>1. t \in Nat /\ node_n[t] \in Node /\ node_n[t] + 1 \in 1 .. Len(Graph) + 1
  BY ThreadFacts, NodeFacts DEF Shape, ShapeOf, Node
<1>2. CASE inner[t]
  BY <1>1, <1>2 DEF TypeOK, Leave, Goto, After, Here, Label
<1>3. CASE ~inner[t]
  <2>1. FirstStep(t, node_n[t] + 1)
          \in {"convert", "store", "arrive", "rows", "join", "ended"}
    BY <1>1, FirstStepType
  <2>2. IsProduct(node_n[t] + 1) \in BOOLEAN
    BY DEF IsProduct
  <2>3. /\ node_n' = [node_n EXCEPT ![t] = node_n[t] + 1]
        /\ node_n'[t] = node_n[t] + 1
    BY <1>1, <1>3 DEF Leave, TypeOK
  <2>4. /\ pc' = [pc EXCEPT ![t] = FirstStep(t, node_n[t] + 1)]
        /\ inner' = [inner EXCEPT ![t] = IsProduct(node_n[t] + 1)]
        /\ i11' = [i11 EXCEPT ![t] = t]
        /\ passed_old' = passed_old /\ chunk' = chunk
    BY <1>3, <2>3 DEF Leave, Goto
  <2> QED
    BY <1>1, <1>3, <2>1, <2>2, <2>3, <2>4 DEF TypeOK, After, Here, Label
<1> QED
  BY <1>2, <1>3

\* The steps that have nothing to do with the barrier.
Work(t) ==
    \/ ConvertRow(t) \/ ConvertEnds(t)
    \/ t = 0 /\ StoreChunk
    \/ ComputeChunk(t) \/ FetchChunk(t) \/ ComputeRows(t)
    \/ t = 0 /\ (AllCreated \/ Join)
    \/ t # 0 /\ Create(t)

\* All that such a step of t may change for the barrier.
Quiet(t) ==
    /\ pc' = [pc EXCEPT ![t] = pc'[t]]
    /\ pc[t] \notin {"arrive", "count", "reset", "release", "spin"}
    /\ pc'[t] \in Label \ {"count", "reset", "release", "spin"}
    /\ node_n' = node_n /\ inner' = inner /\ passed_old' = passed_old
    /\ n_barrier' = n_barrier /\ n_barrier_passed' = n_barrier_passed

\* A step outside the barrier moves its thread and nothing the barrier counts.
LEMMA WorkIsQuiet ==
    ASSUME TypeOK, Shape, NEW t \in Thread, Work(t)
    PROVE  Quiet(t)
<1> USE DEF local, shared, Goto, Quiet
<1>1. /\ pc \in [Thread -> Label]
      /\ "arrive" \in Label /\ "chunk" \in Label /\ "fetch" \in Label
      /\ "store" \in Label /\ "returned" \in Label /\ "convert" \in Label
  BY DEF TypeOK, Label
<1>2. CASE ConvertRow(t)
  BY <1>1, <1>2 DEF ConvertRow
<1>3. CASE ConvertEnds(t)
  BY <1>1, <1>3 DEF ConvertEnds
<1>4. CASE t = 0 /\ StoreChunk
  BY <1>1, <1>4 DEF StoreChunk
<1>5. CASE ComputeChunk(t)
  BY <1>1, <1>5 DEF ComputeChunk
<1>6. CASE FetchChunk(t)
  BY <1>1, <1>6 DEF FetchChunk
<1>7. CASE ComputeRows(t)
  BY <1>1, <1>7 DEF ComputeRows
<1>8. CASE t = 0 /\ Join
  BY <1>1, <1>8 DEF Join
<1>9. CASE (t = 0 /\ AllCreated) \/ (t # 0 /\ Create(t))
  <2>1. 1 \in 1 .. Len(Graph) + 1
    BY NodeFacts
  <2>2. FirstStep(t, 1) \in Label \ {"count", "reset", "release", "spin"}
    BY <2>1, FirstStepType DEF Label
  <2> QED
    BY <1>1, <1>9, <2>2 DEF AllCreated, Create
<1> HIDE DEF Quiet
<1> QED
  BY <1>2, <1>3, <1>4, <1>5, <1>6, <1>7, <1>8, <1>9 DEF Work

\* Such a step keeps all threads at their places and the arrivals counted.
LEMMA QuietKeeps ==
    ASSUME BarrierInv, NEW t \in Thread, Quiet(t)
    PROVE  /\ \A u \in Thread : /\ Released(u)' = Released(u)
                               /\ Waiting(u)' = Waiting(u)
                               /\ Place(u)' = Place(u)
           /\ Counted'
           /\ Together'
<1>1. pc \in [Thread -> Label] /\ \A u \in Thread \ {t} : pc'[u] = pc[u]
  BY DEF BarrierInv, TypeOK, Quiet
<1>2. ASSUME NEW u \in Thread
      PROVE  (pc'[u] \in {"count", "reset", "release", "spin"}
                \/ pc[u] \in {"count", "reset", "release", "spin"}) => pc'[u] = pc[u]
  BY <1>1 DEF Quiet
<1>3. ASSUME NEW u \in Thread
      PROVE  /\ Released(u)' = Released(u) /\ Waiting(u)' = Waiting(u)
             /\ Place(u)' = Place(u)
  BY <1>2 DEF Quiet, Released, Waiting, Place, After, Here
<1>4. Waiters' = Waiters
  BY <1>3 DEF Waiters
<1>5. Counted'
  BY <1>2, <1>3, <1>4 DEF BarrierInv, Counted, Quiet
<1>6. Together'
  BY <1>3 DEF BarrierInv, Together
<1> QED
  BY <1>3, <1>5, <1>6

\* With one thread the barrier lets it pass.
LEMMA AloneKeeps ==
    ASSUME BarrierInv, NEW t \in Thread, LoadPassed(t), NThreads = 1
    PROVE  Counted' /\ Together'
<1>1. Thread = {0} /\ t = 0
  BY DEF Thread
<1>2. pc[t] = "arrive" /\ Leave(t) /\ n_barrier' = n_barrier
  BY DEF LoadPassed, shared
<1>3. pc'[t] \notin {"count", "reset", "release", "spin"}
  BY <1>2, LeaveStep DEF BarrierInv, AtBarrier
<1>4. Waiters = {} /\ Waiters' = {}
  BY <1>1, <1>2, <1>3 DEF Waiters, Waiting
<1>5. n_barrier = Cardinality({})
  BY <1>1, <1>2, <1>4 DEF BarrierInv, Counted
<1> QED
  BY <1>1, <1>2, <1>3, <1>4, <1>5 DEF Counted, Together

\* Entering the barrier: the thread remembers the passages so far.
LEMMA LoadPassedKeeps ==
    ASSUME BarrierInv, NEW t \in Thread, LoadPassed(t), NThreads # 1
    PROVE  /\ \A u \in Thread : /\ Released(u)' = Released(u)
                               /\ Place(u)' = Place(u)
           /\ Counted'
           /\ Together'
<1>1. /\ pc[t] = "arrive"
      /\ pc' = [pc EXCEPT ![t] = "count"]
      /\ passed_old' = [passed_old EXCEPT ![t] = n_barrier_passed]
      /\ node_n' = node_n /\ inner' = inner
      /\ n_barrier' = n_barrier /\ n_barrier_passed' = n_barrier_passed
  BY DEF LoadPassed, shared, Goto
<1>2. /\ pc'[t] = "count" /\ passed_old'[t] = n_barrier_passed
      /\ \A u \in Thread \ {t} : pc'[u] = pc[u] /\ passed_old'[u] = passed_old[u]
  BY <1>1 DEF BarrierInv, TypeOK
<1>3. ASSUME NEW u \in Thread
      PROVE  /\ Released(u)' = Released(u) /\ Waiting(u)' = Waiting(u)
             /\ Place(u)' = Place(u)
  <2>1. CASE u = t
    BY <1>1, <1>2, <2>1 DEF Released, Waiting, Place, After, Here
  <2>2. CASE u # t
    BY <1>1, <1>2, <2>2 DEF Released, Waiting, Place, After, Here
  <2> QED
    BY <2>1, <2>2
<1>4. Waiters' = Waiters
  BY <1>3 DEF Waiters
<1>5. Counted'
  BY <1>1, <1>2, <1>3, <1>4 DEF BarrierInv, Counted
<1>6. Together'
  BY <1>3 DEF BarrierInv, Together
<1> QED
  BY <1>3, <1>5, <1>6

\* Arriving: the last of the threads, and only it, finds all others waiting.
LEMMA CountKeeps ==
    ASSUME BarrierInv, NEW t \in Thread, Count(t)
    PROVE  /\ \A u \in Thread : /\ Released(u)' = Released(u)
                               /\ Place(u)' = Place(u)
           /\ n_barrier' \in 0 .. NThreads
           /\ Counted'
           /\ Together'
<1>1. /\ pc[t] = "count" /\ passed_old[t] = n_barrier_passed
      /\ n_barrier' = n_barrier + 1
      /\ pc' = [pc EXCEPT ![t] = IF n_barrier = NThreads - 1 THEN "reset" ELSE "spin"]
      /\ node_n' = node_n /\ inner' = inner /\ passed_old' = passed_old
      /\ n_barrier_passed' = n_barrier_passed
  BY DEF Count, local, Goto, BarrierInv, Counted
<1>2. /\ pc'[t] = IF n_barrier = NThreads - 1 THEN "reset" ELSE "spin"
      /\ \A u \in Thread \ {t} : pc'[u] = pc[u]
  BY <1>1 DEF BarrierInv, TypeOK
<1>3. ASSUME NEW u \in Thread
      PROVE  /\ Released(u)' = Released(u)
             /\ Place(u)' = Place(u)
             /\ u # t => Waiting(u)' = Waiting(u)
  <2>1. CASE u = t
    BY <1>1, <1>2, <2>1 DEF Released, Place, After, Here
  <2>2. CASE u # t
    BY <1>1, <1>2, <2>2 DEF Released, Waiting, Place, After, Here
  <2> QED
    BY <2>1, <2>2
<1>4. ~Waiting(t)
  BY <1>1 DEF Waiting
<1>5. \A u \in Thread : pc[u] \notin {"reset", "release"}
  BY <1>1, <1>4 DEF BarrierInv, Counted
<1>6. n_barrier = Cardinality(Waiters)
  BY <1>5 DEF BarrierInv, Counted
<1>7. Waiters \subseteq Thread \ {t}
  BY <1>4 DEF Waiters
<1>8. IsFiniteSet(Thread \ {t}) /\ Cardinality(Thread \ {t}) = NThreads - 1
  BY ThreadFacts, FS_RemoveElement
<1>9. /\ IsFiniteSet(Waiters) /\ Cardinality(Waiters) \in Nat
      /\ Cardinality(Waiters) <= NThreads - 1
      /\ Cardinality(Waiters) = NThreads - 1 => Waiters = Thread \ {t}
  BY <1>7, <1>8, FS_Subset, FS_CardinalityType
<1>10. n_barrier' \in 0 .. NThreads
  BY <1>1, <1>6, <1>9, ThreadFacts
<1>11. Counted'
  <2>1. CASE n_barrier = NThreads - 1
    <3>1. \A u \in Thread \ {t} : Waiting(u)'
      BY <1>3, <1>6, <1>9, <2>1 DEF Waiters
    <3>2. \A u \in Thread \ {t} : pc'[u] = "spin"
      BY <3>1 DEF Waiting
    <3> QED
      BY <1>2, <2>1, <3>1, <3>2 DEF Counted
  <2>2. CASE n_barrier # NThreads - 1
    <3>1. pc'[t] = "spin" /\ Waiting(t)'
      BY <1>1, <1>2, <2>2 DEF Waiting
    <3>2. Waiters' = Waiters \cup {t}
      BY <1>3, <3>1 DEF Waiters
    <3>3. Cardinality(Waiters') = Cardinality(Waiters) + 1
      BY <1>7, <1>9, <3>2, FS_AddElement
    <3>4. \A u \in Thread : pc'[u] \notin {"reset", "release"}
      BY <1>2, <1>5, <3>1
    <3>5. \A u \in Thread : pc'[u] = "count" => passed_old'[u] = n_barrier_passed'
      BY <1>1, <1>2, <3>1 DEF BarrierInv, Counted
    <3> QED
      BY <1>1, <1>6, <3>3, <3>4, <3>5 DEF Counted
  <2> QED
    BY <2>1, <2>2
<1>12. Together'
  BY <1>3 DEF BarrierInv, Together
<1> QED
  BY <1>3, <1>10, <1>11, <1>12

\* Resetting the counter, while all the others wait.
LEMMA ResetKeeps ==
    ASSUME BarrierInv, NEW t \in Thread, Reset(t)
    PROVE  /\ \A u \in Thread : /\ Released(u)' = Released(u)
                               /\ Place(u)' = Place(u)
           /\ Counted'
           /\ Together'
<1>1. /\ pc[t] = "reset" /\ n_barrier' = 0
      /\ pc' = [pc EXCEPT ![t] = "release"]
      /\ node_n' = node_n /\ inner' = inner /\ passed_old' = passed_old
      /\ n_barrier_passed' = n_barrier_passed
  BY DEF Reset, local, Goto
<1>2. pc'[t] = "release" /\ \A u \in Thread \ {t} : pc'[u] = pc[u]
  BY <1>1 DEF BarrierInv, TypeOK
<1>3. ASSUME NEW u \in Thread
      PROVE  /\ Released(u)' = Released(u) /\ Waiting(u)' = Waiting(u)
             /\ Place(u)' = Place(u)
  <2>1. CASE u = t
    BY <1>1, <1>2, <2>1 DEF Released, Waiting, Place, After, Here
  <2>2. CASE u # t
    BY <1>1, <1>2, <2>2 DEF Released, Waiting, Place, After, Here
  <2> QED
    BY <2>1, <2>2
<1>4. \A u \in Thread \ {t} : Waiting(u)'
  BY <1>1, <1>3 DEF BarrierInv, Counted
<1>5. \A u \in Thread \ {t} : pc'[u] = "spin"
  BY <1>4 DEF Waiting
<1>6. Counted'
  BY <1>1, <1>2, <1>4, <1>5 DEF Counted
<1>7. Together'
  BY <1>3 DEF BarrierInv, Together
<1> QED
  BY <1>3, <1>6, <1>7

\* The barrier opens: all threads are at the place after it.
LEMMA ReleaseKeeps ==
    ASSUME BarrierInv, NEW t \in Thread, Release(t)
    PROVE  /\ \A u \in Thread \ {t} : Waiting(u) /\ Released(u)'
           /\ \A u \in Thread : Place(u)' = After(u) /\ Place(u) = Here(u)
           /\ ~Released(t)'
           /\ Counted'
           /\ Together'
<1>1. /\ pc[t] = "release" /\ n_barrier_passed' = n_barrier_passed + 1
      /\ Leave(t) /\ n_barrier' = n_barrier
  BY DEF Release
<1>2. n_barrier = 0 /\ \A u \in Thread \ {t} : Waiting(u)
  BY <1>1 DEF BarrierInv, Counted
<1>3. /\ pc'[t] \notin {"count", "reset", "release", "spin"}
      /\ pc' = [pc EXCEPT ![t] = pc'[t]] /\ passed_old' = passed_old
      /\ node_n' = [node_n EXCEPT ![t] = After(t)[1]]
      /\ inner' = [inner EXCEPT ![t] = After(t)[2]]
      /\ Here(t)' = After(t)
  BY <1>1, LeaveStep DEF BarrierInv, AtBarrier
<1>4. \A u \in Thread \ {t} : /\ pc'[u] = pc[u] /\ node_n'[u] = node_n[u]
                             /\ inner'[u] = inner[u]
  BY <1>3 DEF BarrierInv, TypeOK
<1>5. n_barrier_passed \in Nat
  BY DEF BarrierInv, TypeOK
<1>6. ASSUME NEW u \in Thread \ {t}
      PROVE  /\ Released(u)' /\ ~Waiting(u)' /\ pc'[u] = "spin"
             /\ Place(u)' = After(u) /\ Place(u) = Here(u)
  BY <1>1, <1>2, <1>3, <1>4, <1>5 DEF Released, Waiting, Place, After, Here
<1>7. ~Released(t)' /\ ~Waiting(t)' /\ Place(t)' = After(t) /\ Place(t) = Here(t)
  BY <1>1, <1>3 DEF Released, Waiting, Place
<1>8. Waiters' = {}
  BY <1>6, <1>7 DEF Waiters
<1>9. Counted'
  BY <1>1, <1>2, <1>3, <1>6, <1>8, FS_EmptySet DEF Counted
<1>10. Together'
  <2>1. \A u, v \in Thread : Here(u) = Here(v)
    BY <1>6, <1>7 DEF BarrierInv, Together
  <2>2. \A u, v \in Thread : After(u) = After(v)
    BY <2>1 DEF Here, After
  <2> QED
    BY <1>6, <1>7, <2>2 DEF Together
<1> QED
  BY <1>2, <1>6, <1>7, <1>9, <1>10

\* A released thread that notices is where it was counted already.
LEMMA SpinKeeps ==
    ASSUME BarrierInv, NEW t \in Thread, Spin(t)
    PROVE  /\ Released(t) /\ ~Released(t)' /\ Place(t) = After(t)
           /\ \A u \in Thread \ {t} : Released(u)' = Released(u)
           /\ \A u \in Thread : Place(u)' = Place(u)
           /\ Counted'
           /\ Together'
<1>1. /\ pc[t] = "spin" /\ passed_old[t] # n_barrier_passed
      /\ Leave(t) /\ n_barrier' = n_barrier /\ n_barrier_passed' = n_barrier_passed
  BY DEF Spin, shared
<1>2. /\ pc'[t] \notin {"count", "reset", "release", "spin"}
      /\ pc' = [pc EXCEPT ![t] = pc'[t]] /\ passed_old' = passed_old
      /\ node_n' = [node_n EXCEPT ![t] = After(t)[1]]
      /\ inner' = [inner EXCEPT ![t] = After(t)[2]]
      /\ Here(t)' = After(t)
  BY <1>1, LeaveStep DEF BarrierInv, AtBarrier
<1>3. \A u \in Thread \ {t} : /\ pc'[u] = pc[u] /\ node_n'[u] = node_n[u]
                             /\ inner'[u] = inner[u]
  BY <1>2 DEF BarrierInv, TypeOK
<1>4. /\ Released(t) /\ ~Released(t)' /\ ~Waiting(t) /\ ~Waiting(t)'
      /\ Place(t) = After(t) /\ Place(t)' = After(t)
  BY <1>1, <1>2 DEF Released, Waiting, Place
<1>5. ASSUME NEW u \in Thread \ {t}
      PROVE  /\ Released(u)' = Released(u) /\ Waiting(u)' = Waiting(u)
             /\ Place(u)' = Place(u)
  BY <1>1, <1>2, <1>3 DEF Released, Waiting, Place, After, Here
<1>6. Waiters' = Waiters
  BY <1>4, <1>5 DEF Waiters
<1>7. \A u \in Thread : pc[u] \notin {"reset", "release"}
  BY <1>1, <1>4 DEF BarrierInv, Counted
<1>8. \A u \in Thread : pc'[u] \notin {"reset", "release"}
  BY <1>2, <1>3, <1>7
<1>9. Counted'
  BY <1>1, <1>2, <1>3, <1>6, <1>7, <1>8 DEF BarrierInv, Counted
<1>10. Together'
  BY <1>4, <1>5 DEF BarrierInv, Together
<1> QED
  BY <1>4, <1>5, <1>9, <1>10

-----------------------------------------------------------------------------
(* The types and the shape.                                                *)

\* Initially all threads are at the first node, and none at a barrier.
LEMMA InitBarrier == Init => BarrierInv
<1> SUFFICES ASSUME Init PROVE BarrierInv
  OBVIOUS
<1>1. /\ NThreads \in Nat \ {0} /\ Thread \subseteq Nat /\ 0 \in Thread
      /\ Len(Graph) \in Nat
  BY ThreadFacts, NodeFacts
<1>2. /\ pc = [t \in Thread |-> IF t = 0 THEN "create" ELSE "unborn"]
      /\ node_n = [t \in Thread |-> 1]
      /\ inner = [t \in Thread |-> IsProduct(1)]
      /\ passed_old = [t \in Thread |-> 0]
      /\ i11 = [t \in Thread |-> t] /\ chunk = [t \in Thread |-> t]
      /\ n_barrier = 0 /\ n_barrier_passed = 0 /\ current_chunk = 0
      /\ wdata = [r \in WorkRow |-> 0] /\ out = [n \in Node |-> {}]
  BY DEF Init
<1>3. IsProduct(1) \in BOOLEAN
  BY DEF IsProduct
<1>4. TypeOK
  <2>1. i11 \in [Thread -> Nat] /\ chunk \in [Thread -> Nat]
    BY <1>1, <1>2
  <2>2. pc \in [Thread -> Label]
    BY <1>2 DEF Label
  <2>3. /\ node_n \in [Thread -> 1 .. Len(Graph) + 1]
        /\ inner \in [Thread -> BOOLEAN]
        /\ passed_old \in [Thread -> Nat]
    BY <1>1, <1>2, <1>3
  <2>4. n_barrier \in 0 .. NThreads /\ n_barrier_passed \in Nat /\ current_chunk \in Nat
    BY <1>1, <1>2
  <2>5. wdata \in [WorkRow -> 0 .. Len(Graph)]
    BY <1>1, <1>2
  <2> QED
    BY <1>2, <2>1, <2>2, <2>3, <2>4, <2>5 DEF TypeOK
<1>5. Shape
  BY <1>2, <1>3 DEF Shape, ShapeOf, AtBarrier
<1>6. \A t \in Thread : pc[t] \in {"create", "unborn"}
  BY <1>2
<1>7. Counted
  <2>1. Waiters = {}
    BY <1>6 DEF Waiters, Waiting
  <2> QED
    BY <1>2, <1>6, <2>1, FS_EmptySet DEF Counted
<1>8. Together
  <2>1. \A t \in Thread : Place(t) = <<1, IsProduct(1)>>
    BY <1>2 DEF Place, Here, Released
  <2> QED
    BY <2>1 DEF Together
<1> QED
  BY <1>4, <1>5, <1>7, <1>8 DEF BarrierInv

\* A step changes the shape of the thread that takes it only.
LEMMA OneShape ==
    ASSUME Shape, NEW t \in Thread, ShapeOf(t)',
           \A u \in Thread \ {t} : /\ pc'[u] = pc[u] /\ node_n'[u] = node_n[u]
                                  /\ inner'[u] = inner[u] /\ i11'[u] = i11[u]
                                  /\ chunk'[u] = chunk[u]
    PROVE  Shape'
<1>1. ASSUME NEW u \in Thread \ {t} PROVE ShapeOf(u)'
  BY DEF Shape, ShapeOf
<1> QED
  BY <1>1 DEF Shape

\* A thread that leaves a barrier keeps the types and the shape.
LEMMA LeaveKeepsShape ==
    ASSUME TypeOK, Shape, NEW t \in Thread, pc[t] \in AtBarrier, Leave(t)
    PROVE  /\ pc' \in [Thread -> Label]
           /\ node_n' \in [Thread -> 1 .. Len(Graph) + 1]
           /\ inner' \in [Thread -> BOOLEAN]
           /\ passed_old' \in [Thread -> Nat]
           /\ i11' \in [Thread -> Nat]
           /\ chunk' \in [Thread -> Nat]
           /\ Shape'
<1>1. /\ pc' = [pc EXCEPT ![t] = pc'[t]]
      /\ pc'[t] \in Label \ {"count", "reset", "release", "spin", "fetch",
                             "create", "unborn", "returned"}
      /\ node_n' = [node_n EXCEPT ![t] = After(t)[1]]
      /\ inner' = [inner EXCEPT ![t] = After(t)[2]]
      /\ After(t)[1] \in 1 .. Len(Graph) + 1 /\ After(t)[2] \in BOOLEAN
      /\ passed_old' = passed_old
      /\ i11' \in [Thread -> Nat] /\ chunk' \in [Thread -> Nat]
      /\ \A u \in Thread \ {t} : i11'[u] = i11[u] /\ chunk'[u] = chunk[u]
      /\ inner[t] => /\ chunk'[t] = t /\ i11' = i11
                     /\ pc'[t] = IF t < NChunks(Graph[node_n[t]])
                                 THEN "chunk" ELSE "arrive"
      /\ ~inner[t] => /\ i11'[t] = t /\ chunk' = chunk
                      /\ pc'[t] = FirstStep(t, node_n[t] + 1)
  BY LeaveStep
<1>2. /\ pc' \in [Thread -> Label]
      /\ node_n' \in [Thread -> 1 .. Len(Graph) + 1]
      /\ inner' \in [Thread -> BOOLEAN]
      /\ passed_old' \in [Thread -> Nat]
  BY <1>1 DEF TypeOK
<1>3. /\ node_n'[t] = After(t)[1] /\ inner'[t] = After(t)[2]
      /\ \A u \in Thread \ {t} : /\ pc'[u] = pc[u] /\ node_n'[u] = node_n[u]
                                /\ inner'[u] = inner[u]
  BY <1>1 DEF TypeOK
<1>4. node_n[t] \in Node
  BY DEF Shape, ShapeOf
<1>5. CASE inner[t]
  <2>1. IsProduct(node_n[t]) /\ node_n'[t] = node_n[t] /\ ~inner'[t]
    BY <1>3, <1>5 DEF Shape, ShapeOf, After
  <2>2. /\ pc'[t] = "chunk" \/ pc'[t] = "arrive"
        /\ pc'[t] = "chunk" => chunk'[t] < NChunks(Graph[node_n'[t]])
    BY <1>1, <1>5, <2>1
  <2>3. ShapeOf(t)'
    BY <1>4, <2>1, <2>2 DEF ShapeOf, AtBarrier
  <2> QED
    BY <1>1, <1>2, <1>3, <2>3, OneShape
<1>6. CASE ~inner[t]
  <2> DEFINE n == node_n[t] + 1
  <2>1. /\ n \in 1 .. Len(Graph) + 1 /\ node_n'[t] = n /\ inner'[t] = IsProduct(n)
        /\ pc'[t] = FirstStep(t, n)
    BY <1>1, <1>3, <1>4, <1>6, NodeFacts DEF After, Node
  <2> HIDE DEF n
  <2>2. /\ pc'[t] \in {"convert", "store", "arrive", "rows", "join", "ended"}
        /\ pc'[t] \in {"join", "ended"} <=> n \notin Node
        /\ pc'[t] \in {"join", "store"} => t = 0
        /\ pc'[t] = "ended" => t # 0
        /\ pc'[t] \in {"convert", "store"} => IsProduct(n)
        /\ pc'[t] = "convert" => Graph[n].quantized
        /\ pc'[t] = "rows" <=> n \in Node /\ ~IsProduct(n)
    BY <2>1, FirstStepType
  <2>3. ShapeOf(t)'
    BY <2>1, <2>2 DEF ShapeOf, AtBarrier
  <2> QED
    BY <1>1, <1>2, <1>3, <2>3, OneShape
<1> QED
  BY <1>5, <1>6

\* Nor does any other step break them.
LEMMA WorkKeepsShape ==
    ASSUME TypeOK, Shape, NEW t \in Thread, Work(t)
    PROVE  TypeOK' /\ Shape'
<1>1. /\ pc' = [pc EXCEPT ![t] = pc'[t]] /\ pc'[t] \in Label
      /\ node_n' = node_n /\ inner' = inner /\ passed_old' = passed_old
      /\ n_barrier' = n_barrier /\ n_barrier_passed' = n_barrier_passed
  BY WorkIsQuiet DEF Quiet
<1>2. /\ pc' \in [Thread -> Label]
      /\ \A u \in Thread \ {t} : pc'[u] = pc[u]
  BY <1>1 DEF TypeOK
<1>3. t \in Nat /\ NThreads \in Nat \ {0}
  BY ThreadFacts
<1>4. ASSUME i11' = i11, chunk' = chunk, current_chunk' \in Nat, wdata' = wdata,
             out' = out, ShapeOf(t)'
      PROVE  TypeOK' /\ Shape'
  <2>1. TypeOK'
    BY <1>1, <1>2, <1>4 DEF TypeOK
  <2> QED
    BY <1>1, <1>2, <1>4, <2>1, OneShape
<1>5. CASE ConvertRow(t)
  <2> DEFINE n == node_n[t]
  <2>1. /\ pc[t] = "convert" /\ i11[t] < Graph[n].nr1 /\ pc' = pc
        /\ wdata' = [wdata EXCEPT ![i11[t]] = n]
        /\ i11' = [i11 EXCEPT ![t] = i11[t] + NThreads]
        /\ chunk' = chunk /\ current_chunk' = current_chunk /\ out' = out
    BY <1>5 DEF ConvertRow, shared
  <2>2. n \in Node
    BY <2>1 DEF Shape, ShapeOf, IsProduct
  <2>3. n \in 0 .. Len(Graph)
    BY <2>2, NodeFacts DEF Node
  <2>4. i11' \in [Thread -> Nat] /\ \A u \in Thread \ {t} : i11'[u] = i11[u]
    BY <1>3, <2>1 DEF TypeOK
  <2>5. wdata' \in [WorkRow -> 0 .. Len(Graph)]
    BY <2>1, <2>3 DEF TypeOK
  <2>6. TypeOK'
    BY <1>1, <1>2, <2>1, <2>4, <2>5 DEF TypeOK
  <2>7. ShapeOf(t)'
    BY <1>1, <2>1 DEF Shape, ShapeOf
  <2> QED
    BY <1>1, <1>2, <2>1, <2>4, <2>6, <2>7, OneShape
<1>6. CASE ConvertEnds(t)
  <2>1. /\ pc[t] = "convert" /\ pc'[t] = IF t = 0 THEN "store" ELSE "arrive"
        /\ i11' = i11 /\ chunk' = chunk /\ current_chunk' = current_chunk
        /\ wdata' = wdata /\ out' = out
    BY <1>6 DEF ConvertEnds, Goto, local, shared, TypeOK
  <2>2. ShapeOf(t)'
    BY <1>1, <2>1 DEF Shape, ShapeOf, IsProduct
  <2> QED
    BY <1>4, <2>1, <2>2 DEF TypeOK
<1>7. CASE t = 0 /\ StoreChunk
  <2>1. /\ pc[t] = "store" /\ pc'[t] = "arrive"
        /\ i11' = i11 /\ chunk' = chunk /\ current_chunk' = NThreads
        /\ wdata' = wdata /\ out' = out
    BY <1>7 DEF StoreChunk, Goto, local, TypeOK
  <2>2. ShapeOf(t)'
    BY <1>1, <2>1 DEF Shape, ShapeOf, IsProduct
  <2> QED
    BY <1>3, <1>4, <2>1, <2>2
<1>8. ASSUME NEW cells, NEW n \in Node, cells \subseteq AllCells(Graph[n]),
             out' = [out EXCEPT ![n] = @ \cup cells],
             i11' = i11, chunk' = chunk, current_chunk' = current_chunk,
             wdata' = wdata, ShapeOf(t)'
      PROVE  TypeOK' /\ Shape'
  <2>1. /\ DOMAIN out' = Node
        /\ \A m \in Node : out'[m] \subseteq AllCells(Graph[m])
    BY <1>8 DEF TypeOK
  <2>2. TypeOK'
    BY <1>1, <1>2, <1>8, <2>1 DEF TypeOK
  <2> QED
    BY <1>1, <1>2, <1>8, <2>2, OneShape
<1>9. CASE ComputeChunk(t)
  <2> DEFINE n == node_n[t]
  <2>1. /\ pc[t] = "chunk" /\ pc'[t] \in {"arrive", "fetch"}
        /\ out' = [out EXCEPT ![n] = @ \cup ChunkCells(Graph[n], chunk[t])]
        /\ i11' = i11 /\ chunk' = chunk /\ current_chunk' = current_chunk
        /\ wdata' = wdata
    BY <1>9 DEF ComputeChunk, Goto, local, shared, TypeOK
  <2>2. IsProduct(n) /\ n \in Node /\ ~inner[t]
    BY <2>1 DEF Shape, ShapeOf, IsProduct
  <2>3. ChunkCells(Graph[n], chunk[t]) \subseteq AllCells(Graph[n])
    BY <2>2, NodeFacts, ChunkWithin DEF TypeOK
  <2>4. ShapeOf(t)'
    BY <1>1, <2>1, <2>2 DEF ShapeOf, AtBarrier
  <2> QED
    BY <1>8, <2>1, <2>2, <2>3, <2>4
<1>10. CASE FetchChunk(t)
  <2>1. /\ pc[t] = "fetch" /\ chunk' = [chunk EXCEPT ![t] = current_chunk]
        /\ current_chunk' = current_chunk + 1
        /\ pc'[t] = IF current_chunk < NChunks(Graph[node_n[t]]) THEN "chunk"
                    ELSE "arrive"
        /\ i11' = i11 /\ wdata' = wdata /\ out' = out
    BY <1>10 DEF FetchChunk, Goto, TypeOK
  <2>2. /\ chunk' \in [Thread -> Nat] /\ current_chunk' \in Nat
        /\ chunk'[t] = current_chunk
        /\ \A u \in Thread \ {t} : chunk'[u] = chunk[u]
    BY <2>1 DEF TypeOK
  <2>3. TypeOK'
    BY <1>1, <1>2, <2>1, <2>2 DEF TypeOK
  <2>4. ShapeOf(t)'
    BY <1>1, <2>1, <2>2 DEF Shape, ShapeOf, IsProduct, AtBarrier
  <2> QED
    BY <1>1, <1>2, <2>1, <2>2, <2>3, <2>4, OneShape
<1>11. CASE ComputeRows(t)
  <2> DEFINE n == node_n[t]
  <2>1. /\ pc[t] = "rows" /\ pc'[t] = "arrive"
        /\ out' = [out EXCEPT ![n] = @ \cup RowCells(Graph[n], t)]
        /\ i11' = i11 /\ chunk' = chunk /\ current_chunk' = current_chunk
        /\ wdata' = wdata
    BY <1>11 DEF ComputeRows, Goto, local, shared, TypeOK
  <2>2. n \in Node /\ ~inner[t]
    BY <2>1 DEF Shape, ShapeOf
  <2>3. RowCells(Graph[n], t) \subseteq AllCells(Graph[n])
    BY <2>2, NodeFacts, RowsWithin
  <2>4. ShapeOf(t)'
    BY <1>1, <2>1, <2>2 DEF ShapeOf, AtBarrier
  <2> QED
    BY <1>8, <2>1, <2>2, <2>3, <2>4
<1>12. CASE t = 0 /\ Join
  <2>1. /\ pc[t] = "join" /\ pc'[t] = "returned"
        /\ i11' = i11 /\ chunk' = chunk /\ current_chunk' = current_chunk
        /\ wdata' = wdata /\ out' = out
    BY <1>12 DEF Join, Goto, local, shared, TypeOK
  <2>2. ShapeOf(t)'
    BY <1>1, <1>12, <2>1 DEF Shape, ShapeOf, AtBarrier
  <2> QED
    BY <1>4, <2>1, <2>2 DEF TypeOK
<1>13. CASE (t = 0 /\ AllCreated) \/ (t # 0 /\ Create(t))
  <2>1. /\ pc[t] \in {"create", "unborn"} /\ pc'[t] = FirstStep(t, 1)
        /\ i11' = i11 /\ chunk' = chunk /\ current_chunk' = current_chunk
        /\ wdata' = wdata /\ out' = out
    BY <1>13 DEF AllCreated, Create, Goto, local, shared, TypeOK
  <2>2. node_n[t] = 1 /\ inner[t] = IsProduct(1) /\ i11[t] = t
    BY <2>1 DEF Shape, ShapeOf
  <2>3. 1 \in 1 .. Len(Graph) + 1
    BY NodeFacts
  <2>4. /\ pc'[t] \in {"convert", "store", "arrive", "rows", "join", "ended"}
        /\ pc'[t] \in {"join", "ended"} <=> 1 \notin Node
        /\ pc'[t] \in {"join", "store"} => t = 0
        /\ pc'[t] = "ended" => t # 0
        /\ pc'[t] \in {"convert", "store"} => IsProduct(1)
        /\ pc'[t] = "convert" => Graph[1].quantized
        /\ pc'[t] = "rows" <=> 1 \in Node /\ ~IsProduct(1)
    BY <2>1, <2>3, FirstStepType
  <2>5. ShapeOf(t)'
    BY <1>1, <2>2, <2>4 DEF ShapeOf, AtBarrier
  <2> QED
    BY <1>4, <2>1, <2>5 DEF TypeOK
<1> QED
  BY <1>5, <1>6, <1>7, <1>9, <1>10, <1>11, <1>12, <1>13 DEF Work

\* Every step keeps the barrier's invariant.
LEMMA StepKeepsBarrier ==
    ASSUME BarrierInv, NEW t \in Thread, Step(t)
    PROVE  BarrierInv'
<1>1. TypeOK /\ Shape
  BY DEF BarrierInv
<1>2. CASE Work(t)
  BY <1>1, <1>2, WorkIsQuiet, WorkKeepsShape, QuietKeeps DEF BarrierInv
<1>3. ASSUME n_barrier' \in 0 .. NThreads, n_barrier_passed' \in Nat,
             current_chunk' = current_chunk, wdata' = wdata, out' = out
      PROVE  Leave(t) /\ pc[t] \in AtBarrier => TypeOK' /\ Shape'
  <2>1. SUFFICES ASSUME Leave(t), pc[t] \in AtBarrier PROVE TypeOK' /\ Shape'
    OBVIOUS
  <2>2. /\ pc' \in [Thread -> Label]
        /\ node_n' \in [Thread -> 1 .. Len(Graph) + 1]
        /\ inner' \in [Thread -> BOOLEAN]
        /\ passed_old' \in [Thread -> Nat]
        /\ i11' \in [Thread -> Nat]
        /\ chunk' \in [Thread -> Nat]
        /\ Shape'
    BY <1>1, <2>1, LeaveKeepsShape
  <2>3. TypeOK'
    BY <1>1, <1>3, <2>2 DEF TypeOK
  <2> QED
    BY <2>2, <2>3
<1>4. ASSUME NEW label \in {"count", "reset", "spin", "release"},
             pc' = [pc EXCEPT ![t] = label], pc[t] \in AtBarrier,
             node_n' = node_n, inner' = inner, i11' = i11, chunk' = chunk,
             passed_old' \in [Thread -> Nat],
             n_barrier' \in 0 .. NThreads, n_barrier_passed' = n_barrier_passed,
             current_chunk' = current_chunk, wdata' = wdata, out' = out
      PROVE  TypeOK' /\ Shape'
  <2>1. TypeOK'
    BY <1>1, <1>4 DEF TypeOK, Label
  <2>2. pc'[t] = label /\ \A u \in Thread \ {t} : pc'[u] = pc[u]
    BY <1>1, <1>4 DEF TypeOK
  <2>3. ShapeOf(t)'
    BY <1>1, <1>4, <2>2 DEF Shape, ShapeOf, AtBarrier
  <2> QED
    BY <1>1, <1>4, <2>1, <2>2, <2>3, OneShape
<1>5. CASE LoadPassed(t)
  <2>1. pc[t] \in AtBarrier /\ shared' = shared /\ wdata' = wdata /\ out' = out
    BY <1>5 DEF LoadPassed, AtBarrier
  <2>2. n_barrier' = n_barrier /\ n_barrier_passed' = n_barrier_passed
        /\ current_chunk' = current_chunk
    BY <2>1 DEF shared
  <2>3. CASE NThreads = 1
    <3>1. TypeOK' /\ Shape'
      BY <1>1, <1>3, <1>5, <2>1, <2>2, <2>3 DEF LoadPassed, TypeOK
    <3> QED
      BY <1>5, <2>3, <3>1, AloneKeeps DEF BarrierInv
  <2>4. CASE NThreads # 1
    <3>1. passed_old' = [passed_old EXCEPT ![t] = n_barrier_passed]
          /\ pc' = [pc EXCEPT ![t] = "count"]
          /\ node_n' = node_n /\ inner' = inner /\ i11' = i11 /\ chunk' = chunk
      BY <1>5, <2>4 DEF LoadPassed, Goto
    <3>2. passed_old' \in [Thread -> Nat]
      BY <1>1, <3>1 DEF TypeOK
    <3>3. TypeOK' /\ Shape'
      BY <1>1, <1>4, <2>1, <2>2, <3>1, <3>2 DEF TypeOK
    <3> QED
      BY <1>5, <2>4, <3>3, LoadPassedKeeps DEF BarrierInv
  <2> QED
    BY <2>3, <2>4
<1>6. CASE Count(t)
  <2>1. n_barrier' \in 0 .. NThreads /\ Counted' /\ Together'
    BY <1>6, CountKeeps
  <2>2. TypeOK' /\ Shape'
    BY <1>1, <1>4, <1>6, <2>1 DEF Count, local, Goto, AtBarrier, TypeOK
  <2> QED
    BY <2>1, <2>2 DEF BarrierInv
<1>7. CASE Reset(t)
  <2>1. Counted' /\ Together'
    BY <1>7, ResetKeeps
  <2>2. 0 \in 0 .. NThreads
    BY ThreadFacts
  <2>3. TypeOK' /\ Shape'
    BY <1>1, <1>4, <1>7, <2>2 DEF Reset, local, Goto, AtBarrier, TypeOK
  <2> QED
    BY <2>1, <2>3 DEF BarrierInv
<1>8. CASE Release(t)
  <2>1. Counted' /\ Together'
    BY <1>8, ReleaseKeeps
  <2>2. TypeOK' /\ Shape'
    BY <1>1, <1>3, <1>8 DEF Release, AtBarrier, TypeOK
  <2> QED
    BY <2>1, <2>2 DEF BarrierInv
<1>9. CASE Spin(t)
  <2>1. Counted' /\ Together'
    BY <1>9, SpinKeeps
  <2>2. TypeOK' /\ Shape'
    BY <1>1, <1>3, <1>9 DEF Spin, shared, AtBarrier, TypeOK
  <2> QED
    BY <2>1, <2>2 DEF BarrierInv
<1> QED
  BY <1>2, <1>5, <1>6, <1>7, <1>8, <1>9 DEF Step, Work

\* The types, the shape, the counted arrivals and the common place are invariant.
LEMMA BarrierInvariant == Spec => []BarrierInv
<1>1. Init => BarrierInv
  BY InitBarrier
<1>2. BarrierInv /\ [Next]_vars => BarrierInv'
  <2>1. SUFFICES ASSUME BarrierInv, [Next]_vars PROVE BarrierInv'
    OBVIOUS
  <2>2. CASE Next
    BY <2>1, <2>2, StepKeepsBarrier DEF Next
  <2>3. CASE UNCHANGED vars
    <3>1. TypeOK'
      BY <2>1, <2>3 DEF BarrierInv, TypeOK, vars, local, shared
    <3>2. Shape'
      BY <2>1, <2>3 DEF BarrierInv, Shape, ShapeOf, vars, local
    <3>3. Waiters' = Waiters
      BY <2>3 DEF Waiters, Waiting, vars, local, shared
    <3>4. Counted'
      BY <2>1, <2>3, <3>3 DEF BarrierInv, Counted, Waiting, vars, local, shared
    <3>5. Together'
      BY <2>1, <2>3 DEF BarrierInv, Together, Place, Released, Here, After,
                        vars, local, shared
    <3> QED
      BY <3>1, <3>2, <3>4, <3>5 DEF BarrierInv
  <2> QED
    BY <2>1, <2>2, <2>3
<1> QED
  BY <1>1, <1>2, PTL DEF Spec

\* The variables of ggml_graph_compute keep their types; the barrier never counts
\* more arrivals than there are threads, and no cell outside an output is written.
THEOREM TypeCorrect == Spec => []TypeOK
<1>1. BarrierInv => TypeOK
  BY DEF BarrierInv
<1> QED
  BY <1>1, BarrierInvariant, PTL

-----------------------------------------------------------------------------
(* What is computed.  A thread that has arrived has done its share of the  *)
(* node; a chunk that was drawn is computed, in hand, or the first of a    *)
(* thread that was released and has not noticed; so when the last thread   *)
(* opens the barrier the node is complete.                                 *)

Arrived(t) == pc[t] \in AtBarrier /\ ~Released(t)

Share(t) ==
    /\ ~IsProduct(node_n[t]) => RowCells(Graph[node_n[t]], t) \subseteq out[node_n[t]]
    /\ IsProduct(node_n[t]) /\ ~inner[t] =>
         \/ NThreads >= NChunks(Graph[node_n[t]])
         \/ current_chunk >= NChunks(Graph[node_n[t]])
    /\ inner[t] /\ t = 0 => current_chunk = NThreads
Shares == \A t \in Thread : Arrived(t) => Share(t)

InHand(c) == \E u \in Thread : pc[u] = "chunk" /\ chunk[u] = c
Promised(c) == InHand(c) \/ (c \in Thread /\ Released(c))

ChunksOf(n) ==
    /\ current_chunk >= NThreads
    /\ \A c \in 0 .. NChunks(Graph[n]) - 1 :
         c < current_chunk /\ ~Promised(c) => ChunkCells(Graph[n], c) \subseteq out[n]
Chunks == \A t \in Thread, n \in Node :
              Place(t) = <<n, FALSE>> /\ IsProduct(n) => ChunksOf(n)

EarlierDone == \A t \in Thread, n \in Node :
                   n < Place(t)[1] => out[n] = AllCells(Graph[n])

DoneInv == EarlierDone /\ Shares /\ Chunks

\* Two places are the same when both their parts are.
LEMMA SamePair ==
    ASSUME NEW a, NEW b, NEW c, NEW d, <<a, b>> = <<c, d>>
    PROVE  a = c /\ b = d
OBVIOUS

\* Before any thread starts there is nothing to have done.
LEMMA InitDone == Init => DoneInv
<1> SUFFICES ASSUME Init PROVE DoneInv
  OBVIOUS
<1>1. \A t \in Thread : pc[t] \in {"create", "unborn"} /\ node_n[t] = 1
                        /\ inner[t] = IsProduct(1)
  BY DEF Init
<1>2. \A t \in Thread : Place(t) = <<1, IsProduct(1)>> /\ ~Arrived(t)
  BY <1>1 DEF Place, Here, Released, Arrived, AtBarrier
<1>3. EarlierDone
  BY <1>2, NodeFacts DEF EarlierDone, Node
<1>4. Shares
  BY <1>2 DEF Shares
<1>5. Chunks
  <2>1. SUFFICES ASSUME NEW t \in Thread, NEW n \in Node, IsProduct(n),
                        Place(t) = <<n, FALSE>>
                 PROVE  FALSE
    BY DEF Chunks
  <2>2. <<1, IsProduct(1)>> = <<n, FALSE>>
    BY <1>2, <2>1
  <2>3. n = 1 /\ IsProduct(1) = FALSE
    BY <2>2, SamePair
  <2> QED
    BY <2>1, <2>3
<1> QED
  BY <1>3, <1>4, <1>5 DEF DoneInv

\* A place is a node and a flag; a thread that is not released is there.
LEMMA PlaceFacts ==
    ASSUME BarrierInv, NEW t \in Thread
    PROVE  /\ ~Released(t) => Place(t) = <<node_n[t], inner[t]>>
           /\ pc[t] # "spin" => ~Released(t)
           /\ Place(t) \in Nat \X BOOLEAN
<1>1. node_n[t] \in Nat /\ inner[t] \in BOOLEAN
  BY NodeFacts DEF BarrierInv, TypeOK
<1>2. IsProduct(node_n[t] + 1) \in BOOLEAN
  BY DEF IsProduct
<1>3. Here(t) \in Nat \X BOOLEAN
  BY <1>1 DEF Here
<1>4. After(t) \in Nat \X BOOLEAN
  <2> DEFINE b == IsProduct(node_n[t] + 1)
             m == node_n[t] + 1
  <2>1. b \in BOOLEAN /\ m \in Nat
    BY <1>1, <1>2
  <2>2. After(t) = <<node_n[t], FALSE>> \/ After(t) = <<m, b>>
    BY DEF After
  <2> HIDE DEF b, m
  <2>3. <<node_n[t], FALSE>> \in Nat \X BOOLEAN
    BY <1>1
  <2>4. <<m, b>> \in Nat \X BOOLEAN
    BY <2>1
  <2> QED
    BY <2>2, <2>3, <2>4
<1> QED
  BY <1>3, <1>4 DEF Place, Here, Released

\* When all threads have arrived at the barrier after a node, it is complete.
LEMMA NodeComplete ==
    ASSUME BarrierInv, DoneInv, NEW t \in Thread, ~inner[t],
           \A u \in Thread : Arrived(u)
    PROVE  out[node_n[t]] = AllCells(Graph[node_n[t]])
<1> DEFINE n == node_n[t]
<1>1. n \in Node /\ Graph[n] \in NodeType /\ out[n] \subseteq AllCells(Graph[n])
  BY NodeFacts DEF BarrierInv, Shape, ShapeOf, Arrived, TypeOK
<1>2. ASSUME NEW u \in Thread PROVE node_n[u] = n /\ inner[u] = inner[t]
  <2>1. Place(u) = Place(t)
    BY DEF BarrierInv, Together
  <2> QED
    BY <2>1 DEF Arrived, Place, Here
<1>3. inner[t] \in BOOLEAN
  BY DEF BarrierInv, TypeOK
<1>4. SUFFICES ASSUME NEW cell \in AllCells(Graph[n]) PROVE cell \in out[n]
  BY <1>1
<1>5. CASE IsProduct(n)
  <2>1. Place(t) = <<n, FALSE>>
    BY <1>3 DEF Arrived, Place, Here
  <2>2. ChunksOf(n)
    BY <1>1, <1>5, <2>1 DEF DoneInv, Chunks
  <2>3. \A c : ~Promised(c)
    BY DEF Arrived, AtBarrier, Promised, InHand
  <2>4. NThreads >= NChunks(Graph[n]) \/ current_chunk >= NChunks(Graph[n])
    BY <1>5 DEF DoneInv, Shares, Share
  <2>5. PICK c \in 0 .. NChunks(Graph[n]) - 1 : cell \in ChunkCells(Graph[n], c)
    BY <1>1, <1>4, ChunksCover
  <2>6. c < current_chunk
    <3>1. NChunks(Graph[n]) \in Nat /\ NThreads \in Nat /\ current_chunk \in Nat
      BY <1>1, GridType, ThreadFacts DEF BarrierInv, TypeOK
    <3>2. current_chunk >= NThreads
      BY <2>2 DEF ChunksOf
    <3> HIDE DEF n
    <3> QED
      BY <2>4, <2>5, <3>1, <3>2
  <2> QED
    BY <2>2, <2>3, <2>5, <2>6 DEF ChunksOf
<1>6. CASE ~IsProduct(n)
  <2>1. PICK u \in Thread : cell \in RowCells(Graph[n], u)
    BY <1>1, <1>4, RowsCover
  <2> QED
    BY <1>2, <1>6, <2>1 DEF DoneInv, Shares, Share
<1> QED
  BY <1>5, <1>6

\* A thread that has left a barrier and is at the next one had nothing to do.
LEMMA LeaveShares ==
    ASSUME BarrierInv, NEW t \in Thread, pc[t] \in AtBarrier, Leave(t),
           pc'[t] \in AtBarrier
    PROVE  Share(t)'
<1>1. /\ node_n'[t] = After(t)[1] /\ inner'[t] = After(t)[2]
      /\ inner[t] => pc'[t] = IF t < NChunks(Graph[node_n[t]])
                              THEN "chunk" ELSE "arrive"
      /\ ~inner[t] => pc'[t] = FirstStep(t, node_n[t] + 1)
  BY LeaveStep, SMTT(30) DEF BarrierInv, TypeOK
<1>2. node_n[t] \in Node /\ (inner[t] => IsProduct(node_n[t]))
  BY DEF BarrierInv, Shape, ShapeOf
<1>3. CASE inner[t]
  <2>1. /\ node_n'[t] = node_n[t] /\ ~inner'[t] /\ IsProduct(node_n[t])
        /\ ~(t < NChunks(Graph[node_n[t]]))
    BY <1>1, <1>2, <1>3 DEF After, AtBarrier
  <2>2. NChunks(Graph[node_n[t]]) \in Nat
    BY <1>2, NodeFacts, GridType
  <2>3. NThreads >= NChunks(Graph[node_n[t]])
    BY <2>1, <2>2, ThreadFacts DEF Thread
  <2> QED
    BY <2>1, <2>3 DEF Share
<1>4. CASE ~inner[t]
  <2> DEFINE n == node_n[t] + 1
  <2>1. n \in 1 .. Len(Graph) + 1
    BY <1>2, NodeFacts DEF Node
  <2>2. node_n'[t] = n /\ inner'[t] = IsProduct(n) /\ pc'[t] = FirstStep(t, n)
    BY <1>1, <1>4 DEF After
  <2> HIDE DEF n
  <2>3. pc'[t] = "arrive"
    BY <2>1, <2>2, FirstStepType DEF AtBarrier
  <2>4. IsProduct(n) /\ t # 0
    BY <2>1, <2>2, <2>3, FirstStepType
  <2> QED
    BY <2>2, <2>4 DEF Share
<1> QED
  BY <1>3, <1>4

\* The barrier opens: t, the last to arrive, goes on, the others are released.
Opens(t) ==
    /\ pc[t] \in AtBarrier /\ Leave(t)
    /\ out' = out /\ current_chunk' = current_chunk
    /\ \A u \in Thread : Arrived(u) /\ Place(u)' = After(u)
    /\ ~Released(t)'
    /\ \A u \in Thread \ {t} : Released(u)'

\* Opening the barrier: the node all threads leave is complete, and every first
\* chunk of the product they go on with is in hand or promised.
LEMMA OpenKeepsDone ==
    ASSUME BarrierInv, DoneInv, NEW t \in Thread, Opens(t)
    PROVE  DoneInv'
<1>1. /\ pc[t] \in AtBarrier /\ Leave(t)
      /\ out' = out /\ current_chunk' = current_chunk
      /\ \A u \in Thread : Arrived(u) /\ Place(u)' = After(u)
      /\ ~Released(t)'
      /\ \A u \in Thread \ {t} : Released(u)'
  BY DEF Opens
<1>2. /\ node_n'[t] = After(t)[1] /\ inner'[t] = After(t)[2]
      /\ inner[t] => /\ chunk'[t] = t
                     /\ pc'[t] = IF t < NChunks(Graph[node_n[t]])
                                 THEN "chunk" ELSE "arrive"
      /\ ~inner[t] => pc'[t] = FirstStep(t, node_n[t] + 1)
  BY <1>1, LeaveStep DEF BarrierInv, TypeOK
<1>3. ASSUME NEW u \in Thread
      PROVE  Place(u) = <<node_n[u], inner[u]>> /\ inner[u] \in BOOLEAN
             /\ node_n[u] \in Node /\ node_n[u] \in Nat
             /\ (inner[u] => IsProduct(node_n[u]))
  BY <1>1, NodeFacts DEF BarrierInv, TypeOK, Shape, ShapeOf, Arrived, Place, Here
<1>4. EarlierDone'
  <2>1. SUFFICES ASSUME NEW u \in Thread, NEW n \in Node, n < Place(u)'[1]
                 PROVE  out[n] = AllCells(Graph[n])
    BY <1>1 DEF EarlierDone
  <2>2. CASE n < node_n[u]
    BY <1>3, <2>2 DEF DoneInv, EarlierDone
  <2>3. CASE n = node_n[u] /\ ~inner[u]
    BY <1>1, <2>3, NodeComplete
  <2>4. n < node_n[u] \/ (n = node_n[u] /\ ~inner[u])
    <3>1. After(u)[1] = IF inner[u] THEN node_n[u] ELSE node_n[u] + 1
      BY DEF After
    <3> QED
      BY <1>1, <1>3, <2>1, <3>1, NodeFacts
  <2> QED
    BY <2>2, <2>3, <2>4
<1>5. Shares'
  <2>1. SUFFICES ASSUME NEW u \in Thread, Arrived(u)' PROVE Share(u)'
    BY DEF Shares
  <2>2. u = t /\ pc'[t] \in AtBarrier
    BY <1>1, <2>1 DEF Arrived
  <2> QED
    BY <1>1, <2>2, LeaveShares
<1>6. Chunks'
  <2>1. SUFFICES ASSUME NEW u \in Thread, NEW n \in Node, IsProduct(n),
                        Place(u)' = <<n, FALSE>>
                 PROVE  ChunksOf(n)'
    BY DEF Chunks
  <2>2. inner[u] /\ node_n[u] = n
    <3>1. After(u) = <<n, FALSE>>
      BY <1>1, <2>1
    <3>2. CASE inner[u]
      BY <3>1, <3>2 DEF After
    <3>3. CASE ~inner[u]
      <4>1. <<node_n[u] + 1, IsProduct(node_n[u] + 1)>> = <<n, FALSE>>
        BY <3>1, <3>3 DEF After
      <4>2. node_n[u] + 1 = n /\ IsProduct(node_n[u] + 1) = FALSE
        BY <4>1, SamePair
      <4> QED
        BY <2>1, <4>2
    <3> QED
      BY <3>2, <3>3
  <2>3. ASSUME NEW v \in Thread PROVE inner[v] /\ node_n[v] = n
    <3>1. Place(v) = Place(u)
      BY DEF BarrierInv, Together
    <3> QED
      BY <1>3, <2>2, <3>1
  <2>4. current_chunk = NThreads
    BY <1>1, <2>3, ThreadFacts DEF DoneInv, Shares, Share
  <2>5. ASSUME NEW c \in 0 .. NChunks(Graph[n]) - 1, c < NThreads
        PROVE  Promised(c)'
    <3>1. c \in Thread
      BY <2>5, ThreadFacts DEF Thread
    <3>2. CASE c = t
      <4>1. c < NChunks(Graph[n])
        <5>1. NChunks(Graph[n]) \in Nat
          BY NodeFacts, GridType
        <5> QED
          BY <2>5, <5>1
      <4>2. pc'[t] = "chunk" /\ chunk'[t] = c
        BY <1>2, <2>3, <3>2, <4>1
      <4> QED
        BY <4>2 DEF Promised, InHand
    <3>3. CASE c # t
      BY <1>1, <3>1, <3>3 DEF Promised
    <3> QED
      BY <3>2, <3>3
  <2>6. current_chunk' = NThreads /\ NThreads >= NThreads
    BY <1>1, <2>4, ThreadFacts
  <2> QED
    BY <2>5, <2>6 DEF ChunksOf
<1> QED
  BY <1>4, <1>5, <1>6 DEF DoneInv

\* Cells are only ever added, so what is complete stays so.
LEMMA EarlierStays ==
    ASSUME BarrierInv, EarlierDone, TypeOK',
           \A u \in Thread : Place(u)' = Place(u),
           \A n \in Node : out[n] \subseteq out'[n]
    PROVE  EarlierDone'
<1>1. SUFFICES ASSUME NEW u \in Thread, NEW n \in Node, n < Place(u)'[1]
               PROVE  out'[n] = AllCells(Graph[n])
  BY DEF EarlierDone
<1>2. n < Place(u)[1]
  BY <1>1
<1>3. out[n] = AllCells(Graph[n])
  BY <1>2 DEF EarlierDone
<1>4. out[n] \subseteq out'[n] /\ out'[n] \subseteq AllCells(Graph[n])
  BY DEF TypeOK
<1> QED
  BY <1>3, <1>4

\* The shares the other threads have done stay done: while one draws chunks
\* no thread is before the barrier inside the product, and while thread 0
\* sets the counter none is past it.
LEMMA SharesStay ==
    ASSUME BarrierInv, Shares, NEW t \in Thread,
           node_n' = node_n, inner' = inner,
           \A u \in Thread \ {t} : pc'[u] = pc[u] /\ Released(u)' = Released(u),
           \A n \in Node : out[n] \subseteq out'[n],
           \/ current_chunk' = current_chunk
           \/ pc[t] = "fetch" /\ current_chunk' = current_chunk + 1
           \/ t = 0 /\ pc[t] = "store" /\ current_chunk' = NThreads,
           Arrived(t)' => Share(t)'
    PROVE  Shares'
<1>1. SUFFICES ASSUME NEW u \in Thread \ {t}, Arrived(u)' PROVE Share(u)'
  BY DEF Shares
<1>2. Arrived(u) /\ node_n[u] \in Node
  BY <1>1 DEF Arrived, BarrierInv, Shape, ShapeOf
<1>3. Share(u)
  BY <1>2 DEF Shares
<1>4. inner[u] \in BOOLEAN /\ inner[t] \in BOOLEAN /\ current_chunk \in Nat
      /\ NThreads \in Nat /\ NChunks(Graph[node_n[u]]) \in Nat
  BY <1>2, NodeFacts, GridType, ThreadFacts DEF BarrierInv, TypeOK
<1>5. pc[t] # "spin" => inner[u] = inner[t]
  <2>1. SUFFICES ASSUME pc[t] # "spin" PROVE inner[u] = inner[t]
    OBVIOUS
  <2>2. Place(u) = Place(t)
    BY DEF BarrierInv, Together
  <2>3. Place(u) = <<node_n[u], inner[u]>> /\ Place(t) = <<node_n[t], inner[t]>>
    BY <1>2, <2>1 DEF Arrived, Place, Here, Released
  <2>4. <<node_n[u], inner[u]>> = <<node_n[t], inner[t]>>
    BY <2>2, <2>3
  <2> QED
    BY <2>4, SamePair
<1>6. ~IsProduct(node_n[u]) =>
         RowCells(Graph[node_n[u]], u) \subseteq out'[node_n[u]]
  BY <1>2, <1>3 DEF Share
<1>7. CASE current_chunk' = current_chunk
  BY <1>3, <1>6, <1>7 DEF Share
<1>8. CASE pc[t] = "fetch" /\ current_chunk' = current_chunk + 1
  <2>1. ~inner[u]
    BY <1>4, <1>5, <1>8 DEF BarrierInv, Shape, ShapeOf
  <2>2. current_chunk >= NChunks(Graph[node_n[u]])
          => current_chunk' >= NChunks(Graph[node_n[u]])
    BY <1>4, <1>8
  <2> QED
    BY <1>3, <1>6, <2>1, <2>2 DEF Share
<1>9. CASE t = 0 /\ pc[t] = "store" /\ current_chunk' = NThreads
  <2>1. inner[u] /\ u # 0
    BY <1>4, <1>5, <1>9 DEF BarrierInv, Shape, ShapeOf
  <2> QED
    BY <1>3, <1>6, <2>1 DEF Share
<1> QED
  BY <1>7, <1>8, <1>9

\* The chunks drawn so far, when the counter does not move.
LEMMA ChunksStay ==
    ASSUME Chunks, \A u \in Thread : Place(u)' = Place(u),
           \A n \in Node : out[n] \subseteq out'[n],
           current_chunk' = current_chunk,
           \A c : Promised(c) => Promised(c)'
    PROVE  Chunks'
<1>1. SUFFICES ASSUME NEW u \in Thread, NEW n \in Node,
                      Place(u)' = <<n, FALSE>>, IsProduct(n)
               PROVE  ChunksOf(n)'
  BY DEF Chunks
<1>2. ChunksOf(n)
  BY <1>1 DEF Chunks
<1> QED
  BY <1>2 DEF ChunksOf

\* A step outside the barrier: what it computes or draws is accounted for.
LEMMA WorkKeepsDone ==
    ASSUME BarrierInv, DoneInv, NEW t \in Thread, Work(t)
    PROVE  DoneInv'
<1>1. /\ pc' = [pc EXCEPT ![t] = pc'[t]] /\ pc[t] \notin AtBarrier
      /\ pc'[t] \in Label \ {"count", "reset", "release", "spin"}
      /\ node_n' = node_n /\ inner' = inner
  BY WorkIsQuiet DEF Quiet, BarrierInv, AtBarrier
<1>2. /\ \A u \in Thread \ {t} : pc'[u] = pc[u]
      /\ pc[t] # "spin" /\ pc'[t] # "spin" /\ pc[t] # "arrive"
  BY <1>1 DEF BarrierInv, TypeOK, AtBarrier
<1>3. /\ \A u \in Thread : Released(u)' = Released(u) /\ Place(u)' = Place(u)
      /\ TypeOK'
  BY WorkIsQuiet, QuietKeeps, WorkKeepsShape DEF BarrierInv
<1>4. EarlierDone /\ Shares /\ Chunks
  BY DEF DoneInv
<1>5. Arrived(t)' => pc'[t] = "arrive"
  BY <1>1 DEF Arrived, AtBarrier
<1>6. t \in Nat /\ NThreads \in Nat /\ current_chunk \in Nat
  BY ThreadFacts DEF BarrierInv, TypeOK
<1>7. Place(t) = <<node_n[t], inner[t]>>
  BY <1>2 DEF Place, Here, Released
\* A step that computes no cell, and leaves the counter and the chunks alone.
<1>8. ASSUME out' = out, chunk' = chunk, current_chunk' = current_chunk,
             pc[t] # "chunk", pc'[t] = "arrive" => Share(t)'
      PROVE  DoneInv'
  <2>1. ASSUME NEW c, Promised(c) PROVE Promised(c)'
    <3>1. CASE InHand(c)
      BY <1>2, <1>8, <3>1 DEF InHand, Promised
    <3>2. CASE c \in Thread /\ Released(c)
      BY <1>3, <3>2 DEF Promised
    <3> QED
      BY <2>1, <3>1, <3>2 DEF Promised
  <2>2. EarlierDone'
    BY <1>3, <1>4, <1>8, EarlierStays
  <2>3. Shares'
    BY <1>1, <1>2, <1>3, <1>4, <1>5, <1>8, SharesStay
  <2>4. Chunks'
    BY <1>3, <1>4, <1>8, <2>1, ChunksStay
  <2> QED
    BY <2>2, <2>3, <2>4 DEF DoneInv
<1>9. CASE ConvertRow(t)
  BY <1>1, <1>8, <1>9 DEF ConvertRow, shared
<1>10. CASE ConvertEnds(t)
  <2>1. /\ pc[t] = "convert" /\ pc'[t] = IF t = 0 THEN "store" ELSE "arrive"
        /\ chunk' = chunk /\ current_chunk' = current_chunk /\ out' = out
    BY <1>10 DEF ConvertEnds, Goto, local, shared, BarrierInv, TypeOK
  <2>2. inner[t] /\ IsProduct(node_n[t])
    BY <2>1 DEF BarrierInv, Shape, ShapeOf
  <2>3. pc'[t] = "arrive" => Share(t)'
    BY <1>1, <2>1, <2>2 DEF Share
  <2> QED
    BY <1>8, <2>1, <2>3
<1>11. CASE t = 0 /\ StoreChunk
  <2>1. /\ pc[t] = "store" /\ current_chunk' = NThreads /\ out' = out
    BY <1>11 DEF StoreChunk
  <2>2. inner[t] /\ IsProduct(node_n[t])
    BY <2>1 DEF BarrierInv, Shape, ShapeOf
  <2>3. Share(t)'
    BY <1>1, <2>1, <2>2 DEF Share
  <2>4. EarlierDone'
    BY <1>3, <1>4, <2>1, EarlierStays
  <2>5. Shares'
    BY <1>1, <1>2, <1>3, <1>4, <1>11, <2>1, <2>3, SharesStay
  <2>6. Chunks'
    <3>1. SUFFICES ASSUME NEW u \in Thread, NEW n \in Node,
                          Place(u)' = <<n, FALSE>>
                   PROVE  FALSE
      BY DEF Chunks
    <3>2. Place(u) = Place(t)
      BY DEF BarrierInv, Together
    <3>3. <<node_n[t], inner[t]>> = <<n, FALSE>>
      BY <1>3, <1>7, <3>1, <3>2
    <3>4. inner[t] = FALSE
      BY <3>3, SamePair
    <3> QED
      BY <2>2, <3>4
  <2> QED
    BY <2>4, <2>5, <2>6 DEF DoneInv
<1>12. CASE ComputeChunk(t)
  <2> DEFINE n == node_n[t]
             mine == ChunkCells(Graph[n], chunk[t])
  <2>1. /\ pc[t] = "chunk"
        /\ pc'[t] = IF NThreads >= NChunks(Graph[n]) THEN "arrive" ELSE "fetch"
        /\ out' = [out EXCEPT ![n] = @ \cup mine]
        /\ chunk' = chunk /\ current_chunk' = current_chunk
    BY <1>12 DEF ComputeChunk, Goto, local, shared, BarrierInv, TypeOK
  <2>2. IsProduct(n) /\ ~inner[t] /\ n \in Node
    BY <2>1 DEF BarrierInv, Shape, ShapeOf, IsProduct
  <2>3. /\ \A m \in Node : out[m] \subseteq out'[m]
        /\ mine \subseteq out'[n]
    BY <2>1, <2>2 DEF BarrierInv, TypeOK
  <2>4. pc'[t] = "arrive" => Share(t)'
    BY <1>1, <2>1, <2>2 DEF Share
  <2>5. EarlierDone'
    BY <1>3, <1>4, <2>3, EarlierStays
  <2>6. Shares'
    BY <1>1, <1>2, <1>3, <1>4, <1>5, <2>1, <2>3, <2>4, SharesStay
  <2>7. Chunks'
    <3>1. SUFFICES ASSUME NEW u \in Thread, NEW m \in Node,
                          Place(u)' = <<m, FALSE>>, IsProduct(m)
                   PROVE  ChunksOf(m)'
      BY DEF Chunks
    <3>2. m = n
      <4>1. Place(u) = Place(t)
        BY DEF BarrierInv, Together
      <4> QED
        BY <1>3, <1>7, <3>1, <4>1
    <3>3. ChunksOf(m)
      BY <1>3, <1>4, <3>1 DEF Chunks
    <3>4. ASSUME NEW c \in 0 .. NChunks(Graph[m]) - 1, c < current_chunk, ~Promised(c)'
          PROVE  ChunkCells(Graph[m], c) \subseteq out'[m]
      <4>1. CASE c = chunk[t]
        BY <2>3, <3>2, <4>1
      <4>2. CASE c # chunk[t]
        <5>1. ~Promised(c)
          BY <1>2, <1>3, <2>1, <3>4, <4>2 DEF Promised, InHand
        <5> QED
          BY <2>3, <3>3, <3>4, <5>1 DEF ChunksOf
      <4> QED
        BY <4>1, <4>2
    <3> QED
      BY <2>1, <3>3, <3>4 DEF ChunksOf
  <2> QED
    BY <2>5, <2>6, <2>7 DEF DoneInv
<1>13. CASE FetchChunk(t)
  <2> DEFINE n == node_n[t]
  <2>1. /\ pc[t] = "fetch" /\ current_chunk' = current_chunk + 1 /\ out' = out
        /\ chunk' = [chunk EXCEPT ![t] = current_chunk]
        /\ pc'[t] = IF current_chunk < NChunks(Graph[n]) THEN "chunk" ELSE "arrive"
    BY <1>13 DEF FetchChunk, Goto, BarrierInv, TypeOK
  <2>2. /\ IsProduct(n) /\ ~inner[t] /\ n \in Node
        /\ NChunks(Graph[n]) \in Nat
        /\ chunk'[t] = current_chunk
        /\ \A u \in Thread \ {t} : chunk'[u] = chunk[u]
    BY <2>1, NodeFacts, GridType DEF BarrierInv, TypeOK, Shape, ShapeOf, IsProduct
  <2>3. pc'[t] = "arrive" => Share(t)'
    <3>1. pc'[t] = "arrive" => current_chunk' >= NChunks(Graph[n])
      <4> HIDE DEF n
      <4> QED
        BY <1>6, <2>1, <2>2
    <3> QED
      BY <1>1, <2>2, <3>1 DEF Share
  <2>4. EarlierDone'
    BY <1>3, <1>4, <2>1, EarlierStays
  <2>5. Shares'
    BY <1>1, <1>2, <1>3, <1>4, <1>5, <2>1, <2>3, SharesStay
  <2>6. Chunks'
    <3>1. SUFFICES ASSUME NEW u \in Thread, NEW m \in Node,
                          Place(u)' = <<m, FALSE>>, IsProduct(m)
                   PROVE  ChunksOf(m)'
      BY DEF Chunks
    <3>2. m = n
      <4>1. Place(u) = Place(t)
        BY DEF BarrierInv, Together
      <4> QED
        BY <1>3, <1>7, <3>1, <4>1
    <3>3. ChunksOf(m)
      BY <1>3, <1>4, <3>1 DEF Chunks
    <3>4. ASSUME NEW c \in 0 .. NChunks(Graph[m]) - 1, c < current_chunk + 1,
                 ~Promised(c)'
          PROVE  ChunkCells(Graph[m], c) \subseteq out[m]
      <4>1. c # current_chunk
        <5>1. SUFFICES ASSUME c = current_chunk PROVE FALSE
          OBVIOUS
        <5>2. current_chunk < NChunks(Graph[n])
          <6> HIDE DEF n
          <6> QED
            BY <2>2, <3>2, <3>4, <5>1
        <5>3. pc'[t] = "chunk" /\ chunk'[t] = c
          BY <2>1, <2>2, <5>1, <5>2
        <5> QED
          BY <3>4, <5>3 DEF Promised, InHand
      <4>2. c < current_chunk
        BY <1>6, <3>4, <4>1
      <4>3. ~Promised(c)
        <5>1. CASE c \in Thread /\ Released(c)
          BY <1>3, <3>4, <5>1 DEF Promised
        <5>2. ASSUME NEW v \in Thread, pc[v] = "chunk", chunk[v] = c PROVE FALSE
          <6>1. v # t /\ pc'[v] = "chunk" /\ chunk'[v] = c
            BY <1>2, <2>1, <2>2, <5>2
          <6> QED
            BY <3>4, <6>1 DEF Promised, InHand
        <5> QED
          BY <3>4, <5>1, <5>2 DEF Promised, InHand
      <4> QED
        BY <3>3, <3>4, <4>2, <4>3 DEF ChunksOf
    <3>5. current_chunk + 1 >= NThreads
      BY <1>6, <3>3 DEF ChunksOf
    <3> QED
      BY <2>1, <3>4, <3>5 DEF ChunksOf
  <2> QED
    BY <2>4, <2>5, <2>6 DEF DoneInv
<1>14. CASE ComputeRows(t)
  <2> DEFINE n == node_n[t]
  <2>1. /\ pc[t] = "rows" /\ pc'[t] = "arrive"
        /\ out' = [out EXCEPT ![n] = @ \cup RowCells(Graph[n], t)]
        /\ chunk' = chunk /\ current_chunk' = current_chunk
    BY <1>14 DEF ComputeRows, Goto, local, shared, BarrierInv, TypeOK
  <2>2. ~IsProduct(n) /\ ~inner[t] /\ n \in Node
    BY <2>1 DEF BarrierInv, Shape, ShapeOf
  <2>3. /\ \A m \in Node : out[m] \subseteq out'[m]
        /\ RowCells(Graph[n], t) \subseteq out'[n]
    BY <2>1, <2>2 DEF BarrierInv, TypeOK
  <2>4. Share(t)'
    BY <1>1, <2>2, <2>3 DEF Share
  <2>5. EarlierDone'
    BY <1>3, <1>4, <2>3, EarlierStays
  <2>6. Shares'
    BY <1>1, <1>2, <1>3, <1>4, <2>1, <2>3, <2>4, SharesStay
  <2>7. \A c : Promised(c) => Promised(c)'
    BY <1>2, <1>3, <2>1 DEF Promised, InHand
  <2>8. Chunks'
    BY <1>3, <1>4, <2>1, <2>3, <2>7, ChunksStay
  <2> QED
    BY <2>5, <2>6, <2>8 DEF DoneInv
<1>15. CASE t = 0 /\ Join
  <2>1. /\ pc[t] = "join" /\ pc'[t] = "returned"
        /\ chunk' = chunk /\ current_chunk' = current_chunk /\ out' = out
    BY <1>15 DEF Join, Goto, local, shared, BarrierInv, TypeOK
  <2> QED
    BY <1>8, <2>1
<1>16. CASE (t = 0 /\ AllCreated) \/ (t # 0 /\ Create(t))
  <2>1. /\ pc[t] \in {"create", "unborn"} /\ pc'[t] = FirstStep(t, 1)
        /\ chunk' = chunk /\ current_chunk' = current_chunk /\ out' = out
    BY <1>16 DEF AllCreated, Create, Goto, local, shared, BarrierInv, TypeOK
  <2>2. node_n[t] = 1 /\ 1 \in 1 .. Len(Graph) + 1
    BY <2>1, NodeFacts DEF BarrierInv, Shape, ShapeOf
  <2>3. pc'[t] = "arrive" => IsProduct(1) /\ t # 0 /\ inner[t] = IsProduct(1)
    BY <2>1, <2>2, FirstStepType DEF BarrierInv, Shape, ShapeOf
  <2>4. pc'[t] = "arrive" => Share(t)'
    BY <1>1, <2>2, <2>3 DEF Share
  <2> QED
    BY <1>8, <2>1, <2>4
<1> QED
  BY <1>9, <1>10, <1>11, <1>12, <1>13, <1>14, <1>15, <1>16 DEF Work

\* Waiting at a barrier changes nothing of it.
LEMMA WaitKeepsDone ==
    ASSUME BarrierInv, DoneInv, NEW t \in Thread,
           \/ LoadPassed(t) /\ NThreads # 1
           \/ Count(t)
           \/ Reset(t)
    PROVE  DoneInv'
<1>1. /\ pc' = [pc EXCEPT ![t] = pc'[t]]
      /\ pc[t] \in AtBarrier /\ pc'[t] \in AtBarrier
      /\ node_n' = node_n /\ inner' = inner /\ chunk' = chunk
      /\ current_chunk' = current_chunk /\ out' = out
  BY DEF LoadPassed, Count, Reset, Goto, local, shared, AtBarrier, BarrierInv, TypeOK
<1>2. \A u \in Thread : Released(u)' = Released(u) /\ Place(u)' = Place(u)
  BY LoadPassedKeeps, CountKeeps, ResetKeeps
<1>3. \A u \in Thread : /\ u # t => pc'[u] = pc[u]
                        /\ pc'[u] \in AtBarrier <=> pc[u] \in AtBarrier
  BY <1>1 DEF BarrierInv, TypeOK
<1>4. EarlierDone'
  BY <1>1, <1>2 DEF DoneInv, EarlierDone
<1>5. Shares'
  BY <1>1, <1>2, <1>3 DEF DoneInv, Shares, Share, Arrived
<1>6. \A c : Promised(c) => Promised(c)'
  BY <1>1, <1>2, <1>3 DEF Promised, InHand, AtBarrier
<1>7. Chunks'
  BY <1>1, <1>2, <1>6, ChunksStay DEF DoneInv
<1> QED
  BY <1>4, <1>5, <1>7 DEF DoneInv

\* A released thread that notices has its first chunk in hand, if there is one.
LEMMA SpinKeepsDone ==
    ASSUME BarrierInv, DoneInv, NEW t \in Thread, Spin(t)
    PROVE  DoneInv'
<1>1. /\ pc[t] = "spin" /\ pc[t] \in AtBarrier /\ Leave(t)
      /\ current_chunk' = current_chunk /\ out' = out
  BY DEF Spin, shared, AtBarrier
<1>2. /\ Released(t) /\ Place(t) = After(t)
      /\ \A u \in Thread \ {t} : Released(u)' = Released(u)
      /\ \A u \in Thread : Place(u)' = Place(u)
  BY SpinKeeps
<1>3. /\ pc' = [pc EXCEPT ![t] = pc'[t]]
      /\ node_n' = [node_n EXCEPT ![t] = After(t)[1]]
      /\ inner' = [inner EXCEPT ![t] = After(t)[2]]
      /\ \A u \in Thread \ {t} : chunk'[u] = chunk[u]
      /\ inner[t] => /\ chunk'[t] = t
                     /\ pc'[t] = IF t < NChunks(Graph[node_n[t]])
                                 THEN "chunk" ELSE "arrive"
  BY <1>1, LeaveStep DEF BarrierInv
<1>4. \A u \in Thread \ {t} : /\ pc'[u] = pc[u] /\ node_n'[u] = node_n[u]
                              /\ inner'[u] = inner[u]
  BY <1>3 DEF BarrierInv, TypeOK
<1>5. EarlierDone'
  BY <1>1, <1>2 DEF DoneInv, EarlierDone
<1>6. Shares'
  <2>1. SUFFICES ASSUME NEW u \in Thread, Arrived(u)' PROVE Share(u)'
    BY DEF Shares
  <2>2. CASE u = t
    BY <1>1, <2>1, <2>2, LeaveShares DEF Arrived
  <2>3. CASE u # t
    BY <1>1, <1>2, <1>4, <2>1, <2>3 DEF DoneInv, Shares, Share, Arrived
  <2> QED
    BY <2>2, <2>3
<1>7. Chunks'
  <2>1. SUFFICES ASSUME NEW u \in Thread, NEW n \in Node,
                        Place(u)' = <<n, FALSE>>, IsProduct(n)
                 PROVE  ChunksOf(n)'
    BY DEF Chunks
  <2>2. ChunksOf(n)
    BY <1>2, <2>1 DEF DoneInv, Chunks
  <2>3. inner[t] /\ node_n[t] = n
    <3>1. After(t) = <<n, FALSE>>
      <4>1. Place(u) = Place(t)
        BY DEF BarrierInv, Together
      <4> QED
        BY <1>2, <2>1, <4>1
    <3>2. CASE inner[t]
      BY <3>1, <3>2 DEF After
    <3>3. CASE ~inner[t]
      <4>1. <<node_n[t] + 1, IsProduct(node_n[t] + 1)>> = <<n, FALSE>>
        BY <3>1, <3>3 DEF After
      <4>2. node_n[t] + 1 = n /\ IsProduct(node_n[t] + 1) = FALSE
        BY <4>1, SamePair
      <4> QED
        BY <2>1, <4>2
    <3> QED
      BY <3>2, <3>3
  <2>4. ASSUME NEW c \in 0 .. NChunks(Graph[n]) - 1, Promised(c) PROVE Promised(c)'
    <3>1. ASSUME NEW v \in Thread, pc[v] = "chunk", chunk[v] = c PROVE Promised(c)'
      BY <1>1, <1>3, <1>4, <3>1 DEF Promised, InHand
    <3>2. CASE c \in Thread /\ Released(c) /\ c # t
      BY <1>2, <3>2 DEF Promised
    <3>3. CASE c = t
      <4>1. NChunks(Graph[n]) \in Nat
        BY NodeFacts, GridType
      <4>2. t < NChunks(Graph[n])
        BY <2>4, <3>3, <4>1
      <4>3. pc'[t] = "chunk" /\ chunk'[t] = c
        BY <1>3, <2>3, <3>3, <4>2
      <4> QED
        BY <4>3 DEF Promised, InHand
    <3> QED
      BY <2>4, <3>1, <3>2, <3>3 DEF Promised, InHand
  <2> QED
    BY <1>1, <2>2, <2>4 DEF ChunksOf
<1> QED
  BY <1>5, <1>6, <1>7 DEF DoneInv

\* Whoever opens the barrier finds all threads there.
LEMMA StepOpens ==
    ASSUME BarrierInv, NEW t \in Thread, Release(t) \/ (LoadPassed(t) /\ NThreads = 1)
    PROVE  Opens(t)
<1>1. CASE Release(t)
  <2>1. /\ \A u \in Thread \ {t} : Waiting(u) /\ Released(u)'
        /\ \A u \in Thread : Place(u)' = After(u)
        /\ ~Released(t)'
    BY <1>1, ReleaseKeeps
  <2>2. \A u \in Thread : Arrived(u)
    BY <1>1, <2>1 DEF Release, Arrived, Waiting, Released, AtBarrier
  <2> QED
    BY <1>1, <2>1, <2>2 DEF Release, Opens, AtBarrier
<1>2. CASE LoadPassed(t) /\ NThreads = 1
  <2>1. Thread = {t}
    BY <1>2 DEF Thread
  <2>2. /\ pc[t] = "arrive" /\ pc[t] \in AtBarrier /\ Leave(t)
        /\ out' = out /\ current_chunk' = current_chunk
    BY <1>2 DEF LoadPassed, shared, AtBarrier
  <2>3. Here(t)' = After(t) /\ pc'[t] # "spin"
    BY <2>2, LeaveStep DEF BarrierInv
  <2>4. Arrived(t) /\ ~Released(t)' /\ Place(t)' = After(t)
    BY <2>2, <2>3 DEF Arrived, Released, Place
  <2> QED
    BY <2>1, <2>2, <2>4 DEF Opens
<1> QED
  BY <1>1, <1>2

\* Every step keeps what was done.
LEMMA StepKeepsDone ==
    ASSUME BarrierInv, DoneInv, NEW t \in Thread, Step(t)
    PROVE  DoneInv'
<1>1. CASE Work(t)
  BY <1>1, WorkKeepsDone
<1>2. CASE (LoadPassed(t) /\ NThreads # 1) \/ Count(t) \/ Reset(t)
  BY <1>2, WaitKeepsDone
<1>3. CASE Spin(t)
  BY <1>3, SpinKeepsDone
<1>4. CASE Release(t) \/ (LoadPassed(t) /\ NThreads = 1)
  BY <1>4, StepOpens, OpenKeepsDone
<1> QED
  BY <1>1, <1>2, <1>3, <1>4 DEF Step, Work

\* The caller returns after the others.
ReturnsLast == pc[0] = "returned" => \A t \in Thread \ {0} : pc[t] = "ended"

\* The caller returns from its join, and no ended thread goes on.
LEMMA StepReturnsLast ==
    ASSUME BarrierInv, ReturnsLast, NEW t \in Thread, Step(t)
    PROVE  ReturnsLast'
<1>1. pc[t] \notin {"ended", "returned"}
  BY DEF Step, LoadPassed, Count, Reset, Release, Spin, ConvertRow, ConvertEnds,
         StoreChunk, ComputeChunk, FetchChunk, ComputeRows, AllCreated, Join, Create
<1>2. CASE pc[0] = "returned"
  BY <1>1, <1>2 DEF ReturnsLast
<1>3. CASE pc[0] # "returned"
  <2>1. CASE t = 0 /\ Join
    BY <2>1 DEF Join, Goto, ReturnsLast, BarrierInv, TypeOK
  <2>2. CASE ~(t = 0 /\ Join)
    <3>1. pc'[0] # "returned"
      <4>1. CASE t # 0
        <5>1. pc' = [pc EXCEPT ![t] = pc'[t]]
          <6>1. CASE Work(t)
            BY <6>1, WorkIsQuiet DEF Quiet, BarrierInv
          <6>2. CASE Leave(t) /\ pc[t] \in AtBarrier
            BY <6>2, LeaveStep DEF BarrierInv
          <6>3. CASE Count(t) \/ Reset(t)
            BY <6>3 DEF Count, Reset, Goto, BarrierInv, TypeOK
          <6>4. CASE LoadPassed(t) \/ Release(t) \/ Spin(t)
            BY <6>2, <6>4 DEF LoadPassed, Release, Spin, Goto, AtBarrier,
                              BarrierInv, TypeOK
          <6> QED
            BY <6>1, <6>3, <6>4 DEF Step, Work
        <5> QED
          BY <1>3, <4>1, <5>1, ThreadFacts DEF BarrierInv, TypeOK
      <4>2. CASE t = 0
        <5>1. CASE AllCreated
          <6>1. FirstStep(0, 1) # "returned"
            BY DEF FirstStep
          <6> QED
            BY <5>1, <6>1, ThreadFacts DEF AllCreated, Goto, BarrierInv, TypeOK
        <5>2. CASE Leave(t) /\ pc[t] \in AtBarrier
          BY <4>2, <5>2, LeaveStep DEF BarrierInv
        <5>3. CASE LoadPassed(t) \/ Release(t) \/ Spin(t)
          BY <4>2, <5>2, <5>3, ThreadFacts
             DEF LoadPassed, Release, Spin, Goto, AtBarrier, BarrierInv, TypeOK
        <5>4. CASE \/ Count(t) \/ Reset(t) \/ ConvertRow(t) \/ ConvertEnds(t)
                   \/ StoreChunk \/ ComputeChunk(t) \/ FetchChunk(t) \/ ComputeRows(t)
          BY <1>3, <4>2, <5>4, ThreadFacts
             DEF Count, Reset, ConvertRow, ConvertEnds, StoreChunk, ComputeChunk,
                 FetchChunk, ComputeRows, Goto, BarrierInv, TypeOK
        <5> QED
          BY <2>2, <4>2, <5>1, <5>3, <5>4 DEF Step
      <4> QED
        BY <4>1, <4>2
    <3> QED
      BY <3>1 DEF ReturnsLast
  <2> QED
    BY <2>1, <2>2
<1> QED
  BY <1>2, <1>3

ComputeInv == DoneInv /\ ReturnsLast

\* What is computed when, and that the caller returns last, are invariant.
LEMMA ComputeInvariant == Spec => []ComputeInv
<1>1. Init => ComputeInv
  BY InitDone, ThreadFacts DEF ComputeInv, ReturnsLast, Init
<1>2. BarrierInv /\ ComputeInv /\ [Next]_vars => ComputeInv'
  <2>1. SUFFICES ASSUME BarrierInv, ComputeInv, [Next]_vars PROVE ComputeInv'
    OBVIOUS
  <2>2. CASE Next
    BY <2>1, <2>2, StepKeepsDone, StepReturnsLast DEF Next, ComputeInv
  <2>3. CASE UNCHANGED vars
    <3>1. EarlierDone'
      BY <2>1, <2>3 DEF ComputeInv, DoneInv, EarlierDone, Place, Released, Here,
                        After, vars, local, shared
    <3>2. Shares'
      BY <2>1, <2>3 DEF ComputeInv, DoneInv, Shares, Share, Arrived, Released,
                        vars, local, shared
    <3>3. \A c : Promised(c) => Promised(c)'
      BY <2>3 DEF Promised, InHand, Released, vars, local, shared
    <3>4. \A u \in Thread : Place(u)' = Place(u)
      BY <2>3 DEF Place, Released, Here, After, vars, local, shared
    <3>5. Chunks'
      BY <2>1, <2>3, <3>3, <3>4, ChunksStay DEF ComputeInv, DoneInv, vars, shared
    <3>6. ReturnsLast'
      BY <2>1, <2>3 DEF ComputeInv, ReturnsLast, vars
    <3> QED
      BY <3>1, <3>2, <3>5, <3>6 DEF ComputeInv, DoneInv
  <2> QED
    BY <2>1, <2>2, <2>3
<1> QED
  BY <1>1, <1>2, BarrierInvariant, PTL DEF Spec

\* Whatever a thread computes or converts, every earlier node is complete in all
\* its cells, for any number of threads and any graph (ggml_graph_compute_thread).
THEOREM SourcesAreComplete == Spec => []SourcesComplete
<1>1. BarrierInv /\ ComputeInv => SourcesComplete
  <2>1. SUFFICES ASSUME BarrierInv, ComputeInv, NEW t \in Thread, Working(t),
                        NEW n \in 1 .. node_n[t] - 1
                 PROVE  out[n] = AllCells(Graph[n])
    BY DEF SourcesComplete
  <2>2. Place(t)[1] = node_n[t]
    BY <2>1 DEF Working, Place, Here, Released
  <2>3. n \in Node /\ n < node_n[t]
    BY <2>1, NodeFacts DEF BarrierInv, TypeOK, Node
  <2> QED
    BY <2>1, <2>2, <2>3 DEF ComputeInv, DoneInv, EarlierDone
<1> QED
  BY <1>1, BarrierInvariant, ComputeInvariant, PTL

\* When ggml_graph_compute returns and its stack is gone, every other thread has
\* ended and all nodes are computed.
THEOREM SharedStateOutlivesThreads == Spec => []SharedOutlivesThreads
<1>1. BarrierInv /\ ComputeInv => SharedOutlivesThreads
  <2>1. SUFFICES ASSUME BarrierInv, ComputeInv, pc[0] = "returned"
                 PROVE  /\ \A t \in Thread \ {0} : pc[t] = "ended"
                        /\ \A n \in Node : out[n] = AllCells(Graph[n])
    BY DEF SharedOutlivesThreads
  <2>2. \A t \in Thread \ {0} : pc[t] = "ended"
    BY <2>1 DEF ComputeInv, ReturnsLast
  <2>3. ASSUME NEW n \in Node PROVE out[n] = AllCells(Graph[n])
    <3>1. Place(0)[1] = node_n[0]
      BY <2>1 DEF Place, Here, Released
    <3>2. node_n[0] \notin Node /\ node_n[0] \in 1 .. Len(Graph) + 1
      BY <2>1, ThreadFacts DEF BarrierInv, TypeOK, Shape, ShapeOf
    <3>3. n < node_n[0]
      BY <3>2, NodeFacts DEF Node
    <3> QED
      BY <2>1, <3>1, <3>3, ThreadFacts DEF ComputeInv, DoneInv, EarlierDone
  <2> QED
    BY <2>2, <2>3
<1> QED
  BY <1>1, BarrierInvariant, ComputeInvariant, PTL

-----------------------------------------------------------------------------
(* No cell is computed twice.  The chunk in hand is the thread's first or  *)
(* was drawn, so no two threads have the same; and what is computed of the *)
(* product at hand was in chunks that are promised to nobody.              *)

Drawn == \A t \in Thread : pc[t] = "chunk" =>
             \/ chunk[t] = t
             \/ chunk[t] >= NThreads /\ chunk[t] < current_chunk

Apart == \A t, u \in Thread :
             pc[t] = "chunk" /\ pc[u] = "chunk" /\ t # u => chunk[t] # chunk[u]

Fresh(n) == \A cell \in out[n] : \E c \in 0 .. NChunks(Graph[n]) - 1 :
                cell \in ChunkCells(Graph[n], c) /\ c < current_chunk /\ ~Promised(c)

NotYet == \A t \in Thread, n \in Node :
              /\ Place(t)[1] < n \/ Place(t) = <<n, TRUE>> => out[n] = {}
              /\ Place(t) = <<n, FALSE>> /\ IsProduct(n) => Fresh(n)

OnceInv == Drawn /\ Apart /\ NotYet

\* Nothing is computed and no chunk in hand.
LEMMA InitOnce == Init => OnceInv
<1> SUFFICES ASSUME Init PROVE OnceInv
  OBVIOUS
<1>1. /\ \A t \in Thread : pc[t] \in {"create", "unborn"}
      /\ \A n \in Node : out[n] = {}
  BY DEF Init
<1> QED
  BY <1>1 DEF OnceInv, Drawn, Apart, NotYet, Fresh

\* A thread that leaves a barrier with a chunk in hand has its first.
LEMMA LeaveHand ==
    ASSUME BarrierInv, NEW t \in Thread, pc[t] \in AtBarrier, Leave(t),
           pc'[t] = "chunk"
    PROVE  inner[t] /\ chunk'[t] = t
<1>1. inner[t] => chunk'[t] = t
  BY LeaveStep DEF BarrierInv
<1>2. CASE ~inner[t]
  <2>1. node_n[t] + 1 \in 1 .. Len(Graph) + 1
    BY NodeFacts DEF BarrierInv, Shape, ShapeOf, Node
  <2>2. pc'[t] = FirstStep(t, node_n[t] + 1)
    BY <1>2, LeaveStep DEF BarrierInv
  <2> QED
    BY <2>1, <2>2, FirstStepType
<1> QED
  BY <1>1, <1>2

\* The first chunk of a thread is nobody else's.
LEMMA LeaveKeepsApart ==
    ASSUME BarrierInv, Drawn, Apart, NEW t \in Thread, pc[t] \in AtBarrier, Leave(t),
           current_chunk' = current_chunk
    PROVE  Drawn' /\ Apart'
<1>1. \A u \in Thread \ {t} : pc'[u] = pc[u] /\ chunk'[u] = chunk[u]
  <2>1. pc' = [pc EXCEPT ![t] = pc'[t]] /\ \A u \in Thread \ {t} : chunk'[u] = chunk[u]
    BY LeaveStep DEF BarrierInv
  <2> QED
    BY <2>1 DEF BarrierInv, TypeOK
<1>2. pc'[t] = "chunk" => chunk'[t] = t
  BY LeaveHand
<1>3. Drawn'
  BY <1>1, <1>2 DEF Drawn
<1>4. ASSUME NEW u \in Thread \ {t}, pc'[u] = "chunk" PROVE chunk'[u] # t
  BY <1>1, <1>4, ThreadFacts DEF Drawn, Thread
<1>5. Apart'
  BY <1>1, <1>2, <1>4 DEF Apart
<1> QED
  BY <1>3, <1>5

\* Opening the barrier: the node all threads go to is untouched.
LEMMA OpenKeepsOnce ==
    ASSUME BarrierInv, OnceInv, NEW t \in Thread, Opens(t)
    PROVE  OnceInv'
<1>1. /\ pc[t] \in AtBarrier /\ Leave(t)
      /\ out' = out /\ current_chunk' = current_chunk
      /\ \A u \in Thread : Arrived(u) /\ Place(u)' = After(u)
  BY DEF Opens
<1>2. Drawn' /\ Apart'
  BY <1>1, LeaveKeepsApart DEF OnceInv
<1>3. NotYet'
  <2>1. SUFFICES ASSUME NEW u \in Thread, NEW n \in Node,
                        \/ Place(u)'[1] < n
                        \/ Place(u)' = <<n, TRUE>>
                        \/ Place(u)' = <<n, FALSE>> /\ IsProduct(n)
                 PROVE  out[n] = {}
    BY <1>1 DEF NotYet, Fresh
  <2>2. /\ Place(u) = <<node_n[u], inner[u]>> /\ node_n[u] \in Nat
        /\ inner[u] \in BOOLEAN /\ Place(u)' = After(u)
    BY <1>1, NodeFacts DEF Arrived, Place, Here, BarrierInv, TypeOK
  <2>3. n \in Nat
    BY NodeFacts
  <2>4. CASE inner[u]
    <3>1. After(u) = <<node_n[u], FALSE>>
      BY <2>4 DEF After
    <3>2. node_n[u] < n \/ node_n[u] = n
      BY <2>1, <2>2, <2>3, <3>1
    <3>3. Place(u) = <<node_n[u], TRUE>> /\ Place(u)[1] = node_n[u]
      BY <2>2, <2>4
    <3>4. Place(u)[1] < n \/ Place(u) = <<n, TRUE>>
      BY <3>2, <3>3
    <3> QED
      BY <3>4 DEF OnceInv, NotYet
  <2>5. CASE ~inner[u]
    <3> DEFINE m == node_n[u] + 1
               b == IsProduct(m)
    <3>1. After(u) = <<m, b>> /\ After(u)[1] = m
      BY <2>5 DEF After
    <3>2. m \in Nat /\ node_n[u] < m /\ Place(u)[1] = node_n[u]
      BY <2>2
    <3> HIDE DEF m, b
    <3>3. m < n \/ m = n
      <4>1. CASE Place(u)'[1] < n
        BY <2>2, <3>1, <4>1
      <4>2. ASSUME NEW d, After(u) = <<n, d>> PROVE m = n
        BY <3>1, <4>2, SamePair
      <4> QED
        BY <2>1, <2>2, <4>1, <4>2
    <3>4. Place(u)[1] < n
      BY <2>2, <2>3, <3>2, <3>3
    <3> QED
      BY <3>4 DEF OnceInv, NotYet
  <2> QED
    BY <2>2, <2>4, <2>5
<1> QED
  BY <1>2, <1>3 DEF OnceInv

\* When nothing is computed or drawn and no chunk newly promised.
LEMMA NotYetStays ==
    ASSUME NotYet, \A u \in Thread : Place(u)' = Place(u),
           out' = out, current_chunk' = current_chunk,
           \A c \in Nat : Promised(c)' => Promised(c)
    PROVE  NotYet'
<1>1. ASSUME NEW n \in Node, Fresh(n) PROVE Fresh(n)'
  <2>1. SUFFICES ASSUME NEW cell \in out[n]
                 PROVE  \E c \in 0 .. NChunks(Graph[n]) - 1 :
                            /\ cell \in ChunkCells(Graph[n], c)
                            /\ c < current_chunk /\ ~Promised(c)'
    BY DEF Fresh
  <2>2. PICK c \in 0 .. NChunks(Graph[n]) - 1 :
                 cell \in ChunkCells(Graph[n], c) /\ c < current_chunk /\ ~Promised(c)
    BY <1>1 DEF Fresh
  <2>3. c \in Nat
    <3>1. NChunks(Graph[n]) \in Nat
      BY NodeFacts, GridType
    <3> QED
      BY <3>1
  <2> QED
    BY <2>2, <2>3
<1> QED
  BY <1>1 DEF NotYet

\* A released thread that notices takes the chunk it was promised.
LEMMA SpinKeepsOnce ==
    ASSUME BarrierInv, OnceInv, NEW t \in Thread, Spin(t)
    PROVE  OnceInv'
<1>1. /\ pc[t] = "spin" /\ pc[t] \in AtBarrier /\ Leave(t)
      /\ current_chunk' = current_chunk /\ out' = out
  BY DEF Spin, shared, AtBarrier
<1>2. /\ Released(t)
      /\ \A u \in Thread : Place(u)' = Place(u) /\ (Released(u)' => Released(u))
  BY SpinKeeps
<1>3. Drawn' /\ Apart'
  BY <1>1, LeaveKeepsApart DEF OnceInv
<1>4. \A u \in Thread \ {t} : pc'[u] = pc[u] /\ chunk'[u] = chunk[u]
  <2>1. pc' = [pc EXCEPT ![t] = pc'[t]] /\ \A u \in Thread \ {t} : chunk'[u] = chunk[u]
    BY <1>1, LeaveStep DEF BarrierInv
  <2> QED
    BY <2>1 DEF BarrierInv, TypeOK
<1>5. pc'[t] = "chunk" => chunk'[t] = t
  BY <1>1, LeaveHand
<1>6. ASSUME NEW c, Promised(c)' PROVE Promised(c)
  BY <1>2, <1>4, <1>5, <1>6 DEF Promised, InHand
<1>7. NotYet'
  BY <1>1, <1>2, <1>6, NotYetStays DEF OnceInv
<1> QED
  BY <1>3, <1>7 DEF OnceInv

\* Waiting at the barrier computes and draws nothing.
LEMMA WaitKeepsOnce ==
    ASSUME BarrierInv, OnceInv, NEW t \in Thread,
           \/ LoadPassed(t) /\ NThreads # 1
           \/ Count(t)
           \/ Reset(t)
    PROVE  OnceInv'
<1>1. /\ pc' = [pc EXCEPT ![t] = pc'[t]]
      /\ pc[t] \in AtBarrier /\ pc'[t] \in AtBarrier
      /\ chunk' = chunk /\ current_chunk' = current_chunk /\ out' = out
  BY DEF LoadPassed, Count, Reset, Goto, local, shared, AtBarrier, BarrierInv, TypeOK
<1>2. \A u \in Thread : Released(u)' = Released(u) /\ Place(u)' = Place(u)
  BY LoadPassedKeeps, CountKeeps, ResetKeeps
<1>3. \A u \in Thread : pc'[u] = "chunk" => pc[u] = "chunk"
  BY <1>1 DEF BarrierInv, TypeOK, AtBarrier
<1>4. Drawn' /\ Apart'
  BY <1>1, <1>3 DEF OnceInv, Drawn, Apart
<1>5. \A c : Promised(c)' => Promised(c)
  BY <1>1, <1>2, <1>3 DEF Promised, InHand
<1>6. NotYet'
  BY <1>1, <1>2, <1>5, NotYetStays DEF OnceInv
<1> QED
  BY <1>4, <1>6 DEF OnceInv

\* A step outside the barrier: a chunk is computed when it leaves its thread's
\* hand, and a drawn one is new.
LEMMA WorkKeepsOnce ==
    ASSUME BarrierInv, DoneInv, OnceInv, NEW t \in Thread, Work(t)
    PROVE  OnceInv'
<1>1. /\ pc' = [pc EXCEPT ![t] = pc'[t]] /\ node_n' = node_n /\ inner' = inner
      /\ pc[t] \notin AtBarrier
  BY WorkIsQuiet DEF Quiet, BarrierInv, AtBarrier
<1>2. \A u \in Thread \ {t} : pc'[u] = pc[u]
  BY <1>1 DEF BarrierInv, TypeOK
<1>3. \A u \in Thread : Released(u)' = Released(u) /\ Place(u)' = Place(u)
  BY WorkIsQuiet, QuietKeeps DEF BarrierInv
<1>4. Drawn /\ Apart /\ NotYet
  BY DEF OnceInv
<1>5. /\ t \in Nat /\ NThreads \in Nat /\ current_chunk \in Nat
      /\ \A u \in Thread : u \in Nat /\ u < NThreads /\ chunk[u] \in Nat
  <2>1. NThreads \in Nat /\ \A u \in Thread : u \in Nat /\ u < NThreads
    BY ThreadFacts DEF Thread
  <2>2. current_chunk \in Nat /\ \A u \in Thread : chunk[u] \in Nat
    BY DEF BarrierInv, TypeOK
  <2> QED
    BY <2>1, <2>2
<1>6. Place(t) = <<node_n[t], inner[t]>> /\ ~Released(t)
  BY <1>1 DEF Place, Here, Released, AtBarrier
\* A step that computes no cell, and leaves the counter and the chunks alone.
<1>7. ASSUME out' = out, chunk' = chunk, current_chunk' = current_chunk,
             pc'[t] # "chunk"
      PROVE  OnceInv'
  <2>1. Drawn' /\ Apart'
    BY <1>2, <1>4, <1>7 DEF Drawn, Apart
  <2>2. \A c : Promised(c)' => Promised(c)
    BY <1>2, <1>3, <1>7 DEF Promised, InHand
  <2>3. NotYet'
    BY <1>3, <1>4, <1>7, <2>2, NotYetStays
  <2> QED
    BY <2>1, <2>3 DEF OnceInv
<1>8. CASE ConvertRow(t)
  BY <1>7, <1>8 DEF ConvertRow, shared
<1>9. CASE ConvertEnds(t)
  BY <1>7, <1>9 DEF ConvertEnds, Goto, local, shared, BarrierInv, TypeOK
<1>10. CASE t = 0 /\ StoreChunk
  <2>1. /\ pc[t] = "store" /\ pc'[t] = "arrive" /\ current_chunk' = NThreads
        /\ out' = out /\ chunk' = chunk
    BY <1>10 DEF StoreChunk, Goto, local, BarrierInv, TypeOK
  <2>2. ASSUME NEW u \in Thread, NEW n, Place(u) = <<n, FALSE>> PROVE FALSE
    <3>1. inner[t] = TRUE
      BY <2>1 DEF BarrierInv, TypeOK, Shape, ShapeOf
    <3>2. Place(u) = Place(t)
      BY DEF BarrierInv, Together
    <3>3. <<node_n[t], inner[t]>> = <<n, FALSE>>
      BY <1>6, <2>2, <3>2
    <3>4. inner[t] = FALSE
      BY <3>3, SamePair
    <3> QED
      BY <3>1, <3>4
  <2>3. ASSUME NEW u \in Thread, pc[u] = "chunk" PROVE FALSE
    <3>1. ~inner[u] /\ inner[u] \in BOOLEAN
      BY <2>3 DEF BarrierInv, TypeOK, Shape, ShapeOf
    <3>2. Place(u) = <<node_n[u], FALSE>>
      BY <2>3, <3>1 DEF Place, Here, Released
    <3> QED
      BY <2>2, <3>2
  <2>4. Drawn' /\ Apart'
    BY <1>2, <2>1, <2>3 DEF Drawn, Apart
  <2>5. NotYet'
    BY <1>3, <1>4, <2>1, <2>2 DEF NotYet
  <2> QED
    BY <2>4, <2>5 DEF OnceInv
<1>11. CASE ComputeChunk(t)
  <2> DEFINE n == node_n[t]
             mine == ChunkCells(Graph[n], chunk[t])
  <2>1. /\ pc[t] = "chunk" /\ pc'[t] # "chunk"
        /\ out' = [out EXCEPT ![n] = @ \cup mine]
        /\ chunk' = chunk /\ current_chunk' = current_chunk
    BY <1>11 DEF ComputeChunk, Goto, local, shared, BarrierInv, TypeOK
  <2>2. /\ IsProduct(n) /\ ~inner[t] /\ inner[t] \in BOOLEAN /\ n \in Node
        /\ chunk[t] < NChunks(Graph[n])
    BY <2>1 DEF BarrierInv, TypeOK, Shape, ShapeOf, IsProduct
  <2>3. /\ NChunks(Graph[n]) \in Nat
        /\ out'[n] = out[n] \cup mine
        /\ \A m \in Node : m # n => out'[m] = out[m]
    BY <2>1, <2>2, NodeFacts, GridType DEF BarrierInv, TypeOK
  <2>4. Place(t) = <<n, FALSE>>
    BY <1>6, <2>2
  <2>5. \A u \in Thread : Place(u) = <<n, FALSE>>
    BY <2>4 DEF BarrierInv, Together
  <2>6. Drawn' /\ Apart'
    BY <1>2, <1>4, <2>1 DEF Drawn, Apart
  <2>7. \A c : Promised(c)' => Promised(c)
    BY <1>2, <1>3, <2>1 DEF Promised, InHand
  <2>8. ASSUME NEW c, c = chunk[t] PROVE ~Promised(c)'
    <3>1. ASSUME NEW v \in Thread, pc'[v] = "chunk", chunk'[v] = c PROVE FALSE
      BY <1>2, <1>4, <2>1, <2>8, <3>1 DEF Apart
    <3>2. ASSUME c \in Thread, Released(c) PROVE FALSE
      <4>1. c # t
        BY <1>6, <3>2
      <4>2. c >= NThreads
        BY <1>4, <2>1, <2>8, <4>1 DEF Drawn
      <4> QED
        BY <1>5, <3>2, <4>2
    <3> QED
      BY <1>3, <3>1, <3>2 DEF Promised, InHand
  <2>9. chunk[t] \in 0 .. NChunks(Graph[n]) - 1
    <3> HIDE DEF n
    <3> QED
      BY <1>5, <2>2, <2>3
  <2>10. chunk[t] < current_chunk
    <3>1. current_chunk >= NThreads
      BY <2>2, <2>4 DEF DoneInv, Chunks, ChunksOf
    <3> QED
      BY <1>4, <1>5, <2>1, <3>1 DEF Drawn
  <2>11. ASSUME NEW m, m = n PROVE Fresh(m)'
    <3>1. Fresh(m)
      BY <1>4, <2>2, <2>4, <2>11 DEF NotYet
    <3>2. SUFFICES ASSUME NEW cell \in out'[m]
                   PROVE  \E c \in 0 .. NChunks(Graph[m]) - 1 :
                              /\ cell \in ChunkCells(Graph[m], c)
                              /\ c < current_chunk /\ ~Promised(c)'
      BY <2>1 DEF Fresh
    <3>3. CASE cell \in out[m]
      <4>1. PICK c \in 0 .. NChunks(Graph[m]) - 1 :
                 cell \in ChunkCells(Graph[m], c) /\ c < current_chunk /\ ~Promised(c)
        BY <3>1, <3>3 DEF Fresh
      <4> QED
        BY <2>7, <4>1
    <3>4. CASE cell \in mine
      <4> DEFINE c == chunk[t]
      <4>1. /\ c \in 0 .. NChunks(Graph[m]) - 1 /\ cell \in ChunkCells(Graph[m], c)
            /\ c < current_chunk
        BY <2>9, <2>10, <2>11, <3>4
      <4>2. PICK d : d = c
        OBVIOUS
      <4>3. ~Promised(d)'
        BY <2>8, <4>2
      <4> QED
        BY <4>1, <4>2, <4>3
    <3> QED
      BY <2>3, <2>11, <3>2, <3>3, <3>4
  <2>12. NotYet'
    <3>1. SUFFICES ASSUME NEW u \in Thread, NEW m \in Node
                   PROVE  /\ Place(u)[1] < m \/ Place(u) = <<m, TRUE>> => out'[m] = {}
                          /\ Place(u) = <<m, FALSE>> /\ IsProduct(m) => Fresh(m)'
      BY <1>3 DEF NotYet
    <3>2. CASE m = n
      <4>1. Place(u)[1] = n /\ n \in Nat
        <5>1. Place(u) = <<n, FALSE>>
          BY <2>5
        <5>2. n \in Nat
          BY <2>2, NodeFacts
        <5> HIDE DEF n
        <5> QED
          BY <5>1, <5>2
      <4>2. Place(u) # <<m, TRUE>>
        <5>1. SUFFICES ASSUME <<n, FALSE>> = <<m, TRUE>> PROVE FALSE
          BY <2>5
        <5>2. FALSE = TRUE
          BY <5>1, SamePair
        <5> QED
          BY <5>2
      <4>3. ~(Place(u)[1] < m)
        BY <3>2, <4>1
      <4>4. Fresh(m)'
        BY <2>11, <3>2
      <4> QED
        BY <4>2, <4>3, <4>4
    <3>3. CASE m # n
      <4>1. Place(u) # <<m, FALSE>>
        <5>1. SUFFICES ASSUME <<n, FALSE>> = <<m, FALSE>> PROVE FALSE
          BY <2>5
        <5>2. n = m
          BY <5>1, SamePair
        <5> QED
          BY <3>3, <5>2
      <4>2. out'[m] = out[m]
        BY <2>3, <3>3
      <4> QED
        BY <1>4, <4>1, <4>2 DEF NotYet
    <3> QED
      BY <3>2, <3>3
  <2> QED
    BY <2>6, <2>12 DEF OnceInv
<1>12. CASE FetchChunk(t)
  <2> DEFINE n == node_n[t]
  <2>1. /\ pc[t] = "fetch" /\ current_chunk' = current_chunk + 1 /\ out' = out
        /\ chunk'[t] = current_chunk
        /\ \A u \in Thread \ {t} : chunk'[u] = chunk[u]
    BY <1>12 DEF FetchChunk, Goto, BarrierInv, TypeOK
  <2>2. current_chunk >= NThreads
    <3>1. IsProduct(n) /\ ~inner[t] /\ inner[t] \in BOOLEAN /\ n \in Node
      BY <2>1 DEF BarrierInv, TypeOK, Shape, ShapeOf, IsProduct
    <3>2. Place(t) = <<n, FALSE>>
      BY <1>6, <3>1
    <3> QED
      BY <3>1, <3>2 DEF DoneInv, Chunks, ChunksOf
  <2>3. Drawn'
    <3>1. SUFFICES ASSUME NEW u \in Thread, pc'[u] = "chunk"
                   PROVE  \/ chunk'[u] = u
                          \/ chunk'[u] >= NThreads /\ chunk'[u] < current_chunk + 1
      BY <2>1 DEF Drawn
    <3>2. CASE u = t
      BY <1>5, <2>1, <2>2, <3>2
    <3>3. CASE u # t
      BY <1>2, <1>4, <1>5, <2>1, <3>1, <3>3 DEF Drawn
    <3> QED
      BY <3>2, <3>3
  <2>4. \A u \in Thread \ {t} : pc[u] = "chunk" => chunk[u] < current_chunk
    BY <1>4, <1>5, <2>2 DEF Drawn
  <2>5. Apart'
    <3>1. \A u \in Thread \ {t} : pc'[u] = "chunk" => chunk'[u] # chunk'[t]
      BY <1>2, <1>5, <2>1, <2>4
    <3> QED
      BY <1>2, <1>4, <2>1, <3>1 DEF Apart
  <2>6. ASSUME NEW c, c # current_chunk, Promised(c)' PROVE Promised(c)
    BY <1>2, <1>3, <2>1, <2>6 DEF Promised, InHand
  <2>7. ASSUME NEW m \in Node, Fresh(m) PROVE Fresh(m)'
    <3>1. SUFFICES ASSUME NEW cell \in out[m]
                   PROVE  \E c \in 0 .. NChunks(Graph[m]) - 1 :
                              /\ cell \in ChunkCells(Graph[m], c)
                              /\ c < current_chunk + 1 /\ ~Promised(c)'
      BY <2>1 DEF Fresh
    <3>2. PICK c \in 0 .. NChunks(Graph[m]) - 1 :
                 cell \in ChunkCells(Graph[m], c) /\ c < current_chunk /\ ~Promised(c)
      BY <2>7 DEF Fresh
    <3>3. c \in Int
      BY NodeFacts, GridType
    <3>4. c # current_chunk /\ c < current_chunk + 1
      BY <1>5, <3>2, <3>3
    <3> QED
      BY <2>6, <3>2, <3>4
  <2>8. NotYet'
    BY <1>3, <1>4, <2>1, <2>7 DEF NotYet
  <2> QED
    BY <2>3, <2>5, <2>8 DEF OnceInv
<1>13. CASE ComputeRows(t)
  <2> DEFINE n == node_n[t]
  <2>1. /\ pc[t] = "rows" /\ pc'[t] = "arrive"
        /\ out' = [out EXCEPT ![n] = @ \cup RowCells(Graph[n], t)]
        /\ chunk' = chunk /\ current_chunk' = current_chunk
    BY <1>13 DEF ComputeRows, Goto, local, shared, BarrierInv, TypeOK
  <2>2. ~IsProduct(n) /\ ~inner[t] /\ inner[t] \in BOOLEAN /\ n \in Node
    BY <2>1 DEF BarrierInv, TypeOK, Shape, ShapeOf
  <2>3. \A m \in Node : m # n => out'[m] = out[m]
    BY <2>1, <2>2 DEF BarrierInv, TypeOK
  <2>4. Place(t) = <<n, FALSE>>
    BY <1>6, <2>2
  <2>5. \A u \in Thread : Place(u) = <<n, FALSE>>
    BY <2>4 DEF BarrierInv, Together
  <2>6. Drawn' /\ Apart'
    BY <1>2, <1>4, <2>1 DEF Drawn, Apart
  <2>7. NotYet'
    <3>1. SUFFICES ASSUME NEW u \in Thread, NEW m \in Node
                   PROVE  /\ Place(u)[1] < m \/ Place(u) = <<m, TRUE>> => out'[m] = {}
                          /\ Place(u) = <<m, FALSE>> => ~IsProduct(m)
      BY <1>3 DEF NotYet
    <3>2. ASSUME NEW d, <<n, FALSE>> = <<m, d>> PROVE m = n /\ d = FALSE
      BY <3>2, SamePair
    <3>3. Place(u) = <<m, FALSE>> => ~IsProduct(m)
      BY <2>2, <2>5, <3>2
    <3>4. Place(u) # <<m, TRUE>>
      <4>1. SUFFICES ASSUME <<n, FALSE>> = <<m, TRUE>> PROVE FALSE
        BY <2>5
      <4>2. TRUE = FALSE
        BY <3>2, <4>1
      <4> QED
        BY <4>2
    <3>5. Place(u)[1] < m => out'[m] = {}
      <4>1. Place(u)[1] = n /\ n \in Nat
        <5>1. Place(u) = <<n, FALSE>>
          BY <2>5
        <5>2. n \in Nat
          BY <2>2, NodeFacts
        <5> HIDE DEF n
        <5> QED
          BY <5>1, <5>2
      <4>2. Place(u)[1] < m => m # n
        BY <4>1
      <4> QED
        BY <1>4, <2>3, <4>2 DEF NotYet
    <3> QED
      BY <3>3, <3>4, <3>5
  <2> QED
    BY <2>6, <2>7 DEF OnceInv
<1>14. CASE t = 0 /\ Join
  BY <1>7, <1>14 DEF Join, Goto, local, shared, BarrierInv, TypeOK
<1>15. CASE (t = 0 /\ AllCreated) \/ (t # 0 /\ Create(t))
  <2>1. /\ pc'[t] = FirstStep(t, 1)
        /\ chunk' = chunk /\ current_chunk' = current_chunk /\ out' = out
    BY <1>15 DEF AllCreated, Create, Goto, local, shared, BarrierInv, TypeOK
  <2>2. 1 \in 1 .. Len(Graph) + 1
    BY NodeFacts
  <2> QED
    BY <1>7, <2>1, <2>2, FirstStepType
<1> QED
  BY <1>8, <1>9, <1>10, <1>11, <1>12, <1>13, <1>14, <1>15 DEF Work

\* No two threads have the same chunk, and none is computed again: invariant.
LEMMA OnceInvariant == Spec => []OnceInv
<1>1. Init => OnceInv
  BY InitOnce
<1>2. BarrierInv /\ ComputeInv /\ OnceInv /\ [Next]_vars => OnceInv'
  <2>1. SUFFICES ASSUME BarrierInv, DoneInv, OnceInv, [Next]_vars PROVE OnceInv'
    BY DEF ComputeInv
  <2>2. CASE Next
    <3>1. PICK t \in Thread : Step(t)
      BY <2>2 DEF Next
    <3>2. CASE Work(t)
      BY <2>1, <3>2, WorkKeepsOnce
    <3>3. CASE (LoadPassed(t) /\ NThreads # 1) \/ Count(t) \/ Reset(t)
      BY <2>1, <3>3, WaitKeepsOnce
    <3>4. CASE Spin(t)
      BY <2>1, <3>4, SpinKeepsOnce
    <3>5. CASE Release(t) \/ (LoadPassed(t) /\ NThreads = 1)
      BY <2>1, <3>5, StepOpens, OpenKeepsOnce
    <3> QED
      BY <3>1, <3>2, <3>3, <3>4, <3>5 DEF Step, Work
  <2>3. CASE UNCHANGED vars
    <3>1. \A c : Promised(c)' => Promised(c)
      BY <2>3 DEF Promised, InHand, Released, vars, local, shared
    <3>2. \A u \in Thread : Place(u)' = Place(u)
      BY <2>3 DEF Place, Released, Here, After, vars, local, shared
    <3>3. NotYet'
      BY <2>1, <2>3, <3>1, <3>2, NotYetStays DEF OnceInv, vars, shared
    <3>4. Drawn' /\ Apart'
      BY <2>1, <2>3 DEF OnceInv, Drawn, Apart, vars, local, shared
    <3> QED
      BY <3>3, <3>4 DEF OnceInv
  <2> QED
    BY <2>1, <2>2, <2>3
<1> QED
  BY <1>1, <1>2, BarrierInvariant, ComputeInvariant, PTL DEF Spec

\* The chunks in hand are disjoint and what they cover is not computed yet: the
\* cells of a matrix product are each written once, by one thread.
THEOREM NoCellIsWrittenTwice == Spec => []NoCellTwice
<1>1. BarrierInv /\ OnceInv => NoCellTwice
  <2>1. SUFFICES ASSUME BarrierInv, OnceInv, NEW t \in Thread, pc[t] = "chunk"
                 PROVE  LET mine == ChunkCells(Graph[node_n[t]], chunk[t]) IN
                        /\ out[node_n[t]] \cap mine = {}
                        /\ \A u \in Thread \ {t} : pc[u] = "chunk" =>
                            mine \cap ChunkCells(Graph[node_n[u]], chunk[u]) = {}
    BY DEF NoCellTwice
  <2> DEFINE n == node_n[t]
             mine == ChunkCells(Graph[n], chunk[t])
  <2>2. /\ n \in Node /\ Graph[n] \in NodeType /\ IsProduct(n) /\ inner[t] = FALSE
        /\ \A u \in Thread : chunk[u] \in Nat
    BY <2>1, NodeFacts DEF BarrierInv, TypeOK, Shape, ShapeOf, IsProduct
  <2>3. Place(t) = <<n, FALSE>>
    BY <2>1, <2>2 DEF Place, Here, Released
  <2>4. out[n] \cap mine = {}
    <3>1. SUFFICES ASSUME NEW cell \in out[n], cell \in mine PROVE FALSE
      OBVIOUS
    <3>2. PICK c \in 0 .. NChunks(Graph[n]) - 1 :
               cell \in ChunkCells(Graph[n], c) /\ ~Promised(c)
      BY <2>1, <2>2, <2>3 DEF OnceInv, NotYet, Fresh
    <3>3. c \in Nat
      BY <2>2, GridType
    <3>4. c # chunk[t]
      BY <2>1, <3>2 DEF Promised, InHand
    <3> QED
      BY <2>2, <3>1, <3>2, <3>3, <3>4, ChunksDisjoint
  <2>5. ASSUME NEW u \in Thread \ {t}, pc[u] = "chunk"
        PROVE  mine \cap ChunkCells(Graph[node_n[u]], chunk[u]) = {}
    <3>1. node_n[u] = n
      <4>1. Place(u) = Place(t)
        BY <2>1 DEF BarrierInv, Together
      <4>2. Place(u) = <<node_n[u], inner[u]>>
        BY <2>5 DEF Place, Here, Released
      <4>3. <<node_n[u], inner[u]>> = <<n, FALSE>>
        BY <2>3, <4>1, <4>2
      <4> QED
        BY <4>3, SamePair
    <3>2. chunk[u] # chunk[t]
      BY <2>1, <2>5 DEF OnceInv, Apart
    <3> QED
      BY <2>2, <3>1, <3>2, ChunksDisjoint
  <2> QED
    BY <2>4, <2>5
<1> QED
  BY <1>1, BarrierInvariant, OnceInvariant, PTL

-----------------------------------------------------------------------------
(* The work area.  Thread t converts the rows t, t + nth, t + 2 nth, ...;  *)
(* those before i11 are done, and when all threads have arrived all are.   *)

Mine(t, r) == r % NThreads = t

ConvertedBy(t) ==
    pc[t] \in AtBarrier \cup {"store", "convert"} /\ ~Released(t) /\ inner[t]
      /\ Graph[node_n[t]].quantized =>
        \A r \in 0 .. Graph[node_n[t]].nr1 - 1 :
            Mine(t, r) /\ (pc[t] = "convert" => r < i11[t]) => wdata[r] = node_n[t]

Residue == \A t \in Thread : pc[t] = "convert" => Mine(t, i11[t])

Current == \A t \in Thread, n \in Node :
               Place(t) = <<n, FALSE>> /\ IsProduct(n) /\ Graph[n].quantized =>
                   \A r \in 0 .. Graph[n].nr1 - 1 : wdata[r] = n

DataInv == (\A t \in Thread : ConvertedBy(t)) /\ Residue /\ Current

\* The next row of the same thread is nth further.
LEMMA NextMine ==
    ASSUME NEW t \in Thread, NEW i \in Nat, NEW r \in Nat,
           Mine(t, i), Mine(t, r), r < i + NThreads
    PROVE  r <= i
<1> DEFINE p == i \div NThreads
           q == r \div NThreads
<1>1. NThreads \in Nat \ {0} /\ t \in Nat
  BY ThreadFacts
<1>2. /\ p \in Nat /\ i = NThreads * p + (i % NThreads)
      /\ q \in Nat /\ r = NThreads * q + (r % NThreads)
  BY <1>1, DivMod
<1> HIDE DEF p, q
<1>3. i = NThreads * p + t /\ r = NThreads * q + t
  BY <1>2 DEF Mine
<1>4. NThreads * p \in Nat /\ NThreads * q \in Nat
  BY <1>1, <1>2, ProductInNat
<1>5. CASE p < q
  <2>1. NThreads * p + NThreads <= NThreads * q
    BY <1>1, <1>2, <1>5, Multiples
  <2> QED
    BY <1>1, <1>3, <1>4, <2>1
<1>6. CASE q < p
  <2>1. NThreads * q + NThreads <= NThreads * p
    BY <1>1, <1>2, <1>6, Multiples
  <2> QED
    BY <1>1, <1>3, <1>4, <2>1
<1>7. CASE p = q
  BY <1>3, <1>4, <1>7, <1>1
<1> QED
  BY <1>2, <1>5, <1>6, <1>7

\* Every row of the right operand is one thread's, who starts at its own number
\* and meets its rows in steps of NThreads.
LEMMA MineFacts ==
    /\ \A t \in Thread : Mine(t, t)
    /\ \A t \in Thread : \A r \in Nat : r < t => ~Mine(t, r)
    /\ \A t \in Thread : \A i \in Nat : Mine(t, i) => Mine(t, i + NThreads)
    /\ \A r \in Nat : \E t \in Thread : Mine(t, r)
<1>1. /\ NThreads \in Nat \ {0}
      /\ \A t \in Thread : t \in 0 .. NThreads - 1 /\ t \in Nat
  BY ThreadFacts DEF Thread
<1>2. ASSUME NEW r \in 0 .. NThreads - 1 PROVE r % NThreads = r
  <2>1. (NThreads * 0 + r) % NThreads = r
    BY <1>1, DivModUnique
  <2>2. NThreads * 0 + r = r
    BY <1>1
  <2> QED
    BY <2>1, <2>2
<1>3. ASSUME NEW t \in Thread PROVE Mine(t, t)
  BY <1>1, <1>2 DEF Mine
<1>4. ASSUME NEW t \in Thread, NEW r \in Nat, r < t PROVE ~Mine(t, r)
  <2>1. r \in 0 .. NThreads - 1 /\ r # t
    BY <1>1, <1>4
  <2> QED
    BY <1>2, <2>1 DEF Mine
<1>5. ASSUME NEW t \in Thread, NEW i \in Nat, Mine(t, i) PROVE Mine(t, i + NThreads)
  <2> DEFINE p == i \div NThreads
  <2>1. p \in Nat /\ i = NThreads * p + (i % NThreads)
    BY <1>1, DivMod
  <2> HIDE DEF p
  <2>2. i = NThreads * p + t
    BY <1>5, <2>1 DEF Mine
  <2> DEFINE m == p + 1
  <2>3. m \in Nat /\ t \in 0 .. NThreads - 1 /\ NThreads \in Nat \ {0}
    BY <1>1, <2>1
  <2> HIDE DEF m
  <2>4. (NThreads * m + t) % NThreads = t
    BY <2>3, DivModUnique
  <2>5. (NThreads * (p + 1) + t) % NThreads = t
    BY <2>4 DEF m
  <2>6. NThreads * (p + 1) = NThreads * p + NThreads
    BY <1>1, <2>1, SMT
  <2>7. NThreads * p \in Nat
    BY <1>1, <2>1, ProductInNat
  <2>8. NThreads * (p + 1) + t = i + NThreads
    BY <1>1, <2>2, <2>6, <2>7
  <2> QED
    BY <2>5, <2>8 DEF Mine
<1>6. ASSUME NEW r \in Nat PROVE \E t \in Thread : Mine(t, r)
  BY <1>1, DivMod DEF Mine, Thread
<1> QED
  BY <1>3, <1>4, <1>5, <1>6

\* No thread has begun to convert.
LEMMA InitData == Init => DataInv
<1> SUFFICES ASSUME Init PROVE DataInv
  OBVIOUS
<1>1. \A t \in Thread : pc[t] \in {"create", "unborn"} /\ node_n[t] = 1
                        /\ inner[t] = IsProduct(1)
  BY DEF Init
<1>2. (\A t \in Thread : ConvertedBy(t)) /\ Residue
  BY <1>1 DEF ConvertedBy, Residue, AtBarrier
<1>3. Current
  <2>1. SUFFICES ASSUME NEW t \in Thread, NEW n \in Node, IsProduct(n),
                        Place(t) = <<n, FALSE>>
                 PROVE  FALSE
    BY DEF Current
  <2>2. <<1, IsProduct(1)>> = <<n, FALSE>>
    BY <1>1, <2>1 DEF Place, Here, Released
  <2>3. n = 1 /\ IsProduct(1) = FALSE
    BY <2>2, SamePair
  <2> QED
    BY <2>1, <2>3
<1> QED
  BY <1>2, <1>3 DEF DataInv

\* A thread that goes to a converted product starts at its first row.
LEMMA LeaveConverts ==
    ASSUME BarrierInv, NEW t \in Thread, pc[t] \in AtBarrier, Leave(t)
    PROVE  /\ ConvertedBy(t)'
           /\ pc'[t] = "convert" => Mine(t, i11'[t])
<1>1. /\ node_n'[t] = After(t)[1] /\ inner'[t] = After(t)[2]
      /\ inner[t] => /\ pc'[t] = IF t < NChunks(Graph[node_n[t]])
                                 THEN "chunk" ELSE "arrive"
      /\ ~inner[t] => i11'[t] = t /\ pc'[t] = FirstStep(t, node_n[t] + 1)
  BY LeaveStep DEF BarrierInv, TypeOK
<1>2. CASE inner[t]
  BY <1>1, <1>2 DEF After, ConvertedBy
<1>3. CASE ~inner[t]
  <2> DEFINE n == node_n[t] + 1
  <2>1. n \in 1 .. Len(Graph) + 1
    BY NodeFacts DEF BarrierInv, Shape, ShapeOf, Node
  <2>2. node_n'[t] = n /\ inner'[t] = IsProduct(n) /\ pc'[t] = FirstStep(t, n)
        /\ i11'[t] = t
    BY <1>1, <1>3 DEF After
  <2> HIDE DEF n
  <2>3. IsProduct(n) /\ Graph[n].quantized => pc'[t] = "convert"
    BY <2>1, <2>2 DEF FirstStep, IsProduct
  <2>4. ASSUME IsProduct(n) /\ Graph[n].quantized
        PROVE  \A r \in 0 .. Graph[n].nr1 - 1 : ~(Mine(t, r) /\ r < t)
    <3>1. \A r \in 0 .. Graph[n].nr1 - 1 : r \in Nat
      BY <2>4, NodeFacts DEF IsProduct
    <3> QED
      BY <3>1, MineFacts
  <2>5. ConvertedBy(t)'
    BY <2>2, <2>3, <2>4 DEF ConvertedBy
  <2> QED
    BY <2>2, <2>5, MineFacts
<1> QED
  BY <1>2, <1>3

\* What the other threads have converted is not touched.
LEMMA ConvertedStays ==
    ASSUME NEW t \in Thread, NEW u \in Thread, ConvertedBy(u),
           pc'[u] = pc[u], node_n'[u] = node_n[u], inner'[u] = inner[u],
           i11'[u] = i11[u], wdata' = wdata, Released(u)' => Released(u),
           Released(u) => Released(u)'
    PROVE  ConvertedBy(u)'
BY DEF ConvertedBy

\* All rows are converted when all threads have arrived,
LEMMA OpenKeepsData ==
    ASSUME BarrierInv, DataInv, NEW t \in Thread, Opens(t), wdata' = wdata
    PROVE  DataInv'
<1>1. /\ pc[t] \in AtBarrier /\ Leave(t)
      /\ \A u \in Thread : Arrived(u) /\ Place(u)' = After(u)
      /\ \A u \in Thread \ {t} : Released(u)'
  BY DEF Opens
<1>2. ConvertedBy(t)' /\ (pc'[t] = "convert" => Mine(t, i11'[t]))
  BY <1>1, LeaveConverts
<1>3. \A u \in Thread \ {t} : ConvertedBy(u)' /\ pc'[u] # "convert"
  BY <1>1 DEF ConvertedBy, Released
<1>4. Current'
  <2>1. SUFFICES ASSUME NEW u \in Thread, NEW n \in Node, IsProduct(n),
                        Place(u)' = <<n, FALSE>>, Graph[n].quantized,
                        NEW r \in 0 .. Graph[n].nr1 - 1
                 PROVE  wdata[r] = n
    BY DEF Current
  <2>2. inner[u] = TRUE /\ node_n[u] = n
    <3>1. After(u) = <<n, FALSE>>
      BY <1>1, <2>1
    <3>2. CASE inner[u]
      <4>1. inner[u] = TRUE
        BY <3>2 DEF BarrierInv, TypeOK
      <4> QED
        BY <3>1, <4>1 DEF After
    <3>3. CASE ~inner[u]
      <4>1. <<node_n[u] + 1, IsProduct(node_n[u] + 1)>> = <<n, FALSE>>
        BY <3>1, <3>3 DEF After
      <4>2. node_n[u] + 1 = n /\ IsProduct(node_n[u] + 1) = FALSE
        BY <4>1, SamePair
      <4> QED
        BY <2>1, <4>2
    <3> QED
      BY <3>2, <3>3
  <2>3. ASSUME NEW v \in Thread PROVE inner[v] /\ node_n[v] = n
    <3>1. Place(v) = Place(u)
      BY DEF BarrierInv, Together
    <3>2. Place(v) = <<node_n[v], inner[v]>> /\ Place(u) = <<n, TRUE>>
      BY <1>1, <2>2 DEF Arrived, Place, Here
    <3>3. <<node_n[v], inner[v]>> = <<n, TRUE>>
      BY <3>1, <3>2
    <3>4. node_n[v] = n /\ inner[v] = TRUE
      BY <3>3, SamePair
    <3> QED
      BY <3>4
  <2>4. r \in Nat
    BY <2>1, NodeFacts
  <2>5. PICK v \in Thread : Mine(v, r)
    BY <2>4, MineFacts
  <2>6. pc[v] # "convert" /\ ~Released(v) /\ pc[v] \in AtBarrier
    BY <1>1 DEF Arrived, AtBarrier
  <2> QED
    BY <2>1, <2>3, <2>5, <2>6 DEF DataInv, ConvertedBy
<1>5. Residue'
  BY <1>2, <1>3 DEF Residue
<1> QED
  BY <1>2, <1>3, <1>4, <1>5 DEF DataInv

\* and stay so while no thread writes to the work area.
LEMMA CurrentStays ==
    ASSUME Current, wdata' = wdata, \A u \in Thread : Place(u)' = Place(u)
    PROVE  Current'
BY DEF Current

\* A released thread that notices starts at its first row.
LEMMA SpinKeepsData ==
    ASSUME BarrierInv, DataInv, NEW t \in Thread, Spin(t)
    PROVE  DataInv'
<1>1. /\ pc[t] = "spin" /\ pc[t] \in AtBarrier /\ Leave(t) /\ wdata' = wdata
  BY DEF Spin, AtBarrier
<1>2. /\ \A u \in Thread \ {t} : Released(u)' = Released(u)
      /\ \A u \in Thread : Place(u)' = Place(u)
  BY SpinKeeps
<1>3. \A u \in Thread \ {t} : /\ pc'[u] = pc[u] /\ node_n'[u] = node_n[u]
                              /\ inner'[u] = inner[u] /\ i11'[u] = i11[u]
  <2>1. /\ pc' = [pc EXCEPT ![t] = pc'[t]]
        /\ node_n' = [node_n EXCEPT ![t] = After(t)[1]]
        /\ inner' = [inner EXCEPT ![t] = After(t)[2]]
        /\ \A u \in Thread \ {t} : i11'[u] = i11[u]
    BY <1>1, LeaveStep DEF BarrierInv
  <2> QED
    BY <2>1 DEF BarrierInv, TypeOK
<1>4. ConvertedBy(t)' /\ (pc'[t] = "convert" => Mine(t, i11'[t]))
  BY <1>1, LeaveConverts
<1>5. \A u \in Thread \ {t} : ConvertedBy(u)'
  BY <1>1, <1>2, <1>3, ConvertedStays DEF DataInv
<1>6. Residue'
  BY <1>3, <1>4 DEF DataInv, Residue
<1>7. Current'
  BY <1>1, <1>2, CurrentStays DEF DataInv
<1> QED
  BY <1>4, <1>5, <1>6, <1>7 DEF DataInv

\* Waiting at the barrier leaves the work area alone.
LEMMA WaitKeepsData ==
    ASSUME BarrierInv, DataInv, NEW t \in Thread,
           \/ LoadPassed(t) /\ NThreads # 1
           \/ Count(t)
           \/ Reset(t)
    PROVE  DataInv'
<1>1. /\ pc' = [pc EXCEPT ![t] = pc'[t]]
      /\ pc[t] \in AtBarrier /\ pc'[t] \in AtBarrier
      /\ node_n' = node_n /\ inner' = inner /\ i11' = i11 /\ wdata' = wdata
  BY DEF LoadPassed, Count, Reset, Goto, local, shared, AtBarrier, BarrierInv, TypeOK
<1>2. \A u \in Thread : Released(u)' = Released(u) /\ Place(u)' = Place(u)
  BY LoadPassedKeeps, CountKeeps, ResetKeeps
<1>3. /\ \A u \in Thread \ {t} : pc'[u] = pc[u]
      /\ pc[t] # "convert" /\ pc'[t] # "convert"
  BY <1>1 DEF BarrierInv, TypeOK, AtBarrier
<1>4. \A u \in Thread \ {t} : ConvertedBy(u)'
  BY <1>1, <1>2, <1>3, ConvertedStays DEF DataInv
<1>5. ConvertedBy(t)'
  BY <1>1, <1>2, <1>3 DEF DataInv, ConvertedBy
<1>6. Residue'
  BY <1>1, <1>3 DEF DataInv, Residue
<1>7. Current'
  BY <1>1, <1>2, CurrentStays DEF DataInv
<1> QED
  BY <1>4, <1>5, <1>6, <1>7 DEF DataInv

\* A step outside the barrier: a row is converted while all threads are before
\* the barrier inside the same product.
LEMMA WorkKeepsData ==
    ASSUME BarrierInv, DataInv, NEW t \in Thread, Work(t)
    PROVE  DataInv'
<1>1. /\ pc' = [pc EXCEPT ![t] = pc'[t]] /\ pc[t] \notin AtBarrier
      /\ pc'[t] \in Label \ {"count", "reset", "release", "spin"}
      /\ node_n' = node_n /\ inner' = inner
  BY WorkIsQuiet DEF Quiet, BarrierInv, AtBarrier
<1>2. \A u \in Thread \ {t} : pc'[u] = pc[u]
  BY <1>1 DEF BarrierInv, TypeOK
<1>3. \A u \in Thread : Released(u)' = Released(u) /\ Place(u)' = Place(u)
  BY WorkIsQuiet, QuietKeeps DEF BarrierInv
<1>4. (\A u \in Thread : ConvertedBy(u)) /\ Residue /\ Current
  BY DEF DataInv
\* A step that converts no row.
<1>5. ASSUME wdata' = wdata, i11' = i11, ConvertedBy(t)',
             pc'[t] = "convert" => Mine(t, i11[t])
      PROVE  DataInv'
  <2>1. \A u \in Thread \ {t} : ConvertedBy(u)'
    BY <1>1, <1>2, <1>3, <1>4, <1>5, ConvertedStays
  <2>2. Residue'
    BY <1>2, <1>4, <1>5 DEF Residue
  <2>3. Current'
    BY <1>3, <1>4, <1>5, CurrentStays
  <2> QED
    BY <1>5, <2>1, <2>2, <2>3 DEF DataInv
<1>6. CASE ConvertRow(t)
  <2> DEFINE n == node_n[t]
  <2>1. /\ pc[t] = "convert" /\ i11[t] < Graph[n].nr1 /\ pc' = pc
        /\ wdata' = [wdata EXCEPT ![i11[t]] = n]
        /\ i11' = [i11 EXCEPT ![t] = i11[t] + NThreads]
    BY <1>6 DEF ConvertRow
  <2>2. /\ inner[t] = TRUE /\ n \in Node /\ i11[t] \in Nat /\ Mine(t, i11[t])
        /\ Graph[n].quantized /\ ~Released(t)
    BY <1>4, <2>1 DEF BarrierInv, TypeOK, Shape, ShapeOf, IsProduct, Residue, Released
  <2>3. /\ i11'[t] = i11[t] + NThreads
        /\ \A u \in Thread \ {t} : i11'[u] = i11[u]
    BY <2>1 DEF BarrierInv, TypeOK
  <2>4. /\ wdata'[i11[t]] = n
        /\ \A r \in WorkRow : r # i11[t] => wdata'[r] = wdata[r]
    <3>1. i11[t] \in 0 .. Graph[n].nr1 - 1
      <4>1. Graph[n].nr1 \in Nat
        BY <2>2, NodeFacts
      <4> QED
        BY <2>1, <2>2, <4>1
    <3>2. i11[t] \in WorkRow
      BY <2>2, <3>1, NodeFacts
    <3> QED
      BY <2>1, <3>2 DEF BarrierInv, TypeOK
  <2>5. Place(t) = <<n, TRUE>>
    BY <2>2 DEF Place, Here
  <2>6. ASSUME NEW u \in Thread PROVE Place(u) = <<n, TRUE>>
    BY <2>5 DEF BarrierInv, Together
  <2>7. ASSUME NEW u \in Thread \ {t} PROVE ConvertedBy(u)'
    <3>1. SUFFICES ASSUME ~Released(u), inner[u], Graph[node_n[u]].quantized,
                          pc[u] \in AtBarrier \cup {"store", "convert"},
                          NEW r \in 0 .. Graph[node_n[u]].nr1 - 1,
                          Mine(u, r), pc[u] = "convert" => r < i11[u]
                   PROVE  wdata'[r] = node_n[u]
      BY <1>1, <1>3, <2>1, <2>3 DEF ConvertedBy
    <3>2. wdata[r] = node_n[u]
      BY <1>4, <3>1 DEF ConvertedBy
    <3>3. node_n[u] = n
      <4>1. <<node_n[u], inner[u]>> = <<n, TRUE>>
        BY <2>6, <3>1 DEF Place, Here
      <4> QED
        BY <4>1, SamePair
    <3>4. r \in WorkRow
      BY <2>2, <3>3, NodeFacts
    <3> QED
      BY <2>4, <3>2, <3>3, <3>4
  <2>8. ConvertedBy(t)'
    <3>1. SUFFICES ASSUME NEW r \in 0 .. Graph[n].nr1 - 1, Mine(t, r),
                          r < i11[t] + NThreads
                   PROVE  wdata'[r] = n
      BY <1>1, <2>1, <2>3 DEF ConvertedBy
    <3>2. r \in Nat /\ r \in WorkRow
      BY <2>2, NodeFacts
    <3>3. r <= i11[t]
      BY <2>2, <3>1, <3>2, NextMine
    <3>4. CASE r = i11[t]
      BY <2>4, <3>4
    <3>5. CASE r # i11[t]
      <4>1. r < i11[t]
        BY <2>2, <3>2, <3>3, <3>5
      <4>2. wdata[r] = n
        BY <1>4, <2>1, <2>2, <3>1, <4>1 DEF ConvertedBy
      <4> QED
        BY <2>4, <3>2, <3>5, <4>2
    <3> QED
      BY <3>4, <3>5
  <2>9. Residue'
    <3>1. Mine(t, i11[t] + NThreads)
      BY <2>2, MineFacts
    <3> QED
      BY <1>4, <2>1, <2>3, <3>1 DEF Residue
  <2>10. Current'
    <3>1. SUFFICES ASSUME NEW u \in Thread, NEW m \in Node, Place(u)' = <<m, FALSE>>
                   PROVE  FALSE
      BY DEF Current
    <3>2. <<n, TRUE>> = <<m, FALSE>>
      BY <1>3, <2>6, <3>1
    <3>3. TRUE = FALSE
      BY <3>2, SamePair
    <3> QED
      BY <3>3
  <2> QED
    BY <2>7, <2>8, <2>9, <2>10 DEF DataInv
<1>7. CASE ConvertEnds(t)
  <2>1. /\ pc[t] = "convert" /\ i11[t] >= Graph[node_n[t]].nr1
        /\ pc'[t] # "convert" /\ i11' = i11 /\ wdata' = wdata
    BY <1>7 DEF ConvertEnds, Goto, local, BarrierInv, TypeOK
  <2>2. node_n[t] \in Node /\ i11[t] \in Nat
    BY <2>1 DEF BarrierInv, TypeOK, Shape, ShapeOf, IsProduct
  <2>3. \A r \in 0 .. Graph[node_n[t]].nr1 - 1 : r < i11[t]
    <3>1. Graph[node_n[t]].nr1 \in Nat
      BY <2>2, NodeFacts
    <3> QED
      BY <2>1, <2>2, <3>1
  <2>4. ConvertedBy(t)'
    BY <1>1, <1>3, <1>4, <2>1, <2>3 DEF ConvertedBy
  <2> QED
    BY <1>5, <2>1, <2>4
<1>8. CASE t = 0 /\ StoreChunk
  <2>1. /\ pc[t] = "store" /\ pc'[t] # "convert" /\ i11' = i11 /\ wdata' = wdata
    BY <1>8 DEF StoreChunk, Goto, local, BarrierInv, TypeOK
  <2>2. ConvertedBy(t)'
    BY <1>1, <1>3, <1>4, <2>1 DEF ConvertedBy
  <2> QED
    BY <1>5, <2>1, <2>2
\* A thread that is past the barrier inside the product.
<1>9. CASE ComputeChunk(t) \/ FetchChunk(t) \/ ComputeRows(t)
  <2>1. /\ pc[t] \in {"chunk", "fetch", "rows"} /\ pc'[t] # "convert"
        /\ i11' = i11 /\ wdata' = wdata
    BY <1>9 DEF ComputeChunk, FetchChunk, ComputeRows, Goto, local, BarrierInv, TypeOK
  <2>2. ~inner[t]
    BY <2>1 DEF BarrierInv, Shape, ShapeOf
  <2>3. ConvertedBy(t)'
    BY <1>1, <2>2 DEF ConvertedBy
  <2> QED
    BY <1>5, <2>1, <2>3
<1>10. CASE t = 0 /\ Join
  <2>1. pc'[t] = "returned" /\ i11' = i11 /\ wdata' = wdata
    BY <1>10 DEF Join, Goto, local, BarrierInv, TypeOK
  <2>2. ConvertedBy(t)'
    BY <2>1 DEF ConvertedBy, AtBarrier
  <2> QED
    BY <1>5, <2>1, <2>2
<1>11. CASE (t = 0 /\ AllCreated) \/ (t # 0 /\ Create(t))
  <2>1. /\ pc[t] \in {"create", "unborn"} /\ pc'[t] = FirstStep(t, 1)
        /\ i11' = i11 /\ wdata' = wdata
    BY <1>11 DEF AllCreated, Create, Goto, local, BarrierInv, TypeOK
  <2>2. node_n[t] = 1 /\ inner[t] = IsProduct(1) /\ i11[t] = t
    BY <2>1 DEF BarrierInv, Shape, ShapeOf
  <2>3. IsProduct(1) /\ Graph[1].quantized => pc'[t] = "convert"
    BY <2>1 DEF FirstStep, IsProduct
  <2>4. ASSUME IsProduct(1) PROVE \A r \in 0 .. Graph[1].nr1 - 1 : ~(Mine(t, r) /\ r < t)
    <3>1. \A r \in 0 .. Graph[1].nr1 - 1 : r \in Nat
      BY <2>4, NodeFacts DEF IsProduct
    <3> QED
      BY <3>1, MineFacts
  <2>5. ConvertedBy(t)'
    BY <1>1, <2>1, <2>2, <2>3, <2>4 DEF ConvertedBy
  <2>6. Mine(t, i11[t])
    BY <2>2, MineFacts
  <2> QED
    BY <1>5, <2>1, <2>5, <2>6
<1> QED
  BY <1>6, <1>7, <1>8, <1>9, <1>10, <1>11 DEF Work

\* Which rows of the work area are converted when is invariant.
LEMMA DataInvariant == Spec => []DataInv
<1>1. Init => DataInv
  BY InitData
<1>2. BarrierInv /\ DataInv /\ [Next]_vars => DataInv'
  <2>1. SUFFICES ASSUME BarrierInv, DataInv, [Next]_vars PROVE DataInv'
    OBVIOUS
  <2>2. CASE Next
    <3>1. PICK t \in Thread : Step(t)
      BY <2>2 DEF Next
    <3>2. CASE Work(t)
      BY <2>1, <3>2, WorkKeepsData
    <3>3. CASE (LoadPassed(t) /\ NThreads # 1) \/ Count(t) \/ Reset(t)
      BY <2>1, <3>3, WaitKeepsData
    <3>4. CASE Spin(t)
      BY <2>1, <3>4, SpinKeepsData
    <3>5. CASE Release(t) \/ (LoadPassed(t) /\ NThreads = 1)
      <4>1. wdata' = wdata
        BY <3>5 DEF Release, LoadPassed
      <4> QED
        BY <2>1, <3>5, <4>1, StepOpens, OpenKeepsData
    <3> QED
      BY <3>1, <3>2, <3>3, <3>4, <3>5 DEF Step, Work
  <2>3. CASE UNCHANGED vars
    <3>1. \A u \in Thread : Place(u)' = Place(u)
      BY <2>3 DEF Place, Released, Here, After, vars, local, shared
    <3>2. Current'
      BY <2>1, <2>3, <3>1, CurrentStays DEF DataInv, vars
    <3>3. Residue'
      BY <2>1, <2>3 DEF DataInv, Residue, vars, local
    <3>4. \A u \in Thread : ConvertedBy(u)'
      BY <2>1, <2>3 DEF DataInv, ConvertedBy, Released, vars, local, shared
    <3> QED
      BY <3>2, <3>3, <3>4 DEF DataInv
  <2> QED
    BY <2>1, <2>2, <2>3
<1> QED
  BY <1>1, <1>2, BarrierInvariant, PTL DEF Spec

\* A thread that computes a chunk finds all rows of the converted operand, for
\* this product, in the work area (the barrier inside ggml_compute_forward_mul_mat).
THEOREM WorkDataStaysCurrent == Spec => []WorkDataIsCurrent
<1>1. BarrierInv /\ DataInv => WorkDataIsCurrent
  <2>1. SUFFICES ASSUME BarrierInv, DataInv, NEW t \in Thread, pc[t] = "chunk",
                        Graph[node_n[t]].quantized
                 PROVE  \A r \in 0 .. Graph[node_n[t]].nr1 - 1 : wdata[r] = node_n[t]
    BY DEF WorkDataIsCurrent
  <2>2. /\ IsProduct(node_n[t]) /\ node_n[t] \in Node /\ inner[t] = FALSE
    BY <2>1 DEF BarrierInv, TypeOK, Shape, ShapeOf, IsProduct
  <2>3. Place(t) = <<node_n[t], FALSE>>
    BY <2>1, <2>2 DEF Place, Here, Released
  <2> QED
    BY <2>1, <2>2, <2>3 DEF DataInv, Current
<1> QED
  BY <1>1, BarrierInvariant, DataInvariant, PTL
=============================================================================
