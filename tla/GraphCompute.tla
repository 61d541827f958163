---------------------------- MODULE GraphCompute ----------------------------
(***************************************************************************)
(* How ggml computes the graph of a forward pass (ggml/src/ggml.c as built *)
(* by qfz3-engine: threads of its own, no OpenMP).                         *)
(*                                                                         *)
(* Every thread walks the nodes in order and does its share of each; a     *)
(* barrier after every node keeps them in step.  A matrix product has a    *)
(* second barrier inside: its threads first convert the rows of the right  *)
(* operand into one work area, which all products of the graph share, and  *)
(* then draw the chunks of the output from one counter.  The threads share *)
(* a structure on the stack of the thread that called.                     *)
(*                                                                         *)
(* The engine runs two threads and sets no abort callback, so the status   *)
(* the threads look at after each barrier never changes.                   *)
(***************************************************************************)
EXTENDS Naturals, Sequences, FiniteSets

CONSTANTS
    NThreads,       \* n_threads
    Graph,          \* cgraph->nodes: see NodeType
    ChunkSize,      \* 16: the side of a chunk of a matrix product
    VecChunkSize    \* 64: the same when an operand is a vector

\* op: a matrix product or a row-wise operation; quantized: whether the right
\* operand has to be converted; nr0, nr1: the size of the output.
NodeType == [op : {"mul_mat", "rows"}, quantized : BOOLEAN,
             nr0 : Nat \ {0}, nr1 : Nat \ {0}]

ASSUME GraphComputeAssumption ==
    /\ NThreads \in Nat \ {0}
    /\ Graph \in Seq(NodeType)
    /\ ChunkSize \in Nat \ {0}
    /\ VecChunkSize \in Nat \ {0}

VARIABLES
    pc,                 \* what each thread is about to do
    node_n,             \* the node each thread is at
    inner,              \* whether the barrier it goes to is the one inside a product
    passed_old,         \* its copy of n_barrier_passed
    i11,                \* the row of the right operand it converts next
    chunk,              \* the chunk it computes
    n_barrier,          \* shared: threads that have arrived
    n_barrier_passed,   \* shared: barriers completed
    current_chunk,      \* shared: the next chunk to draw
    wdata,              \* the work area: the node each row was converted for
    out                 \* the cells of each node's output that are computed

local == <<node_n, inner, passed_old, i11, chunk>>
shared == <<n_barrier, n_barrier_passed, current_chunk>>
vars == <<pc, local, shared, wdata, out>>

Thread == 0 .. NThreads - 1
Node == 1 .. Len(Graph)
Label == {"create", "unborn", "convert", "store", "arrive", "count", "reset",
          "release", "spin", "chunk", "fetch", "rows", "join", "ended",
          "returned"}

-----------------------------------------------------------------------------
\* The division of the work.

CeilDiv(a, b) == (a + b - 1) \div b

\* A plausible bug: the last, partial stripe is rounded away.
StripeRoundedDown(nr, parts, part) ==
    LET dr == nr \div parts IN dr * part .. dr * part + dr - 1

\* Part number "part" of nr rows (or columns) divided into parts.
Stripe(nr, parts, part) ==
    LET dr == CeilDiv(nr, parts)
        last == dr * part + dr
    IN  dr * part .. (IF last < nr THEN last ELSE nr) - 1

\* The number of chunks along each side; with fewer than four a thread the
\* plan is scrapped and each thread gets one stripe of the longer side.
ChunkGrid(node) ==
    LET size == IF node.nr0 = 1 \/ node.nr1 = 1 THEN VecChunkSize ELSE ChunkSize
        n0 == CeilDiv(node.nr0, size)
        n1 == CeilDiv(node.nr1, size)
    IN  IF n0 * n1 >= NThreads * 4 THEN <<n0, n1>>
        ELSE IF node.nr0 > node.nr1 THEN <<NThreads, 1>>
        ELSE <<1, NThreads>>

NChunks(node) == ChunkGrid(node)[1] * ChunkGrid(node)[2]

\* The cells of a chunk.
ChunkCells(node, c) ==
    LET grid == ChunkGrid(node)
    IN  Stripe(node.nr0, grid[1], c % grid[1])
            \X Stripe(node.nr1, grid[2], c \div grid[1])

AllCells(node) == (0 .. node.nr0 - 1) \X (0 .. node.nr1 - 1)

\* The share of thread t in a row-wise operation.
RowCells(node, t) == (0 .. node.nr0 - 1) \X Stripe(node.nr1, NThreads, t)

\* ggml_compute_forward: how thread t starts on node n; past the last node
\* the caller joins the others.
FirstStep(t, n) ==
    IF n \notin Node THEN (IF t = 0 THEN "join" ELSE "ended")
    ELSE IF Graph[n].op = "rows" THEN "rows"
    ELSE IF Graph[n].quantized THEN "convert"
    ELSE IF t = 0 THEN "store" ELSE "arrive"

IsProduct(n) == n \in Node /\ Graph[n].op = "mul_mat"

\* The rows of the work area: as many as the largest operand needs.
WorkRow == UNION {0 .. Graph[n].nr1 - 1 : n \in Node}

\* ggml_graph_compute: zeroed counters, no thread created yet.
Init ==
    /\ pc = [t \in Thread |-> IF t = 0 THEN "create" ELSE "unborn"]
    /\ node_n = [t \in Thread |-> 1]
    /\ inner = [t \in Thread |-> IsProduct(1)]
    /\ passed_old = [t \in Thread |-> 0]
    /\ i11 = [t \in Thread |-> t]
    /\ chunk = [t \in Thread |-> t]
    /\ n_barrier = 0
    /\ n_barrier_passed = 0
    /\ current_chunk = 0
    /\ wdata = [r \in WorkRow |-> 0]
    /\ out = [n \in Node |-> {}]

Goto(t, label) == pc' = [pc EXCEPT ![t] = label]

-----------------------------------------------------------------------------
\* ggml_graph_compute, on the calling thread, which is thread 0.

Create(t) ==
    /\ pc[0] = "create"
    /\ pc[t] = "unborn"
    /\ \A u \in 1 .. t - 1 : pc[u] # "unborn"
    /\ Goto(t, FirstStep(t, 1))
    /\ UNCHANGED <<local, shared, wdata, out>>

AllCreated ==
    /\ pc[0] = "create"
    /\ \A t \in Thread : pc[t] # "unborn"
    /\ Goto(0, FirstStep(0, 1))
    /\ UNCHANGED <<local, shared, wdata, out>>

\* A plausible bug: the caller does not wait for the others.
JoinNobody ==
    /\ pc[0] = "join"
    /\ Goto(0, "returned")
    /\ UNCHANGED <<local, shared, wdata, out>>

Join ==
    /\ pc[0] = "join"
    /\ \A t \in Thread \ {0} : pc[t] = "ended"
    /\ Goto(0, "returned")
    /\ UNCHANGED <<local, shared, wdata, out>>

-----------------------------------------------------------------------------
\* ggml_barrier: one atomic access a step.

Count(t) ==
    /\ pc[t] = "count"
    /\ n_barrier' = n_barrier + 1
    /\ Goto(t, IF n_barrier = NThreads - 1 THEN "reset" ELSE "spin")
    /\ UNCHANGED <<local, n_barrier_passed, current_chunk, wdata, out>>

\* A plausible bug: the barrier is not made ready for the next time.
ResetForgotten(t) ==
    /\ pc[t] = "reset"
    /\ Goto(t, "release")
    /\ UNCHANGED <<local, shared, wdata, out>>

Reset(t) ==
    /\ pc[t] = "reset"
    /\ n_barrier' = 0
    /\ Goto(t, "release")
    /\ UNCHANGED <<local, n_barrier_passed, current_chunk, wdata, out>>

\* What follows a barrier: the thread's first chunk, or the next node.
Leave(t) ==
    IF inner[t]
    THEN /\ inner' = [inner EXCEPT ![t] = FALSE]
         /\ chunk' = [chunk EXCEPT ![t] = t]
         /\ Goto(t, IF t < NChunks(Graph[node_n[t]]) THEN "chunk" ELSE "arrive")
         /\ UNCHANGED <<node_n, passed_old, i11>>
    ELSE /\ node_n' = [node_n EXCEPT ![t] = @ + 1]
         /\ inner' = [inner EXCEPT ![t] = IsProduct(node_n'[t])]
         /\ i11' = [i11 EXCEPT ![t] = t]
         /\ Goto(t, FirstStep(t, node_n'[t]))
         /\ UNCHANGED <<passed_old, chunk>>

Release(t) ==
    /\ pc[t] = "release"
    /\ n_barrier_passed' = n_barrier_passed + 1
    /\ Leave(t)
    /\ UNCHANGED <<n_barrier, current_chunk, wdata, out>>

\* A plausible bug: waiting for the counter to be zero again.
SpinOnCounter(t) ==
    /\ pc[t] = "spin"
    /\ n_barrier = 0
    /\ Leave(t)
    /\ UNCHANGED <<shared, wdata, out>>

Spin(t) ==
    /\ pc[t] = "spin"
    /\ n_barrier_passed # passed_old[t]
    /\ Leave(t)
    /\ UNCHANGED <<shared, wdata, out>>

\* The barrier is entered; with one thread it returns at once.
LoadPassed(t) ==
    /\ pc[t] = "arrive"
    /\ IF NThreads = 1
       THEN Leave(t)
       ELSE /\ passed_old' = [passed_old EXCEPT ![t] = n_barrier_passed]
            /\ Goto(t, "count")
            /\ UNCHANGED <<node_n, inner, i11, chunk>>
    /\ UNCHANGED <<shared, wdata, out>>

-----------------------------------------------------------------------------
\* ggml_compute_forward_mul_mat and the row-wise operations.

\* Rows t, t + nth, t + 2 nth, ... of the right operand.
ConvertRow(t) ==
    /\ pc[t] = "convert"
    /\ i11[t] < Graph[node_n[t]].nr1
    /\ wdata' = [wdata EXCEPT ![i11[t]] = node_n[t]]
    /\ i11' = [i11 EXCEPT ![t] = @ + NThreads]
    /\ UNCHANGED <<pc, node_n, inner, passed_old, chunk, shared, out>>

\* A plausible bug: no barrier between the conversion and the chunks for the
\* threads other than 0.
ConvertEndsUnfenced(t) ==
    /\ pc[t] = "convert"
    /\ i11[t] >= Graph[node_n[t]].nr1
    /\ IF t = 0 THEN Goto(t, "store") /\ UNCHANGED local ELSE Leave(t)
    /\ UNCHANGED <<shared, wdata, out>>

ConvertEnds(t) ==
    /\ pc[t] = "convert"
    /\ i11[t] >= Graph[node_n[t]].nr1
    /\ Goto(t, IF t = 0 THEN "store" ELSE "arrive")
    /\ UNCHANGED <<local, shared, wdata, out>>

\* A plausible bug: the counter starts at the first chunk, which thread 0 has.
StoreZero ==
    /\ pc[0] = "store"
    /\ current_chunk' = 0
    /\ Goto(0, "arrive")
    /\ UNCHANGED <<local, n_barrier, n_barrier_passed, wdata, out>>

\* Every thread starts at the chunk of its own number, so the first one to
\* draw is nth.
StoreChunk ==
    /\ pc[0] = "store"
    /\ current_chunk' = NThreads
    /\ Goto(0, "arrive")
    /\ UNCHANGED <<local, n_barrier, n_barrier_passed, wdata, out>>

\* A chunk is computed; another is drawn unless each thread had one.
ComputeChunk(t) ==
    /\ pc[t] = "chunk"
    /\ LET n == node_n[t] IN
        /\ out' = [out EXCEPT ![n] = @ \cup ChunkCells(Graph[n], chunk[t])]
        /\ Goto(t, IF NThreads >= NChunks(Graph[n]) THEN "arrive" ELSE "fetch")
    /\ UNCHANGED <<local, shared, wdata>>

FetchChunk(t) ==
    /\ pc[t] = "fetch"
    /\ chunk' = [chunk EXCEPT ![t] = current_chunk]
    /\ current_chunk' = current_chunk + 1
    /\ Goto(t, IF current_chunk < NChunks(Graph[node_n[t]]) THEN "chunk"
               ELSE "arrive")
    /\ UNCHANGED <<node_n, inner, passed_old, i11, n_barrier,
                   n_barrier_passed, wdata, out>>

ComputeRows(t) ==
    /\ pc[t] = "rows"
    /\ LET n == node_n[t] IN
        out' = [out EXCEPT ![n] = @ \cup RowCells(Graph[n], t)]
    /\ Goto(t, "arrive")
    /\ UNCHANGED <<local, shared, wdata>>

Step(t) ==
    \/ LoadPassed(t) \/ Count(t) \/ Reset(t) \/ Release(t) \/ Spin(t)
    \/ ConvertRow(t) \/ ConvertEnds(t)
    \/ t = 0 /\ StoreChunk
    \/ ComputeChunk(t) \/ FetchChunk(t) \/ ComputeRows(t)
    \/ t = 0 /\ (AllCreated \/ Join)
    \/ t # 0 /\ Create(t)

Next == \E t \in Thread : Step(t)

\* The threads are scheduled by the operating system; the one that creates
\* or joins the others is one of them.
Fairness == \A t \in Thread : WF_vars(Step(t))

Spec == Init /\ [][Next]_vars /\ Fairness

-----------------------------------------------------------------------------
(* Properties.                                                             *)

\* The variables keep their types; in particular the barrier never counts
\* more arrivals than there are threads.
TypeOK ==
    /\ pc \in [Thread -> Label]
    /\ node_n \in [Thread -> 1 .. Len(Graph) + 1]
    /\ inner \in [Thread -> BOOLEAN]
    /\ passed_old \in [Thread -> Nat]
    /\ i11 \in [Thread -> Nat]
    /\ chunk \in [Thread -> Nat]
    /\ n_barrier \in 0 .. NThreads
    /\ n_barrier_passed \in Nat
    /\ current_chunk \in Nat
    /\ wdata \in [WorkRow -> 0 .. Len(Graph)]
    /\ DOMAIN out = Node
    /\ \A n \in Node : out[n] \subseteq AllCells(Graph[n])

Working(t) == pc[t] \in {"convert", "chunk", "rows"}

\* Whatever a thread works on, every earlier node is complete in all its
\* cells: no thread is ahead of another by more than a barrier it waits at,
\* and no chunk or stripe was left out (ggml_barrier, the chunk counter and
\* the divisions of ggml_compute_forward_mul_mat).
SourcesComplete ==
    \A t \in Thread : Working(t) =>
        \A n \in 1 .. node_n[t] - 1 : out[n] = AllCells(Graph[n])

\* A thread that computes a chunk of a product with a converted operand reads
\* that operand, whole, in the work area: all rows were converted, for this
\* product, and no fast thread has begun to convert the next one's.
WorkDataIsCurrent ==
    \A t \in Thread :
        pc[t] = "chunk" /\ Graph[node_n[t]].quantized =>
            \A r \in 0 .. Graph[node_n[t]].nr1 - 1 : wdata[r] = node_n[t]

\* No cell is written by two threads, or twice: the chunks in hand are
\* disjoint, and what they cover is not computed yet (the counter starts
\* after the chunks the threads begin with).
NoCellTwice ==
    \A t \in Thread : pc[t] = "chunk" =>
        LET mine == ChunkCells(Graph[node_n[t]], chunk[t]) IN
        /\ out[node_n[t]] \cap mine = {}
        /\ \A u \in Thread \ {t} : pc[u] = "chunk" =>
            mine \cap ChunkCells(Graph[node_n[u]], chunk[u]) = {}

\* The counters live on the caller's stack: when it returns no thread is left
\* that could touch them, and the graph is computed.
SharedOutlivesThreads ==
    pc[0] = "returned" =>
        /\ \A t \in Thread \ {0} : pc[t] = "ended"
        /\ \A n \in Node : out[n] = AllCells(Graph[n])

\* The call returns: no arrival at a barrier is lost, however fast a thread
\* is at the next one.
AllReturn == <>(pc[0] = "returned")
=============================================================================
