----------------------------- MODULE GraphAlloc -----------------------------
(***************************************************************************)
(* Where the tensors of a graph live: ggml's graph allocator               *)
(* (ggml/src/ggml-alloc.c), as a forward pass uses it, and the execution   *)
(* of the graph in the memory it hands out.                                *)
(*                                                                         *)
(* Before anything is computed the allocator walks the nodes in order and  *)
(* simulates their lifetimes with two counters a tensor: readers still to  *)
(* come, and views of it still in use.  A tensor whose counters reach zero *)
(* gives its memory back; some operations take over the memory of an       *)
(* operand that nobody else needs.  Whether the counters are right shows   *)
(* only in the numbers the model answers with, so here the graph is then   *)
(* executed: each unit of memory remembers the tensor whose value it has.  *)
(*                                                                         *)
(* The engine makes an allocator for every pass, with one buffer.  Leaves  *)
(* (weights, inputs, the KV cache) have their memory already, no tensor is *)
(* flagged as an input and the only output is the last node.               *)
(***************************************************************************)
EXTENDS Naturals, FiniteSets, Sequences, SequencesExt

CONSTANTS
    Graphs,         \* the graphs a pass may build: see GraphType
    Tensor,         \* the names of their tensors
    NoTensor,
    Arena,          \* the size of the measured range: SIZE_MAX/2 in the code
    Alignment,      \* the alignment of the buffer
    MaxFreeBlocks   \* MAX_FREE_BLOCKS: 256

\* A tensor: its operation, its operands, the tensor its memory belongs to if
\* it is a view, its shape and size, and whether it has memory of its own.
TensorType == [op : STRING, src : Seq(Tensor), view_src : Tensor \cup {NoTensor},
               ne : Seq(Nat), size : Nat \ {0}, external : BOOLEAN,
               output : BOOLEAN]

\* A graph: its nodes in the order of execution, each once and after the nodes
\* it reads or views (ggml_visit_parents).  A view is a node, and views a tensor
\* that is none (ggml_new_tensor_impl); the graph is expanded from results and
\* from views of external memory, so every other view is read.  What only
\* describes a tensor is a view of it, an output is a result (graph.rs marks
\* the logits), and a leaf has memory of its own.
Wellformed(g) ==
    /\ g.nodes \in Seq(DOMAIN g.tensor) /\ g.nodes # <<>> /\ IsInjective(g.nodes)
    /\ DOMAIN g.tensor \subseteq Tensor
    /\ \A t \in DOMAIN g.tensor :
        LET d == g.tensor[t]
        IN  /\ d \in TensorType /\ d.src \in Seq(DOMAIN g.tensor)
            /\ d.op \in {"VIEW", "RESHAPE", "PERMUTE"} => d.view_src # NoTensor
            /\ d.output => d.view_src = NoTensor
            /\ d.view_src # NoTensor =>
                  /\ t \in ToSet(g.nodes)
                  /\ d.view_src \in DOMAIN g.tensor
                  /\ g.tensor[d.view_src].view_src = NoTensor
                  /\ \/ g.tensor[d.view_src].external
                     \/ \E n \in ToSet(g.nodes) : t \in ToSet(g.tensor[n].src)
    /\ \A k \in DOMAIN g.nodes :
        LET d == g.tensor[g.nodes[k]]
        IN  \A p \in (ToSet(d.src) \cup {d.view_src}) \ {NoTensor} :
                IF p \in ToSet(g.nodes)
                THEN \E j \in 1 .. k - 1 : g.nodes[j] = p
                ELSE g.tensor[p].external

ASSUME GraphAllocAssumption ==
    /\ NoTensor \notin Tensor
    /\ Arena \in Nat \ {0} /\ Alignment \in Nat \ {0} /\ MaxFreeBlocks \in Nat \ {0}
    /\ \A g \in Graphs : Wellformed(g)

VARIABLES
    graph,          \* the graph of this pass
    phase,          \* what the pass is doing
    next,           \* the next node
    hash,           \* galloc->hash_values
    free_blocks,    \* the free blocks, by offset
    max_size,       \* the size the buffer will have
    memory,         \* the tensor whose value each unit of the buffer has
    written         \* the nodes executed that write into external memory

vars == <<graph, phase, next, hash, free_blocks, max_size, memory, written>>

Node == ToSet(graph.nodes)
Of(t) == graph.tensor[t]
IsView(t) == Of(t).view_src # NoTensor

\* The tensor whose memory t uses.
Root(t) == IF IsView(t) THEN Of(t).view_src ELSE t

\* Views of external memory, and operations that only describe a tensor.
External(t) == Of(Root(t)).external
OnlyDescribes(t) == Of(t).op \in {"VIEW", "RESHAPE", "PERMUTE"}

\* ggml_op_can_inplace, of the operations the engine uses.
CanInplace(op) == op \in {"SCALE", "ADD", "MUL", "UNARY", "ROPE", "RMS_NORM",
                          "SOFT_MAX"}

-----------------------------------------------------------------------------
\* ggml_dyn_tallocr: a list of free blocks.

Aligned(size) == ((size + Alignment - 1) \div Alignment) * Alignment

FitBlocks(free, size) ==
    {i \in 1 .. Len(free) - 1 : free[i].size >= size}

\* The smallest block that fits, the later of equals; the last block only if
\* there is no other.
BestFit(free, size) ==
    LET fits == FitBlocks(free, size) IN
    IF fits = {} THEN Len(free)
    ELSE CHOOSE i \in fits :
            \A j \in fits : \/ free[i].size < free[j].size
                            \/ free[i].size = free[j].size /\ i >= j

\* The block found has the room.  (No block at all counts as no room; with
\* the code's arena the list is never empty.)
HasRoom(free, size) == free # <<>> /\ free[BestFit(free, size)].size >= size

\* A plausible bug: a block that is used up stays in the list.
TakenLeavingEmpty(free, i, size) ==
    [free EXCEPT ![i] = [offset |-> @.offset + size, size |-> @.size - size]]

\* The free list after size units were taken from block i.
Taken(free, i, size) ==
    IF free[i].size = size THEN RemoveAt(free, i)
    ELSE [free EXCEPT ![i] = [offset |-> @.offset + size, size |-> @.size - size]]

EndOf(b) == b.offset + b.size

\* Block i joined with the next one, if they touch.
Joined(free, i) ==
    IF i \in 1 .. Len(free) - 1 /\ EndOf(free[i]) = free[i + 1].offset
    THEN RemoveAt([free EXCEPT ![i].size = @ + free[i + 1].size], i + 1)
    ELSE free

\* The free list after a range was given back: it joins the first block it
\* touches, and that block the neighbour it has become adjacent to.
Freed(free, offset, size) ==
    LET Touches(b) == EndOf(b) = offset \/ offset + size = b.offset
        at == {i \in 1 .. Len(free) : Touches(free[i])}
        i == CHOOSE i \in at : \A j \in at : i <= j
        before == {j \in 1 .. Len(free) : free[j].offset < offset}
    IN  IF at = {}
        THEN InsertAt(free, Cardinality(before) + 1,
                      [offset |-> offset, size |-> size])
        ELSE IF EndOf(free[i]) = offset
        THEN Joined([free EXCEPT ![i].size = @ + size], i)
        ELSE Joined([free EXCEPT ![i] = [offset |-> offset,
                                         size |-> @.size + size]], i - 1)

-----------------------------------------------------------------------------
\* ggml_gallocr: the record a holds what alloc_graph_impl changes, and whether
\* it came to one of its GGML_ABORTs.

Fresh == [children |-> 0, views |-> 0, offset |-> 0, allocated |-> FALSE]

\* ggml_are_same_layout: the type, the shape and the strides, and so the size.
SameLayout(t, p) == Of(p).ne = Of(t).ne /\ Of(p).size = Of(t).size

\* A plausible bug: readers through a view are not looked at.
TakesOverIgnoringViews(a, t, p) ==
    /\ a.hash[p].allocated
    /\ ~Of(p).output
    /\ SameLayout(t, p)
    /\ a.hash[p].children = 1

\* Node t may take over the memory of its operand p: p has memory of this
\* buffer and the same layout, is no output, and t is its last reader.
\* (No view is ever marked allocated, so the branch for views is not taken.)
TakesOver(a, t, p) ==
    /\ a.hash[p].allocated
    /\ ~Of(p).output
    /\ IsView(p) => ~Of(Of(p).view_src).output
    /\ SameLayout(t, p)
    /\ a.hash[p].children = 1
    /\ a.hash[p].views = 0
    /\ IsView(p) => /\ a.hash[Of(p).view_src].views = 1
                    /\ a.hash[Of(p).view_src].children = 0

\* Memory from the buffer, or the end of the process.
FromBuffer(a, t) ==
    LET size == Aligned(Of(t).size)
        i == BestFit(a.free, size)
        offset == a.free[i].offset
    IN  IF ~HasRoom(a.free, size) THEN [a EXCEPT !.aborted = TRUE]
        ELSE [a EXCEPT !.hash[t].offset = offset, !.hash[t].allocated = TRUE,
                       !.free = Taken(@, i, size),
                       !.max = IF offset + size > @ THEN offset + size ELSE @]

\* A plausible bug: the operand is freed a second time after its last reader.
FromOperandKept(a, t, p) ==
    [a EXCEPT !.hash[t].offset = a.hash[p].offset, !.hash[t].allocated = TRUE]

\* Memory of the operand p.
FromOperand(a, t, p) ==
    LET given == [a.hash EXCEPT ![t].offset = a.hash[p].offset,
                                ![t].allocated = TRUE, ![p].allocated = FALSE]
    IN  [a EXCEPT !.hash = IF IsView(p)
                           THEN [given EXCEPT ![Of(p).view_src].allocated = FALSE]
                           ELSE given]

AllocateNode(a, t) ==
    LET src == Of(t).src
        Usable == {i \in DOMAIN src : TakesOver(a, t, src[i])}
    IN  IF a.hash[t].allocated \/ External(t) \/ IsView(t) THEN a
        ELSE IF CanInplace(Of(t).op) /\ Usable # {}
        THEN FromOperand(a, t, src[CHOOSE i \in Usable : \A j \in Usable : i <= j])
        ELSE FromBuffer(a, t)

\* Outputs are never freed; the list of free blocks has a limit.
FreeNode(a, t) ==
    LET free == Freed(a.free, a.hash[t].offset, Aligned(Of(t).size))
    IN  IF Of(t).output THEN a
        ELSE IF Len(free) > MaxFreeBlocks THEN [a EXCEPT !.aborted = TRUE]
        ELSE [a EXCEPT !.hash[t].allocated = FALSE, !.free = free]

\* A plausible bug: a view that is done with keeps its hold.
ReadByViewsHeld(a, p) ==
    LET b == [a EXCEPT !.hash[p].children = @ - 1]
    IN  IF b.hash[p].children = 0 /\ b.hash[p].views = 0 /\ b.hash[p].allocated
        THEN FreeNode(b, p) ELSE b

\* The update of an operand p after one of its readers: the last one lets go
\* of p, or of p's hold on the tensor it views.
ReadBy(a, p) ==
    LET b == [a EXCEPT !.hash[p].children = @ - 1]
        c == [b EXCEPT !.hash[Of(p).view_src].views = @ - 1]
        Dead(s, t) == s.hash[t].children = 0 /\ s.hash[t].views = 0
    IN  IF ~Dead(b, p) THEN b
        ELSE IF IsView(p)
        THEN IF Dead(c, Of(p).view_src) /\ c.hash[Of(p).view_src].allocated
             THEN FreeNode(c, Of(p).view_src) ELSE c
        ELSE IF b.hash[p].allocated THEN FreeNode(b, p) ELSE b

\* Nothing has been placed: one block, as large as the arena.
Init ==
    /\ graph \in Graphs
    /\ phase = "count"
    /\ next = 1
    /\ hash = [t \in DOMAIN graph.tensor |-> Fresh]
    /\ free_blocks = <<[offset |-> 0, size |-> Arena]>>
    /\ max_size = 0
    /\ memory = <<>>
    /\ written = {}

This == graph.nodes[next]

\* The next node is dealt with; after the last the next phase begins.
Proceed(phase2) ==
    IF next < Len(graph.nodes)
    THEN next' = next + 1 /\ UNCHANGED phase
    ELSE next' = 1 /\ phase' = phase2

\* The first loop of ggml_gallocr_alloc_graph_impl: readers and views.
CountReaders ==
    /\ phase = "count"
    /\ LET viewed == [hash EXCEPT ![Root(This)].views =
                        IF IsView(This) THEN @ + 1 ELSE @]
       IN  hash' = FoldLeft(LAMBDA h, p : [h EXCEPT ![p].children = @ + 1],
                            viewed, Of(This).src)
    /\ Proceed("alloc")
    /\ UNCHANGED <<graph, free_blocks, max_size, memory, written>>

\* The second loop: operands that have no memory yet, the node, and the
\* update of its operands.  After the last node the buffer is allocated.
Place ==
    /\ phase = "alloc"
    /\ LET src == Of(This).src
           before == [hash |-> hash, free |-> free_blocks, max |-> max_size,
                      aborted |-> FALSE]
           placed == AllocateNode(FoldLeft(AllocateNode, before, src), This)
           after == FoldLeft(ReadBy, placed, src)
       IN  IF after.aborted
           THEN /\ phase' = "aborted"
                /\ UNCHANGED <<next, hash, free_blocks, max_size>>
           ELSE /\ hash' = after.hash
                /\ free_blocks' = after.free
                /\ max_size' = after.max
                /\ Proceed("compute")
    /\ memory' = IF phase' = "compute"
                 THEN [u \in 0 .. max_size' - 1 |-> NoTensor] ELSE memory
    /\ UNCHANGED <<graph, written>>

\* The units of the buffer tensor t occupies.
Units(t) == hash[Root(t)].offset .. hash[Root(t)].offset + Of(Root(t)).size - 1

\* A node is computed: it writes its own memory, the cache's if it is a view
\* of it, or nothing if it only describes a tensor.
Compute ==
    /\ phase = "compute"
    /\ memory' = IF OnlyDescribes(This) \/ External(This) THEN memory
                 ELSE [u \in DOMAIN memory |->
                         IF u \in Units(This) THEN Root(This) ELSE memory[u]]
    /\ written' = IF External(This) /\ ~OnlyDescribes(This)
                  THEN written \cup {This} ELSE written
    /\ Proceed("done")
    /\ UNCHANGED <<graph, hash, free_blocks, max_size>>

Next == CountReaders \/ Place \/ Compute

Spec == Init /\ [][Next]_vars

-----------------------------------------------------------------------------
(* Properties.                                                             *)

\* The variables keep their types.
TypeOK ==
    /\ phase \in {"count", "alloc", "compute", "done", "aborted"}
    /\ next \in 1 .. Len(graph.nodes)
    /\ hash \in [DOMAIN graph.tensor ->
                    [children : Nat, views : Nat, offset : 0 .. Arena,
                     allocated : BOOLEAN]]
    /\ free_blocks \in Seq([offset : 0 .. Arena, size : 1 .. Arena])
    /\ max_size \in 0 .. Arena
    /\ \A u \in DOMAIN memory : memory[u] \in Tensor \cup {NoTensor}
    /\ written \subseteq Node

Span(b) == b.offset .. b.offset + b.size - 1
Held(t) == hash[t].offset .. hash[t].offset + Aligned(Of(t).size) - 1
Holders == {t \in DOMAIN graph.tensor : hash[t].allocated}

\* Every unit of the arena is free in exactly one block or held by exactly one
\* tensor: nothing is freed twice, handed out twice or lost, whoever took over
\* whose memory (ggml_dyn_tallocr_alloc, free_tensor, the in-place reuse).
\* The blocks stay in order and no two of them touch: the buffer grows only if
\* there is no room, not because room is cut up.
Accounted ==
    /\ \A u \in 0 .. Arena - 1 :
        Cardinality({i \in DOMAIN free_blocks : u \in Span(free_blocks[i])})
        + Cardinality({t \in Holders : u \in Held(t)}) = 1
    /\ \A i \in 1 .. Len(free_blocks) - 1 :
        EndOf(free_blocks[i]) < free_blocks[i + 1].offset

\* Every operand of a node, read directly or through views, still has its
\* value when the node is computed, and the output has it at the end: no
\* memory was handed on before its last reader (the counters of
\* ggml_gallocr_alloc_graph_impl, the conditions for working in place).
OperandsIntact ==
    LET Intact(t) == External(t) \/ \A u \in Units(t) : memory[u] = Root(t) IN
    /\ phase = "compute" =>
        \A i \in DOMAIN Of(This).src : Intact(Of(This).src[i])
    /\ phase = "done" => \A t \in Node : Of(t).output => Intact(t)

\* When a node reads a part of the KV cache, this graph writes that tensor of
\* the cache and has done so: the graph has no edge from the writes to the
\* reads, only the order of its expansion (LlamaGraph::forward).
HistoryWritten ==
    LET Writers(r) == {t \in Node : Root(t) = r /\ ~OnlyDescribes(t)} IN
    phase = "compute" /\ ~OnlyDescribes(This) =>
        \A i \in DOMAIN Of(This).src :
            LET p == Of(This).src[i]
                writers == Writers(Root(p))
            IN  IsView(p) /\ External(p) /\ This \notin writers =>
                    writers # {} /\ writers \subseteq written

\* At the end everything but the output and what nobody reads has been given
\* back: no counter stays above zero.
AllReturned ==
    phase \in {"compute", "done"} =>
        \A t \in Holders : \/ Of(t).output
                           \/ ~\E n \in Node : \E i \in DOMAIN Of(n).src :
                                Root(Of(n).src[i]) = t
=============================================================================
