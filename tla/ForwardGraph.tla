---------------------------- MODULE ForwardGraph ----------------------------
(***************************************************************************)
(* The graph of a forward pass (LlamaGraph::forward in                     *)
(* qfz3-engine/src/graph.rs): its tensors, and the order                   *)
(* ggml_build_forward_expand puts its nodes in.                            *)
(*                                                                         *)
(* A tensor is named by its layer and the variable it is bound to; layer 0 *)
(* holds what is outside the loop.  Shapes are computed from small         *)
(* hyperparameters, so that equal and different layouts are as in the      *)
(* code.                                                                   *)
(***************************************************************************)
EXTENDS Naturals, FiniteSets, Sequences, SequencesExt

CONSTANTS
    NLayer, NHead, NHeadKv, HeadDim, NFf, NVocab,   \* the hyperparameters
    NoTensor

NEmbd == NHead * HeadDim
KvDim == NHeadKv * HeadDim

\* A leaf: a weight, an input or a tensor of the KV cache.
Leaf == [op |-> "NONE", src |-> <<>>, view |-> FALSE, ne |-> <<1>>]

Result(op, src, ne) == [op |-> op, src |-> src, view |-> FALSE, ne |-> ne]

\* A view of the last of its operands: ggml_cpy is one, of its destination.
View(op, src, ne) == [op |-> op, src |-> src, view |-> TRUE, ne |-> ne]

\* The tensors outside the layers, for a batch of n tokens on a cache that
\* holds head.
Outer(n) ==
    LET cur == IF NLayer = 0 THEN <<0, "embd">> ELSE <<NLayer, "ffn_res">>
    IN  [weight |-> Leaf, tokens |-> Leaf, pos |-> Leaf, mask |-> Leaf,
         embd |-> Result("GET_ROWS", <<<<0, "weight">>, <<0, "tokens">>>>, <<NEmbd, n>>),
         norm |-> Result("RMS_NORM", <<cur>>, <<NEmbd, n>>),
         normed |-> Result("MUL", <<<<0, "norm">>, <<0, "weight">>>>, <<NEmbd, n>>),
         last |-> View("VIEW", <<<<0, "normed">>>>, <<NEmbd, 1>>),
         logits |-> Result("MUL_MAT", <<<<0, "weight">>, <<0, "last">>>>, <<NVocab, 1>>)]

\* The tensors of layer l.
Layer(l, n, head, bias) ==
    LET kv_len == head + n
        Here(name) == <<l, name>>
        W == <<0, "weight">>
        cur == IF l = 1 THEN <<0, "embd">> ELSE <<l - 1, "ffn_res">>
        Biased(name, plain) == IF bias THEN Here(name) ELSE Here(plain)
        MulMat(b, ne) == Result("MUL_MAT", <<W, b>>, ne)
    IN  [kv_k |-> Leaf, kv_v |-> Leaf,
         norm |-> Result("RMS_NORM", <<cur>>, <<NEmbd, n>>),
         normed |-> Result("MUL", <<Here("norm"), W>>, <<NEmbd, n>>),
         q_w |-> MulMat(Here("normed"), <<NEmbd, n>>),
         k_w |-> MulMat(Here("normed"), <<KvDim, n>>),
         v_w |-> MulMat(Here("normed"), <<KvDim, n>>),
         q_b |-> Result("ADD", <<Here("q_w"), W>>, <<NEmbd, n>>),
         k_b |-> Result("ADD", <<Here("k_w"), W>>, <<KvDim, n>>),
         v_b |-> Result("ADD", <<Here("v_w"), W>>, <<KvDim, n>>),
         q_3d |-> View("RESHAPE", <<Biased("q_b", "q_w")>>, <<HeadDim, NHead, n>>),
         k_3d |-> View("RESHAPE", <<Biased("k_b", "k_w")>>, <<HeadDim, NHeadKv, n>>),
         v_3d |-> View("RESHAPE", <<Biased("v_b", "v_w")>>, <<HeadDim, NHeadKv, n>>),
         q |-> Result("ROPE", <<Here("q_3d"), <<0, "pos">>>>, <<HeadDim, NHead, n>>),
         k |-> Result("ROPE", <<Here("k_3d"), <<0, "pos">>>>, <<HeadDim, NHeadKv, n>>),
         k_cont |-> Result("CONT", <<Here("k")>>, <<HeadDim, NHeadKv, n>>),
         v_cont |-> Result("CONT", <<Here("v_3d")>>, <<HeadDim, NHeadKv, n>>),
         k_flat |-> View("RESHAPE", <<Here("k_cont")>>, <<KvDim, n>>),
         v_flat |-> View("RESHAPE", <<Here("v_cont")>>, <<KvDim, n>>),
         k_write |-> View("VIEW", <<Here("kv_k")>>, <<KvDim, n>>),
         v_write |-> View("VIEW", <<Here("kv_v")>>, <<KvDim, n>>),
         k_cpy |-> View("CPY", <<Here("k_flat"), Here("k_write")>>, <<KvDim, n>>),
         v_cpy |-> View("CPY", <<Here("v_flat"), Here("v_write")>>, <<KvDim, n>>),
         k_read |-> View("VIEW", <<Here("kv_k")>>, <<KvDim, kv_len>>),
         v_read |-> View("VIEW", <<Here("kv_v")>>, <<KvDim, kv_len>>),
         k_hist |-> Result("CONT", <<Here("k_read")>>, <<KvDim, kv_len>>),
         v_hist |-> Result("CONT", <<Here("v_read")>>, <<KvDim, kv_len>>),
         k_hist3 |-> View("RESHAPE", <<Here("k_hist")>>, <<HeadDim, NHeadKv, kv_len>>),
         v_hist3 |-> View("RESHAPE", <<Here("v_hist")>>, <<HeadDim, NHeadKv, kv_len>>),
         q_perm |-> View("PERMUTE", <<Here("q")>>, <<HeadDim, n, NHead>>),
         k_turned |-> View("PERMUTE", <<Here("k_hist3")>>, <<HeadDim, kv_len, NHeadKv>>),
         v_turned |-> View("PERMUTE", <<Here("v_hist3")>>, <<kv_len, HeadDim, NHeadKv>>),
         k_perm |-> Result("CONT", <<Here("k_turned")>>, <<HeadDim, kv_len, NHeadKv>>),
         v_perm |-> Result("CONT", <<Here("v_turned")>>, <<kv_len, HeadDim, NHeadKv>>),
         kq |-> Result("MUL_MAT", <<Here("k_perm"), Here("q_perm")>>, <<kv_len, n, NHead>>),
         kq_scaled |-> Result("SCALE", <<Here("kq")>>, <<kv_len, n, NHead>>),
         kq_soft |-> Result("SOFT_MAX", <<Here("kq_scaled"), <<0, "mask">>>>, <<kv_len, n, NHead>>),
         av |-> Result("MUL_MAT", <<Here("v_perm"), Here("kq_soft")>>, <<HeadDim, n, NHead>>),
         av_turned |-> View("PERMUTE", <<Here("av")>>, <<HeadDim, NHead, n>>),
         av_cont |-> Result("CONT", <<Here("av_turned")>>, <<HeadDim, NHead, n>>),
         av_2d |-> View("RESHAPE", <<Here("av_cont")>>, <<NEmbd, n>>),
         attn |-> MulMat(Here("av_2d"), <<NEmbd, n>>),
         attn_res |-> Result("ADD", <<cur, Here("attn")>>, <<NEmbd, n>>),
         ffn_norm |-> Result("RMS_NORM", <<Here("attn_res")>>, <<NEmbd, n>>),
         ffn_in |-> Result("MUL", <<Here("ffn_norm"), W>>, <<NEmbd, n>>),
         gate_w |-> MulMat(Here("ffn_in"), <<NFf, n>>),
         gate |-> Result("UNARY", <<Here("gate_w")>>, <<NFf, n>>),
         up |-> MulMat(Here("ffn_in"), <<NFf, n>>),
         ffn_mul |-> Result("MUL", <<Here("gate"), Here("up")>>, <<NFf, n>>),
         ffn |-> MulMat(Here("ffn_mul"), <<NEmbd, n>>),
         ffn_res |-> Result("ADD", <<Here("attn_res"), Here("ffn")>>, <<NEmbd, n>>)]

TensorOf(id, n, head, bias) ==
    IF id[1] = 0 THEN Outer(n)[id[2]] ELSE Layer(id[1], n, head, bias)[id[2]]

TensorNames ==
    {<<0, name>> : name \in DOMAIN Outer(1)}
        \cup ((1 .. NLayer) \X DOMAIN Layer(1, 1, 0, FALSE))

\* All tensors of a pass.
Tensors(n, head, bias) == [id \in TensorNames |-> TensorOf(id, n, head, bias)]

\* What ggml_visit_parents has come to: the tensors visited and the nodes so
\* far, in their order.
Visited == [seen : SUBSET TensorNames, nodes : Seq(TensorNames)]

\* ggml_visit_parents of a tensor: its operands first, each tensor once; leaves
\* are kept apart.  visit is the call for an operand.
VisitWith(tensors, visit) ==
    [id \in TensorNames |-> [v \in Visited |->
        IF id \in v.seen THEN v
        ELSE LET w == FoldLeft(LAMBDA a, p : visit[p][a],
                               [seen |-> v.seen \cup {id}, nodes |-> v.nodes],
                               tensors[id].src)
             IN  IF tensors[id].op = "NONE" THEN w
                 ELSE [seen |-> w.seen, nodes |-> Append(w.nodes, id)]]]

\* Its calls of itself: never deeper than there are tensors.
VisitParents(tensors) ==
    LET calls[depth \in 0 .. Cardinality(TensorNames)] ==
            IF depth = 0 THEN [id \in TensorNames |-> [v \in Visited |-> v]]
            ELSE VisitWith(tensors, calls[depth - 1])
    IN  calls[Cardinality(TensorNames)]

\* A plausible bug: V is copied after the logits, which read it.
NodesWithVLast(tensors) ==
    LET visit == VisitParents(tensors)
        copied[l \in 0 .. NLayer] ==
            IF l = 0 THEN [seen |-> {}, nodes |-> <<>>]
            ELSE visit[<<l, "k_cpy">>][copied[l - 1]]
        late[l \in 0 .. NLayer] ==
            IF l = 0 THEN visit[<<0, "logits">>][copied[NLayer]]
            ELSE visit[<<l, "v_cpy">>][late[l - 1]]
    IN  late[NLayer].nodes

\* ggml_build_forward_expand, called for the two copies of each layer and then
\* for the logits.
NodesInOrder(tensors) ==
    LET visit == VisitParents(tensors)
        copied[l \in 0 .. NLayer] ==
            IF l = 0 THEN [seen |-> {}, nodes |-> <<>>]
            ELSE visit[<<l, "v_cpy">>][visit[<<l, "k_cpy">>][copied[l - 1]]]
    IN  visit[<<0, "logits">>][copied[NLayer]].nodes

\* The tensor whose memory a view uses: views of views are resolved when they
\* are made (ggml_new_tensor_impl), and none of these is viewed again.
ViewSrc(tensors, id) ==
    LET Viewed(t) == Last(tensors[t].src)
    IN  IF ~tensors[id].view THEN NoTensor
        ELSE IF tensors[Viewed(id)].view THEN Viewed(Viewed(id)) ELSE Viewed(id)

\* The graph a pass hands to the allocator.
ForwardGraph(n, head, bias) ==
    LET tensors == Tensors(n, head, bias)
        Size(ne) == FoldLeft(LAMBDA a, b : a * b, 1, ne)
    IN  [nodes |-> NodesInOrder(tensors),
         tensor |-> [id \in TensorNames |->
            [op |-> tensors[id].op, src |-> tensors[id].src,
             view_src |-> ViewSrc(tensors, id), ne |-> tensors[id].ne,
             size |-> Size(tensors[id].ne),
             external |-> tensors[id].op = "NONE",
             output |-> id = <<0, "logits">>]]]
=============================================================================
