---------------------------- MODULE MCGraphAlloc ----------------------------
(***************************************************************************)
(* The graphs GraphAlloc is checked on: those the engine builds, for       *)
(* prompts and single tokens, on an empty cache and not, with biases and   *)
(* without; every small graph of results and views in which every node but *)
(* the last is read; and one graph each that is too large and that leaves  *)
(* too many free blocks.                                                   *)
(***************************************************************************)
EXTENDS GraphAlloc

CONSTANTS NLayer, NHead, NHeadKv, HeadDim, NFf, NVocab

Engine == INSTANCE ForwardGraph

EngineGraphs ==
    {Engine!ForwardGraph(n, head, bias) :
        n \in {1, 2}, head \in {0, 1}, bias \in BOOLEAN}

W == <<0, "w">>
N(i) == <<i, "n">>
WTensor == [op |-> "NONE", src |-> <<>>, view_src |-> NoTensor, ne |-> <<1>>,
            size |-> 1, external |-> TRUE, output |-> FALSE]

\* What node i can be: a result of one of two shapes from up to two earlier
\* nodes, computed in place if possible or not, or a view of one.
NodeChoices(i) ==
    [op : {"ADD", "MUL_MAT"}, size : {1, 2},
     src : {<<W>>} \cup {<<N(j)>> : j \in 1 .. i - 1}
                   \cup {<<N(j), N(k)>> : j, k \in 1 .. i - 1}]
        \cup [op : {"VIEW"}, size : {1}, src : {<<N(j)>> : j \in 1 .. i - 1}]

\* Every node but the last is read, and the last is a result.
Connected(ts) ==
    /\ ts[4].op # "VIEW"
    /\ \A i \in 1 .. 3 : \E j \in i + 1 .. 4 : N(i) \in ToSet(ts[j].src)

\* The memory a view uses.
ViewSrc(ts) ==
    LET under[i \in DOMAIN ts] ==
            IF ts[i].op # "VIEW" THEN N(i) ELSE under[ts[i].src[1][1]]
    IN  [i \in DOMAIN ts |-> IF ts[i].op # "VIEW" THEN NoTensor ELSE under[i]]

GraphOf(ts) ==
    LET view_src == ViewSrc(ts)
    IN  [nodes |-> [i \in DOMAIN ts |-> N(i)],
         tensor |-> [id \in {W} \cup {N(i) : i \in DOMAIN ts} |->
            IF id = W THEN WTensor
            ELSE LET t == ts[id[1]]
                 IN  [op |-> t.op, src |-> t.src, view_src |-> view_src[id[1]],
                      ne |-> <<t.size>>, size |-> t.size, external |-> FALSE,
                      output |-> id[1] = Len(ts)]]]

SmallGraphs ==
    {GraphOf(ts) : ts \in
        {x \in NodeChoices(1) \X NodeChoices(2) \X NodeChoices(3) \X NodeChoices(4) :
            Connected(x)}}

Product(size, src) == [op |-> "MUL_MAT", size |-> size, src |-> <<src>>]

\* The second result finds no room.
TooLarge == GraphOf(<<Product(40, W), Product(40, N(1))>>)

\* Every second of six results is read by one that does not fit in its place.
TooManyBlocks ==
    GraphOf([i \in 1 .. 6 |-> Product(1, W)]
            \o <<Product(3, N(1)), Product(3, N(3)), Product(3, N(5))>>)

MCGraphs == EngineGraphs \cup SmallGraphs \cup {TooLarge, TooManyBlocks}
MCTensor == Engine!TensorNames \cup {W} \cup {N(i) : i \in 1 .. 9}
=============================================================================
