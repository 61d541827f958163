--------------------------- MODULE MCGraphCompute ---------------------------
(***************************************************************************)
(* An instance of GraphCompute: products that share the work area, one cut *)
(* into chunks drawn from the counter and one into a stripe a thread, with *)
(* row-wise operations of fewer rows than threads around them.             *)
(***************************************************************************)
EXTENDS GraphCompute

MCGraph == <<
    [op |-> "mul_mat", quantized |-> TRUE, nr0 |-> 4, nr1 |-> 3],
    [op |-> "mul_mat", quantized |-> TRUE, nr0 |-> 1, nr1 |-> 4],
    [op |-> "rows", quantized |-> FALSE, nr0 |-> 1, nr1 |-> 2],
    [op |-> "mul_mat", quantized |-> FALSE, nr0 |-> 5, nr1 |-> 1] >>
=============================================================================
