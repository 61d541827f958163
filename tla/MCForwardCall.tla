--------------------------- MODULE MCForwardCall ---------------------------
(***************************************************************************)
(* Two tokens, which nothing but their identity tells apart.               *)
(***************************************************************************)
EXTENDS ForwardCall, TLC

CONSTANTS t1, t2

MCToken == {t1, t2}
Interchangeable == Permutations(MCToken)
=============================================================================
