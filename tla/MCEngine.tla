------------------------------ MODULE MCEngine ------------------------------
(***************************************************************************)
(* A window of 96 tokens and three kinds of message.  The framing lengths  *)
(* are those of the Llama 3 template (generate.rs) with one token for each *)
(* role name and eight for the system prompt.                              *)
(***************************************************************************)
EXTENDS Engine

CONSTANTS
    short,      \* a word: four such turns fit by estimate, the fifth evicts
    spaced,     \* long in bytes, few tokens (white space): over-estimated
    dense       \* more tokens than its bytes suggest; alone it overflows

MCMessage == {short, spaced, dense}
MCBytes == (short :> 4) @@ (spaced :> 100) @@ (dense :> 90)
MCTokens == (short :> 1) @@ (spaced :> 8) @@ (dense :> 80)
MCMaxTokensArg == {-1, 75}
=============================================================================
