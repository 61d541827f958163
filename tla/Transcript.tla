----------------------------- MODULE Transcript -----------------------------
(***************************************************************************)
(* What a KV cache promises its caller: it remembers a transcript, the     *)
(* sequence of tokens fed to the model since the cache was last cleared,   *)
(* and the logits it returns are conditioned on exactly that transcript.   *)
(* A call that does not succeed leaves no trace.                           *)
(*                                                                         *)
(* Nothing here mentions rows, positions or a mask: ForwardPass.tla shows  *)
(* that the real cache implements this.                                    *)
(***************************************************************************)
EXTENDS Naturals, Sequences

CONSTANTS
    Prompts,    \* the token sequences a caller may feed in one call
    NCtx        \* the number of tokens the cache can hold

VARIABLES
    transcript, \* the tokens the model has been fed, oldest first
    seen        \* the tokens the last returned logits are conditioned on

tvars == <<transcript, seen>>

TInit ==
    /\ transcript = <<>>
    /\ seen = <<>>

\* The model is fed the tokens ts and answers with logits.
Extend(ts) ==
    /\ Len(transcript) + Len(ts) <= NCtx
    /\ transcript' = transcript \o ts
    /\ seen' = transcript'

\* The conversation is forgotten; logits already returned are unaffected.
Forget ==
    /\ transcript' = <<>>
    /\ UNCHANGED seen

TNext ==
    \/ \E ts \in Prompts : Extend(ts)
    \/ Forget

TSpec == TInit /\ [][TNext]_tvars
=============================================================================
