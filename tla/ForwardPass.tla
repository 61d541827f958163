---------------------------- MODULE ForwardPass ----------------------------
(***************************************************************************)
(* The forward pass and its KV cache (qfz3-engine/src/graph.rs).           *)
(*                                                                         *)
(* The cache is a fixed array of n_ctx rows and a head, the number of rows *)
(* that belong to the conversation.  Clearing it only moves the head, so   *)
(* the rows of an earlier conversation stay behind it, and a pass whose    *)
(* compute step fails may have overwritten any of the rows it was going to *)
(* write.  The head, the positions given to RoPE, the causal mask and the  *)
(* rows written have to agree for the answer to depend on this             *)
(* conversation and nothing else.                                          *)
(*                                                                         *)
(* One row stands for the K and V rows of all layers at that index.  What  *)
(* a row holds is abstracted to what decides its numbers: the token, the   *)
(* position RoPE rotated it by and the number of keys its query could see. *)
(***************************************************************************)
EXTENDS Naturals, Sequences

CONSTANTS
    Token,      \* the token ids
    NCtx,       \* n_ctx, the number of rows
    MaxBatch,   \* bound: the longest prompt handed to prefill
    Blank,      \* the content of a row that was never written
    Torn        \* the content of a row an aborted compute left half-written

ASSUME ForwardPassAssumption ==
    /\ NCtx \in Nat \ {0}
    /\ MaxBatch \in Nat \ {0}
    /\ Blank \notin Token
    /\ Torn \notin Token

VARIABLES
    head,       \* kv.head
    row,        \* kv.k and kv.v
    logits,     \* the tokens the last returned logits are conditioned on
    outcome     \* how the last call ended

vars == <<head, row, logits, outcome>>

Row == 0 .. NCtx - 1
Cell == [tok : Token \cup {Blank, Torn}, pos : Nat, keys : Nat]
Outcome == {"none", "ok", "rejected", "failed"}

\* The prompts a caller hands to prefill.
Prompt == UNION {[1 .. n -> Token] : n \in 1 .. MaxBatch}

BlankCell == [tok |-> Blank, pos |-> 0, keys |-> 0]
TornCell == [tok |-> Torn, pos |-> 0, keys |-> 0]

\* KVCache::new: an empty cache over zeroed rows.
Init ==
    /\ head = 0
    /\ row = [r \in Row |-> BlankCell]
    /\ logits = <<>>
    /\ outcome = "none"

-----------------------------------------------------------------------------
\* The number of keys the causal mask shows query i (0-based) of a batch:
\* keys 0 .. head + i.
VisibleKeys(i) == head + i + 1

\* The rows a batch of n tokens writes.
Target(n) == head .. head + n - 1

\* A plausible bug: positions are counted from the start of the batch (the
\* REMEMBER note in prefill).
CellFromZero(ts, pos, r) ==
    [tok |-> ts[r - head + 1], pos |-> r - head, keys |-> VisibleKeys(r - head)]

\* What the batch ts leaves in row r when its first token has position pos.
CellOf(ts, pos, r) ==
    [tok |-> ts[r - head + 1], pos |-> pos + (r - head),
     keys |-> VisibleKeys(r - head)]

RowsAfter(ts, pos) ==
    [r \in Row |-> IF r \in Target(Len(ts)) THEN CellOf(ts, pos, r) ELSE row[r]]

\* The tokens a query that sees the first n keys reads from the rows cells.
Read(cells, n) == [i \in 1 .. n |-> cells[i - 1].tok]

\* head = kv_len.min(n_ctx).
Advanced(n) == IF head + n <= NCtx THEN head + n ELSE NCtx

\* The graph is computed: K and V are copied into the rows first and the
\* history, new rows included, is read after; only the last query's output
\* is returned.
Computed(ts, pos) ==
    /\ head + Len(ts) <= NCtx
    /\ row' = RowsAfter(ts, pos)
    /\ logits' = Read(row', VisibleKeys(Len(ts) - 1))
    /\ head' = Advanced(Len(ts))
    /\ outcome' = "ok"

\* A plausible bug: the head is moved before the result of the compute step
\* is looked at.
AbortedAfterAdvance(ts, pos) ==
    /\ head + Len(ts) <= NCtx
    /\ \E torn \in SUBSET Target(Len(ts)) :
        row' = [r \in Row |-> IF r \in torn THEN TornCell
                              ELSE RowsAfter(ts, pos)[r]]
    /\ head' = Advanced(Len(ts))
    /\ outcome' = "failed"
    /\ UNCHANGED logits

\* The compute step reports a failure: each row it was to write is still
\* old, already new, or torn (written in some layers only).
Aborted(ts, pos) ==
    /\ head + Len(ts) <= NCtx
    /\ \E new, torn \in SUBSET Target(Len(ts)) :
        row' = [r \in Row |-> IF r \in torn THEN TornCell
                              ELSE IF r \in new THEN CellOf(ts, pos, r)
                              ELSE row[r]]
    /\ outcome' = "failed"
    /\ UNCHANGED <<head, logits>>

\* The call returns an error before the graph runs: it does not fit
\* ("KV cache overflow"), an allocation failed or a weight is missing.
Rejected ==
    /\ outcome' = "rejected"
    /\ UNCHANGED <<head, row, logits>>

Forward(ts, pos) == Computed(ts, pos) \/ Aborted(ts, pos) \/ Rejected

\* prefill: the whole prompt in one batch, starting at the head.
Prefill == \E ts \in Prompt : Forward(ts, head)

\* decode_one: a single token, at the head.
DecodeOne == \E t \in Token : Forward(<<t>>, head)

\* reset_kv: the rows keep their contents.
ResetKv ==
    /\ head' = 0
    /\ UNCHANGED <<row, logits, outcome>>

Next == Prefill \/ DecodeOne \/ ResetKv

Spec == Init /\ [][Next]_vars

-----------------------------------------------------------------------------
(* Properties.                                                             *)

\* The variables keep their types.
TypeOK ==
    /\ head \in 0 .. NCtx
    /\ row \in [Row -> Cell]
    /\ logits \in Seq(Token \cup {Blank, Torn})
    /\ outcome \in Outcome

\* Every row of the conversation was rotated by its own index and computed
\* from the rows before it and itself, whether it arrived in a batch or one
\* token at a time, after a reset or after a failed pass: a prefill that
\* starts at position 0 on a non-empty cache (graph.rs, the note in prefill)
\* or a mask that is off by one breaks it.
RowsWellPlaced ==
    \A r \in Row : r < head => /\ row[r].tok \in Token
                               /\ row[r].pos = r
                               /\ row[r].keys = r + 1

\* The conversation the rows below the head hold.
Conversation == Read(row, head)

\* The cache implements the transcript its callers rely on: rows of earlier
\* conversations and of failed passes never reach an answer, and what was fed
\* is never overwritten.
Abstract == INSTANCE Transcript
                WITH Prompts <- Prompt, transcript <- Conversation, seen <- logits
ImplementsTranscript == Abstract!TInit /\ [][Abstract!TNext]_(Abstract!tvars)
=============================================================================
