------------------------------ MODULE Sampler ------------------------------
(***************************************************************************)
(* Drawing the next token (sample_token in qfz3-engine/src/logits.rs), in  *)
(* the loop of run_generation_inner that feeds the drawn tokens back as    *)
(* the recent ones.                                                        *)
(*                                                                         *)
(* A call penalises the recent tokens, scales by the temperature, keeps    *)
(* the k best, cuts the sorted list where the probability mass reaches     *)
(* top_p and draws from what is left.  Logits are small integers chosen so *)
(* that the penalty divides them; the softmax weight of a logit l is 2^l   *)
(* instead of e^l, which keeps every comparison exact.  Which of several   *)
(* equal logits sorts first, and what the generator draws, is left open.   *)
(***************************************************************************)
EXTENDS Integers, Sequences, FiniteSets, SequencesExt, FiniteSetsExt

CONSTANTS
    Token,          \* the vocabulary
    Eos,            \* the token that ends a reply
    Logit,          \* bound: the logits the model returns
    Configs,        \* the sampling configurations: see ConfigType
    RecentMax,      \* 64: how many tokens count as recent
    NoLimit,        \* top_k = None
    NoToken         \* no token is drawn yet

\* The temperature is given by its inverse, 0 for one that is not positive;
\* top_p as a fraction.  The penalty is 1 or more: no part of the program sets
\* another than the default.
ConfigType == [inv_temp : Nat, top_p : Nat \X (Nat \ {0}),
               top_k : Nat \cup {NoLimit}, penalty : Nat \ {0}]

ASSUME SamplerAssumption ==
    /\ IsFiniteSet(Token)
    /\ Eos \in Token /\ NoToken \notin Token
    /\ Logit \subseteq Int
    /\ Configs \subseteq ConfigType
    /\ RecentMax \in Nat \ {0}

VARIABLES
    pc,         \* the step the call is at
    cfg,        \* the sampling configuration
    raw,        \* the logits the model returned
    logits,     \* the logits, as the call changes them
    recent,     \* the recent tokens, oldest first
    indices,    \* the tokens kept so far, best first
    chosen      \* the token returned

vars == <<pc, cfg, raw, logits, recent, indices, chosen>>

Label == {"model", "call", "topk", "topp", "draw", "returned", "refused", "panicked"}

Init ==
    /\ pc = "model"
    /\ cfg \in Configs
    /\ raw = [t \in Token |-> 0]
    /\ logits = raw
    /\ recent = <<>>
    /\ indices = <<>>
    /\ chosen = NoToken

-----------------------------------------------------------------------------
\* The forward pass answers.
ModelAnswers ==
    /\ pc = "model"
    /\ raw' \in [Token -> Logit]
    /\ logits' = raw'
    /\ pc' = "call"
    /\ UNCHANGED <<cfg, recent, indices, chosen>>

\* SamplingConfig::validate.
Valid(c) ==
    /\ c.inv_temp > 0
    /\ c.top_p[1] > 0 /\ c.top_p[1] <= c.top_p[2]

\* The call returns an error; the reply ends.
Refuse ==
    /\ pc = "call"
    /\ ~Valid(cfg)
    /\ pc' = "refused"
    /\ UNCHANGED <<cfg, raw, logits, recent, indices, chosen>>

\* A plausible bug: dividing always makes a logit smaller.
PenalisedByDividing(l, penalty) ==
    IF l > 0 THEN l \div penalty ELSE -((-l) \div penalty)

\* In the direction that reduces the probability.
Penalised(l, penalty) == IF l > 0 THEN l \div penalty ELSE l * penalty

\* apply_repeat_penalty: once for every occurrence among the recent tokens.
RepeatPenalty(ls, toks, penalty) ==
    FoldLeft(LAMBDA m, t : [m EXCEPT ![t] = Penalised(@, penalty)], ls, toks)

\* Steps 1 and 2: the repeat penalty and the temperature.
Rescale ==
    /\ pc = "call"
    /\ Valid(cfg)
    /\ LET penalised == RepeatPenalty(logits, recent, cfg.penalty)
       IN  logits' = [t \in Token |-> penalised[t] * cfg.inv_temp]
    /\ pc' = "topk"
    /\ UNCHANGED <<cfg, raw, recent, indices, chosen>>

Vocab == Cardinality(Token)

\* A plausible bug: a k beyond the vocabulary is taken as it is.
KeepUnbounded(c) == IF c.top_k = NoLimit THEN Vocab ELSE c.top_k

\* top_k.unwrap_or(vocab).min(vocab)
Keep(c) ==
    IF c.top_k = NoLimit \/ c.top_k > Vocab THEN Vocab ELSE c.top_k

\* The orders sort may leave the k best tokens in.
BestFirst(ls, k) ==
    {s \in [1 .. k -> Token] :
        /\ \A i, j \in 1 .. k : i < j => s[i] # s[j] /\ ls[s[i]] >= ls[s[j]]
        /\ \A t \in Token \ ToSet(s) : ls[t] <= ls[s[k]]}

\* Step 3: the k best, sorted.
SelectTopK ==
    /\ pc = "topk"
    /\ Keep(cfg) \in 1 .. Vocab
    /\ indices' \in BestFirst(logits, Keep(cfg))
    /\ pc' = "topp"
    /\ UNCHANGED <<cfg, raw, logits, recent, chosen>>

\* select_nth_unstable_by is called with k - 1, which it has to have.
TopKPanics ==
    /\ pc = "topk"
    /\ Keep(cfg) - 1 \notin 0 .. Vocab - 1
    /\ pc' = "panicked"
    /\ UNCHANGED <<cfg, raw, logits, recent, indices, chosen>>

\* Step 4: the softmax weight of a token, up to the common divisor.
Weight(ls, t) == 2 ^ (ls[t] - Min({ls[u] : u \in Token}))
Mass(ls, ts) == MapThenSumSet(LAMBDA t : Weight(ls, t), ts)

\* The tokens of ts make up a share of at least top_p of the mass of whole.
Reaches(ls, ts, whole, top_p) ==
    Mass(ls, ts) * top_p[2] >= top_p[1] * Mass(ls, whole)

\* A plausible bug: the token that crosses the threshold is left in, and the
\* one after it.
CutoffPastThreshold(ls, sorted, top_p) ==
    Min({Len(sorted)} \cup
        {n + 1 : n \in {m \in 1 .. Len(sorted) - 1 :
            Reaches(ls, ToSet(SubSeq(sorted, 1, m)), ToSet(sorted), top_p)}})

\* How many tokens stay: as many as it takes to reach top_p, or all.
Cutoff(ls, sorted, top_p) ==
    Min({Len(sorted)} \cup {n \in 1 .. Len(sorted) :
            Reaches(ls, ToSet(SubSeq(sorted, 1, n)), ToSet(sorted), top_p)})

\* Step 5: the nucleus.
CutNucleus ==
    /\ pc = "topp"
    /\ indices' = SubSeq(indices, 1, Cutoff(logits, indices, cfg.top_p))
    /\ pc' = "draw"
    /\ UNCHANGED <<cfg, raw, logits, recent, chosen>>

\* A plausible bug: the place in the sorted list is taken for the token.
DrawnFromVocabulary(sorted) == Token

\* Step 6: the generator picks a token of the nucleus; where rounding keeps
\* the sum below the threshold, the best one.
Drawable(sorted) == ToSet(sorted)

Draw ==
    /\ pc = "draw"
    /\ chosen' \in Drawable(indices)
    /\ pc' = "returned"
    /\ UNCHANGED <<cfg, raw, logits, recent, indices>>

-----------------------------------------------------------------------------
\* A plausible bug: a token joins the recent ones as soon as it is drawn.
RememberedAlways(toks, t) == [keep |-> TRUE, recent |-> Append(toks, t)]

\* The loop ends at the end token before it remembers it.
Remembered(toks, t) == [keep |-> t # Eos, recent |-> Append(toks, t)]

\* The oldest of too many recent tokens goes.
Trimmed(toks) == IF Len(toks) > RecentMax THEN Tail(toks) ELSE toks

\* The loop feeds the token back.
Continue ==
    /\ pc = "returned"
    /\ LET r == Remembered(recent, chosen)
       IN  /\ r.keep
           /\ recent' = Trimmed(r.recent)
    /\ pc' = "model"
    /\ indices' = <<>>
    /\ chosen' = NoToken
    /\ UNCHANGED <<cfg, raw, logits>>

\* The reply ends: at the end token, at the token limit or at the end of the
\* cache.  The next reply starts with no recent tokens.
EndReply ==
    /\ pc = "returned"
    /\ pc' = "model"
    /\ recent' = <<>>
    /\ indices' = <<>>
    /\ chosen' = NoToken
    /\ UNCHANGED <<cfg, raw, logits>>

Next ==
    \/ ModelAnswers
    \/ Refuse
    \/ Rescale
    \/ SelectTopK
    \/ TopKPanics
    \/ CutNucleus
    \/ Draw
    \/ Continue
    \/ EndReply

Spec == Init /\ [][Next]_vars

-----------------------------------------------------------------------------
\* Type correctness.  sample_token panics for one configuration only, top_k =
\* Some(0), which validate lets through: every other k is brought into the
\* vocabulary, and the lists that follow are never empty.
TypeOK ==
    /\ pc \in Label
    /\ cfg \in Configs
    /\ raw \in [Token -> Logit \cup {0}]
    /\ logits \in [Token -> Int]
    /\ Len(recent) <= RecentMax /\ ToSet(recent) \subseteq Token
    /\ indices \in [1 .. Len(indices) -> Token] /\ IsInjective(indices)
    /\ chosen \in Token \cup {NoToken}
    /\ pc = "panicked" => cfg.top_k = 0

\* Penalising never moves a recent token past one that is not recent,
\* whatever the signs of their logits and however often it occurs: the two
\* branches of apply_repeat_penalty and the scaling push the same way.
NeverPromoted ==
    pc = "topk" =>
        \A t \in ToSet(recent), u \in Token \ ToSet(recent) :
            raw[t] <= raw[u] => logits[t] <= logits[u]

\* The nucleus is a smallest set of the k best tokens that makes up top_p of
\* their mass: the scan of the sorted list drops nothing it needs and keeps
\* nothing it does not, although it never compares sets.
NucleusIsSmallest ==
    pc = "draw" =>
        \A best \in {ToSet(s) : s \in BestFirst(logits, Keep(cfg))} :
            /\ Reaches(logits, ToSet(indices), best, cfg.top_p)
            /\ \A ts \in SUBSET best :
                   Reaches(logits, ts, best, cfg.top_p) =>
                       Cardinality(ts) >= Len(indices)

\* The token returned is one of the k best, and the tokens better than it
\* make up less than top_p of the mass: one cut never undoes the other.
DrawnFromBest ==
    pc = "returned" =>
        LET better == {t \in Token : logits[t] > logits[chosen]}
        IN  /\ Cardinality(better) < Keep(cfg)
            /\ \E s \in BestFirst(logits, Keep(cfg)) :
                   ~Reaches(logits, better, ToSet(s), cfg.top_p)

\* A reply never becomes less likely to end because of how long it is: the
\* end token is never penalised, so its logit is the model's own, scaled.
EndNeverPenalised ==
    pc = "topk" => logits[Eos] = raw[Eos] * cfg.inv_temp
=============================================================================
