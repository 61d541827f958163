------------------------------- MODULE Engine -------------------------------
(***************************************************************************)
(* The conversation engine (qfz3-engine/src/engine.rs) with the generation *)
(* loop it drives (generate.rs).                                           *)
(*                                                                         *)
(* The engine keeps two memories of a conversation: turn_messages, the raw *)
(* text of every user message, from which an evicted conversation is       *)
(* rebuilt, and the KV cache, which also holds the replies.  prepare_turn  *)
(* updates the first before run_generation touches the second, decides on  *)
(* eviction from an estimate over the first alone, and nothing is undone   *)
(* when the second refuses.  The module is about the two staying in step.  *)
(*                                                                         *)
(* The KV cache is used through what ForwardPass.tla shows it to be: a     *)
(* transcript that is extended or cleared.  A transcript is kept here as   *)
(* the turns and replies it consists of; head counts its token ids.        *)
(***************************************************************************)
EXTENDS Integers, SequencesExt

CONSTANTS
    ContextLen,     \* context_len, also the n_ctx of the KV cache
    Message,        \* the user messages
    Bytes,          \* Bytes[m]: msg.len()
    Tokens,         \* Tokens[m]: the number of token ids the text encodes to
    FirstFrame,     \* framing ids of a first turn: BOS, system prompt, headers
    FollowFrame,    \* framing ids of a follow-up: end of turn, headers
    MaxTokensArg,   \* the values callers pass as max_tokens (an i32)
    NoMessage       \* the msg of an entry that is a reply

ASSUME EngineAssumption ==
    /\ ContextLen \in Nat \ {0}
    /\ Bytes \in [Message -> Nat]
    /\ Tokens \in [Message -> Nat]
    /\ FirstFrame \in Nat \ {0}
    /\ FollowFrame \in Nat \ {0}
    /\ MaxTokensArg \subseteq Int
    /\ NoMessage \notin Message

VARIABLES
    turn_count,
    turn_messages,
    head,           \* fwd.kv.head
    cache,          \* the turns and replies fed since the last reset_kv
    phase,          \* where the running call is: "idle", "prefill" or "loop"
    turn_ids,       \* the prompt prepare_turn returned, until it is prefilled
    max_new,        \* cfg.max_new_tokens of the running call
    generated,
    next_token,     \* the sampled token: "eos" or any other, "text"
    result          \* how the last call ended

\* History variables: they guide no step.
VARIABLES
    lost,           \* the two memories have parted: see the actions
    forgotten       \* how many leading turn_messages predate the last reset

conversation == <<turn_count, turn_messages, lost, forgotten>>
kv == <<head, cache>>
call == <<phase, turn_ids, max_new, generated, next_token, result>>
vars == <<turn_count, turn_messages, head, cache, phase, turn_ids, max_new,
          generated, next_token, result, lost, forgotten>>

-----------------------------------------------------------------------------
\* A turn is a user message in one of the two forms the chat templates give
\* it; a reply stands for the tokens decoded after a turn.
Turn(form, m) == [form |-> form, msg |-> m]
Reply == [form |-> "reply", msg |-> NoMessage]
TurnEntry == [form : {"first", "followup"}, msg : Message]
Entry == TurnEntry \cup {Reply}

\* The length of build_chat_tokens(m) or build_followup_chat_tokens(m).
TurnLen(t) == Tokens[t.msg] + IF t.form = "first" THEN FirstFrame ELSE FollowFrame

\* The token ids of a prompt, one <<turn, offset>> pair for each.
TokenIds(p) == UNION {{i} \X (1 .. TurnLen(p[i])) : i \in DOMAIN p}
PromptLen(p) == Cardinality(TokenIds(p))

\* estimate_tokens
Estimate(m) == Bytes[m] \div 4 + 16

\* The sum of the estimates of messages i .. Len(ms).
EstimateFrom(ms, i) == MapThenSumSet(LAMBDA j : Estimate(ms[j]), i .. Len(ms))

\* A quarter of the window is reserved for output.
Available == ContextLen - ContextLen \div 4

\* keep_idx (1-based): the oldest message that still fits next to everything
\* newer than it.  When not even the newest fits the loop breaks at once and
\* keep_idx is still its initial 0: every message is kept.
KeepFrom(ms, needed) ==
    LET fitting == {i \in DOMAIN ms : needed + EstimateFrom(ms, i) <= Available}
    IN  IF fitting = {} THEN 1 ELSE Min(fitting)

\* A plausible bug: every kept message is re-framed as a follow-up, so the
\* rebuilt conversation has lost its system prompt.
RebuiltWithoutSystem(kept, turn) ==
    Append([i \in DOMAIN kept |-> Turn("followup", kept[i])], turn)

\* The kept messages re-framed as turns, then the new turn as it was built
\* before the eviction.
Rebuilt(kept, turn) ==
    Append([i \in DOMAIN kept |->
                Turn(IF i = 1 THEN "first" ELSE "followup", kept[i])], turn)

Init ==
    /\ turn_count = 0
    /\ turn_messages = <<>>
    /\ head = 0
    /\ cache = <<>>
    /\ phase = "idle"
    /\ turn_ids = <<>>
    /\ max_new = 1
    /\ generated = 0
    /\ next_token = "none"
    /\ result = "none"
    /\ lost = FALSE
    /\ forgotten = 0

-----------------------------------------------------------------------------
(* prepare_turn.                                                           *)

\* The form of the next turn, by the turn counter.
NextTurn(m) == Turn(IF turn_count = 0 THEN "first" ELSE "followup", m)

Fits(m) == EstimateFrom(turn_messages, 1) + TurnLen(NextTurn(m)) <= Available

\* A plausible bug: the message is sent but not remembered.
AppendTurnUnrecorded(m) ==
    /\ Fits(m)
    /\ turn_count' = turn_count + 1
    /\ turn_ids' = <<NextTurn(m)>>
    /\ UNCHANGED <<turn_messages, head, cache, lost, forgotten>>

\* The turn is appended to the conversation in the cache.
AppendTurn(m) ==
    /\ Fits(m)
    /\ turn_messages' = Append(turn_messages, m)
    /\ turn_count' = turn_count + 1
    /\ turn_ids' = <<NextTurn(m)>>
    /\ UNCHANGED <<head, cache, lost, forgotten>>

\* A plausible bug: the oldest messages are kept and the newest dropped.
KeptOldest(m) ==
    SubSeq(turn_messages, 1,
           Len(turn_messages) + 1
               - KeepFrom(turn_messages, TurnLen(NextTurn(m))))

Kept(m) ==
    SubSeq(turn_messages, KeepFrom(turn_messages, TurnLen(NextTurn(m))),
           Len(turn_messages))

ClearKv == head' = 0 /\ cache' = <<>>

\* The oldest messages are dropped and the prompt is rebuilt from the rest.
\* The rebuilt prompt is a chat again unless the new turn was framed as a
\* first one although there are messages before it.
RebuildWindow(m) ==
    LET kept == Kept(m)
    IN  /\ ~Fits(m)
        /\ PromptLen(Rebuilt(kept, NextTurn(m))) <= Available
        /\ turn_messages' = Append(kept, m)
        /\ turn_count' = Len(kept) + 1
        /\ turn_ids' = Rebuilt(kept, NextTurn(m))
        /\ ClearKv
        /\ lost' = (turn_count = 0 /\ turn_messages # <<>>)
        /\ forgotten' = Max({0, forgotten - (Len(turn_messages) - Len(kept))})

\* A plausible bug: the full reset drops the messages and leaves the rows.
FullResetOfMemory(m) ==
    /\ ~Fits(m)
    /\ PromptLen(Rebuilt(Kept(m), NextTurn(m))) > Available
    /\ turn_messages' = <<m>>
    /\ turn_count' = 1
    /\ turn_ids' = <<Turn("first", m)>>
    /\ UNCHANGED <<head, cache>>
    /\ lost' = FALSE
    /\ forgotten' = 0

\* The rebuilt prompt is still too long: only the new message is kept.
FullReset(m) ==
    /\ ~Fits(m)
    /\ PromptLen(Rebuilt(Kept(m), NextTurn(m))) > Available
    /\ turn_messages' = <<m>>
    /\ turn_count' = 1
    /\ turn_ids' = <<Turn("first", m)>>
    /\ ClearKv
    /\ lost' = FALSE
    /\ forgotten' = 0

\* generate_inner up to the call of run_generation.
Generate(m, max_tokens) ==
    /\ phase = "idle"
    /\ AppendTurn(m) \/ RebuildWindow(m) \/ FullReset(m)
    /\ max_new' = Max({max_tokens, 1})
    /\ phase' = "prefill"
    /\ generated' = 0
    /\ next_token' = "none"
    /\ result' = "none"

-----------------------------------------------------------------------------
(* run_generation_inner.                                                   *)

Return(outcome) ==
    /\ phase' = "idle"
    /\ turn_ids' = <<>>
    /\ generated' = 0
    /\ max_new' = 1
    /\ result' = outcome

\* A plausible bug: a full window is answered by clearing the cache and
\* trying the same prompt again, however long it is.
ContextFullRetried ==
    /\ phase = "prefill"
    /\ head + PromptLen(turn_ids) > ContextLen
    /\ ClearKv
    /\ UNCHANGED <<conversation, call>>

\* ContextFull: the prompt does not fit behind the head.  The message is
\* already in turn_messages.
ContextFull ==
    /\ phase = "prefill"
    /\ head + PromptLen(turn_ids) > ContextLen
    /\ Return("ContextFull")
    /\ lost' = TRUE
    /\ UNCHANGED <<turn_count, turn_messages, forgotten, kv, next_token>>

\* prefill returns an error; the head does not move.
PrefillFails ==
    /\ phase = "prefill"
    /\ head + PromptLen(turn_ids) <= ContextLen
    /\ Return("Error")
    /\ lost' = TRUE
    /\ UNCHANGED <<turn_count, turn_messages, forgotten, kv, next_token>>

FeedPrompt ==
    /\ phase = "prefill"
    /\ head + PromptLen(turn_ids) <= ContextLen
    /\ head' = head + PromptLen(turn_ids)
    /\ cache' = cache \o turn_ids

\* The prompt is prefilled and the first token sampled.
Prefill ==
    /\ FeedPrompt
    /\ phase' = "loop"
    /\ turn_ids' = <<>>
    /\ next_token' \in {"eos", "text"}
    /\ UNCHANGED <<conversation, max_new, generated, result>>

\* The prompt is prefilled, but the logits are rejected.
PrefillThenSampleFails ==
    /\ FeedPrompt
    /\ Return("Error")
    /\ UNCHANGED <<conversation, next_token>>

\* A plausible bug: the loop does not look at the space left in the cache.
LoopEndsUnbounded == next_token = "eos" \/ generated >= max_new

\* The three break conditions, in the order of the loop.
LoopEnds == next_token = "eos" \/ generated >= max_new \/ head >= ContextLen

\* generate_rich derives the stop reason from the count alone.
StopReason == IF generated >= max_new THEN "MaxTokens" ELSE "EndOfTurn"

Finish ==
    /\ phase = "loop"
    /\ LoopEnds
    /\ Return(StopReason)
    /\ UNCHANGED <<conversation, kv, next_token>>

FeedToken ==
    /\ phase = "loop"
    /\ ~LoopEnds
    /\ head' = head + 1
    /\ cache' = IF Last(cache) = Reply THEN cache ELSE Append(cache, Reply)

\* The sampled token is emitted and fed back, and the next one is sampled.
Decode ==
    /\ FeedToken
    /\ generated' = generated + 1
    /\ next_token' \in {"eos", "text"}
    /\ UNCHANGED <<conversation, phase, turn_ids, max_new, result>>

DecodeThenSampleFails ==
    /\ FeedToken
    /\ Return("Error")
    /\ UNCHANGED <<conversation, next_token>>

DecodeFails ==
    /\ phase = "loop"
    /\ ~LoopEnds
    /\ Return("Error")
    /\ UNCHANGED <<conversation, kv, next_token>>

-----------------------------------------------------------------------------
\* Engine::reset: the raw messages stay.
Reset ==
    /\ phase = "idle"
    /\ ClearKv
    /\ turn_count' = 0
    /\ forgotten' = Len(turn_messages)
    /\ lost' = (turn_messages # <<>>)
    /\ UNCHANGED <<turn_messages, call>>

\* The rest of a running call.
Continue ==
    \/ ContextFull
    \/ PrefillFails
    \/ Prefill
    \/ PrefillThenSampleFails
    \/ Finish
    \/ Decode
    \/ DecodeThenSampleFails
    \/ DecodeFails

Next ==
    \/ \E m \in Message, n \in MaxTokensArg : Generate(m, n)
    \/ Continue
    \/ Reset

\* A call is synchronous code that waits for nobody: once entered it runs.
Fairness == WF_vars(Continue)

Spec == Init /\ [][Next]_vars
FairSpec == Spec /\ Fairness

-----------------------------------------------------------------------------
(* Properties.                                                             *)

\* The variables keep their types; the head stays within the window.
TypeOK ==
    /\ turn_count \in Nat
    /\ turn_messages \in Seq(Message)
    /\ head \in 0 .. ContextLen
    /\ cache \in Seq(Entry)
    /\ phase \in {"idle", "prefill", "loop"}
    /\ turn_ids \in Seq(TurnEntry)
    /\ max_new \in Nat \ {0}
    /\ generated \in Nat
    /\ next_token \in {"none", "eos", "text"}
    /\ result \in {"none", "EndOfTurn", "MaxTokens", "ContextFull", "Error"}
    /\ lost \in BOOLEAN
    /\ forgotten \in Nat

\* What the next answer will be conditioned on.
Context == cache \o turn_ids

\* A chat the model was trained on: one system prompt, at the front, and
\* every reply after a turn.
WellFormed(chat) ==
    \A i \in DOMAIN chat :
        /\ chat[i].form = "first" <=> i = 1
        /\ chat[i].form = "reply" => i > 1 /\ chat[i - 1].form # "reply"

TurnsOf(chat) == {i \in DOMAIN chat : chat[i] # Reply}

\* The turns of a chat are those of the messages that at leads them to, in
\* the same order.
Remembered(chat, ms, at) ==
    /\ \A i, j \in TurnsOf(chat) : i < j => at[i] < at[j]
    /\ \A i \in TurnsOf(chat) : chat[i].msg = ms[at[i]]

\* As long as no turn failed before it reached the cache and no reset left
\* messages behind, whatever was evicted and however replies ended, the model
\* is given exactly one system prompt, first, and well-nested turns
\* (prepare_turn frames a turn by turn_count, which a rebuild counts anew).
ChatShape == ~lost => WellFormed(Context)

\* ... and the messages remembered for a rebuild are the messages in the
\* cache: nothing the model has seen is missing from the eviction's account.
Remembers ==
    ~lost => \E at \in [TurnsOf(Context) -> DOMAIN turn_messages] :
                /\ Remembered(Context, turn_messages, at)
                /\ \A j \in DOMAIN turn_messages : \E i \in DOMAIN at : at[i] = j

\* Even after failed turns and resets, the cache never holds a message the
\* engine has dropped from turn_messages: evicting a message always takes its
\* rows with it.
CacheWithinMemory ==
    \E at \in [TurnsOf(Context) -> DOMAIN turn_messages] :
        Remembered(Context, turn_messages, at)

\* turn_messages is a window that slides over the messages of the
\* conversation: a step appends one message, drops only from the old end, and
\* drops none without clearing the cache that still holds them.
SlidingWindow ==
    [][turn_messages' # turn_messages =>
         /\ Front(turn_messages') \in Suffixes(turn_messages)
         /\ Len(turn_messages') <= Len(turn_messages) => head' = 0]_vars

\* Every call returns: a reply stops at the end of the turn, at max_tokens or
\* at the end of the window, and no error keeps the engine busy.
TurnEnds == phase # "idle" ~> phase = "idle"

-----------------------------------------------------------------------------
(* What the documentation says and the code does not do.                   *)

\* engine.rs, GenOutput: an "honest stop reason".  A reply cut off by the end
\* of the window is reported as EndOfTurn too.
HonestStop == result = "EndOfTurn" => next_token = "eos"

\* README: the oldest turns are evicted "instead of hard-failing once the
\* window fills up": a call may fail for lack of room only if its message
\* would not fit even in an empty window.  The eviction estimate counts no
\* reply.
NoHardFail ==
    result = "ContextFull" =>
        TurnLen(Turn("first", Last(turn_messages))) > ContextLen

\* README: /reset clears "conversation memory and KV cache": the context
\* never holds more user messages than were sent since the last reset.  The
\* messages stay behind and an eviction brings them back.
ForgetsOnReset ==
    Cardinality(TurnsOf(Context)) <= Len(turn_messages) - forgotten
=============================================================================
