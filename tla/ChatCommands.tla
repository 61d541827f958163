---------------------------- MODULE ChatCommands ----------------------------
(***************************************************************************)
(* The commands of the desktop application (ZeroCopies/src-tauri/src/      *)
(* lib.rs): load_model and chat_inference over one locked model and its    *)
(* session.  Commands run on a pool of threads, so several are under way   *)
(* at a time; load_model builds its model before it takes the lock,        *)
(* chat_inference holds the lock from beginning to end.                    *)
(*                                                                         *)
(* The session keeps the conversation as one sequence of tokens and trims  *)
(* it from the front when the next turn would not fit; the KV cache holds  *)
(* what the model was really fed.  lib.rs is written against a library of  *)
(* its own (z1-core), which is not in the repository: its session and      *)
(* run_generation_captured are modelled by how lib.rs uses them.           *)
(***************************************************************************)
EXTENDS Naturals, SequencesExt

CONSTANTS
    Call,           \* the commands that can be under way at a time
    Model,          \* the files load_model may be asked for
    NoModel,
    NoCall,
    PromptLens,     \* token counts of the prompts; 0 is a blank prompt
    Frame,          \* framing tokens of a turn
    SystemLen,      \* session.system_tokens.len()
    ContextLen,     \* session.context_len
    MaxNew,         \* cfg.max_new_tokens
    DropSize,       \* how many tokens a trim drops; 128 in the code
    MaxTurns        \* bound: chat is asked for while turn_count is below it

ASSUME ChatAssumption ==
    /\ NoModel \notin Model /\ NoCall \notin Call
    /\ IsFiniteSet(Call)
    /\ PromptLens \subseteq Nat
    /\ {Frame, ContextLen, DropSize} \subseteq Nat \ {0}
    /\ {SystemLen, MaxNew, MaxTurns} \subseteq Nat

VARIABLES
    call,           \* the stage of each command
    arg,            \* its argument: the model or the length of the prompt
    lock,           \* the command that holds state.loaded
    loaded,         \* the model in it
    history,        \* session.history_tokens
    turn_count,     \* session.turn_count
    cache,          \* the tokens in the KV cache
    reprefill,      \* requires_reprefill of the command holding the lock
    prompt          \* its tokens_to_process

session == <<loaded, history, turn_count, cache>>
work == <<reprefill, prompt>>
cvars == <<call, arg, lock, session, work>>

CInit ==
    /\ call = [c \in Call |-> "idle"]
    /\ arg = [c \in Call |-> NoModel]
    /\ lock = NoCall
    /\ loaded = NoModel
    /\ history = <<>> /\ turn_count = 0 /\ cache = <<>>
    /\ reprefill = FALSE /\ prompt = <<>>

\* Tokens are told apart by turn, origin and place, never by content.
Run(turn, origin, n) == [i \in 1 .. n |-> <<turn, origin, i>>]
System == Run(0, "system", SystemLen)
NewTurn(c) == Run(turn_count, "user", arg[c] + Frame)

Stage(c, stage) == call' = [call EXCEPT ![c] = stage]

-----------------------------------------------------------------------------
(* load_model.                                                             *)

AskLoad(c, m) ==
    /\ call[c] = "idle"
    /\ call' = [call EXCEPT ![c] = "building"]
    /\ arg' = [arg EXCEPT ![c] = m]
    /\ UNCHANGED <<lock, session, work>>

\* The file, the tokenizer or the forward pass is refused: the model in
\* place stays.
BuildFails(c) ==
    /\ call[c] = "building"
    /\ Stage(c, "failed")
    /\ UNCHANGED <<arg, lock, session, work>>

Build(c) ==
    /\ call[c] = "building"
    /\ Stage(c, "built")
    /\ UNCHANGED <<arg, lock, session, work>>

\* A new model comes with a session and a cache of its own.
Install(c) ==
    /\ call[c] = "built"
    /\ lock = NoCall
    /\ loaded' = arg[c]
    /\ history' = <<>> /\ turn_count' = 0 /\ cache' = <<>>
    /\ Stage(c, "ok")
    /\ UNCHANGED <<arg, lock, work>>

-----------------------------------------------------------------------------
(* chat_inference.                                                         *)

AskChat(c, n) ==
    /\ call[c] = "idle"
    /\ turn_count < MaxTurns
    /\ call' = [call EXCEPT ![c] = "waiting"]
    /\ arg' = [arg EXCEPT ![c] = n]
    /\ UNCHANGED <<lock, session, work>>

Needed(c) == arg[c] + Frame + MaxNew

\* No model, a blank prompt, or a turn that can never fit.  (With unsigned
\* subtraction saturating, system tokens beyond the context leave no room.)
Refused(c) ==
    \/ loaded = NoModel
    \/ arg[c] = 0
    \/ SystemLen + Needed(c) > ContextLen

Refuse(c) ==
    /\ call[c] = "waiting"
    /\ lock = NoCall
    /\ Refused(c)
    /\ Stage(c, "failed")
    /\ UNCHANGED <<arg, lock, session, work>>

\* A plausible bug: the guard is dropped once the model was found.
AdmitUnlocked(c) ==
    /\ call[c] = "waiting"
    /\ lock = NoCall
    /\ ~Refused(c)
    /\ reprefill' = FALSE
    /\ Stage(c, "trimming")
    /\ UNCHANGED <<arg, lock, session, prompt>>

Admit(c) ==
    /\ call[c] = "waiting"
    /\ lock = NoCall
    /\ ~Refused(c)
    /\ lock' = c
    /\ reprefill' = FALSE
    /\ Stage(c, "trimming")
    /\ UNCHANGED <<arg, session, prompt>>

\* A plausible bug: the tokens to be generated are not counted.
CrowdedByPrompt(c) ==
    SystemLen + Len(history) + arg[c] + Frame > ContextLen

Crowded(c) == SystemLen + Len(history) + Needed(c) > ContextLen

\* The oldest tokens go, wherever that cuts a turn.
TrimHistory(c) ==
    /\ call[c] = "trimming"
    /\ Crowded(c)
    /\ history' = SubSeq(history, DropSize + 1, Len(history))
    /\ reprefill' = TRUE
    /\ UNCHANGED <<call, arg, lock, loaded, turn_count, cache, prompt>>

\* A plausible bug: only the first turn resets the cache.
FromScratchOnFirstTurn == turn_count = 0

FromScratch == reprefill \/ turn_count = 0

StartRun(c) ==
    /\ call[c] = "trimming"
    /\ ~Crowded(c)
    /\ history' = history \o NewTurn(c)
    /\ IF FromScratch
       THEN cache' = <<>> /\ prompt' = System \o history'
       ELSE cache' = cache /\ prompt' = NewTurn(c)
    /\ turn_count' = turn_count + 1
    /\ Stage(c, "running")
    /\ UNCHANGED <<arg, lock, loaded, reprefill>>

\* run_generation_captured feeds the prompt and n generated tokens, as far as
\* the cache has room for them.
Feed(n) ==
    /\ Len(cache) + Len(prompt) + n <= ContextLen
    /\ cache' = cache \o prompt \o Run(turn_count, "model", n)

\* The session records the reply and an end of turn; the cache has no such
\* token.
RunEnds(c) ==
    /\ call[c] = "running"
    /\ \E n \in 0 .. MaxNew :
          /\ Feed(n)
          /\ history' = history \o Run(turn_count, "model", n)
                                \o Run(turn_count, "end", 1)
    /\ lock' = NoCall
    /\ prompt' = <<>>
    /\ Stage(c, "ok")
    /\ UNCHANGED <<arg, loaded, turn_count, reprefill>>

\* It fails before anything is fed or after any number of tokens; the turn
\* stays in the session, the tokens of its reply do not get there.
RunFails(c) ==
    /\ call[c] = "running"
    /\ cache' = cache \/ \E n \in 0 .. MaxNew : Feed(n)
    /\ lock' = NoCall
    /\ prompt' = <<>>
    /\ Stage(c, "failed")
    /\ UNCHANGED <<arg, loaded, history, turn_count, reprefill>>

\* The answer reaches the caller.
Collect(c) ==
    /\ call[c] \in {"ok", "failed"}
    /\ Stage(c, "idle")
    /\ UNCHANGED <<arg, lock, session, work>>

-----------------------------------------------------------------------------

Serve(c) ==
    \/ BuildFails(c) \/ Build(c) \/ Install(c)
    \/ Refuse(c) \/ Admit(c) \/ TrimHistory(c) \/ StartRun(c)
    \/ RunEnds(c) \/ RunFails(c)

CNext ==
    \E c \in Call :
        \/ \E m \in Model : AskLoad(c, m)
        \/ \E n \in PromptLens : AskChat(c, n)
        \/ Serve(c)
        \/ Collect(c)

CSpec == CInit /\ [][CNext]_cvars

-----------------------------------------------------------------------------
(* Properties.                                                             *)

Stages == {"idle", "building", "built", "waiting", "trimming", "running",
           "ok", "failed"}

\* The types, and that the lock is held exactly by the command at work on
\* the session.
CTypeOK ==
    /\ call \in [Call -> Stages]
    /\ loaded \in Model \cup {NoModel}
    /\ turn_count \in 0 .. MaxTurns + Cardinality(Call)
    /\ Len(cache) <= ContextLen
    /\ \A c \in Call : lock = c <=> call[c] \in {"trimming", "running"}

\* The tokens in the cache that the session knows nothing of.
Unrecorded == ToSet(cache) \ (ToSet(System) \cup ToSet(history))

\* A turn that runs has room for its whole reply: the trimming, which counts
\* the session's tokens, never underestimates the cache, except by tokens
\* that a failed turn left behind.
PromptFits ==
    (\E c \in Call : call[c] = "running") =>
        Len(cache) + Len(prompt) + MaxNew <= ContextLen + Cardinality(Unrecorded)

\* What was trimmed from the session the model no longer reads: while no
\* command is trimming, the cache holds nothing the session has dropped, only
\* the replies of failed turns are unknown to it.
ForgetsTrimmed ==
    (\A c \in Call : call[c] # "trimming") =>
        \A t \in Unrecorded : t[2] = "model"

=============================================================================
