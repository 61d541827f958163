---------------------------- MODULE ForwardCall ----------------------------
(***************************************************************************)
(* A forward pass step by step, with what it takes and gives back, beside  *)
(* the loading of a model (forward, KVCache::new and the drops in          *)
(* qfz3-engine/src/graph.rs, MappedModel in loader.rs, load_model in the   *)
(* desktop's lib.rs).                                                      *)
(*                                                                         *)
(* ggml hands its contexts out of one pool for the whole process.  A pass  *)
(* takes two of them, and two more buffers, and has an exit after every    *)
(* step; a loaded model keeps two.  The desktop loads the next model while *)
(* a pass runs on the current one, and drops the current one when it takes *)
(* its place.  ForwardPass says what a pass does to the cache; here each   *)
(* of its outcomes is bound to the exit that leaves with it.               *)
(***************************************************************************)
EXTENDS ForwardPass, FiniteSets

CONSTANTS
    MaxContexts,    \* GGML_MAX_CONTEXTS
    MaxLoads,       \* bound: how often a model is loaded
    Null,           \* the null pointer
    Alive           \* any other pointer to a buffer

\* A model, a load and a pass together hold six contexts; GGML_MAX_CONTEXTS
\* is 64.
ASSUME ForwardCallAssumption ==
    /\ MaxContexts \in Nat /\ MaxContexts >= 6
    /\ MaxLoads \in Nat
    /\ {Null, Alive} \cap Nat = {}
    /\ Null # Alive

VARIABLES
    missing,    \* the weights the model file lacks
    pool,       \* g_state.contexts: the contexts in use
    buffers,    \* how many buffers and graph allocators are alive
    step,       \* the step forward() is at, "idle" between calls
    batch,      \* the tokens of the call
    call,       \* the handles of the call
    loader,     \* the step load_model is at
    loads,      \* how many loads were begun
    next,       \* the handles of the model being loaded
    model       \* the handles of the model in use

resources == <<missing, pool, buffers, step, batch, call, loader, loads, next, model>>
callVars == <<step, batch, call>>
loadVars == <<loader, loads, next, model>>
fvars == <<vars, resources>>

Slot == 1 .. MaxContexts
CtxHandle == {"inp_ctx", "ctx", "ggml_ctx", "kv_ctx"}
CallHandle == {"inp_buf", "inp_ctx", "ctx", "galloc"}
ModelHandle == {"weight_buf", "ggml_ctx", "data_buf", "kv_ctx"}
Weight == {"token_embd", "other"}
Nothing(handles) == [h \in handles |-> Null]

Crashed == step = "crashed"
Fits == head + Len(batch) <= NCtx
Loaded == model["weight_buf"] # Null

FInit ==
    /\ Init
    /\ missing \in SUBSET Weight
    /\ pool = {}
    /\ buffers = 0
    /\ step = "idle"
    /\ batch = <<>>
    /\ call = Nothing(CallHandle)
    /\ loader = "none"
    /\ loads = 0
    /\ next = Nothing(ModelHandle)
    /\ model = Nothing(ModelHandle)

-----------------------------------------------------------------------------
\* A plausible bug: ggml_init leaves it to its caller to mark the context.
HandedOutUnmarked(slot) == pool' = pool

\* ggml_init marks the context it found as used.
HandedOut(slot) == pool' = pool \cup {slot}

\* A plausible bug: the search runs one past the end of the pool.
UnusedPastTheEnd ==
    LET slots == 1 .. MaxContexts + 1
    IN  IF slots \subseteq pool THEN Null
        ELSE CHOOSE s \in slots \ pool : \A u \in slots \ pool : s <= u

\* The first unused context, or null.
Unused ==
    IF Slot \subseteq pool THEN Null
    ELSE CHOOSE s \in Slot \ pool : \A u \in Slot \ pool : s <= u

\* ggml_init stores a context in field h of handles.
GgmlInit(handles, h, slot) ==
    /\ slot # Null
    /\ HandedOut(slot)
    /\ handles' = [handles EXCEPT ![h] = slot]

\* The contexts among the handles hs, and the number of the other live ones.
Contexts(handles, hs) == {handles[h] : h \in hs \cap CtxHandle} \ {Null}
Others(handles, hs) == Cardinality({h \in hs \ CtxHandle : handles[h] # Null})

\* ggml_free, ggml_backend_buffer_free and ggml_gallocr_free of the handles hs.
Freed(handles, hs) ==
    /\ pool' = pool \ Contexts(handles, hs)
    /\ buffers' = buffers - Others(handles, hs)

-----------------------------------------------------------------------------
\* The call ends and its handles go out of scope, freed or not.
Leave(freed) ==
    /\ Freed(call, freed)
    /\ step' = "idle"
    /\ batch' = <<>>
    /\ call' = Nothing(CallHandle)
    /\ UNCHANGED <<missing, loadVars>>

\* prefill or decode_one: the input buffer is allocated, or is not.
Begin ==
    /\ step = "idle" /\ Loaded
    /\ \/ /\ batch' \in Prompt
          /\ call' = [call EXCEPT !["inp_buf"] = Alive]
          /\ buffers' = buffers + 1
          /\ step' = "inp_ctx"
          /\ UNCHANGED vars
       \/ Rejected /\ UNCHANGED <<buffers, callVars>>
    /\ UNCHANGED <<missing, pool, loadVars>>

\* The context of the inputs; the tokens, positions and mask are filled in.
InitInputs ==
    /\ step = "inp_ctx"
    /\ GgmlInit(call, "inp_ctx", Unused)
    /\ step' = "ctx"
    /\ UNCHANGED <<vars, missing, buffers, batch, loadVars>>

NoInputs == step = "inp_ctx" /\ Unused = Null /\ Rejected /\ Leave({"inp_buf"})

\* The context of the graph.
InitGraph ==
    /\ step = "ctx"
    /\ GgmlInit(call, "ctx", Unused)
    /\ step' = "build"
    /\ UNCHANGED <<vars, missing, buffers, batch, loadVars>>

NoGraph == step = "ctx" /\ Unused = Null /\ Rejected /\ Leave({"inp_ctx", "inp_buf"})

\* A plausible bug: the check against the window gives back one context.
OverflowFreesOne == {"ctx", "inp_buf"}

\* What the exit for a batch that does not fit gives back.
OverflowFrees == {"ctx", "inp_ctx", "inp_buf"}

DoesNotFit ==
    /\ step = "build"
    /\ "token_embd" \notin missing
    /\ ~Fits
    /\ Rejected
    /\ Leave(OverflowFrees)

\* A weight is looked up with `?`, which gives nothing back: the embedding
\* before the length is checked, the others after.
WeightMissing ==
    /\ step = "build"
    /\ \/ "token_embd" \in missing
       \/ Fits /\ missing # {}
    /\ Rejected
    /\ Leave({})

\* The graph is built and an allocator made for it.
Build ==
    /\ step = "build"
    /\ missing = {}
    /\ Fits
    /\ call' = [call EXCEPT !["galloc"] = Alive]
    /\ buffers' = buffers + 1
    /\ step' = "alloc"
    /\ UNCHANGED <<vars, missing, pool, batch, loadVars>>

NoAllocator ==
    /\ step = "build"
    /\ missing = {}
    /\ Fits
    /\ Rejected
    /\ Leave({"ctx", "inp_ctx", "inp_buf"})

\* Room for the graph's tensors is found, or is not.
AllocGraph ==
    /\ step = "alloc"
    /\ \/ step' = "compute" /\ UNCHANGED <<vars, pool, buffers, batch, call>>
          /\ UNCHANGED <<missing, loadVars>>
       \/ Rejected /\ Leave(CallHandle)

\* What both exits after the compute step give back.
ComputeFrees == {"galloc", "ctx", "inp_ctx", "inp_buf"}

\* The graph is computed, or the compute step reports a failure.
Compute ==
    /\ step = "compute"
    /\ Computed(batch, head) \/ Aborted(batch, head)
    /\ Leave(ComputeFrees)

\* reset_kv needs the model to itself, as forward does.
Reset ==
    /\ step = "idle" /\ Loaded
    /\ ResetKv
    /\ UNCHANGED resources

-----------------------------------------------------------------------------
\* MappedModel::load wraps the mapped file in a buffer.
LoadFile ==
    /\ loader = "none" /\ ~Crashed
    /\ loads < MaxLoads
    /\ loads' = loads + 1
    /\ next' = [next EXCEPT !["weight_buf"] = Alive]
    /\ buffers' = buffers + 1
    /\ loader' = "ggml_ctx"
    /\ UNCHANGED <<vars, missing, pool, callVars, model>>

\* The context of the weights' descriptors.
LoadWeights ==
    /\ loader = "ggml_ctx" /\ ~Crashed
    /\ GgmlInit(next, "ggml_ctx", Unused)
    /\ loader' = "data_buf"
    /\ UNCHANGED <<vars, missing, buffers, callVars, loads, model>>

\* Without one the load fails; the buffer is not given back.
NoWeights ==
    /\ loader = "ggml_ctx" /\ ~Crashed
    /\ Unused = Null
    /\ loader' = "none"
    /\ next' = Nothing(ModelHandle)
    /\ UNCHANGED <<vars, missing, pool, buffers, callVars, loads, model>>

\* The tokenizer or the backend is refused: MappedModel is dropped.
NoTokenizer ==
    /\ loader = "data_buf" /\ ~Crashed
    /\ Freed(next, ModelHandle)
    /\ loader' = "none"
    /\ next' = Nothing(ModelHandle)
    /\ UNCHANGED <<vars, missing, callVars, loads, model>>

\* KVCache::new: the data of the cache.
AllocCache ==
    /\ loader = "data_buf" /\ ~Crashed
    /\ next' = [next EXCEPT !["data_buf"] = Alive]
    /\ buffers' = buffers + 1
    /\ loader' = "kv_ctx"
    /\ UNCHANGED <<vars, missing, pool, callVars, loads, model>>

\* KVCache::new: the context of the cache's descriptors.
InitCache ==
    /\ loader = "kv_ctx" /\ ~Crashed
    /\ GgmlInit(next, "kv_ctx", Unused)
    /\ loader' = "install"
    /\ UNCHANGED <<vars, missing, buffers, callVars, loads, model>>

\* Its result is not looked at: a tensor is made in the null context.
NullCache ==
    /\ loader = "kv_ctx" /\ ~Crashed
    /\ Unused = Null
    /\ step' = "crashed"
    /\ UNCHANGED <<vars, missing, pool, buffers, batch, call, loadVars>>

\* The new model takes the place of the old one, which is dropped, once no
\* call is under way; its cache is empty.
Install ==
    /\ loader = "install"
    /\ step = "idle"
    /\ Freed(model, ModelHandle)
    /\ model' = next
    /\ next' = Nothing(ModelHandle)
    /\ loader' = "none"
    /\ head' = 0
    /\ row' = [r \in Row |-> BlankCell]
    /\ UNCHANGED <<logits, outcome, missing, callVars, loads>>

Pass ==
    \/ Begin
    \/ InitInputs \/ NoInputs
    \/ InitGraph \/ NoGraph
    \/ WeightMissing \/ DoesNotFit
    \/ Build \/ NoAllocator
    \/ AllocGraph
    \/ Compute
    \/ Reset

Load ==
    \/ LoadFile
    \/ LoadWeights \/ NoWeights
    \/ NoTokenizer
    \/ AllocCache
    \/ InitCache \/ NullCache
    \/ Install

FNext == Pass \/ Load

FSpec == FInit /\ [][FNext]_fvars

-----------------------------------------------------------------------------
\* The contexts each of the three owners holds, and the buffers together.
Held(handles) == Contexts(handles, DOMAIN handles)
HeldBuffers ==
    Others(call, CallHandle) + Others(next, ModelHandle) + Others(model, ModelHandle)
Lost == pool \ (Held(call) \cup Held(next) \cup Held(model))

\* Type correctness, of ForwardPass and of what this module adds.
FTypeOK ==
    /\ TypeOK
    /\ missing \subseteq Weight
    /\ pool \subseteq Slot
    /\ buffers \in Nat
    /\ batch \in Prompt \cup {<<>>}
    /\ call \in [CallHandle -> Slot \cup {Null, Alive}]
    /\ next \in [ModelHandle -> Slot \cup {Null, Alive}]
    /\ model \in [ModelHandle -> Slot \cup {Null, Alive}]
    /\ loads \in 0 .. MaxLoads

\* Every context a pass, a load or the model in use still has a handle of is
\* marked used and belongs to it alone, although loads and passes take turns
\* and the pool hands freed contexts out again: freeing one never pulls it
\* from under another.
ContextsOwned ==
    /\ Held(call) \cup Held(next) \cup Held(model) \subseteq pool
    /\ Cardinality(Held(call)) + Cardinality(Held(next)) + Cardinality(Held(model))
         = Cardinality(Held(call) \cup Held(next) \cup Held(model))

\* With all weights in place no exit of forward or load keeps anything back,
\* whichever step failed: the pool never runs out and nothing crashes.  What
\* the `?` of a missing weight loses is two contexts and one buffer a call,
\* so the pool runs dry after half as many calls as it has contexts, and from
\* then on every exit gives back what it took: a failed load loses the
\* wrapper of the file and no context.
LossesAccounted ==
    LET lostBuffers == buffers - HeldBuffers
    IN  /\ missing = {} => Lost = {} /\ lostBuffers = 0 /\ ~Crashed
        /\ Cardinality(Lost) % 2 = 0
        /\ lostBuffers >= Cardinality(Lost) \div 2
        /\ lostBuffers <= Cardinality(Lost) \div 2 + loads
=============================================================================
