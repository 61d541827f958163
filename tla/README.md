# A verification development for qfz3

qfz3 runs a quantised language model on one machine: it maps a model file,
builds a compute graph over the mapped weights, has ggml compute it with threads
of its own, keeps a KV cache of the conversation, and answers turn by turn.  This
directory holds TLA+ modules of the parts of it where a wrong answer would look
right, TLC configurations that check them on small instances, and TLAPS proofs of
the facts that matter most for every size.

Every definition is a translation of code under `src/`; `PROJECT.json` names the
lines of each ("map"), the runs, the mutants (a plausible bug for every checked
property, which the property must notice), the hazards and the findings.

    tlc -config Engine.cfg MCEngine.tla      # one run
    tlapm GraphComputeProofs.tla             # the proofs of one module

## The system

| part | source | state | operations | hard part |
|---|---|---|---|---|
| forward pass and KV cache | `qfz3-engine/src/graph.rs` | rows of K and V per layer, `head` | `prefill`, `decode_one`, `reset_kv` | positions, mask, write offset and head computed separately from the same numbers; a failed pass leaves half-written rows; every exit has its own list of what to free |
| graph computation | `vendor/llama.cpp/ggml/src/ggml.c` | a barrier, a chunk counter, a shared work area | `ggml_graph_compute`, `ggml_barrier`, `ggml_compute_forward_mul_mat` | threads one barrier apart; a work area every product reuses; rounding in the division of rows |
| graph allocation | `vendor/llama.cpp/ggml/src/ggml-alloc.c` | free ranges, two counters a tensor | `ggml_gallocr_alloc_graph` | memory given on before its last reader shows only in the numbers |
| conversation engine | `qfz3-engine/src/engine.rs` | `turn_count`, `turn_messages` | `generate_rich`, `generate_streaming`, `generate_sync`, `reset` | two memories of one conversation that are updated at different moments; eviction by estimate |
| generation loop, chat templates | `qfz3-engine/src/generate.rs` | none of its own | `run_generation_inner`, `generate`, `generate_turn` | many exits, each leaving the cache at a different point |
| sampler | `qfz3-engine/src/logits.rs` | an RNG word; the recent tokens | `sample_token` | boundaries of top-k and the nucleus; signs under the penalty |
| tokenizer | `qfz3-engine/src/tokenizer.rs` | vocabulary tables | `encode`, `decode`, `decode_one` | two spellings of every byte; longest match first and merges second; byte fallback |
| memory mapper, prefetch thread | `qfz3-engine/src/mapper.rs` | the mapping, three atomics, a condition variable | `InferenceMapper::new`, `advance`, `activate_layer`, `shutdown`, drop | a thread on raw addresses; notifications without the mutex |
| loader, GGUF reader | `qfz3-engine/src/loader.rs`, `gguf.rs` | a context, a buffer, tensor descriptors | `load`, `parse`, drop | partial failure of a chain of acquisitions; beside a running pass |
| command line | `qfz3-engine/src/main.rs` | none | chat loop, single shot, benchmark | calls the engine again after an error |
| desktop commands | `ZeroCopies/src-tauri/src/lib.rs` | a model and its session behind one mutex | `load_model`, `chat_inference` | commands on several threads; a session that is trimmed separately from the cache |
| desktop window | `ZeroCopies/src/main.ts`, `state.ts` | a store of flags, the active screen | load a model, send a message, stop | overlapping asynchronous handlers and timers on one flag |
| desktop launcher, browser pages, scripts | `src-tauri`, `web`, `*.py`, `*.sh` | | | outside the core |

The engine owns a forward pass, a tokenizer and a mapped model and calls them
synchronously.  A forward pass makes two ggml contexts, an allocator and a graph,
places the graph's tensors, computes it, and frees what it made.  Threads meet in
three places: inside `ggml_graph_compute`, in the prefetch thread, and in the
desktop, where a command may load the next model while a pass of the current one
runs, over one pool of contexts.  Callers go on using an engine after a call has
failed, so every exit of a call is also the beginning of the next.

## The modules

### The forward pass

**`Transcript.tla`** is the abstract specification of a KV cache: the sequence
of tokens fed since it was last cleared, and logits conditioned on exactly that
sequence.  A call either extends it or leaves no trace.

**`ForwardPass.tla`** is the cache as `graph.rs` implements it: a fixed array of
rows and a head.  One row stands for the K and V rows of all layers at that
index, and its contents for what decides its numbers: the token, the position
RoPE rotated it by, and the number of keys the causal mask showed it.  A pass
computes (`Computed`), is refused before it runs (`Rejected`) or fails while it
runs (`Aborted`), in which case any of its rows may be old, new or half-written.
The transcript is read off the rows below the head.

**`ForwardCall.tla`** extends it with the steps of `forward()`: the two contexts
(`InitInputs`, `InitGraph`), the check of the cache's room (`DoesNotFit`), the
allocator (`Build`, `AllocGraph`), the computation, and the exit after each.  Each
outcome of `ForwardPass` is bound to the exit that leaves with it.  Beside it runs
the loader of the desktop's `load_model`: `LoadFile` to `InitCache` take the
wrapper of the file, the buffer and the cache's context, and `Install` drops the
old model.  `pool` is `g_state.contexts` of `ggml.c`, for the whole process.

**`ForwardGraph.tla`** is the graph `forward()` builds, tensor by tensor, and the
order `ggml_build_forward_expand` puts its nodes in: `VisitParents` is its visit of
a tensor, `NodesInOrder` the expansions `forward()` asks for.  It keeps no state; `MCGraphAlloc` hands its graphs to the allocator.

**`GraphAlloc.tla`** is `ggml-alloc.c` for one buffer.  `CountReaders` counts
readers and views, `Place` walks the nodes (allocation with the best fit,
taking over an operand's memory, giving back what nobody will read) and `Compute`
then executes the graph in the memory handed out: each unit remembers whose value
it holds.

**`GraphCompute.tla`** is `ggml_graph_compute` with its threads, one atomic access
a step: creating and joining the threads, the barrier (`LoadPassed`, `Count`,
`Reset`, `Release`, `Spin`), the conversion of the right operand into the work
area (`ConvertRow`), the chunk counter (`StoreChunk`, `FetchChunk`) and the
chunks and rows computed.  `Stripe`, `ChunkGrid` and `ChunkCells` are the division
of the work.  The engine asks for two threads and sets no abort callback
(`graph.rs:286`); the number is a constant.

### The conversation

**`Engine.tla`** is `engine.rs` with the generation loop.  `Generate` is
`prepare_turn` (`AppendTurn`, `RebuildWindow` or `FullReset`) followed by
the call of `run_generation`; the remaining actions are the exits and steps of
`run_generation_inner`: `ContextFull`, `PrefillFails`,
`PrefillThenSampleFails`, `Finish`, `Decode`, `DecodeThenSampleFails`,
`DecodeFails`.  `Reset` is `Engine::reset`.  The cache is used through what
`Transcript` promises: it is a sequence of turns and replies that grows or is
cleared; `head` counts its token ids.  Message lengths in bytes and in tokens,
and the framing each chat form adds, are constants.  `lost` and `forgotten` are
history variables: whether a failed turn or a reset has parted the two memories,
and how many remembered messages are older than the last reset.

**`Sampler.tla`** is `sample_token`, one step a phase (`Rescale` with the
penalty, `SelectTopK`, `CutNucleus`, `Draw`), in the loop of
`run_generation_inner` that feeds the drawn tokens back as the recent ones.
Logits are small integers that the penalty divides; the softmax weight of a logit
`l` is `2^l`, so every comparison is exact and rounding is left out.

**`Tokenizer.tla`** is `tokenizer.rs`: `encode` as a state machine over one text
(`MatchLongest`, `Fallback`, `FallbackPanics`, `Covered`, `Merge`, ...), `decode`
and the GPT-2 alphabet as operators.  Texts and spellings are sequences of bytes;
the alphabet is the code's own table, computed.

### Threads and the desktop

**`Prefetcher.tla`** is `mapper.rs`: the thread of `Prefetcher::spawn` step by
step, and the owner of the `InferenceMapper`, whose calls are split where another
thread can see the difference (`Advance` stores the pointer, `AdvanceNotifies`
notifies; `StoreStop`, `WakeAll`, `Join`, `Unmap` are the shutdown).  The mutex is
locked by one thread only and is therefore not a variable; what it would have
protected, the moment between the test and the wait, is the state `"lock"`.

**`ChatCommands.tla`** is the Rust side of the desktop application: any number of
`load_model` and `chat_inference` calls on a pool of threads, the mutex around
the loaded model, and the session that `chat_inference` trims from the front.
`load_model` builds its model before it takes the lock (`Build`, `Install`);
`chat_inference` holds it from the check of the prompt (`Admit`) through the
trimming to the end of the run.  `lib.rs` is written against a library, `z1-core`,
that is not in the repository; its session and `run_generation_captured` are
modelled by how `lib.rs` uses them.

**`Window.tla`** puts the TypeScript window over those commands: every handler of
`main.ts` runs to its next `await`, so a click, an answer and a timer are one step
each, and anything may happen between them.  `ui` says where the handler that uses
a command waits.  The composition is by `EXTENDS ChatCommands`: a handler's step
and the command it starts or collects are one step, and the run of the window
checks the commands with it.

The `MC` modules choose instances.  `GraphAllocProofs`, `GraphComputeProofs`,
`EngineProofs`, `SamplerProofs`, `TokenizerProofs` and `PrefetcherProofs` hold the
theorems about the module they are named after, `ForwardCallProofs` those about
`ForwardPass` and `ForwardCall`, `WindowProofs` those about `ChatCommands` and
`Window`.

## The runs

| run | what it checks |
|---|---|
| `forward_call` | types of the cache and the call; `RowsWellPlaced`: each row of the conversation has the position and the visible keys of its index; `ImplementsTranscript`: refinement of `Transcript`; `ContextsOwned`: no context has two owners or is freed under one; `LossesAccounted`: what each exit gives back |
| `graph_compute` | types; `SourcesComplete`: operands are complete when read; `WorkDataIsCurrent`: and converted for this product; `NoCellTwice`; `SharedOutlivesThreads`; `AllReturn`: the call returns |
| `graph_alloc` | types; `Accounted`: every unit is free once or held once, and free ranges do not touch; `OperandsIntact`: every operand has its value when read; `HistoryWritten`: the KV cache is written before it is read; `AllReturned` |
| `engine` | types with the head inside the window; `ChatShape`, `Remembers`, `CacheWithinMemory`, `SlidingWindow`; `TurnEnds`: every call returns |
| `sampler` | types, and a panic for `top_k = Some(0)` only; `NeverPromoted`: the penalty moves no recent token up; `NucleusIsSmallest`; `DrawnFromBest`; `EndNeverPenalised` |
| `prefetcher` | types, which bound every window requested; `MappedWhileRunning`; `ShutdownEnds`; `PrefetchCatchesUp` |
| `tokenizer` | `NothingLost`: at every step `decode` gives back the text up to the place reached; `LongestMatched`: each id is the longest entry that could have been looked up where it stands, also after the merges; `MergesOnlyLongTokens` |
| `window` | types of the window and the commands, with the ownership of the lock; `PromptFits`: a turn has room for its reply; `ForgetsTrimmed`: the model does not read what was trimmed; `LockedForAReason`: the input is locked only while something will unlock it; `ShowsTheModel`; `InputComesBack` |

and four runs that show where the code and its documentation part
(`PROJECT.json`, "findings", quotes both sides): a reply cut off by a full window
is reported as `EndOfTurn` (`HonestStop`); a message that fits an empty window
is refused instead of evicting (`NoHardFail`); messages from before a reset
come back (`ForgetsOnReset`); the byte fallback looks up the index of a byte
instead of the byte, and panics beyond index 255 (`FallbackUsesByte`).

### Bounds

- `ForwardCall.cfg`: two tokens, three rows, batches of up to two.  A batch can
  end before, at and past the last row, follow another batch, and be aborted over
  rows of an earlier conversation.  Six contexts (for 64) hold a model, a load and
  a pass, and run dry after a missing weight has lost them; two loads make one
  replace the other.  The two tokens are interchangeable.
- `GraphCompute.cfg`: three threads, so that one can be a barrier ahead of another
  while the third still waits; four nodes: a product of more chunks than threads,
  one that falls back to a stripe a thread, rows fewer than threads, and a product
  that is not converted.  Chunks of 1 and 4 stand for 16 and 64.
- `GraphAlloc.cfg`: the graphs of two layers for one and two tokens, on an empty
  cache and not, with biases and without, and every graph of four nodes that are
  results of two sizes or views.  An arena of 48 units (`SIZE_MAX/2` in the code)
  and three free blocks (256) are enough for these; one more graph fills the arena
  and another leaves too many blocks, so that both ways to abort are taken.
- `Engine.cfg`: a window of 96 tokens, frames of 22 and 10.  Four short turns fit
  by estimate and the fifth evicts; a `spaced` message, whose bytes over-estimate
  it, evicts after one; a `dense` one makes the rebuilt prompt too long (full
  reset) and alone is refused with `ContextFull`; a reply capped at 75 tokens can
  fill the window.  The state space is finite without any constraint.
- `Sampler.cfg`: four tokens, three logits, sixteen configurations, with `top_k`
  absent, 0, below, at and beyond the vocabulary and `top_p` a half, nine tenths
  and one; two recent tokens (for 64), so that a token can be recent twice.
- `Prefetcher.cfg`: four windows and the code's depth of two, so that the range
  ahead of the pointer is whole, cut off and empty.
- `Tokenizer.cfg`: every text of up to four of seven pieces, and of five to seven
  of two of them.  One piece has no entry, one is two bytes long, of which the first
  is also an entry as a raw byte, and one spells a control token.  `MaxMatch = 4` and
  `TableLen = 3` stand for 64 and 256: a text must be longer than both for a slice to
  be cut and for the table to be exceeded.  `SkippedIds` stands for the three numbers
  `decode` skips: the control token and, as in a vocabulary they were not made for,
  an ordinary one.
- `Window.cfg`: two handlers and two models, which is what an overlap takes; a
  window of 7 tokens, trims of 2, and two turns (`MaxTurns`), of which the second
  has to trim and a prompt of 9 never fits.

### Fairness

`Engine.cfg` assumes weak fairness of `Continue`, the steps of a call that was
entered: it is synchronous code that waits for nobody.  Starting calls is never
assumed.  `GraphCompute.cfg` assumes it of every thread: they are threads of the
operating system, spinning or working, and each is scheduled.  `Prefetcher.cfg`
assumes it of the prefetch thread and of the owner's entered calls.  That a wait
returns without a notification is the 100 ms timeout of `wait_timeout`.
`Window.cfg` assumes that commands run, each by itself, and that answers and
timers are delivered; the mutex of the Rust library promises no order among those
that wait, so nothing is said of how soon one of them gets it.  The user need not
do anything.  The other runs state no liveness.

Deadlock is checked for the engine.  A pass after a crash or with the loads used
up, a computed or allocated graph, a panicked or refused sampler, a prefetcher
that has shut down, an encoded text, and a window whose bounded turns are used up
may stop.

## The proofs

`GraphComputeProofs.tla` proves, for any number of threads, any graph and any
size of chunk, every safety property of the run:

- `TypeCorrect`, `SourcesAreComplete`, `WorkDataStaysCurrent`,
  `NoCellIsWrittenTwice`, `SharedStateOutlivesThreads`.

None of them is inductive.  The argument has a part about numbers and four about
threads.

1. *The division* (`ChunksCover`, `ChunksDisjoint`, `RowsCover`): the stripes
   of a rounded-up quotient cover every row and share none, so the chunks cover
   every cell of an output once.
2. *The barrier* (`BarrierInv`).  A thread that spins on a number of passages that
   is past is `Released`: it has only to notice.  Counted where it will then be
   (`Place`), all threads are always at the same place of the graph (`Together`);
   the counter is the number of threads that wait (`Counted`), and whoever is about
   to open the barrier has all the others waiting.  A thread that is fast enough to
   arrive at the next barrier before a slow one has left this one changes neither.
3. *What is computed* (`DoneInv`).  A thread that has arrived has done its share,
   and every chunk below the counter is computed, in hand, or promised: the first
   chunk of a thread that is released and has not noticed.  So the node is complete
   when the barrier opens, which is the only step that moves the common place.
4. *Once* (`OnceInv`).  A chunk in hand is the thread's first or was drawn; what is
   computed lies in chunks that are promised to nobody.
5. *The work area* (`DataInv`).  Thread `t` converts the rows that are `t` modulo
   the number of threads; those below its index are done.

`ForwardCallProofs.tla` proves of the cache, for any set of tokens, any number of
rows and any batch bound:

- `TypeCorrect`, `RowsAreWellPlaced`: by the inductive invariant `TypeOK /\
  RowsWellPlaced`.  A computed pass writes exactly the rows between the old and
  the new head, with the positions and masks of their indices; an aborted one
  writes only rows at or above the head.
- `CacheImplementsTranscript`: a computed pass maps to `Extend`, a reset to
  `Forget`, and everything else to a stutter.

and the same of the calls as `forward()` makes them, step by step beside a loader,
for any number of contexts from six, and with it every other property of the run:

- `CallTypeCorrect`, `RowsStayWellPlaced`, `CallsImplementTranscript`: each exit
  of `ForwardCall` is one outcome of `ForwardPass` and every other step leaves the
  cache alone, so its invariant carries over.
- `ContextsHaveOneOwner`, `LossesAreAccounted`: by the invariant `RInv`.  What a
  call or a load holds can be read off the step it is at (`CallHolds`,
  `LoadHolds`), which is what makes the list of handles each exit frees complete;
  no two owners share a context (`Owned`); and the losses are counted exactly
  (`Accounted`): two contexts and a buffer for each call that found a weight
  missing, one buffer for each load that found no context.  With all weights
  there, three owners hold five contexts at most when a sixth is asked for, so
  nothing is refused or lost.  That is why six are assumed; the code has 64.

`GraphAllocProofs.tla` proves, for every well-formed graph and any alignment, arena
and limit of free blocks:

- `GraphTypeCorrect`; `ArenaIsAccounted`: free blocks and held memory make up the
  arena without overlap; `PlacedIsReturned`: counters come to zero;
- `OperandsStayIntact`: every operand has its value when it is read;
- `HistoryIsWritten`: what a node reads of the KV cache this pass has written before,
  for graphs of `forward()` of any number of layers, batch, head and bias.

What is assumed of a graph (`Wellformed`) is what `ggml_visit_parents` and the
functions that make tensors give every graph: a node comes once and after what it
reads or views, views are of tensors that are none, what only describes a tensor is
a view, and leaves have memory of their own; and what the engine's graphs are
besides: their output is a result, and a view of a result is read.  TLC evaluates it for every graph of the run.  The argument:

1. *Blocks* (`TakenFacts`, `FreedFacts`): taking from a block and giving back to the
   list keep it sorted, with a gap between any two blocks, and change the free units
   by exactly the range.  The code joins the range with the first block it touches
   and that block with one neighbour, and looks no further: nothing else can touch.
2. *The partition* (`Partition`): memory held is not free and has one holder.
   Allocation, taking over an operand and freeing each move a range from one side
   to the other; an operand taken over loses its hold in the same step.
3. *The counters* (`Counted`): in the first loop they count the reads and views
   before the node reached, in the second those still to come (`From`, `Holding`: a
   view holds its tensor until its own last reader is done).  `Wanted`: who holds
   memory is an output, is still to be read, or is never read.
4. *The places* (`Placement`): of the nodes placed, those still to be read hold their
   memory (`LiveHold`), and what a node writes lies outside the memory of every
   earlier one that is held (`HeldKept`) and of every operand between its node and
   its reader (`ReadsKept`).  A node that takes over an operand is its last reader
   (`TakenIsDone`).
5. *The values* (`Values`): while the graph is computed, each unit of a node's memory
   has its value or belongs to a later node that uses the unit; by the fourth part
   there is none before the last reader.

6. *The order* (`HistoryFirst`).  No edge of the graph leads from a copy into the
   cache to a read of it.  The nodes that read it are `k_hist` and `v_hist` of each
   layer (`OtherNodes`) and those that write it the two copies (`CacheWriters`).
   What a copy depends on contains neither history of its layer (`CopiesClosed`),
   so expanding the copies of all layers up to one adds only nodes that come after
   the copies they read through, and the expansion of the logits finds every copy in
   place (`EngineOrder`).  A visit is followed by induction over its depth
   (`VisitParentsLead`): it stays inside any set of tensors that holds the operands
   of its members, keeps the nodes there are, and if the set has no history whose
   copy is still missing, it puts none before its copy (`Leads`).
7. *The writes* (`WInv`): of the nodes computed, those that write into memory outside
   the buffer are in `written`; with the order this is `HistoryWritten`.

`HistoryIsWritten` takes from `GraphAllocAssumption` that the graphs of a pass are
well-formed, and it speaks of the graphs of `ForwardGraph` and of any that have no
view of memory outside the buffer, which the run adds to test the allocator.

The loops over a node's operands are folds of sequences; `LoopExists` gives each as
a sequence of intermediate states, and `TurnsInductive` carries a property along it.

`PrefetcherProofs.tla` proves, for any number of windows and any depth:

- `TypeCorrect`: in particular that no window beyond the file is requested;
- `NeverUnmappedEarly`: by the invariant `ShutdownOrder`, which ties the join
  handle to the thread's end and the unmapping to the handle.

`EngineProofs.tla` proves, for any window, any set of messages with any lengths
and any framing:

- `TypeCorrect`: in particular that the head never passes the end of the window;
- `PromptIsChat`: as long as no turn failed before it reached the cache and no
  reset left messages behind, the context has one system prompt, first, and every
  reply after a turn (`ChatShape`).

`ChatShape` is not inductive: `prepare_turn` looks at the turn counter, not at the
cache.  The invariant `IInv` adds what ties the two together: `Counted` (the
counter is zero exactly when the context is empty), `Backed` (a counted turn has a
remembered message, so a rebuild never starts with a follow-up), and `InCall` (a
prompt waits exactly during a prefill, and a reply is only begun on a cache that
is not empty).  `RebuiltShape` and `ExtendedShape` are the two ways a chat is
made: all at once from the kept messages, or one entry at a time.

- `MessagesAreRemembered`, `CacheStaysWithinMemory`, `MemorySlides`: the turns in
  the context are messages that are remembered, in the same order, and messages are
  only forgotten from the front.  The invariant (`Memory`) is a map from the turns of
  the context to messages, increasing, and onto the messages unless something was
  lost; a turn and its message come together (`TurnRemembered`), and a rebuild
  forgets both from the front.

`SamplerProofs.tla` proves, for any vocabulary, logits and configuration, every
property of the run: `SamplerTypeCorrect`, `RecentNeverPromoted`,
`EndKeepsItsLogit`, `NucleusIsASmallestSet`, `TokenIsFromTheBest`.  The mass of a
set of tokens and the repeat penalty are folds; they are first shown to be a sum
(`MassIsSum`) and a scan (`PenalisedFacts`).  The cuts rest on `Heaviest`: no `n`
tokens outweigh the first `n` of a list sorted best first.  So the list cut
where the running mass reaches the share is a smallest set that reaches it,
whichever of several equal tokens the sort put first (`SameMass`).  The invariant
`SInv` says what has been done to the list at each step.

`TokenizerProofs.tla` proves, for any vocabulary, any merge rules and any text, every
property of the run: `SpecNothingLost`, `SpecLongestMatched`,
`SpecMergesOnlyLongTokens`, and besides `SpecRoundTrip`: `decode` undoes `encode`,
which does not panic, and `SpecPanicsOnlyUnspelled`: `encode` panics only for a
character without an entry that stands beyond the byte table.  Of the vocabulary it is
assumed that an entry is a whole UTF-8 string or one raw byte (`TokenizerAssumption`).
All but `SpecPanicsOnlyUnspelled` hold of texts whose characters all have an entry
(`Spelled`) and, as far as `decode` is concerned, that spell no token it skips
(`Plain`); without the first the code's byte fallback takes over, which is wrong in
another way (`FallbackUsesByte`).  The argument:

1. *The alphabet* (`CharFacts`, `CharInjective`, `SpellingReadsBack`): each byte has
   a character of its own, of one or two units of which only the second continues
   one, so a spelling is read back as the bytes it was made from.  `Gpt2`, `FromGpt2`
   and `Decode` flatten a sequence of sequences, which the library defines as a fold;
   it is first shown to be the last of the partial results (`FlattenBy`) and to
   distribute over concatenation (`FlattenConcat`).
2. *Boundaries* (`BoundaryOrInside`, `WholeSlice`): a whole slice of a spelling that
   starts where a character starts ends where one ends, and is the spelling of what
   lies between.
3. *The longest match* (`LongestIsWhole`).  An entry that is not whole is a raw byte,
   one unit long.  Where a character of two units has an entry, that is longer; so a
   raw byte never cuts a character in two, although both are in one table.
4. *Legible tokens* (`LegibleBytes`): a token found by the spelling of some bytes
   decodes to these bytes, also when a later raw byte has replaced the entry.
5. *The invariant* (`TInv`): the tokens are legible and spell the text up to the place
   reached, a boundary; the last is the longest that stands where it begins
   (`LastIsLongest`), so no two neighbours spell an entry of at most `MaxMatch` units
   (`Separate`), and a merge can only yield a longer one, which stays or grows
   (`LongToken`).  `NothingLost` alone says nothing of what the next merge looks up.
6. *The segmentation* (`Segmented`): a token starts where those before it end
   (`StartNext`).  A match appends the longest one at its place (`SegmentMatch`); a
   merge puts a longer token at the start of its left one and moves no start behind
   it (`StartMerged`), because it keeps the spelling of every prefix.
7. *The panic*: an index beyond the table is not 0, so it is that of a character which
   starts at the place reached, and an entry for it would have been found
   (`CharFound`).  Elsewhere, as in the middle of a character, the index is 0.

`WindowProofs.tla` proves, for any number of handlers, models and turns, and any
lengths:

- of the commands, `CommandsTypeCorrect`, `PromptsFitTheContext` and
  `TrimmedIsForgotten`.  The invariant `ChatInv` ties the mutex to the call that
  works (`Commands`), and the cache to the session: no token is in the cache or the
  prompt twice (`Fed`), so lengths count tokens, and what is not in the session is
  the reply of a failed turn (`Forgotten`).
- `WindowImplementsCommands`: every step of the window is a step of the commands or
  leaves them alone, so that the three hold behind the window as well.
- of the window, `WindowTypeCorrect`, `NameIsOfTheModel` (unless loads overlapped)
  and `NeverLockedForNothing`, by one case per handler.

The assumptions are those the modules state about their constants
(`GraphComputeAssumption` and its like); TLC evaluates them in the runs.

Only model-checked: every liveness property, because TLAPS has no proof rules for
fairness and `ENABLED` here.  Every safety property of the passing runs is a theorem.

## Observations

Met while modelling, without a run of their own:

- A missing weight leaves `forward()` through `?` (`graph.rs:838`): two of ggml's
  64 contexts and a buffer are lost each time, and after 32 passes every later
  pass is refused.  `KVCache::new` does not look at what `ggml_init` returns
  (`graph.rs:172`), so a load at that moment makes a tensor in a null context.
  `LossesAccounted` and `NullCache` have both.
- A load that cannot make its context has wrapped the file's memory in a buffer
  and does not free it (`loader.rs:73`).
- The conditions under which a node takes over the memory of an operand that is a
  view (`ggml-alloc.c`) are never met by the engine's graphs.
- `top_k = Some(0)` passes the configuration's check and panics (`logits.rs:218`).
- The repeat penalty is applied once for every occurrence of a token, where its
  comment says "recently seen token ids"; a token seen twice is penalised twice.
- After a failed first turn the next prompt has no system prompt: the turn was
  counted when it was prepared (`engine.rs:124`).
- `encode` takes the longest entry first and applies merges to the result, so it
  may segment a text otherwise than byte-pair merging from single characters does
  (`tokenizer.rs:327`); the first choice stands (`LongestMatched`).
- The merging stops at the first best pair whose result has no entry, also if another
  pair could be merged (`tokenizer.rs:380`).
- Raw bytes and the characters of the GPT-2 alphabet are looked up in one table
  (`tokenizer.rs:329`); a unit of one spelling can be found as the other.  It does no
  harm as long as every character has an entry (`SpecNothingLost`).
- `decode` skips the ids 128000, 128001 and 128004 whatever the vocabulary holds there
  (`tokenizer.rs:248`), and a text that spells a control token is encoded as that
  token, which `decode` skips as well: in both cases the text does not come back.
- `generate` is documented to reset the session before and after; on an error
  it returns in between.
- The call that evicts the layers behind the pointer is documented to move the
  pointer, and does not (`mapper.rs:318`).
- The window's stop button aborts a signal nothing listens to (`main.ts:410`).

## Not modelled

- The kernels: what a quantised product or a rope computes.  A row stands for what
  decides its numbers.
- Of ggml: the paths the engine does not take (NUMA, repacked operands and the
  conversion of rows four at a time that only they have, other backends, other
  operations, abort callbacks), and a `malloc` that fails, which aborts.
- The persistent decode graph of `graph.rs`, `rms_norm_inplace` and
  `project_to_logits`, which have no caller; modules that are not compiled.
- `decode_one` and `stop_ids` of the tokenizer, which keep no state; the GGUF
  reader, a sequential parser of one file; the names, shapes and addresses of the
  loader's tensors; the error exits of `FileMapper::open`.
- `generate` and `generate_turn`, which the engine does not use, and the command
  line, whose calls are the actions of `Engine`.
- A panic that poisons the lock of the desktop commands (`lib.rs:108`), and more
  than one load at a time beside a pass.
- The message thread, attachments, pinning, editing and drawing of the window.

Still worth doing, in this order: `generate_turn` with its session; an abstract
conversation that `Engine` implements.
