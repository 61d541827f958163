------------------------- MODULE ForwardCallProofs -------------------------
(***************************************************************************)
(* Theorems about ForwardPass.tla, for every number of rows and every set  *)
(* of tokens, and about ForwardCall.tla, which composes it with the calls  *)
(* and loads that interleave, for every number of rows, tokens, loads and  *)
(* contexts (six at least), whichever steps of passes and loads fail.      *)
(***************************************************************************)
EXTENDS ForwardCall, SequenceTheorems, FiniteSetTheorems, TLAPS

-----------------------------------------------------------------------------
(* The cache.  The inductive invariant is the type invariant together with *)
(* RowsWellPlaced; the rows at and behind the head are left unconstrained, *)
(* which is what makes "they never reach an answer" worth proving.         *)

IInv == TypeOK /\ RowsWellPlaced

\* A prompt is a non-empty sequence of tokens.
LEMMA PromptType ==
    ASSUME NEW ts \in Prompt
    PROVE  /\ ts \in Seq(Token)
           /\ Len(ts) \in Nat \ {0}
           /\ \A i \in 1 .. Len(ts) : ts[i] \in Token
<1>1. PICK n \in 1 .. MaxBatch : ts \in [1 .. n -> Token]
  BY DEF Prompt
<1>2. n \in Nat \ {0}
  BY <1>1, ForwardPassAssumption
<1>3. ts \in Seq(Token) /\ Len(ts) = n
  BY <1>1, <1>2
<1> QED BY <1>1, <1>2, <1>3

\* decode_one's single token is a prompt of length one.
LEMMA SingleIsPrompt ==
    ASSUME NEW t \in Token
    PROVE  <<t>> \in Prompt
<1>1. <<t>> \in [1 .. 1 -> Token]
  OBVIOUS
<1>2. 1 \in 1 .. MaxBatch
  BY ForwardPassAssumption
<1> QED BY <1>1, <1>2 DEF Prompt

\* Whatever forward does, it does to a prompt at the head: prefill and
\* decode_one differ only in the length of the batch.
Cases ==
    \/ \E ts \in Prompt : Computed(ts, head)
    \/ \E ts \in Prompt : Aborted(ts, head)
    \/ Rejected
    \/ ResetKv
    \/ UNCHANGED vars

LEMMA NextCases == [Next]_vars => Cases
BY SingleIsPrompt DEF Cases, Next, Prefill, DecodeOne, Forward

LEMMA CellType ==
    ASSUME NEW t \in Token \cup {Blank, Torn}, NEW p \in Nat, NEW k \in Nat
    PROVE  [tok |-> t, pos |-> p, keys |-> k] \in Cell
BY DEF Cell

LEMMA InitInv == Init => IInv
<1> SUFFICES ASSUME Init PROVE IInv
  OBVIOUS
<1> USE ForwardPassAssumption DEF Init
<1>1. BlankCell \in Cell
  BY CellType DEF BlankCell
<1>2. TypeOK
  BY <1>1 DEF TypeOK, Outcome
<1>3. RowsWellPlaced
  BY DEF RowsWellPlaced, Row
<1> QED BY <1>2, <1>3 DEF IInv

\* A computed batch keeps the invariant and appends itself to the
\* conversation; the logits it returns are conditioned on the whole of it.
LEMMA ComputedStep ==
    ASSUME IInv, NEW ts \in Prompt, Computed(ts, head)
    PROVE  /\ IInv'
           /\ Len(Conversation) + Len(ts) <= NCtx
           /\ Conversation' = Conversation \o ts
           /\ logits' = Conversation'
<1> USE ForwardPassAssumption DEF IInv
<1> DEFINE n == Len(ts)
<1>0. /\ head \in 0 .. NCtx /\ head \in Nat
      /\ n \in Nat \ {0} /\ head + n <= NCtx
      /\ \A i \in 1 .. n : ts[i] \in Token
      /\ ts \in Seq(Token)
  BY PromptType DEF TypeOK, Computed
<1> HIDE DEF n
<1>1. head' = head + n /\ head' \in 0 .. NCtx
  BY <1>0 DEF Computed, Advanced, n
<1>old. \A r \in Row : r < head => row'[r] = row[r]
  BY <1>0 DEF Computed, RowsAfter, Target, Row
<1>new. \A r \in Row : r >= head /\ r < head + n =>
          /\ row'[r].tok = ts[r - head + 1]
          /\ row'[r].tok \in Token
          /\ row'[r].pos = r
          /\ row'[r].keys = r + 1
          /\ row'[r] \in Cell
  <2> SUFFICES ASSUME NEW r \in Row, r >= head, r < head + n
               PROVE  /\ row'[r].tok = ts[r - head + 1]
                      /\ row'[r].tok \in Token
                      /\ row'[r].pos = r
                      /\ row'[r].keys = r + 1
                      /\ row'[r] \in Cell
    OBVIOUS
  <2>1. r \in Nat /\ r \in Target(n) /\ r - head + 1 \in 1 .. n
    BY <1>0 DEF Row, Target
  <2>2. row'[r] = CellOf(ts, head, r)
    BY <2>1 DEF Computed, RowsAfter, n
  <2>3. head + (r - head) = r /\ VisibleKeys(r - head) = r + 1
    BY <1>0, <2>1 DEF VisibleKeys
  <2>4. row'[r] = [tok |-> ts[r - head + 1], pos |-> r, keys |-> r + 1]
    BY <2>2, <2>3 DEF CellOf
  <2>5. ts[r - head + 1] \in Token
    BY <1>0, <2>1
  <2>6. row'[r] \in Cell
    BY <2>1, <2>4, <2>5 DEF Cell
  <2>7. row'[r].tok = ts[r - head + 1] /\ row'[r].pos = r /\ row'[r].keys = r + 1
    BY <2>4
  <2> QED BY <2>5, <2>6, <2>7
<1>2. \A r \in Row : row'[r] \in Cell
  <2> SUFFICES ASSUME NEW r \in Row PROVE row'[r] \in Cell
    OBVIOUS
  <2>1. CASE r \in Target(n)
    BY <1>0, <1>new, <2>1 DEF Target
  <2>2. CASE r \notin Target(n)
    BY <2>2 DEF Computed, RowsAfter, TypeOK, n
  <2> QED BY <2>1, <2>2
<1>3. row' \in [Row -> Cell]
  BY <1>2 DEF Computed, RowsAfter
<1>4. VisibleKeys(n - 1) = head' /\ head' \in Nat
  BY <1>0, <1>1 DEF VisibleKeys
<1>5. logits' = Conversation'
  BY <1>4 DEF Computed, Conversation, n
<1>6. Conversation' = [i \in 1 .. head' |-> row'[i - 1].tok]
  BY DEF Conversation, Read
<1>7. logits' \in Seq(Token \cup {Blank, Torn})
  <2>1. \A i \in 1 .. head' : row'[i - 1].tok \in Token \cup {Blank, Torn}
    BY <1>1, <1>2 DEF Row, Cell
  <2>2. [i \in 1 .. head' |-> row'[i - 1].tok] \in Seq(Token \cup {Blank, Torn})
    BY <1>4, <2>1
  <2> QED BY <1>5, <1>6, <2>2
<1>8. RowsWellPlaced'
  <2> SUFFICES ASSUME NEW r \in Row, r < head'
               PROVE  row'[r].tok \in Token /\ row'[r].pos = r /\ row'[r].keys = r + 1
    BY DEF RowsWellPlaced
  <2>1. CASE r < head
    BY <1>old, <2>1 DEF RowsWellPlaced
  <2>2. CASE r >= head
    BY <1>1, <1>new, <2>2
  <2> QED BY <1>0, <2>1, <2>2 DEF Row
<1>9. IInv'
  BY <1>1, <1>3, <1>7, <1>8 DEF TypeOK, Computed, Outcome
<1>10. Conversation = [i \in 1 .. head |-> row[i - 1].tok]
  BY DEF Conversation, Read
<1>11. Conversation \in Seq(Token) /\ Len(Conversation) = head
  <2>1. \A i \in 1 .. head : row[i - 1].tok \in Token
    BY <1>0 DEF RowsWellPlaced, Row
  <2> QED BY <1>0, <1>10, <2>1
<1>12. \A i \in 1 .. head + n :
          row'[i - 1].tok = IF i <= head THEN Conversation[i] ELSE ts[i - head]
  <2> SUFFICES ASSUME NEW i \in 1 .. head + n
               PROVE  row'[i - 1].tok = IF i <= head THEN Conversation[i]
                                                     ELSE ts[i - head]
    OBVIOUS
  <2>1. i - 1 \in Row /\ i - 1 \in Nat
    BY <1>0 DEF Row
  <2>2. CASE i <= head
    <3>1. row'[i - 1] = row[i - 1]
      BY <1>0, <1>old, <2>1, <2>2
    <3> QED BY <1>0, <1>10, <2>2, <3>1
  <2>3. CASE ~(i <= head)
    <3>1. i - 1 >= head /\ i - 1 < head + n /\ (i - 1) - head + 1 = i - head
      BY <1>0, <2>3
    <3>2. row'[i - 1].tok = ts[(i - 1) - head + 1]
      BY <1>new, <2>1, <3>1
    <3> QED BY <2>3, <3>1, <3>2
  <2> QED BY <2>2, <2>3
<1>13. Conversation' \in Seq(Token) /\ Len(Conversation') = head + n
  <2>1. \A i \in 1 .. head' : row'[i - 1].tok \in Token
    BY <1>1, <1>8 DEF RowsWellPlaced, Row
  <2> QED BY <1>1, <1>4, <1>6, <2>1
<1>14. Conversation' = Conversation \o ts
  <2>1. Conversation \o ts \in Seq(Token) /\ Len(Conversation \o ts) = head + n
    BY <1>0, <1>11, ConcatProperties DEF n
  <2>2. \A i \in 1 .. head + n : (Conversation \o ts)[i] =
            IF i <= head THEN Conversation[i] ELSE ts[i - head]
    BY <1>0, <1>11, ConcatProperties DEF n
  <2>3. \A i \in 1 .. head + n : Conversation'[i] = (Conversation \o ts)[i]
    BY <1>1, <1>6, <1>12, <2>2
  <2> QED BY <1>13, <2>1, <2>3, SeqEqual
<1> QED BY <1>0, <1>5, <1>9, <1>11, <1>14 DEF n

\* A pass that fails in its compute step keeps the invariant: it may change
\* any row it was to write, but all of them lie at or behind the head.
LEMMA AbortedInv ==
    ASSUME IInv, NEW ts \in Prompt, Aborted(ts, head)
    PROVE  IInv' /\ (\A r \in Row : r < head => row'[r] = row[r])
<1> USE ForwardPassAssumption DEF IInv
<1>0. /\ head \in 0 .. NCtx /\ head \in Nat /\ head' = head
      /\ Len(ts) \in Nat \ {0} /\ head + Len(ts) <= NCtx
      /\ \A i \in 1 .. Len(ts) : ts[i] \in Token
  BY PromptType DEF TypeOK, Aborted
<1>1. PICK new \in SUBSET Target(Len(ts)), torn \in SUBSET Target(Len(ts)) :
        row' = [r \in Row |-> IF r \in torn THEN TornCell
                              ELSE IF r \in new THEN CellOf(ts, head, r)
                              ELSE row[r]]
  BY DEF Aborted
<1>2. \A r \in Row : r < head => row'[r] = row[r]
  BY <1>0, <1>1 DEF Target, Row
<1>3. \A r \in Row : row'[r] \in Cell
  <2> SUFFICES ASSUME NEW r \in Row PROVE row'[r] \in Cell
    OBVIOUS
  <2>1. CASE r \in torn
    BY <1>1, <2>1, CellType DEF TornCell
  <2>2. CASE r \notin torn /\ r \in new
    <3>1. r >= head /\ r < head + Len(ts) /\ r \in Nat
      BY <1>0, <2>2 DEF Target
    <3>2. ts[r - head + 1] \in Token /\ head + (r - head) \in Nat
          /\ VisibleKeys(r - head) \in Nat
      BY <1>0, <3>1 DEF VisibleKeys
    <3> QED BY <1>1, <2>2, <3>2, CellType DEF CellOf
  <2>3. CASE r \notin torn /\ r \notin new
    BY <1>1, <2>3 DEF TypeOK
  <2> QED BY <2>1, <2>2, <2>3
<1>4. row' \in [Row -> Cell]
  BY <1>1, <1>3
<1>5. RowsWellPlaced'
  BY <1>0, <1>2 DEF RowsWellPlaced
<1> QED BY <1>0, <1>2, <1>4, <1>5 DEF TypeOK, Aborted, Outcome

LEMMA CasesInv == IInv /\ Cases => IInv'
<1> SUFFICES ASSUME IInv, Cases PROVE IInv'
  OBVIOUS
<1>1. CASE \E ts \in Prompt : Computed(ts, head)
  BY <1>1, ComputedStep
<1>2. CASE \E ts \in Prompt : Aborted(ts, head)
  BY <1>2, AbortedInv
<1>3. CASE Rejected
  BY <1>3 DEF Rejected, IInv, TypeOK, RowsWellPlaced, Outcome
<1>4. CASE ResetKv
  BY <1>4, ForwardPassAssumption DEF ResetKv, IInv, TypeOK, RowsWellPlaced, Row
<1>5. CASE UNCHANGED vars
  BY <1>5 DEF vars, IInv, TypeOK, RowsWellPlaced
<1> QED BY <1>1, <1>2, <1>3, <1>4, <1>5 DEF Cases

LEMMA NextInv == IInv /\ [Next]_vars => IInv'
BY CasesInv, NextCases

\* The variables keep their types in every behaviour of the forward pass; in
\* particular the head never exceeds n_ctx.
THEOREM TypeCorrect == Spec => []TypeOK
<1>1. IInv => TypeOK
  BY DEF IInv
<1> QED BY <1>1, InitInv, NextInv, PTL DEF Spec

\* Every row of the conversation sits at its own position and was computed
\* from its own prefix, whatever resets and failed passes came before
\* (KVCache::clear, forward, prefill and decode_one in graph.rs).
THEOREM RowsAreWellPlaced == Spec => []RowsWellPlaced
<1>1. IInv => RowsWellPlaced
  BY DEF IInv
<1> QED BY <1>1, InitInv, NextInv, PTL DEF Spec

-----------------------------------------------------------------------------
(* The refinement.                                                         *)

LEMMA InitRefines == Init => Abstract!TInit
BY DEF Init, Abstract!TInit, Conversation, Read

LEMMA CasesRefine ==
    IInv /\ Cases => [Abstract!TNext]_(Abstract!tvars)
<1> SUFFICES ASSUME IInv, Cases
             PROVE  \/ \E ts \in Prompt : Abstract!Extend(ts)
                    \/ Abstract!Forget
                    \/ UNCHANGED <<Conversation, logits>>
  BY DEF Abstract!TNext, Abstract!tvars
<1> USE ForwardPassAssumption
<1>1. CASE \E ts \in Prompt : Computed(ts, head)
  BY <1>1, ComputedStep DEF Abstract!Extend
<1>2. CASE \E ts \in Prompt : Aborted(ts, head)
  <2>1. head' = head /\ logits' = logits /\ head \in 0 .. NCtx
    BY <1>2 DEF Aborted, IInv, TypeOK
  <2>2. \A r \in Row : r < head => row'[r] = row[r]
    BY <1>2, AbortedInv
  <2>3. \A i \in 1 .. head : row'[i - 1] = row[i - 1]
    BY <2>1, <2>2 DEF Row
  <2>4. Conversation' = Conversation
    BY <2>1, <2>3 DEF Conversation, Read
  <2> QED BY <2>1, <2>4
<1>3. CASE Rejected
  BY <1>3 DEF Rejected, Conversation, Read
<1>4. CASE ResetKv
  BY <1>4 DEF ResetKv, Conversation, Read, Abstract!Forget
<1>5. CASE UNCHANGED vars
  BY <1>5 DEF vars, Conversation, Read
<1> QED BY <1>1, <1>2, <1>3, <1>4, <1>5 DEF Cases

LEMMA StepRefines ==
    IInv /\ [Next]_vars => [Abstract!TNext]_(Abstract!tvars)
BY CasesRefine, NextCases

\* The array of rows with its head implements the transcript: for every cache
\* size, whatever the order of prefills, single-token passes, failures and
\* resets, an answer depends on exactly the tokens fed since the last reset.
THEOREM CacheImplementsTranscript == Spec => ImplementsTranscript
<1> QED
  BY InitInv, NextInv, InitRefines, StepRefines, PTL
     DEF Spec, ImplementsTranscript

-----------------------------------------------------------------------------
(* The calls and the loads.  What each holds is read off the step it is at *)
(* (CallHolds, LoadHolds); that is what makes the list of handles of each  *)
(* exit complete.  The losses are counted exactly: two contexts and a      *)
(* buffer for each call that found a weight missing, one buffer for each   *)
(* load that found no context.                                             *)

\* What a call has at each step; a batch is under way until it leaves.
CallHolds ==
    /\ step \in {"idle", "inp_ctx", "ctx", "build", "alloc", "compute", "crashed"}
    /\ call \in [CallHandle -> Slot \cup {Null, Alive}]
    /\ step = "idle" => call = Nothing(CallHandle)
    /\ step \in {"inp_ctx", "ctx", "build", "alloc", "compute"} =>
            batch \in Prompt /\ call["inp_buf"] # Null
    /\ step = "inp_ctx" => call["inp_ctx"] = Null
    /\ step \in {"inp_ctx", "ctx"} => call["ctx"] = Null
    /\ step \in {"inp_ctx", "ctx", "build"} => call["galloc"] = Null
    /\ step = "build" => call["inp_ctx"] \in Slot /\ call["ctx"] \in Slot
    /\ step = "ctx" => call["inp_ctx"] \in Slot

\* What a load has at each step.
LoadHolds ==
    /\ loader \in {"none", "ggml_ctx", "data_buf", "kv_ctx", "install"}
    /\ next \in [ModelHandle -> Slot \cup {Null, Alive}]
    /\ model \in [ModelHandle -> Slot \cup {Null, Alive}]
    /\ loader = "none" => next = Nothing(ModelHandle)
    /\ loader # "none" => next["weight_buf"] # Null /\ loads > 0
    /\ loader = "ggml_ctx" => /\ next["ggml_ctx"] = Null
                              /\ next["data_buf"] = Null
    /\ loader = "data_buf" => next["data_buf"] = Null
    /\ loader \in {"ggml_ctx", "data_buf", "kv_ctx"} => next["kv_ctx"] = Null

\* The three owners share no context, and the two of a call are two.
Owned ==
    /\ Held(call) \subseteq pool
    /\ Held(next) \subseteq pool
    /\ Held(model) \subseteq pool
    /\ Held(call) \cap Held(next) = {}
    /\ Held(call) \cap Held(model) = {}
    /\ Held(next) \cap Held(model) = {}
    /\ call["inp_ctx"] # Null => call["inp_ctx"] # call["ctx"]

LostBuffers == buffers - HeldBuffers

\* The losses: k calls and, besides the load under way, some of the loads.
Accounted ==
    \E k \in Nat :
        /\ Cardinality(Lost) = 2 * k
        /\ k <= LostBuffers
        /\ LostBuffers <= k + loads - (IF loader = "none" THEN 0 ELSE 1)

\* With all weights in place nothing is lost.
NoneLost == missing = {} => Lost = {} /\ LostBuffers = 0 /\ ~Crashed

Basics ==
    /\ missing \subseteq Weight
    /\ pool \subseteq Slot
    /\ buffers \in Nat
    /\ batch \in Prompt \cup {<<>>}
    /\ loads \in 0 .. MaxLoads

\* The invariant of the resources, and with that of the cache.
RInv == Basics /\ CallHolds /\ LoadHolds /\ Owned /\ Accounted /\ NoneLost
FInv == IInv /\ RInv

-----------------------------------------------------------------------------
(* The pool.                                                               *)

\* ggml_init finds an unused context, if there is one.
LEMMA UnusedIsFree ==
    ASSUME pool \subseteq Slot
    PROVE  /\ Unused = Null <=> Slot \subseteq pool
           /\ Unused # Null => Unused \in Slot \ pool
<1> USE ForwardCallAssumption
<1>1. CASE Slot \subseteq pool
  BY <1>1 DEF Unused
<1>2. CASE ~(Slot \subseteq pool)
  <2> DEFINE T == Slot \ pool
             R == {ss \in Nat \X Nat : ss[1] < ss[2]}
  <2>1. IsWellFoundedOn(R, Nat)
    BY NatLessThanWellFounded DEF OpToRel
  <2>2. T \subseteq Nat /\ T # {}
    BY <1>2 DEF Slot
  <2>3. PICK x \in T : \A y \in T : <<y, x>> \notin R
    <3> HIDE DEF R, T
    <3> QED BY <2>1, <2>2, WFMin
  <2>4. \A y \in T : x <= y
    <3> SUFFICES ASSUME NEW y \in T PROVE x <= y
      OBVIOUS
    <3>1. <<y, x>> \in Nat \X Nat /\ <<y, x>> \notin R /\ x \in Nat /\ y \in Nat
      BY <2>2, <2>3
    <3> QED BY <3>1
  <2>5. Unused \in T
    BY <1>2, <2>3, <2>4 DEF Unused
  <2> QED BY <1>2, <2>2, <2>5
<1> QED BY <1>1, <1>2

\* Five owners cannot hold all contexts.
LEMMA RoomForSix ==
    ASSUME NEW a, NEW b, NEW c, NEW d, NEW e
    PROVE  ~(Slot \subseteq {a, b, c, d, e})
<1> DEFINE S == {a, b, c, d, e}
<1>1. IsFiniteSet(S) /\ Cardinality(S) <= 5
  <2>1. IsFiniteSet({a}) /\ Cardinality({a}) = 1
    BY FS_Singleton
  <2>2. IsFiniteSet({a, b}) /\ Cardinality({a, b}) \in 0 .. 2
    <3>1. {a, b} = {a} \cup {b}
      OBVIOUS
    <3> QED BY <2>1, <3>1, FS_AddElement
  <2>3. IsFiniteSet({a, b, c}) /\ Cardinality({a, b, c}) \in 0 .. 3
    <3>1. {a, b, c} = {a, b} \cup {c}
      OBVIOUS
    <3> QED BY <2>2, <3>1, FS_AddElement
  <2>4. IsFiniteSet({a, b, c, d}) /\ Cardinality({a, b, c, d}) \in 0 .. 4
    <3>1. {a, b, c, d} = {a, b, c} \cup {d}
      OBVIOUS
    <3> QED BY <2>3, <3>1, FS_AddElement
  <2>5. S = {a, b, c, d} \cup {e}
    OBVIOUS
  <2> HIDE DEF S
  <2> QED BY <2>4, <2>5, FS_AddElement
<1>2. Cardinality(Slot) = MaxContexts
  BY ForwardCallAssumption, FS_Interval DEF Slot
<1>3. ASSUME Slot \subseteq S PROVE FALSE
  <2>1. Cardinality(Slot) <= Cardinality(S)
    BY <1>1, <1>3, FS_Subset
  <2>2. Cardinality(S) \in Nat
    BY <1>1, FS_CardinalityType
  <2> QED BY <1>1, <1>2, <2>1, <2>2, ForwardCallAssumption
<1> QED BY <1>3

-----------------------------------------------------------------------------
(* Owners.  An owner is a function of handles; what it holds changes in    *)
(* four ways.                                                              *)

Owner(D) == [D -> Slot \cup {Null, Alive}]

LEMMA HandlesAreFinite ==
    /\ IsFiniteSet(CallHandle \ CtxHandle)
    /\ IsFiniteSet(ModelHandle \ CtxHandle)
<1>1. CallHandle \ CtxHandle = {"inp_buf"} \cup {"galloc"}
  BY DEF CallHandle, CtxHandle
<1>2. ModelHandle \ CtxHandle = {"weight_buf"} \cup {"data_buf"}
  BY DEF ModelHandle, CtxHandle
<1>3. IsFiniteSet({"inp_buf"}) /\ IsFiniteSet({"weight_buf"})
  BY FS_Singleton
<1>4. IsFiniteSet({"inp_buf"} \cup {"galloc"})
  BY <1>3, FS_AddElement
<1>5. IsFiniteSet({"weight_buf"} \cup {"data_buf"})
  BY <1>3, FS_AddElement
<1> QED BY <1>1, <1>2, <1>4, <1>5

\* A finite number of buffers.
LEMMA OthersType ==
    ASSUME NEW o, NEW D, IsFiniteSet(D \ CtxHandle)
    PROVE  /\ IsFiniteSet({h \in D \ CtxHandle : o[h] # Null})
           /\ Others(o, D) \in Nat
<1>1. {h \in D \ CtxHandle : o[h] # Null} \in SUBSET (D \ CtxHandle)
  OBVIOUS
<1>2. IsFiniteSet({h \in D \ CtxHandle : o[h] # Null})
  BY <1>1, FS_Subset
<1> QED BY <1>2, FS_CardinalityType DEF Others

\* A fresh owner has nothing.
LEMMA NothingHeld ==
    ASSUME NEW D
    PROVE  /\ Nothing(D) \in Owner(D)
           /\ Held(Nothing(D)) = {}
           /\ Others(Nothing(D), D) = 0
<1>1. {h \in D \ CtxHandle : Nothing(D)[h] # Null} = {}
  BY DEF Nothing
<1>2. Others(Nothing(D), D) = 0
  BY <1>1, FS_EmptySet DEF Others
<1> QED BY <1>2 DEF Nothing, Owner, Held, Contexts

\* It takes a context.
LEMMA ContextTaken ==
    ASSUME NEW D, NEW o \in Owner(D), NEW h \in D \cap CtxHandle, o[h] = Null,
           NEW s \in Slot
    PROVE  LET o2 == [o EXCEPT ![h] = s]
           IN  /\ o2 \in Owner(D)
               /\ Held(o2) = Held(o) \cup {s}
               /\ Others(o2, D) = Others(o, D)
<1> DEFINE o2 == [o EXCEPT ![h] = s]
<1>1. o2 \in Owner(D) /\ o2[h] = s /\ \A g \in D \ {h} : o2[g] = o[g]
  BY DEF Owner
<1>2. DOMAIN o = D /\ DOMAIN o2 = D
  BY DEF Owner
<1>3. s # Null
  BY ForwardCallAssumption DEF Slot
<1>4. \A g \in D \ CtxHandle : o2[g] = o[g]
  BY <1>1
<1> HIDE DEF o2
<1>5. Held(o2) = Held(o) \cup {s}
  BY <1>1, <1>2, <1>3 DEF Held, Contexts
<1>6. {g \in D \ CtxHandle : o2[g] # Null} = {g \in D \ CtxHandle : o[g] # Null}
  BY <1>4
<1>7. Others(o2, D) = Others(o, D)
  BY <1>6 DEF Others
<1> QED BY <1>1, <1>5, <1>7 DEF o2

\* It takes a buffer.
LEMMA BufferTaken ==
    ASSUME NEW D, NEW o \in Owner(D), NEW h \in D \ CtxHandle, o[h] = Null,
           IsFiniteSet(D \ CtxHandle)
    PROVE  LET o2 == [o EXCEPT ![h] = Alive]
           IN  /\ o2 \in Owner(D)
               /\ Held(o2) = Held(o)
               /\ Others(o2, D) = Others(o, D) + 1
<1> DEFINE o2 == [o EXCEPT ![h] = Alive]
           L == {g \in D \ CtxHandle : o[g] # Null}
<1>1. o2 \in Owner(D) /\ o2[h] = Alive /\ \A g \in D \ {h} : o2[g] = o[g]
  BY DEF Owner
<1>2. DOMAIN o = D /\ DOMAIN o2 = D
  BY DEF Owner
<1> HIDE DEF o2
<1>3. Held(o2) = Held(o)
  BY <1>1, <1>2 DEF Held, Contexts
<1>4. {g \in D \ CtxHandle : o2[g] # Null} = L \cup {h}
  BY <1>1, ForwardCallAssumption
<1>5. IsFiniteSet(L) /\ h \notin L
  BY OthersType
<1>6. Cardinality(L \cup {h}) = Cardinality(L) + 1
  <2> HIDE DEF L
  <2> QED BY <1>5, FS_AddElement
<1>7. Others(o2, D) = Others(o, D) + 1
  BY <1>4, <1>6 DEF Others
<1> QED BY <1>1, <1>3, <1>7 DEF o2

\* It gives back what it has: a list that leaves out no live handle is as
\* good as the list of all.
LEMMA AllFreed ==
    ASSUME NEW D, NEW o \in Owner(D), NEW hs \in SUBSET D,
           \A h \in D \ hs : o[h] = Null
    PROVE  /\ Contexts(o, hs) = Held(o)
           /\ Others(o, hs) = Others(o, D)
<1>1. DOMAIN o = D
  BY DEF Owner
<1>2. Contexts(o, hs) = Held(o)
  BY <1>1 DEF Held, Contexts
<1>3. {h \in hs \ CtxHandle : o[h] # Null} = {h \in D \ CtxHandle : o[h] # Null}
  OBVIOUS
<1> QED BY <1>2, <1>3 DEF Others

LEMMA NoneFreed ==
    ASSUME NEW o
    PROVE  Contexts(o, {}) = {} /\ Others(o, {}) = 0
<1>1. {h \in {} \ CtxHandle : o[h] # Null} = {}
  OBVIOUS
<1> QED BY <1>1, FS_EmptySet DEF Contexts, Others

-----------------------------------------------------------------------------
(* Accounts.                                                               *)

Waiting(l) == IF l = "none" THEN 0 ELSE 1

LEMMA OwnersTyped ==
    ASSUME RInv
    PROVE  /\ call \in Owner(CallHandle)
           /\ next \in Owner(ModelHandle)
           /\ model \in Owner(ModelHandle)
           /\ Others(call, CallHandle) \in Nat
           /\ Others(next, ModelHandle) \in Nat
           /\ Others(model, ModelHandle) \in Nat
           /\ HeldBuffers \in Nat /\ LostBuffers \in Int
           /\ IsFiniteSet(pool) /\ IsFiniteSet(Lost)
<1>1. /\ call \in Owner(CallHandle)
      /\ next \in Owner(ModelHandle)
      /\ model \in Owner(ModelHandle)
  BY DEF RInv, CallHolds, LoadHolds, Owner
<1>2. /\ Others(call, CallHandle) \in Nat
      /\ Others(next, ModelHandle) \in Nat
      /\ Others(model, ModelHandle) \in Nat
  BY HandlesAreFinite, OthersType
<1>3. HeldBuffers \in Nat /\ LostBuffers \in Int
  BY <1>2 DEF HeldBuffers, LostBuffers, RInv, Basics
<1>4. IsFiniteSet(Slot)
  BY ForwardCallAssumption, FS_Interval DEF Slot
<1>5. IsFiniteSet(pool)
  BY <1>4, FS_Subset DEF RInv, Basics
<1>6. Lost \in SUBSET pool
  BY DEF Lost
<1>7. IsFiniteSet(Lost)
  BY <1>5, <1>6, FS_Subset
<1> QED BY <1>1, <1>2, <1>3, <1>5, <1>7

\* A step that moves resources between the pool and the owners and loses none.
LEMMA Conserved ==
    ASSUME RInv,
           Lost' = Lost, LostBuffers' = LostBuffers,
           missing' = missing, loads \in Nat, loads' \in Nat,
           loads - Waiting(loader) <= loads' - Waiting(loader'),
           step' = "crashed" => step = "crashed" \/ missing # {}
    PROVE  Accounted' /\ NoneLost'
<1>1. PICK k \in Nat : /\ Cardinality(Lost) = 2 * k
                       /\ k <= LostBuffers
                       /\ LostBuffers <= k + loads - Waiting(loader)
  BY DEF RInv, Accounted, Waiting
<1>2. LostBuffers \in Int
  BY OwnersTyped
<1>3. Waiting(loader) \in {0, 1} /\ Waiting(loader') \in {0, 1}
  BY DEF Waiting
<1>4. Accounted'
  <2>1. LostBuffers' <= k + loads' - Waiting(loader')
    BY <1>1, <1>2, <1>3
  <2> QED BY <1>1, <2>1 DEF Accounted, Waiting
<1>5. NoneLost'
  BY DEF RInv, NoneLost, Crashed
<1> QED BY <1>4, <1>5

LEMMA ConservedByCall ==
    ASSUME RInv,
           Lost' = Lost, LostBuffers' = LostBuffers,
           UNCHANGED <<missing, loader, loads>>,
           step' # "crashed"
    PROVE  Accounted' /\ NoneLost'
<1>1. loads \in Nat /\ loads' \in Nat
  BY DEF RInv, Basics
<1>2. loads - Waiting(loader) <= loads' - Waiting(loader')
  BY <1>1 DEF Waiting
<1> QED BY <1>1, <1>2, Conserved

\* The three ways a step changes what the call holds.  Nothing else moves.
OnlyCall ==
    /\ UNCHANGED <<missing, loader, loads, next, model>>
    /\ step' # "crashed"

LEMMA CallTakesContext ==
    ASSUME RInv, NEW h \in {"inp_ctx", "ctx"}, call[h] = Null, OnlyCall,
           GgmlInit(call, h, Unused), buffers' = buffers
    PROVE  /\ call' = [call EXCEPT ![h] = Unused] /\ Unused \in Slot \ pool
           /\ call' \in Owner(CallHandle)
           /\ pool' = pool \cup {Unused}
           /\ Owned' /\ Accounted' /\ NoneLost'
<1> DEFINE s == Unused
<1>1. s \in Slot \ pool
  BY UnusedIsFree DEF RInv, Basics, GgmlInit
<1>2. call' = [call EXCEPT ![h] = s] /\ pool' = pool \cup {s}
  BY DEF GgmlInit, HandedOut
<1> HIDE DEF s
<1>3. h \in CallHandle \cap CtxHandle
  BY DEF CallHandle, CtxHandle
<1>4. /\ call' \in Owner(CallHandle)
      /\ Held(call') = Held(call) \cup {s}
      /\ Others(call', CallHandle) = Others(call, CallHandle)
  <2>1. call \in Owner(CallHandle) /\ call[h] = Null /\ s \in Slot
    BY <1>1, OwnersTyped
  <2>2. LET o2 == [call EXCEPT ![h] = s]
        IN  /\ o2 \in Owner(CallHandle)
            /\ Held(o2) = Held(call) \cup {s}
            /\ Others(o2, CallHandle) = Others(call, CallHandle)
    BY ONLY <1>3, <2>1, ContextTaken
  <2> QED BY <1>2, <2>2
<1>5. next' = next /\ model' = model /\ missing' = missing
  BY DEF OnlyCall
<1>6. Held(next)' = Held(next) /\ Held(model)' = Held(model)
      /\ Held(call)' = Held(call) \cup {s}
  BY <1>4, <1>5
<1>7. Owned'
  <2>1. call["inp_ctx"] # Null => call["inp_ctx"] \in pool
    BY OwnersTyped DEF RInv, Owned, Owner, Held, Contexts, CallHandle, CtxHandle
  <2>2. call["ctx"] # Null => call["ctx"] \in pool
    BY OwnersTyped DEF RInv, Owned, Owner, Held, Contexts, CallHandle, CtxHandle
  <2>3. DOMAIN call = CallHandle /\ "inp_ctx" \in CallHandle /\ "ctx" \in CallHandle
    BY OwnersTyped DEF Owner, CallHandle
  <2>4. (call["inp_ctx"] # Null => call["inp_ctx"] # call["ctx"])'
    <3>1. CASE h = "inp_ctx"
      <4>1. call'["inp_ctx"] = s /\ call'["ctx"] = call["ctx"]
        BY <1>2, <2>3, <3>1
      <4>2. s # Null
        BY <1>1, ForwardCallAssumption DEF Slot
      <4> QED BY <1>1, <2>2, <4>1, <4>2
    <3>2. CASE h = "ctx"
      <4>1. call'["ctx"] = s /\ call'["inp_ctx"] = call["inp_ctx"]
        BY <1>2, <2>3, <3>2
      <4> QED BY <1>1, <2>1, <4>1
    <3> QED BY <3>1, <3>2
  <2> QED BY <1>1, <1>2, <1>6, <2>4 DEF RInv, Owned
<1>8. Lost' = Lost
  BY <1>1, <1>2, <1>6 DEF Lost
<1>9. LostBuffers' = LostBuffers
  BY <1>4, <1>5 DEF LostBuffers, HeldBuffers
<1>10. Accounted' /\ NoneLost'
  BY <1>8, <1>9, ConservedByCall DEF OnlyCall
<1> QED BY <1>1, <1>2, <1>4, <1>7, <1>10 DEF s

LEMMA CallTakesBuffer ==
    ASSUME RInv, NEW h \in {"inp_buf", "galloc"}, call[h] = Null, OnlyCall,
           call' = [call EXCEPT ![h] = Alive], buffers' = buffers + 1, pool' = pool
    PROVE  /\ call' \in Owner(CallHandle)
           /\ Owned' /\ Accounted' /\ NoneLost'
<1>1. h \in CallHandle \ CtxHandle
  BY DEF CallHandle, CtxHandle
<1>2. /\ call' \in Owner(CallHandle)
      /\ Held(call') = Held(call)
      /\ Others(call', CallHandle) = Others(call, CallHandle) + 1
  BY <1>1, OwnersTyped, BufferTaken, HandlesAreFinite
<1>3. next' = next /\ model' = model /\ missing' = missing
  BY DEF OnlyCall
<1>4. Held(next)' = Held(next) /\ Held(model)' = Held(model)
      /\ Held(call)' = Held(call)
  BY <1>2, <1>3
<1>5. call'["inp_ctx"] = call["inp_ctx"] /\ call'["ctx"] = call["ctx"]
  BY OwnersTyped DEF Owner, CallHandle
<1>6. Owned'
  BY <1>4, <1>5 DEF RInv, Owned
<1>7. Lost' = Lost
  BY <1>4 DEF Lost
<1>8. LostBuffers' = LostBuffers
  BY <1>2, <1>3, OwnersTyped DEF LostBuffers, HeldBuffers, RInv, Basics
<1>9. Accounted' /\ NoneLost'
  BY <1>7, <1>8, ConservedByCall DEF OnlyCall
<1> QED BY <1>2, <1>6, <1>9

\* An exit whose list names every handle that is live.
LEMMA CompleteExit ==
    ASSUME RInv, NEW hs \in SUBSET CallHandle, \A h \in CallHandle \ hs : call[h] = Null,
           Leave(hs)
    PROVE  RInv'
<1>1. /\ pool' = pool \ Contexts(call, hs)
      /\ buffers' = buffers - Others(call, hs)
      /\ step' = "idle" /\ batch' = <<>> /\ call' = Nothing(CallHandle)
      /\ UNCHANGED <<missing, loader, loads, next, model>>
  BY DEF Leave, Freed, loadVars
<1>2. pool' = pool \ Held(call) /\ buffers' = buffers - Others(call, CallHandle)
  BY <1>1, OwnersTyped, AllFreed
<1>3. /\ call' \in Owner(CallHandle) /\ Held(call') = {}
      /\ Others(call', CallHandle) = 0
  BY <1>1, NothingHeld
<1>4. Held(next)' = Held(next) /\ Held(model)' = Held(model) /\ Held(call)' = {}
  BY <1>1, <1>3
<1>5. call'["inp_ctx"] = Null
  BY <1>1 DEF Nothing, CallHandle
<1>6. Owned'
  BY <1>2, <1>4, <1>5 DEF RInv, Owned
<1>7. Lost' = Lost
  BY <1>2, <1>4 DEF Lost, RInv, Owned
<1>8. LostBuffers' = LostBuffers
  BY <1>1, <1>2, <1>3, OwnersTyped DEF LostBuffers, HeldBuffers, RInv, Basics
<1>9. Accounted' /\ NoneLost'
  BY <1>1, <1>7, <1>8, ConservedByCall
<1>10. buffers' \in Nat
  <2>1. LostBuffers >= 0
    BY OwnersTyped DEF RInv, Accounted
  <2> QED BY <1>2, <2>1, OwnersTyped DEF LostBuffers, HeldBuffers, RInv, Basics
<1>11. Basics'
  BY <1>1, <1>2, <1>10 DEF RInv, Basics
<1>12. CallHolds' /\ LoadHolds'
  BY <1>1, <1>3 DEF RInv, CallHolds, LoadHolds, Owner
<1> QED BY <1>6, <1>9, <1>11, <1>12 DEF RInv

\* The exit of a missing weight: two contexts and a buffer are lost.
LEMMA LossyExit ==
    ASSUME RInv, WeightMissing
    PROVE  RInv'
<1>1. /\ step = "build"
      /\ pool' = pool \ Contexts(call, {})
      /\ buffers' = buffers - Others(call, {})
      /\ step' = "idle" /\ batch' = <<>> /\ call' = Nothing(CallHandle)
      /\ UNCHANGED <<missing, loader, loads, next, model>>
  BY DEF WeightMissing, Leave, Freed, loadVars
<1>2. pool' = pool /\ buffers' = buffers
  BY <1>1, NoneFreed DEF RInv, Basics
<1>3. missing # {}
  BY DEF WeightMissing
<1>4. /\ call' \in Owner(CallHandle) /\ Held(call') = {}
      /\ Others(call', CallHandle) = 0
  BY <1>1, NothingHeld
<1>5. Held(next)' = Held(next) /\ Held(model)' = Held(model) /\ Held(call)' = {}
  BY <1>1, <1>4
<1>6. Owned'
  <2>1. call'["inp_ctx"] = Null
    BY <1>1 DEF Nothing, CallHandle
  <2> QED BY <1>2, <1>5, <2>1 DEF RInv, Owned
<1> DEFINE a == call["inp_ctx"]
           b == call["ctx"]
<1>7. a \in Slot /\ b \in Slot /\ a # b /\ Held(call) = {a, b}
  <2>1. a \in Slot /\ b \in Slot
    BY <1>1 DEF RInv, CallHolds
  <2>2. a # Null /\ b # Null
    BY <2>1, ForwardCallAssumption DEF Slot
  <2>3. DOMAIN call = CallHandle /\ CallHandle \cap CtxHandle = {"inp_ctx", "ctx"}
    BY OwnersTyped DEF Owner, CallHandle, CtxHandle
  <2>4. Held(call) = {a, b}
    BY <2>2, <2>3 DEF Held, Contexts
  <2> QED BY <2>1, <2>2, <2>4 DEF RInv, Owned
<1> HIDE DEF a, b
<1>8. Lost' = (Lost \cup {a}) \cup {b} /\ a \notin Lost /\ b \notin Lost \cup {a}
  BY <1>2, <1>5, <1>7 DEF Lost, RInv, Owned
<1>9. Cardinality(Lost') = Cardinality(Lost) + 2 /\ Cardinality(Lost) \in Nat
  <2>1. IsFiniteSet(Lost) /\ Cardinality(Lost) \in Nat
    BY OwnersTyped, FS_CardinalityType
  <2>2. /\ IsFiniteSet(Lost \cup {a})
        /\ Cardinality(Lost \cup {a}) = Cardinality(Lost) + 1
    BY <1>8, <2>1, FS_AddElement
  <2>3. Cardinality((Lost \cup {a}) \cup {b}) = Cardinality(Lost \cup {a}) + 1
    BY <1>8, <2>2, FS_AddElement
  <2> QED BY <1>8, <2>1, <2>2, <2>3
<1>10. Others(call, CallHandle) = 1
  <2>1. call["inp_buf"] # Null /\ call["galloc"] = Null
    BY <1>1 DEF RInv, CallHolds
  <2>2. {h \in CallHandle \ CtxHandle : call[h] # Null} = {"inp_buf"}
    BY <2>1 DEF CallHandle, CtxHandle
  <2> QED BY <2>2, FS_Singleton DEF Others
<1>11. LostBuffers' = LostBuffers + 1 /\ LostBuffers \in Int
  BY <1>1, <1>2, <1>4, <1>10, OwnersTyped DEF LostBuffers, HeldBuffers, RInv, Basics
<1>12. Accounted'
  <2>1. PICK k \in Nat : /\ Cardinality(Lost) = 2 * k
                         /\ k <= LostBuffers
                         /\ LostBuffers <= k + loads - Waiting(loader)
    BY DEF RInv, Accounted, Waiting
  <2>2. Waiting(loader) \in {0, 1} /\ loads \in Nat
    BY DEF Waiting, RInv, Basics
  <2>3. /\ k + 1 \in Nat
        /\ Cardinality(Lost') = 2 * (k + 1)
        /\ k + 1 <= LostBuffers'
        /\ LostBuffers' <= (k + 1) + loads - Waiting(loader)
    BY <1>9, <1>11, <2>1, <2>2
  <2> QED BY <1>1, <2>3 DEF Accounted, Waiting
<1>13. Basics' /\ NoneLost'
  BY <1>1, <1>2, <1>3 DEF RInv, Basics, NoneLost
<1>14. CallHolds' /\ LoadHolds'
  BY <1>1, <1>4 DEF RInv, CallHolds, LoadHolds, Owner
<1> QED BY <1>6, <1>12, <1>13, <1>14 DEF RInv

\* A load takes resources as a call does.
OnlyLoad ==
    /\ UNCHANGED <<missing, step, batch, call, model>>
    /\ loads \in Nat /\ loads' \in Nat
    /\ loads - Waiting(loader) <= loads' - Waiting(loader')

LEMMA LoadTakesContext ==
    ASSUME RInv, NEW h \in {"ggml_ctx", "kv_ctx"}, next[h] = Null, OnlyLoad,
           GgmlInit(next, h, Unused), buffers' = buffers
    PROVE  /\ next' = [next EXCEPT ![h] = Unused]
           /\ next' \in Owner(ModelHandle)
           /\ pool' \subseteq Slot
           /\ Owned' /\ Accounted' /\ NoneLost'
<1> DEFINE s == Unused
<1>1. s \in Slot \ pool /\ s \in Slot
  BY UnusedIsFree DEF RInv, Basics, GgmlInit
<1>2. next' = [next EXCEPT ![h] = s] /\ pool' = pool \cup {s}
  BY DEF GgmlInit, HandedOut
<1> HIDE DEF s
<1>3. h \in ModelHandle \cap CtxHandle
  BY DEF ModelHandle, CtxHandle
<1>4. /\ next' \in Owner(ModelHandle)
      /\ Held(next') = Held(next) \cup {s}
      /\ Others(next', ModelHandle) = Others(next, ModelHandle)
  <2>1. next \in Owner(ModelHandle) /\ next[h] = Null
    BY OwnersTyped
  <2>2. LET o2 == [next EXCEPT ![h] = s]
        IN  /\ o2 \in Owner(ModelHandle)
            /\ Held(o2) = Held(next) \cup {s}
            /\ Others(o2, ModelHandle) = Others(next, ModelHandle)
    BY ONLY <1>1, <1>3, <2>1, ContextTaken
  <2> QED BY <1>2, <2>2
<1>5. call' = call /\ model' = model /\ missing' = missing
  BY DEF OnlyLoad
<1>6. /\ Held(call)' = Held(call) /\ Held(model)' = Held(model)
      /\ Held(next)' = Held(next) \cup {s}
  BY <1>4, <1>5
<1>7. Owned'
  BY <1>1, <1>2, <1>5, <1>6 DEF RInv, Owned
<1>8. Lost' = Lost
  BY <1>1, <1>2, <1>6 DEF Lost
<1>9. LostBuffers' = LostBuffers
  BY <1>4, <1>5 DEF LostBuffers, HeldBuffers
<1>10. Accounted' /\ NoneLost'
  BY <1>8, <1>9, Conserved DEF OnlyLoad
<1>11. pool' \subseteq Slot
  BY <1>1, <1>2 DEF RInv, Basics
<1> QED BY <1>2, <1>4, <1>7, <1>10, <1>11 DEF s

LEMMA LoadTakesBuffer ==
    ASSUME RInv, NEW h \in {"weight_buf", "data_buf"}, next[h] = Null, OnlyLoad,
           next' = [next EXCEPT ![h] = Alive], buffers' = buffers + 1, pool' = pool
    PROVE  /\ next' \in Owner(ModelHandle)
           /\ Owned' /\ Accounted' /\ NoneLost'
<1>1. h \in ModelHandle \ CtxHandle
  BY DEF ModelHandle, CtxHandle
<1>2. /\ next' \in Owner(ModelHandle)
      /\ Held(next') = Held(next)
      /\ Others(next', ModelHandle) = Others(next, ModelHandle) + 1
  BY <1>1, OwnersTyped, BufferTaken, HandlesAreFinite
<1>3. call' = call /\ model' = model /\ missing' = missing
  BY DEF OnlyLoad
<1>4. Held(call)' = Held(call) /\ Held(model)' = Held(model)
      /\ Held(next)' = Held(next)
  BY <1>2, <1>3
<1>5. Owned'
  BY <1>3, <1>4 DEF RInv, Owned
<1>6. Lost' = Lost
  BY <1>4 DEF Lost
<1>7. LostBuffers' = LostBuffers
  BY <1>2, <1>3, OwnersTyped DEF LostBuffers, HeldBuffers, RInv, Basics
<1>8. Accounted' /\ NoneLost'
  BY <1>6, <1>7, Conserved DEF OnlyLoad
<1> QED BY <1>2, <1>5, <1>8

-----------------------------------------------------------------------------
(* The steps of a call.                                                    *)

LEMMA BeginInv ==
    ASSUME RInv, Begin
    PROVE  RInv'
<1>1. step = "idle" /\ UNCHANGED <<missing, pool, loader, loads, next, model>>
  BY DEF Begin, loadVars
<1>2. CASE UNCHANGED <<buffers, step, batch, call>>
  BY <1>1, <1>2 DEF RInv, Basics, CallHolds, LoadHolds, Owned, Accounted, NoneLost,
        Lost, LostBuffers, HeldBuffers, Crashed
<1>3. CASE /\ batch' \in Prompt /\ step' = "inp_ctx"
           /\ call' = [call EXCEPT !["inp_buf"] = Alive]
           /\ buffers' = buffers + 1
  <2>1. call = Nothing(CallHandle)
    BY <1>1 DEF RInv, CallHolds
  <2>2. \A h \in CallHandle : call[h] = Null
    BY <2>1 DEF Nothing
  <2>3. call["inp_buf"] = Null
    BY <2>2 DEF CallHandle
  <2>4. OnlyCall
    BY <1>1, <1>3 DEF OnlyCall
  <2>5. call' \in Owner(CallHandle) /\ Owned' /\ Accounted' /\ NoneLost'
    BY <1>1, <1>3, <2>3, <2>4, CallTakesBuffer
  <2>6. /\ call'["inp_buf"] = Alive /\ call'["inp_ctx"] = Null
        /\ call'["ctx"] = Null /\ call'["galloc"] = Null
    BY <1>3, <2>1 DEF Nothing, CallHandle
  <2>7. CallHolds'
    BY <1>3, <2>5, <2>6, ForwardCallAssumption DEF CallHolds, Owner
  <2>8. Basics' /\ LoadHolds'
    BY <1>1, <1>3 DEF RInv, Basics, LoadHolds
  <2> QED BY <2>5, <2>7, <2>8 DEF RInv
<1> QED BY <1>2, <1>3 DEF Begin, callVars

LEMMA InitInputsInv ==
    ASSUME RInv, InitInputs
    PROVE  RInv'
<1>1. /\ step = "inp_ctx" /\ step' = "ctx" /\ GgmlInit(call, "inp_ctx", Unused)
      /\ UNCHANGED <<missing, buffers, batch, loader, loads, next, model>>
  BY DEF InitInputs, loadVars
<1>2. OnlyCall /\ call["inp_ctx"] = Null
  BY <1>1 DEF OnlyCall, RInv, CallHolds
<1>3. /\ call' = [call EXCEPT !["inp_ctx"] = Unused] /\ Unused \in Slot \ pool
      /\ call' \in Owner(CallHandle)
      /\ pool' = pool \cup {Unused}
      /\ Owned' /\ Accounted' /\ NoneLost'
  BY <1>1, <1>2, CallTakesContext
<1>4. /\ call'["inp_ctx"] = Unused
      /\ \A h \in CallHandle \ {"inp_ctx"} : call'[h] = call[h]
  BY <1>3, OwnersTyped DEF Owner, CallHandle
<1>5. CallHolds'
  BY <1>1, <1>3, <1>4 DEF RInv, CallHolds, Owner, CallHandle
<1>6. Basics' /\ LoadHolds'
  BY <1>1, <1>3 DEF RInv, Basics, LoadHolds
<1> QED BY <1>3, <1>5, <1>6 DEF RInv

LEMMA InitGraphInv ==
    ASSUME RInv, InitGraph
    PROVE  RInv'
<1>1. /\ step = "ctx" /\ step' = "build" /\ GgmlInit(call, "ctx", Unused)
      /\ UNCHANGED <<missing, buffers, batch, loader, loads, next, model>>
  BY DEF InitGraph, loadVars
<1>2. OnlyCall /\ call["ctx"] = Null
  BY <1>1 DEF OnlyCall, RInv, CallHolds
<1>3. /\ call' = [call EXCEPT !["ctx"] = Unused] /\ Unused \in Slot \ pool
      /\ call' \in Owner(CallHandle)
      /\ pool' = pool \cup {Unused}
      /\ Owned' /\ Accounted' /\ NoneLost'
  BY <1>1, <1>2, CallTakesContext
<1>4. /\ call'["ctx"] = Unused
      /\ \A h \in CallHandle \ {"ctx"} : call'[h] = call[h]
  BY <1>3, OwnersTyped DEF Owner, CallHandle
<1>5. CallHolds'
  BY <1>1, <1>3, <1>4 DEF RInv, CallHolds, Owner, CallHandle
<1>6. Basics' /\ LoadHolds'
  BY <1>1, <1>3 DEF RInv, Basics, LoadHolds
<1> QED BY <1>3, <1>5, <1>6 DEF RInv

LEMMA BuildInv ==
    ASSUME RInv, Build
    PROVE  RInv'
<1>1. /\ step = "build" /\ step' = "alloc"
      /\ call' = [call EXCEPT !["galloc"] = Alive] /\ buffers' = buffers + 1
      /\ UNCHANGED <<missing, pool, batch, loader, loads, next, model>>
  BY DEF Build, loadVars
<1>2. OnlyCall /\ call["galloc"] = Null
  BY <1>1 DEF OnlyCall, RInv, CallHolds
<1>3. call' \in Owner(CallHandle) /\ Owned' /\ Accounted' /\ NoneLost'
  BY <1>1, <1>2, CallTakesBuffer
<1>4. \A h \in CallHandle \ {"galloc"} : call'[h] = call[h]
  BY <1>1, OwnersTyped DEF Owner
<1>5. CallHolds'
  BY <1>1, <1>3, <1>4 DEF RInv, CallHolds, Owner, CallHandle
<1>6. Basics' /\ LoadHolds'
  BY <1>1 DEF RInv, Basics, LoadHolds
<1> QED BY <1>3, <1>5, <1>6 DEF RInv

\* No exit but that of a missing weight forgets a live handle.
LEMMA ExitInv ==
    ASSUME RInv,
           \/ NoInputs \/ NoGraph \/ DoesNotFit \/ NoAllocator \/ Compute
           \/ step = "alloc" /\ Leave(CallHandle)
    PROVE  RInv'
<1>1. CASE NoInputs
  <2>1. \A h \in CallHandle \ {"inp_buf"} : call[h] = Null
    BY <1>1 DEF NoInputs, RInv, CallHolds, CallHandle
  <2>2. {"inp_buf"} \in SUBSET CallHandle
    BY DEF CallHandle
  <2> QED BY <1>1, <2>1, <2>2, CompleteExit DEF NoInputs
<1>2. CASE NoGraph
  <2>1. \A h \in CallHandle \ {"inp_ctx", "inp_buf"} : call[h] = Null
    BY <1>2 DEF NoGraph, RInv, CallHolds, CallHandle
  <2>2. {"inp_ctx", "inp_buf"} \in SUBSET CallHandle
    BY DEF CallHandle
  <2> QED BY <1>2, <2>1, <2>2, CompleteExit DEF NoGraph
<1>3. CASE DoesNotFit
  <2>1. \A h \in CallHandle \ OverflowFrees : call[h] = Null
    BY <1>3 DEF DoesNotFit, OverflowFrees, RInv, CallHolds, CallHandle
  <2>2. OverflowFrees \in SUBSET CallHandle
    BY DEF OverflowFrees, CallHandle
  <2> QED BY <1>3, <2>1, <2>2, CompleteExit DEF DoesNotFit
<1>4. CASE NoAllocator
  <2>1. \A h \in CallHandle \ {"ctx", "inp_ctx", "inp_buf"} : call[h] = Null
    BY <1>4 DEF NoAllocator, RInv, CallHolds, CallHandle
  <2>2. {"ctx", "inp_ctx", "inp_buf"} \in SUBSET CallHandle
    BY DEF CallHandle
  <2> QED BY <1>4, <2>1, <2>2, CompleteExit DEF NoAllocator
<1>5. CASE Compute
  <2>1. ComputeFrees = CallHandle
    BY DEF ComputeFrees, CallHandle
  <2> QED BY <1>5, <2>1, CompleteExit DEF Compute
<1>6. CASE step = "alloc" /\ Leave(CallHandle)
  BY <1>6, CompleteExit
<1> QED BY <1>1, <1>2, <1>3, <1>4, <1>5, <1>6

\* Finding room for the graph changes the step alone.
LEMMA RoomFoundInv ==
    ASSUME RInv, step = "alloc", step' = "compute",
           UNCHANGED <<missing, pool, buffers, batch, call, loader, loads, next, model>>
    PROVE  RInv'
BY DEF RInv, Basics, CallHolds, LoadHolds, Owned, Accounted, NoneLost,
       Lost, LostBuffers, HeldBuffers, Crashed

LEMMA PassInv ==
    ASSUME RInv, Pass
    PROVE  RInv'
<1>1. CASE AllocGraph
  <2>1. CASE /\ step = "alloc" /\ step' = "compute"
             /\ UNCHANGED <<missing, pool, buffers, batch, call, loader, loads, next, model>>
    BY <2>1, RoomFoundInv
  <2>2. CASE step = "alloc" /\ Leave(CallHandle)
    BY <2>2, ExitInv
  <2> QED BY <1>1, <2>1, <2>2 DEF AllocGraph, loadVars
<1>2. CASE Reset
  BY <1>2 DEF Reset, resources, RInv, Basics, CallHolds, LoadHolds, Owned, Accounted,
        NoneLost, Lost, LostBuffers, HeldBuffers, Crashed
<1> QED BY <1>1, <1>2, BeginInv, InitInputsInv, InitGraphInv, BuildInv, ExitInv,
        LossyExit DEF Pass

-----------------------------------------------------------------------------
(* The steps of a load.                                                    *)

LEMMA LoadFileInv ==
    ASSUME RInv, LoadFile
    PROVE  RInv'
<1>1. /\ loader = "none" /\ loader' = "ggml_ctx" /\ loads < MaxLoads
      /\ loads' = loads + 1 /\ buffers' = buffers + 1
      /\ next' = [next EXCEPT !["weight_buf"] = Alive]
      /\ UNCHANGED <<missing, pool, step, batch, call, model>>
  BY DEF LoadFile, callVars
<1>2. next = Nothing(ModelHandle) /\ loads \in 0 .. MaxLoads
  BY <1>1 DEF RInv, LoadHolds, Basics
<1>3. \A h \in ModelHandle : next[h] = Null
  BY <1>2 DEF Nothing
<1>4. OnlyLoad /\ next["weight_buf"] = Null
  BY <1>1, <1>2, <1>3 DEF OnlyLoad, Waiting, ModelHandle
<1>5. next' \in Owner(ModelHandle) /\ Owned' /\ Accounted' /\ NoneLost'
  BY <1>1, <1>4, LoadTakesBuffer
<1>6. /\ next'["weight_buf"] = Alive
      /\ \A h \in ModelHandle \ {"weight_buf"} : next'[h] = Null
  BY <1>1, <1>3, OwnersTyped DEF Owner, ModelHandle
<1>7. LoadHolds'
  BY <1>1, <1>2, <1>5, <1>6, ForwardCallAssumption
     DEF RInv, LoadHolds, Owner, ModelHandle
<1>8. Basics' /\ CallHolds'
  BY <1>1, <1>2, ForwardCallAssumption DEF RInv, Basics, CallHolds
<1> QED BY <1>5, <1>7, <1>8 DEF RInv

LEMMA LoadWeightsInv ==
    ASSUME RInv, LoadWeights
    PROVE  RInv'
<1>1. /\ loader = "ggml_ctx" /\ loader' = "data_buf" /\ GgmlInit(next, "ggml_ctx", Unused)
      /\ UNCHANGED <<missing, buffers, step, batch, call, loads, model>>
  BY DEF LoadWeights, callVars
<1>2. next["ggml_ctx"] = Null /\ OnlyLoad
  BY <1>1 DEF RInv, LoadHolds, Basics, OnlyLoad, Waiting
<1>3. /\ next' = [next EXCEPT !["ggml_ctx"] = Unused]
      /\ next' \in Owner(ModelHandle) /\ pool' \subseteq Slot
      /\ Owned' /\ Accounted' /\ NoneLost'
  BY <1>1, <1>2, LoadTakesContext
<1>4. \A h \in ModelHandle \ {"ggml_ctx"} : next'[h] = next[h]
  BY <1>3, OwnersTyped DEF Owner
<1>5. LoadHolds'
  BY <1>1, <1>3, <1>4 DEF RInv, LoadHolds, Owner, ModelHandle
<1>6. Basics' /\ CallHolds'
  BY <1>1, <1>3 DEF RInv, Basics, CallHolds
<1> QED BY <1>3, <1>5, <1>6 DEF RInv

LEMMA AllocCacheInv ==
    ASSUME RInv, AllocCache
    PROVE  RInv'
<1>1. /\ loader = "data_buf" /\ loader' = "kv_ctx"
      /\ next' = [next EXCEPT !["data_buf"] = Alive] /\ buffers' = buffers + 1
      /\ UNCHANGED <<missing, pool, step, batch, call, loads, model>>
  BY DEF AllocCache, callVars
<1>2. next["data_buf"] = Null /\ OnlyLoad
  BY <1>1 DEF RInv, LoadHolds, Basics, OnlyLoad, Waiting
<1>3. next' \in Owner(ModelHandle) /\ Owned' /\ Accounted' /\ NoneLost'
  BY <1>1, <1>2, LoadTakesBuffer
<1>4. \A h \in ModelHandle \ {"data_buf"} : next'[h] = next[h]
  BY <1>1, OwnersTyped DEF Owner
<1>5. LoadHolds'
  BY <1>1, <1>3, <1>4 DEF RInv, LoadHolds, Owner, ModelHandle
<1>6. Basics' /\ CallHolds'
  BY <1>1 DEF RInv, Basics, CallHolds
<1> QED BY <1>3, <1>5, <1>6 DEF RInv

LEMMA InitCacheInv ==
    ASSUME RInv, InitCache
    PROVE  RInv'
<1>1. /\ loader = "kv_ctx" /\ loader' = "install" /\ GgmlInit(next, "kv_ctx", Unused)
      /\ UNCHANGED <<missing, buffers, step, batch, call, loads, model>>
  BY DEF InitCache, callVars
<1>2. next["kv_ctx"] = Null /\ OnlyLoad
  BY <1>1 DEF RInv, LoadHolds, Basics, OnlyLoad, Waiting
<1>3. /\ next' = [next EXCEPT !["kv_ctx"] = Unused]
      /\ next' \in Owner(ModelHandle) /\ pool' \subseteq Slot
      /\ Owned' /\ Accounted' /\ NoneLost'
  BY <1>1, <1>2, LoadTakesContext
<1>4. \A h \in ModelHandle \ {"kv_ctx"} : next'[h] = next[h]
  BY <1>3, OwnersTyped DEF Owner
<1>5. LoadHolds'
  BY <1>1, <1>3, <1>4 DEF RInv, LoadHolds, Owner, ModelHandle
<1>6. Basics' /\ CallHolds'
  BY <1>1, <1>3 DEF RInv, Basics, CallHolds
<1> QED BY <1>3, <1>5, <1>6 DEF RInv

\* With nothing lost and a context still to come, the pool is not empty.
LEMMA ContextLeft ==
    ASSUME RInv, Lost = {}, loader \in {"ggml_ctx", "kv_ctx"}
    PROVE  Unused # Null
<1> DEFINE a == call["inp_ctx"]
           b == call["ctx"]
           c == next["ggml_ctx"]
           d == model["ggml_ctx"]
           e == model["kv_ctx"]
<1>1. next["kv_ctx"] = Null
  BY DEF RInv, LoadHolds
<1>2. Held(call) \subseteq {a, b}
  BY OwnersTyped DEF Owner, Held, Contexts, CallHandle, CtxHandle
<1>3. Held(next) \subseteq {c}
  BY <1>1, OwnersTyped DEF Owner, Held, Contexts, ModelHandle, CtxHandle
<1>4. Held(model) \subseteq {d, e}
  BY OwnersTyped DEF Owner, Held, Contexts, ModelHandle, CtxHandle
<1> HIDE DEF a, b, c, d, e
<1>5. pool \subseteq {a, b, c, d, e}
  BY <1>2, <1>3, <1>4 DEF Lost
<1>6. ~(Slot \subseteq pool)
  BY <1>5, RoomForSix
<1> QED BY <1>6, UnusedIsFree DEF RInv, Basics

\* A load without a context loses the wrapper of the file.
LEMMA NoWeightsInv ==
    ASSUME RInv, NoWeights
    PROVE  RInv'
<1>1. /\ loader = "ggml_ctx" /\ loader' = "none" /\ Unused = Null
      /\ next' = Nothing(ModelHandle)
      /\ UNCHANGED <<missing, pool, buffers, step, batch, call, loads, model>>
  BY DEF NoWeights, callVars
<1>2. missing # {}
  BY <1>1, ContextLeft DEF RInv, NoneLost
<1>3. /\ next' \in Owner(ModelHandle) /\ Held(next') = {}
      /\ Others(next', ModelHandle) = 0
  BY <1>1, NothingHeld
<1>4. /\ next["ggml_ctx"] = Null /\ next["kv_ctx"] = Null
      /\ next["weight_buf"] # Null /\ next["data_buf"] = Null
  BY <1>1 DEF RInv, LoadHolds
<1>5. Held(next) = {}
  BY <1>4, OwnersTyped DEF Owner, Held, Contexts, ModelHandle, CtxHandle
<1>6. Others(next, ModelHandle) = 1
  <2>1. {h \in ModelHandle \ CtxHandle : next[h] # Null} = {"weight_buf"}
    BY <1>4 DEF ModelHandle, CtxHandle
  <2> QED BY <2>1, FS_Singleton DEF Others
<1>7. /\ Held(call)' = Held(call) /\ Held(model)' = Held(model)
      /\ Held(next)' = Held(next)
  BY <1>1, <1>3, <1>5
<1>8. Owned'
  BY <1>1, <1>7 DEF RInv, Owned
<1>9. Lost' = Lost
  BY <1>1, <1>7 DEF Lost
<1>10. LostBuffers' = LostBuffers + 1 /\ LostBuffers \in Int
  BY <1>1, <1>3, <1>6, OwnersTyped DEF LostBuffers, HeldBuffers, RInv, Basics
<1>11. Accounted'
  <2>1. PICK k \in Nat : /\ Cardinality(Lost) = 2 * k
                         /\ k <= LostBuffers
                         /\ LostBuffers <= k + loads - 1
    BY <1>1 DEF RInv, Accounted
  <2>2. loads \in Nat
    BY DEF RInv, Basics
  <2>3. k <= LostBuffers' /\ LostBuffers' <= k + loads - 0
    BY <1>10, <2>1, <2>2
  <2> QED BY <1>1, <1>9, <2>1, <2>3 DEF Accounted
<1>12. Basics' /\ NoneLost'
  BY <1>1, <1>2 DEF RInv, Basics, NoneLost
<1>13. CallHolds' /\ LoadHolds'
  BY <1>1, <1>3 DEF RInv, CallHolds, LoadHolds, Owner
<1> QED BY <1>8, <1>11, <1>12, <1>13 DEF RInv

\* Dropping what was loaded so far, or the old model, gives back all of it.
LEMMA NoTokenizerInv ==
    ASSUME RInv, NoTokenizer
    PROVE  RInv'
<1>1. /\ loader = "data_buf" /\ loader' = "none" /\ next' = Nothing(ModelHandle)
      /\ pool' = pool \ Contexts(next, ModelHandle)
      /\ buffers' = buffers - Others(next, ModelHandle)
      /\ UNCHANGED <<missing, step, batch, call, loads, model>>
  BY DEF NoTokenizer, Freed, callVars
<1>2. Contexts(next, ModelHandle) = Held(next)
  BY OwnersTyped, AllFreed
<1>3. /\ next' \in Owner(ModelHandle) /\ Held(next') = {}
      /\ Others(next', ModelHandle) = 0
  BY <1>1, NothingHeld
<1>4. Held(call)' = Held(call) /\ Held(model)' = Held(model) /\ Held(next)' = {}
  BY <1>1, <1>3
<1>5. Owned'
  BY <1>1, <1>2, <1>4 DEF RInv, Owned
<1>6. Lost' = Lost
  BY <1>1, <1>2, <1>4 DEF Lost, RInv, Owned
<1>7. LostBuffers' = LostBuffers
  BY <1>1, <1>3, OwnersTyped DEF LostBuffers, HeldBuffers, RInv, Basics
<1>8. loads \in Nat /\ loads - Waiting(loader) <= loads' - Waiting(loader')
  BY <1>1 DEF RInv, Basics, Waiting
<1>9. Accounted' /\ NoneLost'
  BY <1>1, <1>6, <1>7, <1>8, Conserved
<1>10. buffers' \in Nat
  <2>1. LostBuffers >= 0
    BY OwnersTyped DEF RInv, Accounted
  <2> QED BY <1>1, <2>1, OwnersTyped DEF LostBuffers, HeldBuffers, RInv, Basics
<1>11. Basics'
  BY <1>1, <1>10 DEF RInv, Basics
<1>12. CallHolds' /\ LoadHolds'
  BY <1>1, <1>3 DEF RInv, CallHolds, LoadHolds, Owner
<1> QED BY <1>5, <1>9, <1>11, <1>12 DEF RInv

LEMMA InstallInv ==
    ASSUME RInv, Install
    PROVE  RInv'
<1>1. /\ loader = "install" /\ loader' = "none" /\ next' = Nothing(ModelHandle)
      /\ model' = next
      /\ pool' = pool \ Contexts(model, ModelHandle)
      /\ buffers' = buffers - Others(model, ModelHandle)
      /\ UNCHANGED <<missing, step, batch, call, loads>>
  BY DEF Install, Freed, callVars
<1>2. Contexts(model, ModelHandle) = Held(model)
  BY OwnersTyped, AllFreed
<1>3. /\ next' \in Owner(ModelHandle) /\ Held(next') = {}
      /\ Others(next', ModelHandle) = 0
  BY <1>1, NothingHeld
<1>4. Held(call)' = Held(call) /\ Held(model)' = Held(next) /\ Held(next)' = {}
  BY <1>1, <1>3
<1>5. Owned'
  BY <1>1, <1>2, <1>4 DEF RInv, Owned
<1>6. Lost' = Lost
  BY <1>1, <1>2, <1>4 DEF Lost, RInv, Owned
<1>7. LostBuffers' = LostBuffers
  BY <1>1, <1>3, OwnersTyped DEF LostBuffers, HeldBuffers, RInv, Basics
<1>8. loads \in Nat /\ loads - Waiting(loader) <= loads' - Waiting(loader')
  BY <1>1 DEF RInv, Basics, Waiting
<1>9. Accounted' /\ NoneLost'
  BY <1>1, <1>6, <1>7, <1>8, Conserved
<1>10. buffers' \in Nat
  <2>1. LostBuffers >= 0
    BY OwnersTyped DEF RInv, Accounted
  <2> QED BY <1>1, <2>1, OwnersTyped DEF LostBuffers, HeldBuffers, RInv, Basics
<1>11. Basics'
  BY <1>1, <1>10 DEF RInv, Basics
<1>12. CallHolds' /\ LoadHolds'
  BY <1>1, <1>3, OwnersTyped DEF RInv, CallHolds, LoadHolds, Owner
<1> QED BY <1>5, <1>9, <1>11, <1>12 DEF RInv

\* The null context is met only after a weight was missing.
LEMMA NullCacheInv ==
    ASSUME RInv, NullCache
    PROVE  RInv'
<1>1. /\ loader = "kv_ctx" /\ Unused = Null /\ step' = "crashed"
      /\ UNCHANGED <<missing, pool, buffers, batch, call, loader, loads, next, model>>
  BY DEF NullCache, loadVars
<1>2. missing # {}
  BY <1>1, ContextLeft DEF RInv, NoneLost
<1>3. Owned' /\ Accounted' /\ NoneLost'
  BY <1>1, <1>2 DEF RInv, Owned, Accounted, NoneLost, Lost, LostBuffers, HeldBuffers
<1>4. Basics' /\ CallHolds' /\ LoadHolds'
  BY <1>1 DEF RInv, Basics, CallHolds, LoadHolds
<1> QED BY <1>3, <1>4 DEF RInv

LEMMA LoadInv ==
    ASSUME RInv, Load
    PROVE  RInv'
BY LoadFileInv, LoadWeightsInv, NoWeightsInv, NoTokenizerInv, AllocCacheInv,
   InitCacheInv, NullCacheInv, InstallInv DEF Load

-----------------------------------------------------------------------------
(* The cache.  A step of a call is a step of ForwardPass or leaves the     *)
(* cache alone; the cache of a new model is empty.                         *)

Emptied ==
    /\ head' = 0
    /\ row' = [r \in Row |-> BlankCell]
    /\ UNCHANGED <<logits, outcome>>

LEMMA CacheStep ==
    ASSUME CallHolds, [FNext]_fvars
    PROVE  Cases \/ Emptied
<1>1. CASE Compute
  BY <1>1 DEF Compute, CallHolds, Cases
<1>2. CASE Reset
  BY <1>2 DEF Reset, Cases
<1>3. CASE Install
  BY <1>3 DEF Install, Emptied
<1>4. CASE Rejected \/ UNCHANGED vars
  BY <1>4 DEF Cases
<1>5. \/ Compute \/ Reset \/ Install \/ Rejected \/ UNCHANGED vars
  BY DEF FNext, Pass, Load, Begin, InitInputs, NoInputs, InitGraph, NoGraph,
         DoesNotFit, WeightMissing, Build, NoAllocator, AllocGraph,
         LoadFile, LoadWeights, NoWeights, NoTokenizer, AllocCache, InitCache,
         NullCache, fvars
<1> QED BY <1>1, <1>2, <1>3, <1>4, <1>5

LEMMA EmptiedInv ==
    ASSUME IInv, Emptied
    PROVE  IInv' /\ Abstract!Forget
<1> USE ForwardPassAssumption
<1>1. TypeOK'
  BY CellType DEF Emptied, IInv, TypeOK, BlankCell
<1>2. RowsWellPlaced'
  BY DEF Emptied, RowsWellPlaced, Row
<1>3. Conversation' = <<>>
  BY DEF Emptied, Conversation, Read
<1> QED BY <1>1, <1>2, <1>3 DEF IInv, Emptied, Abstract!Forget

-----------------------------------------------------------------------------
(* The invariant and what follows from it.                                 *)

LEMMA FInitInv == FInit => FInv
<1> SUFFICES ASSUME FInit PROVE FInv
  OBVIOUS
<1>1. IInv
  BY InitInv DEF FInit
<1>2. /\ Held(call) = {} /\ Held(next) = {} /\ Held(model) = {}
      /\ call \in Owner(CallHandle) /\ next \in Owner(ModelHandle)
      /\ model \in Owner(ModelHandle)
      /\ Others(call, CallHandle) = 0 /\ Others(next, ModelHandle) = 0
      /\ Others(model, ModelHandle) = 0
  BY NothingHeld DEF FInit
<1>3. Lost = {} /\ LostBuffers = 0
  BY <1>2 DEF FInit, Lost, LostBuffers, HeldBuffers
<1>4. Basics
  BY ForwardCallAssumption DEF FInit, Basics
<1>5. CallHolds /\ LoadHolds
  BY <1>2 DEF FInit, CallHolds, LoadHolds, Owner
<1>6. Owned
  <2>1. call["inp_ctx"] = Null
    BY DEF FInit, Nothing, CallHandle
  <2> QED BY <1>2, <2>1 DEF FInit, Owned
<1>7. Accounted
  <2>1. Cardinality(Lost) = 2 * 0 /\ 0 <= LostBuffers /\ LostBuffers <= 0 + 0 - 0
    BY <1>3, FS_EmptySet
  <2> QED BY <2>1 DEF FInit, Accounted
<1>8. NoneLost
  BY <1>3 DEF FInit, NoneLost, Crashed
<1> QED BY <1>1, <1>4, <1>5, <1>6, <1>7, <1>8 DEF FInv, RInv

LEMMA FNextInv == FInv /\ [FNext]_fvars => FInv'
<1> SUFFICES ASSUME FInv, [FNext]_fvars PROVE FInv'
  OBVIOUS
<1>1. IInv'
  BY CacheStep, CasesInv, EmptiedInv DEF FInv, RInv
<1>2. CASE FNext
  BY <1>1, <1>2, PassInv, LoadInv DEF FNext, FInv
<1>3. CASE UNCHANGED fvars
  <2>1. RInv'
    BY <1>3 DEF fvars, resources, FInv, RInv, Basics, CallHolds, LoadHolds, Owned,
          Accounted, NoneLost, Lost, LostBuffers, HeldBuffers, Crashed
  <2> QED BY <1>1, <2>1 DEF FInv
<1> QED BY <1>2, <1>3

\* The variables keep their types while passes and loads interleave.
THEOREM CallTypeCorrect == FSpec => []FTypeOK
<1>1. FInv => FTypeOK
  BY DEF FInv, IInv, RInv, Basics, CallHolds, LoadHolds, FTypeOK
<1> QED BY <1>1, FInitInv, FNextInv, PTL DEF FSpec

\* The rows of the conversation stay well placed through every exit of a call
\* and through the change of models (graph.rs forward, lib.rs load_model).
THEOREM RowsStayWellPlaced == FSpec => []RowsWellPlaced
<1>1. FInv => RowsWellPlaced
  BY DEF FInv, IInv
<1> QED BY <1>1, FInitInv, FNextInv, PTL DEF FSpec

\* No context has two owners, and none is given back while it has one: every
\* exit of forward, load and KVCache::new frees its own handles only.
THEOREM ContextsHaveOneOwner == FSpec => []ContextsOwned
<1>1. ASSUME FInv PROVE ContextsOwned
  <2>1. /\ IsFiniteSet(Held(call)) /\ IsFiniteSet(Held(next)) /\ IsFiniteSet(Held(model))
        /\ Held(call) \cup Held(next) \cup Held(model) \subseteq pool
    BY <1>1, OwnersTyped, FS_Subset DEF FInv, RInv, Owned
  <2>2. /\ Held(call) \cap Held(next) = {}
        /\ (Held(call) \cup Held(next)) \cap Held(model) = {}
    BY <1>1 DEF FInv, RInv, Owned
  <2>3. /\ IsFiniteSet(Held(call) \cup Held(next))
        /\ Cardinality(Held(call) \cup Held(next))
              = Cardinality(Held(call)) + Cardinality(Held(next)) - 0
    BY <2>1, <2>2, FS_Union, FS_EmptySet
  <2>4. Cardinality((Held(call) \cup Held(next)) \cup Held(model))
          = Cardinality(Held(call) \cup Held(next)) + Cardinality(Held(model)) - 0
    BY <2>1, <2>2, <2>3, FS_Union, FS_EmptySet
  <2>5. /\ Cardinality(Held(call)) \in Nat /\ Cardinality(Held(next)) \in Nat
        /\ Cardinality(Held(model)) \in Nat
    BY <2>1, FS_CardinalityType
  <2> QED BY <2>1, <2>3, <2>4, <2>5 DEF ContextsOwned
<1> QED BY <1>1, FInitInv, FNextInv, PTL DEF FSpec

\* With all weights in place nothing is ever lost and nothing crashes, for any
\* pool of at least six contexts; with one missing, the loss is two contexts
\* and a buffer for each call that looked it up with `?`, and one buffer for
\* each load that found no context (graph.rs forward, loader.rs load).
THEOREM LossesAreAccounted == FSpec => []LossesAccounted
<1>1. ASSUME FInv PROVE LossesAccounted
  <2>1. PICK k \in Nat : /\ Cardinality(Lost) = 2 * k
                         /\ k <= LostBuffers
                         /\ LostBuffers <= k + loads
                                - (IF loader = "none" THEN 0 ELSE 1)
    BY <1>1 DEF FInv, RInv, Accounted
  <2>2. loads \in Nat /\ LostBuffers \in Int
    BY <1>1, OwnersTyped DEF FInv, RInv, Basics
  <2>3. LostBuffers <= k + loads
    BY <2>1, <2>2
  <2>4. (2 * k) % 2 = 0 /\ (2 * k) \div 2 = k
    OBVIOUS
  <2> QED BY <1>1, <2>1, <2>3, <2>4 DEF LossesAccounted, LostBuffers, FInv, RInv, NoneLost
<1> QED BY <1>1, FInitInv, FNextInv, PTL DEF FSpec

\* The steps of calls and loads implement the transcript: a call that leaves
\* early leaves no trace in the conversation, and a new model starts a new one.
THEOREM CallsImplementTranscript == FSpec => ImplementsTranscript
<1>1. FInit => Abstract!TInit
  BY InitRefines DEF FInit
<1>2. FInv /\ [FNext]_fvars => [Abstract!TNext]_(Abstract!tvars)
  BY CacheStep, CasesRefine, EmptiedInv DEF FInv, RInv, Abstract!TNext
<1> QED BY <1>1, <1>2, FInitInv, FNextInv, PTL DEF FSpec, ImplementsTranscript
=============================================================================
