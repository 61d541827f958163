-------------------------- MODULE PrefetcherProofs --------------------------
(***************************************************************************)
(* Safety proofs for the mapper and its prefetch thread: for a file of any *)
(* number of windows and any prefetch depth, the thread never advises the  *)
(* kernel about memory outside the mapping.                                *)
(***************************************************************************)
EXTENDS Prefetcher, TLAPS

\* The join handle tells whether the thread may still run, and the steps of
\* the shutdown are taken in order.
ShutdownOrder ==
    /\ ~handle => pc = "done"
    /\ caller \in {"unmap", "gone"} => ~handle
    /\ ~mapped => caller = "gone"

IInv == TypeOK /\ ShutdownOrder

-----------------------------------------------------------------------------
LEMMA InitInv == Init => IInv
<1> SUFFICES ASSUME Init PROVE IInv
  OBVIOUS
<1>1. TypeOK
  <2>1. fresh \subseteq Window
    BY DEF Init
  <2>2. NLayers \in Nat /\ Depth \in Nat
    BY PrefetcherAssumption DEF PrefetcherAssumption
  <2>3. /\ current_layer \in 0 .. NLayers
        /\ cur \in 0 .. NLayers
        /\ warmed \in 0 .. NLayers
        /\ i \in 1 .. Depth + 1
    BY <2>2 DEF Init
  <2> QED
    BY <2>1, <2>3 DEF Init, TypeOK
<1>2. ShutdownOrder
  BY DEF Init, ShutdownOrder
<1> QED
  BY <1>1, <1>2 DEF IInv

\* A step of the prefetch thread preserves the invariant.
LEMMA ThreadInv == IInv /\ Thread => IInv'
<1> SUFFICES ASSUME IInv, Thread PROVE IInv'
  OBVIOUS
<1> USE DEF IInv, TypeOK, ShutdownOrder, Window
<1>1. CASE Lock
  BY <1>1, PrefetcherAssumption DEF PrefetcherAssumption, Lock, owner
<1>2. CASE WaitReturns
  BY <1>2, PrefetcherAssumption DEF PrefetcherAssumption, WaitReturns, owner
<1>3. CASE CheckStop
  BY <1>3, PrefetcherAssumption DEF PrefetcherAssumption, CheckStop, owner
<1>4. CASE LoadPointer
  BY <1>4, PrefetcherAssumption DEF PrefetcherAssumption, LoadPointer, owner
<1>5. CASE Advise
  BY <1>5, PrefetcherAssumption DEF PrefetcherAssumption, Advise, InRange, owner
<1>6. CASE LoopEnds
  BY <1>6, PrefetcherAssumption DEF PrefetcherAssumption, LoopEnds, owner
<1> QED
  BY <1>1, <1>2, <1>3, <1>4, <1>5, <1>6 DEF Thread

\* A step of the owner preserves the invariant; Join waits for the thread.
LEMMA OwnerInv == IInv /\ Owner => IInv'
<1> SUFFICES ASSUME IInv, Owner PROVE IInv'
  OBVIOUS
<1> USE DEF IInv, TypeOK, ShutdownOrder, Window
<1>1. CASE Warm
  <2>1. CASE warmed < Depth /\ warmed < NLayers
    <3>1. warmed \in 0 .. NLayers - 1 /\ warmed + 1 \in 0 .. NLayers
      BY <2>1, PrefetcherAssumption DEF PrefetcherAssumption
    <3>2. fresh' \subseteq Window /\ warmed' \in 0 .. NLayers
      BY <1>1, <2>1, <3>1 DEF Warm
    <3> QED
      BY <1>1, <2>1, <3>2 DEF Warm, thread
  <2>2. CASE ~(warmed < Depth /\ warmed < NLayers)
    BY <1>1, <2>2 DEF Warm, thread
  <2> QED
    BY <2>1, <2>2
<1>2. CASE \E layer \in 0 .. NLayers : Advance(layer)
  BY <1>2, PrefetcherAssumption DEF PrefetcherAssumption, Advance, thread
<1>3. CASE AdvanceNotifies
  BY <1>3, PrefetcherAssumption DEF PrefetcherAssumption, AdvanceNotifies, Notify
<1>4. CASE \E evict_idx \in Window : ActivateLayer(evict_idx)
  BY <1>4, PrefetcherAssumption DEF PrefetcherAssumption, ActivateLayer, thread, owner
<1>5. CASE Close
  BY <1>5, PrefetcherAssumption DEF PrefetcherAssumption, Close, thread
<1>6. CASE StoreStop
  BY <1>6, PrefetcherAssumption DEF PrefetcherAssumption, StoreStop, thread
<1>7. CASE WakeAll
  BY <1>7, PrefetcherAssumption DEF PrefetcherAssumption, WakeAll, Notify
<1>8. CASE Join
  BY <1>8, PrefetcherAssumption DEF PrefetcherAssumption, Join, thread
<1>9. CASE Unmap
  BY <1>9, PrefetcherAssumption DEF PrefetcherAssumption, Unmap, thread
<1> QED
  BY <1>1, <1>2, <1>3, <1>4, <1>5, <1>6, <1>7, <1>8, <1>9 DEF Owner, Continue

\* The invariant is inductive.
THEOREM Invariance == Spec => []IInv
<1>1. IInv /\ [Next]_vars => IInv'
  <2>1. IInv /\ UNCHANGED vars => IInv'
    BY DEF IInv, TypeOK, ShutdownOrder, Window, vars
  <2> QED
    BY <2>1, ThreadInv, OwnerInv DEF Next
<1> QED
  BY <1>1, InitInv, PTL DEF Spec

\* The variables keep their types; in particular every window requested from
\* the kernel is one of the file's.
THEOREM TypeCorrect == Spec => []TypeOK
  BY Invariance, PTL DEF IInv

\* The file stays mapped as long as the thread may call madvise (the order of
\* the steps of InferenceMapper::drop).
THEOREM NeverUnmappedEarly == Spec => []MappedWhileRunning
<1>1. IInv => MappedWhileRunning
  BY DEF IInv, TypeOK, ShutdownOrder, MappedWhileRunning
<1> QED
  BY <1>1, Invariance, PTL
=============================================================================
