----------------------------- MODULE Prefetcher -----------------------------
(***************************************************************************)
(* The memory mapper and its prefetch thread (qfz3-engine/src/mapper.rs).  *)
(*                                                                         *)
(* A model file is mapped once and divided into windows.  The engine's     *)
(* thread moves a pointer over the windows and evicts those behind it; a   *)
(* second thread asks the kernel to load the windows ahead of the pointer. *)
(* The two share three atomics and a condition variable whose mutex only   *)
(* the prefetch thread ever locks, so a notification sent while that       *)
(* thread is not waiting is lost.  The prefetch thread works on raw        *)
(* addresses: nothing but the order of the steps of InferenceMapper::drop  *)
(* keeps it from advising the kernel about memory that is no longer        *)
(* mapped.                                                                 *)
(***************************************************************************)
EXTENDS Naturals

CONSTANTS
    NLayers,    \* num_layers(total_size); an empty file is refused
    Depth       \* PREFETCH_DEPTH

ASSUME PrefetcherAssumption ==
    /\ NLayers \in Nat \ {0}
    /\ Depth \in Nat \ {0}

VARIABLES           \* shared
    stop,
    current_layer,
    mapped          \* the file's virtual mapping exists

VARIABLES           \* the prefetch thread
    pc,             \* where it is
    notified,       \* it was notified while it waited
    cur,            \* its copy of current_layer
    i               \* the distance ahead it is about to prefetch

VARIABLES           \* the thread that owns the InferenceMapper
    caller,         \* where it is
    warmed,        \* the window the initial prefetch has reached
    handle,         \* the join handle has not been taken
    closing         \* what runs shutdown: the method or drop

\* History variable: the windows requested since the pointer last moved.
VARIABLE fresh

thread == <<pc, notified, cur, i>>
owner == <<caller, warmed, handle, closing>>
vars == <<stop, current_layer, mapped, pc, notified, cur, i,
          caller, warmed, handle, closing, fresh>>

Window == 0 .. NLayers - 1

\* InferenceMapper::new up to the initial prefetch: the file is mapped and
\* the thread spawned.
Init ==
    /\ stop = FALSE
    /\ current_layer = 0
    /\ mapped = TRUE
    /\ pc = "lock"
    /\ notified = FALSE
    /\ cur = 0
    /\ i = 1
    /\ caller = "warming"
    /\ warmed = 0
    /\ handle = TRUE
    /\ closing = "none"
    /\ fresh = {}

-----------------------------------------------------------------------------
(* The prefetch thread.                                                    *)

\* The mutex is taken and the wait begins; notifications count from here on.
Lock ==
    /\ pc = "lock"
    /\ pc' = "waiting"
    /\ notified' = FALSE
    /\ UNCHANGED <<stop, current_layer, mapped, cur, i, owner, fresh>>

\* A plausible bug: Condvar::wait, which has no timeout, in place of
\* wait_timeout.
NeverTimesOut == FALSE

\* wait_timeout returns after 100 ms (or spuriously) if nobody notifies.
TimesOut == TRUE

WaitReturns ==
    /\ pc = "waiting"
    /\ notified \/ TimesOut
    /\ pc' = "check"
    /\ UNCHANGED <<stop, current_layer, mapped, notified, cur, i, owner, fresh>>

CheckStop ==
    /\ pc = "check"
    /\ pc' = IF stop THEN "done" ELSE "load"
    /\ UNCHANGED <<stop, current_layer, mapped, notified, cur, i, owner, fresh>>

LoadPointer ==
    /\ pc = "load"
    /\ cur' = current_layer
    /\ i' = 1
    /\ pc' = "advise"
    /\ UNCHANGED <<stop, current_layer, mapped, notified, owner, fresh>>

\* A plausible bug: the bound check lets the window after the last one pass.
InRangeOffByOne == i <= Depth /\ cur + i <= NLayers

\* The loop goes on to window cur + i.
InRange == i <= Depth /\ cur + i < NLayers

\* madvise(WILLNEED) for window cur + i; its failure is only logged.
Advise ==
    /\ pc = "advise"
    /\ InRange
    /\ fresh' = fresh \cup {cur + i}
    /\ i' = i + 1
    /\ UNCHANGED <<stop, current_layer, mapped, pc, notified, cur, owner>>

LoopEnds ==
    /\ pc = "advise"
    /\ ~InRange
    /\ pc' = "lock"
    /\ UNCHANGED <<stop, current_layer, mapped, notified, cur, i, owner, fresh>>

Thread == Lock \/ WaitReturns \/ CheckStop \/ LoadPointer \/ Advise \/ LoopEnds

-----------------------------------------------------------------------------
(* The owner.                                                              *)

\* notify_one and notify_all: there is at most one waiter.
Notify == notified' = (notified \/ pc = "waiting")

\* The initial prefetch warms the first windows while the thread already
\* runs.
Warm ==
    /\ caller = "warming"
    /\ IF warmed < Depth /\ warmed < NLayers
       THEN /\ fresh' = fresh \cup {warmed}
            /\ warmed' = warmed + 1
            /\ UNCHANGED caller
       ELSE /\ caller' = "idle"
            /\ UNCHANGED <<warmed, fresh>>
    /\ UNCHANGED <<stop, current_layer, mapped, thread, handle, closing>>

\* advance: the pointer is stored, then the thread is notified.
Advance(layer) ==
    /\ caller = "idle"
    /\ current_layer' = layer
    /\ fresh' = {}
    /\ caller' = "notify"
    /\ UNCHANGED <<stop, mapped, thread, warmed, handle, closing>>

AdvanceNotifies ==
    /\ caller = "notify"
    /\ Notify
    /\ caller' = "idle"
    /\ UNCHANGED <<stop, current_layer, mapped, pc, cur, i, warmed, handle,
                   closing, fresh>>

\* activate_layer: the window is evicted with madvise(DONTNEED), or nothing
\* is done for an index past the last one.
ActivateLayer(evict_idx) ==
    /\ caller = "idle"
    /\ evict_idx \in Window
    /\ fresh' = fresh \ {evict_idx}
    /\ UNCHANGED <<stop, current_layer, mapped, thread, owner>>

\* InferenceMapper::shutdown is called, or the mapper goes out of scope.
Close ==
    /\ caller = "idle"
    /\ closing' \in {"shutdown", "drop"}
    /\ caller' = "store"
    /\ UNCHANGED <<stop, current_layer, mapped, thread, warmed, handle, fresh>>

\* Prefetcher::shutdown, which drop runs again after the method.
StoreStop ==
    /\ caller = "store"
    /\ stop' = TRUE
    /\ caller' = "wake"
    /\ UNCHANGED <<current_layer, mapped, thread, warmed, handle, closing, fresh>>

WakeAll ==
    /\ caller = "wake"
    /\ Notify
    /\ caller' = "join"
    /\ UNCHANGED <<stop, current_layer, mapped, pc, cur, i, warmed, handle,
                   closing, fresh>>

\* A plausible bug: shutdown lets the thread finish on its own.
JoinDetached ==
    /\ caller = "join"
    /\ handle' = FALSE
    /\ IF closing = "shutdown"
       THEN caller' = "store" /\ closing' = "drop"
       ELSE caller' = "unmap" /\ UNCHANGED closing
    /\ UNCHANGED <<stop, current_layer, mapped, thread, warmed, fresh>>

\* The handle, if it is still there, is taken and joined.
Join ==
    /\ caller = "join"
    /\ handle => pc = "done"
    /\ handle' = FALSE
    /\ IF closing = "shutdown"
       THEN caller' = "store" /\ closing' = "drop"
       ELSE caller' = "unmap" /\ UNCHANGED closing
    /\ UNCHANGED <<stop, current_layer, mapped, thread, warmed, fresh>>

\* The fields are dropped: FileMapper::drop unmaps the file.
Unmap ==
    /\ caller = "unmap"
    /\ mapped' = FALSE
    /\ caller' = "gone"
    /\ UNCHANGED <<stop, current_layer, thread, warmed, handle, closing, fresh>>

\* The rest of a call that was entered.
Continue == Warm \/ AdvanceNotifies \/ StoreStop \/ WakeAll \/ Join \/ Unmap

\* The pointer may be moved anywhere, past the last window too.
Owner ==
    \/ \E layer \in 0 .. NLayers : Advance(layer)
    \/ \E evict_idx \in Window : ActivateLayer(evict_idx)
    \/ Close
    \/ Continue

Next == Thread \/ Owner

\* Both threads are scheduled; a call is not started for ever.
Fairness == WF_vars(Thread) /\ WF_vars(Continue)

Spec == Init /\ [][Next]_vars
FairSpec == Spec /\ Fairness

-----------------------------------------------------------------------------
(* Properties.                                                             *)

\* The variables keep their types.
TypeOK ==
    /\ stop \in BOOLEAN
    /\ current_layer \in 0 .. NLayers
    /\ mapped \in BOOLEAN
    /\ pc \in {"lock", "waiting", "check", "load", "advise", "done"}
    /\ notified \in BOOLEAN
    /\ cur \in 0 .. NLayers
    /\ i \in 1 .. Depth + 1
    /\ caller \in {"warming", "idle", "notify", "store", "wake", "join",
                   "unmap", "gone"}
    /\ warmed \in 0 .. NLayers
    /\ handle \in BOOLEAN
    /\ closing \in {"none", "shutdown", "drop"}
    /\ fresh \subseteq Window

\* The file stays mapped for as long as the prefetch thread may still call
\* madvise, however the shutdown interleaves with its loop: drop must stop
\* and join the thread before the fields are dropped.
MappedWhileRunning == pc # "done" => mapped

\* A shutdown, by method or by drop, comes to its end although the wake-up it
\* sends may be lost and the thread may be in the middle of its loop.
ShutdownEnds == closing # "none" ~> caller = "gone"

\* The windows the thread is to request when the pointer is at layer.
Ahead(layer) == {w \in Window : layer < w /\ w <= layer + Depth}

\* A pointer that stays where it is has the windows ahead of it requested,
\* even when the thread read the old pointer or missed the notification;
\* an eviction of one of them is made up for.
PrefetchCatchesUp ==
    \A layer \in 0 .. NLayers, w \in Window :
        current_layer = layer /\ w \in Ahead(layer) ~>
            w \in fresh \/ current_layer # layer \/ stop
=============================================================================
