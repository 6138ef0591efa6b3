--------------------------- MODULE RostiDispatch ---------------------------
(***************************************************************************)
(* ROSTI_DISPATCHER (src/vec_ts_agg.h): lazy selection of the SIMD        *)
(* implementation of a rosti aggregation function. The function pointer   *)
(* POINTER_NAME(func) starts at the dispatcher; the first call through it *)
(* detects the instruction set, stores the pointer to the best            *)
(* implementation and calls through the pointer again. Later calls go     *)
(* straight to the implementation.                                         *)
(*                                                                         *)
(* Rosti_##func is called from several query worker threads at once, and  *)
(* the pointer is a plain global: its store races with other threads'     *)
(* loads. An aligned pointer store is single-copy atomic on the targets   *)
(* the build supports, so a load returns the old or the new pointer. Each *)
(* load and the store are one step each. The work of one call (the        *)
(* aggregation over p_micros) is recorded as the implementation that did  *)
(* it.                                                                     *)
(***************************************************************************)
EXTENDS Integers, Sequences

CONSTANTS
    Threads,   \* the worker threads calling Rosti_##func
    ISets,     \* values instrset_detect() may return on the machine
    MaxCalls   \* calls each thread makes (model bound only)

VARIABLES
    ptr,    \* POINTER_NAME(func)
    iset,   \* what instrset_detect() returns on this machine
    pc,     \* per thread: "idle", "call" (calling through ptr), "dispatch"
    calls,  \* per thread: calls of Rosti_##func made so far
    ran     \* per thread: the implementation that did the work of each call

vars == <<ptr, iset, pc, calls, ran>>

Impls == {"SSE2", "SSE41", "AVX2", "AVX512"}

\* Mutant: the fallback branch points at the wrapper func itself.
SelectImplSelf(i) ==
    IF i >= 10 THEN "AVX512"
    ELSE IF i >= 8 THEN "AVX2"
    ELSE IF i >= 5 THEN "SSE41"
    ELSE "func"

\* Mutant: the AVX2 test made before the AVX512 one.
SelectImplSwapped(i) ==
    IF i >= 8 THEN "AVX2"
    ELSE IF i >= 10 THEN "AVX512"
    ELSE IF i >= 5 THEN "SSE41"
    ELSE "SSE2"

\* F_DISPATCH(func): the implementation for the detected instruction set.
SelectImpl(i) ==
    IF i >= 10 THEN "AVX512"
    ELSE IF i >= 8 THEN "AVX2"
    ELSE IF i >= 5 THEN "SSE41"
    ELSE "SSE2"

Init ==
    /\ ptr = "dispatch"      \* RostiCount *POINTER_NAME(func) = &func##_dispatch
    /\ iset \in ISets
    /\ pc = [t \in Threads |-> "idle"]
    /\ calls = [t \in Threads |-> 0]
    /\ ran = [t \in Threads |-> <<>>]

\* Rosti_##func(pRosti, pKeys, count, valueOffset) calls func, which calls
\* through the pointer.
RostiFunc(t) ==
    /\ pc[t] = "idle"
    /\ calls[t] < MaxCalls
    /\ pc' = [pc EXCEPT ![t] = "call"]
    /\ calls' = [calls EXCEPT ![t] = @ + 1]
    /\ UNCHANGED <<ptr, iset, ran>>

\* (*POINTER_NAME(func))(map, p_micros, count, valueOffset): one load of
\* the pointer; the dispatcher, or an implementation that does the work
\* and returns to the caller.
CallThroughPointer(t) ==
    /\ pc[t] = "call"
    /\ IF ptr = "dispatch"
       THEN /\ pc' = [pc EXCEPT ![t] = "dispatch"]
            /\ UNCHANGED ran
       ELSE /\ pc' = [pc EXCEPT ![t] = "idle"]
            /\ ran' = [ran EXCEPT ![t] = Append(@, ptr)]
    /\ UNCHANGED <<ptr, iset, calls>>

\* Mutant: the dispatcher forgets to store the pointer.
DispatchNoStore(t) ==
    /\ pc' = [pc EXCEPT ![t] = "call"]
    /\ UNCHANGED <<ptr, iset, calls, ran>>

\* Mutant: the dispatcher runs the implementation itself and then also
\* calls through the pointer.
DispatchAndRun(t) ==
    /\ ptr' = SelectImpl(iset)
    /\ ran' = [ran EXCEPT ![t] = Append(@, SelectImpl(iset))]
    /\ pc' = [pc EXCEPT ![t] = "call"]
    /\ UNCHANGED <<iset, calls>>

\* F_DISPATCH(func): detect, store the chosen pointer, call through it.
Dispatch(t) ==
    /\ ptr' = SelectImpl(iset)
    /\ pc' = [pc EXCEPT ![t] = "call"]
    /\ UNCHANGED <<iset, calls, ran>>

DispatchStep(t) == pc[t] = "dispatch" /\ Dispatch(t)

Thread(t) == RostiFunc(t) \/ CallThroughPointer(t) \/ DispatchStep(t)

Next == \E t \in Threads : Thread(t)

\* A thread inside a call is runnable and is eventually scheduled; an idle
\* thread need not make another call.
Fairness == \A t \in Threads : WF_vars(CallThroughPointer(t) \/ DispatchStep(t))

Spec == Init /\ [][Next]_vars /\ Fairness

-----------------------------------------------------------------------------
(* Properties.                                                              *)

\* Every variable has its type: the pointer is the dispatcher or one of
\* the four implementations.
TypeOK ==
    /\ ptr \in Impls \cup {"dispatch"}
    /\ iset \in ISets
    /\ pc \in [Threads -> {"idle", "call", "dispatch"}]
    /\ calls \in [Threads -> 0..MaxCalls]
    /\ ran \in [Threads -> Seq(Impls)]

\* The instruction-set level each implementation needs (the levels of
\* instrset_detect: 5 SSE4.1, 8 AVX2, 10 AVX512), and the most demanding
\* implementation the machine can run.
Needs == [SSE2 |-> 0, SSE41 |-> 5, AVX2 |-> 8, AVX512 |-> 10]
BestImpl == CHOOSE f \in Impls :
                /\ Needs[f] <= iset
                /\ \A g \in Impls : Needs[g] <= iset => Needs[g] <= Needs[f]

\* However the first calls of several threads race through the dispatcher
\* and its unsynchronised store, every call that returned did the work
\* exactly once, and always on the best implementation the machine has.
EachCallRunsOnceOnBestImpl ==
    \A t \in Threads :
        /\ \A k \in 1..Len(ran[t]) : ran[t][k] = BestImpl
        /\ Len(ran[t]) = IF pc[t] = "idle" THEN calls[t] ELSE calls[t] - 1

\* Every call of Rosti_##func returns: no thread goes round the dispatcher
\* for ever.
EveryCallReturns ==
    \A t \in Threads : pc[t] # "idle" ~> pc[t] = "idle"

=============================================================================
