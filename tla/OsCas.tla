-------------------------------- MODULE OsCas --------------------------------
(***************************************************************************)
(* Os_compareAndSwap (src/util.cpp): the JNI entry point for a 64-bit      *)
(* compare-and-swap on native memory, __sync_val_compare_and_swap. It      *)
(* returns the value the word held; the word takes newVal only if that    *)
(* value was oldVal, in one atomic step. Both build variants (__APPLE__   *)
(* and the rest) convert the arguments to int64_t and behave alike.       *)
(*                                                                         *)
(* The callers are Java code outside the repository. They use the         *)
(* primitive in the standard retry loop, modelled here as the             *)
(* environment: read the word, CAS it from the value read to that value   *)
(* plus one, and retry while the returned value is not the value read.    *)
(***************************************************************************)
EXTENDS Integers, FiniteSets, Functions

CONSTANTS
    Threads,   \* threads updating the same word
    Incs       \* increments each thread makes

VARIABLES
    mem,    \* the int64 at ptr
    pc,     \* per thread: "read", "cas" or "done"
    seen,   \* per thread: the value read before the CAS
    ret,    \* per thread: what the last Os_compareAndSwap returned
    done    \* per thread: increments that landed

vars == <<mem, pc, seen, ret, done>>

\* Mutant: the value of the word after the operation is returned.
CasReturnsNew(m, oldVal, newVal) ==
    <<IF m = oldVal THEN newVal ELSE m, IF m = oldVal THEN newVal ELSE m>>

\* Mutant: oldVal and newVal passed in each other's place.
CasArgsSwapped(m, oldVal, newVal) == <<m, IF m = newVal THEN oldVal ELSE m>>

\* __sync_val_compare_and_swap(ptr, oldVal, newVal) on a word holding m:
\* <<the value returned, the word after>>.
Cas(m, oldVal, newVal) == <<m, IF m = oldVal THEN newVal ELSE m>>

Init ==
    /\ mem = 0
    /\ pc = [t \in Threads |-> "read"]
    /\ seen = [t \in Threads |-> 0]
    /\ ret = [t \in Threads |-> 0]
    /\ done = [t \in Threads |-> 0]

\* The caller reads the word.
Read(t) ==
    /\ pc[t] = "read"
    /\ seen' = [seen EXCEPT ![t] = mem]
    /\ pc' = [pc EXCEPT ![t] = "cas"]
    /\ UNCHANGED <<mem, ret, done>>

\* Os_compareAndSwap(ptr, seen, seen + 1), and the caller's test of the
\* returned value: the increment landed, or the loop reads again.
CompareAndSwap(t) ==
    /\ pc[t] = "cas"
    /\ LET r == Cas(mem, seen[t], seen[t] + 1)
           ok == r[1] = seen[t]
       IN /\ mem' = r[2]
          /\ ret' = [ret EXCEPT ![t] = r[1]]
          /\ done' = [done EXCEPT ![t] = IF ok THEN @ + 1 ELSE @]
          /\ pc' = [pc EXCEPT ![t] =
                      IF ok /\ done[t] + 1 = Incs THEN "done" ELSE "read"]
    /\ UNCHANGED seen

Next == \E t \in Threads : Read(t) \/ CompareAndSwap(t)

Spec == Init /\ [][Next]_vars

-----------------------------------------------------------------------------
(* Properties.                                                              *)

\* Every variable has its type, and the word never exceeds the increments
\* all callers make together.
TypeOK ==
    /\ mem \in 0..Cardinality(Threads) * Incs
    /\ pc \in [Threads -> {"read", "cas", "done"}]
    /\ seen \in [Threads -> Int]
    /\ ret \in [Threads -> Int]
    /\ done \in [Threads -> 0..Incs]

Landed == FoldFunction(+, 0, done)

\* No update is lost or applied twice: however the threads' reads and CASes
\* interleave, the word always equals the number of increments the callers
\* were told landed.
NoLostUpdate == mem = Landed

=============================================================================
