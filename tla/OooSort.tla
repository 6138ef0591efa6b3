------------------------------ MODULE OooSort ------------------------------
(***************************************************************************)
(* The in-place index sorts of src/unnamed/part_003: the quick sort        *)
(* (partition, quick_sort_long_index_asc_in_place), the LSD radix sort     *)
(* (radix_sort_long_index_asc_in_place with radix_shuffle), the size       *)
(* dispatch sort<T>, and their JNI entry points.                           *)
(*                                                                         *)
(* An index is a 0-based array of index_t <<ts, i>>; both sorts order by   *)
(* ts, the integer an index_t converts to. The sorts are operators; the    *)
(* state machine only makes one call on one array, so that TLC compares    *)
(* each result with the reference definitions below.                       *)
(*                                                                         *)
(* Unsigned arithmetic on positions is modulo 2^IndexBits: partition      *)
(* starts with i = low - 1, which wraps at low = 0, and the quick sort     *)
(* passes pi - 1, computed unsigned and read back as int64. IndexBits is   *)
(* 64 in the code; any width above the array length wraps the same way.   *)
(***************************************************************************)
EXTENDS Integers, SequencesExt

CONSTANTS
    Arrays,      \* the index arrays a caller may pass
    NoElem,      \* what freshly malloc'ed memory reads as: an index_t of no row
    IndexBits,   \* width of uint64_t positions
    TsBits,      \* every ts is below 2^TsBits
    SortThreshold \* sort<T> uses quick sort below this size (600)

ASSUME TsBits <= 24 /\ IndexBits >= 4

VARIABLES
    input,   \* the array as passed (ghost)
    array,   \* the array being sorted in place
    cpy,     \* the radix sort's copy buffer
    op       \* "none", or the entry point that ran

vars == <<input, array, cpy, op>>

Modulus == 2 ^ IndexBits

\* uint64_t arithmetic, and an unsigned result read back as int64_t.
U64(x) == x % Modulus
ToInt64(x) == IF x >= Modulus \div 2 THEN x - Modulus ELSE x

Size(a) == Cardinality(DOMAIN a)

\* dest[k] = v: a store past the end of the buffer does not land in it.
Store(dest, k, v) == [y \in DOMAIN dest |-> IF y = k THEN v ELSE dest[y]]

\* swap(&index[x], &index[y])
Swap(a, x, y) == [a EXCEPT ![x] = a[y], ![y] = a[x]]

-----------------------------------------------------------------------------
(* Quick sort.                                                              *)

\* Mutant: the scan stops one element before the pivot.
RECURSIVE PartitionLoopShort(_, _, _, _, _)
PartitionLoopShort(a, i, j, high, pivot) ==
    IF j < high - 1
    THEN IF a[j][1] <= pivot[1]
         THEN PartitionLoopShort(Swap(a, U64(i + 1), j), U64(i + 1), j + 1, high, pivot)
         ELSE PartitionLoopShort(a, i, j + 1, high, pivot)
    ELSE <<a, i>>

\* The loop of partition: every element not above the pivot is swapped to
\* the front, i marking the last of them. Returns <<array, i>>.
RECURSIVE PartitionLoop(_, _, _, _, _)
PartitionLoop(a, i, j, high, pivot) ==
    IF j <= high - 1
    THEN IF a[j][1] <= pivot[1]
         THEN PartitionLoop(Swap(a, U64(i + 1), j), U64(i + 1), j + 1, high, pivot)
         ELSE PartitionLoop(a, i, j + 1, high, pivot)
    ELSE <<a, i>>

\* partition(index, low, high): pivot on the last element, put it after the
\* smaller ones. Returns <<array, pivot position>>.
Partition(a, low, high) ==
    LET r == PartitionLoop(a, U64(low - 1), low, high, a[high])
        p == U64(r[2] + 1)
    IN <<Swap(r[1], p, high), p>>

\* quick_sort_long_index_asc_in_place(arr, low, high), low and high int64.
RECURSIVE QuickSort(_, _, _)
QuickSort(a, low, high) ==
    IF low < high
    THEN LET r  == Partition(a, low, high)
             pi == r[2]
         IN QuickSort(QuickSort(r[1], low, ToInt64(U64(pi - 1))), pi + 1, high)
    ELSE a

-----------------------------------------------------------------------------
(* Radix sort.                                                              *)

Shifts == <<0, 8, 16, 24, 32, 40, 48, 56>>

\* (x >> sh) & 0xff, for x below 2^TsBits.
Digit(x, sh) == IF sh >= TsBits THEN 0 ELSE (x \div 2 ^ sh) % 256

\* Mutant: the offsets taken as inclusive prefix sums.
OffsetsInclusive(a, sh) ==
    [d \in 0..255 |-> Cardinality({x \in DOMAIN a : Digit(a[x][1], sh) <= d})]

\* The counts of one digit position converted to offsets: the number of
\* elements whose digit is smaller.
Offsets(a, sh) ==
    [d \in 0..255 |-> Cardinality({x \in DOMAIN a : Digit(a[x][1], sh) < d})]

\* Mutant: the shuffle walks src from its last element.
RECURSIVE ShuffleBackward(_, _, _, _, _)
ShuffleBackward(counts, src, dest, x, sh) ==
    IF x >= Size(src) THEN dest
    ELSE LET y == Size(src) - 1 - x
             d == Digit(src[y][1], sh)
         IN ShuffleBackward([counts EXCEPT ![d] = @ + 1],
                            src, Store(dest, counts[d], src[y]), x + 1, sh)

\* radix_shuffle<sh>(counts, src, dest, size) from element x on.
RECURSIVE RadixShuffle(_, _, _, _, _)
RadixShuffle(counts, src, dest, x, sh) ==
    IF x >= Size(src) THEN dest
    ELSE LET d == Digit(src[x][1], sh)
         IN RadixShuffle([counts EXCEPT ![d] = @ + 1],
                         src, Store(dest, counts[d], src[x]), x + 1, sh)

\* The eight passes, alternating array -> cpy and cpy -> array. The offsets
\* of every pass come from the array as it was before the first one.
RadixSort(a, c) ==
    LET Pass(bufs, k) ==
            LET src == IF k % 2 = 1 THEN bufs[1] ELSE bufs[2]
                dst == IF k % 2 = 1 THEN bufs[2] ELSE bufs[1]
                out == RadixShuffle(Offsets(a, Shifts[k]), src, dst, 0, Shifts[k])
            IN IF k % 2 = 1 THEN <<src, out>> ELSE <<out, src>>
    IN FoldLeft(Pass, <<a, c>>, [k \in 1..8 |-> k])

\* sort<T>(index, size)
SortBySize(a, c) ==
    IF Size(a) < SortThreshold THEN <<QuickSort(a, 0, Size(a) - 1), c>>
    ELSE RadixSort(a, c)

-----------------------------------------------------------------------------
(* The JNI entry points: one call on the array.                            *)

Init ==
    /\ array \in Arrays
    /\ input = array
    /\ cpy = [x \in DOMAIN array |-> NoElem]
    /\ op = "none"

\* sortLongIndexAscInPlace(pLong, len)
SortLongIndexAscInPlace ==
    /\ op = "none"
    /\ LET r == SortBySize(array, cpy) IN array' = r[1] /\ cpy' = r[2]
    /\ op' = IF Size(array) < SortThreshold THEN "quick" ELSE "radix"
    /\ UNCHANGED input

\* quickSortLongIndexAscInPlace(pLong, len)
QuickSortLongIndexAscInPlace ==
    /\ op = "none"
    /\ array' = QuickSort(array, 0, Size(array) - 1)
    /\ op' = "quick"
    /\ UNCHANGED <<input, cpy>>

\* radixSortLongIndexAscInPlace(pLong, len, pCpy)
RadixSortLongIndexAscInPlace ==
    /\ op = "none"
    /\ LET r == RadixSort(array, cpy) IN array' = r[1] /\ cpy' = r[2]
    /\ op' = "radix"
    /\ UNCHANGED input

Next ==
    \/ SortLongIndexAscInPlace
    \/ QuickSortLongIndexAscInPlace
    \/ RadixSortLongIndexAscInPlace

Spec == Init /\ [][Next]_vars

-----------------------------------------------------------------------------
(* Properties.                                                              *)

Elem == Nat \X Nat

\* Every variable has its type: both buffers hold index_t over the input's
\* positions, and no slot of the array is left as uninitialised memory.
TypeOK ==
    /\ op \in {"none", "quick", "radix"}
    /\ array \in [DOMAIN input -> Elem]
    /\ cpy \in [DOMAIN input -> Elem \cup {NoElem}]

\* a is in ascending ts order.
Ascending(a) == \A x, y \in DOMAIN a : x < y => a[x][1] <= a[y][1]

\* a holds the elements of b (every index_t carries its own row i).
IsPermutationOf(a, b) == Size(a) = Size(b) /\ Range(a) = Range(b)

\* After any of the sort entry points returns, the array holds the rows it
\* was given, in ascending ts: partition with its wrapped i = low - 1, the
\* recursion on pi - 1 read back as int64, and the eight ping-pong passes of
\* the radix sort ending in the caller's array all get this right.
SortedPermutation ==
    op # "none" => Ascending(array) /\ IsPermutationOf(array, input)

\* The radix sort is the stable sort: rows with equal ts keep the order
\* they had in the input (their i), which each radix_shuffle pass has to
\* preserve for the next pass's ordering to build on it.
RadixSortIsStable ==
    op = "radix" =>
        \A x, y \in DOMAIN array :
            x < y => \/ array[x][1] < array[y][1]
                     \/ array[x][1] = array[y][1] /\ array[x][2] < array[y][2]

=============================================================================
