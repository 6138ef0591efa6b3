----------------------------- MODULE KWayMerge -----------------------------
(***************************************************************************)
(* The out-of-order index merge of src/unnamed/part_003:                  *)
(* k_way_merge_long_index, driven by the JNI entry points                 *)
(* mergeLongIndexesAsc and mergeTwoLongIndexesAsc.                        *)
(*                                                                         *)
(* An index is an array of index_t {ts, i}. An input element is the       *)
(* triple <<ts, j, p>>: its timestamp, its input j and its position p, so *)
(* that the output can be compared with the inputs element by element.    *)
(* The tournament tree, the entries with their read positions, the        *)
(* sentinel counter and the destination buffer are the variables. Each    *)
(* action is one step of the C code: the call, the two seeding loops, the *)
(* first winner, and one iteration of the full-run loop.                  *)
(*                                                                         *)
(* Reads past the end of an index (index->ts of a size-0 index, or        *)
(* index[pos] with pos >= size) are undefined. They are modelled as a     *)
(* nondeterministic value from Garbage. A read through the null index of  *)
(* a padding entry is a fault.                                            *)
(***************************************************************************)
EXTENDS Integers, SequencesExt

CONSTANTS
    Ts,        \* timestamps an index may hold
    LMax,      \* L_MAX, the value of an exhausted leaf
    SizeMax,   \* (uint64_t) -1, the size given to padding entries
    Garbage,   \* what a read past the end of an index may return
    Inputs     \* the java_index_entry_t arrays a caller may pass (Seq of Seq(Ts))

ASSUME \A t \in Ts : t < LMax
ASSUME SizeMax > LMax

VARIABLES
    inputs,         \* the java entries of the call
    pc,             \* "call", "seed", "first", "loop", "done", "fault"
    entries,        \* index_entry_t array: [idx, null, pos, size]
    tree,           \* loser_node_t tree[1 .. tree_size - 1]: [value, ii]
    winnerIndex,    \* winner_index
    sentinelsLeft,  \* sentinels_left
    dest,           \* the elements written to the merged index, in order
    destSize        \* the number of index_t the buffer was malloc'ed for

vars == <<inputs, pc, entries, tree, winnerIndex, sentinelsLeft, dest, destSize>>

\* The elements of java entry j, tagged with their input and position.
Elems(j) == [p \in 1..Len(inputs[j]) |-> <<inputs[j][p], j, p>>]

\* Numbers.ceilPow2, the smallest power of two not below n.
CeilPow2(n) ==
    LET RECURSIVE Up(_)
        Up(c) == IF c >= n THEN c ELSE Up(2 * c)
    IN Up(1)

\* The padded entry array mergeLongIndexesAsc builds for count inputs.
EntriesFor(count, size) ==
    [i \in 0..size-1 |->
        IF i < count
        THEN [idx |-> Elems(i + 1), null |-> FALSE, pos |-> 0, size |-> Len(inputs[i + 1])]
        ELSE [idx |-> <<>>, null |-> TRUE, pos |-> 0, size |-> SizeMax]]

NumEntries == Cardinality(DOMAIN entries)

\* The first timestamp of entry e, as the seeding loop reads it.
SeedValue(e, g) ==
    IF e.null THEN LMax
    ELSE IF e.size > 0 THEN e.idx[1][1]
    ELSE g

\* Mutant: index_index set to the entry number i instead of entries_count + i.
SeedLeavesEntryIndex(n, g) ==
    [i \in 1..2*n-1 |->
        IF i >= n THEN [value |-> SeedValue(entries[i - n], g[i - n]), ii |-> i - n]
        ELSE [value |-> LMax, ii |-> n]]

\* The leaves tree[n .. 2n-1] as the first seeding loop fills them; the
\* inner nodes are written by the second loop before they are read.
SeedLeaves(n, g) ==
    [i \in 1..2*n-1 |->
        IF i >= n THEN [value |-> SeedValue(entries[i - n], g[i - n]), ii |-> i]
        ELSE [value |-> LMax, ii |-> n]]

\* Mutant: the padding entries are not subtracted.
InitialSentinelsAll(entriesCount, sentinelsAtStart) == entriesCount

\* sentinels_left = entries_count - sentinels_at_start
InitialSentinels(entriesCount, sentinelsAtStart) == entriesCount - sentinelsAtStart

\* One step of the bottom-up seeding loop: the parent of i and i - 1 takes
\* the smaller of the two, the left one (i - 1) on a tie.
SeedPair(t, i) ==
    [t EXCEPT ![i \div 2] = IF t[i].value < t[i - 1].value THEN t[i] ELSE t[i - 1]]

RECURSIVE SeedFrom(_, _)
SeedFrom(t, i) == IF i <= 1 THEN t ELSE SeedFrom(SeedPair(t, i), i - 2)

\* Mutant: the comparison on the replay path inverted.
RECURSIVE ReplayInverted(_, _)
ReplayInverted(t, wi) ==
    IF wi <= 1 THEN t
    ELSE LET sib == IF wi % 2 = 1 THEN wi - 1 ELSE wi + 1
             tg  == wi \div 2
         IN ReplayInverted([t EXCEPT ![tg] = IF t[wi].value > t[sib].value THEN t[wi] ELSE t[sib]], tg)

\* One pass from a back-filled leaf to the root: at every level the node
\* takes the smaller of the leaf-side child and its sibling, the sibling
\* on a tie.
RECURSIVE Replay(_, _)
Replay(t, wi) ==
    IF wi <= 1 THEN t
    ELSE LET sib == IF wi % 2 = 1 THEN wi - 1 ELSE wi + 1
             tg  == wi \div 2
         IN Replay([t EXCEPT ![tg] = IF t[wi].value < t[sib].value THEN t[wi] ELSE t[sib]], tg)

\* winner->index[winner->pos]: the element at pos, or what lies past the end.
Written(es, w, g) ==
    IF es[w].pos < es[w].size THEN es[w].idx[es[w].pos + 1] ELSE <<g, 0, 0>>

\* dest[merged_index_pos++] = winner->index[winner->pos], a fault through the
\* null index of a padding entry; then continue with the loop state next.
Emit(es, w, next) ==
    IF es[w].null
    THEN /\ pc' = "fault" /\ UNCHANGED dest
    ELSE /\ \E g \in Garbage : dest' = Append(dest, Written(es, w, g))
         /\ pc' = next

-----------------------------------------------------------------------------
(* The calls and the steps of k_way_merge_long_index.                      *)

Init ==
    /\ inputs \in Inputs
    /\ pc = "call"
    /\ entries = <<>>
    /\ tree = <<>>
    /\ winnerIndex = 0
    /\ sentinelsLeft = 0
    /\ dest = <<>>
    /\ destSize = 0

\* mergeLongIndexesAsc: no index for cnt < 1, the input itself for one
\* index, otherwise a merge over entries padded to a power of two.
MergeLongIndexesAsc ==
    LET count == Len(inputs)
        size  == CeilPow2(count)
    IN /\ pc = "call"
       /\ \/ /\ count < 1
             /\ pc' = "done"
             /\ UNCHANGED <<entries, sentinelsLeft, dest, destSize>>
          \/ /\ count = 1
             /\ pc' = "done"
             /\ dest' = Elems(1)
             /\ destSize' = Len(inputs[1])
             /\ UNCHANGED <<entries, sentinelsLeft>>
          \/ /\ count > 1
             /\ pc' = "seed"
             /\ entries' = EntriesFor(count, size)
             /\ sentinelsLeft' = InitialSentinels(size, size - count)
             /\ destSize' = FoldLeft(LAMBDA a, s : a + Len(s), 0, inputs)
             /\ UNCHANGED dest
       /\ UNCHANGED <<inputs, tree, winnerIndex>>

\* mergeTwoLongIndexesAsc: two entries, no sentinels at start.
MergeTwoLongIndexesAsc ==
    /\ pc = "call"
    /\ Len(inputs) = 2
    /\ pc' = "seed"
    /\ entries' = EntriesFor(2, 2)
    /\ sentinelsLeft' = InitialSentinels(2, 0)
    /\ destSize' = Len(inputs[1]) + Len(inputs[2])
    /\ UNCHANGED <<inputs, tree, winnerIndex, dest>>

\* The two seeding loops: leaves from each index's first ts, then the tree
\* bottom up.
Seed ==
    /\ pc = "seed"
    /\ \E g \in [0..NumEntries-1 -> Garbage] :
          tree' = SeedFrom(SeedLeaves(NumEntries, g), 2 * NumEntries - 1)
    /\ pc' = "first"
    /\ UNCHANGED <<inputs, entries, winnerIndex, sentinelsLeft, dest, destSize>>

\* Take the first winner: emit its first element, or count it as a sentinel.
FirstWinner ==
    LET wi == tree[1].ii
        w  == wi - NumEntries
    IN /\ pc = "first"
       /\ winnerIndex' = wi
       /\ IF entries[w].pos < entries[w].size
          THEN /\ Emit(entries, w, IF sentinelsLeft > 0 THEN "loop" ELSE "done")
               /\ UNCHANGED sentinelsLeft
          ELSE /\ sentinelsLeft' = sentinelsLeft - 1
               /\ pc' = IF sentinelsLeft - 1 > 0 THEN "loop" ELSE "done"
               /\ UNCHANGED dest
       /\ UNCHANGED <<inputs, entries, tree, destSize>>

\* One iteration of the full run: back-fill the winning leaf from its next
\* element, stop once every entry is exhausted, otherwise replay the path
\* to the root and emit the new winner's element.
RunStep ==
    LET wi   == winnerIndex
        w    == wi - NumEntries
        pos  == entries[w].pos + 1
        more == pos < entries[w].size
        sl   == IF more THEN sentinelsLeft ELSE sentinelsLeft - 1
        t1   == [tree EXCEPT ![wi].value = IF more THEN entries[w].idx[pos + 1][1] ELSE LMax]
        t2   == Replay(t1, wi)
        nw   == t2[1].ii - NumEntries
        e1   == [entries EXCEPT ![w].pos = pos]
    IN /\ pc = "loop"
       /\ sentinelsLeft' = sl
       /\ IF sl = 0
          THEN /\ pc' = "done"
               /\ entries' = e1
               /\ tree' = t1
               /\ UNCHANGED <<winnerIndex, dest>>
          ELSE /\ tree' = t2
               /\ winnerIndex' = t2[1].ii
               /\ entries' = e1
               /\ Emit(e1, nw, "loop")
       /\ UNCHANGED <<inputs, destSize>>

Next == MergeLongIndexesAsc \/ MergeTwoLongIndexesAsc \/ Seed \/ FirstWinner \/ RunStep

Spec == Init /\ [][Next]_vars

-----------------------------------------------------------------------------
(* Properties.                                                              *)

Vals == Ts \cup Garbage \cup {LMax}
Elem == (Ts \cup Garbage) \X Nat \X Nat
Entry == [idx : Seq(Elem), null : BOOLEAN, pos : Nat, size : Nat]

\* Every variable has its type; after seeding every tree node names a leaf.
TypeOK ==
    /\ pc \in {"call", "seed", "first", "loop", "done", "fault"}
    /\ entries = <<>> \/ entries \in [0..NumEntries-1 -> Entry]
    /\ pc \in {"first", "loop"} =>
          tree \in [1..2*NumEntries-1 -> [value : Vals, ii : NumEntries..2*NumEntries-1]]
    /\ winnerIndex \in Nat
    /\ sentinelsLeft \in Nat
    /\ dest \in Seq(Elem)
    /\ destSize \in Nat

\* All elements of the call's inputs.
InputElems == UNION {ToSet(Elems(j)) : j \in 1..Len(inputs)}

\* When mergeLongIndexesAsc or mergeTwoLongIndexesAsc returns, the merged
\* index holds every element of every input exactly once, in ascending ts
\* order: the tournament tree, its sentinel count and its replay produce
\* the sorted union of the inputs.
MergedIsSortedPermutation ==
    pc = "done" =>
        /\ \A i \in 1..Len(dest) - 1 : dest[i][1] <= dest[i + 1][1]
        /\ IsInjective(dest)
        /\ ToSet(dest) = InputElems

\* The merge never reads through the null index of a padding entry and
\* never writes past the merged_index_size elements malloc'ed for dest.
WritesWithinBuffer ==
    /\ pc # "fault"
    /\ Len(dest) <= destSize

=============================================================================
