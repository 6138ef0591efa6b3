--------------------------- MODULE SortVarColumn ---------------------------
(***************************************************************************)
(* sortVarColumn (src/unnamed/part_003): after the merge, a variable-      *)
(* length column is rewritten in the merged order. The source column is a *)
(* data buffer and an int64 index of offsets, one per row plus the end;   *)
(* row r's value is src_data[src_index[r], src_index[r + 1]). For every   *)
(* merged entry the loop copies the value of its row to the end of the    *)
(* target data and records where it starts in the target index.          *)
(*                                                                         *)
(* A byte is abstracted to the pair <<row, k>>: the k-th byte of row's     *)
(* value, so that a byte copied from the wrong place is seen. Target       *)
(* memory that was never written reads as Garbage.                         *)
(***************************************************************************)
EXTENDS Integers, SequencesExt, TLC

CONSTANTS
    Columns,   \* the source columns a caller may pass: sequences of value lengths
    Garbage    \* what target memory that was never written reads as

VARIABLES
    lens,      \* the source column: lens[r + 1] is the length of row r (ghost)
    index,     \* the merged index: 0-based, index[i] is a row
    i,         \* the loop counter
    offset,    \* bytes written to the target so far
    tgtData,   \* target data: position -> byte
    tgtIndex   \* target index: position -> offset

vars == <<lens, index, i, offset, tgtData, tgtIndex>>

Rows == 0..Len(lens) - 1
Count == Len(lens)

\* src_index: the start of every row, and after the last row the end.
SrcIndex(ls) == [r \in 0..Len(ls) |-> FoldLeft(+, 0, SubSeq(ls, 1, r))]

\* src_data: the bytes of every row, back to back.
SrcData(ls) ==
    LET si == SrcIndex(ls)
    IN [p \in 0..si[Len(ls)] - 1 |->
            CHOOSE rk \in {<<r, p - si[r]>> : r \in 0..Len(ls) - 1} :
                si[rk[1]] <= p /\ p < si[rk[1] + 1]]

\* memcpy(tgt_data + at, src_data + o1, len)
Memcpy(tgt, at, o1, len) ==
    [q \in at..at + len - 1 |-> SrcData(lens)[o1 + q - at]] @@ tgt

\* Mutant: the start recorded in the target index slot after i's.
LoopStepIndexAfter(row) ==
    LET o1 == SrcIndex(lens)[row]
        o2 == SrcIndex(lens)[row + 1]
    IN /\ tgtData' = Memcpy(tgtData, offset, o1, o2 - o1)
       /\ tgtIndex' = ((i + 1) :> offset) @@ tgtIndex
       /\ offset' = offset + (o2 - o1)

\* Mutant: offset is not advanced past the value just copied.
LoopStepNoAdvance(row) ==
    LET o1 == SrcIndex(lens)[row]
        o2 == SrcIndex(lens)[row + 1]
    IN /\ tgtData' = Memcpy(tgtData, offset, o1, o2 - o1)
       /\ tgtIndex' = (i :> offset) @@ tgtIndex
       /\ offset' = offset

\* One turn of the loop body for row = index[i].i.
LoopStep(row) ==
    LET o1 == SrcIndex(lens)[row]
        o2 == SrcIndex(lens)[row + 1]
    IN /\ tgtData' = Memcpy(tgtData, offset, o1, o2 - o1)
       /\ tgtIndex' = (i :> offset) @@ tgtIndex
       /\ offset' = offset + (o2 - o1)

\* The call's arguments: a source column and a merged index over its rows
\* (the merge emits every row once).
Init ==
    /\ lens \in Columns
    /\ index \in {f \in [0..Len(lens) - 1 -> 0..Len(lens) - 1] : Range(f) = 0..Len(lens) - 1}
    /\ i = 0
    /\ offset = 0
    /\ tgtData = <<>>
    /\ tgtIndex = <<>>

\* for (i = 0; i < count; ++i) { ... }
Step ==
    /\ i < Count
    /\ LoopStep(index[i])
    /\ i' = i + 1
    /\ UNCHANGED <<lens, index>>

Next == Step

Spec == Init /\ [][Next]_vars

-----------------------------------------------------------------------------
(* Properties.                                                              *)

Byte == (0..Count) \X Nat

\* Every variable has its type.
TypeOK ==
    /\ i \in 0..Count
    /\ offset \in Nat
    /\ \A p \in DOMAIN tgtData : p \in Nat /\ tgtData[p] \in Byte
    /\ \A p \in DOMAIN tgtIndex : p \in 0..Count - 1 /\ tgtIndex[p] \in Nat

TgtAt(p) == IF p \in DOMAIN tgtData THEN tgtData[p] ELSE Garbage

\* When the loop is over, the returned offset is the size of the column and
\* every merged entry i reads, from tgt_index[i] to the next entry's start
\* (or to the returned end for the last one), exactly the bytes of the row
\* index[i] points at: no value was overwritten by a later copy, and no
\* garbage lies between two values.
ValuesInMergedOrder ==
    i = Count =>
        /\ offset = FoldLeft(+, 0, lens)
        /\ \A e \in 0..Count - 1 :
              LET lo == tgtIndex[e]
                  hi == IF e = Count - 1 THEN offset ELSE tgtIndex[e + 1]
              IN /\ hi - lo = lens[index[e] + 1]
                 /\ \A k \in 0..hi - lo - 1 : TgtAt(lo + k) = <<index[e], k>>

=============================================================================
