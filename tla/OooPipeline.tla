---------------------------- MODULE OooPipeline ----------------------------
(***************************************************************************)
(* The out-of-order pipeline of src/unnamed/part_003 for one partition:    *)
(* an index of <<ts, row>> is sorted in place by one of the sort entry     *)
(* points (OooSort), and a variable-length column is then rewritten in    *)
(* the sorted order by sortVarColumn (SortVarColumn), whose merged index  *)
(* is the sorted array: row = index[i].i.                                  *)
(***************************************************************************)
EXTENDS OooSort

CONSTANTS
    MaxVarLen, \* longest value of the variable-length column
    Garbage    \* what target memory that was never written reads as

VARIABLES lens, i, offset, tgtData, tgtIndex

varVars == <<lens, i, offset, tgtData, tgtIndex>>
allVars == <<vars, varVars>>

\* The i of every index_t of the sorted array.
SortedRows == [x \in DOMAIN array |-> array[x][2]]

VC == INSTANCE SortVarColumn WITH index <- SortedRows, Columns <- {}

PipelineInit ==
    /\ Init
    /\ lens \in [1..Size(array) -> 0..MaxVarLen]
    /\ i = 0
    /\ offset = 0
    /\ tgtData = <<>>
    /\ tgtIndex = <<>>

\* First the sort entry point on the index, then the loop of sortVarColumn
\* over the sorted index.
PipelineNext ==
    \/ Next /\ UNCHANGED varVars
    \/ op # "none" /\ UNCHANGED <<input, array, cpy, op>> /\ VC!Step

PipelineSpec == PipelineInit /\ [][PipelineNext]_allVars

\* Once sortVarColumn has run over the sorted index, every entry's bytes in
\* the target, from its tgt_index to the next entry's, are exactly the
\* value of the row the sorted index names there, back to back, and the
\* returned offset is the column's size.
ColumnInSortedOrder == VC!ValuesInMergedOrder

=============================================================================
