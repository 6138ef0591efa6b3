CONSTANTS
    Arrays <- MCArrays
    NoElem <- MCNoElem
    IndexBits = 8
    TsBits = 17
    SortThreshold = 3
    MaxVarLen = 2
    Garbage = Garbage
INIT PipelineInit
NEXT PipelineNext
\* One sort and one column rewrite: nothing follows the last copy.
CHECK_DEADLOCK FALSE
INVARIANT TypeOK
INVARIANT SortedPermutation
INVARIANT RadixSortIsStable
INVARIANT ColumnInSortedOrder
