CONSTANTS
    Ts <- MCTs
    Garbage <- MCGarbage
    Inputs <- MCNonEmptyInputs
    LMax = 3
    SizeMax = 4
SPECIFICATION Spec
\* A call ends in "done" (or "fault"): the merge is a function that returns.
CHECK_DEADLOCK FALSE
INVARIANT TypeOK
INVARIANT MergedIsSortedPermutation
INVARIANT WritesWithinBuffer
