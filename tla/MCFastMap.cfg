\* The core run: FastMap with its rehash, resize and relocation, checked
\* against the GroupMap abstraction and the directory and arena invariants.
CONSTANTS
    k1 = k1
    k2 = k2
    k3 = k3
    NoKey = NoKey
    Keys <- MCKeys
    Hash <- MCHash
    KeyWidth <- MCKeyWidth
    Bases <- MCBases
    Views <- MCOneView
    ValueBytes = 4
    PageSize = 16
    InitialKeyCapacity = 1
    LoadNum = 3
    LoadDen = 4
    MinInitialCapacity = 2
    MaxResizes = 2
    MaxSize = 4
    EqReadsHeader = TRUE

SPECIFICATION Spec

INVARIANT TypeOK
INVARIANT ProbeChainsUnbroken
INVARIANT FreeBudgetLeavesEmptySlot
INVARIANT ArenaLayoutConsistent
INVARIANT ArenaFreedOnce

PROPERTY ReturnedViewOnItsKey
PROPERTY ImplementsGroupMap
