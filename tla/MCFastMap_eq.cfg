\* eq() as line 414 is written: the length check compares addresses.
CONSTANTS
    k1 = k1
    k2 = k2
    k3 = k3
    NoKey = NoKey
    Keys <- MCKeys
    Hash <- MCHash
    KeyWidth <- MCKeyWidth
    Bases <- MCBases
    Views <- MCOneView
    ValueBytes = 4
    PageSize = 16
    InitialKeyCapacity = 1
    LoadNum = 1
    LoadDen = 2
    MinInitialCapacity = 2
    MaxResizes = 2
    MaxSize = 4
    EqReadsHeader = FALSE


SPECIFICATION Spec

PROPERTY ImplementsGroupMap
