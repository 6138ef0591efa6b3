CONSTANTS
    ValueTypes <- MCValueTypes
    KeyTypes <- MCKeyTypes
    Lens <- MCLens
    IntBits = 8
    NullLen <- MCNullLen
    Garbage = Garbage
SPECIFICATION Spec
\* A committed record is only read afterwards: the Key's work ends there.
CHECK_DEADLOCK FALSE
INVARIANT TypeOK
INVARIANT ColumnsRoundTrip
