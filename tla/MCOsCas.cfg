\* Three threads racing on one word, two increments each.
CONSTANTS
    Threads = {t1, t2, t3}
    Incs = 2
SPECIFICATION Spec
\* Every thread stops after its increments: that final state is not a deadlock.
CHECK_DEADLOCK FALSE
INVARIANT TypeOK
INVARIANT NoLostUpdate
