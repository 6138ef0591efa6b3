\* Three worker threads, two calls each, on machines of every class.
CONSTANTS
    Threads = {t1, t2, t3}
    ISets = {2, 5, 8, 10}
    MaxCalls = 2
SPECIFICATION Spec
\* Every thread stops after MaxCalls calls: that final state is not a deadlock.
CHECK_DEADLOCK FALSE
INVARIANT TypeOK
INVARIANT EachCallRunsOnceOnBestImpl
PROPERTY EveryCallReturns
