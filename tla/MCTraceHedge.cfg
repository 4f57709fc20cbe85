SPECIFICATION Spec
CONSTANT
    N = 3
INVARIANTS
    TypeOK
    NothingLeftRunning
    TimerIsFresh
PROPERTIES
    PromiseKept
    Returns
\* The detection returns.
CHECK_DEADLOCK FALSE
