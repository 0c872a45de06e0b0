\* Readers and writers as written: the last reader leaving a queued lock.
CONSTANTS
    t1 = t1
    t2 = t2
    t3 = t3
    Threads <- MCThreads
    NoWaiter = NoWaiter
    ReaderMax = 2
    Modes = {"X", "S"}
    LockElision = TRUE
SPECIFICATION Spec
SYMMETRY MCSymmetry
INVARIANT LockedOnlyWhileHeld
CHECK_DEADLOCK FALSE
