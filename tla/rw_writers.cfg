\* Writers only, as the code is written: every waiter is flagged a reader.
CONSTANTS
    t1 = t1
    t2 = t2
    t3 = t3
    Threads <- MCThreads
    NoWaiter = NoWaiter
    ReaderMax = 2
    Modes = {"X"}
    LockElision = TRUE
SPECIFICATION Spec
SYMMETRY MCSymmetry
INVARIANT LockedOnlyWhileHeld
INVARIANT WakeupPending
