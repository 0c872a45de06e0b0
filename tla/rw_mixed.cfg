\* Readers and writers as the code is written (is_writer = false for writers).
CONSTANTS
    t1 = t1
    t2 = t2
    t3 = t3
    Threads <- MCThreads
    NoWaiter = NoWaiter
    ReaderMax = 2
    Modes = {"X", "S"}
    LockElision = TRUE
SPECIFICATION Spec
SYMMETRY MCSymmetry
INVARIANT TypeOK
INVARIANT MutualExclusion
INVARIANT ReaderCount
INVARIANT WaitersAccounted
INVARIANT QueueLockOwner
INVARIANT CodeAssertions
INVARIANT ReleaseTailCurrent
\* The lock can stay LOCKED with nobody holding it (run rw_reader_release_stuck).
CHECK_DEADLOCK FALSE
