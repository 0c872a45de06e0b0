\* Readers only, in the build without hardware-lock-elision, under the
\* fairness of rw_writers_live.
CONSTANTS
    t1 = t1
    t2 = t2
    t3 = t3
    Threads <- MCThreads
    NoWaiter = NoWaiter
    ReaderMax = 2
    Modes = {"S"}
    LockElision = FALSE
SPECIFICATION FairSpec
PROPERTY LockProgress
