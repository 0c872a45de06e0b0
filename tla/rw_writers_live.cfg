\* Writers only, as the code is written, under weak fairness of every step
\* the code takes on its own (lock calls themselves stay unforced).
CONSTANTS
    t1 = t1
    t2 = t2
    t3 = t3
    Threads <- MCThreads
    NoWaiter = NoWaiter
    ReaderMax = 2
    Modes = {"X"}
    LockElision = TRUE
SPECIFICATION FairSpec
PROPERTY NoLostWakeup
PROPERTY LockProgress
