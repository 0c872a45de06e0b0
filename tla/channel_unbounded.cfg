\* channel(): three sender handles, cloned, sending and dropped while the
\* Receiver calls every receive operation.
CONSTANTS
    h1 = h1
    h2 = h2
    h3 = h3
    Handles <- MCHandles3
    NoBound = NoBound
    Bound = NoBound
    MaxSends = 1
SPECIFICATION ChSpec
INVARIANT ChTypeOK
INVARIANT HangUpAfterDrain
\* Every handle may be dropped: the channel's life then ends.
CHECK_DEADLOCK FALSE
