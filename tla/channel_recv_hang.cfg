\* channel(): two Senders dropped while the Receiver is parked in recv.
CONSTANTS
    h1 = h1
    h2 = h2
    h3 = h3
    Handles <- MCHandles2
    NoBound = NoBound
    Bound = NoBound
    MaxSends = 1
SPECIFICATION ChFairSpec
PROPERTY RecvReturnsOnHangUp
\* Every handle may be dropped: the channel's life then ends.
CHECK_DEADLOCK FALSE
