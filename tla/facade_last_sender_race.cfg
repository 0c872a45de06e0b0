\* channel(): two Senders dropped at the same time while the Receiver waits.
CONSTANTS
    h1 = h1
    h2 = h2
    h3 = h3
    Handles <- MCHandles
    NoBound = NoBound
    Bound = NoBound
SPECIFICATION Spec
INVARIANT LastSenderDisconnects
\* Every handle may be dropped: the channel's life then ends.
CHECK_DEADLOCK FALSE
