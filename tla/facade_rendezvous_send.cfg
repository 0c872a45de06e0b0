\* sync_channel(0): a SyncSender sends on the rendezvous channel.
CONSTANTS
    h1 = h1
    h2 = h2
    h3 = h3
    Handles <- MCHandles
    NoBound = NoBound
    Bound = 0
SPECIFICATION Spec
INVARIANT NoUnreachableDispatch
\* Every handle may be dropped: the channel's life then ends.
CHECK_DEADLOCK FALSE
