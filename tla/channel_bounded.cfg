\* sync_channel(1): two SyncSenders that block on the full buffer, under
\* weak fairness of the queue's wake-ups and of the Arc releases.
CONSTANTS
    h1 = h1
    h2 = h2
    h3 = h3
    Handles <- MCHandles2
    NoBound = NoBound
    Bound = 1
    MaxSends = 2
SPECIFICATION ChFairSpec
INVARIANT HangUpAfterDrain
PROPERTY BlockedSendReturns
\* Every handle may be dropped: the channel's life then ends.
CHECK_DEADLOCK FALSE
