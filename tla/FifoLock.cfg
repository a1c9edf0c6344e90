CONSTANTS
    Calls = {a, b, c, d, e}
    Cancellable = {b, c, d, e}
SPECIFICATION FairSpec
INVARIANTS TypeOK MutualExclusion HeadIsServed
PROPERTIES EntersInOrder WedgedForever OnlyCancellationStops
\* a call that is cancelled in the queue stops the lock for good
CHECK_DEADLOCK FALSE
