CONSTANTS
    Visitors = {v1, v2, v3, v4}
    Cancellable = {v1, v2, v3, v4}
    Controllers = {k1, k2}
    N = 2
    MaxLeaks = 2
SPECIFICATION FairSpec
INVARIANTS TypeOK PermitsExact NoLostPermit CounterExact DrainHasCause
PROPERTY OnlyLeaksBlockDrain
