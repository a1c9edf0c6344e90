CONSTANTS
    Sessions = {s1}
    Users = {u1}
    FalsyUsers = {}
    NoUser = NoUser
    NoSession = NoSession
    Senders = {t1}
    Frames <- AllFrames
    CancelIsException = TRUE
SPECIFICATION Spec
INVARIANT EveryDataFrameIsRequested
