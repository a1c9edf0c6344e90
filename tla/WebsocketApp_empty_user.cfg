CONSTANTS
    Sessions = {s1, s2}
    Users = {u1, empty}
    FalsyUsers = {empty}
    NoUser = NoUser
    NoSession = NoSession
    Senders = {t1}
    Frames <- AllFrames
    CancelIsException = TRUE
SPECIFICATION Spec
INVARIANT ListedUsersAreOnline
