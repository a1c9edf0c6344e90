CONSTANTS
    Sessions = {s1, s2}
    Users = {u1, u2}
    FalsyUsers = {}
    NoUser = NoUser
    NoSession = NoSession
    Senders = {t1}
    Frames <- AllFrames
    CancelIsException = TRUE
SPECIFICATION FairSpec
INVARIANTS TypeOK UserIndexExact OpenSessionIsListed NoGhostSession
PROPERTIES PresenceSpec ClosedSessionLeaves
