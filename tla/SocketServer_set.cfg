CONSTANTS
    Sessions = {s1}
    Users = {u1}
    FalsyUsers = {}
    NoUser = NoUser
    NoSession = NoSession
    Senders = {t1}
    Frames <- OneFrame
    CancelIsException = FALSE
    Clients = {r1}
    DefaultLoads = TRUE
SPECIFICATION ServerSpec
INVARIANT SetReachesItsTargets
