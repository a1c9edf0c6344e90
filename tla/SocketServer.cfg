CONSTANTS
    Sessions = {s1, s2}
    Users = {u1, empty}
    FalsyUsers = {empty}
    NoUser = NoUser
    NoSession = NoSession
    Senders = {t1}
    Frames <- OneFrame
    CancelIsException = FALSE
    Clients = {r1}
    DefaultLoads = FALSE
SPECIFICATION ServerSpec
SYMMETRY Symmetry
INVARIANTS ServerTypeOK ReadersAgree
PROPERTIES AnsweredDelHasClosed AppSpec
