CONSTANTS
    Connections = {c1, c2}
    EnableAuth = TRUE
    Commands <- FewCommands
    Results <- PasswordResults
    MaxOwed = 2
SPECIFICATION FairSpec
INVARIANTS TypeOK ConnectionsExact AuthGate NoLateRefusal RepliesInStep
PROPERTY SilentClientLeaves
