CONSTANTS
    Connections = {c1}
    EnableAuth = FALSE
    Commands <- AllCommands
    Results <- ServiceResults
    MaxOwed = 2
SPECIFICATION Spec
INVARIANT RepliesInStep
