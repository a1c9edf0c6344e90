CONSTANTS
    Byte <- SomeBytes
    Requests <- SomeRequests
    Garbage <- SomeGarbage
    Replies <- SomeReplies
    MaxSent = 2
SPECIFICATION FairSpec
INVARIANTS TypeOK RequestsIntact RepliesReadable
PROPERTIES RequestsServed
\* the connection is closed in the end
CHECK_DEADLOCK FALSE
