\* One thread, synchronous sends, nodes that answer 200 or refuse.
SPECIFICATION Spec
CONSTANTS
    n1 = n1
    n2 = n2
    n3 = n3
    NodeList <- TwoNodes
    NoNode = NoNode
    Nobody = Nobody
    Senders = {s1}
    Kinds = {"sync"}
    Replies = {"ok", "refuse"}
    Delay = 2
    Width = 5
    Timeout = 6
    MaxTime = 12
    LastStart = 8
    MaxCalls = 2
    MaxSetups = 1
    MaxRetry = 5
\* The application may make its last call: the driver then rests for ever.
CHECK_DEADLOCK FALSE
INVARIANTS
    TypeOK
    EarliestFirst
    RespectsBackoff
    PostsToCurrentNode
PROPERTY
    BackoffNeverShortens
