\* Every call ends although nodes may hang; MaxTime leaves a call started at LastStart its whole budget and a last request.
SPECIFICATION FairSpec
CONSTANTS
    n1 = n1
    n2 = n2
    n3 = n3
    NodeList <- TwoNodes
    NoNode = NoNode
    Nobody = Nobody
    Senders = {s1}
    Kinds = {"async", "sync"}
    Replies = {"ok", "bad", "refuse"}
    Delay = 1
    Width = 30
    Timeout = 3
    MaxTime = 12
    LastStart = 3
    MaxCalls = 2
    MaxSetups = 1
    MaxRetry = 20
\* The application may make its last call: the driver then rests for ever.
CHECK_DEADLOCK FALSE
PROPERTY
    CallsEnd
