\* A send that times out without trying a node.
SPECIFICATION PromptSpec
CONSTANTS
    n1 = n1
    n2 = n2
    n3 = n3
    NodeList <- TwoNodes
    NoNode = NoNode
    Nobody = Nobody
    Senders = {s1}
    Kinds = {"async"}
    Replies = {"ok", "refuse"}
    Delay = 1
    Width = 30
    Timeout = 4
    MaxTime = 9
    LastStart = 6
    MaxCalls = 2
    MaxSetups = 1
    MaxRetry = 20
\* The application may make its last call: the driver then rests for ever.
CHECK_DEADLOCK FALSE
INVARIANT
    TriesBeforeTimeout
