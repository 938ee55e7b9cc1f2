\* Two threads that interleave at every shared access, with callbacks: a send whose request fails, then two that reconnect at once.
SPECIFICATION Spec
CONSTANTS
    n1 = n1
    n2 = n2
    n3 = n3
    NodeList <- TwoNodes
    NoNode = NoNode
    Nobody = Nobody
    Senders = {s1, s2}
    Kinds = {"async"}
    Replies = {"ok"}
    Delay = 1
    Width = 30
    Timeout = 2
    MaxTime = 1
    LastStart = 0
    MaxCalls = 3
    MaxSetups = 1
    MaxRetry = 2
SYMMETRY SenderSymmetry
\* The application may make its last call: the driver then rests for ever.
CHECK_DEADLOCK FALSE
INVARIANT
    Bounded
