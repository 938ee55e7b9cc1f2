\* Two RFQs and clients with one slot, so that one RFQ waits behind the other's blocked callback or hung call.
SPECIFICATION FairSpec
CONSTANTS
    Requests = {r1, r2}
    Startup = startup
    Slots = 1
    MaxClients = 2
    MaxCopies = 2
\* All RFQs may have been dealt with.
CHECK_DEADLOCK FALSE
INVARIANTS
    TypeOK
    RefusedNotPublished
    NoIdleSlot
PROPERTY
    RequestsEnd
