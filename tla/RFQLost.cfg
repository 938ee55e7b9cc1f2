\* A network failure of which no method of the callback hears.
SPECIFICATION Spec
CONSTANTS
    Requests = {r1, r2}
    Startup = startup
    Slots = 1
    MaxClients = 2
    MaxCopies = 1
\* All RFQs may have been dealt with.
CHECK_DEADLOCK FALSE
INVARIANT
    CallbackTold
