SPECIFICATION Spec
CONSTANTS
    Keys = {k1, k2}
    Spendable = {o1}
    NoOutput = NoOutput
    Payloads = {p1}
    NoPayload = NoPayload
    Chosen = {"CREATE", "INTEREST"}
    MaxInputs = 2
    MaxOutputs = 1
    MaxBuilt = 2
INVARIANTS
    TypeOK
    IdMatchesBody
    FirstUseVerifies
PROPERTY OnlySigningRewrites
CHECK_DEADLOCK FALSE
