\* A sale whose offer was made for another advertisement.
SPECIFICATION Spec
CONSTANT
    ValidAssetCount = 3
\* The workload ends after its sixth loop.
CHECK_DEADLOCK FALSE
INVARIANT
    SalesMatch
