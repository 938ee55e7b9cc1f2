\* Four assets for each party: enough for a list to lose an entry at either end or between.
SPECIFICATION Spec
CONSTANT
    ValidAssetCount = 4
\* The workload ends after its sixth loop.
CHECK_DEADLOCK FALSE
INVARIANTS
    TypeOK
    OfferForEverySale
    NoDoubleSpend
    SpentByOwner
    AlignedUnlessMissed
