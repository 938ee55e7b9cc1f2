CONSTANTS
  MaxCred = 2
  Me = 2
  MaxLog = 3
  MaxLost = 1
  Half = 8
  SchemaAttrs = {"age"}
  NonSchemaAttrs = {"ms"}
  MasterSecret = "ms"
  IntAttr = "age"
  ValueSets <- MCValueSets
  IntValues <- MCIntValues
  CommonAttrs = {"age"}
  Asks <- MCAsks
  MaxRequests = 2
  MaxTries = 2
  MaxCommon = 1
  MaxProofs = 2
SPECIFICATION CredSpec
CHECK_DEADLOCK FALSE
INVARIANTS
  CredTypeOK
  AccumulatorMatchesStatus
  MergeIsComposition
  WitnessTracks
  WitnessShowsMembership
  AcceptedNotRevoked
PROPERTIES
  RetryNeverHelps
  VerdictExact
  ImplementsLog
