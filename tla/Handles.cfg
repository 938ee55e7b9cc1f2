CONSTANTS
  Calls <- UrsaCalls
  Threads = {1, 2}
  Copies = 2
SPECIFICATION Spec
CHECK_DEADLOCK FALSE
INVARIANTS
  HandlesTypeOK
  OwnershipExact
  MessageMatches
  OnlyDeltaMisread
PROPERTIES
  KeptUntilNextError
