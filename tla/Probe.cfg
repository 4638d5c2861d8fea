SPECIFICATION FairSpec
CONSTANTS
  Transports = {"direct", "tunnel", "other"}
  Replies <- Answers
  Timeout = 3
  Startup = 2
  MaxUnlucky = 1
INVARIANTS Contained JudgedByContent UnknownIsOurs ShutdownStoresNothing
PROPERTY EveryProbeEnds
