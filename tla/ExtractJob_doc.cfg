SPECIFICATION FairSpec
CONSTANTS
  Anchored = {c1}
  Chunks = {c1, c2}
  Producer = "doc_extract"
  InitTotal = 1
  MaxRetries = 1
  Env = {"cancel", "watchdog", "publish", "republish", "ack", "total", "db", "crash"}
  MaxFaults = 2
INVARIANTS
  TypeOK
  FinalizedAtMostOnce
  RecordedMeansExtracted
PROPERTIES
  ImplementsDelivery
  JobEnds
CHECK_DEADLOCK FALSE
