SPECIFICATION Spec
CONSTANTS
  Anchored = {}
  Chunks = {c1, c2, c3, c4}
  Producer = "kb_extract"
  InitTotal = 2
  MaxRetries = 1
  Env = {"cancel", "publish", "republish"}
  MaxFaults = 3
SYMMETRY ChunkSymmetry
INVARIANTS
  CompletedMeansAllSettled
  NotLeftRunning
  ProgressExact
PROPERTIES
  CancelSticksOncePlanned
  ImplementsBarrier
CHECK_DEADLOCK FALSE
