SPECIFICATION FairSpec
CONSTANTS
  Procs = {p1, p2}
  Crons = {{1, 3}, {2, 3}}
  Horizon = 2
  StaleAfter = 1
  MaxRetries = 1
  Env = {"user"}
  MaxFaults = 1
INVARIANTS
  OneRunnerPerTask
PROPERTIES
  CompletedIsFinal
  
  TasksEnd
