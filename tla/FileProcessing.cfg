SPECIFICATION FileFairSpec
CONSTANTS
  Calls = {q1, q2}
  Kinds = {"process", "add", "retry", "remove", "view", "poll"}
  FileEnv = {"timeout", "stale", "fail", "db", "publish", "crash"}
  MaxMishaps = 1
INVARIANTS
  StatusSettles
  ContentInv
PROPERTIES
  AnnouncedIsTrue
  EveryTaskTold
CHECK_DEADLOCK FALSE
