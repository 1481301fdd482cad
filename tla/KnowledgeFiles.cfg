SPECIFICATION FairSpec
CONSTANTS
  Files = {f1, f2, f3}
  Second = {f1}
  Uploads = {u1}
  Procs = {p1}
  Env = {"gone", "replace", "heal", "db", "counter", "publish", "crash"}
  MaxFaults = 1
INVARIANTS
  BatchInv
  AnnouncedAfterAll
  NoFileVanishes
PROPERTIES
  JobAnnounced
CHECK_DEADLOCK FALSE
