SPECIFICATION Spec
CONSTANTS
  Requests = {r1, r2, r3, r4}
  Env = {"expire", "redis", "audit", "db", "runner", "timeout", "lost", "rollback", "crowd", "crash"}
  MaxFaults = 2
SYMMETRY RequestSymmetry
INVARIANTS
  ApprovedOnce
  AuditTellsAll
CHECK_DEADLOCK FALSE
