SPECIFICATION Spec
CONSTANTS
  Jobs = {j1, j2}
  Loops = {l1, l2}
  Songs = {1, 2}
  Flows = {"upgrade"}
  AutoFlows = {}
  ChunkSize = 1
  BatchSize = 1
  LockLimit = 2
  Outcomes = {"done", "skipped"}
  Events = {"manual", "named", "retry", "cancel", "delete", "mount", "config", "reset", "crash"}
  MaxEvents = 3
  NoJob = NoJob
  NoLoop = NoLoop
SYMMETRY Interchangeable
INVARIANTS NoZombieRow
PROPERTIES NamedJobsLeaveChain
CHECK_DEADLOCK FALSE
