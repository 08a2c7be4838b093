SPECIFICATION Spec
CONSTANTS
  Jobs = {j1, j2}
  Loops = {l1, l2}
  Songs = {1, 2, 3}
  Flows = {"library"}
  AutoFlows = {"library"}
  ChunkSize = 1
  BatchSize = 2
  LockLimit = 1
  Outcomes = {"done", "failed"}
  Events = {"single", "cancel", "force", "die", "crash"}
  MaxEvents = 2
  NoJob = NoJob
  NoLoop = NoLoop
SYMMETRY Interchangeable
INVARIANTS TypeOK OneLoopPerJob CountsMatchItems
PROPERTIES SettledItemsKept VerdictKept ForceStopEndsChain
CHECK_DEADLOCK FALSE
