SPECIFICATION Spec
CONSTANTS
  Jobs = {j1, j2}
  Loops = {l1, l2}
  Songs = {1, 2}
  Flows = {"library", "upgrade"}
  AutoFlows = {"library", "upgrade"}
  ChunkSize = 1
  BatchSize = 1
  LockLimit = 2
  Outcomes = {"done", "failed"}
  Events = {"cancel", "die", "due", "config"}
  MaxEvents = 2
  NoJob = NoJob
  NoLoop = NoLoop
SYMMETRY Interchangeable
INVARIANTS AutoBatchesAlone
CHECK_DEADLOCK FALSE
