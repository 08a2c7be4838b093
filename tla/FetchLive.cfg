SPECIFICATION FairSpec
CONSTANTS
  Jobs = {j1, j2}
  Loops = {l1, l2}
  Songs = {1, 2}
  Flows = {"library"}
  AutoFlows = {"library"}
  ChunkSize = 1
  BatchSize = 1
  LockLimit = 1
  Outcomes = {"done", "cooling"}
  Events = {"single", "cancel", "force", "die", "crash"}
  MaxEvents = 2
  NoJob = NoJob
  NoLoop = NoLoop
PROPERTIES EveryJobSettles ChainFinishes
CHECK_DEADLOCK FALSE
