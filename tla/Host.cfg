SPECIFICATION FairSpec
CONSTANTS
  Procs = {p1, p2, p3}
  Calls = {c1}
  Starts = 3
  Faults = {"crash", "hang", "slow"}
  MaxFaults = 2
  NoProc = NoProc
INVARIANTS TypeOK NoOrphanRpc NoTwinUnlessMet SlippedOnlyIfMet StopReachesUnlessMet
PROPERTIES Recovers StartSettles
CHECK_DEADLOCK FALSE
