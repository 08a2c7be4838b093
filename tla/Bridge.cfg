\* The bridges of one device, one operation at a time beside the reconciler; one
\* fault of any kind.
SPECIFICATION FairSpec
CONSTANTS
  Devs = {d1}
  Tokens = {k1, k2, k3}
  Arrays = {a1, a2}
  Tasks = {t1}
  Ops = {"play", "stop", "resume", "join", "leave", "heal"}
  Faults = {"refuse", "slow", "loss", "cast", "pump", "crash"}
  MaxFaults = 1
  None = None
INVARIANTS TypeOK 
PROPERTIES ReapsNoneInTheMaking OrphansReaped
CHECK_DEADLOCK FALSE
