SPECIFICATION FairSpec
CONSTANTS
  Calls = {c1, c2, c3}
  Plugins = {p1, p2}
  Floors <- FloorValues
  MaxLimit = 3
  MaxChanges = 2
INVARIANTS TypeOK Accounts NoIdleSlot
PROPERTIES ImplementsLock FirstComeFirstServed AbortedCallReturns EveryCallServed
CHECK_DEADLOCK FALSE
