SPECIFICATION FairSpec
CONSTANTS
  Songs <- TwoSongs
  Runs = {r1, r2}
  DeadSongs <- OneSong
  Threshold = 2
  LibraryWindow = 1
  LedgerWindow = 2
  BatchLimit = 2
  OutageMin = 2
  MaxPurge = 1
  MaxEvents = 2
INVARIANTS TypeOK
PROPERTIES ListedIsProven DeadSongsLeave
CHECK_DEADLOCK FALSE
