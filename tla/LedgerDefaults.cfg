\* Violated: with the defaults (30 and 7 days, here 3 and 1) the automatic batches never count to two.
SPECIFICATION FairSpec
CONSTANTS
  Songs <- TwoSongs
  Runs = {r1}
  DeadSongs <- OneSong
  Threshold = 2
  LibraryWindow = 3
  LedgerWindow = 1
  BatchLimit = 2
  OutageMin = 100
  MaxPurge = 1
  MaxEvents = 0
PROPERTY DeadSongsLeave
CHECK_DEADLOCK FALSE
