SPECIFICATION LiveSpec
CONSTANTS
  Songs <- McSongs
  Lists <- NoLists
  Saved <- Two
  Modes = {"all"}
  MayBeDead = {"b"}
  SkipLimit = 2
  MaxTasks = 1
  Events = {"reactivate", "fail"}
  MaxEvents = 1
  NoSong = NoSong
PROPERTIES StandsIsNoticed ChangeEnds DeadSourceMovesOn
CHECK_DEADLOCK FALSE
