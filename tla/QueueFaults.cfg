SPECIFICATION Spec
CONSTANTS
  Songs <- McSongs
  Lists <- NoLists
  Saved <- Two
  Modes = {"order"}
  MayBeDead = {}
  SkipLimit = 1
  MaxTasks = 2
  Events = {"reactivate", "remove", "link", "target", "freeze", "group", "seek", "pause", "watchdog"}
  MaxEvents = 1
  NoSong = NoSong
INVARIANTS NothingLeftBehind
PROPERTIES PauseHeld
CHECK_DEADLOCK FALSE
