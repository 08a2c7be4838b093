SPECIFICATION Spec
CONSTANTS
  Songs <- McSongs
  Lists <- Single
  Saved <- Three
  Modes = {"order", "shuffle"}
  MayBeDead = {"b"}
  SkipLimit = 2
  MaxTasks = 1
  Events = {"play", "jump", "next", "prev", "mode", "enqueue", "remove", "reorder", "clear", "flow", "stop", "resume"}
  MaxEvents = 1
  NoSong = NoSong
INVARIANTS TypeOK QueueSound
PROPERTIES SongMovesWithCursor
CHECK_DEADLOCK FALSE
