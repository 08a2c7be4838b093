------------------------------ MODULE PlayQueue ------------------------------
(***************************************************************************)
(* The queue of one playback device: QueueController with the parts of     *)
(* PlayerController (optimistic window, debounce) and PlaybackTracker      *)
(* (what the reports of the device mean) that drive it, and the routes by  *)
(* which a user works it.                                                  *)
(*                                                                         *)
(* The server is single threaded: a stretch of code without an await is    *)
(* one action.  A call that awaits is a task: what it read before the      *)
(* await may no longer be true when it goes on.  The device is another     *)
(* process, reached over a link that may be lost.                          *)
(***************************************************************************)
EXTENDS ShuffleOrder, FiniteSets

CONSTANTS
  Songs,       \* the songs of this instance
  Lists,       \* the lists of songs a user plays (sequences without repetition)
  Saved,       \* the queues the database may hold when the server starts
  Modes,       \* the play modes in use
  MayBeDead,   \* the songs that may have no source
  SkipLimit,   \* STALL_SKIP_LIMIT
  MaxTasks,    \* BOUND: how many calls are in flight at the same time
  Events,      \* the kinds of user and environment events of this instance
  MaxEvents,   \* BOUND: how many such events happen
  NoSong

ASSUME QueueAssumption ==
  /\ IsFiniteSet(Songs)
  /\ Lists \subseteq Seq(Songs) /\ Saved \subseteq Seq(Songs)
  /\ Modes \subseteq {"order", "all", "one", "shuffle"} /\ Modes # {}
  /\ MayBeDead \subseteq Songs
  /\ SkipLimit \in Nat \ {0} /\ MaxTasks \in Nat \ {0} /\ MaxEvents \in Nat
  /\ NoSong \notin Songs

VARIABLES
  q,        \* QueueData: items, idx, mode, active, ended, order, pos
  busy,     \* advancing.has(device)
  task,     \* the calls in flight
  again,    \* handleDecision("stalled") left for the next macrotask by a failed cast
  window,   \* the optimistic window of PlayerController
  trk,      \* PlaybackTracker
  pending,  \* the decision waiting for the debounce, pendingDecision
  lost,     \* linkLost.has(device)
  mark,     \* seekSettle and pauseStopSettle
  cnt,      \* stallCounters, stallSkipStreak, castFailStreak, repeatDeadStrikes
  flow,     \* flowOwned.has(device)
  gaveUp,   \* the last attempt to start a song ended in reportAllUnplayable
  dev,      \* what the device does
  halt,     \* a stop command is on its way to the device
  link,     \* the device can be reached
  online,   \* checkPlayTarget(device).playable
  grouped,  \* the device is a member of a group that plays
  dead,     \* the songs without a source
  events    \* events left

core  == <<q, busy, task>>
judged == <<again, gaveUp, cnt>>
seen  == <<window, trk, pending>>
world == <<dev, halt, link, online, grouped, dead>>
vars  == <<core, judged, seen, lost, mark, flow, world, events>>

-----------------------------------------------------------------------------
(* Types.                                                                  *)

Tasks == 1..MaxTasks
Pcs   == {"free", "judge", "cast", "seek", "recheck", "home", "look"}
Whys  == {"none", "play", "enqueue", "remove", "recover", "idle_early", "stalled", "frozen"}

NoTask   == [pc |-> "free", why |-> "none", song |-> NoSong, skips |-> 0, limit |-> 0]
NewQueue == [items |-> <<>>, idx |-> 0, mode |-> "shuffle", active |-> FALSE,
             ended |-> FALSE, order |-> <<>>, pos |-> 0]
\* PlaybackTracker.reset keeps the expected duration.
Reset(v) == [v EXCEPT !.prev = "none", !.song = NoSong, !.last = "none", !.told = FALSE]
NewTrack == [prev |-> "none", song |-> NoSong, last |-> "none", told |-> FALSE, dur |-> FALSE]

Here        == Current(q, NoSong)
FreeTask    == {t \in Tasks : /\ task[t].pc = "free"
                              /\ \A u \in Tasks : u < t => task[u].pc # "free"}
At(t, p)    == task[t].pc = p
\* The call holds `advancing' and deletes it when it ends.
Owners      == {"play", "recover"}
Owning(t)   == task[t].pc \in {"judge", "cast", "seek"} /\ task[t].why \in Owners
Casting     == \E t \in Tasks : At(t, "cast")
\* The poll loop looks at the device.
Polled      == q.active /\ q.idx > 0 /\ ~busy

QueueRec == [items : Seq(Songs), idx : Nat, mode : {"order", "all", "one", "shuffle"},
             active : BOOLEAN, ended : BOOLEAN, order : Seq(Nat), pos : Nat]
TaskRec  == [pc : Pcs, why : Whys, song : Songs \cup {NoSong}, skips : Nat, limit : Nat]

TypeOK ==
  /\ q \in QueueRec
  /\ busy \in BOOLEAN
  /\ task \in [Tasks -> TaskRec]
  /\ again \in BOOLEAN
  /\ window \in {"off", "open", "armed"}
  /\ trk \in [prev : {"none", "idle", "playing", "paused"}, song : Songs \cup {NoSong},
              last : {"none", "early", "near"}, told : BOOLEAN, dur : BOOLEAN]
  /\ pending \in {"none", "idle_early"}
  /\ lost \in BOOLEAN
  /\ mark \in [seek : BOOLEAN, pause : BOOLEAN]
  /\ cnt \in [song : Songs \cup {NoSong}, n : 0..2, streak : 0..(SkipLimit - 1),
              fails : Nat,
              strikes : [Songs -> 0..2]]
  /\ flow \in BOOLEAN
  /\ gaveUp \in BOOLEAN
  /\ dev \in [st : {"idle", "playing", "paused"}, song : Songs \cup {NoSong}, near : BOOLEAN]
  /\ halt \in BOOLEAN /\ link \in BOOLEAN /\ online \in BOOLEAN /\ grouped \in BOOLEAN
  /\ dead \subseteq MayBeDead
  /\ events \in 0..MaxEvents

\* The queue is loaded from the database (loadFromDb); neither the shuffle
\* order nor `ended' is in it.
Init ==
  /\ \E m \in Modes, list \in Saved \cup {<<>>} :
       \E i \in IF list = <<>> THEN {0} ELSE DOMAIN list, a \in {FALSE, list # <<>>} :
         q = [NewQueue EXCEPT !.items = list, !.idx = i, !.mode = m, !.active = a]
  /\ busy = FALSE /\ task = [t \in Tasks |-> NoTask] /\ again = FALSE
  /\ window = "off" /\ trk = NewTrack /\ pending = "none"
  /\ lost = FALSE /\ mark = [seek |-> FALSE, pause |-> FALSE]
  /\ cnt = [song |-> NoSong, n |-> 0, streak |-> 0, fails |-> 0, strikes |-> [s \in Songs |-> 0]]
  /\ flow = FALSE /\ gaveUp = FALSE
  /\ dev = [st |-> "idle", song |-> NoSong, near |-> FALSE] /\ halt = FALSE
  /\ link \in {TRUE, "link" \notin Events} /\ online = TRUE /\ grouped = FALSE
  /\ dead \in SUBSET MayBeDead
  /\ events = MaxEvents

-----------------------------------------------------------------------------
(* playCurrent.  PlayCurrent(t, w, k) is its stretch up to the first await: *)
(* k is the queue as the caller left it, w the way the caller goes on.     *)

\* (fault) an attempt that ends without a cast keeps `advancing'.
ReturnHeld(t, w, k, m) ==
  /\ task' = [task EXCEPT ![t] = NoTask]
  /\ q' = k /\ mark' = m /\ UNCHANGED busy

\* playCurrent is over, with the queue k and the marks m: the caller's rest.
Return(t, w, k, m) ==
  \/ /\ w = "recover"                       \* seek back to where it stopped
     /\ task' = [task EXCEPT ![t] = [NoTask EXCEPT !.pc = "seek", !.why = w]]
     /\ busy' = TRUE /\ q' = k /\ mark' = [m EXCEPT !.seek = TRUE]
  \/ /\ task' = [task EXCEPT ![t] = NoTask]
     /\ busy' = (busy /\ w \notin Owners)
     /\ q' \in IF w = "enqueue" THEN Looked(k) ELSE {k}
     /\ mark' = m

PlayCurrent(t, w, k) ==
  LET m == IF online THEN [mark EXCEPT !.pause = FALSE] ELSE mark IN
  /\ gaveUp' = FALSE
  /\ IF online /\ k.idx > 0
     THEN /\ task' = [task EXCEPT ![t] = [pc |-> "judge", why |-> w, song |-> k.items[k.idx],
                                          skips |-> 0, limit |-> Len(k.items)]]
          /\ busy' = (busy \/ w \in Owners)
          /\ q' = k /\ mark' = m
     ELSE Return(t, w, k, m)

GiveUp(t, k) ==
  /\ gaveUp' = TRUE
  /\ Return(t, task[t].why, k, mark)

\* One round of the skip loop: judgePlayable answered, or ten seconds passed
\* and the song is tried.  A song without a source is left in the queue.
Judge(t) ==
  LET w    == task[t]
      n    == IF cnt.strikes[w.song] = 0 THEN 1 ELSE 2
      Stay(p) == p.next = q.idx /\ q.mode = "one"
      Goal(p) == IF Stay(p) /\ n = 2 THEN Other(q) ELSE p.next
  IN
  /\ At(t, "judge")
  /\ \/ /\ task' = [task EXCEPT ![t].pc = "cast"]            \* play
        /\ trk' = [trk EXCEPT !.dur = ~flow]                 \* primeExpectedDuration
        /\ window' = "open"                                  \* beginOptimistic
        /\ UNCHANGED <<q, busy, mark, cnt, gaveUp>>
     \/ /\ w.song \in dead                                   \* skip
        /\ IF w.skips >= w.limit
           THEN GiveUp(t, q) /\ UNCHANGED cnt
           ELSE \E p \in Picks(q) :
                  /\ cnt' = IF Stay(p) THEN [cnt EXCEPT !.strikes[w.song] = n] ELSE cnt
                  /\ IF Goal(p) \in {0, q.idx}
                     THEN GiveUp(t, p.k)
                     ELSE /\ q' = [p.k EXCEPT !.idx = Goal(p)]
                          /\ task' = [task EXCEPT ![t].song = q.items[Goal(p)],
                                                  ![t].skips = @ + 1]
                          /\ UNCHANGED <<busy, mark, gaveUp>>
        /\ UNCHANGED <<trk, window>>
  /\ UNCHANGED <<again, pending, lost, flow, world, events>>

\* What the device does while Stop, SetAVTransportURI and Play reach it.
CastReaches(t) ==
  /\ At(t, "cast") /\ link
  /\ \E st \in {"idle", "playing"} :
       dev' = [st |-> st, song |-> IF st = "idle" THEN NoSong ELSE task[t].song, near |-> FALSE]
  /\ dev' # dev
  /\ UNCHANGED <<core, judged, seen, lost, mark, flow, halt, link, online, grouped, dead, events>>

\* (fault) a window without a timer.
NeverArmed(w) == w

\* armOptimisticTimeout, unless PLAYING has closed the window already.
Armed(w) == IF w = "open" THEN "armed" ELSE w

\* playMedia returned: the command is delivered, the device may still not play.
CastDelivered(t) ==
  /\ At(t, "cast") /\ link
  /\ dev' \in {[st |-> "playing", song |-> task[t].song, near |-> FALSE],
               [st |-> "idle", song |-> NoSong, near |-> FALSE]}
  /\ cnt' = [cnt EXCEPT !.fails = 0]
  /\ window' = Armed(window)
  /\ trk' = Reset(trk) /\ pending' = "none"
  /\ Return(t, task[t].why, q, mark)
  /\ UNCHANGED <<again, gaveUp, lost, flow, halt, link, online, grouped, dead, events>>

FailLimit(k) == IF Len(k.items) = 0 THEN 2 ELSE 2 * Len(k.items)

\* playMedia threw, or thirty seconds passed: then the device is told to stop.
CastFailed(t) ==
  LET n == cnt.fails + 1 IN
  /\ At(t, "cast") /\ ("fail" \in Events \/ ~link) /\ ~again
  /\ halt' \in {halt, TRUE}
  /\ window' = "off"                                         \* endOptimistic
  /\ IF ~online
     THEN cnt' = [cnt EXCEPT !.fails = 0] /\ UNCHANGED <<again, gaveUp>>
     ELSE /\ cnt' = [cnt EXCEPT !.fails = IF n > FailLimit(q) THEN @ ELSE n]
          /\ IF n >= FailLimit(q)
             THEN gaveUp' = TRUE /\ UNCHANGED again
             ELSE again' = TRUE /\ UNCHANGED gaveUp
  /\ Return(t, task[t].why, q, mark)
  /\ UNCHANGED <<trk, pending, lost, flow, dev, link, online, grouped, dead, events>>

\* The seek that recoverInPlace makes after the cast has succeeded or failed.
SeekEnds(t) ==
  /\ At(t, "seek")
  /\ task' = [task EXCEPT ![t] = NoTask] /\ busy' = FALSE
  /\ UNCHANGED <<q, judged, seen, lost, mark, flow, world, events>>

\* A stop command reaches the device or is lost with the link.
HaltEnds ==
  /\ halt /\ halt' = FALSE
  /\ dev' = IF link THEN [st |-> "idle", song |-> NoSong, near |-> FALSE] ELSE dev
  /\ UNCHANGED <<core, judged, seen, lost, mark, flow, link, online, grouped, dead, events>>

-----------------------------------------------------------------------------
(* handleDecision.  Every branch ignores a member of a playing group.      *)

\* advance, track_changed and a confirmed idle_early, when no song is being
\* changed: the song after the current one, or the end of the queue.
Advance(t) ==
  \E p \in Picks(q) :
    LET deadOne == q.mode = "one" /\ Here \in dead            \* repeatOneGuard
        n       == IF deadOne THEN (IF cnt.strikes[Here] = 0 THEN 1 ELSE 2) ELSE 0
        goal    == IF n = 2 THEN Other(q) ELSE p.next
    IN /\ cnt' = IF deadOne THEN [cnt EXCEPT !.strikes[Here] = n] ELSE cnt
       /\ IF goal = 0
          THEN /\ q' = IF n = 2 THEN p.k ELSE [p.k EXCEPT !.ended = TRUE, !.active = FALSE]
               /\ gaveUp' = (n = 2)
               /\ task' = [task EXCEPT ![t] = NoTask] /\ UNCHANGED <<busy, mark>>
          ELSE PlayCurrent(t, "play", [p.k EXCEPT !.idx = goal, !.ended = FALSE])

HandleAdvance ==
  IF grouped \/ flow \/ busy
  THEN UNCHANGED <<core, cnt, gaveUp, mark>>
  ELSE \E t \in FreeTask : Advance(t)

\* The checks of stalled and frozen before the state of the device is asked.
Recheck(t, d) == task' = [task EXCEPT ![t] = [NoTask EXCEPT !.pc = "recheck", !.why = d]]

\* stalled: v is the tracker as the signal left it.
HandleStalled(v) ==
  /\ UNCHANGED <<q, busy, cnt, gaveUp, mark>>
  /\ IF grouped \/ ~q.active \/ q.ended \/ busy
     THEN trk' = v /\ UNCHANGED <<task, pending>>
     ELSE IF mark.pause
     THEN trk' = Reset(v) /\ pending' = "none" /\ UNCHANGED task
     ELSE trk' = v /\ UNCHANGED pending /\ \E t \in FreeTask : Recheck(t, "stalled")

HandleFrozen(v) ==
  /\ UNCHANGED <<q, busy, cnt, gaveUp, mark>>
  /\ IF grouped \/ ~q.active \/ q.ended \/ busy \/ lost
     THEN trk' = v /\ UNCHANGED <<task, pending>>
     ELSE IF mark.pause \/ mark.seek
     THEN trk' = Reset(v) /\ pending' = "none" /\ UNCHANGED task
     ELSE trk' = v /\ UNCHANGED pending /\ \E t \in FreeTask : Recheck(t, "frozen")

\* The debounce of 750 ms is over: PlayerController.evaluate.
Evaluate ==
  /\ pending = "idle_early"
  /\ pending' = "none"
  /\ IF grouped \/ flow
     THEN UNCHANGED <<task, trk>>
     ELSE IF mark.seek
     THEN trk' = Reset(trk) /\ UNCHANGED task
     ELSE UNCHANGED trk /\ \E t \in FreeTask : Recheck(t, "idle_early")
  /\ UNCHANGED <<q, busy, judged, window, lost, mark, flow, world, events>>

Waits(t, d) == At(t, "recheck") /\ task[t].why = d
Drop(t)     == task' = [task EXCEPT ![t] = NoTask]
Rearm       == trk' = Reset(trk) /\ pending' = "none"

\* (fault) the stop after a pause is taken for an end.
ReprievedIfPlays == ~link \/ dev.st = "playing"

\* The answers that clear the device of having stopped by itself.
Reprieved == ~link \/ dev.st = "playing" \/ mark.pause

\* idle_early, after pollState answered.
RecheckedIdle(t) ==
  /\ Waits(t, "idle_early")
  /\ IF Reprieved
     THEN /\ lost' = (lost \/ ~link)
          /\ Rearm /\ Drop(t)
          /\ UNCHANGED <<q, busy, cnt, gaveUp, mark>>
     ELSE /\ UNCHANGED <<lost, trk, pending>>
          /\ IF busy
             THEN Drop(t) /\ UNCHANGED <<q, busy, cnt, gaveUp, mark>>
             ELSE Advance(t)
  /\ UNCHANGED <<again, window, flow, world, events>>

\* (fault) the count of the song is started anew each time.
NeverTwice == 1

\* Same song as the last time?  The count stops at 2.
StallCount == IF cnt.song = Here /\ cnt.n > 0 THEN 2 ELSE 1

\* (fault) one song too many.
FuseLate == cnt.streak + 1 > SkipLimit

\* The fuse of STALL_SKIP_LIMIT songs in a row.
FuseBlows == cnt.streak + 1 >= SkipLimit

\* stalled, after pollState answered: the first time the song is cast again,
\* the second time the queue goes on, unless it has done so SkipLimit times.
StalledAgain(t) ==
  IF StallCount = 1 \/ Here = NoSong
  THEN /\ cnt' = [cnt EXCEPT !.song = Here, !.n = StallCount]
       /\ PlayCurrent(t, "play", q)
       /\ UNCHANGED <<trk, pending, halt>>
  ELSE \E p \in Picks(q) :
       IF p.next \in {0, q.idx}
       THEN /\ cnt' = [cnt EXCEPT !.n = 2]
            /\ PlayCurrent(t, "play", p.k)
            /\ UNCHANGED <<trk, pending, halt>>
       ELSE IF FuseBlows
       THEN /\ q' = [p.k EXCEPT !.active = FALSE, !.ended = TRUE]
            /\ cnt' = [cnt EXCEPT !.song = NoSong, !.n = 0, !.streak = 0]
            /\ Rearm /\ Drop(t) /\ halt' = TRUE
            /\ UNCHANGED <<busy, mark, gaveUp>>
       ELSE /\ cnt' = [cnt EXCEPT !.song = NoSong, !.n = 0, !.streak = @ + 1]
            /\ PlayCurrent(t, "play", [p.k EXCEPT !.idx = p.next, !.ended = FALSE])
            /\ UNCHANGED <<trk, pending, halt>>

RecheckedStall(t) ==
  /\ Waits(t, "stalled")
  /\ \/ /\ ~link                                             \* unavailable
        /\ lost' = TRUE /\ Rearm /\ Drop(t)
        /\ UNCHANGED <<q, busy, cnt, gaveUp, mark, window, halt>>
     \/ /\ link /\ dev.st = "playing"
        /\ window' = "off" /\ Rearm /\ Drop(t)
        /\ cnt' = [cnt EXCEPT !.song = NoSong, !.n = 0, !.streak = 0]
        /\ UNCHANGED <<q, busy, gaveUp, mark, lost, halt>>
     \/ /\ ~link \/ dev.st # "playing"                       \* pollState threw, or not playing
        /\ StalledAgain(t)
        /\ UNCHANGED <<window, lost>>
  /\ UNCHANGED <<again, flow, dev, link, online, grouped, dead, events>>

\* recoverInPlace
Recover(t) == IF busy
              THEN Drop(t) /\ UNCHANGED <<q, busy, mark, gaveUp>>
              ELSE PlayCurrent(t, "recover", q)

\* frozen, after pollState answered: the position moves, or it does not.
RecheckedFreeze(t) ==
  /\ Waits(t, "frozen")
  /\ \/ /\ link /\ dev.st = "playing"
        /\ Rearm /\ Drop(t)
        /\ UNCHANGED <<q, busy, mark, gaveUp, cnt>>
     \/ /\ UNCHANGED <<trk, pending>>
        /\ IF StallCount = 1 \/ Here = NoSong
           THEN cnt' = [cnt EXCEPT !.song = Here, !.n = StallCount] /\ Recover(t)
           ELSE \E p \in Picks(q) :
                IF p.next \in {0, q.idx}
                THEN /\ cnt' = [cnt EXCEPT !.n = 2]
                     /\ IF busy
                        THEN Drop(t) /\ q' = p.k /\ UNCHANGED <<busy, mark, gaveUp>>
                        ELSE PlayCurrent(t, "recover", p.k)
                ELSE /\ cnt' = [cnt EXCEPT !.song = NoSong, !.n = 0]
                     /\ PlayCurrent(t, "play", [p.k EXCEPT !.idx = p.next, !.ended = FALSE])
  /\ UNCHANGED <<again, window, lost, flow, world, events>>

-----------------------------------------------------------------------------
(* What the device reports: PlayerController.reportState, tracker.update   *)
(* and the tick of the tracker.                                            *)

NewUri == dev.st = "playing" /\ trk.prev = "playing" /\ trk.song # dev.song
Far    == trk.dur /\ trk.last = "early"      \* a known end, and not close to it

Decision ==
  CASE NewUri                                       -> "advance"
    [] dev.st = "idle" /\ trk.last # "none" /\ Far  -> "idle_early"
    [] dev.st = "idle" /\ trk.last # "none" /\ ~Far -> "advance"
    [] OTHER                                        -> "none"

Updated ==
  [prev |-> dev.st,
   song |-> dev.song,
   last |-> CASE dev.st = "playing" -> (IF dev.near THEN "near" ELSE "early")
              [] dev.st = "idle"    -> "none"
              [] OTHER              -> trk.last,
   told |-> trk.told /\ trk.prev = dev.st /\ ~(dev.st = "playing" /\ dev.near),
   dur  |-> trk.dur /\ ~(dev.st = "idle" /\ Decision = "advance")]

Ignored == window # "off" /\ dev.st # "playing"

Report ==
  IF Ignored
  THEN UNCHANGED <<core, seen, cnt, gaveUp, mark>>
  ELSE /\ window' = "off" /\ trk' = Updated
       /\ pending' = IF Decision = "idle_early" THEN "idle_early" ELSE "none"
       /\ IF Decision = "advance"
          THEN HandleAdvance
          ELSE UNCHANGED <<core, cnt, gaveUp, mark>>

\* A state the device pushes.
Pushed ==
  /\ link /\ Report
  /\ UNCHANGED <<again, lost, flow, world, events>>

\* resumeAfterLinkRecovery up to its first await, on the queue k.
Over(k) == ~k.active \/ k.ended \/ k.idx = 0
GoHome  == \E t \in FreeTask : task' = [task EXCEPT ![t] = [NoTask EXCEPT !.pc = "home"]]

\* pollAllDevices: five seconds later, one at the end of a song.
Poll ==
  /\ Polled
  /\ \/ /\ ~link
        /\ lost' = TRUE
        /\ UNCHANGED <<core, seen, cnt, gaveUp, mark>>
     \/ /\ link /\ ~lost
        /\ Report /\ UNCHANGED lost
     \/ /\ link /\ lost
        /\ IF ~Ignored /\ Decision = "advance" /\ ~grouped /\ ~flow
           THEN Report /\ lost' = ~Over(q')
           ELSE /\ IF Ignored
                   THEN UNCHANGED seen
                   ELSE /\ window' = "off" /\ trk' = Updated
                        /\ pending' = IF Decision = "idle_early" THEN "idle_early" ELSE "none"
                /\ UNCHANGED <<q, busy, cnt, gaveUp, mark>>
                /\ IF Over(q)
                   THEN lost' = FALSE /\ UNCHANGED task
                   ELSE lost' = TRUE /\ GoHome
  /\ UNCHANGED <<again, flow, world, events>>

\* resumeAfterLinkRecovery: isAvailable answered.
CameHome(t) ==
  /\ At(t, "home")
  /\ IF link /\ online
     THEN lost' = FALSE /\ task' = [task EXCEPT ![t].pc = "look"]
     ELSE UNCHANGED lost /\ Drop(t)
  /\ UNCHANGED <<q, busy, judged, seen, mark, flow, world, events>>

\* resumeAfterLinkRecovery: pollState answered.
CameBack(t) ==
  /\ At(t, "look")
  /\ \/ /\ ~link \/ dev.st = "playing"
        /\ Drop(t) /\ UNCHANGED <<q, busy, mark, gaveUp>>
     \/ /\ ~link \/ dev.st # "playing"
        /\ Recover(t)
  /\ UNCHANGED <<again, cnt, seen, lost, flow, world, events>>

\* Five seconds (25 for DLNA) without PLAYING after the cast was delivered.
WindowTimeout ==
  /\ window = "armed" /\ window' = "off"
  /\ HandleStalled(trk)
  /\ UNCHANGED <<again, lost, flow, world, events>>

\* The macrotask that a failed cast left.
StalledMacrotask ==
  /\ again /\ again' = FALSE
  /\ HandleStalled(trk)
  /\ UNCHANGED <<window, lost, flow, world, events>>

\* Fifteen seconds of IDLE.
TickStalled ==
  /\ trk.prev = "idle" /\ ~trk.told /\ pending = "none"
  /\ HandleStalled([trk EXCEPT !.told = TRUE])
  /\ UNCHANGED <<again, window, lost, flow, world, events>>

\* Thirty seconds of PLAYING at the same position.
TickFrozen ==
  /\ "freeze" \in Events /\ trk.prev = "playing" /\ Far /\ ~trk.told /\ pending = "none"
  /\ HandleFrozen([trk EXCEPT !.told = TRUE])
  /\ UNCHANGED <<again, window, lost, flow, world, events>>

\* Eight seconds past the known end.  The position is extrapolated by the
\* clock, so a device nobody asks comes to its end too.
TickEnd ==
  /\ trk.prev = "playing" /\ trk.dur /\ pending = "none"
  /\ trk.last = "near" \/ ~link \/ ~(Polled \/ busy \/ halt)
  /\ trk' = [trk EXCEPT !.last = "none", !.dur = FALSE]
  /\ HandleAdvance
  /\ UNCHANGED <<again, window, pending, lost, flow, world, events>>

SeekSettles ==
  /\ mark.seek /\ mark' = [mark EXCEPT !.seek = FALSE]
  /\ UNCHANGED <<core, judged, seen, lost, flow, world, events>>

-----------------------------------------------------------------------------
(* What the users do.                                                      *)

Spend(e) == e \in Events /\ events > 0 /\ events' = events - 1

\* setQueue on the queue k; with one song or none the old order stays.
Replaced(k, list, i) ==
  LET new == [k EXCEPT !.items = list, !.idx = i, !.active = TRUE, !.ended = FALSE]
  IN IF k.mode = "shuffle" /\ Len(list) > 1 THEN Rebuilt(new) ELSE {new}

\* playFrom: a whole list starts at a random song in shuffle mode.
PlayFrom(list, start) ==
  LET Firsts == IF start > 1 THEN {start}
                ELSE IF q.mode = "shuffle" /\ Len(list) > 1 THEN 1..Len(list)
                ELSE {IF list = <<>> THEN 0 ELSE 1}
  IN
  /\ Spend("play") /\ start <= Len(list) + 1
  /\ flow' = FALSE /\ cnt' = [cnt EXCEPT !.fails = 0]
  /\ \E i \in Firsts : \E k \in Replaced(q, list, IF i > Len(list) THEN Len(list) ELSE i) :
       IF busy
       THEN q' = k /\ gaveUp' = FALSE /\ UNCHANGED <<task, busy, mark>>
       ELSE \E t \in FreeTask : PlayCurrent(t, "play", k)
  /\ UNCHANGED <<again, seen, lost, world>>

JumpTo(i) ==
  /\ Spend("jump") /\ i <= Len(q.items) /\ ~busy
  /\ LET k == [q EXCEPT !.idx = i, !.active = TRUE, !.ended = FALSE]
     IN \E t \in FreeTask, r \in IF q.mode = "shuffle" THEN Rebuilt(k) ELSE {k} :
          PlayCurrent(t, "play", r)
  /\ UNCHANGED <<again, cnt, seen, lost, flow, world>>

\* next: the choice is made, and the shuffle order moved, before the check.
NextSong ==
  /\ Spend("next")
  /\ \E p \in Picks(q) :
       CASE p.next = 0 -> /\ q' = [p.k EXCEPT !.ended = TRUE, !.active = FALSE]
                          /\ UNCHANGED <<task, busy, mark, gaveUp>>
         [] p.next # 0 /\ busy -> q' = p.k /\ UNCHANGED <<task, busy, mark, gaveUp>>
         [] OTHER -> \E t \in FreeTask :
                       PlayCurrent(t, "play", [p.k EXCEPT !.idx = p.next, !.ended = FALSE,
                                                          !.active = TRUE])
  /\ UNCHANGED <<again, cnt, seen, lost, flow, world>>

\* (fault) prev leaves the place in the shuffle order where it was.
BeforeInPlace(k) == {IF r.pos > 1 THEN [r EXCEPT !.idx = r.order[r.pos - 1]] ELSE r : r \in Ready(k)}

\* prev: the song before, none before the first song of "order".
Before(k) ==
  CASE k.mode = "one"     -> {k}
    [] k.mode = "shuffle" -> {IF r.pos > 1 THEN [r EXCEPT !.pos = @ - 1, !.idx = r.order[r.pos - 1]]
                                           ELSE r : r \in Ready(k)}
    [] k.mode = "all"     -> {[k EXCEPT !.idx = IF @ > 1 THEN @ - 1 ELSE Len(k.items)]}
    [] OTHER              -> IF k.idx > 1 THEN {[k EXCEPT !.idx = @ - 1]} ELSE {}

PrevSong ==
  LET k == [q EXCEPT !.active = TRUE, !.ended = FALSE] IN
  /\ Spend("prev") /\ ~busy
  /\ IF Before(k) = {}
     THEN q' = k /\ UNCHANGED <<task, busy, mark, gaveUp>>
     ELSE \E t \in FreeTask, r \in Before(k) : PlayCurrent(t, "play", r)
  /\ UNCHANGED <<again, cnt, seen, lost, flow, world>>

SetPlayMode(m) ==
  /\ Spend("mode") /\ m # q.mode
  /\ q' \in Looked([q EXCEPT !.mode = m])
  /\ UNCHANGED <<busy, task, judged, seen, lost, mark, flow, world>>

\* enqueue and removeAt start a song without looking at `advancing'.
Enqueue(s) ==
  LET k == [q EXCEPT !.items = Append(@, s)] IN
  /\ Spend("enqueue") /\ \A i \in 1..Len(q.items) : q.items[i] # s
  /\ IF q.idx = 0
     THEN \E t \in FreeTask :
            PlayCurrent(t, "enqueue", [k EXCEPT !.idx = 1, !.active = TRUE, !.ended = FALSE])
     ELSE q' \in Looked(k) /\ UNCHANGED <<busy, task, mark, gaveUp>>
  /\ UNCHANGED <<again, cnt, seen, lost, flow, world>>

Without(s, i) == SubSeq(s, 1, i - 1) \o SubSeq(s, i + 1, Len(s))

\* (fault) the index of the current song is left as it was.
RemovedOnly(k, i) == [k EXCEPT !.items = Without(k.items, i)]

Removed(k, i) ==
  LET s == Without(k.items, i) IN
  CASE i < k.idx -> [k EXCEPT !.items = s, !.idx = @ - 1]
    [] i > k.idx -> [k EXCEPT !.items = s]
    [] i = k.idx -> IF s = <<>>
                    THEN [k EXCEPT !.items = s, !.idx = 0, !.active = FALSE, !.ended = TRUE]
                    ELSE [k EXCEPT !.items = s, !.idx = IF @ > Len(s) THEN Len(s) ELSE @]

RemoveAt(i) ==
  /\ Spend("remove") /\ i <= Len(q.items)
  /\ \E k \in Looked(Removed(q, i)) :
       IF i = q.idx
       THEN \E t \in FreeTask : PlayCurrent(t, "remove", k)
       ELSE q' = k /\ UNCHANGED <<busy, task, mark, gaveUp>>
  /\ UNCHANGED <<again, cnt, seen, lost, flow, world>>

\* reorder: the song that was moved becomes the current one.
Reorder(from, to) ==
  LET moved == q.items[from]
      rest  == Without(q.items, from)
      k     == [q EXCEPT !.items = SubSeq(rest, 1, to - 1) \o <<moved>> \o SubSeq(rest, to, Len(rest)),
                         !.idx = to]
  IN
  /\ Spend("reorder") /\ from # to /\ from <= Len(q.items) /\ to <= Len(q.items)
  /\ q' \in IF q.mode = "shuffle" THEN Rebuilt(k) ELSE {k}
  /\ UNCHANGED <<busy, task, judged, seen, lost, mark, flow, world>>

\* clear: the device is told to stop unless a group plays on it.
Clear ==
  /\ Spend("clear")
  /\ q' = [NewQueue EXCEPT !.mode = q.mode]
  /\ flow' = FALSE /\ gaveUp' = FALSE /\ halt' = (halt \/ ~grouped)
  /\ UNCHANGED <<busy, task, again, cnt, seen, lost, mark, dev, link, online, grouped, dead>>

\* The stop route: stopPlayback, then transport("stop").
StopPlayback ==
  /\ Spend("stop")
  /\ q' = [q EXCEPT !.active = FALSE] /\ flow' = FALSE
  /\ Rearm /\ halt' = TRUE
  /\ mark' = [seek |-> FALSE, pause |-> FALSE]
  /\ UNCHANGED <<busy, task, judged, window, lost, dev, link, online, grouped, dead>>

\* The play route: resumePlayback, then transport("play").
ResumePlayback ==
  /\ Spend("resume")
  /\ q' = [q EXCEPT !.active = @ \/ (~q.ended /\ q.idx > 0)]
  /\ mark' = [seek |-> FALSE, pause |-> FALSE]
  /\ dev' = IF link /\ Here # NoSong /\ dev.st # "playing"
            THEN [st |-> "playing", song |-> Here, near |-> FALSE] ELSE dev
  /\ trk' = [trk EXCEPT !.dur = IF q.idx > 0 THEN ~flow ELSE @]
  /\ UNCHANGED <<busy, task, judged, window, pending, lost, flow, halt, link, online, grouped, dead>>

Pause ==
  /\ Spend("pause") /\ link /\ dev.st = "playing"
  /\ dev' = [dev EXCEPT !.st = "paused"]
  /\ UNCHANGED <<core, judged, seen, lost, mark, flow, halt, link, online, grouped, dead>>

\* transport("seek")
Seek(near) ==
  /\ Spend("seek") /\ link /\ dev.st = "playing"
  /\ mark' = [mark EXCEPT !.seek = TRUE] /\ window' = "off"
  /\ dev' = [dev EXCEPT !.near = near]
  /\ UNCHANGED <<core, judged, trk, pending, lost, flow, halt, link, online, grouped, dead>>

\* resumeActive: after a start of the server, and when a device came back.
ResumeActive ==
  /\ Spend("reactivate") /\ q.active /\ q.idx > 0 /\ ~busy
  /\ \E t \in FreeTask : PlayCurrent(t, "play", q)
  /\ UNCHANGED <<again, cnt, seen, lost, flow, world>>

-----------------------------------------------------------------------------
(* The stream the device pulls, the device, the link, the group.           *)

\* One stream of several songs, made of a queue that plays in order.  It ends
\* by itself, or another one takes the device and the end of the old one
\* deletes the mark of the new one.
SetFlowOwned ==
  /\ Spend("flow") /\ flow' = ~flow
  /\ flow' => q.mode = "order" /\ Len(q.items) >= 2
  /\ UNCHANGED <<core, judged, seen, lost, mark, world>>

\* The stream passes from one song to another; the device is told nothing.
FlowAdvance(i) ==
  /\ flow /\ i <= Len(q.items) /\ (i # q.idx \/ q.ended)
  /\ q' = [q EXCEPT !.idx = i, !.ended = FALSE]
  /\ UNCHANGED <<busy, task, judged, seen, lost, mark, flow, world, events>>

\* The song comes near its end; it ends, or the device stops by itself.
DeviceMoves ==
  /\ dev.st = "playing"
  /\ \/ ~dev.near /\ dev' = [dev EXCEPT !.near = TRUE]
     \/ dev' = [st |-> "idle", song |-> NoSong, near |-> FALSE]
  /\ UNCHANGED <<core, judged, seen, lost, mark, flow, halt, link, online, grouped, dead, events>>

\* The pause watchdog of the sendspin engine: thirty seconds of pause, longer
\* than any question put to the device before it.
PauseWatchdog ==
  /\ "watchdog" \in Events /\ dev.st = "paused" /\ \A t \in Tasks : ~At(t, "recheck")
  /\ dev' = [st |-> "idle", song |-> NoSong, near |-> FALSE]
  /\ mark' = [mark EXCEPT !.pause = TRUE]
  /\ UNCHANGED <<core, judged, seen, lost, flow, halt, link, online, grouped, dead, events>>

LinkChanges ==
  /\ Spend("link") /\ link' = ~link
  /\ UNCHANGED <<core, judged, seen, lost, mark, flow, dev, halt, online, grouped, dead>>

TargetChanges ==
  /\ Spend("target") /\ online' = ~online
  /\ UNCHANGED <<core, judged, seen, lost, mark, flow, dev, halt, link, grouped, dead>>

GroupChanges ==
  /\ Spend("group") /\ grouped' = ~grouped
  /\ UNCHANGED <<core, judged, seen, lost, mark, flow, dev, halt, link, online, dead>>

-----------------------------------------------------------------------------
TaskStep(t) == \/ Judge(t) \/ CastDelivered(t) \/ CastFailed(t) \/ SeekEnds(t)
               \/ RecheckedIdle(t) \/ RecheckedStall(t) \/ RecheckedFreeze(t)
               \/ CameHome(t) \/ CameBack(t)

Timers == \/ Evaluate \/ WindowTimeout \/ StalledMacrotask
          \/ TickStalled \/ TickFrozen \/ TickEnd \/ SeekSettles

Users == \/ \E list \in Lists, i \in 1..Cardinality(Songs) : PlayFrom(list, i)
         \/ \E i \in 1..Cardinality(Songs) : JumpTo(i) \/ RemoveAt(i)
         \/ NextSong \/ PrevSong
         \/ \E m \in Modes : SetPlayMode(m)
         \/ \E s \in Songs : Enqueue(s)
         \/ \E i, j \in 1..Cardinality(Songs) : Reorder(i, j)
         \/ Clear \/ StopPlayback \/ ResumePlayback \/ Pause \/ ResumeActive
         \/ \E near \in BOOLEAN : Seek(near)

World == \/ SetFlowOwned \/ \E i \in 1..Cardinality(Songs) : FlowAdvance(i)
         \/ DeviceMoves \/ PauseWatchdog \/ LinkChanges \/ TargetChanges \/ GroupChanges

Next == \/ \E t \in Tasks : TaskStep(t) \/ CastReaches(t)
        \/ HaltEnds \/ Pushed \/ Poll \/ Timers \/ Users \/ World

Spec == Init /\ [][Next]_vars

\* Timers fire, polls are made, and every call over the network is answered or
\* timed out.
LiveSpec ==
  /\ Spec
  /\ WF_vars(Poll) /\ WF_vars(HaltEnds)
  /\ WF_vars(Evaluate) /\ WF_vars(WindowTimeout) /\ WF_vars(StalledMacrotask)
  /\ WF_vars(TickStalled) /\ WF_vars(SeekSettles)
  /\ \A t \in Tasks : WF_vars(TaskStep(t))

-----------------------------------------------------------------------------
(* Properties.                                                             *)

\* A queue with songs stands at one of them, and a queue in shuffle mode never
\* holds an order that names a song it does not have: whatever was removed,
\* added or replaced while a song was being changed.
QueueSound ==
  /\ q.idx <= Len(q.items)
  /\ (q.idx = 0) <=> (q.items = <<>>)
  /\ q.pos <= Len(q.order)
  /\ \A i, j \in DOMAIN q.order : q.order[i] = q.order[j] => i = j

\* Whatever ends a call leaves nothing of it behind.  `advancing' never outlives
\* the call that set it: the device would not be polled again and no decision
\* would be taken any more.  And an optimistic window without a timer belongs to
\* a cast that is still under way: nobody else would close it, and it hides
\* every IDLE of the device (the ends of playCurrent and recoverInPlace).
NothingLeftBehind ==
  /\ busy => \E t \in Tasks : Owning(t)
  /\ window = "open" => Casting

\* Nobody asked for anything in this step.
Quiet == events' = events

\* In shuffle mode a change of song takes the place in the shuffle order along,
\* whoever makes it: the clients show the order the server keeps.  A stream of
\* several songs, begun before the mode was changed, goes on in its own order.
SongMovesWithCursor ==
  [][~flow /\ q.mode = "shuffle" /\ q'.mode = "shuffle" /\ q'.idx \notin {0, q.idx}
       /\ Len(q'.order) = Len(q'.items)
     => q'.order[q'.pos] = q'.idx]_vars

\* The stop that follows thirty seconds of pause does not move the queue while
\* the song was not near its end and its pause was seen: neither the report of
\* IDLE, nor the question put to the device after it, nor the alarm of the
\* tracker may take it for an end.
PauseHeld ==
  [][mark.pause /\ q.active /\ Quiet /\ trk.dur /\ trk.last # "near" /\ trk.prev # "playing"
     => q'.idx = q.idx]_vars

\* The same wherever the song was paused, as pauseStopSettle.ts has it: the
\* queue is moved by the end of a song, never by a pause that lasted.
PauseNeverAdvances == [][mark.pause /\ q.active /\ Quiet => q'.idx = q.idx]_vars

\* Putting the songs in another order does not change what is playing, whichever
\* song was moved: the device goes on with the song it has.
ReorderKeepsSong ==
  [][(\E i, j \in 1..Cardinality(Songs) : Reorder(i, j)) => Current(q', NoSong) = Here]_vars

\* A queue the user stopped stays at its song until the user goes on.
StoppedStays == [][~q.active /\ Quiet => q'.idx = q.idx]_vars

\* While the device cannot be reached no decision is taken.
LostDecidesNothing == [][lost /\ Quiet => q'.idx = q.idx]_vars

\* A source that never plays is not cast again and again for ever: the queue
\* moves on, and a row of such songs stops it.
DeadSourceMovesOn == ([]<>Casting) => ([]<>(dev.st = "playing"))

\* The change of a song ends, whatever the device and the other calls do.
ChangeEnds == busy ~> ~busy

\* An active queue whose device stands still is noticed and cast again.
Stands == /\ q.active /\ q.idx > 0 /\ dev.st = "idle" /\ ~busy
          /\ link /\ online /\ ~grouped /\ ~mark.pause /\ ~gaveUp
StandsIsNoticed == Stands ~> (~Stands \/ Casting)
==============================================================================
