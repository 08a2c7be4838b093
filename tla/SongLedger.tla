----------------------------- MODULE SongLedger -----------------------------
(***************************************************************************)
(* What the download pipeline remembers of its failures, and the songs it  *)
(* removes for them.  fetch_download_attempts counts the failures that     *)
(* say "this song does not exist" since the song's last success; rows that *)
(* were not touched for LedgerWindow days are dropped with the next record *)
(* of any song.  fetch_library_attempts keeps the plan of the automatic    *)
(* batches off a song for LibraryWindow days.  A run of the pipeline that  *)
(* ends either finds that its sources are down and takes its failures      *)
(* back, or removes every song whose count has reached Threshold.          *)
(*                                                                         *)
(* Each run is a process of its own; the tables are shared.                *)
(***************************************************************************)
EXTENDS Integers, FiniteSets

CONSTANTS
  Songs,          \* the rows of the library, by rowid: 1, 2, ...
  Runs,           \* BOUND: the runs of the pipeline at a time
  DeadSongs,      \* songs no source has
  Threshold,      \* deadSongPurgeThreshold
  LibraryWindow,  \* libraryCooldownDays
  LedgerWindow,   \* downloadCooldownDays
  BatchLimit,     \* libraryBatchLimit
  OutageMin,      \* SOURCE_OUTAGE_MIN_TRIED
  MaxPurge,       \* MAX_PURGE_PER_RUN
  MaxEvents       \* BOUND: jobs by hand, stops, deaths, failed migrations

ASSUME LedgerAssumption ==
  /\ Songs \subseteq Nat /\ IsFiniteSet(Songs) /\ IsFiniteSet(Runs)
  /\ DeadSongs \subseteq Songs
  /\ Threshold \in Nat \ {0} /\ LibraryWindow \in Nat \ {0} /\ LedgerWindow \in Nat \ {0}
  /\ BatchLimit \in Nat \ {0} /\ OutageMin \in Nat \ {0} /\ MaxPurge \in Nat \ {0}
  /\ MaxEvents \in Nat

VARIABLES
  lib,      \* the row of the song: a web song, a local file, removed, removed and
            \*   there again as a file of its own, or a web song beside such a file
  tried,    \* days since the row of fetch_library_attempts, LibraryWindow: none that counts
  ledger,   \* the row of fetch_download_attempts
  run,      \* the runs
  rested,   \* the chain of automatic batches is over for today
  proven,   \* history: failures since the last success that stand, up to Threshold
  held,     \* history: failures of a run that may still be taken back
  events    \* left

tables  == <<lib, tried, ledger>>
history == <<proven, held>>
vars    == <<tables, run, rested, history, events>>

Verdicts == {"done", "dead", "flaky"}
NoRow    == [last |-> "none", age |-> 0, fails |-> 0]
IdleRun  == [phase |-> "idle", kind |-> "job", todo |-> {}, flight |-> {}, pending |-> {},
             done |-> {}, flaky |-> {}, dead |-> {}, doomed |-> {}, purged |-> 0]

LedgerRow == [last : Verdicts \cup {"none"}, age : 0..LedgerWindow, fails : Nat]
RunState  == [phase : {"idle", "work", "rollback", "purge"}, kind : {"auto", "job"},
              todo : SUBSET Songs, flight : SUBSET Songs, pending : SUBSET Songs,
              done : SUBSET Songs, flaky : SUBSET Songs, dead : SUBSET Songs,
              doomed : SUBSET Songs, purged : Nat]

TypeOK ==
  /\ lib \in [Songs -> {"web", "local", "gone", "back", "both"}]
  /\ tried \in [Songs -> 0..LibraryWindow]
  /\ ledger \in [Songs -> LedgerRow]
  /\ run \in [Runs -> RunState]
  /\ rested \in BOOLEAN
  /\ proven \in [Songs -> 0..Threshold]
  /\ held \in [Runs -> SUBSET Songs]
  /\ events \in 0..MaxEvents

Init ==
  /\ lib = [s \in Songs |-> "web"]
  /\ tried = [s \in Songs |-> LibraryWindow]
  /\ ledger = [s \in Songs |-> NoRow]
  /\ run = [r \in Runs |-> IdleRun]
  /\ rested = FALSE
  /\ proven = [s \in Songs |-> 0]
  /\ held = [r \in Runs |-> {}]
  /\ events = MaxEvents

-----------------------------------------------------------------------------
(* The two tables. *)

\* (fault) a success leaves the count alone
SuccessKeepsCount(row, verdict) ==
  [last |-> verdict, age |-> 0, fails |-> IF verdict = "dead" THEN row.fails + 1 ELSE row.fails]

\* (fault) a record replaces the row instead of adding to it
RecordReplaces(row, verdict) ==
  [last |-> verdict, age |-> 0, fails |-> IF verdict = "dead" THEN 1 ELSE 0]

\* What the record of a try makes of the song's row.
Upsert(row, verdict) ==
  [last  |-> verdict, age |-> 0,
   fails |-> CASE verdict = "done" -> 0
               [] verdict = "dead" -> row.fails + 1
               [] OTHER            -> row.fails]

\* recordDownloadAttempt: the record, and the rotation in the same transaction.
Recorded(s, verdict) ==
  [t \in Songs |-> IF t = s THEN Upsert(ledger[s], verdict)
                   ELSE IF ledger[t].age >= LedgerWindow THEN NoRow ELSE ledger[t]]

Existing(s) == lib[s] \in {"local", "back", "both"}
IsWeb(s)    == lib[s] \in {"web", "both"}

\* shouldSkipByCooldown, but for the download that never reached the library.
Cooling(s) ==
  /\ ledger[s].last \in {"done", "flaky"} /\ ledger[s].age < LedgerWindow
  /\ ~(ledger[s].last = "done" /\ IsWeb(s))

Pool == {s \in Songs : IsWeb(s) /\ tried[s] >= LibraryWindow}

\* buildLibraryPlan: the first songs of the pool.
LibraryPlan == {s \in Pool : Cardinality({t \in Pool : t < s}) < BatchLimit}

Doomed == {s \in Songs : ledger[s].fails >= Threshold}

-----------------------------------------------------------------------------
(* The runs. *)

Working(r) == run[r].phase = "work"
AllIdle    == \A r \in Runs : run[r].phase = "idle"

RunIs(r, w) == run' = [run EXCEPT ![r] = w]

Starts(r, plan, kind) ==
  /\ run[r].phase = "idle" /\ plan # {}
  /\ RunIs(r, [IdleRun EXCEPT !.phase = "work", !.kind = kind, !.todo = plan])

\* The next automatic batch.  It gives way to any other job.
StartLibrary(r) ==
  /\ AllIdle /\ ~rested
  /\ Starts(r, LibraryPlan, "auto")
  /\ UNCHANGED <<tables, rested, history, events>>

\* A job by hand: named songs, a batch, the retry of an old job, a job resumed.
\* Its songs are those of its row, whatever has become of them.
StartJob(r) ==
  /\ events > 0 /\ events' = events - 1
  /\ \E plan \in SUBSET Songs : Starts(r, plan, "job")
  /\ UNCHANGED <<tables, rested, history>>

\* processTarget of a song that is skipped: only a song that is there is a try.
Skip(r, s) ==
  /\ Working(r) /\ s \in run[r].todo
  /\ Existing(s) \/ Cooling(s)
  /\ RunIs(r, [run[r] EXCEPT !.todo = @ \ {s}])
  /\ tried' = IF Existing(s) THEN [tried EXCEPT ![s] = 0] ELSE tried
  /\ UNCHANGED <<lib, ledger, rested, history, events>>

\* processTarget of a song that is looked for.
Begin(r, s) ==
  /\ Working(r) /\ s \in run[r].todo
  /\ ~Existing(s) /\ ~Cooling(s)
  /\ RunIs(r, [run[r] EXCEPT !.todo = @ \ {s}, !.flight = @ \cup {s}])
  /\ UNCHANGED <<tables, rested, history, events>>

\* A download succeeds: it is recorded at once, and waits for the next flush.
Succeeds(r, s) ==
  /\ Working(r) /\ s \in run[r].flight \ DeadSongs
  /\ RunIs(r, [run[r] EXCEPT !.flight = @ \ {s}, !.done = @ \cup {s}, !.pending = @ \cup {s}])
  /\ ledger' = Recorded(s, "done")
  /\ proven' = [proven EXCEPT ![s] = 0]
  /\ held' = [q \in Runs |-> held[q] \ {s}]
  /\ UNCHANGED <<lib, tried, rested, events>>

\* It fails because no source has it.
FailsForGood(r, s) ==
  /\ Working(r) /\ s \in run[r].flight
  /\ RunIs(r, [run[r] EXCEPT !.flight = @ \ {s}, !.dead = @ \cup {s}])
  /\ ledger' = Recorded(s, "dead")
  /\ tried' = [tried EXCEPT ![s] = 0]
  /\ held' = [held EXCEPT ![r] = @ \cup {s}]
  /\ UNCHANGED <<lib, rested, proven, events>>

\* It fails for another reason.
FailsForNow(r, s) ==
  /\ Working(r) /\ s \in run[r].flight \ DeadSongs
  /\ RunIs(r, [run[r] EXCEPT !.flight = @ \ {s}, !.flaky = @ \cup {s}])
  /\ ledger' = Recorded(s, "flaky")
  /\ tried' = [tried EXCEPT ![s] = 0]
  /\ UNCHANGED <<lib, rested, history, events>>

\* flush, song by song: the new file takes over the row of the song, if it is
\* still there.  scanBatchSize is abstracted: a flush may come at any time.
Flush(r, s) ==
  /\ Working(r) /\ s \in run[r].pending
  /\ RunIs(r, [run[r] EXCEPT !.pending = @ \ {s}])
  /\ lib' = [lib EXCEPT ![s] = CASE IsWeb(s) -> "local" [] @ = "gone" -> "back" [] OTHER -> @]
  /\ tried' = [tried EXCEPT ![s] = 0]
  /\ UNCHANGED <<ledger, rested, history, events>>

\* The scan and the migration of a file fail: the row stays what it was; or the
\* migration alone: the file has a row of its own beside that of the web song.
FlushFails(r, s) ==
  /\ events > 0 /\ events' = events - 1
  /\ Working(r) /\ s \in run[r].pending
  /\ RunIs(r, [run[r] EXCEPT !.pending = @ \ {s}])
  /\ lib' \in {lib, [lib EXCEPT ![s] = IF @ = "web" THEN "both" ELSE @]}
  /\ tried' = [tried EXCEPT ![s] = 0]
  /\ UNCHANGED <<ledger, rested, history>>

-----------------------------------------------------------------------------
(* The end of a run: settleDeadSongs. *)

Outage(w) ==
  /\ Cardinality(w.dead \cup w.flaky) >= OutageMin
  /\ w.done = {}
  /\ 2 * Cardinality(w.dead) >= Cardinality(w.dead \cup w.flaky)

\* What is left of a run w once it has nothing more to take back or to remove.
Left(w) ==
  IF (w.phase = "rollback" /\ w.dead = {}) \/ (w.phase = "purge" /\ w.doomed = {})
    THEN IdleRun ELSE w

\* A batch of the chain in which nothing was tried ends the chain for today.
ChainEnds(w) == w.kind = "auto" /\ w.done \cup w.dead \cup w.flaky = {}

Settle(r) ==
  LET w == run[r] IN
  /\ Working(r) /\ w.todo \cup w.flight \cup w.pending = {}
  /\ rested' = (rested \/ ChainEnds(w))
  /\ IF Outage(w)
       THEN /\ RunIs(r, [w EXCEPT !.phase = "rollback"])
            /\ UNCHANGED history
       ELSE /\ RunIs(r, Left([w EXCEPT !.phase = "purge", !.doomed = Doomed]))
            /\ proven' = [s \in Songs |-> IF s \in held[r] /\ proven[s] < Threshold
                                            THEN proven[s] + 1 ELSE proven[s]]
            /\ held' = [held EXCEPT ![r] = {}]
  /\ UNCHANGED <<tables, events>>

\* (fault) the count has no floor
NoFloor(row) == [row EXCEPT !.fails = @ - 1]

\* rollbackPermanentFailure of one song of an outage.
TakenBack(row) == [row EXCEPT !.fails = IF @ > 0 THEN @ - 1 ELSE 0]

RollBack(r, s) ==
  /\ run[r].phase = "rollback" /\ s \in run[r].dead
  /\ ledger' = [ledger EXCEPT ![s] = TakenBack(@)]
  /\ RunIs(r, Left([run[r] EXCEPT !.dead = @ \ {s}]))
  /\ held' = [held EXCEPT ![r] = @ \ {s}]
  /\ UNCHANGED <<lib, tried, rested, proven, events>>

\* purgeDeadSongs, one song of the list read before: a row that is no web song
\* keeps its file and loses its count.  The order of the list is abstracted.
Remove(r, s) ==
  /\ run[r].phase = "purge" /\ s \in run[r].doomed /\ run[r].purged < MaxPurge
  /\ lib' = [lib EXCEPT ![s] = CASE @ = "web" -> "gone" [] @ = "both" -> "back" [] OTHER -> @]
  /\ ledger' = [ledger EXCEPT ![s] = NoRow]
  /\ RunIs(r, Left([run[r] EXCEPT !.doomed = @ \ {s},
                                   !.purged = IF IsWeb(s) THEN @ + 1 ELSE @]))
  /\ UNCHANGED <<tried, rested, history, events>>

\* The rest is left to the next run.
Defer(r) ==
  /\ run[r].phase = "purge" /\ run[r].purged >= MaxPurge
  /\ RunIs(r, IdleRun)
  /\ UNCHANGED <<tables, rested, history, events>>

-----------------------------------------------------------------------------
(* What happens to a run, and time. *)

\* The user stops the job: songs that have not begun are cancelled, and those
\* under way too if the stop is a complete one and finds them in time.  The
\* run still flushes and settles.
StopJob(r) ==
  /\ events > 0 /\ events' = events - 1
  /\ Working(r)
  /\ \E on \in SUBSET run[r].flight : RunIs(r, [run[r] EXCEPT !.todo = {}, !.flight = on])
  /\ rested' = (rested \/ run[r].kind = "auto")
  /\ UNCHANGED <<tables, history>>

\* The process dies: what it had not flushed, settled or removed stays undone.
Dies(r) ==
  /\ events > 0 /\ events' = events - 1
  /\ run[r].phase # "idle"
  /\ RunIs(r, IdleRun)
  /\ proven' = [s \in Songs |-> IF s \in held[r] /\ proven[s] < Threshold
                                  THEN proven[s] + 1 ELSE proven[s]]
  /\ held' = [held EXCEPT ![r] = {}]
  /\ UNCHANGED <<tables, rested>>

\* The user empties fetch_library_attempts.
ResetLibraryAttempts ==
  /\ events > 0 /\ events' = events - 1
  /\ tried' = [s \in Songs |-> LibraryWindow]
  /\ UNCHANGED <<lib, ledger, run, rested, history>>

\* A day goes by.  Assumed: not while a run is under way, nor before the daily
\* batches are through.
Day ==
  /\ AllIdle /\ (rested \/ Pool = {})
  /\ tried' = [s \in Songs |-> IF tried[s] < LibraryWindow THEN tried[s] + 1 ELSE tried[s]]
  /\ ledger' = [s \in Songs |-> IF ledger[s].last # "none" /\ ledger[s].age < LedgerWindow
                                  THEN [ledger[s] EXCEPT !.age = @ + 1] ELSE ledger[s]]
  /\ rested' = FALSE
  /\ UNCHANGED <<lib, run, history, events>>

SongStep(r, s) ==
  \/ Skip(r, s) \/ Begin(r, s)
  \/ Succeeds(r, s) \/ FailsForGood(r, s) \/ FailsForNow(r, s)
  \/ Flush(r, s) \/ RollBack(r, s) \/ Remove(r, s)

RunStep(r) == (\E s \in Songs : SongStep(r, s)) \/ Settle(r) \/ Defer(r)

Trouble(r) ==
  \/ StartJob(r) \/ StopJob(r) \/ Dies(r)
  \/ \E s \in Songs : FlushFails(r, s)

Next ==
  \/ \E r \in Runs : RunStep(r) \/ StartLibrary(r) \/ Trouble(r)
  \/ ResetLibraryAttempts
  \/ Day

Spec == Init /\ [][Next]_vars

FairSpec ==
  /\ Spec
  /\ \A r \in Runs : WF_vars(RunStep(r))
  /\ WF_vars(\E r \in Runs : StartLibrary(r))
  /\ WF_vars(Day)

-----------------------------------------------------------------------------
(* Properties. *)

\* The runs whose failure of song s counts but may still be taken back.
Revocable(s) == {r \in Runs : s \in held[r]}

\* The count of a song never says more than happened: there were as many
\* failures for good since its last success, none of them taken back, however
\* records, rotations, roll-backs and removals of several runs fall.
CountsAreEvidence ==
  \A s \in Songs : \/ proven[s] = Threshold
                   \/ ledger[s].fails <= proven[s] + Cardinality(Revocable(s))

\* A run puts a song on its list of songs to remove only if the song has failed
\* for good Threshold times since its last success (purgeDeadSongs after any
\* number of crashes, stops, retries and outages).
ListedIsProven ==
  [][\A r \in Runs : \A s \in run'[r].doomed \ run[r].doomed :
       proven'[s] + Cardinality(Revocable(s)') >= Threshold]_vars

\* A song no source has leaves the library, unless outages are recognised again
\* and again: permanent failures are tried again every round so that the count
\* gets there (attempts.ts, shouldSkipByCooldown).
DeadSongsLeave ==
  (<>[](\A r \in Runs : run[r].phase # "rollback")) =>
    \A s \in DeadSongs : (lib[s] = "web") ~> (lib[s] = "gone")

\* The row of a web song is removed.
Removed(s) == IsWeb(s) /\ lib'[s] \in {"gone", "back"}

\* A song is removed only for failures that stand: none of a run that may still
\* turn out to have met an outage (settleDeadSongs).
RemovedIsProven ==
  [][\A s \in Songs : Removed(s) => proven[s] = Threshold]_vars

\* A song whose last download succeeded is not removed for failures before it
\* (purgeDeadSongs works through a list that may be old).
DownloadedStays ==
  [][\A s \in Songs : Removed(s) => ledger[s].last # "done"]_vars

=============================================================================
