# MusicFlow: a verification project

MusicFlow is a self-hosted music server. The backend (`src/backend/src`, TypeScript on Node, Hono and SQLite)
serves a web client, the Subsonic protocol, and a set of renderers (DLNA, AirPlay, Sendspin); it scans a
library, runs plugins in sandboxes, and downloads songs in the background. This directory holds TLA+ modules
translated from that code, TLC configurations that check them on small instances, and TLAPS proofs.

1. [Inventory](#1-inventory) – 2. [Plan](#2-plan) – 3. [Modules](#3-modules) – 4. [Runs](#4-runs) –
5. [Bounds](#5-bounds) – 6. [Fairness](#6-fairness) – 7. [Proofs](#7-proofs) – 8. [Findings](#8-findings) –
9. [Observed disagreements](#9-observed-disagreements) – 10. [What is left out](#10-what-is-left-out)

All paths below are relative to `src/backend/src`.

## 1. Inventory

The process model first, since it decides what can interleave with what. The server is one Node process: code
between two `await`s runs alone. Work that would block it goes to *batch children* (`batch/child.ts`), forked
one per call of `runBatchJob`; they open the same SQLite file and write it directly, so their steps interleave
with the server's. Renderers run in further child processes (`services/rendererHost`) and plugins in worker
threads. In a container Node is process 1, so a crash takes the batch children along.

| Component | State it keeps | Operations | Interacts with | What is hard | What makes it correct |
|---|---|---|---|---|---|
| Download jobs `services/fetch/jobRunner`, `jobStore`, `autoSession`, the two schedulers | rows of `fetch_jobs`, session marks in `settings`, map `controllers`, one async loop per running job | start, drain, hard stop, settle, continue the chain, scheduler tick, boot resume | batch children (IPC + table), batch gate, routes | stop racing the end, crash and resume, giving way, chains that must end | one loop per job, no zombie row, verdicts and settled songs stay, stops end chains |
| Download routes `routes/api/fetch.ts` | none of its own | create, retry, cancel, force-stop, delete, clear, batches, switches, resets | download jobs | requests at any moment, also during boot | a stop reaches the loop; named jobs leave the chain alone |
| Batch child `batch/runner`, `child` | one call: settled, aborted, watchdog, kill timer | fork, run, progress, result, error, exit, abort, drain | gate, handlers | exit against result, kill timer, watchdog against heartbeat | settles once, releases the gate once |
| Batch handlers `batch/jobs.ts` | reads and writes rows | `fetchHandler` per chunk, scans, wishes, tag repair | pipeline, tables | crash in the middle of a chunk, stale copies of the row | resumed chunk repeats nothing, counts agree with items |
| Pipeline `services/fetch/orchestrator`, `library`, `upgrade` | per-run queue, write buffer | plan, admit, run one song, flush, migrate rows | limiter, sources, library | cancellation before or during a song, buffered results | every admitted song ends in an outcome |
| Batch gate `services/plugin/batchPacer` | holders, queue, limit, floor, parallel plugins | acquire, release, change limit | every batch call | limit lowered under holders, releases on every path | never above the limit when admitting, first come first served, no idle slot with a queue |
| Cooldown tables `services/fetch/attempts`, `deadSongPurge` | attempts, fail counts | record, rotate, reset, purge | plans | rotation against thresholds | a song is removed only after the failures that justify it |
| Rate limits `services/fetch/limiter` | semaphore, lanes per host | run, pump, evict | pipeline | eviction of a host in use, abort while queued | per-host concurrency and spacing |
| Import trigger `services/fetch/importTrigger` | pending ids in `settings`, timer | notify, debounce, fire | jobs | crash between clearing and creating | no notified song is lost |
| Playback queue `services/player/QueueController` | per player: items, index, shuffle order, `advancing`, streaks, active/ended | play, next, prev, enqueue, remove, reorder, clear, tracker decisions, persist, resume | tracker, renderers, tables | awaits in the middle of decisions, two drivers at once | index inside the queue, one cast at a time, a stopped queue stays stopped |
| Tracker and controller `services/player/*` | last state, optimistic window, settle marks | classify state, poll, seek, pause | queue, renderers | late confirmations, timeouts | one decision per change of track |
| Groups `services/group` | membership, leader, watchdog | join, leave, fan out, re-sync | players | member lost while a command fans out | commands reach every member that is still in |
| Renderer hosts `services/rendererHost`, supervisors | child state, pending RPCs, back-off | spawn, call, restart | Sendspin, AirPlay | restart with calls in flight | every call answered or failed once |
| Sendspin, AirPlay, DLNA | sessions, buffers, clocks | handshake, stream, seek, stop | players, caches | real time | session lifecycle |
| Bridge routes `services/group/protocolPlayer`, `airplay/control`, `bridgeSession`, `sendspin/bridgeAttach` | route of a group and owner of a device (server), sessions (AirPlay process), handles (pump) | prepare, play, resume, stop, join, leave, rebuild, reconcile | two child processes | no operation changes all four tables; late handshakes; a reconciler that reads across awaits | failed plays and stops leave no route, orphans go, nothing in the making is reaped |
| Stream caches, transcoding | entries, in-flight loads, slots | get, fill, evict, acquire slot | routes, renderers | eviction in use, slot leaks | bounded size, one load per key |
| Library scan, plugin tasks, auto match | active runs, task registry, locks | start, progress, finish, cancel | batch children | duplicate starts, lock timeouts | one run per source or playlist |
| Plugin runtime, online sources, recommendations, covers, lyrics | registries, worker calls | load, call, reload | everything | third-party code, I/O | – |
| Sockets, REST/Subsonic routes, authentication, database, frontend | – | request and response | everything | – | – |

`PROJECT.json` lists each of these with its status, and every hazard at the line where it bites.

## 2. Plan

The order follows how much a component promises and how hard that is to test.

| | Modules | State |
|---|---|---|
| 1 | `FetchJobs`, `MCFetchJobs`, `FetchJobsProofs`, `FetchServiceProofs`, `FetchItemsProofs` – the life of a download job and of a chain | done |
| 2 | `BatchGate`, `BatchLock`, `MCBatchGate`, `BatchGateProofs` – the gate with a changing limit and `runBatchJob` around it; it implements the abstract lock `FetchJobs` relies on | done |
| 3 | `PlayQueue`, `ShuffleOrder`, `MCPlayQueue`, `PlayQueueProofs` – the queue of a player with the tracker that drives it | done |
| 4 | `RendererHost`, `RendererHostProofs` – the supervisor of the renderer processes | done |
| 5 | `BridgeRoutes`, `BridgeRoutesProofs` – the AirPlay bridges of a group over three processes | done |
| 6 | `SongLedger`, `MCSongLedger`, `SongLedgerProofs` – failures, cooldowns and the removal of dead songs | done |
| 7 | `FetchLimiter`, `ImportTrigger`, `AutoMatch` – lanes per host and their eviction, the debounce queue with crashes, the lock with a time limit | open |
| 8 | slot pool, prefetch cache, async tasks and scan runner, group membership and drift watchdog | open |
| 9 | an abstract job (submitted, working, ended) that `FetchJobs` implements | open |

Every safety property of the passing runs has a theorem (section 7). Further theorems planned: that `FetchJobs`
implements the abstract job of row 9, and that the entries of the queue's shuffle order name the songs they were made for, as
far as the code keeps it.

## 3. Modules

Definitions marked “(fault)” in a comment are plausible mistakes; they are used by nothing but the mutants of
`PROJECT.json`. `MC...` modules only give constants their values (`RendererHost` and `BridgeRoutes` need none, their configurations
name them directly), `...Proofs` modules only hold theorems.

### FetchJobs

One module for the job loop, the child of one chunk and the chain, because every interesting behaviour involves
all three. Its state and the code's:

| Variable | Code |
|---|---|
| `row` | table `fetch_jobs`: status, kind, `targets`, items, counts; `auto` is “no `noAutoContinue`”, `lib` is “a library job or a retry of one”, whose songs are recorded in the library's cooldown table |
| `session` | `fetch.<flow>.auto.session` in `settings` |
| `autoOn`, `contOn`, `due` | `<flow>AutoEnabled`, `<flow>AutoContinue`, interval and time of day reached |
| `attempted` | songs of `fetch_library_attempts` / `fetch_upgrade_attempts` inside their cooldown |
| `owned` | songs whose library row points at a downloaded file (for the upgrade flow: at the better file) |
| `writable` | the preflight of `startFetchJob` would pass |
| `ctl` | the map `controllers` |
| `loop[n]` | one `for(;;)` of `startFetchJob`: its job, chunk, where it waits, its two `AbortController`s |
| `child[n]` | the `runBatchJob` call of that loop: copies of items and counts read at the start of the chunk, outcomes so far, stop messages received, result |
| `phase` | process down, up before the boot resume, up after it |
| `events` | bound: environment events left |
| `stopAsked` | history: jobs the user asked to stop while a loop drove them |

Actions of the server process: `Grant` (the gate admits, the child is forked), `ParentResult`, `ParentExit`,
`Wake` (after `sleepBetweenBatch`), each running to its next `await`. Whichever of them leaves the loop performs
`Settle`, the whole `finally` block: final status, `controllers.delete`, the continue hook, and if the hook
opens the next batch, plan, row, cooldown records, start and session mark, all in that one step as in the code.
`SchedulerTick` is one pass of `startLibraryScheduler` or `startUpgradeScheduler`. `Boot` and
`ResumeInterruptedFetchJobs` are the two halves of a start, 60 seconds apart: schedulers and requests run in
between. The child's actions are `ChildStart` (handler entry up to the pipeline), `ItemEnd`, `Flush`,
`ChunkSave`, `ChunkStatus` (two separate writes in the code, so a crash or death fits between them) and
`DeliverStop`. The user's are one action per route; a retry (`RetryTask`) takes any
of the old job's songs that are not done, which covers the list a request may name as well as “all” and
“only failed”. `Crash`, `ChildDies`, `Remount` and `ComeDue` are the
environment.

Data is abstracted to what the properties tell apart. A song is a number, its place in the plan's order. A
pipeline run of a song is one outcome: `done`, `failed`, `skipped` or `cooling` (`COOLDOWN_SKIPPED`, reported as
skipped and not recorded as an attempt). A successful song is buffered and reaches the row with the next
`Flush`; others reach it at once.

`MCFetchJobs` adds the symmetry of job and loop identities; `FetchJobsProofs`,
`FetchServiceProofs` and `FetchItemsProofs` hold the theorems.

### BatchGate and BatchLock

`BatchLock` says what callers of `acquireBatchLock` rely on, in four lines: they wait, they are let in, never
beyond the limit of the moment, and a lower limit throws nobody out. `BatchGate` is the code: `limit`, `floor`,
`parallel`, `holders`, `pending` and `queue` are the module variables of `batchPacer.ts` (`batchLimit`,
`batchFloor`, `batchParallelIds`, `holders`, `pendingLocks`, `lockQueue`), `call[c]` is one call of `runBatchJob`
with its signal and timers, `child[c]` its process. `Pump` is `pumpLock`, its loop written as “the first
`Room(...)` of the queue”; `Acquire`, `Release`, `EnsureBaseBatchLimit`, `RegisterBatchWorker` and
`UnregisterBatchWorker` end with it as the functions of that name do. Between the moment a call's promise is
resolved and the moment it goes on (`granted`) other code runs, so `Fork` is an action of its own, as is
`Release`, which runs in a `finally` after the promise of the child was decided. `BatchGate` implements `BatchLock`
(`ImplementsLock`). The `Grant` of `FetchJobs` is a stand-in for the gate, a loop that waits is let in below the
limit, and asks no more of it than `BatchLock` promises.

### PlayQueue and ShuffleOrder

`PlayQueue` is one device: `QueueController` with the parts of `PlayerController` (optimistic window, debounce),
`PlaybackTracker` (what a report means, the alarms) and the two settle marks that drive it, and the routes a user
works it by. `ShuffleOrder` holds the pure part, the choice of the next song, as operators on a queue record.

| Variable | Code |
|---|---|
| `q` | `QueueData`: items, `currentIndex` (from 1; 0 is -1), mode, active, ended, `shuffleOrder`, `shufflePos` |
| `busy` | the device is in `advancing` |
| `task[t]` | a call that awaits: the verdict of `judgePlayable`, a cast, a seek, or the state of the device; with the number of songs it skipped and the song it holds |
| `again` | the macrotask in which a failed cast repeats `handleDecision("stalled")` |
| `window` | the optimistic window of `PlayerController`: off, open without a timer, open with one |
| `trk`, `pending` | `PlaybackTracker` of the device, the decision in the debounce |
| `lost`, `mark`, `cnt`, `flow` | `linkLost`, seek and pause marks, the counters of stalls, failed casts and dead repeats, `flowOwned` |
| `gaveUp` | history: the last attempt ended in `reportAllUnplayable` |
| `dev`, `halt`, `link`, `online`, `grouped`, `dead` | the world: what the device does, a stop on its way to it, the link, availability, group playback, songs without a source |

A stretch of code without an `await` is one action; what a call does after an `await` is another action that
sees the state of then. So `Judge`, `CastDelivered`, `CastFailed`, `SeekEnds`, `Rechecked...`, `CameHome` and
`CameBack` are the continuations, `Evaluate`, `WindowTimeout` and `Tick...` the timers, `Pushed` and `Poll` the
reports, and the user's actions are one per route (`PlayFrom`, `JumpTo`, `NextSong`, `PrevSong`, `SetPlayMode`,
`Enqueue`, `RemoveAt`, `Reorder`, `Clear`, `StopPlayback`, `ResumePlayback`, `Pause`, `Seek`). Positions are
“near the end” or not; times are the order in which timers fire. A stream of several songs (`SetFlowOwned`) is
begun in mode `order` only, as in the code.

### RendererHost

`RendererHostSupervisor` (`services/rendererHost/supervisor.ts`). `child`, `running`, `stopping`, `handle`
(`respawnTimer`), `checker` (`heartbeatCheck`), `cleanup` (`pendingBootCleanup`) and `rpc` are its fields; `wait`
and `heard` are the promise of each `spawnAndWait` and its listeners. A process is `dead` when it has died and
`gone` when its exit event was handled: in between the host may fork the next one, and one field
`pendingBootCleanup` serves both. `start` looks at nothing but `running`, as in the code, so it may come upon a
start under way, an exit still to come, a respawn timer, or a process left over from a boot that took too long or
a respawn that failed. What it comes upon (`Clear` says nothing at all) is not restricted; the history variable
`met` counts the starts that came upon something since the last that did not. The code promises nothing for those:
twins, lost processes and starts that never return are the violated forms in section 9. The properties of the run
say that there is no other way to them.

### BridgeRoutes

The AirPlay bridges of one group. A bridge is a device with a token, known in four places: `active`/`arr`
(`activeBridgeRoutes` of `group/protocolPlayer.ts`, an array that operations hold by reference), `owner`
(`bridgeOwners` of `airplay/control.ts`), `session` with `broken` (the table of `bridgeSession.ts`, in the AirPlay
process) and `handle` (`sendspin/bridgeAttach.ts`). `late` holds handshakes nobody waits for any longer. `Play`,
`Stop`, `Resume`, `Join`, `Leave` and `Rebuild` are the operations up to their first `await`, `Asked`, `Answer`,
`TooSlow`, `PlayCasts`, `CastEnds`, `StopTears`, `ResumeSyncs`, `ResumeEnds`, `JoinSyncs`, ... what follows. A
resume registers a missing route, tells the pump and then fans out (`ResumeEnds`), which may start the group, find
no song to start, or throw; nothing takes the route down then. `byPlay` is history: the route, if any, was
registered by a play. `RoundStarts`, `SeesHandles`,
`SeesSessions` and `Reaps` are the four stretches of one round of the reconciler, which keeps what it read
before. The code does not serialise the operations of a group, so there may be any number at once (`Tasks`). The
regular run has one beside the reconciler, a user who waits for an answer; of its properties
`ReapsNoneInTheMaking` needs that (`BridgeOverlap` in section 9), the other two safety properties are proved for any number. Assumed: an operation and
a round take less than the minute between two rounds; the group has AirPlay members, perhaps DLNA ones, no
sendspin members; bridges are switched on.

### SongLedger

`ledger` is `fetch_download_attempts` (last verdict, days since, count of failures that say the song does not
exist), `tried` is `fetch_library_attempts` in days, `lib` the row of the song (`both` is a web row beside a row of
the downloaded file, left when the scan of a flush succeeds and the migration fails), `run[r]` one run of
`runFetchPipeline` with `settleDeadSongs` and `purgeDeadSongs` at its end. Each run is a batch child and all
share the tables. `Upsert`, `Recorded` and `TakenBack` are the three SQL statements that change a count;
`Remove` and `RollBack` are one row each, so that a death or another run fits between two. `proven` and `held`
are history: failures since the last success that stand, and those whose run may still find an outage and take
them back. Assumed: all targets are library targets; a batch is one chunk; the flush comes at any time
(`scanBatchSize`) and the list is worked through in any order; a day does not pass while a run is under way or
before the day's batches are through (the `Day` guard). Runs of the upgrade flow do not touch these tables and
are not runs here.

## 4. Runs

All configurations say `CHECK_DEADLOCK FALSE`: a server without work, or out of events, does nothing, and that
is not an error.

| Run | Checks | What it shows |
|---|---|---|
| `FetchChain` | `TypeOK`, `OneLoopPerJob`, `CountsMatchItems`, `SettledItemsKept`, `VerdictKept`, `ForceStopEndsChain` | Two jobs, three songs, chunks of one: stops, deaths and crashes at every point of a chunk. Results that were settled survive every resume, counts follow the items, a verdict survives a late stop, a complete stop ends the chain even after the job's own end. |
| `FetchAuto` | `AutoBatchesAlone` | Hooks and schedulers of both flows never have two automatic batches active. |
| `FetchUser` | `NoZombieRow`, `NamedJobsLeaveChain` | All requests in any order, restarts and failing preflights in between: after the boot resume every active row has its loop, and jobs outside the chain never touch the chain's session. |
| `FetchLive` | `EveryJobSettles`, `ChainFinishes` | Every active job ends and every chain ends, through stops, complete stops with their kill timer, deaths and restarts. |
| `Gate` | `TypeOK`, `Accounts`, `NoIdleSlot`, `ImplementsLock`, `FirstComeFirstServed`, `AbortedCallReturns`, `EveryCallServed` | Three calls, limits from one to three, two changes of configuration: every way a call can end gives its slot back once, every change of the limit serves the queue, in order and never beyond the limit; the kill timer brings back an aborted call even if the abort came while it waited; the queue starves nobody. |
| `Queue` | `TypeOK`, `QueueSound`, `SongMovesWithCursor` | Every way a user can work a queue while songs are judged, cast, skipped and end: the index and the shuffle order fit the songs, and whoever changes the song takes the place in the shuffle order along. |
| `QueueFaults` | `NothingLeftBehind`, `PauseHeld` | Two calls in flight with lost links, vanished devices, frozen playback, groups, seeks and pauses: neither `advancing` nor the optimistic window outlives its call, and the stop after a long pause does not move the queue. The server may start with the link down. |
| `QueueLive` | `StandsIsNoticed`, `ChangeEnds`, `DeadSourceMovesOn` | A device that stands still is noticed and cast again, every change of song ends, a source that never plays is not cast for ever. |
| `Host` | `TypeOK`, `NoOrphanRpc`, `NoTwinUnlessMet`, `SlippedOnlyIfMet`, `StopReachesUnlessMet`, `Recovers`, `StartSettles` | Three starts, upon whatever the life before has left, with two crashes, hangs or slow starts: requests end with their process; each twin, each process the host has lost and each that lives after stop is owed to a start that came upon something; where none did, starts return and whatever ends the process is repaired. |
| `Bridge` | `TypeOK`, `PlaysLeaveNoRoute`, `ReapsNoneInTheMaking`, `OrphansReaped` | The operations of a group beside the reconciler, with one fault of any kind: a play that fails and a stop leave no route of a play, orphans are reaped, what is being built is not. |
| `Ledger` | `TypeOK`, `ListedIsProven`, `DeadSongsLeave` | Two runs over two songs with jobs by hand, stops, deaths, failed migrations, outages: no song is listed for removal without the failures, and a song no source has is removed in the end. |
| `LedgerDefaults` | `DeadSongsLeave`, violated | The finding of section 8. |

Each property of a passing run has a mutant: a plausible mistake in one definition that makes TLC report that
property violated under the same configuration. They show that the bounds are large enough for the property to
be broken.

The configurations whose first line says `Violated:` are no part of the regular runs; each reproduces one of the
observed disagreements of section 9.

## 5. Bounds

`Jobs` and `Loops` have two elements: all interference is between one job and one other (the next batch of the
chain, a job that makes it give way, a job resumed at boot). A row identity is taken again when its job is over,
which stands for both retention and new rows, so two identities give arbitrarily long sequences of jobs. Two or
three songs with chunks of one give first, middle and last chunks; batches of one or two give chains of several
batches. `LockLimit` 1 makes loops queue for the gate, 2 lets children run side by side. `MaxEvents` bounds
only what the environment does (requests, deaths, crashes, switches): two or three events are enough for every
pair of them at every point. `Outcomes` is restricted per run to the outcomes its properties tell apart. No
bound limits the program's own steps.

The gate has three calls against limits of one to three, so that a raise of the limit lets two in at once and a
cut leaves more inside than allowed; `Floors` (`FloorValues` of `MCBatchGate`) holds a value below 1 and one
above `MaxLimit` (16 in the code, 3 here) for the clamp. An identity of a call is taken again when its call returned and its child is gone.

The queue has three songs, two where liveness is checked: enough for a current song, one before and one after,
and for a removal on either side of it. `MaxTasks` is 1 where the user's operations are asked about and 2 where
calls may interfere: a decision that waits for the device and a cast, or two casts. `MaxEvents` bounds what users
and the world do; ends of songs, refused sources, failed casts, polls and timers are not bounded. `SkipLimit` is
2 or 1 for the code's 3 (`QueueController.ts:151`). The play modes differ only in the choice of the next song, so `Queue` runs `order` and
`shuffle`, and `QueueLive` runs `all`, in which a queue has no end.

The host has three processes (two may overlap, a third for the next life), three starts, two faults and one
request: two starts beside a leftover process and one on clear ground after them. The invariants also hold with
four processes and three faults. The
bridges have one device with three tokens (the route's, one in the making, one late or just dropped) and two
arrays. With four tokens the same properties hold (812,000 states). With two devices and no faults
the safety properties hold as well (5.5 million states, too many for a regular run);
nothing in the code relates two devices but the order of the array.

The ledger has two songs (rotation needs another song's record), two runs (`maxConcurrentJobs` is 2 by default),
threshold 2 as by default, and windows of one and two days: what counts is which of them is longer.
`OutageMin` 2 and `MaxPurge` 1 stand for 100 and 200, so that outages and a full purge happen with two songs.
With one event more, and with three songs and one run, the same properties hold.

## 6. Fairness

`FairSpec` assumes: a child makes progress (`WF` of `ChildStep`); the gate serves a loop that keeps waiting
(`SF` of `Grant`, because slots come and go; the queue is first come first served in `batchPacer.ts`); messages
and timers arrive (`WF` of the loop's continuations); the scheduler keeps ticking; a stopped process is started
again and runs its boot resume. Progress of a child is a statement about the pipeline's own timeouts: the
watchdog does not provide it, since heartbeats of a waiting child reset it. No fairness is assumed of users,
deaths or crashes.

`FairSpec` of `BatchGate` assumes that continuations and timers run and that a killed process ends. Children
that were not killed need not end: `EveryCallServed` has that as its premise.

`LiveSpec` of `PlayQueue` assumes that timers fire, that the poll loop polls, that every call over the network is
answered or times out (the code wraps them in `withTimeout` or has a limit of its own), and that the stop command
on its way arrives or is lost. Nothing is assumed of devices: they need not play, nor end a song.

`FairSpec` of `RendererHost` assumes that timers fire, that a process that is not slow starts (slow starts are
the fault `slow`) and that events that have happened are delivered. `Silence`, the watchdog's patience running
out, only happens to a process that hangs: a respawn takes at most 30 s of delay and 30 s of start, less than the
65 s the watchdog allows (`supervisor.ts:100`, 2 × interval + 5 s)
unless the hang lasted before it; that case is `HostWatchdog.cfg`. `Recovers` and `StartSettles` hold as long as no
start has come upon something (`met`), which is no assumption of fairness but what the code needs of its callers.

`FairSpec` of `BridgeRoutes` assumes that the reconciler's timer goes on and that calls are answered or time out.

`FairSpec` of `SongLedger` assumes that a run makes progress (the pipeline's own timeouts), that the daily
scheduler runs, and that days pass. `DeadSongsLeave` has as its premise that outages are not recognised again and
again: an outage takes the counts back.

## 7. Proofs

`FetchJobsProofs` proves for every number of jobs, loops, songs, any chunk and batch size and any events:

* `TypeCorrect`: `Spec => [](TypeOK /\ Wiring)`;
* `NeverTwoLoops`: `Spec => []OneLoopPerJob`, the re-entry guard of `startFetchJob`;
* `ForceStopIsFinal`: `Spec => ForceStopEndsChain`;
* `NamedJobsAreApart`: `Spec => NamedJobsLeaveChain`.

The inductive invariant is `IInv == TypeOK /\ Wiring`. `OneLoopPerJob` is not inductive by itself: a start looks
at the map `controllers`, not at the loops, so one needs that the two agree (`Wiring`), and that they agree
depends on loops and map being changed together in starts, settles and crashes. The proof factors the two halves
that every action is built from, *start* (`StartAllFit`) and *leave* (`LeaveFit`), into lemmas on arbitrary maps
and loops, because a settle is a leave followed by a start within one step; one lemma per action then combines
them. `ForceStopIsFinal` adds that `ChainEnds` holds whenever the loop's hard signal is set and that no action
but a settle of that loop takes its job out of `controllers` while the process is up (`OnlySettleLeaves`);
`NamedJobsAreApart` rests on the same lemma. The assumptions are those of `FetchAssumption`, which TLC evaluates
in every run.

`FetchServiceProofs` proves `NoRowIsLeftBehind` (`Spec => []NoZombieRow`) and `VerdictIsFinal`
(`Spec => VerdictKept`). That a loop which leaves has ended its row is not clear from the loop: it leaves when the
child says there is nothing more, and `fetchHandler` writes a verdict only if the chunk it was given has songs; an
empty slice leaves the row alone. So the invariant `SInv` says that a loop with work to do has an active row *and
songs in its chunk*, and that a child which reports the last chunk has written the verdict before (`Served`). The
next chunk has songs because `HasMore` was true of the last one, which is arithmetic on ranks: the songs of a set
occupy the places 0 to n-1 (`RankTaken`, from the pigeonhole principle `FS_Injection`), hence a slice is empty
only beyond the end (`SliceTaken`). The boot resume then gives every row that was left active a loop or, if the
preflight fails, an end. `VerdictIsFinal` uses the same invariant the other way round: a row with a verdict has no
child that could still write one.

The same module proves `BatchesGiveWay`: an event other than a request for a job adds no active row to active rows.
The gate is `hasAnyActiveJob`, which the schedulers ask of a settled table but the hooks inside the step that ends
the row of the job they belong to. `AutoBatchesGiveWay` (`Spec => []AutoBatchesAlone` if nobody asks for a job by hand) rests on
more than that: the boot resume starts every active row again, so the invariant is that there is at most one of any
kind (`OneActive`). Jobs started by hand do not give way to one another, so with such requests that is false; the
theorem leaves them out.

`FetchItemsProofs` proves `CountsFollowItems` (`Spec => []CountsMatchItems`) and `ResultsAreFinal`
(`Spec => SettledItemsKept`). Two writers keep the counts: `onItem` derives them from the items of the row, the
end of a chunk adds its outcomes to the counts *read when the chunk began* and writes the items read then. They
agree because a child has outcomes only for songs that were not settled in its copy, and because an item of the
row is either as in the copy or the outcome of its song (`Chunk`); then the three counts are sums over disjoint sets
(`MergeTallied`), and the late write of the copy changes no settled item. Both need that a loop's job is no other
loop's (`Wiring`) and that a row with a working child is active, so that no clean-up drops it (`SInv`).

`BatchGateProofs` proves for any number of calls, plugins, floors and limits:

* `GateTypeCorrect`, `GateAccounts`, `GateWorkConserving`: `TypeOK`, `Accounts` and `NoIdleSlot` always hold;
* `GateInArrivalOrder`: `Spec => FirstComeFirstServed`;
* `GateImplementsLock`: `Spec => ImplementsLock`.

The invariant is `TypeOK /\ Accounts /\ NoIdleSlot`. All of it rests on one lemma, `PumpWorks`, about `pumpLock`
on any queue without repetitions and any calls it fits: the pump keeps the fit, admits as many calls as the
queue loses places (a bijection between places and calls), never passes the limit, and leaves no free slot
beside a waiting call. Arrival, release and limit change each bring their queue and calls into the form the lemma
asks for; every other step leaves the gate alone (`QuietStep`).

`RendererHostProofs` proves for any number of processes, requests, starts and faults:

* `TypeCorrect`: `Spec => []TypeOK`;
* `NoRequestIsOrphaned`: `Spec => []NoOrphanRpc`, from `ChildThere` (the host never holds a process whose exit it
  has handled);
* `TwinsAreOwed`, `SlipsAreOwed`, `StopReaches`: `NoTwinUnlessMet`, `SlippedOnlyIfMet` and `StopReachesUnlessMet`
  always hold, whatever starts and stops come upon;
* `CleanLives`: `Spec => [](met = 0 => OneAlive /\ StoppedIsDead)`.

Nothing is assumed of the moments at which start and stop are called. `Owed` is the invariant of the last four:
the processes not yet gone and the respawn timers are at most one more than the starts that came upon something; the
host holds a process or a timer, or there are no more than `met` of them (`NothingHeld`); and after stop at most `met`
of them are left. An exit makes a timer of a process, a timer a process, and a kill neither, so only a start adds
one; but an exit clears `this.child`, whoever's exit it was, and stop clears one timer of several, so what the host
holds has to be counted beside what there is. `CleanLives` is the case without leftovers.

`SongLedgerProofs` proves for any library, any number of runs, any windows and thresholds:

* `TypeCorrect`: `Spec => []TypeOK`, no count below zero;
* `CountsNeverInflated`: `Spec => []CountsAreEvidence`, a count is at most what happened;
* `ListsAreProven`: `Spec => ListedIsProven`;
* `LoneRunRemovesProven` and `LoneRunKeepsDownloaded`: `RemovedIsProven` and `DownloadedStays` if there is one run
  at a time (`OneRun`); with two they are violated (section 9).

The invariant is `TypeOK /\ HeldByTheRun /\ CountsAreEvidence`. A count alone says nothing: a roll-back lowers it
whether or not its own failure is still in it (another run's success or the rotation may have dropped that), so
the evidence is counted apart, as failures that stand plus the runs that hold one that may be taken back.
`HeldByTheRun` says that a run holds a failure only of songs it failed, and none once it has settled; so a
failure adds a run that did not hold the song before (`FailsForGood`), and a settle or a death moves one run from
the second part to the first (`Stand`). For lone runs `SuccessClears` and `ListStands` are added: what is on the
list stays proven until it is removed, because nobody else is there to change it.

`PlayQueueProofs` proves for any songs, lists, modes and number of calls in flight:

* `QueueIsSound`: `Spec => []QueueSound`, from `QueueStaysSound`;
* `NothingIsLeftBehind`: `Spec => []NothingLeftBehind`;
* `QueueTypeCorrect`: `Spec => []TypeOK`, which bounds every counter of stalls, failed casts and dead repeats;
* `SongAndCursorMove`: `Spec => SongMovesWithCursor`;
* `PauseMovesNothing`: under a pause that was seen away from the end of a song nothing moves the queue but a
  stream of several songs and a search for a song with a source (`MovesHeld`);
* `PauseIsHeld`: `Spec => PauseHeld` where there is neither (no event `flow`, every song has a source).

`Sound` is the invariant behind the first. The bounds of the index are not inductive: an operation that removes a
song in front of the cursor, or the walk through a shuffle order, lands on a song only if the shuffle order is a
permutation of its own places. Its length may lag behind the queue (in the other modes nothing rebuilds it, and within an
operation it lags until `ensureShuffleReady`), so `OrderSound` speaks of the order alone and `OrderOf` of an
order just made ready. A decision changes the queue through one chain of operators (`Ready`, `ShuffleNext`,
`Picks`, `Placed`), each with a lemma; the actions only combine them. For the second theorem `Book` says that a
call in flight is well formed and that a busy device has one that owns it, and `Watched` that an open window has a
cast under way. `playCurrent` replaces one call by another in the same step, so every lemma shows that the step
that takes an owner away puts one in its place or clears the mark (`BookKept`).

The third theorem needs both, since a counter is only raised by the call or timer that has just been found below
its limit. For the fourth, `Tidy` says that an order that is not empty stands somewhere, and that in
shuffle mode a queue of more than one song has an order of its own length or none: only one song alone may keep an order
made for others. A step that changes the song then takes the place along, because it either draws
both from the same successor or makes a new order that begins with the song (`Along`). For the last two,
the mark of a pause excludes the questions to the device that would end in a change of song: `OnlyIdle` says that while
the mark is set the only question under way is the one `idle_early` asks, and its answer finds the mark.

`BridgeRoutesProofs` proves for any devices, tokens, arrays and faults:

* `BridgesTypeCorrect`: `Spec => []TypeOK`, for any number of operations at once;
* `PlaysClearTheirRoutes`: `Spec => []PlaysLeaveNoRoute`, for any number of operations at once, resumes and joins
  that register a group among them;
* `ReconcilerSparesTheLiving`: `Spec => ReapsNoneInTheMaking`, if operations do not overlap (`OneAtATime`).

`Formed` says what an operation holds at each of its places: nothing when it has ended, a token for every device it
has asked, an array while it works on one. `PlaysLeaveNoRoute` is not inductive, because a play registers its
route some steps before its cast has succeeded and a stop unregisters it before the stop has; `Accounted` says that a group
with a route of a play plays or has a play at its casts, and each operation that lowers one of these clears the route or
leaves the other. The last theorem is about a round that keeps what it read across three awaits. A session it may remove is a
*suspect*: the round before saw it outside the route, and it was not in the route when this round began. `RInv` says that
no bridge in the route, and none that an operation is about to enter or takes over (`HeldBy`), is a suspect or among those
the round has gone on to remove. A token is new when it is drawn (`Fresh`), so no session with it can be a suspect; what an
operation gives up becomes part of the route in the same step or is dropped; and a kept token was in the route. The
last point fails when a second operation takes the route down in between: that is `BridgeOverlap`. Arrays are drawn
again when nobody holds them; `NoLeftovers` says that they are empty then.

Only model-checked: the liveness properties (`EveryJobSettles`, `ChainFinishes`, `AbortedCallReturns`,
`EveryCallServed`, `StandsIsNoticed`, `ChangeEnds`, `DeadSourceMovesOn`, `Recovers`, `StartSettles`, `OrphansReaped`,
`DeadSongsLeave`), which are outside the prover's reach, as is anything about fairness or `ENABLED`. What a recursive
definition computes for every input would be out of reach as well; the modules have none.

## 8. Findings

| Run | Source | The code against its own words |
|---|---|---|
| `LedgerDefaults` | `services/fetch/library.ts:242` | Permanent failures are exempt from the download cooldown “so that they are tried again every round” and the count reaches the threshold (`attempts.ts:26-31`). But the plan of the automatic batches keeps a song that was tried off for 30 days, and after 7 days the next record of any other song drops its count, so with the defaults the count stays at 1 and no song is ever removed by the automatic batches – the case the comment describes as having been fixed. |

## 9. Observed disagreements

What TLC found while the modules were built, beside the finding above. Each has a configuration that reproduces
it; the property is stated in the module with a comment that says where its words come from.

| Configuration | Property | What happens |
|---|---|---|
| `FetchCancelRace` | `CancelEndsChain` | `jobRunner.ts:95`: a cancel after the last chunk's verdict does not end the chain, though the route's comment (`routes/api/fetch.ts:373-375`) says it does; only the complete stop is passed to the hooks. |
| `FetchLateDeath` | `FinishedNeverDowngraded` | `jobRunner.ts:76`: a child that dies after its verdict turns a finished job into a failed one. |
| `FetchUntried` | `UntriedBatchEndsChain` | `jobRunner.ts:255`: the gate against batches without a single attempt compares a total that is still zero, and never closes. |
| `FetchPreflight` | `UntriedBatchEndsChain` | `jobRunner.ts:47`: a failed preflight runs no hook and the session is set after it: the chain goes on, batch after batch. |
| `FetchTotals` | `TotalMatchesTargets` | `batch/jobs.ts:737`: a chunk resumed after a restart is counted twice in the job's total. |
| `FetchRevived` | `StoppedNotRevived` | `jobRunner.ts:357`: a restart while a stopped job is still winding down resumes it. |
| `FetchYield` | `ChainFinishes` | `libraryScheduler.ts:107`: a chain started by hand that gave way is not resumed when the automatic run of its flow is off. |
| `QueueReorder` | `ReorderKeepsSong` | `QueueController.ts:2094`: moving any song makes that song the current one while the device plays on, although `:2086` and `:2093` speak of the song that plays. |
| `QueuePause` | `PauseNeverAdvances` | The stop that follows thirty seconds of pause near the end of a song is taken for the end of the song. |
| `QueueStop` | `StoppedStays` | A decision that waits for the state of the device casts or moves on after a stop. |
| `QueueLost` | `LostDecidesNothing` | The `catch` of the stalled branch goes on although the link is lost (comment at `QueueController.ts:604-610`). |
| `QueueDead` | `DeadSourceMovesOn` | A dead source without a successor (mode `one`, or a queue of one song) is cast again each time its alarm goes off (`QueueController.ts:944-945`). |
| `HostTwin` | `OneAlive` | `supervisor.ts:132`: `start` looks at `running` only. A boot that timed out (`:220`) leaves its process alive, the next start forks a second one beside it. |
| `HostLeftover` | `StoppedIsDead` | `supervisor.ts:145`: stop kills `this.child`; a process an earlier start has left lives on, although the comment at `:144` says that none does. |
| `HostGhost` | `RunsIfRunning` | `supervisor.ts:205`: a stop while `mainReady` is under way kills the process, the message arrives and sets `running`; the exit sees `stopping` and starts no other. The service counts as running without a process. |
| `HostRestart` | `StartReturns` | `supervisor.ts:274`: the late exit of a killed process removes the boot timer and the listeners of the next one; `start` never returns. Reached when the port of a service is changed (`routes/api/plugins.ts:113-121`). |
| `HostWatchdog` | `SurvivesHang` | `supervisor.ts:100`: after a long hang the watchdog also kills the process that replaces the hung one, which is still booting, and the service ends. |
| `BridgeTwice` | `OneBridgePerDevice` | `bridgeSession.ts:2503`, `protocolPlayer.ts:516`: a handshake that was given up appears later, beside its successor. |
| `BridgeOwner` | `OwnerHasBridge` | `protocolPlayer.ts:635`: a device whose lost bridge cannot be prepared again keeps its owner. |
| `BridgeStale` | `OwnsItsRoute` | `airplay/control.ts:437`: stopping an old bridge clears the owner of the new one, whatever its token. |
| `BridgeOverlap` | `ReapsNoneInTheMaking` | `protocolPlayer.ts:613`: a play keeps the token of a bridge that a stop is taking down at the same time. The session is made again under that token; a round that saw it while it was made the first time takes the second sight for the same orphan and removes it under the new song. |
| `BridgeHeal` | `SilentGroupHoldsNothing` | `protocolPlayer.ts:81`: a join to a group without a route registers one while nothing plays. |
| `BridgeResume` | `SilentGroupHoldsNothing` | `protocolPlayer.ts:710`: a resume registers a route and then fails, or finds no song to go on with; the group is silent and the route stays, since nothing on that path takes it down and the reconciler spares what is in a route. |
| `LedgerOutage` | `RemovedIsProven` | `orchestrator.ts:961`: a run that ends removes songs for failures that another run is about to take back. |
| `LedgerRace` | `DownloadedStays` | `deadSongPurge.ts:124`: a song another process downloaded after the list was read is removed. |
| `LedgerBlocked` | `DeadSongsLeave` | Songs that cool in the ledger but not in the plan fill the batch every day, and the dead song behind them loses its count. |

Seen in the models or while reading, without a configuration:

* Renderer host: `stop` sets `running` to false before `rpc("stop")`, so the graceful stop is never sent; two
  concurrent starts fork two processes; a failed respawn is not tried again; `ipcProtocol.ts:66` gives the watchdog 3 × interval + 5 s where the code uses 2 ×.
* Queue: two calls may hold `advancing` at once (the second to end clears the first's mark early); an alarm
  swallowed while `advancing` is held, or while the device plays in a group, is not raised again; the fuse and
  `next` while busy move the shuffle place without the song; `playFrom` while busy does not start its song;
  `enqueue` and `removeAt` cast without `advancing`; the end of an old stream of several songs drops the mark of
  the new one (`routes/rest/index.ts:2024`); `clearRepeatDeadIfHealthy` compares seconds with milliseconds
  (`QueueController.ts:1078`).
* Bridges: the fallback of `degradeBridgeMember` never runs for a leave the pump did not confirm, because
  `bridgeLeaveMember` returns true; a `groupStop` that times out skips the teardown until the reconciler.
* Downloads: two batches started by hand at once plan the same songs (`routes/api/fetch.ts:654`); a cancelled job
  that ends late clears the session of a chain restarted meanwhile (`jobRunner.ts:183`); the watchdog of
  `batch/runner.ts:167` is fed by heartbeats of a child that waits for ever; a crash between the ledger record
  and `onItem` lets a resumed job count one round twice; with `chunkSize` 20 the protection against outages never
  triggers, which `orchestrator.ts:169` says is intended.

## 10. What is left out

* The inside of one song's pipeline, file formats, scoring, names; timing other than order.
* A crash between two synchronous writes of one handler (a batch with nothing to do is created and finished by
  two writes, `routes/api/fetch.ts:659`).
* The pace of batch work (sleep times, interactive back-off): it changes when things happen, not what.
* The library scan and tag repair that follow a job, and the pace messages to children.
* The `limit` a request may give; a row deleted while its loop settles is modelled (the hooks find nothing and
  keep the session), a row edited by hand is not.
* `PlayQueue`: the display hold, probing and prefetching ahead, preheating, the sleep timer, members that rejoin
  a group, the fan-out of a group queue, writing to the database (a start may find any saved queue), answers of
  polls that are overtaken by later ones, the state BUFFERING. Durations are known.
* `RendererHost`: snapshots, throttling and the dispatch inside the process.
* `BridgeRoutes`: bridges of single players, DLNA members' settling, the negative cache and retry probe, volume
  and delays, the choice of protocol, changes of membership other than join and leave of a bridge; liveness of
  operations of one group that overlap.
* `SongLedger`: switching a window or the threshold off (0), targets that are no library songs.
* All components with status `not_modelled` in `PROJECT.json`, with the reason there. Most of the repository's
  code is requests over SQL, file and network I/O, signal processing and the web client: it keeps no state that
  several actors change, so a model of it would only restate it.
