------------------------------ MODULE FetchJobs ------------------------------
(***************************************************************************)
(* The download jobs of services/fetch: the rows of the table fetch_jobs,  *)
(* the asynchronous loop that startFetchJob runs for a job, the batch      *)
(* child process that executes one chunk of it, the two ways of stopping   *)
(* a job (drain and hard stop), the hooks and the schedulers that make a   *)
(* flow continue from one batch to the next, and the restart of the server *)
(* process.                                                                *)
(*                                                                         *)
(* The main process is single threaded: a stretch of code without an       *)
(* await is one action.  A child is another process: its steps interleave  *)
(* with the main process and touch the same database.                      *)
(***************************************************************************)
EXTENDS Naturals, FiniteSets

CONSTANTS
  Jobs,        \* identities of rows of fetch_jobs
  Loops,       \* BOUND: how many startFetchJob loops exist at the same time
  Songs,       \* the songs, as numbers in the order the plans list them
  Flows,       \* the flows that continue by themselves
  AutoFlows,   \* the flows whose *AutoEnabled switch is on at installation
  ChunkSize,   \* cfg.chunkSize
  BatchSize,   \* cfg.libraryBatchLimit, cfg.upgradeBatchLimit
  LockLimit,   \* how many children the batch lock admits at once
  Outcomes,    \* what the pipeline can make of a song it worked on
  Events,      \* the kinds of environment events of this instance
  MaxEvents,   \* BOUND: how many environment events happen
  NoJob, NoLoop

ASSUME FetchAssumption ==
  /\ Songs \subseteq Nat /\ IsFiniteSet(Songs)
  /\ Flows \subseteq {"library", "upgrade"} /\ AutoFlows \subseteq Flows
  /\ ChunkSize \in Nat \ {0} /\ BatchSize \in Nat \ {0} /\ LockLimit \in Nat \ {0}
  /\ Outcomes \subseteq {"done", "failed", "skipped", "cooling"}
  /\ MaxEvents \in Nat
  /\ NoJob \notin Jobs /\ NoLoop \notin Loops

VARIABLES
  phase,      \* the server process: "down", "booting" (resume still to come), "up"
  row,        \* the table fetch_jobs
  session,    \* settings fetch.<flow>.auto.session
  autoOn,     \* config <flow>AutoEnabled
  contOn,     \* config <flow>AutoContinue
  due,        \* interval and time of day of the scheduler have been reached
  attempted,  \* tables fetch_library_attempts, fetch_upgrade_attempts (in cooldown)
  owned,      \* songs whose library row now points at the new file
  writable,   \* the preflight of startFetchJob passes in this process
  ctl,        \* the map `controllers': the loop that drives a job
  loop,       \* the loops, with the two AbortControllers each of them made
  child,      \* the batch child of each loop
  events,     \* environment events left
  stopAsked   \* history: jobs the user asked to stop while a loop drove them

db   == <<row, session, attempted, owned>>
conf == <<autoOn, contOn, due, writable>>
proc == <<ctl, loop, child>>
vars == <<phase, row, session, autoOn, contOn, due, attempted, owned, writable,
          ctl, loop, child, events, stopAsked>>

-----------------------------------------------------------------------------
(* Rows, loops and children.                                               *)

Statuses   == {"none", "pending", "running", "done", "partial", "failed", "cancelled"}
ActiveSt   == {"pending", "running"}
TerminalSt == {"done", "partial", "failed", "cancelled"}
ItemSt     == {"none", "done", "failed", "skipped", "cancelled"}
\* The item statuses a rerun does not process again.
SettledItem == {"done", "failed", "skipped"}
Kinds      == {"single", "library", "upgrade"}

ZeroCounts == [total |-> 0, done |-> 0, failed |-> 0, skipped |-> 0]
NoItems    == [s \in Songs |-> "none"]
NoRow      == [status |-> "none", kind |-> "single", auto |-> FALSE, lib |-> FALSE,
               targets |-> {}, items |-> NoItems, cnt |-> ZeroCounts]
IdleLoop   == [job |-> NoJob, pc |-> "idle", chunk |-> 0, hard |-> FALSE, drain |-> FALSE]
NoChild    == [pc |-> "none", items |-> NoItems, cnt |-> ZeroCounts, todo |-> {},
               out |-> NoItems, abort |-> FALSE, drain |-> FALSE, more |-> FALSE]

Counts  == [total : Nat, done : Nat, failed : Nat, skipped : Nat]
Rows    == [status : Statuses, kind : Kinds, auto : BOOLEAN, lib : BOOLEAN,
            targets : SUBSET Songs, items : [Songs -> ItemSt], cnt : Counts]
LoopSt  == [job : Jobs \cup {NoJob}, pc : {"idle", "queue", "child", "sleep"},
            chunk : Nat, hard : BOOLEAN, drain : BOOLEAN]
Results == {"none", "done", "failed", "skipped", "cooling", "cancelled"}
ChildSt == [pc : {"none", "boot", "items", "saved", "sent", "dead"},
            items : [Songs -> ItemSt], cnt : Counts, todo : SUBSET Songs,
            out : [Songs -> Results], abort : BOOLEAN, drain : BOOLEAN, more : BOOLEAN]

TypeOK ==
  /\ phase \in {"down", "booting", "up"}
  /\ row \in [Jobs -> Rows]
  /\ session \in [Flows -> BOOLEAN]
  /\ autoOn \in [Flows -> BOOLEAN]
  /\ contOn \in [Flows -> BOOLEAN]
  /\ due \in [Flows -> BOOLEAN]
  /\ attempted \in [Flows -> SUBSET Songs]
  /\ owned \in [Flows -> SUBSET Songs]
  /\ writable \in BOOLEAN
  /\ ctl \in [Jobs -> Loops \cup {NoLoop}]
  /\ loop \in [Loops -> LoopSt]
  /\ child \in [Loops -> ChildSt]
  /\ events \in 0..MaxEvents
  /\ stopAsked \subseteq Jobs

\* controllers.has(jobId)
Driven(j) == ctl[j] # NoLoop

\* collectInterruptedFetchJobIds, hasAnyActiveJob
ActiveIn(r) == {j \in Jobs : r[j].status \in ActiveSt}
IdleLoops   == {n \in Loops : loop[n].pc = "idle"}

\* A row identity a new job may take: never used, deleted, or finished long
\* enough for pruneFetchJobs to have dropped it.
FreeIds == {j \in Jobs : /\ row[j].status \notin ActiveSt
                         /\ \A n \in Loops : loop[n].job # j}

-----------------------------------------------------------------------------
(* Plans and chunks: sets of songs in rowid order.                         *)

Rank(s, S)  == Cardinality({t \in S : t < s})
First(k, S) == {s \in S : Rank(s, S) < k}

\* buildLibraryPlan, buildUpgradePlan: what is neither downloaded nor cooling.
Pool(f)  == Songs \ (owned[f] \cup attempted[f])
Batch(f) == First(BatchSize, Pool(f))

\* allTargets.slice(chunk * chunkSize, ...)
Slice(T, c)   == {s \in T : /\ c * ChunkSize <= Rank(s, T)
                            /\ Rank(s, T) < (c + 1) * ChunkSize}
HasMore(T, c) == Cardinality(T) > (c + 1) * ChunkSize

-----------------------------------------------------------------------------
(* Counts and items of a row.                                              *)

\* The pipeline reports a song in download cooldown as skipped.
Stored(o)  == IF o = "cooling" THEN "skipped" ELSE o
Tally(f, st) == Cardinality({s \in Songs : f[s] = st})

\* (fault) the counts of the chunk replace those of the job.
ChunkCountsOnly(c, todo, out) ==
  [total |-> Cardinality(todo), done |-> Tally(out, "done"), failed |-> Tally(out, "failed"),
   skipped |-> Tally(out, "skipped") + Tally(out, "cooling")]

\* addCounts: this chunk's counts on top of those read when the chunk began.
AddCounts(c, todo, out) ==
  [total   |-> c.total + Cardinality(todo),
   done    |-> c.done + Tally(out, "done"),
   failed  |-> c.failed + Tally(out, "failed"),
   skipped |-> c.skipped + Tally(out, "skipped") + Tally(out, "cooling")]

\* onItem: the counts are derived from the items again.
Recount(items, T) ==
  [total |-> Cardinality(T), done |-> Tally(items, "done"),
   failed |-> Tally(items, "failed"), skipped |-> Tally(items, "skipped")]

\* mergeItems: an outcome replaces the item of its song, the others stay.
MergeItems(items, out) ==
  [s \in Songs |-> IF out[s] = "none" THEN items[s] ELSE Stored(out[s])]

\* The terminal status fetchHandler writes after the last chunk.
Verdict(c, stopped) ==
  IF stopped THEN "cancelled"
  ELSE IF c.failed > 0 THEN (IF c.done > 0 \/ c.skipped > 0 THEN "partial" ELSE "failed")
  ELSE "done"

-----------------------------------------------------------------------------
(* startFetchJob, on the rows r, controllers c and loops l of the moment.  *)

\* createFetchJob
NewRow(kind, auto, lib, T) ==
  [NoRow EXCEPT !.status = "pending", !.kind = kind, !.auto = auto, !.lib = lib, !.targets = T]

\* (fault) the loop is started without being entered in `controllers'.
StartUnregistered(r, c, l, at) ==
  /\ row' = r /\ ctl' = c
  /\ loop' = [n \in Loops |-> IF \E j \in DOMAIN at : at[j] = n
                             THEN [IdleLoop EXCEPT !.job = CHOOSE j \in DOMAIN at : at[j] = n,
                                                   !.pc = "queue"]
                             ELSE l[n]]

\* The jobs in DOMAIN at are started, each in the loop slot at[j].  A failed
\* preflight writes the row and leaves: no controller, no loop, no hooks.
\* Otherwise the loop runs up to its first await, the batch lock.
StartAll(r, c, l, at) ==
  LET S == {j \in DOMAIN at : c[j] = NoLoop} IN
  IF writable
  THEN /\ row' = r
       /\ ctl' = [j \in Jobs |-> IF j \in S THEN at[j] ELSE c[j]]
       /\ loop' = [n \in Loops |->
                     IF \E j \in S : at[j] = n
                     THEN [IdleLoop EXCEPT !.job = CHOOSE j \in S : at[j] = n, !.pc = "queue"]
                     ELSE l[n]]
  ELSE /\ row' = [j \in Jobs |-> IF j \in S THEN [r[j] EXCEPT !.status = "failed"] ELSE r[j]]
       /\ ctl' = c
       /\ loop' = l

StartFetchJob(r, c, l, k, n) == StartAll(r, c, l, [j \in {k} |-> n])

\* A batch of the chain of flow f: plan, row, cooldown records (the upgrade
\* flow writes them when it creates the batch), start, session mark.
OpenBatch(f, r, c, l, k, n) ==
  /\ StartFetchJob([r EXCEPT ![k] = NewRow(f, TRUE, f = "library", Batch(f))], c, l, k, n)
  /\ attempted' = IF f = "upgrade" THEN [attempted EXCEPT ![f] = @ \cup Batch(f)] ELSE attempted
  /\ session' = [session EXCEPT ![f] = TRUE]

-----------------------------------------------------------------------------
(* The end of a loop: the finally block of startFetchJob.                  *)

\* (fault) no status of its own at the end of a stopped loop.
StatusAsLeft(st) == st
\* (fault) the guard on finished jobs is missing.
AlwaysCancelled(st) == "cancelled"

\* Only a job that has not finished may be turned into a cancelled one.
FinalStatus(st) == IF st \in ActiveSt \cup {"cancelled"} THEN "cancelled" ELSE st

\* finalizeDrainedFetchJob
FinalizeDrainedFetchJob(r, j) ==
  LET missing == {s \in r[j].targets : r[j].items[s] = "none"} IN
  IF r[j].status = "none" THEN r
  ELSE [r EXCEPT ![j].status = FinalStatus(@),
                 ![j].items = [s \in Songs |-> IF s \in missing THEN "cancelled" ELSE @[s]],
                 ![j].cnt.total = IF missing = {} THEN @ ELSE Cardinality(r[j].targets)]

\* (fault) no guard against batches without progress.
NoProgressGuard(f, c) == TRUE

\* libraryBatchProgressed, and the zero-attempt gate of the upgrade flow
Progressed(f, c) ==
  IF f = "library" THEN c.done > 0 \/ c.failed > 0
  ELSE ~(c.total > 0 /\ c.done = 0 /\ c.failed = 0 /\ c.skipped = 0)

\* (fault) named batches count as batches of the chain.
AnyBatchOfFlow(r, j) == r[j].status # "none" /\ r[j].kind \in Flows

\* The job belongs to a chain: __library or __upgrade without noAutoContinue.
InChain(r, j) == r[j].status # "none" /\ r[j].kind \in Flows /\ r[j].auto

\* (fault) a complete stop counts only when the row says cancelled.
EndsUnlessDone(r, j, hard) ==
  /\ InChain(r, j)
  /\ \/ r[j].status = "cancelled"
     \/ ~Progressed(r[j].kind, r[j].cnt) \/ ~contOn[r[j].kind]
     \/ ActiveIn(r) = {} /\ Pool(r[j].kind) = {}

\* maybeContinueLibraryJob, maybeContinueUpgradeJob: every way they clear the
\* session, and the case in which they open the next batch.
ChainEnds(r, j, hard) ==
  /\ InChain(r, j)
  /\ \/ r[j].status = "cancelled" \/ hard
     \/ ~Progressed(r[j].kind, r[j].cnt)
     \/ ~contOn[r[j].kind]
     \/ ActiveIn(r) = {} /\ Pool(r[j].kind) = {}
ChainGoesOn(r, j, hard) ==
  InChain(r, j) /\ ~ChainEnds(r, j, hard) /\ ActiveIn(r) = {}

MaybeContinue(r, c, l, j, hard) ==
  \/ /\ ChainGoesOn(r, j, hard)
     /\ \E k \in FreeIds \ {j}, n \in {m \in Loops : l[m].pc = "idle"} :
          OpenBatch(r[j].kind, r, c, l, k, n) /\ stopAsked' = stopAsked \ {j, k}
  \/ /\ ~ChainGoesOn(r, j, hard)
     /\ row' = r /\ ctl' = c /\ loop' = l
     /\ session' = IF ChainEnds(r, j, hard) THEN [session EXCEPT ![r[j].kind] = FALSE] ELSE session
     /\ stopAsked' = stopAsked \ {j}
     /\ UNCHANGED attempted

\* Loop n leaves its for(;;) with the rows r.
Settle(n, r) ==
  LET j  == loop[n].job
      rf == IF loop[n].hard \/ loop[n].drain THEN FinalizeDrainedFetchJob(r, j) ELSE r
  IN /\ MaybeContinue(rf, [ctl EXCEPT ![j] = NoLoop], [loop EXCEPT ![n] = IdleLoop], j, loop[n].hard)
     /\ child' = [child EXCEPT ![n] = NoChild]
     /\ UNCHANGED <<phase, conf, owned, events>>

-----------------------------------------------------------------------------
(* The loop of startFetchJob and its runBatchJob calls.                    *)

\* acquireBatchLock grants, runBatchJob forks the child
Grant(n) ==
  /\ loop[n].pc = "queue"
  /\ Cardinality({m \in Loops : loop[m].pc = "child"}) < LockLimit
  /\ loop' = [loop EXCEPT ![n].pc = "child"]
  /\ child' = [child EXCEPT ![n].pc = "boot"]
  /\ UNCHANGED <<phase, db, conf, ctl, events, stopAsked>>

\* The result message: a drain request is looked at first, then hasMore.
ParentResult(n) ==
  /\ child[n].pc = "sent"
  /\ \/ (loop[n].drain \/ ~child[n].more) /\ Settle(n, row)
     \/ /\ ~loop[n].drain /\ child[n].more
        /\ loop' = [loop EXCEPT ![n].pc = "sleep", ![n].chunk = @ + 1]
        /\ child' = [child EXCEPT ![n] = NoChild]
        /\ UNCHANGED <<phase, db, conf, ctl, events, stopAsked>>

\* (fault) a failed loop writes a status nobody else knows.
ErrorStatus(st, n) == IF st = "none" THEN st ELSE "error"

\* The catch block: the row is overwritten whatever its status.
CaughtStatus(st, n) ==
  IF st = "none" THEN st ELSE IF loop[n].hard \/ loop[n].drain THEN "cancelled" ELSE "failed"

\* The child is gone without a result message, or it sent an error.
ParentExit(n) ==
  /\ child[n].pc = "dead"
  /\ Settle(n, [row EXCEPT ![loop[n].job].status = CaughtStatus(@, n)])

\* After sleepBetweenBatch: the two checks at the top of the loop.
Wake(n) ==
  /\ loop[n].pc = "sleep"
  /\ \/ (loop[n].hard \/ loop[n].drain) /\ Settle(n, row)
     \/ /\ ~loop[n].hard /\ ~loop[n].drain
        /\ loop' = [loop EXCEPT ![n].pc = "queue"]
        /\ UNCHANGED <<phase, db, conf, ctl, child, events, stopAsked>>

-----------------------------------------------------------------------------
(* The child: fetchHandler and the pipeline it runs.                       *)

ChildOnly == UNCHANGED <<phase, session, conf, ctl, loop, events, stopAsked>>

\* (fault) a restarted chunk runs all its songs again.
WholeSlice(r, c) == Slice(r.targets, c)

\* The songs of the chunk that no earlier run of the job has settled.
Todo(r, c) == {s \in Slice(r.targets, c) : r.items[s] \notin SettledItem}

\* Handler entry.  An empty slice leaves the row alone; a slice with nothing
\* left to do writes the terminal status when it is the last one.
ChildStart(n) ==
  LET j     == loop[n].job
      r     == row[j]
      slice == Slice(r.targets, loop[n].chunk)
      todo  == Todo(r, loop[n].chunk)
      more  == HasMore(r.targets, loop[n].chunk)
      st    == IF loop[n].chunk = 0 THEN "running" ELSE r.status
      last  == slice # {} /\ todo = {} /\ ~more
      stopped == child[n].abort \/ child[n].drain
  IN /\ child[n].pc = "boot" /\ r.status # "none"
     /\ row' = IF slice = {} THEN row
               ELSE [row EXCEPT ![j].status = IF last THEN Verdict(r.cnt, stopped) ELSE st]
     /\ child' = [child EXCEPT ![n].pc = IF todo = {} THEN "sent" ELSE "items",
                               ![n].items = r.items, ![n].cnt = r.cnt,
                               ![n].todo = todo, ![n].more = more]
     /\ ChildOnly /\ UNCHANGED <<attempted, owned>>

\* onItem writes the settled songs S of the child into the row, and the
\* library flow starts their cooldown.
OnItem(n, S, out) ==
  LET j     == loop[n].job
      items == [s \in Songs |-> IF s \in S THEN Stored(out[s]) ELSE row[j].items[s]]
  IN /\ row' = IF S = {} THEN row
               ELSE [row EXCEPT ![j].items = items, ![j].cnt = Recount(items, row[j].targets)]
     /\ attempted' = IF row[j].lib
                     THEN [attempted EXCEPT !["library"] = @ \cup {s \in S : out[s] # "cooling"}]
                     ELSE attempted

\* The pipeline is done with song s.  Once the child has heard of a stop, a
\* song that was not admitted yet (or, on abort, not finished) is cancelled.
\* A song that succeeded reaches the row only with the next flush.
ItemEnd(n, s, o) ==
  /\ child[n].pc = "items" /\ s \in child[n].todo /\ child[n].out[s] = "none"
  /\ \/ o \in Outcomes /\ (o = "cooling" => row[loop[n].job].kind # "upgrade")
     \/ o = "cancelled" /\ (child[n].abort \/ child[n].drain)
  /\ child' = [child EXCEPT ![n].out[s] = o]
  /\ OnItem(n, IF o \in {"done", "cancelled"} THEN {} ELSE {s}, [child[n].out EXCEPT ![s] = o])
  /\ ChildOnly /\ UNCHANGED owned

Unflushed(n) == {s \in child[n].todo : /\ child[n].out[s] = "done"
                                       /\ row[loop[n].job].items[s] # "done"}

\* flush: scan, migrate the library rows, then onItem for each song.
Flush(n) ==
  LET f == row[loop[n].job].kind IN
  /\ child[n].pc = "items" /\ Unflushed(n) # {}
  /\ OnItem(n, Unflushed(n), child[n].out)
  /\ owned' = IF f \in Flows THEN [owned EXCEPT ![f] = @ \cup Unflushed(n)] ELSE owned
  /\ ChildOnly /\ UNCHANGED child

\* The end of the chunk: items and counts as read when the chunk began, with
\* this chunk's outcomes.
ChunkSave(n) ==
  LET c == child[n] j == loop[n].job IN
  /\ c.pc = "items" /\ Unflushed(n) = {} /\ \A s \in c.todo : c.out[s] # "none"
  /\ row' = [row EXCEPT ![j].items = MergeItems(c.items, c.out),
                        ![j].cnt = AddCounts(c.cnt, c.todo, c.out)]
  /\ child' = [child EXCEPT ![n].pc = "saved"]
  /\ ChildOnly /\ UNCHANGED <<attempted, owned>>

\* The terminal status, only after the last chunk; then the result message.
ChunkStatus(n) ==
  LET c == child[n] j == loop[n].job IN
  /\ c.pc = "saved"
  /\ row' = IF c.more THEN row
            ELSE [row EXCEPT ![j].status = Verdict(row[j].cnt, c.abort \/ c.drain)]
  /\ child' = [child EXCEPT ![n].pc = "sent"]
  /\ ChildOnly /\ UNCHANGED <<attempted, owned>>

\* The abort or drain message reaches the child; it is read between two
\* turns of the child's event loop.
DeliverStop(n) ==
  /\ child[n].pc \in {"boot", "items"}
  /\ \/ /\ loop[n].hard /\ ~child[n].abort
        /\ child' = [child EXCEPT ![n].abort = TRUE]
     \/ /\ loop[n].drain /\ ~child[n].drain
        /\ child' = [child EXCEPT ![n].drain = TRUE]
  /\ ChildOnly /\ UNCHANGED <<row, attempted, owned>>

-----------------------------------------------------------------------------
(* The user: routes/api/fetch.ts.  Each request spends one event.          *)

Spend(e) == e \in Events /\ events > 0 /\ events' = events - 1

\* POST /tasks, and the retry of the songs T of an old job.
OpenSingle(lib, T) ==
  /\ \E k \in FreeIds, n \in IdleLoops :
       /\ StartFetchJob([row EXCEPT ![k] = NewRow("single", FALSE, lib, T)], ctl, loop, k, n)
       /\ stopAsked' = stopAsked \ {k}
  /\ UNCHANGED <<phase, session, conf, attempted, owned, child>>

CreateTask == \E T \in (SUBSET Songs) \ {{}} : Spend("single") /\ phase # "down" /\ OpenSingle(FALSE, T)

\* What is not done can be retried; a request names some of it (targetIds), or asks
\* for all of it or for what failed or was cancelled (onlyFailed).
Retryable(j) == {s \in Songs : row[j].items[s] \notin {"none", "done"}}
RetryTask(j) ==
  /\ Spend("retry") /\ phase # "down" /\ row[j].status # "none"
  /\ \E T \in (SUBSET Retryable(j)) \ {{}} : OpenSingle(row[j].lib, T)

\* POST /library/tasks, /upgrade/tasks over the whole pool.  Nothing to do
\* leaves a finished row and no session.
RunFlow(f) ==
  /\ Spend("manual") /\ phase # "down"
  /\ \E k \in FreeIds, n \in IdleLoops :
       /\ IF Batch(f) = {}
          THEN /\ row' = [row EXCEPT ![k] = [NewRow(f, TRUE, f = "library", {}) EXCEPT !.status = "done"]]
               /\ UNCHANGED <<session, attempted, ctl, loop>>
          ELSE OpenBatch(f, row, ctl, loop, k, n)
       /\ stopAsked' = stopAsked \ {k}
  /\ UNCHANGED <<phase, conf, owned, child>>

\* The same routes for named songs: no cooldown check, no chain.
RunNamed(f, T) ==
  /\ Spend("named") /\ phase # "down" /\ T # {} /\ T \cap owned[f] = {}
  /\ \E k \in FreeIds, n \in IdleLoops :
       /\ StartFetchJob([row EXCEPT ![k] = NewRow(f, FALSE, f = "library", T)], ctl, loop, k, n)
       /\ stopAsked' = stopAsked \ {k}
  /\ attempted' = IF f = "upgrade" THEN [attempted EXCEPT ![f] = @ \cup T] ELSE attempted
  /\ UNCHANGED <<phase, session, conf, owned, child>>

\* stopAutoSessionForJob
StopAutoSession(j) ==
  IF InChain(row, j) THEN [session EXCEPT ![row[j].kind] = FALSE] ELSE session

\* finishStop: signal the loop of the job; without a loop an active row is a
\* leftover of an earlier process and is closed here.
FinishStop(j, hard) ==
  /\ phase # "down" /\ row[j].status # "none" /\ (Driven(j) \/ row[j].status \in ActiveSt)
  /\ session' = StopAutoSession(j)
  /\ IF Driven(j)
     THEN /\ loop' = [loop EXCEPT ![ctl[j]].hard = @ \/ hard, ![ctl[j]].drain = @ \/ ~hard]
          /\ stopAsked' = stopAsked \cup {j}
          /\ UNCHANGED row
     ELSE /\ row' = [row EXCEPT ![j].status = "cancelled"]
          /\ UNCHANGED <<loop, stopAsked>>
  /\ UNCHANGED <<phase, conf, attempted, owned, ctl, child>>

Cancel(j)    == Spend("cancel") /\ FinishStop(j, FALSE)
ForceStop(j) == Spend("force") /\ FinishStop(j, TRUE)

\* DELETE /jobs/:id, POST /jobs/clear and the retention cleanup: finished rows only.
DropRows(S) ==
  /\ Spend("delete") /\ phase # "down"
  /\ S # {} /\ \A j \in S : row[j].status \in TerminalSt
  /\ row' = [j \in Jobs |-> IF j \in S THEN NoRow ELSE row[j]]
  /\ UNCHANGED <<phase, session, conf, attempted, owned, proc, stopAsked>>

\* PUT /config, /upgrade/config: switching either switch off ends the chain.
SetAutoEnabled(f, b) ==
  /\ Spend("config") /\ phase # "down"
  /\ autoOn' = [autoOn EXCEPT ![f] = b]
  /\ session' = IF b THEN session ELSE [session EXCEPT ![f] = FALSE]
  /\ UNCHANGED <<phase, row, contOn, due, writable, attempted, owned, proc, stopAsked>>
SetAutoContinue(f, b) ==
  /\ Spend("config") /\ phase # "down"
  /\ contOn' = [contOn EXCEPT ![f] = b]
  /\ session' = IF b THEN session ELSE [session EXCEPT ![f] = FALSE]
  /\ UNCHANGED <<phase, row, autoOn, due, writable, attempted, owned, proc, stopAsked>>

\* POST /library/reset, /upgrade/reset
ResetAttempts(f) ==
  /\ Spend("reset") /\ phase # "down" /\ attempted[f] # {}
  /\ attempted' = [attempted EXCEPT ![f] = {}]
  /\ UNCHANGED <<phase, row, session, conf, owned, proc, stopAsked>>

-----------------------------------------------------------------------------
(* The schedulers' ticks and the restart.                                  *)

\* (fault) the tick does not look at the table.
NeverBusy == FALSE

\* An active job makes both halves of a tick give way.
Busy == ActiveIn(row) # {}

\* resumeLibrarySession, resumeUpgradeSession: the next batch of a chain that
\* gave way or was cut by a restart.
ResumeSession(f) ==
  /\ contOn[f] /\ session[f] /\ ~Busy
  /\ IF Batch(f) = {}
     THEN /\ session' = [session EXCEPT ![f] = FALSE]
          /\ UNCHANGED <<row, attempted, ctl, loop, stopAsked>>
     ELSE \E k \in FreeIds, n \in IdleLoops :
            OpenBatch(f, row, ctl, loop, k, n) /\ stopAsked' = stopAsked \ {k}
  /\ UNCHANGED due

\* runAutoLibraryOnce, runAutoUpgradeOnce: only in a tick whose resume did not
\* take over; a session without the continue switch is cleared by the resume.
RunAutoOnce(f) ==
  /\ ~(contOn[f] /\ session[f]) /\ due[f] /\ ~Busy
  /\ due' = [due EXCEPT ![f] = FALSE]
  /\ \E k \in FreeIds, n \in IdleLoops :
       /\ IF Batch(f) = {}
          THEN /\ row' = [row EXCEPT ![k] = [NewRow(f, TRUE, f = "library", {}) EXCEPT !.status = "done"]]
               /\ session' = [session EXCEPT ![f] = FALSE]
               /\ UNCHANGED <<attempted, ctl, loop>>
          ELSE OpenBatch(f, row, ctl, loop, k, n)
       /\ stopAsked' = stopAsked \ {k}

\* The resume with the continue switch off, and no run due.
DropSession(f) ==
  /\ session[f] /\ ~contOn[f] /\ (~due[f] \/ Busy)
  /\ session' = [session EXCEPT ![f] = FALSE]
  /\ UNCHANGED <<row, attempted, ctl, loop, stopAsked, due>>

SchedulerTick(f) ==
  /\ phase # "down" /\ autoOn[f]
  /\ ResumeSession(f) \/ RunAutoOnce(f) \/ DropSession(f)
  /\ UNCHANGED <<phase, autoOn, contOn, writable, owned, child, events>>

\* The time of the next scheduled run has come.
ComeDue(f) ==
  /\ Spend("due") /\ ~due[f] /\ due' = [due EXCEPT ![f] = TRUE]
  /\ UNCHANGED <<phase, db, autoOn, contOn, writable, proc, stopAsked>>

\* The preflight begins to fail, or to pass again.  The process remembers the
\* directories that passed, so it fails only when the configuration names one
\* that was not probed yet (PUT /config), or that was unwritable from the start.
Remount ==
  /\ Spend("mount") /\ writable' = ~writable
  /\ UNCHANGED <<phase, db, autoOn, contOn, due, proc, stopAsked>>

\* The child dies (out of memory, watchdog, an error of the pipeline); thirty
\* seconds after a hard stop the kill timer needs no further event.
ChildDies(n) ==
  /\ child[n].pc \in {"boot", "items", "saved", "sent"}
  /\ \/ loop[n].hard /\ UNCHANGED events
     \/ Spend("die")
  /\ child' = [child EXCEPT ![n].pc = "dead"]
  /\ UNCHANGED <<phase, db, conf, ctl, loop, stopAsked>>

\* The container stops: node is its first process, so the children go too.
Crash ==
  /\ Spend("crash") /\ phase # "down"
  /\ phase' = "down"
  /\ ctl' = [j \in Jobs |-> NoLoop]
  /\ loop' = [n \in Loops |-> IdleLoop]
  /\ child' = [n \in Loops |-> NoChild]
  /\ UNCHANGED <<db, conf, stopAsked>>

Boot ==
  /\ phase = "down" /\ phase' = "booting"
  /\ UNCHANGED <<db, conf, proc, events, stopAsked>>

\* (fault) only the jobs that had begun to run are resumed.
OnlyRunning == {j \in Jobs : row[j].status = "running" /\ ~Driven(j)}

\* collectInterruptedFetchJobIds without those this process already drives.
Interrupted == {j \in ActiveIn(row) : ~Driven(j)}

\* resumeInterruptedFetchJobs, BOOT_RESUME_DELAY_MS after the start.
ResumeInterruptedFetchJobs ==
  /\ phase = "booting" /\ phase' = "up"
  /\ \E at \in [Interrupted -> IdleLoops] :
       /\ \A i, j \in Interrupted : at[i] = at[j] => i = j
       /\ StartAll(row, ctl, loop, at)
  /\ UNCHANGED <<session, conf, attempted, owned, child, events, stopAsked>>

-----------------------------------------------------------------------------
Init ==
  /\ phase = "booting"
  /\ row = [j \in Jobs |-> NoRow]
  /\ session = [f \in Flows |-> FALSE]
  /\ autoOn = [f \in Flows |-> f \in AutoFlows]
  /\ contOn = [f \in Flows |-> TRUE]
  /\ due = [f \in Flows |-> TRUE]
  /\ attempted = [f \in Flows |-> {}]
  /\ owned = [f \in Flows |-> {}]
  /\ writable = TRUE
  /\ ctl = [j \in Jobs |-> NoLoop]
  /\ loop = [n \in Loops |-> IdleLoop]
  /\ child = [n \in Loops |-> NoChild]
  /\ events = MaxEvents
  /\ stopAsked = {}

ChildStep(n) == \/ ChildStart(n)
                \/ \E s \in Songs, o \in Outcomes \cup {"cancelled"} : ItemEnd(n, s, o)
                \/ Flush(n) \/ ChunkSave(n) \/ ChunkStatus(n) \/ DeliverStop(n)
LoopStep(n)  == Grant(n) \/ ParentResult(n) \/ ParentExit(n) \/ Wake(n)
UserStep     == \/ CreateTask
                \/ \E j \in Jobs : RetryTask(j) \/ Cancel(j) \/ ForceStop(j)
                \/ \E S \in SUBSET Jobs : DropRows(S)
                \/ \E f \in Flows : \/ RunFlow(f) \/ ResetAttempts(f)
                                    \/ \E T \in SUBSET Songs : RunNamed(f, T)
                                    \/ \E b \in BOOLEAN : SetAutoEnabled(f, b) \/ SetAutoContinue(f, b)
Environment  == \/ Remount \/ Crash
                \/ \E f \in Flows : ComeDue(f)
                \/ \E n \in Loops : ChildDies(n)

Next == \/ \E n \in Loops : ChildStep(n) \/ LoopStep(n)
        \/ \E f \in Flows : SchedulerTick(f)
        \/ Boot \/ ResumeInterruptedFetchJobs
        \/ UserStep \/ Environment

Spec == Init /\ [][Next]_vars

\* Timers fire, the batch lock is first come first served, and the pipeline
\* bounds every download by its own timeouts.
Fairness ==
  /\ \A n \in Loops : /\ WF_vars(ChildStep(n))
                      /\ SF_vars(Grant(n))
                      /\ WF_vars(ParentResult(n) \/ ParentExit(n) \/ Wake(n))
  /\ \A f \in Flows : WF_vars(SchedulerTick(f))
  /\ WF_vars(Boot) /\ WF_vars(ResumeInterruptedFetchJobs)

FairSpec == Spec /\ Fairness

-----------------------------------------------------------------------------
(* Properties.                                                             *)

\* A job in service: its row is active or a loop still holds it.  Its row
\* identity is not reused, so what happens to the row happens to this job.
InService(j) == row[j].status \in ActiveSt \/ \E n \in Loops : loop[n].job = j

\* Two loops never drive the same job, whatever the boot resume, the schedulers
\* and the hooks start and in whatever order (the re-entry guard of startFetchJob).
OneLoopPerJob == \A m, n \in Loops : loop[m].job = loop[n].job /\ loop[m].job # NoJob => m = n

\* The map `controllers', the loops and the children fit together: a loop that
\* is awake is the one its job's controllers belong to, so a stop reaches it;
\* a job in the map has a loop; a child runs only for a loop that awaits it.
Wiring ==
  /\ \A n \in Loops : /\ loop[n].pc = "idle" <=> loop[n].job = NoJob
                      /\ loop[n].job # NoJob => ctl[loop[n].job] = n
                      /\ child[n].pc # "none" => loop[n].pc = "child"
  /\ \A j \in Jobs : Driven(j) => loop[ctl[j]].job = j

\* Once the boot resume is done, a row that says pending or running has a loop
\* that drives it, and the stop requests go to that loop: no row is left
\* "running" for ever, blocking every chain behind hasAnyActiveJob.
NoZombieRow == phase = "up" => \A j \in ActiveIn(row) : Driven(j) /\ loop[ctl[j]].job = j

\* The counts of a row agree with its items, through chunks that add to them,
\* items that derive them again, crashes in the middle and resumed runs.
CountsMatchItems ==
  \A j \in Jobs : /\ row[j].cnt.done = Tally(row[j].items, "done")
                  /\ row[j].cnt.failed = Tally(row[j].items, "failed")
                  /\ row[j].cnt.skipped = Tally(row[j].items, "skipped")

\* A job that finished shows as many songs as it was given.
TotalMatchesTargets ==
  \A j \in Jobs : row[j].status \in {"done", "partial"} => row[j].cnt.total = Cardinality(row[j].targets)

\* A song that an earlier run of the job settled is never worked on again and
\* keeps its result (a restarted job skips what it finished).
SettledItemsKept ==
  [][\A j \in Jobs : InService(j) /\ row'[j].status # "none" =>
       \A s \in Songs : row[j].items[s] \in SettledItem => row'[j].items[s] = row[j].items[s]]_vars

\* A stop does not turn a finished job into a cancelled one, however late it
\* comes, as long as the child lived to report its result.
VerdictKept ==
  [][\A j \in Jobs : /\ InService(j) /\ row'[j].status # "none"
                     /\ row[j].status \in {"done", "partial", "failed"}
                     /\ \A n \in Loops : loop[n].job = j => child[n].pc # "dead"
                     => row'[j].status = row[j].status]_vars

\* The same without the exception of a dead child: what the comment at
\* finalizeDrainedFetchJob asks for.
FinishedNeverDowngraded ==
  [][\A j \in Jobs : /\ InService(j) /\ row'[j].status # "none"
                     /\ row[j].status \in {"done", "partial"}
                     => row'[j].status = row[j].status]_vars

\* The loop of job j ends in this step.
Settles(j) == Driven(j) /\ ctl'[j] = NoLoop /\ phase' # "down"
EndsChain(j) == /\ \A k \in Jobs \ {j} : row'[k] = row[k]
                /\ InChain(row, j) => ~session'[row[j].kind]

\* The end of a job the user stopped completely opens no further batch and
\* leaves no session behind, even if the job had finished just before.
ForceStopEndsChain == [][\A j \in Jobs : Settles(j) /\ loop[ctl[j]].hard => EndsChain(j)]_vars

\* The same for a job the user cancelled.
CancelEndsChain == [][\A j \in Jobs : Settles(j) /\ loop[ctl[j]].drain => EndsChain(j)]_vars

\* A job outside the chains (a task of the user, a retry, a batch of named
\* songs) leaves the session of the chain alone when it is stopped or ends.
NamedJobsLeaveChain ==
  [][\A j \in Jobs : /\ Settles(j) \/ j \in stopAsked' \ stopAsked
                     /\ row[j].status # "none" /\ ~row[j].auto
                     => session' = session]_vars

\* A batch of a chain that failed before any of its songs was tried ends the
\* chain, instead of sweeping the pool into cooldown batch after batch.
UntriedBatchEndsChain ==
  [][\A j \in Jobs : /\ InChain(row', j) /\ row'[j].status = "failed" /\ row[j].status # "failed"
                     /\ row'[j].targets # {} /\ row'[j].items = NoItems
                     => ~session'[row'[j].kind]]_vars

\* A job the user stopped is not started again by a later process.
StoppedNotRevived == [][\A j \in stopAsked : ~Driven(j) => ctl'[j] = NoLoop]_vars

\* The automatic batches of all flows never run side by side: each way of
\* opening one looks at the table first.
AutoBatchesAlone == Cardinality(ActiveIn(row)) <= 1

\* Every job ends, whatever stops, deaths and restarts it goes through.
EveryJobSettles == \A j \in Jobs : row[j].status \in ActiveSt ~> row[j].status \notin ActiveSt

\* A chain comes to its end: it neither hangs after giving way to another job
\* or after a restart, nor opens batches for ever.
ChainFinishes == \A f \in Flows : session[f] ~> ~session[f]

=============================================================================
