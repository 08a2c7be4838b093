------------------------------ MODULE BatchGate ------------------------------
(***************************************************************************)
(* The global batch gate of services/plugin/batchPacer.ts, and the calls   *)
(* of runBatchJob (batch/runner.ts) that pass through it, each with the    *)
(* child process it forks.  Everything here runs in the server process, so *)
(* a stretch of code without an await is one action; the child is another  *)
(* process, of which only its messages and its end are seen.               *)
(***************************************************************************)
EXTENDS Naturals, Sequences, FiniteSets

CONSTANTS
  Calls,      \* BOUND: the runBatchJob calls that exist at the same time
  Plugins,    \* plugins with a batch worker
  Floors,     \* values ensureBaseBatchLimit is called with (cfg.maxConcurrentJobs)
  MaxLimit,   \* MAX_BATCH_LIMIT
  MaxChanges  \* BOUND: how often configuration changes the limit

ASSUME GateAssumption ==
  /\ IsFiniteSet(Calls) /\ IsFiniteSet(Plugins)
  /\ Floors \subseteq Nat /\ MaxLimit \in Nat \ {0} /\ MaxChanges \in Nat

VARIABLES
  limit,     \* batchLimit
  floor,     \* batchFloor
  parallel,  \* batchParallelIds
  holders,   \* holders
  pending,   \* pendingLocks
  queue,     \* lockQueue
  call,      \* the calls
  child,     \* the child process of each call
  changes    \* changes of configuration left

conf == <<floor, parallel, changes>>
gate == <<limit, holders, pending, queue>>
vars == <<limit, floor, parallel, holders, pending, queue, call, child, changes>>

\* A call: "out" (not made, or returned), "queued" in the gate, "granted" (its
\* promise is resolved, its continuation still has to run), "running" with a
\* child, "settled" (promise of the child decided, finally still to run).
\* signal: opts.signal is aborted; aborted: the child was told; timer: killTimer.
NoCall == [pc |-> "out", signal |-> FALSE, aborted |-> FALSE, timer |-> FALSE]
CallSt == [pc : {"out", "queued", "granted", "running", "settled"},
            signal : BOOLEAN, aborted : BOOLEAN, timer : BOOLEAN]

TypeOK ==
  /\ limit \in 1..MaxLimit /\ floor \in 1..MaxLimit
  /\ parallel \subseteq Plugins
  /\ holders \in Nat /\ pending \in Nat
  /\ queue \in Seq(Calls)
  /\ call \in [Calls -> CallSt]
  /\ child \in [Calls -> {"none", "working", "killed"}]
  /\ changes \in 0..MaxChanges

Queued == {c \in Calls : call[c].pc = "queued"}
Inside == {c \in Calls : call[c].pc \in {"granted", "running", "settled"}}

-----------------------------------------------------------------------------
(* pumpLock: the first k of the queue are admitted.                        *)

\* (fault) one too many
RoomForOneMore(lim, h, q) ==
  IF h > lim THEN 0 ELSE IF lim + 1 - h < Len(q) THEN lim + 1 - h ELSE Len(q)

\* How many pumpLock admits: while (holders < batchLimit && lockQueue.length > 0)
Room(lim, h, q) ==
  IF h >= lim THEN 0 ELSE IF lim - h < Len(q) THEN lim - h ELSE Len(q)

FirstOf(q, k) == {q[i] : i \in 1..k}
RestOf(q, k) == SubSeq(q, k + 1, Len(q))

\* (fault) the calls that came last are served first.
PumpFromEnd(lim, h, q, f) ==
  LET k == Room(lim, h, q)
      n == Len(q) - k
  IN /\ limit' = lim
     /\ holders' = h + k
     /\ queue' = SubSeq(q, 1, n)
     /\ call' = [c \in Calls |-> IF c \in {q[i] : i \in (n + 1)..Len(q)}
                               THEN [f[c] EXCEPT !.pc = "granted"] ELSE f[c]]

\* pumpLock with the limit lim, on holders h, queue q and calls f.
Pump(lim, h, q, f) ==
  LET k == Room(lim, h, q) IN
  /\ limit' = lim
  /\ holders' = h + k
  /\ queue' = RestOf(q, k)
  /\ call' = [c \in Calls |-> IF c \in FirstOf(q, k) THEN [f[c] EXCEPT !.pc = "granted"] ELSE f[c]]

-----------------------------------------------------------------------------
(* A call of runBatchJob.                                                  *)

\* acquireBatchLock.  A call takes an identity whose last child is gone.
Acquire(c) ==
  /\ call[c].pc = "out" /\ child[c] = "none"
  /\ pending' = pending + 1
  /\ Pump(limit, holders, Append(queue, c), [call EXCEPT ![c].pc = "queued"])
  /\ UNCHANGED <<conf, child>>

\* (fault) a signal that fired while the call waited is not looked at.
ForkOnly(c) ==
  /\ call[c].pc = "granted"
  /\ \/ /\ call' = [call EXCEPT ![c].pc = "running"]
        /\ child' = [child EXCEPT ![c] = "working"]
     \/ /\ call' = [call EXCEPT ![c].pc = "settled"]
        /\ UNCHANGED child
  /\ UNCHANGED <<conf, gate>>

\* The call goes on: fork, and abortNow if the signal has fired meanwhile; or
\* fork throws.
Fork(c) ==
  /\ call[c].pc = "granted"
  /\ \/ /\ call' = [call EXCEPT ![c].pc = "running", ![c].aborted = @ \/ call[c].signal,
                                ![c].timer = @ \/ call[c].signal]
        /\ child' = [child EXCEPT ![c] = "working"]
     \/ /\ call' = [call EXCEPT ![c].pc = "settled"]
        /\ UNCHANGED child
  /\ UNCHANGED <<conf, gate>>

\* The caller aborts; a waiting call stays in the queue.
Abort(c) ==
  /\ call[c].pc \in {"queued", "granted", "running"} /\ ~call[c].signal
  /\ call' = [call EXCEPT ![c].signal = TRUE,
                          ![c].aborted = call[c].pc = "running",
                          ![c].timer   = call[c].pc = "running"]
  /\ UNCHANGED <<conf, gate, child>>

\* settleResult, settleError: once; cleanup stops the timers.
Settled(c) == [call EXCEPT ![c].pc = "settled", ![c].timer = FALSE]

\* The child sends its result or an error, or it is gone without either.
ChildEnds(c) ==
  /\ call[c].pc = "running" /\ child[c] = "working"
  /\ call' = Settled(c)
  /\ child' = [child EXCEPT ![c] = "none"]
  /\ UNCHANGED <<conf, gate>>

\* A quarter of an hour without a message: kill, and settle without waiting for the end.
Watchdog(c) ==
  /\ call[c].pc = "running"
  /\ call' = Settled(c)
  /\ child' = [child EXCEPT ![c] = "killed"]
  /\ UNCHANGED <<conf, gate>>

\* ABORT_GRACE_MS after the abort
KillTimer(c) ==
  /\ call[c].timer
  /\ call' = [call EXCEPT ![c].timer = FALSE]
  /\ child' = [child EXCEPT ![c] = "killed"]
  /\ UNCHANGED <<conf, gate>>

\* The exit event of a killed child
KilledExits(c) ==
  /\ child[c] = "killed"
  /\ child' = [child EXCEPT ![c] = "none"]
  /\ call' = IF call[c].pc = "running" THEN Settled(c) ELSE call
  /\ UNCHANGED <<conf, gate>>

\* (fault) the slot is given back only by calls that were not aborted.
ReleaseUnlessAborted(c) ==
  /\ call[c].pc = "settled"
  /\ pending' = pending - 1
  /\ Pump(limit, IF call[c].aborted THEN holders ELSE holders - 1, queue, [call EXCEPT ![c] = NoCall])
  /\ UNCHANGED <<conf, child>>

\* (fault) pendingLocks counts the waiting calls only.
ReleaseKeepsPending(c) ==
  /\ call[c].pc = "settled"
  /\ Pump(limit, holders - 1, queue, [call EXCEPT ![c] = NoCall])
  /\ UNCHANGED <<conf, child, pending>>

\* The finally block of runBatchJob: release, the call returns.
Release(c) ==
  /\ call[c].pc = "settled"
  /\ pending' = pending - 1
  /\ Pump(limit, holders - 1, queue, [call EXCEPT ![c] = NoCall])
  /\ UNCHANGED <<conf, child>>

-----------------------------------------------------------------------------
(* The limit.                                                              *)

\* (fault) no upper bound
Unbounded(m, n) == n

AtMost(m, n) == IF n < m THEN n ELSE m
AtLeast(m, n) == IF n > m THEN n ELSE m

\* (fault) the waiting calls are not looked at when the limit rises.
LimitOnly(fl, ps) ==
  /\ limit' = AtMost(MaxLimit, AtLeast(fl, AtLeast(1, Cardinality(ps))))
  /\ UNCHANGED <<holders, queue, call>>

\* setBatchConcurrencyLimit(max(batchFloor, batchParallelIds.size, 1))
SetBatchConcurrencyLimit(fl, ps) ==
  Pump(AtMost(MaxLimit, AtLeast(fl, AtLeast(1, Cardinality(ps)))), holders, queue, call)

Change == changes > 0 /\ changes' = changes - 1

EnsureBaseBatchLimit(n) ==
  /\ Change
  /\ floor' = AtMost(MaxLimit, AtLeast(1, n))
  /\ SetBatchConcurrencyLimit(floor', parallel)
  /\ UNCHANGED <<parallel, pending, child>>

RegisterBatchWorker(p) ==
  /\ Change
  /\ parallel' = parallel \cup {p}
  /\ SetBatchConcurrencyLimit(floor, parallel')
  /\ UNCHANGED <<floor, pending, child>>

UnregisterBatchWorker(p) ==
  /\ Change
  /\ parallel' = parallel \ {p}
  /\ SetBatchConcurrencyLimit(floor, parallel')
  /\ UNCHANGED <<floor, pending, child>>

-----------------------------------------------------------------------------
Init ==
  /\ limit = 1 /\ floor = 1 /\ parallel = {}
  /\ holders = 0 /\ pending = 0 /\ queue = <<>>
  /\ call = [c \in Calls |-> NoCall]
  /\ child = [c \in Calls |-> "none"]
  /\ changes = MaxChanges

CallStep(c) ==
  \/ Acquire(c) \/ Fork(c) \/ Abort(c) \/ ChildEnds(c) \/ Watchdog(c)
  \/ KillTimer(c) \/ KilledExits(c) \/ Release(c)

Next ==
  \/ \E c \in Calls : CallStep(c)
  \/ \E n \in Floors : EnsureBaseBatchLimit(n)
  \/ \E p \in Plugins : RegisterBatchWorker(p) \/ UnregisterBatchWorker(p)

Spec == Init /\ [][Next]_vars

\* Continuations and timers run, and a killed process ends.  Nothing is
\* assumed of a child that is not killed, nor of the callers.
Fairness ==
  \A c \in Calls : WF_vars(Fork(c)) /\ WF_vars(Release(c)) /\ WF_vars(KillTimer(c)) /\ WF_vars(KilledExits(c))

FairSpec == Spec /\ Fairness

-----------------------------------------------------------------------------
(* Properties.                                                             *)

\* The queue lists the waiting calls, each once.
QueueFits ==
  /\ \A c \in Calls : c \in Queued <=> \E i \in 1..Len(queue) : queue[i] = c
  /\ \A i, j \in 1..Len(queue) : queue[i] = queue[j] => i = j

\* The two counters agree with the calls they count, however a call ends: a
\* slot is neither lost (the gate would close for ever) nor given back twice,
\* and isBatchBusy tells the truth.
Accounts ==
  /\ QueueFits
  /\ holders = Cardinality(Inside)
  /\ pending = Cardinality(Inside) + Len(queue)

\* No call waits while there is room, also right after the limit was raised.
NoIdleSlot == queue # <<>> => holders >= limit

\* Nobody is let in beyond the limit of that moment; lowering the limit only
\* waits for calls to end.
Lock == INSTANCE BatchLock WITH cap <- limit, waiting <- Queued, inside <- Inside
ImplementsLock == Lock!Spec

\* Calls are let in in the order in which they came.
FirstComeFirstServed ==
  [][\A i, j \in 1..Len(queue) : i < j /\ queue[j] \in Inside' => queue[i] \in Inside']_vars

\* A call that the caller aborted returns, even if the child never reacts.
AbortedCallReturns == \A c \in Calls : call[c].pc # "queued" /\ call[c].signal ~> call[c].pc = "out"

\* As long as no child works for ever, every waiting call is let in, whatever
\* happens to the limit.
EveryCallServed ==
  (\A c \in Calls : []<>(call[c].pc # "running")) => \A c \in Calls : call[c].pc = "queued" ~> call[c].pc # "queued"

=============================================================================
