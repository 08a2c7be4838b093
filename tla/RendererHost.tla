---------------------------- MODULE RendererHost ----------------------------
(***************************************************************************)
(* The host of a long-lived renderer process (sendspin, AirPlay):          *)
(* RendererHostSupervisor, which forks the process, waits until it is      *)
(* ready, watches it, starts it again after a crash, and stops it.         *)
(*                                                                         *)
(* The server is single threaded.  A process that dies is first dead, and  *)
(* gone when its exit event has been handled: in between the host may have *)
(* forked the next one.  Every wait for mainReady has its own listeners,   *)
(* but one field, pendingBootCleanup, serves them all.                     *)
(*                                                                         *)
(* start looks at `running' alone, so a call may come upon what an earlier *)
(* one has left: a start under way, a process too slow to be ready in      *)
(* time, a killed one whose exit is still to come, a respawn timer.        *)
(***************************************************************************)
EXTENDS Naturals, FiniteSets

CONSTANTS
  Procs,      \* BOUND: the processes there may be at a time
  Calls,      \* the requests to the process that may be under way
  Starts,     \* BOUND: how many times the service is switched on
  Faults,     \* what goes wrong: "crash", "hang", "slow"
  MaxFaults,  \* BOUND: how many times
  NoProc

ASSUME HostAssumption ==
  /\ NoProc \notin Procs
  /\ Starts \in Nat /\ MaxFaults \in Nat
  /\ IsFiniteSet(Procs)
  /\ Faults \subseteq {"crash", "hang", "slow"}

VARIABLES
  proc,      \* the processes
  hello,     \* mainReady is under way
  wait,      \* spawnAndWait(p) is not settled, on behalf of start or of a respawn
  heard,     \* its listeners and its timer are in place
  child,     \* this.child
  cleanup,   \* the process whose listeners pendingBootCleanup removes
  running, stopping,
  timers,    \* the respawn timers that run
  handle,    \* respawnTimer # null
  checker,   \* heartbeatCheck # null
  quiet,     \* no message for longer than the watchdog allows
  rpc,       \* the process each pending request was sent to
  starts, faults,    \* left
  met        \* history: the starts that came upon something, since the last that did not

host   == <<child, cleanup, running, stopping, timers, handle, checker>>
procs  == <<proc, hello, wait, heard>>
vars   == <<procs, host, quiet, rpc, starts, faults, met>>

Alive(p)  == proc[p] \in {"boot", "ready", "hung"}
Living    == {p \in Procs : Alive(p)}
Lives     == {p \in Procs : proc[p] # "gone"}
Clear     == Lives = {} /\ timers = 0

TypeOK ==
  /\ proc \in [Procs -> {"gone", "boot", "ready", "hung", "dead"}]
  /\ hello \in [Procs -> BOOLEAN] /\ heard \in [Procs -> BOOLEAN]
  /\ wait \in [Procs -> {"none", "start", "respawn"}]
  /\ child \in Procs \cup {NoProc} /\ cleanup \in Procs \cup {NoProc}
  /\ running \in BOOLEAN /\ stopping \in BOOLEAN
  /\ timers \in Nat /\ handle \in BOOLEAN /\ (handle => timers > 0)
  /\ checker \in BOOLEAN /\ quiet \in BOOLEAN
  /\ rpc \in [Calls -> Procs \cup {NoProc}]
  /\ starts \in 0..Starts /\ faults \in 0..MaxFaults /\ met \in 0..(Starts - starts)

Init ==
  /\ proc = [p \in Procs |-> "gone"]
  /\ hello = [p \in Procs |-> FALSE] /\ heard = hello
  /\ wait = [p \in Procs |-> "none"]
  /\ child = NoProc /\ cleanup = NoProc
  /\ running = FALSE /\ stopping = FALSE
  /\ timers = 0 /\ handle = FALSE /\ checker = FALSE /\ quiet = FALSE
  /\ rpc = [c \in Calls |-> NoProc]
  /\ starts = Starts /\ faults = MaxFaults /\ met = 0

-----------------------------------------------------------------------------
(* start, stop and the respawn.                                            *)

\* spawnAndWait up to its await.
Spawn(p, who) ==
  /\ proc[p] = "gone" /\ wait[p] = "none"
  /\ proc' = [proc EXCEPT ![p] = "boot"]
  /\ wait' = [wait EXCEPT ![p] = who] /\ heard' = [heard EXCEPT ![p] = TRUE]
  /\ child' = p /\ cleanup' = p
  /\ UNCHANGED hello

Spend(e) == e \in Faults /\ faults > 0 /\ faults' = faults - 1

\* start, by the plugin page, a cast or the start of the server.
Start(p) ==
  /\ starts > 0 /\ starts' = starts - 1
  /\ ~running
  /\ stopping' = FALSE
  /\ met' = IF Clear THEN 0 ELSE met + 1
  /\ Spawn(p, "start")
  /\ UNCHANGED <<running, timers, handle, checker, quiet, rpc, faults>>

\* (fault) the process is asked, never killed.
ForgetChild == UNCHANGED proc /\ child' = NoProc

\* killChild: the host forgets the process at once, the exit comes later.
KillChild ==
  /\ proc' = [p \in Procs |-> IF p = child /\ Alive(p) THEN "dead" ELSE proc[p]]
  /\ child' = NoProc

\* (fault) stop leaves the respawn timer alone.
StopKeepsTimer ==
  /\ running \/ child # NoProc
  /\ stopping' = TRUE /\ running' = FALSE /\ checker' = FALSE
  /\ KillChild
  /\ UNCHANGED <<hello, wait, heard, cleanup, timers, handle, quiet, rpc, starts, faults, met>>

\* stop.  running is cleared first, so the stop request that should let the
\* process end by itself is refused by rpc, and the process is killed.
Stop ==
  /\ running \/ child # NoProc
  /\ stopping' = TRUE /\ running' = FALSE /\ checker' = FALSE
  /\ timers' = IF handle THEN timers - 1 ELSE timers
  /\ handle' = FALSE
  /\ KillChild
  /\ UNCHANGED <<hello, wait, heard, cleanup, quiet, rpc, starts, faults, met>>

\* (fault) the timer leaves its handle behind.
RespawnKeepsHandle ==
  /\ timers > 0 /\ timers' = timers - 1
  /\ IF running
     THEN \E p \in Procs : Spawn(p, "respawn")
     ELSE UNCHANGED <<procs, child, cleanup>>
  /\ UNCHANGED <<running, stopping, handle, checker, quiet, rpc, starts, faults, met>>

\* The respawn timer.
Respawn ==
  /\ timers > 0 /\ timers' = timers - 1 /\ handle' = FALSE
  /\ IF running
     THEN \E p \in Procs : Spawn(p, "respawn")
     ELSE UNCHANGED <<procs, child, cleanup>>
  /\ UNCHANGED <<running, stopping, checker, quiet, rpc, starts, faults, met>>

-----------------------------------------------------------------------------
(* The wait for mainReady ends in one of three ways.                       *)

\* cleanup of spawnAndWait(p); it empties pendingBootCleanup, whoever's it is.
Settles(p) == wait' = [wait EXCEPT ![p] = "none"] /\ heard' = [heard EXCEPT ![p] = FALSE]

\* (fault) start forgets the watchdog.
NoWatchdog == UNCHANGED checker

\* startHeartbeatCheck
Watchdog == checker' = TRUE

\* mainReady arrives.  Without its listeners it only feeds the watchdog.
MainReady(p) ==
  /\ hello[p] /\ proc[p] # "gone"
  /\ hello' = [hello EXCEPT ![p] = FALSE] /\ quiet' = FALSE
  /\ IF heard[p]
     THEN /\ Settles(p) /\ cleanup' = NoProc
          /\ IF wait[p] = "start"
             THEN running' = TRUE /\ Watchdog
             ELSE UNCHANGED <<running, checker>>
     ELSE UNCHANGED <<wait, heard, cleanup, running, checker>>
  /\ UNCHANGED <<proc, child, stopping, timers, handle, rpc, starts, faults, met>>

\* (fault) a respawn that takes too long is tried again.
RetriesRespawn(p) ==
  IF wait[p] = "respawn"
  THEN timers' = timers + 1 /\ handle' = TRUE /\ UNCHANGED running
  ELSE UNCHANGED <<timers, handle, running>>

\* A respawn that fails ends the service; a start that fails throws.
RespawnFails(p) ==
  /\ running' = (running /\ wait[p] # "respawn")
  /\ UNCHANGED <<timers, handle>>

\* (fault) only a respawn has a time limit.
StartHasNoLimit(p) == heard[p] /\ wait[p] = "respawn"

\* Who waits has a time limit as long as his listeners are in place.
HasLimit(p) == heard[p]

\* The process took too long, because it hangs or is slow; it is not killed.
BootTimeout(p) ==
  /\ HasLimit(p)
  /\ IF proc[p] \in {"boot", "ready"} THEN Spend("slow") ELSE UNCHANGED faults
  /\ Settles(p) /\ cleanup' = NoProc
  /\ RespawnFails(p)
  /\ UNCHANGED <<proc, hello, child, stopping, checker, quiet, rpc, starts, met>>

\* (fault) the requests of the dead process stay.
RpcsKept == UNCHANGED rpc

\* All pending requests are rejected, whichever process they were sent to.
RpcsRejected == rpc' = [c \in Calls |-> NoProc]

\* The exit of a process: onExit, then the wait of that process, if its
\* listeners were in place when the event came.
Exit(p) ==
  /\ proc[p] = "dead" /\ proc' = [proc EXCEPT ![p] = "gone"]
  /\ hello' = [hello EXCEPT ![p] = FALSE]
  /\ child' = NoProc /\ cleanup' = NoProc
  /\ heard' = [q \in Procs |-> heard[q] /\ q \notin {cleanup, p}]
  /\ wait' = IF heard[p] THEN [wait EXCEPT ![p] = "none"] ELSE wait
  /\ RpcsRejected
  /\ IF stopping \/ ~running
     THEN UNCHANGED <<timers, handle>>
     ELSE timers' = timers + 1 /\ handle' = TRUE
  /\ running' = (running /\ ~(heard[p] /\ wait[p] = "respawn"))
  /\ UNCHANGED <<stopping, checker, quiet, starts, faults, met>>

-----------------------------------------------------------------------------
(* The watchdog and the requests.                                          *)

\* No process has sent anything for 65 seconds.  The longest delay of a respawn
\* and the longest boot last 60 together, so neither is under way.
Silence ==
  /\ ~quiet /\ timers = 0
  /\ \A p \in Procs : ~heard[p] /\ proc[p] \in {"gone", "hung", "boot"}
  /\ quiet' = TRUE
  /\ UNCHANGED <<procs, host, rpc, starts, faults, met>>

\* Every ten seconds.  A process that is still starting is killed as well.
HeartbeatCheck ==
  /\ checker /\ running /\ quiet /\ child # NoProc
  /\ KillChild
  /\ UNCHANGED <<hello, wait, heard, cleanup, running, stopping, timers, handle, checker,
                 quiet, rpc, starts, faults, met>>

Rpc(c) ==
  /\ rpc[c] = NoProc /\ child # NoProc /\ running
  /\ rpc' = [rpc EXCEPT ![c] = child]
  /\ UNCHANGED <<procs, host, quiet, starts, faults, met>>

\* The answer comes, or the request times out.
RpcEnds(c) ==
  /\ rpc[c] # NoProc /\ rpc' = [rpc EXCEPT ![c] = NoProc]
  /\ UNCHANGED <<procs, host, quiet, starts, faults, met>>

-----------------------------------------------------------------------------
(* The processes.                                                          *)

\* The runtime of the process is up.
Boots(p) ==
  /\ proc[p] = "boot"
  /\ proc' = [proc EXCEPT ![p] = "ready"] /\ hello' = [hello EXCEPT ![p] = TRUE]
  /\ UNCHANGED <<wait, heard, host, quiet, rpc, starts, faults, met>>

Crash(p) ==
  /\ Spend("crash") /\ Alive(p)
  /\ proc' = [proc EXCEPT ![p] = "dead"]
  /\ UNCHANGED <<hello, wait, heard, host, quiet, rpc, starts, met>>

Hang(p) ==
  /\ Spend("hang") /\ proc[p] \in {"boot", "ready"}
  /\ proc' = [proc EXCEPT ![p] = "hung"]
  /\ UNCHANGED <<hello, wait, heard, host, quiet, rpc, starts, met>>

ProcStep(p) == MainReady(p) \/ BootTimeout(p) \/ Exit(p)

Next ==
  \/ \E p \in Procs : Start(p) \/ ProcStep(p) \/ Boots(p) \/ Crash(p) \/ Hang(p)
  \/ Stop \/ Respawn \/ Silence \/ HeartbeatCheck
  \/ \E c \in Calls : Rpc(c) \/ RpcEnds(c)

Spec == Init /\ [][Next]_vars

\* Timers fire, a process that is not slow starts, and events that have happened are delivered.
FairSpec ==
  /\ Spec
  /\ WF_vars(Respawn) /\ WF_vars(Silence) /\ WF_vars(HeartbeatCheck)
  /\ \A p \in Procs : WF_vars(ProcStep(p)) /\ WF_vars(Boots(p))

-----------------------------------------------------------------------------
(* Properties.                                                             *)

\* A request never outlives the process it was sent to: once the exit of the
\* process is known, nobody waits for its answer.
NoOrphanRpc == \A c \in Calls : rpc[c] # NoProc => proc[rpc[c]] # "gone"

\* Nothing in the host multiplies processes: an exit leaves at most a timer, a
\* timer makes at most a process, and what gives up on a process makes neither.
\* Every one beyond the first is owed to a start that came upon something.
NoTwinUnlessMet == Cardinality(Lives) + timers <= 1 + met

\* The host loses sight of a living process only by starts that came upon
\* something, of one for each; where there was none, stop and watchdog reach it.
SlippedOnlyIfMet == Cardinality(Living \ {child}) <= met

\* What lives on after stop, or comes later from a timer stop did not reach, is
\* owed to such starts as well, though stop kills nothing if an exit has just
\* cleared this.child, and clears but one of the timers.
StopReachesUnlessMet == stopping => Cardinality(Living) + timers <= met

\* As long as the service counts as running and was not told to stop, a process
\* that crashed, hung or was killed is replaced by one that is ready, unless a
\* start came upon something.
Recovers ==
  running ~> \/ ~running \/ stopping \/ met > 0
             \/ child # NoProc /\ proc[child] = "ready"

\* start returns, unless another came upon something: the process is ready, or
\* it failed, or it took too long.
StartSettles ==
  \A p \in Procs : (wait[p] = "start" /\ Alive(p)) ~> (wait[p] = "none" \/ met > 0)

-----------------------------------------------------------------------------
(* Expectations the code does not meet.                                    *)

\* Two processes would fight for the same ports and devices.
OneAlive == \A p, r \in Procs : Alive(p) /\ Alive(r) => p = r

\* A service that is switched off leaves no process behind (the comment at
\* supervisor.ts:144: it cleans up and ends by itself, or is killed).
StoppedIsDead == stopping => \A p \in Procs : ~Alive(p)

\* A service that counts as running has a ready process again and again.
RunsIfRunning == running ~> (~running \/ (child # NoProc /\ proc[child] = "ready"))

\* start always returns.
StartReturns == \A p \in Procs : (wait[p] = "start") ~> (wait[p] = "none")

\* A process that stops answering is killed and started again; only stop ends
\* the service.
SurvivesHang == running ~> (stopping \/ (child # NoProc /\ proc[child] = "ready"))
=============================================================================
