----------------------------- MODULE BridgeRoutes -----------------------------
(***************************************************************************)
(* The AirPlay bridges of one player group: which devices the group plays  *)
(* on through the pump of the sendspin process.                            *)
(*                                                                         *)
(* A bridge is a device with a token, and four places know of it: the      *)
(* route of the group and the owner of the device in the server, the       *)
(* session in the AirPlay process, the handle in the pump.  No operation   *)
(* changes the four together; a reconciler compares the route with the     *)
(* sessions and the handles once a minute and removes what it does not     *)
(* know.  The server is single threaded; commands reach a process in the   *)
(* order they were sent, and a process changes its tables before it waits. *)
(* The group has AirPlay members, and perhaps DLNA ones; bridges are on.   *)
(***************************************************************************)
EXTENDS Naturals, Sequences, FiniteSets, SequencesExt

CONSTANTS
  Devs,
  Tokens,     \* BOUND: the bridges of a device that are known somewhere
  Arrays,     \* BOUND: the route arrays that are in use
  Tasks,      \* BOUND: the operations that may be under way
  Ops,        \* the operations: "play", "stop", "resume", "join", "leave",
              \* and "heal", a join to a group that has no route
  Faults,     \* "refuse", "slow", "loss", "cast", "pump", "crash"
  MaxFaults,  \* BOUND: how many
  None

ASSUME BridgeAssumption ==
  /\ IsFiniteSet(Devs) /\ None \notin Devs \cup Tokens \cup Arrays
  /\ Ops \subseteq {"play", "stop", "resume", "join", "leave", "heal"}
  /\ Faults \subseteq {"refuse", "slow", "loss", "cast", "pump", "crash"}
  /\ MaxFaults \in Nat

VARIABLES
  arr, active,     \* the route arrays, and the one in activeBridgeRoutes
  owner,           \* bridgeOwners
  session,         \* the sessions of the AirPlay process
  broken,          \* those whose link is lost
  late,            \* handshakes nobody waits for
  handle,          \* the handles of the pump
  rebuild,         \* the AirPlay process was started again
  playing,         \* the last thing that succeeded was a play
  task,            \* the operations
  seen, round,     \* bridgeOrphanFirstSeen, and the round of the reconciler
  faults,
  byPlay           \* history: the route was registered by a play

server == <<arr, active, owner>>
child  == <<session, broken, late>>
aside  == <<rebuild, playing, seen, round, byPlay>>
vars   == <<server, child, handle, task, aside, faults>>

Bridges     == Devs \X Tokens
DevsOf(S)   == {s[1] : s \in S}
Route       == IF active = None THEN <<>> ELSE arr[active]
Routed      == ToSet(Route)
RoutedDevs  == DevsOf(Routed)

\* The first entry of a device.
TokenIn(r, d) ==
  IF d \notin DevsOf(ToSet(r)) THEN None
  ELSE r[CHOOSE i \in DOMAIN r : r[i][1] = d /\ \A j \in 1..(i - 1) : r[j][1] # d][2]

\* What the pump has after syncGroupBridges.
HandlesOf(r) == [d \in Devs |-> TokenIn(r, d)]
NoHandles    == [d \in Devs |-> None]

NoRound == [at |-> "idle", bridges |-> {}, handles |-> {}, sessions |-> {}]
Idle    == [op |-> "none", at |-> "idle", a |-> None, dev |-> None, i |-> 0,
            tok |-> [d \in Devs |-> None], ask |-> [d \in Devs |-> "no"],
            old |-> FALSE, res |-> "ok"]

AskSt   == {"no", "sent", "up", "down", "ok", "failed"}
TaskSt  == [op : (Ops \ {"heal"}) \cup {"none", "rebuild", "join"},
            at : {"idle", "stopping", "prepare", "cast", "sync", "next", "fan"},
            a : Arrays \cup {None}, dev : Devs \cup {None}, i : Nat,
            tok : [Devs -> Tokens \cup {None}], ask : [Devs -> AskSt],
            old : BOOLEAN, res : {"ok", "unsent", "threw"}]
RoundSt == [at : {"idle", "handles", "sessions", "reap"}, bridges : SUBSET Bridges,
            handles : SUBSET Devs, sessions : SUBSET Bridges]

TypeOK ==
  /\ arr \in [Arrays -> Seq(Bridges)] /\ active \in Arrays \cup {None}
  /\ owner \in [Devs -> Tokens \cup {None}] /\ handle \in [Devs -> Tokens \cup {None}]
  /\ session \subseteq Bridges /\ broken \subseteq session /\ late \subseteq Bridges
  /\ rebuild \in BOOLEAN /\ playing \in BOOLEAN
  /\ task \in [Tasks -> TaskSt] /\ \A t \in Tasks : task[t].op = "none" => task[t] = Idle
  /\ seen \in [handles : SUBSET Devs, sessions : SUBSET Bridges] /\ round \in RoundSt
  /\ faults \in 0..MaxFaults /\ byPlay \in BOOLEAN

Init ==
  /\ arr = [a \in Arrays |-> <<>>] /\ active = None
  /\ owner = NoHandles /\ handle = NoHandles
  /\ session = {} /\ broken = {} /\ late = {}
  /\ rebuild = FALSE /\ playing = FALSE
  /\ task = [t \in Tasks |-> Idle]
  /\ seen = [handles |-> {}, sessions |-> {}] /\ round = NoRound
  /\ faults = MaxFaults /\ byPlay = FALSE

-----------------------------------------------------------------------------
(* Helpers of the operations.                                              *)

Spend(e) == e \in Faults /\ faults > 0 /\ faults' = faults - 1

\* Tokens and arrays nobody has.
Fresh(d) ==
  {k \in Tokens :
     /\ k \notin {owner[d], handle[d]}
     /\ <<d, k>> \notin session \cup late \cup seen.sessions \cup round.bridges \cup round.sessions
     /\ \A a \in Arrays : <<d, k>> \notin ToSet(arr[a])
     /\ \A t \in Tasks : task[t].tok[d] # k}
FreeArrays == {a \in Arrays : a # active /\ \A t \in Tasks : task[t].a # a}

\* The arrays after a step; what nobody holds is gone.
Keep(r) == arr' = [a \in Arrays |->
                     IF a = active' \/ \E t \in Tasks : task'[t].a = a THEN r[a] ELSE <<>>]

\* findIndex and splice: the first entry that is s leaves the array.
Without(r, s) ==
  IF s \notin ToSet(r) THEN r
  ELSE RemoveAt(r, CHOOSE i \in DOMAIN r : r[i] = s /\ \A j \in 1..(i - 1) : r[j] # s)

\* bridgeStopDevice of each bridge: the owner of the device goes, whatever its
\* token; the session goes, if there is one by now.
StopDevice(S) ==
  /\ owner' = [d \in Devs |-> IF d \in DevsOf(S) THEN None ELSE owner[d]]
  /\ session' = session \ S /\ broken' = broken \ S

\* (fault) the route is kept for the next song.
KeepRoute == UNCHANGED <<active, owner, session, broken>>

\* teardownBridgeRoute
Teardown == active' = None /\ StopDevice(Routed)

\* The AirPlay process is asked to prepare the bridges of S.  A session with the
\* same token and a link is used again, any other of the device is stopped first.
Warm(S) == S \cap (session \ broken)

\* (fault) the lost link outlives its session.
LinkStaysLost(S) ==
  /\ session' = {s \in session : s \in Warm(S) \/ s[1] \notin DevsOf(S \ Warm(S))}
  /\ UNCHANGED broken
ChildPrepares(S) ==
  /\ session' = {s \in session : s \in Warm(S) \/ s[1] \notin DevsOf(S \ Warm(S))}
  /\ broken' = broken \cap session'

\* The questions of a task that prepares S.
Asked(S) == [d \in Devs |-> IF d \notin DevsOf(S) THEN "no"
                            ELSE IF \E k \in Tokens : <<d, k>> \in Warm(S) THEN "up" ELSE "sent"]
Settled(t)  == \A d \in Devs : task[t].ask[d] \in {"no", "ok", "failed"}
Prepared(t) == {<<d, task[t].tok[d]>> : d \in {e \in Devs : task[t].ask[e] = "ok"}}

\* sendspinGroupBridgeSync(r): the pump does it and says so, or it does not run and
\* has no handles, or the call throws whatever the pump did.
Sync(r, res) ==
  \/ res = "ok" /\ handle' = HandlesOf(r) /\ UNCHANGED faults
  \/ res = "unsent" /\ Spend("pump") /\ handle' = NoHandles
  \/ res = "threw" /\ Spend("pump") /\ handle' \in {handle, HandlesOf(r), NoHandles}

Begin(t, r) == task' = [task EXCEPT ![t] = [r EXCEPT !.old = round.at # "idle"]]
End(t)      == task' = [task EXCEPT ![t] = Idle]
Moves(t, at) == task' = [task EXCEPT ![t].at = at]
Results     == {"ok", "unsent", "threw"}

-----------------------------------------------------------------------------
(* Playing, resuming and stopping the group.                               *)

\* playMedia: the bridges of devices that are no longer there are stopped.
Play(t, on) ==
  /\ "play" \in Ops /\ task[t] = Idle
  /\ StopDevice({s \in Routed : s[1] \notin on})
  /\ Begin(t, [Idle EXCEPT !.op = "play", !.at = "stopping", !.a = active,
                           !.tok = [d \in Devs |-> IF d \in on THEN TokenIn(Route, d) ELSE None],
                           !.ask = [d \in Devs |-> IF d \in on THEN "failed" ELSE "no"]])
  /\ UNCHANGED <<arr, active, late, handle, aside, faults>>

\* prepareBridgeRoute: the others keep their token, new ones get one.
PlayPrepares(t) ==
  /\ task[t].op = "play" /\ task[t].at = "stopping"
  /\ LET on  == {d \in Devs : task[t].ask[d] # "no"}
         tok == [d \in Devs |-> IF d \in on /\ task[t].tok[d] = None
                                THEN CHOOSE k \in Fresh(d) : TRUE ELSE task[t].tok[d]]
         S   == {<<d, tok[d]>> : d \in on}
     IN /\ \A d \in on : task[t].tok[d] # None \/ Fresh(d) # {}
        /\ ChildPrepares(S)
        /\ task' = [task EXCEPT ![t].at = "prepare", ![t].tok = tok, ![t].ask = Asked(S)]
  /\ UNCHANGED <<server, late, handle, aside, faults>>

\* resume, up to its first await: a group without a route gets one first
\* (ensureBridgeRouteOnResume), if it has a device to prepare.
Resume(t, on) ==
  /\ "resume" \in Ops /\ task[t] = Idle
  /\ IF active # None \/ on = {}
     THEN /\ Begin(t, [Idle EXCEPT !.op = "resume", !.at = "fan"])
          /\ UNCHANGED <<session, broken>>
     ELSE LET tok == [d \in Devs |-> IF d \in on THEN CHOOSE k \in Fresh(d) : TRUE ELSE None]
              S   == {<<d, tok[d]>> : d \in on}
          IN /\ \A d \in on : Fresh(d) # {}
             /\ ChildPrepares(S)
             /\ Begin(t, [Idle EXCEPT !.op = "resume", !.at = "prepare", !.tok = tok,
                                      !.ask = Asked(S)])
  /\ UNCHANGED <<server, late, handle, aside, faults>>

\* The route is registered and the pump told, if any device answered; a sync that
\* throws is passed over.
ResumeSyncs(t) ==
  /\ task[t].op = "resume" /\ task[t].at = "prepare" /\ Settled(t)
  /\ task' = [task EXCEPT ![t] = [Idle EXCEPT !.op = "resume", !.at = "fan", !.old = task[t].old]]
  /\ IF Prepared(t) = {}
     THEN UNCHANGED <<arr, active, handle, faults, byPlay>>
     ELSE \E a \in FreeArrays, res \in Results :
            /\ active' = a /\ Keep([arr EXCEPT ![a] = SetToSeq(Prepared(t))])
            /\ Sync(SetToSeq(Prepared(t)), res)
            /\ byPlay' = FALSE
  /\ UNCHANGED <<owner, child, rebuild, playing, seen, round>>

\* The DLNA members and the pump are told to go on.  The pump may throw, or find
\* nothing to play; the route stays as it is.
ResumeEnds(t) ==
  /\ task[t].op = "resume" /\ task[t].at = "fan"
  /\ End(t)
  /\ playing' \in {playing, TRUE}
  /\ UNCHANGED <<server, child, handle, rebuild, seen, round, faults, byPlay>>

\* The devices that did not answer in time or not well are left out; without any,
\* the route of the song before is torn down.
PlayCasts(t) ==
  /\ task[t].op = "play" /\ task[t].at = "prepare" /\ Settled(t)
  /\ IF Prepared(t) # {}
     THEN \E a \in FreeArrays :
            /\ active' = a
            /\ task' = [task EXCEPT ![t].at = "cast", ![t].a = a]
            /\ byPlay' = TRUE
            /\ Keep([arr EXCEPT ![a] = SetToSeq(Prepared(t))])
            /\ UNCHANGED <<owner, session, broken>>
     ELSE /\ task' = [task EXCEPT ![t].at = "cast", ![t].a = None]
          /\ IF task[t].a # None THEN Teardown ELSE UNCHANGED <<active, owner, session, broken>>
          /\ Keep(arr) /\ UNCHANGED byPlay
  /\ UNCHANGED <<late, handle, rebuild, playing, seen, round, faults>>

\* The casts: the pump takes the route over, or only DLNA members play, or none;
\* then the route is torn down.
CastEnds(t) ==
  /\ task[t].op = "play" /\ task[t].at = "cast"
  /\ End(t)
  /\ \/ /\ task[t].a # None /\ handle' = HandlesOf(arr[task[t].a])
        /\ playing' = TRUE
        /\ UNCHANGED <<active, owner, session, broken, faults>>
     \/ /\ IF task[t].a # None
           THEN Spend("cast") /\ handle' \in {handle, HandlesOf(arr[task[t].a]), NoHandles}
           ELSE UNCHANGED <<handle, faults>>
        /\ \/ playing' = TRUE /\ UNCHANGED <<active, owner, session, broken>>
           \/ playing' = FALSE /\ Teardown
  /\ Keep(arr)
  /\ UNCHANGED <<late, rebuild, seen, round, byPlay>>

\* stop: the pump is told, if there is a route; it drops its handles.
Stop(t) ==
  /\ "stop" \in Ops /\ task[t] = Idle
  /\ \E res \in Results :
       /\ IF active = None THEN res = "ok" /\ UNCHANGED <<handle, faults>> ELSE Sync(<<>>, res)
       /\ Begin(t, [Idle EXCEPT !.op = "stop", !.at = "sync", !.res = res])
  /\ UNCHANGED <<server, child, aside>>

\* A call that throws leaves the route as it is.
StopTears(t) ==
  /\ task[t].op = "stop" /\ task[t].at = "sync"
  /\ End(t)
  /\ IF task[t].res = "threw"
     THEN UNCHANGED <<active, owner, session, broken, playing>>
     ELSE Teardown /\ playing' = FALSE
  /\ Keep(arr)
  /\ UNCHANGED <<late, handle, rebuild, seen, round, faults, byPlay>>

-----------------------------------------------------------------------------
(* Devices that join and leave while the group plays.                      *)

\* bridgeJoinMember; a group that is not registered is, if a bridge has the device.
Join(t, d) ==
  /\ task[t] = Idle
  /\ \/ "join" \in Ops /\ active # None
     \/ "heal" \in Ops /\ active = None /\ owner[d] # None
  /\ d \notin RoutedDevs /\ Fresh(d) # {}
  /\ LET k == CHOOSE x \in Fresh(d) : TRUE
     IN \E a \in IF active = None THEN FreeArrays ELSE {active} :
          /\ active' = a /\ byPlay' = (byPlay /\ active # None)
          /\ ChildPrepares({<<d, k>>})
          /\ Begin(t, [Idle EXCEPT !.op = "join", !.at = "prepare", !.a = a, !.dev = d,
                                   !.tok[d] = k, !.ask = Asked({<<d, k>>})])
  /\ UNCHANGED <<arr, owner, late, handle, rebuild, playing, seen, round, faults>>

\* The answer: the device is owned and in the route, and the pump is told.
JoinSyncs(t) ==
  LET d == task[t].dev
      r == Append(arr[task[t].a], <<d, task[t].tok[d]>>)
  IN /\ task[t].op = "join" /\ task[t].at = "prepare" /\ UNCHANGED active
     /\ \/ /\ task[t].ask[d] = "up"
           /\ owner' = [owner EXCEPT ![d] = task[t].tok[d]]
           /\ \E res \in Results :
                /\ Sync(r, res)
                /\ task' = [task EXCEPT ![t].at = "sync", ![t].res = res, ![t].ask[d] = "ok"]
           /\ arr' = [arr EXCEPT ![task[t].a] = r]
        \/ /\ task[t].ask[d] = "down"
           /\ End(t) /\ Keep(arr)
           /\ UNCHANGED <<owner, handle, faults>>
     /\ UNCHANGED <<child, aside>>

\* If the pump threw, the device is taken out again.
JoinEnds(t) ==
  LET s == <<task[t].dev, task[t].tok[task[t].dev]>>
  IN /\ task[t].op = "join" /\ task[t].at = "sync"
     /\ End(t) /\ UNCHANGED active
     /\ IF task[t].res = "threw"
        THEN /\ StopDevice({s})
             /\ Keep([arr EXCEPT ![task[t].a] = Without(@, s)])
        ELSE UNCHANGED <<owner, session, broken>> /\ Keep(arr)
     /\ UNCHANGED <<late, handle, aside, faults>>

\* bridgeLeaveMember: a member is taken out, is off the network, or its link is lost.
Leave(t, d) ==
  LET i == CHOOSE i \in DOMAIN Route : Route[i][1] = d /\ \A j \in 1..(i - 1) : Route[j][1] # d
  IN /\ "leave" \in Ops /\ task[t] = Idle
     /\ d \in RoutedDevs
     /\ arr' = [arr EXCEPT ![active] = RemoveAt(@, i)]
     /\ \E res \in Results :
          /\ Sync(RemoveAt(Route, i), res)
          /\ Begin(t, [Idle EXCEPT !.op = "leave", !.at = "sync", !.dev = d,
                                   !.tok[d] = Route[i][2], !.res = res])
     /\ UNCHANGED <<active, owner, child, aside>>

\* Only if the pump said so is the session stopped.
LeaveEnds(t) ==
  /\ task[t].op = "leave" /\ task[t].at = "sync"
  /\ End(t)
  /\ IF task[t].res = "ok"
     THEN StopDevice({<<task[t].dev, task[t].tok[task[t].dev]>>})
     ELSE UNCHANGED <<owner, session, broken>>
  /\ UNCHANGED <<arr, active, late, handle, aside, faults>>

-----------------------------------------------------------------------------
(* The AirPlay process.                                                    *)

\* A handshake ends.
Handshake(t, d) ==
  /\ task[t].ask[d] = "sent"
  /\ \/ /\ session' = session \cup {<<d, task[t].tok[d]>>}
        /\ broken' = broken \ {<<d, task[t].tok[d]>>}
        /\ task' = [task EXCEPT ![t].ask[d] = "up"]
        /\ UNCHANGED faults
     \/ /\ Spend("refuse")
        /\ task' = [task EXCEPT ![t].ask[d] = "down"]
        /\ UNCHANGED <<session, broken>>
  /\ UNCHANGED <<server, late, handle, aside>>

\* The answer of bridgePrepareDevice, but for a join.
Answer(t, d) ==
  /\ task[t].op # "join" /\ task[t].ask[d] \in {"up", "down"}
  /\ task' = [task EXCEPT ![t].ask[d] = IF task[t].ask[d] = "up" THEN "ok" ELSE "failed"]
  /\ owner' = IF task[t].ask[d] = "up" THEN [owner EXCEPT ![d] = task[t].tok[d]] ELSE owner
  /\ UNCHANGED <<arr, active, child, handle, aside, faults>>

\* capPromise: nobody waits any longer; the stop that is sent finds no session yet.
TooSlow(t, d) ==
  /\ task[t].op \in {"play", "resume"} /\ task[t].ask[d] = "sent"
  /\ Spend("slow")
  /\ task' = [task EXCEPT ![t].ask[d] = "failed"]
  /\ late' = late \cup {<<d, task[t].tok[d]>>}
  /\ StopDevice({<<d, task[t].tok[d]>>})
  /\ UNCHANGED <<arr, active, handle, aside>>

LateEnds(s) ==
  /\ s \in late /\ late' = late \ {s}
  /\ \/ session' = session \cup {s} /\ owner' = [owner EXCEPT ![s[1]] = s[2]]
     \/ UNCHANGED <<session, owner>>
  /\ UNCHANGED <<arr, active, broken, handle, task, aside, faults>>

Loss(s) ==
  /\ Spend("loss") /\ s \in session \ broken
  /\ broken' = broken \cup {s}
  /\ UNCHANGED <<server, session, late, handle, task, aside>>

\* The process dies and is started again.
ChildRestarts ==
  /\ Spend("crash")
  /\ session' = {} /\ broken' = {} /\ late' = {}
  /\ task' = [t \in Tasks |-> [task[t] EXCEPT
                !.ask = [d \in Devs |-> IF @[d] \in {"sent", "up"} THEN "down" ELSE @[d]]]]
  /\ rebuild' = TRUE
  /\ UNCHANGED <<server, handle, playing, byPlay, seen, round>>

\* rebuildBridgeRoutes: every bridge of the route once more, one after the other.
Rebuild(t) ==
  /\ rebuild /\ task[t] = Idle /\ rebuild' = FALSE
  /\ IF active = None THEN UNCHANGED task
     ELSE Begin(t, [Idle EXCEPT !.op = "rebuild", !.at = "next", !.a = active])
  /\ UNCHANGED <<server, child, handle, playing, byPlay, seen, round, faults>>

RebuildNext(t) ==
  /\ task[t].op = "rebuild" /\ UNCHANGED active
  /\ task[t].at = "next" \/ (task[t].at = "prepare" /\ Settled(t))
  /\ LET i == task[t].i + 1
     IN IF i > Len(arr[task[t].a])
        THEN End(t) /\ Keep(arr) /\ UNCHANGED <<session, broken>>
        ELSE LET s == arr[task[t].a][i]
             IN /\ ChildPrepares({s})
                /\ Begin(t, [task[t] EXCEPT !.at = "prepare", !.i = i, !.tok[s[1]] = s[2],
                                            !.ask = Asked({s})])
                /\ UNCHANGED arr
  /\ UNCHANGED <<owner, late, handle, aside, faults>>

-----------------------------------------------------------------------------
(* The reconciler, once a minute.                                          *)

\* An operation and a round together last less than a minute: what is under way
\* during a round has ended when the next one begins.
RoundStarts ==
  /\ round.at = "idle" /\ \A t \in Tasks : ~task[t].old
  /\ task' = [t \in Tasks |-> IF task[t] = Idle THEN Idle ELSE [task[t] EXCEPT !.old = TRUE]]
  /\ round' = [NoRound EXCEPT !.at = "handles", !.bridges = Routed]
  /\ UNCHANGED <<server, child, handle, rebuild, playing, byPlay, seen, faults>>

\* (fault) what is seen for the first time is removed.
AtOnce(found, before) == found

\* (fault) each sight counts as the first.
Never(found, before) == {}

\* reapOrphan: what was already seen a round before is removed.
Reaps(found, before) == found \cap before

\* The pump says what it has.
SeesHandles ==
  /\ round.at = "handles"
  /\ LET found == {d \in Devs : handle[d] # None /\ d \notin DevsOf(round.bridges)}
     IN /\ round' = [round EXCEPT !.at = "sessions", !.handles = Reaps(found, seen.handles)]
        /\ seen' = [seen EXCEPT !.handles = found \ Reaps(found, @)]
  /\ UNCHANGED <<server, child, handle, rebuild, playing, byPlay, task, faults>>

ReapsHandle(d) ==
  /\ d \in round.handles
  /\ handle' = [handle EXCEPT ![d] = None]
  /\ round' = [round EXCEPT !.handles = @ \ {d}]
  /\ UNCHANGED <<server, child, rebuild, playing, byPlay, seen, task, faults>>

\* After the handles, the sessions; the round ends with the last of them.
SeesSessions ==
  /\ round.at = "sessions" /\ round.handles = {}
  /\ LET found == session \ round.bridges
         reap  == Reaps(found, seen.sessions)
     IN /\ round' = IF reap = {} THEN NoRound ELSE [NoRound EXCEPT !.at = "reap", !.sessions = reap]
        /\ seen' = [seen EXCEPT !.sessions = found \ reap]
  /\ UNCHANGED <<server, child, handle, rebuild, playing, byPlay, task, faults>>

ReapsSession(s) ==
  /\ s \in round.sessions
  /\ StopDevice({s})
  /\ round' = IF round.sessions = {s} THEN NoRound ELSE [round EXCEPT !.sessions = @ \ {s}]
  /\ UNCHANGED <<arr, active, late, handle, rebuild, playing, byPlay, seen, task, faults>>

-----------------------------------------------------------------------------
TaskStep(t) ==
  \/ PlayPrepares(t) \/ PlayCasts(t) \/ CastEnds(t) \/ StopTears(t)
  \/ ResumeSyncs(t) \/ ResumeEnds(t)
  \/ JoinSyncs(t) \/ JoinEnds(t) \/ LeaveEnds(t) \/ RebuildNext(t)
  \/ \E d \in Devs : Handshake(t, d) \/ Answer(t, d)

Reconcile ==
  \/ RoundStarts \/ SeesHandles \/ SeesSessions
  \/ \E d \in Devs : ReapsHandle(d)
  \/ \E s \in Bridges : ReapsSession(s)

Users ==
  \E t \in Tasks :
    \/ Stop(t)
    \/ \E on \in SUBSET Devs : Play(t, on) \/ Resume(t, on)
    \/ \E d \in Devs : Join(t, d) \/ Leave(t, d)

Mishaps ==
  \/ ChildRestarts
  \/ \E s \in Bridges : Loss(s) \/ LateEnds(s)
  \/ \E t \in Tasks, d \in Devs : TooSlow(t, d)

Next == Users \/ Mishaps \/ Reconcile \/ \E t \in Tasks : TaskStep(t) \/ Rebuild(t)

Spec == Init /\ [][Next]_vars

\* Calls are answered and the timer of the reconciler goes on.
FairSpec == Spec /\ WF_vars(Reconcile) /\ \A t \in Tasks : WF_vars(TaskStep(t))

-----------------------------------------------------------------------------
(* Properties.                                                             *)

\* At most one session per device: two would play to the same speaker, and what
\* is addressed by device would reach one of them only.
OneBridgePerDevice == \A s, r \in session : s[1] = r[1] => s = r

\* A bridge that an operation is about to enter in the route, or has entered, is
\* not taken for an orphan.
InTheMaking(t) ==
  {<<d, task[t].tok[d]>> : d \in {e \in Devs : task[t].ask[e] \in {"sent", "up", "ok"}}}
ReapsNoneInTheMaking ==
  [][round' # round =>
       (session \ session') \cap (Routed \cup UNION {InTheMaking(t) : t \in Tasks}) = {}]_vars

\* A bridge that is not in the route does not stay, neither its session nor the
\* handle of a device that is not in the route either.
Orphan(s) == /\ s \notin Routed
             /\ s \in session \/ (handle[s[1]] = s[2] /\ s[1] \notin RoutedDevs)
OrphansReaped == \A s \in Bridges : Orphan(s) ~> ~Orphan(s)

\* A play that fails and a stop that is answered leave no route behind: what is in
\* a route is never reaped, and a song before it may have been another's (the
\* comment at protocolPlayer.ts:677-681).
PlaysLeaveNoRoute ==
  (~playing /\ byPlay /\ \A t \in Tasks : task[t] = Idle) => Routed = {}

-----------------------------------------------------------------------------
(* Expectations the code does not meet.                                    *)

\* A group that does not play has no route, whoever registered it: a resume that
\* made one and then fails leaves it, and so does a join to an idle group.
SilentGroupHoldsNothing ==
  (~playing /\ \A t \in Tasks : task[t] = Idle) => Routed = {}

\* An owner that is not in the route has a session the reconciler will find.
OwnerHasBridge ==
  (\A t \in Tasks : task[t] = Idle) =>
     \A d \in Devs : owner[d] # None => d \in RoutedDevs \/ d \in DevsOf(session \cup late)

\* A device that is in the route of an idle server and has its session is owned.
OwnsItsRoute ==
  (\A t \in Tasks : task[t] = Idle) => \A s \in Routed \cap session : owner[s[1]] = s[2]
=============================================================================
