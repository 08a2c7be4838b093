------------------------- MODULE RendererHostProofs -------------------------
(***************************************************************************)
(* Proofs about RendererHost, for any number of processes, requests,       *)
(* starts and faults, whatever calls of start and stop come upon: types,   *)
(* no request to a process that is gone, and how many processes there may  *)
(* be, out of the host's sight or after stop: none but those owed to       *)
(* starts that came upon something.                                        *)
(***************************************************************************)
EXTENDS RendererHost, FiniteSetTheorems, TLAPS

(***************************************************************************)
(* The inductive invariants.                                               *)
(***************************************************************************)

\* The host never holds a process whose exit it has handled.
ChildThere == child # NoProc => proc[child] # "gone"

\* A host that holds no process has a timer it can clear, or nothing lives that is
\* not owed to a start that came upon something.
NothingHeld == child = NoProc => handle \/ Cardinality(Living) + timers <= met

\* What the three bounds rest on.
Owed == ChildThere /\ NoTwinUnlessMet /\ NothingHeld /\ StopReachesUnlessMet

-----------------------------------------------------------------------------
(* Types.                                                                  *)

\* The types of the flags, and of all else.
Flags ==
  /\ running \in BOOLEAN /\ stopping \in BOOLEAN /\ handle \in BOOLEAN
  /\ checker \in BOOLEAN /\ quiet \in BOOLEAN
Types ==
  /\ proc \in [Procs -> {"gone", "boot", "ready", "hung", "dead"}]
  /\ hello \in [Procs -> BOOLEAN] /\ heard \in [Procs -> BOOLEAN]
  /\ wait \in [Procs -> {"none", "start", "respawn"}]
  /\ child \in Procs \cup {NoProc} /\ cleanup \in Procs \cup {NoProc}
  /\ timers \in Nat
  /\ rpc \in [Calls -> Procs \cup {NoProc}]
  /\ starts \in 0..Starts /\ faults \in 0..MaxFaults /\ met \in 0..(Starts - starts)

LEMMA StepFlags == ASSUME Flags, [Next]_vars PROVE Flags'
<1> USE DEF Flags
<1>2. ASSUME NEW p \in Procs, Start(p) PROVE Flags'
  BY <1>2 DEF Start, Spawn
<1>3. CASE Stop
  BY <1>3 DEF Stop, KillChild
<1>4. CASE Respawn
  BY <1>4 DEF Respawn, Spawn, procs
<1>5. ASSUME NEW p \in Procs, MainReady(p) PROVE Flags'
  BY <1>5 DEF MainReady, Settles, Watchdog
<1>6. ASSUME NEW p \in Procs, BootTimeout(p) PROVE Flags'
  BY <1>6 DEF BootTimeout, Settles, Spend, RespawnFails
<1>7. ASSUME NEW p \in Procs, Exit(p) PROVE Flags'
  BY <1>7 DEF Exit, RpcsRejected
<1>8. CASE Silence \/ HeartbeatCheck
  BY <1>8 DEF Silence, HeartbeatCheck, KillChild, procs, host
<1>9. ASSUME NEW c \in Calls, Rpc(c) \/ RpcEnds(c) PROVE Flags'
  BY <1>9 DEF Rpc, RpcEnds, procs, host
<1>10. ASSUME NEW p \in Procs, Boots(p) \/ Crash(p) \/ Hang(p) PROVE Flags'
  BY <1>10 DEF Boots, Crash, Hang, Spend, host
<1>11. CASE UNCHANGED vars
  BY <1>11 DEF vars, procs, host
<1> QED
  BY <1>2, <1>3, <1>4, <1>5, <1>6, <1>7, <1>8, <1>9, <1>10, <1>11 DEF Next, ProcStep

LEMMA StepTypes == ASSUME Types, handle => timers > 0, [Next]_vars PROVE Types'
<1> USE HostAssumption DEF Types
<1>2. ASSUME NEW p \in Procs, Start(p) PROVE Types'
  BY <1>2 DEF Start, Spawn
<1>3. CASE Stop
  <2>1. timers' \in Nat
    <3>1. CASE handle
      <4>1. timers > 0 /\ timers' = timers - 1
        BY <1>3, <3>1, Zenon DEF Stop
      <4> QED BY <4>1
    <3>2. CASE ~handle
      BY <1>3, <3>2, Zenon DEF Stop
    <3> QED BY <3>1, <3>2
  <2> QED BY <1>3, <2>1 DEF Stop, KillChild
<1>4. CASE Respawn
  <2>1. timers' \in Nat
    BY <1>4 DEF Respawn
  <2>2. CASE running
    BY <1>4, <2>1, <2>2 DEF Respawn, Spawn
  <2>3. CASE ~running
    BY <1>4, <2>1, <2>3 DEF Respawn, procs
  <2> QED BY <2>2, <2>3
<1>5. ASSUME NEW p \in Procs, MainReady(p) PROVE Types'
  BY <1>5 DEF MainReady, Settles, Watchdog
<1>6. ASSUME NEW p \in Procs, BootTimeout(p) PROVE Types'
  BY <1>6 DEF BootTimeout, Settles, Spend, RespawnFails
<1>7. ASSUME NEW p \in Procs, Exit(p) PROVE Types'
  BY <1>7 DEF Exit, RpcsRejected
<1>8. CASE Silence \/ HeartbeatCheck
  BY <1>8 DEF Silence, HeartbeatCheck, KillChild, procs, host
<1>9. ASSUME NEW c \in Calls, Rpc(c) \/ RpcEnds(c) PROVE Types'
  BY <1>9 DEF Rpc, RpcEnds, procs, host
<1>10. ASSUME NEW p \in Procs, Boots(p) \/ Crash(p) \/ Hang(p) PROVE Types'
  <2>1. CASE Boots(p)
    BY <2>1 DEF Boots, host
  <2>2. CASE Crash(p)
    BY <2>2 DEF Crash, Spend, host
  <2>3. CASE Hang(p)
    BY <2>3 DEF Hang, Spend, host
  <2> QED BY <1>10, <2>1, <2>2, <2>3
<1>11. CASE UNCHANGED vars
  BY <1>11 DEF vars, procs, host
<1> QED
  BY <1>2, <1>3, <1>4, <1>5, <1>6, <1>7, <1>8, <1>9, <1>10, <1>11 DEF Next, ProcStep

\* What the steps do to the respawn timers.
LEMMA TimerSteps ==
  ASSUME [Next]_vars
  PROVE  ~handle' \/ UNCHANGED <<timers, handle>> \/ timers' = timers + 1
<1>1. ASSUME NEW p \in Procs, Start(p) PROVE UNCHANGED <<timers, handle>>
  BY <1>1 DEF Start
<1>2. CASE Stop
  BY <1>2, Zenon DEF Stop
<1>3. CASE Respawn
  BY <1>3, Zenon DEF Respawn
<1>4. ASSUME NEW p \in Procs, MainReady(p) \/ BootTimeout(p) PROVE UNCHANGED <<timers, handle>>
  BY <1>4 DEF MainReady, BootTimeout, RespawnFails
<1>5. ASSUME NEW p \in Procs, Exit(p) PROVE UNCHANGED <<timers, handle>> \/ timers' = timers + 1
  BY <1>5 DEF Exit
<1>6. CASE Silence \/ HeartbeatCheck
  BY <1>6 DEF Silence, HeartbeatCheck, host
<1>7. ASSUME NEW c \in Calls, Rpc(c) \/ RpcEnds(c) PROVE UNCHANGED <<timers, handle>>
  BY <1>7 DEF Rpc, RpcEnds, host
<1>8. ASSUME NEW p \in Procs, Boots(p) \/ Crash(p) \/ Hang(p) PROVE UNCHANGED <<timers, handle>>
  BY <1>8 DEF Boots, Crash, Hang, host
<1>9. CASE UNCHANGED vars
  BY <1>9 DEF vars, host
<1> QED
  BY <1>1, <1>2, <1>3, <1>4, <1>5, <1>6, <1>7, <1>8, <1>9, Zenon DEF Next, ProcStep

\* Every reachable state is well typed, and the handle of the respawn timer is set
\* only while a timer runs, even when timers of several lives run at once.
THEOREM TypeCorrect == Spec => []TypeOK
<1>1. TypeOK <=> Types /\ Flags /\ (handle => timers > 0)
  BY Zenon DEF TypeOK, Types, Flags
<1>2. Init => TypeOK
  <2> SUFFICES ASSUME Init PROVE Types /\ Flags /\ ~handle
    BY <1>1, Zenon
  <2>1. Types
    BY HostAssumption DEF Init, Types
  <2>2. Flags /\ ~handle
    BY Zenon DEF Init, Flags
  <2> QED BY <2>1, <2>2
<1>3. ASSUME TypeOK, [Next]_vars PROVE TypeOK'
  <2>1. Types' /\ Flags'
    BY <1>1, <1>3, StepTypes, StepFlags, Zenon
  <2>2. handle' => timers' > 0
    <3> SUFFICES ASSUME handle' PROVE timers' > 0
      OBVIOUS
    <3>1. timers \in Nat
      BY <1>1, <1>3 DEF Types
    <3>2. CASE timers' = timers + 1
      BY <3>1, <3>2
    <3>3. CASE UNCHANGED <<timers, handle>>
      BY <1>1, <1>3, <3>3, Zenon
    <3> QED BY <1>3, <3>2, <3>3, TimerSteps, Zenon
  <2> QED BY <2>1, <2>2, Zenon DEF TypeOK, Types, Flags
<1> QED BY <1>2, <1>3, PTL DEF Spec

-----------------------------------------------------------------------------
(* Requests.                                                               *)

\* The host holds no process that has gone, and sent no request to one.
LEMMA SentToTheChild == Spec => [](ChildThere /\ NoOrphanRpc)
<1> DEFINE Inv == ChildThere /\ NoOrphanRpc
<1>1. Init => Inv
  BY DEF Init, ChildThere, NoOrphanRpc
<1>2. ASSUME TypeOK, Inv, [Next]_vars PROVE Inv'
  <2>1. Types
    BY <1>2, Zenon DEF TypeOK, Types
  <2> USE <1>2, <2>1, HostAssumption DEF ChildThere, NoOrphanRpc, Types
  <2>2. ASSUME NEW p \in Procs, Start(p) PROVE Inv'
    BY <2>2 DEF Start, Spawn
  <2>3. CASE Stop
    BY <2>3 DEF Stop, KillChild
  <2>4. CASE Respawn
    BY <2>4 DEF Respawn, Spawn, procs
  <2>5. ASSUME NEW p \in Procs, MainReady(p) PROVE Inv'
    BY <2>5 DEF MainReady
  <2>6. ASSUME NEW p \in Procs, BootTimeout(p) PROVE Inv'
    BY <2>6 DEF BootTimeout
  <2>7. ASSUME NEW p \in Procs, Exit(p) PROVE Inv'
    BY <2>7 DEF Exit, RpcsRejected
  <2>8. CASE Silence
    BY <2>8 DEF Silence, procs, host
  <2>9. CASE HeartbeatCheck
    BY <2>9 DEF HeartbeatCheck, KillChild
  <2>10. ASSUME NEW c \in Calls, Rpc(c) \/ RpcEnds(c) PROVE Inv'
    BY <2>10 DEF Rpc, RpcEnds, procs, host
  <2>11. ASSUME NEW p \in Procs, Boots(p) \/ Crash(p) \/ Hang(p) PROVE Inv'
    BY <2>11 DEF Boots, Crash, Hang, host
  <2>12. CASE UNCHANGED vars
    BY <2>12 DEF vars, procs, host
  <2> QED
    BY <2>2, <2>3, <2>4, <2>5, <2>6, <2>7, <2>8, <2>9, <2>10, <2>11, <2>12 DEF Next, ProcStep
<1> QED BY <1>1, <1>2, TypeCorrect, PTL DEF Spec

LEMMA ChildStays == Spec => []ChildThere
BY SentToTheChild, PTL

\* Whatever calls of start and stop come upon, nobody waits for the answer of a
\* process whose exit has been handled: the host sends only to this.child, and
\* this.child has not gone.
THEOREM NoRequestIsOrphaned == Spec => []NoOrphanRpc
BY SentToTheChild, PTL

-----------------------------------------------------------------------------
(* Processes.                                                              *)

\* Processes, and those that live, are finitely many; a dead one makes a difference.
LEMMA Counts ==
  ASSUME Types
  PROVE  /\ Cardinality(Lives) \in Nat /\ Cardinality(Living) \in Nat
         /\ Cardinality(Living) <= Cardinality(Lives)
         /\ \A p \in Procs : proc[p] = "dead" => Cardinality(Living) + 1 <= Cardinality(Lives)
         /\ Lives = {} => Cardinality(Lives) = 0
<1>1. Living \subseteq Lives /\ Lives \subseteq Procs
  BY DEF Living, Lives, Alive
<1>2. IsFiniteSet(Lives) /\ IsFiniteSet(Living)
  BY <1>1, HostAssumption, FS_Subset
<1>3. Cardinality(Lives) \in Nat /\ Cardinality(Living) \in Nat
  BY <1>2, FS_CardinalityType
<1>4. Cardinality(Living) <= Cardinality(Lives)
  BY <1>1, <1>2, FS_Subset
<1>5. ASSUME NEW p \in Procs, proc[p] = "dead"
      PROVE  Cardinality(Living) + 1 <= Cardinality(Lives)
  <2>1. p \in Lives /\ p \notin Living
    BY <1>5 DEF Lives, Living, Alive
  <2>2. Living \cup {p} \subseteq Lives
    BY <1>1, <2>1
  <2>3. Cardinality(Living \cup {p}) = Cardinality(Living) + 1
    BY <1>2, <2>1, FS_AddElement
  <2>4. Cardinality(Living \cup {p}) <= Cardinality(Lives)
    BY <1>2, <2>2, FS_Subset
  <2> QED BY <2>3, <2>4
<1>6. Lives = {} => Cardinality(Lives) = 0
  BY FS_EmptySet
<1> QED BY <1>3, <1>4, <1>5, <1>6

\* A fork adds one process.
LEMMA SpawnCounts ==
  ASSUME Types, NEW p \in Procs, NEW who \in {"start", "respawn"}, Spawn(p, who)
  PROVE  /\ child' = p
         /\ Cardinality(Lives)' = Cardinality(Lives) + 1
         /\ Cardinality(Living)' = Cardinality(Living) + 1
<1>1. Lives' = Lives \cup {p} /\ Living' = Living \cup {p} /\ p \notin Lives /\ p \notin Living
  BY DEF Spawn, Lives, Living, Alive, Types
<1>2. IsFiniteSet(Lives) /\ IsFiniteSet(Living)
  <2>1. Living \subseteq Procs /\ Lives \subseteq Procs
    BY DEF Lives, Living
  <2> QED BY <2>1, HostAssumption, FS_Subset
<1>3. Cardinality(Lives \cup {p}) = Cardinality(Lives) + 1
  BY <1>1, <1>2, FS_AddElement
<1>4. Cardinality(Living \cup {p}) = Cardinality(Living) + 1
  BY <1>1, <1>2, FS_AddElement
<1>5. child' = p
  BY DEF Spawn
<1> QED BY <1>1, <1>3, <1>4, <1>5

\* A kill leaves the dead process to its exit.
LEMMA KillCounts ==
  ASSUME Types, KillChild
  PROVE  /\ child' = NoProc
         /\ Cardinality(Lives)' = Cardinality(Lives)
         /\ Cardinality(Living)' = IF child \in Living THEN Cardinality(Living) - 1
                                                       ELSE Cardinality(Living)
<1>1. Lives' = Lives /\ Living' = Living \ {child} /\ child' = NoProc
  BY DEF KillChild, Lives, Living, Alive, Types
<1>2. IsFiniteSet(Living)
  <2>1. Living \subseteq Procs
    BY DEF Living
  <2> QED BY <2>1, HostAssumption, FS_Subset
<1>3. CASE child \in Living
  BY <1>1, <1>2, <1>3, FS_RemoveElement
<1>4. CASE child \notin Living
  BY <1>1, <1>4
<1> QED BY <1>3, <1>4

\* An exit takes a dead process away.
LEMMA ExitCounts ==
  ASSUME Types, NEW p \in Procs, Exit(p)
  PROVE  /\ Cardinality(Lives)' = Cardinality(Lives) - 1
         /\ Cardinality(Living)' = Cardinality(Living)
<1>1. Lives' = Lives \ {p} /\ Living' = Living /\ p \in Lives
  BY DEF Exit, Lives, Living, Alive, Types
<1>2. IsFiniteSet(Lives)
  <2>1. Lives \subseteq Procs
    BY DEF Lives
  <2> QED BY <2>1, HostAssumption, FS_Subset
<1> QED BY <1>1, <1>2, FS_RemoveElement

\* A crash leaves the process to its exit.
LEMMA CrashCounts ==
  ASSUME Types, NEW p \in Procs, Crash(p)
  PROVE  /\ Cardinality(Lives)' = Cardinality(Lives)
         /\ Cardinality(Living)' = Cardinality(Living) - 1
<1>1. Lives' = Lives /\ Living' = Living \ {p} /\ p \in Living
  BY DEF Crash, Lives, Living, Alive, Types
<1>2. IsFiniteSet(Living)
  <2>1. Living \subseteq Procs
    BY DEF Living
  <2> QED BY <2>1, HostAssumption, FS_Subset
<1> QED BY <1>1, <1>2, FS_RemoveElement

\* Nothing else changes who lives.
LEMMA SameCounts ==
  ASSUME Types,
         \/ UNCHANGED proc
         \/ \E p \in Procs : Boots(p) \/ Hang(p)
  PROVE  Cardinality(Lives)' = Cardinality(Lives) /\ Cardinality(Living)' = Cardinality(Living)
<1>1. Lives' = Lives /\ Living' = Living
  BY DEF Boots, Hang, Lives, Living, Alive, Types
<1> QED BY <1>1

\* Each step keeps the bounds.  A start that comes upon nothing begins the count
\* again; stop finds the process it kills, or one dead already, or a timer that
\* an exit has just set, or nothing that is not owed.
LEMMA StepOwed == ASSUME TypeOK, Owed, [Next]_vars PROVE (NoTwinUnlessMet /\ NothingHeld /\ StopReachesUnlessMet)'
<1>1. Types /\ (handle => timers > 0) /\ met \in Nat /\ timers \in Nat
  <2>1. Types /\ (handle => timers > 0)
    BY Zenon DEF TypeOK, Types
  <2> QED BY <2>1, HostAssumption DEF Types
<1> DEFINE L == Cardinality(Lives)
           A == Cardinality(Living)
           Goal == (NoTwinUnlessMet /\ NothingHeld /\ StopReachesUnlessMet)'
<1>2. /\ L \in Nat /\ A \in Nat /\ A <= L
      /\ \A p \in Procs : proc[p] = "dead" => A + 1 <= L
      /\ Lives = {} => L = 0
  BY <1>1, Counts
<1>3. /\ L + timers <= 1 + met
      /\ child = NoProc => handle \/ A + timers <= met
      /\ stopping => A + timers <= met
      /\ child # NoProc => proc[child] # "gone"
  BY DEF Owed, NoTwinUnlessMet, NothingHeld, StopReachesUnlessMet, ChildThere
<1>4. Goal <=> /\ L' + timers' <= 1 + met'
               /\ child' = NoProc => handle' \/ A' + timers' <= met'
               /\ stopping' => A' + timers' <= met'
  BY DEF NoTwinUnlessMet, NothingHeld, StopReachesUnlessMet
<1>5. ASSUME NEW p \in Procs, Start(p) PROVE Goal
  <2>1. child' = p /\ L' = L + 1
    BY <1>1, <1>5, SpawnCounts DEF Start
  <2>2. ~stopping' /\ timers' = timers /\ met' = IF Clear THEN 0 ELSE met + 1
    BY <1>5 DEF Start
  <2>3. CASE Clear
    BY <1>2, <1>4, <2>1, <2>2, <2>3, HostAssumption DEF Clear
  <2>4. CASE ~Clear
    BY <1>1, <1>2, <1>3, <1>4, <2>1, <2>2, <2>4, HostAssumption
  <2> QED BY <2>3, <2>4
<1>6. CASE Stop
  <2>1. child' = NoProc /\ L' = L /\ A' = IF child \in Living THEN A - 1 ELSE A
    BY <1>1, <1>6, KillCounts DEF Stop
  <2>2. timers' = (IF handle THEN timers - 1 ELSE timers) /\ met' = met
    BY <1>6 DEF Stop
  <2>3. A' + timers' <= met
    <3>1. CASE child \in Living
      BY <1>1, <1>2, <1>3, <2>1, <2>2, <3>1
    <3>2. CASE child \notin Living /\ child # NoProc
      <4>1. child \in Procs /\ proc[child] = "dead"
        BY <1>1, <1>3, <3>2 DEF Types, Living, Alive
      <4> QED BY <1>1, <1>2, <1>3, <2>1, <2>2, <3>2, <4>1
    <3>3. CASE child = NoProc
      <4>1. child \notin Living
        BY <3>3, HostAssumption DEF Living
      <4> QED BY <1>1, <1>2, <1>3, <2>1, <2>2, <3>3, <4>1
    <3> QED BY <3>1, <3>2, <3>3
  <2> QED BY <1>1, <1>2, <1>3, <1>4, <2>1, <2>2, <2>3
<1>7. CASE Respawn
  <2>1. timers > 0 /\ timers' = timers - 1 /\ stopping' = stopping /\ met' = met
    BY <1>7 DEF Respawn
  <2>2. CASE running
    <3>1. PICK p \in Procs : Spawn(p, "respawn")
      BY <1>7, <2>2 DEF Respawn
    <3>2. child' = p /\ L' = L + 1 /\ A' = A + 1
      BY <1>1, <3>1, SpawnCounts
    <3> QED BY <1>1, <1>2, <1>3, <1>4, <2>1, <3>2, HostAssumption
  <2>3. CASE ~running
    <3>1. UNCHANGED proc
      BY <1>7, <2>3 DEF Respawn, procs
    <3>2. L' = L /\ A' = A
      BY <1>1, <3>1, SameCounts
    <3> QED BY <1>1, <1>2, <1>3, <1>4, <2>1, <3>2
  <2> QED BY <2>2, <2>3
<1>8. ASSUME NEW p \in Procs, Exit(p) PROVE Goal
  <2>1. L' = L - 1 /\ A' = A /\ met' = met /\ stopping' = stopping
    BY <1>1, <1>8, ExitCounts DEF Exit
  <2>2. A + 1 <= L
    BY <1>2, <1>8 DEF Exit
  <2>3. CASE stopping \/ ~running
    <3>1. timers' = timers
      BY <1>8, <2>3 DEF Exit
    <3> QED BY <1>1, <1>2, <1>3, <1>4, <2>1, <2>2, <3>1
  <2>4. CASE ~(stopping \/ ~running)
    <3>1. timers' = timers + 1 /\ handle'
      BY <1>8, <2>4 DEF Exit
    <3> QED BY <1>1, <1>2, <1>3, <1>4, <2>1, <2>4, <3>1
  <2> QED BY <2>3, <2>4
<1>9. CASE HeartbeatCheck
  <2>1. /\ child # NoProc /\ L' = L /\ A' = IF child \in Living THEN A - 1 ELSE A
        /\ timers' = timers /\ met' = met /\ stopping' = stopping
    BY <1>1, <1>9, KillCounts DEF HeartbeatCheck
  <2>2. A' + timers' <= met
    <3>1. CASE child \in Living
      BY <1>1, <1>2, <1>3, <2>1, <3>1
    <3>2. CASE child \notin Living
      <4>1. child \in Procs /\ proc[child] = "dead"
        BY <1>1, <1>3, <2>1, <3>2 DEF Types, Living, Alive
      <4> QED BY <1>1, <1>2, <1>3, <2>1, <3>2, <4>1
    <3> QED BY <3>1, <3>2
  <2> QED BY <1>1, <1>2, <1>3, <1>4, <2>1, <2>2
<1>10. ASSUME NEW p \in Procs, Crash(p) PROVE Goal
  <2>1. /\ L' = L /\ A' = A - 1 /\ timers' = timers /\ met' = met
        /\ stopping' = stopping /\ child' = child /\ handle' = handle
    BY <1>1, <1>10, CrashCounts DEF Crash, host
  <2> QED BY <1>1, <1>2, <1>3, <1>4, <2>1
<1>11. ASSUME UNCHANGED <<timers, met, stopping, child, handle>>,
              \/ UNCHANGED proc
              \/ \E p \in Procs : Boots(p) \/ Hang(p)
       PROVE  Goal
  <2>1. L' = L /\ A' = A
    BY <1>1, <1>11, SameCounts
  <2> QED BY <1>3, <1>4, <1>11, <2>1
<1>12. ASSUME NEW p \in Procs, Boots(p) \/ Hang(p) PROVE Goal
  BY <1>11, <1>12 DEF Boots, Hang, host
<1>13. ASSUME NEW p \in Procs, MainReady(p) \/ BootTimeout(p) PROVE Goal
  BY <1>11, <1>13 DEF MainReady, BootTimeout, RespawnFails
<1>14. CASE Silence \/ \E c \in Calls : Rpc(c) \/ RpcEnds(c)
  BY <1>11, <1>14 DEF Silence, Rpc, RpcEnds, procs, host
<1>15. CASE UNCHANGED vars
  BY <1>11, <1>15 DEF vars, procs, host
<1>16. ASSUME NEW p \in Procs,
              Start(p) \/ ProcStep(p) \/ Boots(p) \/ Crash(p) \/ Hang(p)
       PROVE  Goal
  BY <1>5, <1>8, <1>10, <1>12, <1>13, <1>16, Zenon DEF ProcStep
<1>17. Goal
  <2>1. Next \/ UNCHANGED vars
    OBVIOUS
  <2>2. CASE Next
    <3>1. \/ \E p \in Procs : Start(p) \/ ProcStep(p) \/ Boots(p) \/ Crash(p) \/ Hang(p)
          \/ Stop \/ Respawn \/ Silence \/ HeartbeatCheck
          \/ \E c \in Calls : Rpc(c) \/ RpcEnds(c)
      BY <2>2, Zenon DEF Next
    <3> QED BY <1>6, <1>7, <1>9, <1>14, <1>16, <3>1, Zenon
  <2> QED BY <1>15, <2>1, <2>2, Zenon
<1> QED BY <1>17

\* The bounds hold in every reachable state.
LEMMA AlwaysOwed == Spec => [](TypeOK /\ Owed)
<1>1. Init => NoTwinUnlessMet /\ NothingHeld /\ StopReachesUnlessMet
  <2> SUFFICES ASSUME Init PROVE NoTwinUnlessMet /\ NothingHeld /\ StopReachesUnlessMet
    OBVIOUS
  <2>1. Lives = {} /\ Living = {} /\ timers = 0 /\ met = 0
    BY DEF Init, Lives, Living, Alive
  <2>2. Cardinality({}) = 0
    BY FS_EmptySet
  <2> QED BY <2>1, <2>2 DEF NoTwinUnlessMet, NothingHeld, StopReachesUnlessMet
<1>2. TypeOK /\ Owed /\ [Next]_vars => (NoTwinUnlessMet /\ NothingHeld /\ StopReachesUnlessMet)'
  BY StepOwed
<1>3. Owed <=> ChildThere /\ NoTwinUnlessMet /\ NothingHeld /\ StopReachesUnlessMet
  BY DEF Owed
<1> QED BY <1>1, <1>2, <1>3, TypeCorrect, ChildStays, PTL DEF Spec

\* However often the service is started, stopped, crashes, hangs or is slow, every
\* process and every respawn timer beyond the first is owed to a start that came
\* upon something: no exit, kill or failed respawn makes two of one.
THEOREM TwinsAreOwed == Spec => []NoTwinUnlessMet
<1>1. Owed => NoTwinUnlessMet
  BY DEF Owed
<1> QED BY <1>1, AlwaysOwed, PTL

\* A living process the host does not hold is owed to such a start: the exit of
\* one process makes the host forget another only where there are two.
THEOREM SlipsAreOwed == Spec => []SlippedOnlyIfMet
<1>1. TypeOK /\ Owed => SlippedOnlyIfMet
  <2> SUFFICES ASSUME TypeOK, Owed PROVE Cardinality(Living \ {child}) <= met
    BY DEF SlippedOnlyIfMet
  <2>1. Types /\ (handle => timers > 0) /\ met \in Nat /\ timers \in Nat
    <3>1. Types /\ (handle => timers > 0)
      BY Zenon DEF TypeOK, Types
    <3> QED BY <3>1, HostAssumption DEF Types
  <2>2. /\ Cardinality(Lives) + timers <= 1 + met
        /\ child = NoProc => handle \/ Cardinality(Living) + timers <= met
        /\ child # NoProc => proc[child] # "gone"
    BY DEF Owed, NoTwinUnlessMet, NothingHeld, ChildThere
  <2>3. /\ Cardinality(Lives) \in Nat /\ Cardinality(Living) \in Nat
        /\ Cardinality(Living) <= Cardinality(Lives)
        /\ \A p \in Procs : proc[p] = "dead" => Cardinality(Living) + 1 <= Cardinality(Lives)
    BY <2>1, Counts
  <2>4. CASE child \in Living
    <3>1. IsFiniteSet(Living)
      <4>1. Living \subseteq Procs
        BY DEF Living
      <4> QED BY <4>1, HostAssumption, FS_Subset
    <3>2. Cardinality(Living \ {child}) = Cardinality(Living) - 1
      BY <2>4, <3>1, FS_RemoveElement
    <3> QED BY <2>1, <2>2, <2>3, <3>2
  <2>5. CASE child \notin Living
    <3>1. Living \ {child} = Living
      BY <2>5
    <3>2. Cardinality(Living) <= met
      <4>1. CASE child = NoProc
        BY <2>1, <2>2, <2>3, <4>1
      <4>2. CASE child # NoProc
        <5>1. child \in Procs /\ proc[child] = "dead"
          BY <2>1, <2>2, <2>5, <4>2 DEF Types, Living, Alive
        <5> QED BY <2>1, <2>2, <2>3, <5>1
      <4> QED BY <4>1, <4>2
    <3> QED BY <3>1, <3>2
  <2> QED BY <2>4, <2>5
<1> QED BY <1>1, AlwaysOwed, PTL

\* What lives after stop, or may still come from a timer, is owed to such a start.
THEOREM StopReaches == Spec => []StopReachesUnlessMet
<1>1. Owed => StopReachesUnlessMet
  BY DEF Owed
<1> QED BY <1>1, AlwaysOwed, PTL

\* In a life whose starts came upon nothing no two processes live at once, and none
\* once it was switched off.
THEOREM CleanLives == Spec => [](met = 0 => OneAlive /\ StoppedIsDead)
<1>1. TypeOK /\ Owed => (met = 0 => OneAlive /\ StoppedIsDead)
  <2> SUFFICES ASSUME TypeOK, Owed, met = 0 PROVE OneAlive /\ StoppedIsDead
    OBVIOUS
  <2>1. Types
    BY Zenon DEF TypeOK, Types
  <2>2. /\ Cardinality(Lives) + timers <= 1
        /\ stopping => Cardinality(Living) + timers <= 0
        /\ timers \in Nat
    BY <2>1 DEF Owed, NoTwinUnlessMet, StopReachesUnlessMet, Types
  <2>3. Cardinality(Lives) \in Nat /\ Cardinality(Living) \in Nat
    BY <2>1, Counts
  <2>4. IsFiniteSet(Lives) /\ IsFiniteSet(Living)
    <3>1. Living \subseteq Procs /\ Lives \subseteq Procs
      BY DEF Lives, Living
    <3> QED BY <3>1, HostAssumption, FS_Subset
  <2>5. OneAlive
    <3> SUFFICES ASSUME NEW p \in Procs, NEW r \in Procs, Alive(p), Alive(r), p # r PROVE FALSE
      BY DEF OneAlive
    <3>1. p \in Lives /\ r \in Lives
      BY DEF Lives, Alive
    <3>2. {p, r} \subseteq Lives
      BY <3>1
    <3>3. Cardinality({p, r}) <= Cardinality(Lives)
      BY <2>4, <3>2, FS_Subset
    <3>4. Cardinality({p} \cup {r}) = Cardinality({p}) + 1 /\ Cardinality({p}) = 1
      BY FS_Singleton, FS_AddElement
    <3>5. {p} \cup {r} = {p, r}
      OBVIOUS
    <3>6. Cardinality({p, r}) = 2
      BY <3>4, <3>5
    <3>7. Cardinality(Lives) <= 1
      BY <2>2, <2>3
    <3> QED BY <2>3, <3>3, <3>6, <3>7
  <2>6. StoppedIsDead
    <3> SUFFICES ASSUME stopping, NEW p \in Procs, Alive(p) PROVE FALSE
      BY DEF StoppedIsDead
    <3>1. Cardinality(Living) = 0
      BY <2>2, <2>3
    <3>2. Living = {}
      BY <2>4, <3>1, FS_EmptySet
    <3> QED BY <3>2 DEF Living
  <2> QED BY <2>5, <2>6
<1> QED BY <1>1, AlwaysOwed, PTL
=============================================================================
