-------------------------- MODULE SongLedgerProofs --------------------------
(***************************************************************************)
(* Proofs about SongLedger, for any library, any number of runs, any       *)
(* windows and thresholds: types, a count never says more than happened,   *)
(* a run lists a song for removal only for failures that happened; and if  *)
(* runs follow one another, songs are removed only for failures that stand *)
(* and never after a download that succeeded.                              *)
(***************************************************************************)
EXTENDS SongLedger, FiniteSetTheorems, TLAPS

(***************************************************************************)
(* The inductive invariants.                                               *)
(***************************************************************************)

\* A failure that may be taken back is one of a run that has not settled it, and
\* no song is tried twice by a run.
HoldsItsOwn(r) ==
  /\ held[r] \subseteq run[r].dead
  /\ run[r].phase \in {"idle", "purge"} => held[r] = {}
  /\ run[r].flight \cap run[r].dead = {}
  /\ run[r].todo \cap (run[r].flight \cup run[r].dead) = {}

HeldByTheRun == \A r \in Runs : HoldsItsOwn(r)

\* One run at a time, as with maxConcurrentJobs 1.
OneRun == \A r, q \in Runs : r = q

\* A song whose last try succeeded has no failures.
SuccessClears == \A s \in Songs : ledger[s].last = "done" => ledger[s].fails = 0

\* What a lone run has on its list are songs with failures that stand.
ListStands ==
  \A r \in Runs : run[r].phase = "purge" =>
    \A s \in run[r].doomed : proven[s] = Threshold /\ ledger[s].last # "done"

-----------------------------------------------------------------------------
(* Types.                                                                  *)

LEMMA RunFits ==
  ASSUME TypeOK, NEW r \in Runs, NEW w \in RunState, RunIs(r, w)
  PROVE  run' \in [Runs -> RunState]
BY DEF TypeOK, RunIs

LEMMA IdleFits == IdleRun \in RunState
BY DEF IdleRun, RunState

LEMMA LeftFits == ASSUME NEW w \in RunState PROVE Left(w) \in RunState
BY IdleFits DEF Left

LEMMA NoRowFits == NoRow \in LedgerRow
BY LedgerAssumption DEF NoRow, LedgerRow, Verdicts

LEMMA RecordFits ==
  ASSUME TypeOK, NEW s \in Songs, NEW verdict \in Verdicts
  PROVE  Recorded(s, verdict) \in [Songs -> LedgerRow]
<1>1. Upsert(ledger[s], verdict) \in LedgerRow
  BY LedgerAssumption DEF TypeOK, LedgerRow, Upsert, Verdicts
<1> QED BY <1>1, NoRowFits DEF Recorded, TypeOK

\* What the steps of a run make of it.
LEMMA RunTypes == ASSUME TypeOK, [Next]_vars PROVE run' \in [Runs -> RunState]
<1>t. \A r \in Runs : run[r] \in RunState
  BY DEF TypeOK
<1>1. ASSUME NEW r \in Runs, NEW plan \in SUBSET Songs, NEW kind \in {"auto", "job"}, Starts(r, plan, kind)
      PROVE  run' \in [Runs -> RunState]
  <2>1. [IdleRun EXCEPT !.phase = "work", !.kind = kind, !.todo = plan] \in RunState
    BY <1>1 DEF IdleRun, RunState
  <2> QED BY <1>1, <2>1, RunFits DEF Starts
<1>2. ASSUME NEW r \in Runs, StartLibrary(r) PROVE run' \in [Runs -> RunState]
  <2>1. LibraryPlan \in SUBSET Songs
    BY DEF LibraryPlan, Pool
  <2> QED BY <1>1, <1>2, <2>1 DEF StartLibrary
<1>3. ASSUME NEW r \in Runs, StartJob(r) PROVE run' \in [Runs -> RunState]
  BY <1>1, <1>3 DEF StartJob
<1>4. ASSUME NEW r \in Runs, NEW s \in Songs, Skip(r, s) PROVE run' \in [Runs -> RunState]
  <2>1. [run[r] EXCEPT !.todo = @ \ {s}] \in RunState
    BY <1>t DEF RunState
  <2> QED BY <1>4, <2>1, RunFits DEF Skip
<1>5. ASSUME NEW r \in Runs, NEW s \in Songs, Begin(r, s) PROVE run' \in [Runs -> RunState]
  <2>1. [run[r] EXCEPT !.todo = @ \ {s}, !.flight = @ \cup {s}] \in RunState
    BY <1>t DEF RunState
  <2> QED BY <1>5, <2>1, RunFits DEF Begin
<1>6. ASSUME NEW r \in Runs, NEW s \in Songs, Succeeds(r, s) PROVE run' \in [Runs -> RunState]
  <2>1. [run[r] EXCEPT !.flight = @ \ {s}, !.done = @ \cup {s}, !.pending = @ \cup {s}] \in RunState
    BY <1>t DEF RunState
  <2> QED BY <1>6, <2>1, RunFits DEF Succeeds
<1>7. ASSUME NEW r \in Runs, NEW s \in Songs, FailsForGood(r, s) PROVE run' \in [Runs -> RunState]
  <2>1. [run[r] EXCEPT !.flight = @ \ {s}, !.dead = @ \cup {s}] \in RunState
    BY <1>t DEF RunState
  <2> QED BY <1>7, <2>1, RunFits DEF FailsForGood
<1>8. ASSUME NEW r \in Runs, NEW s \in Songs, FailsForNow(r, s) PROVE run' \in [Runs -> RunState]
  <2>1. [run[r] EXCEPT !.flight = @ \ {s}, !.flaky = @ \cup {s}] \in RunState
    BY <1>t DEF RunState
  <2> QED BY <1>8, <2>1, RunFits DEF FailsForNow
<1>9. ASSUME NEW r \in Runs, NEW s \in Songs, Flush(r, s) \/ FlushFails(r, s)
      PROVE  run' \in [Runs -> RunState]
  <2>1. [run[r] EXCEPT !.pending = @ \ {s}] \in RunState
    BY <1>t DEF RunState
  <2> QED BY <1>9, <2>1, RunFits DEF Flush, FlushFails
<1>10. ASSUME NEW r \in Runs, Settle(r) PROVE run' \in [Runs -> RunState]
  <2>1. [run[r] EXCEPT !.phase = "rollback"] \in RunState
    BY <1>t DEF RunState
  <2>2. [run[r] EXCEPT !.phase = "purge", !.doomed = Doomed] \in RunState
    BY <1>t DEF RunState, Doomed
  <2> QED BY <1>10, <2>1, <2>2, LeftFits, RunFits DEF Settle
<1>11. ASSUME NEW r \in Runs, NEW s \in Songs, RollBack(r, s) PROVE run' \in [Runs -> RunState]
  <2>1. [run[r] EXCEPT !.dead = @ \ {s}] \in RunState
    BY <1>t DEF RunState
  <2> QED BY <1>11, <2>1, LeftFits, RunFits DEF RollBack
<1>12. ASSUME NEW r \in Runs, NEW s \in Songs, Remove(r, s) PROVE run' \in [Runs -> RunState]
  <2>1. run[r].purged \in Nat
    BY <1>t DEF RunState
  <2>2. PICK n \in Nat : n = IF IsWeb(s) THEN run[r].purged + 1 ELSE run[r].purged
    BY <2>1
  <2>3. [run[r] EXCEPT !.doomed = @ \ {s}, !.purged = n] \in RunState
    BY <1>t DEF RunState
  <2>4. RunIs(r, Left([run[r] EXCEPT !.doomed = @ \ {s}, !.purged = n]))
    BY <1>12, <2>2 DEF Remove
  <2> QED BY <2>3, <2>4, LeftFits, RunFits
<1>13. ASSUME NEW r \in Runs, Defer(r) \/ Dies(r) PROVE run' \in [Runs -> RunState]
  BY <1>13, IdleFits, RunFits DEF Defer, Dies
<1>14. ASSUME NEW r \in Runs, StopJob(r) PROVE run' \in [Runs -> RunState]
  <2>1. PICK on \in SUBSET run[r].flight : RunIs(r, [run[r] EXCEPT !.todo = {}, !.flight = on])
    BY <1>14 DEF StopJob
  <2>2. [run[r] EXCEPT !.todo = {}, !.flight = on] \in RunState
    BY <1>t DEF RunState
  <2> QED BY <2>1, <2>2, RunFits
<1>15. CASE UNCHANGED run
  BY <1>15 DEF TypeOK
<1> QED BY <1>2, <1>3, <1>4, <1>5, <1>6, <1>7, <1>8, <1>9, <1>10, <1>11, <1>12, <1>13, <1>14, <1>15
        DEF Next, RunStep, SongStep, Trouble, ResetLibraryAttempts, Day, vars

\* The rows of the two tables and of the library.
LEMMA LedgerTypes == ASSUME TypeOK, [Next]_vars PROVE ledger' \in [Songs -> LedgerRow]
<1>1. ASSUME NEW s \in Songs, NEW verdict \in Verdicts, ledger' = Recorded(s, verdict)
      PROVE  ledger' \in [Songs -> LedgerRow]
  BY <1>1, RecordFits
<1>2. ASSUME NEW r \in Runs, NEW s \in Songs, Succeeds(r, s) \/ FailsForGood(r, s) \/ FailsForNow(r, s)
      PROVE  ledger' \in [Songs -> LedgerRow]
  BY <1>1, <1>2 DEF Succeeds, FailsForGood, FailsForNow, Verdicts
<1>3. ASSUME NEW r \in Runs, NEW s \in Songs, RollBack(r, s) PROVE ledger' \in [Songs -> LedgerRow]
  <2>1. TakenBack(ledger[s]) \in LedgerRow
    BY DEF TypeOK, TakenBack, LedgerRow
  <2> QED BY <1>3, <2>1 DEF RollBack, TypeOK
<1>4. ASSUME NEW r \in Runs, NEW s \in Songs, Remove(r, s) PROVE ledger' \in [Songs -> LedgerRow]
  BY <1>4, NoRowFits DEF Remove, TypeOK
<1>5. CASE Day
  <2>1. ASSUME NEW s \in Songs, ledger[s].age < LedgerWindow
        PROVE  [ledger[s] EXCEPT !.age = @ + 1] \in LedgerRow
    BY <2>1, LedgerAssumption DEF TypeOK, LedgerRow
  <2> QED BY <1>5, <2>1 DEF Day, TypeOK
<1>6. CASE UNCHANGED ledger
  BY <1>6 DEF TypeOK
<1> QED BY <1>2, <1>3, <1>4, <1>5, <1>6
        DEF Next, RunStep, SongStep, Trouble, StartLibrary, StartJob, Skip, Begin, Flush, FlushFails,
            Settle, Defer, StopJob, Dies, ResetLibraryAttempts, vars, tables

LEMMA LibraryTypes ==
  ASSUME TypeOK, [Next]_vars
  PROVE  /\ lib' \in [Songs -> {"web", "local", "gone", "back", "both"}]
         /\ tried' \in [Songs -> 0..LibraryWindow]
<1> USE LedgerAssumption
<1>1. ASSUME NEW r \in Runs, NEW s \in Songs, SongStep(r, s) \/ FlushFails(r, s)
      PROVE  /\ lib' \in [Songs -> {"web", "local", "gone", "back", "both"}]
             /\ tried' \in [Songs -> 0..LibraryWindow]
  BY <1>1 DEF SongStep, FlushFails, Skip, Begin, Succeeds, FailsForGood, FailsForNow, Flush,
              RollBack, Remove, tables, TypeOK
<1>2. CASE ResetLibraryAttempts
  BY <1>2 DEF ResetLibraryAttempts, TypeOK
<1>3. CASE Day
  BY <1>3 DEF Day, TypeOK
<1>4. CASE UNCHANGED <<lib, tried>>
  BY <1>4 DEF TypeOK
<1> QED BY <1>1, <1>2, <1>3, <1>4
        DEF Next, RunStep, Trouble, StartLibrary, StartJob, Settle, Defer, StopJob, Dies, vars, tables

\* The history, the bound and the mark of the chain.
LEMMA HistoryTypes ==
  ASSUME TypeOK, [Next]_vars
  PROVE  proven' \in [Songs -> 0..Threshold] /\ held' \in [Runs -> SUBSET Songs] /\ events' \in 0..MaxEvents
<1> USE LedgerAssumption
<1>1. ASSUME NEW r \in Runs, NEW s \in Songs, SongStep(r, s) \/ FlushFails(r, s)
      PROVE  proven' \in [Songs -> 0..Threshold] /\ held' \in [Runs -> SUBSET Songs] /\ events' \in 0..MaxEvents
  BY <1>1 DEF SongStep, FlushFails, Skip, Begin, Succeeds, FailsForGood, FailsForNow, Flush,
              RollBack, Remove, history, TypeOK
<1>2. ASSUME NEW r \in Runs, Settle(r) \/ Dies(r)
      PROVE  proven' \in [Songs -> 0..Threshold] /\ held' \in [Runs -> SUBSET Songs] /\ events' \in 0..MaxEvents
  BY <1>2 DEF Settle, Dies, history, TypeOK
<1>3. ASSUME NEW r \in Runs, StartLibrary(r) \/ StartJob(r) \/ Defer(r) \/ StopJob(r)
      PROVE  proven' \in [Songs -> 0..Threshold] /\ held' \in [Runs -> SUBSET Songs] /\ events' \in 0..MaxEvents
  <2>1. UNCHANGED history
    BY <1>3, Zenon DEF StartLibrary, StartJob, Defer, StopJob
  <2>2. events' = events \/ (events > 0 /\ events' = events - 1)
    BY <1>3, Zenon DEF StartLibrary, StartJob, Defer, StopJob
  <2> QED BY <2>1, <2>2 DEF history, TypeOK
<1>4. CASE ResetLibraryAttempts \/ Day \/ UNCHANGED vars
  BY <1>4 DEF ResetLibraryAttempts, Day, vars, history, TypeOK
<1> QED BY <1>1, <1>2, <1>3, <1>4 DEF Next, RunStep, Trouble

LEMMA RestedType == ASSUME rested \in BOOLEAN, [Next]_vars PROVE rested' \in BOOLEAN
<1>1. ASSUME NEW r \in Runs, Settle(r) PROVE rested' \in BOOLEAN
  BY <1>1, Zenon DEF Settle
<1>2. ASSUME NEW r \in Runs, StopJob(r) PROVE rested' \in BOOLEAN
  BY <1>2, Zenon DEF StopJob
<1>3. CASE Day
  BY <1>3, Zenon DEF Day
<1>4. ASSUME NEW r \in Runs, NEW s \in Songs, SongStep(r, s) \/ FlushFails(r, s)
      PROVE  rested' = rested
  BY <1>4 DEF SongStep, FlushFails, Skip, Begin, Succeeds, FailsForGood, FailsForNow, Flush, RollBack, Remove
<1>5. ASSUME NEW r \in Runs, StartLibrary(r) \/ StartJob(r) \/ Defer(r) \/ Dies(r) PROVE rested' = rested
  BY <1>5 DEF StartLibrary, StartJob, Defer, Dies
<1>6. CASE ResetLibraryAttempts \/ UNCHANGED vars
  BY <1>6 DEF ResetLibraryAttempts, vars
<1> QED BY <1>1, <1>2, <1>3, <1>4, <1>5, <1>6, Zenon DEF Next, RunStep, Trouble

\* Every reachable state is well typed: no count below zero, and no age beyond
\* the windows (TypeOK).
THEOREM TypeCorrect == Spec => []TypeOK
<1>1. Init => TypeOK
  <2>1. ASSUME Init PROVE lib \in [Songs -> {"web", "local", "gone", "back", "both"}] /\ tried \in [Songs -> 0..LibraryWindow]
    BY <2>1, LedgerAssumption DEF Init
  <2>2. ASSUME Init PROVE ledger \in [Songs -> LedgerRow] /\ run \in [Runs -> RunState]
    BY <2>2, NoRowFits, IdleFits DEF Init
  <2>3. ASSUME Init PROVE proven \in [Songs -> 0..Threshold] /\ held \in [Runs -> SUBSET Songs] /\ events \in 0..MaxEvents
    BY <2>3, LedgerAssumption DEF Init
  <2>4. ASSUME Init PROVE rested \in BOOLEAN
    BY <2>4 DEF Init
  <2> QED BY <2>1, <2>2, <2>3, <2>4 DEF TypeOK
<1>2. TypeOK /\ [Next]_vars => TypeOK'
  <2>1. TypeOK => rested \in BOOLEAN
    BY Zenon DEF TypeOK
  <2> QED BY <2>1, RunTypes, LedgerTypes, LibraryTypes, HistoryTypes, RestedType, Zenon DEF TypeOK
<1> QED BY <1>1, <1>2, PTL DEF Spec

-----------------------------------------------------------------------------
(* A failure that may be taken back belongs to the run that holds it.      *)

LEMMA HeldStep ==
  ASSUME TypeOK, HeldByTheRun, [Next]_vars, NEW r \in Runs
  PROVE  HoldsItsOwn(r)'
<1>t. /\ run \in [Runs -> RunState] /\ run[r] \in RunState
      /\ held \in [Runs -> SUBSET Songs]
      /\ HoldsItsOwn(r)
  BY DEF TypeOK, HeldByTheRun
<1>1. ASSUME NEW q \in Runs, NEW plan \in SUBSET Songs, NEW kind \in {"auto", "job"},
             Starts(q, plan, kind), UNCHANGED held
      PROVE  HoldsItsOwn(r)'
  BY <1>1, <1>t DEF Starts, RunIs, IdleRun, HoldsItsOwn
<1>2. ASSUME NEW q \in Runs, NEW s \in Songs, Skip(q, s) PROVE HoldsItsOwn(r)'
  BY <1>2, <1>t DEF Skip, RunIs, HoldsItsOwn, RunState, history
<1>3. ASSUME NEW q \in Runs, NEW s \in Songs, Begin(q, s) PROVE HoldsItsOwn(r)'
  BY <1>3, <1>t DEF Begin, RunIs, HoldsItsOwn, RunState, history
<1>4. ASSUME NEW q \in Runs, NEW s \in Songs, Succeeds(q, s) PROVE HoldsItsOwn(r)'
  BY <1>4, <1>t DEF Succeeds, RunIs, HoldsItsOwn, RunState
<1>5. ASSUME NEW q \in Runs, NEW s \in Songs, FailsForGood(q, s) PROVE HoldsItsOwn(r)'
  BY <1>5, <1>t DEF FailsForGood, Working, RunIs, HoldsItsOwn, RunState
<1>6. ASSUME NEW q \in Runs, NEW s \in Songs, FailsForNow(q, s) PROVE HoldsItsOwn(r)'
  BY <1>6, <1>t DEF FailsForNow, RunIs, HoldsItsOwn, RunState, history
<1>7. ASSUME NEW q \in Runs, NEW s \in Songs, Flush(q, s) \/ FlushFails(q, s) PROVE HoldsItsOwn(r)'
  <2>1. RunIs(q, [run[q] EXCEPT !.pending = @ \ {s}]) /\ held' = held
    BY <1>7 DEF Flush, FlushFails, history
  <2> QED BY <2>1, <1>t DEF RunIs, HoldsItsOwn, RunState
<1>8. ASSUME NEW q \in Runs, Settle(q) PROVE HoldsItsOwn(r)'
  <2>1. run[q] \in RunState /\ Working(q)
    BY <1>8 DEF TypeOK, Settle
  <2>2. CASE Outage(run[q])
    <3>1. RunIs(q, [run[q] EXCEPT !.phase = "rollback"]) /\ held' = held
      BY <1>8, <2>2 DEF Settle, history
    <3> QED BY <3>1, <2>1, <1>t DEF RunIs, HoldsItsOwn, RunState
  <2>3. CASE ~Outage(run[q])
    <3>1. /\ RunIs(q, Left([run[q] EXCEPT !.phase = "purge", !.doomed = Doomed]))
          /\ held' = [held EXCEPT ![q] = {}]
      BY <1>8, <2>3 DEF Settle
    <3>2. CASE q = r
      BY <3>1, <3>2, <2>1, <1>t DEF Left, RunIs, IdleRun, HoldsItsOwn, RunState
    <3>3. CASE q # r
      BY <3>1, <3>3, <1>t DEF RunIs, HoldsItsOwn
    <3> QED BY <3>2, <3>3
  <2> QED BY <2>2, <2>3
<1>9. ASSUME NEW q \in Runs, NEW s \in Songs, RollBack(q, s) PROVE HoldsItsOwn(r)'
  BY <1>9, <1>t DEF RollBack, Left, RunIs, IdleRun, HoldsItsOwn, RunState
<1>10. ASSUME NEW q \in Runs, NEW s \in Songs, Remove(q, s) PROVE HoldsItsOwn(r)'
  BY <1>10, <1>t DEF Remove, Left, RunIs, IdleRun, HoldsItsOwn, RunState, history
<1>11. ASSUME NEW q \in Runs, Defer(q) \/ Dies(q) PROVE HoldsItsOwn(r)'
  BY <1>11, <1>t DEF Defer, Dies, RunIs, IdleRun, HoldsItsOwn, RunState, history
<1>12. ASSUME NEW q \in Runs, StopJob(q) PROVE HoldsItsOwn(r)'
  BY <1>12, <1>t DEF StopJob, RunIs, HoldsItsOwn, RunState, history
<1>13. CASE UNCHANGED <<run, held>>
  BY <1>13, <1>t DEF HoldsItsOwn
<1>14. LibraryPlan \in SUBSET Songs
  BY DEF LibraryPlan, Pool
<1> QED BY <1>1, <1>2, <1>3, <1>4, <1>5, <1>6, <1>7, <1>8, <1>9, <1>10, <1>11, <1>12, <1>13, <1>14
        DEF Next, RunStep, SongStep, Trouble, StartLibrary, StartJob, ResetLibraryAttempts, Day, vars, history

-----------------------------------------------------------------------------
(* Counts are evidence.                                                    *)

Evidence(s) == proven[s] = Threshold \/ ledger[s].fails <= proven[s] + Cardinality(Revocable(s))

LEMMA Finite == \A s \in Songs : IsFiniteSet(Revocable(s)) /\ Cardinality(Revocable(s)) \in Nat
BY LedgerAssumption, FS_Subset, FS_CardinalityType DEF Revocable

\* A song whose history did not change, and whose count did not rise.
LEMMA NoRise ==
  ASSUME TypeOK, TypeOK', NEW s \in Songs, Evidence(s),
         ledger'[s].fails <= ledger[s].fails, proven'[s] = proven[s],
         Revocable(s)' = Revocable(s)
  PROVE  Evidence(s)'
<1>1. Cardinality(Revocable(s))' = Cardinality(Revocable(s))
  BY Zenon
<1>2. /\ ledger[s].fails \in Nat /\ ledger'[s].fails \in Nat
      /\ proven[s] \in Nat /\ Cardinality(Revocable(s)) \in Nat
  BY Finite, LedgerAssumption DEF TypeOK, LedgerRow
<1> QED BY <1>1, <1>2 DEF Evidence

\* A record of another song does not raise the count of this one.
LEMMA OthersRecord ==
  ASSUME TypeOK, NEW t \in Songs, NEW s \in Songs, NEW verdict \in Verdicts, s # t,
         ledger' = Recorded(t, verdict)
  PROVE  ledger'[s].fails <= ledger[s].fails
<1>1. ledger[s] \in LedgerRow
  BY DEF TypeOK
<1> QED BY <1>1 DEF Recorded, NoRow, LedgerRow

\* The failures of run r stand: what they add to the one they take from the other.
LEMMA Stand ==
  ASSUME TypeOK, TypeOK', NEW r \in Runs, NEW s \in Songs, Evidence(s), ledger' = ledger,
         proven' = [t \in Songs |-> IF t \in held[r] /\ proven[t] < Threshold
                                      THEN proven[t] + 1 ELSE proven[t]],
         held' = [held EXCEPT ![r] = {}]
  PROVE  Evidence(s)'
<1>1. /\ ledger[s].fails \in Nat /\ proven[s] \in 0..Threshold /\ Threshold \in Nat
      /\ held \in [Runs -> SUBSET Songs]
  BY LedgerAssumption DEF TypeOK, LedgerRow
<1>2. CASE s \in held[r]
  <2>1. Revocable(s)' = Revocable(s) \ {r} /\ r \in Revocable(s)
    BY <1>1, <1>2 DEF Revocable
  <2>2. Cardinality(Revocable(s)') = Cardinality(Revocable(s)) - 1
    BY <2>1, Finite, FS_RemoveElement
  <2>3. proven'[s] = IF proven[s] < Threshold THEN proven[s] + 1 ELSE proven[s]
    BY <1>2
  <2> QED BY <1>1, <2>2, <2>3, Finite DEF Evidence
<1>3. CASE s \notin held[r]
  <2>1. Revocable(s)' = Revocable(s) /\ proven'[s] = proven[s]
    BY <1>1, <1>3 DEF Revocable
  <2> QED BY <2>1, <1>1, NoRise
<1> QED BY <1>2, <1>3

LEMMA EvidenceStep ==
  ASSUME TypeOK, TypeOK', HeldByTheRun, CountsAreEvidence, [Next]_vars, NEW s \in Songs
  PROVE  Evidence(s)'
<1>t. /\ held \in [Runs -> SUBSET Songs] /\ ledger \in [Songs -> LedgerRow] /\ ledger[s] \in LedgerRow
      /\ ledger'[s] \in LedgerRow
      /\ ledger[s].fails \in Nat /\ proven[s] \in 0..Threshold /\ Threshold \in Nat
      /\ Evidence(s) /\ Cardinality(Revocable(s)) \in Nat
  BY LedgerAssumption, Finite DEF TypeOK, LedgerRow, CountsAreEvidence, Evidence
<1>q. ASSUME UNCHANGED <<ledger, proven, held>> PROVE Evidence(s)'
  <2>1. Revocable(s)' = Revocable(s)
    BY <1>q DEF Revocable
  <2> QED BY <2>1, <1>q, <1>t, NoRise
<1>1. ASSUME NEW r \in Runs, NEW t \in Songs, Succeeds(r, t) PROVE Evidence(s)'
  <2>1. /\ ledger' = Recorded(t, "done") /\ "done" \in Verdicts
        /\ proven' = [proven EXCEPT ![t] = 0] /\ held' = [q \in Runs |-> held[q] \ {t}]
    BY <1>1 DEF Succeeds, Verdicts
  <2>2. CASE s = t
    <3>1. ledger'[s].fails = 0
      BY <2>1, <2>2 DEF Recorded, Upsert
    <3>2. Cardinality(Revocable(s)') \in Nat /\ proven'[s] \in Nat
      <4>1. Revocable(s)' \subseteq Runs
        BY DEF Revocable
      <4>2. IsFiniteSet(Revocable(s)')
        BY <4>1, LedgerAssumption, FS_Subset
      <4> QED BY <4>2, FS_CardinalityType, LedgerAssumption DEF TypeOK
    <3> QED BY <3>1, <3>2 DEF Evidence
  <2>3. CASE s # t
    <3>1. Revocable(s)' = Revocable(s) /\ proven'[s] = proven[s]
      BY <2>1, <2>3, <1>t DEF Revocable, TypeOK
    <3> QED BY <3>1, <2>1, <2>3, <1>t, NoRise, OthersRecord
  <2> QED BY <2>2, <2>3
<1>2. ASSUME NEW r \in Runs, NEW t \in Songs, FailsForGood(r, t) PROVE Evidence(s)'
  <2>1. /\ ledger' = Recorded(t, "dead") /\ "dead" \in Verdicts
        /\ proven' = proven /\ held' = [held EXCEPT ![r] = @ \cup {t}] /\ t \notin held[r]
    BY <1>2 DEF FailsForGood, Verdicts, HeldByTheRun, HoldsItsOwn
  <2>2. CASE s = t
    <3>1. ledger'[s].fails = ledger[s].fails + 1
      BY <2>1, <2>2 DEF Recorded, Upsert
    <3>2. Revocable(s)' = Revocable(s) \cup {r} /\ r \notin Revocable(s)
      BY <2>1, <2>2, <1>t DEF Revocable
    <3>3. Cardinality(Revocable(s)') = Cardinality(Revocable(s)) + 1
      BY <3>2, Finite, FS_AddElement
    <3> QED BY <3>1, <3>3, <2>1, <1>t DEF Evidence
  <2>3. CASE s # t
    <3>1. Revocable(s)' = Revocable(s) /\ proven'[s] = proven[s]
      BY <2>1, <2>3, <1>t DEF Revocable
    <3> QED BY <3>1, <2>1, <2>3, <1>t, NoRise, OthersRecord
  <2> QED BY <2>2, <2>3
<1>3. ASSUME NEW r \in Runs, NEW t \in Songs, FailsForNow(r, t) PROVE Evidence(s)'
  <2>1. /\ ledger' = Recorded(t, "flaky") /\ "flaky" \in Verdicts /\ UNCHANGED <<proven, held>>
    BY <1>3 DEF FailsForNow, Verdicts, history
  <2>2. Revocable(s)' = Revocable(s)
    BY <2>1 DEF Revocable
  <2>3. ledger'[t].fails = ledger[t].fails
    BY <2>1 DEF Recorded, Upsert
  <2>4. ledger'[s].fails <= ledger[s].fails
    BY <2>1, <2>3, <1>t, OthersRecord
  <2> QED BY <2>1, <2>2, <2>4, <1>t, NoRise
<1>4. ASSUME NEW r \in Runs, Settle(r) PROVE Evidence(s)'
  BY <1>4, <1>t, <1>q, Stand DEF Settle, tables, history
<1>5. ASSUME NEW r \in Runs, Dies(r) PROVE Evidence(s)'
  BY <1>5, <1>t, Stand DEF Dies, tables
<1>6. ASSUME NEW r \in Runs, NEW t \in Songs, RollBack(r, t) PROVE Evidence(s)'
  <2>1. /\ ledger' = [ledger EXCEPT ![t] = TakenBack(@)] /\ proven' = proven
        /\ held' = [held EXCEPT ![r] = @ \ {t}]
    BY <1>6 DEF RollBack
  <2>2. CASE s = t /\ s \in held[r]
    <3>1. ledger'[s].fails = IF ledger[s].fails > 0 THEN ledger[s].fails - 1 ELSE 0
      BY <2>1, <2>2, <1>t DEF TakenBack, LedgerRow
    <3>2. Revocable(s)' = Revocable(s) \ {r} /\ r \in Revocable(s)
      BY <2>1, <2>2, <1>t DEF Revocable
    <3>3. Cardinality(Revocable(s)') = Cardinality(Revocable(s)) - 1 /\ Cardinality(Revocable(s)') \in Nat
      BY <3>2, Finite, FS_RemoveElement, FS_CardinalityType
    <3> QED BY <3>1, <3>3, <2>1, <1>t DEF Evidence
  <2>3. CASE s # t \/ s \notin held[r]
    <3>1. Revocable(s)' = Revocable(s)
      BY <2>1, <2>3, <1>t DEF Revocable
    <3>2. ledger'[s].fails <= ledger[s].fails
      BY <2>1, <1>t DEF TakenBack, LedgerRow
    <3> QED BY <3>1, <3>2, <2>1, <1>t, NoRise
  <2> QED BY <2>2, <2>3
<1>7. ASSUME NEW r \in Runs, NEW t \in Songs, Remove(r, t) PROVE Evidence(s)'
  <2>1. ledger' = [ledger EXCEPT ![t] = NoRow] /\ UNCHANGED <<proven, held>>
    BY <1>7 DEF Remove, history
  <2>2. Revocable(s)' = Revocable(s)
    BY <2>1 DEF Revocable
  <2>3. ledger'[s].fails <= ledger[s].fails
    BY <2>1, <1>t DEF NoRow
  <2> QED BY <2>1, <2>2, <2>3, <1>t, NoRise
<1>8. CASE Day
  <2>1. ledger'[s].fails = ledger[s].fails
    BY <1>8, <1>t DEF Day, LedgerRow
  <2>2. UNCHANGED <<proven, held>>
    BY <1>8 DEF Day, history
  <2>3. Revocable(s)' = Revocable(s)
    BY <2>2 DEF Revocable
  <2> QED BY <2>1, <2>2, <2>3, <1>t, NoRise
<1>9. CASE ResetLibraryAttempts \/ UNCHANGED vars
  BY <1>9, <1>q DEF ResetLibraryAttempts, vars, tables, history
<1>10. ASSUME NEW r \in Runs, StartLibrary(r) \/ StartJob(r) \/ Defer(r) \/ StopJob(r) PROVE Evidence(s)'
  BY <1>10, <1>q DEF StartLibrary, StartJob, Defer, StopJob, tables, history
<1>11. ASSUME NEW r \in Runs, NEW t \in Songs, Skip(r, t) \/ Begin(r, t) \/ Flush(r, t) \/ FlushFails(r, t)
       PROVE  Evidence(s)'
  BY <1>11, <1>q DEF Skip, Begin, Flush, FlushFails, tables, history
<1> QED BY <1>1, <1>2, <1>3, <1>4, <1>5, <1>6, <1>7, <1>8, <1>9, <1>10, <1>11
        DEF Next, RunStep, SongStep, Trouble

LedgerInv == TypeOK /\ HeldByTheRun /\ CountsAreEvidence

LEMMA LedgerInvInit == Init => LedgerInv
<1> SUFFICES ASSUME Init PROVE LedgerInv
  OBVIOUS
<1>1. TypeOK
  <2>1. lib \in [Songs -> {"web", "local", "gone", "back", "both"}] /\ tried \in [Songs -> 0..LibraryWindow]
    BY LedgerAssumption DEF Init
  <2>2. ledger \in [Songs -> LedgerRow] /\ run \in [Runs -> RunState]
    BY NoRowFits, IdleFits DEF Init
  <2>3. proven \in [Songs -> 0..Threshold] /\ held \in [Runs -> SUBSET Songs] /\ events \in 0..MaxEvents
    BY LedgerAssumption DEF Init
  <2>4. rested \in BOOLEAN
    BY Zenon DEF Init
  <2> QED BY <2>1, <2>2, <2>3, <2>4, Zenon DEF TypeOK
<1>2. HeldByTheRun
  BY DEF Init, IdleRun, HeldByTheRun, HoldsItsOwn
<1>3. ASSUME NEW s \in Songs PROVE Evidence(s)
  <2>1. Cardinality(Revocable(s)) \in Nat
    BY Finite
  <2> QED BY <2>1 DEF Init, NoRow, Evidence
<1> QED BY <1>1, <1>2, <1>3 DEF LedgerInv, CountsAreEvidence, Evidence

LEMMA LedgerInvStep == LedgerInv /\ [Next]_vars => LedgerInv'
<1> SUFFICES ASSUME LedgerInv, [Next]_vars PROVE LedgerInv'
  OBVIOUS
<1>0. TypeOK /\ HeldByTheRun /\ CountsAreEvidence
  BY DEF LedgerInv
<1>1. TypeOK'
  <2>1. TypeOK => rested \in BOOLEAN
    BY Zenon DEF TypeOK
  <2> QED BY <2>1, <1>0, RunTypes, LedgerTypes, LibraryTypes, HistoryTypes, RestedType, Zenon DEF TypeOK
<1>2. HeldByTheRun'
  BY <1>0, HeldStep DEF HeldByTheRun
<1>3. \A s \in Songs : Evidence(s)'
  BY <1>0, <1>1, EvidenceStep
<1> QED BY <1>1, <1>2, <1>3 DEF LedgerInv, CountsAreEvidence, Evidence

LEMMA LedgerInvariant == Spec => []LedgerInv
BY LedgerInvInit, LedgerInvStep, PTL DEF Spec

\* The count of a song in fetch_download_attempts is never more than the failures
\* for good since its last success that were not taken back, whatever runs crash,
\* overlap, are stopped or meet an outage (CountsAreEvidence).
THEOREM CountsNeverInflated == Spec => []CountsAreEvidence
<1>1. LedgerInv => CountsAreEvidence
  BY DEF LedgerInv
<1> QED BY <1>1, LedgerInvariant, PTL

-----------------------------------------------------------------------------
(* Lists of songs to remove.                                               *)

\* Only the end of a run makes a list: that of the songs at the threshold.
LEMMA ListGrows ==
  ASSUME TypeOK, [Next]_vars, NEW r \in Runs, NEW s \in run'[r].doomed \ run[r].doomed
  PROVE  /\ Settle(r) /\ ~Outage(run[r])
         /\ s \in Doomed /\ ledger' = ledger
<1>t. /\ run \in [Runs -> RunState] /\ run[r] \in RunState
  BY DEF TypeOK
<1>1. ASSUME NEW q \in Runs, NEW w \in RunState, RunIs(q, w),
             w.doomed \subseteq run[q].doomed \/ w.doomed = {}
      PROVE  FALSE
  <2>1. run'[r] = IF q = r THEN w ELSE run[r]
    BY <1>1, <1>t DEF RunIs
  <2> QED BY <2>1, <1>1
<1>2. ASSUME NEW q \in Runs, Settle(q)
      PROVE  q = r /\ ~Outage(run[q]) /\ s \in Doomed /\ ledger' = ledger
  <2>0. run[q] \in RunState /\ ledger' = ledger
    BY <1>2 DEF TypeOK, Settle, tables
  <2>1. CASE Outage(run[q])
    <3>1. RunIs(q, [run[q] EXCEPT !.phase = "rollback"])
      BY <1>2, <2>1 DEF Settle
    <3>2. [run[q] EXCEPT !.phase = "rollback"] \in RunState
      BY <2>0 DEF RunState
    <3>3. [run[q] EXCEPT !.phase = "rollback"].doomed = run[q].doomed
      BY <2>0 DEF RunState
    <3> QED BY <1>1, <3>1, <3>2, <3>3
  <2>2. CASE ~Outage(run[q])
    <3>1. RunIs(q, Left([run[q] EXCEPT !.phase = "purge", !.doomed = Doomed]))
      BY <1>2, <2>2 DEF Settle
    <3>2. run'[q] = Left([run[q] EXCEPT !.phase = "purge", !.doomed = Doomed])
      BY <3>1, <1>t DEF RunIs
    <3>3. q = r
      BY <3>1, <1>t DEF RunIs
    <3>4. run'[q].doomed = {} \/ run'[q].doomed = Doomed
      BY <3>2, <2>0 DEF Left, IdleRun, RunState
    <3> QED BY <2>0, <2>2, <3>3, <3>4
  <2> QED BY <2>1, <2>2
<1>3. ASSUME NEW q \in Runs, NEW plan \in SUBSET Songs, NEW kind \in {"auto", "job"}, Starts(q, plan, kind)
      PROVE  FALSE
  <2>1. [IdleRun EXCEPT !.phase = "work", !.kind = kind, !.todo = plan] \in RunState
    BY DEF IdleRun, RunState
  <2>2. [IdleRun EXCEPT !.phase = "work", !.kind = kind, !.todo = plan].doomed = {}
    BY DEF IdleRun
  <2> QED BY <1>1, <1>3, <2>1, <2>2 DEF Starts
<1>4. ASSUME NEW q \in Runs, StartLibrary(q) \/ StartJob(q) PROVE FALSE
  <2>1. LibraryPlan \in SUBSET Songs
    BY DEF LibraryPlan, Pool
  <2> QED BY <1>3, <1>4, <2>1 DEF StartLibrary, StartJob
<1>5. ASSUME NEW q \in Runs, NEW t \in Songs, SongStep(q, t) \/ FlushFails(q, t)
      PROVE  run'[r].doomed \subseteq run[r].doomed \/ run'[r].doomed = {}
  <2>0. run[q] \in RunState
    BY <1>t DEF TypeOK
  <2>1. CASE Skip(q, t)
    BY <2>0, <2>1, <1>t DEF Skip, RunIs, RunState
  <2>2. CASE Begin(q, t)
    BY <2>0, <2>2, <1>t DEF Begin, RunIs, RunState
  <2>5. CASE Succeeds(q, t)
    BY <2>0, <2>5, <1>t DEF Succeeds, RunIs, RunState
  <2>6. CASE FailsForGood(q, t)
    BY <2>0, <2>6, <1>t DEF FailsForGood, RunIs, RunState
  <2>7. CASE FailsForNow(q, t)
    BY <2>0, <2>7, <1>t DEF FailsForNow, RunIs, RunState
  <2>8. CASE Flush(q, t) \/ FlushFails(q, t)
    <3>1. RunIs(q, [run[q] EXCEPT !.pending = @ \ {t}])
      BY <2>8 DEF Flush, FlushFails
    <3> QED BY <3>1, <2>0, <1>t DEF RunIs, RunState
  <2>3. CASE RollBack(q, t)
    BY <2>0, <2>3, <1>t DEF RollBack, Left, IdleRun, RunIs, RunState
  <2>4. CASE Remove(q, t)
    BY <2>0, <2>4, <1>t DEF Remove, Left, IdleRun, RunIs, RunState
  <2> QED BY <1>5, <2>1, <2>2, <2>3, <2>4, <2>5, <2>6, <2>7, <2>8 DEF SongStep
<1>6. ASSUME NEW q \in Runs, Defer(q) \/ Dies(q) PROVE FALSE
  <2>1. IdleRun.doomed = {}
    BY DEF IdleRun
  <2> QED BY <2>1, <1>1, <1>6, IdleFits DEF Defer, Dies
<1>7. ASSUME NEW q \in Runs, StopJob(q) PROVE run'[r].doomed = run[r].doomed
  <2>0. run[q] \in RunState
    BY DEF TypeOK
  <2>1. PICK on \in SUBSET run[q].flight : RunIs(q, [run[q] EXCEPT !.todo = {}, !.flight = on])
    BY <1>7 DEF StopJob
  <2> QED BY <2>0, <2>1, <1>t DEF RunIs, RunState
<1>8. ASSUME UNCHANGED run PROVE FALSE
  BY <1>8
<1>9. ~(run'[r].doomed \subseteq run[r].doomed) /\ run'[r].doomed # {}
  OBVIOUS
<1>10. PICK q \in Runs : Settle(q)
  BY <1>4, <1>5, <1>6, <1>7, <1>8, <1>9
     DEF Next, RunStep, Trouble, ResetLibraryAttempts, Day, vars
<1> QED BY <1>10, <1>2

\* A run lists a song for removal only if it failed for good Threshold times since
\* its last success (ListedIsProven).
THEOREM ListsAreProven == Spec => ListedIsProven
<1>1. ASSUME LedgerInv, LedgerInv', [Next]_vars, NEW r \in Runs, NEW s \in run'[r].doomed \ run[r].doomed
      PROVE  proven'[s] + Cardinality(Revocable(s)') >= Threshold
  <2>1. s \in Doomed /\ ledger' = ledger
    BY <1>1, ListGrows DEF LedgerInv
  <2>2. s \in Doomed'
    BY <2>1 DEF Doomed
  <2>3. TypeOK' /\ CountsAreEvidence'
    BY <1>1 DEF LedgerInv
  <2>4. s \in Songs /\ ledger'[s].fails >= Threshold /\ ledger'[s].fails \in Nat
    BY <2>2, <2>3 DEF Doomed, TypeOK, LedgerRow
  <2>5. IsFiniteSet(Revocable(s)')
    <3>1. Revocable(s)' \subseteq Runs
      BY DEF Revocable
    <3> QED BY <3>1, LedgerAssumption, FS_Subset
  <2>6. Cardinality(Revocable(s)') \in Nat /\ proven'[s] \in Nat /\ Threshold \in Nat
    BY <2>3, <2>4, <2>5, FS_CardinalityType, LedgerAssumption DEF TypeOK
  <2> QED BY <2>3, <2>4, <2>6 DEF CountsAreEvidence
<1>2. LedgerInv /\ LedgerInv' /\ [Next]_vars =>
        \A r \in Runs : \A s \in run'[r].doomed \ run[r].doomed :
          proven'[s] + Cardinality(Revocable(s)') >= Threshold
  BY <1>1
<1> QED BY <1>2, LedgerInvariant, PTL DEF Spec, ListedIsProven

-----------------------------------------------------------------------------
(* Runs one after the other.                                               *)

LoneInv == LedgerInv /\ SuccessClears /\ ListStands

LEMMA SuccessStep ==
  ASSUME TypeOK, SuccessClears, [Next]_vars, NEW s \in Songs, ledger'[s].last = "done"
  PROVE  ledger'[s].fails = 0
<1>t. /\ ledger \in [Songs -> LedgerRow] /\ ledger[s] \in LedgerRow
      /\ ledger[s].last = "done" => ledger[s].fails = 0
  BY DEF TypeOK, SuccessClears
<1>1. ASSUME NEW t \in Songs, NEW verdict \in Verdicts, ledger' = Recorded(t, verdict)
      PROVE  ledger'[s].fails = 0
  <2>1. ledger'[s] = IF s = t THEN Upsert(ledger[s], verdict)
                     ELSE IF ledger[s].age >= LedgerWindow THEN NoRow ELSE ledger[s]
    BY <1>1 DEF Recorded
  <2> QED BY <2>1, <1>t DEF Upsert, NoRow
<1>2. ASSUME NEW r \in Runs, NEW t \in Songs, Succeeds(r, t) \/ FailsForGood(r, t) \/ FailsForNow(r, t)
      PROVE  ledger'[s].fails = 0
  BY <1>1, <1>2 DEF Succeeds, FailsForGood, FailsForNow, Verdicts
<1>3. ASSUME NEW r \in Runs, NEW t \in Songs, RollBack(r, t) PROVE ledger'[s].fails = 0
  BY <1>3, <1>t DEF RollBack, TakenBack, LedgerRow
<1>4. ASSUME NEW r \in Runs, NEW t \in Songs, Remove(r, t) PROVE ledger'[s].fails = 0
  BY <1>4, <1>t DEF Remove, NoRow
<1>5. CASE Day
  BY <1>5, <1>t DEF Day, LedgerRow
<1>6. CASE UNCHANGED ledger
  BY <1>6, <1>t
<1> QED BY <1>2, <1>3, <1>4, <1>5, <1>6
        DEF Next, RunStep, SongStep, Trouble, StartLibrary, StartJob, Skip, Begin, Flush, FlushFails,
            Settle, Defer, StopJob, Dies, ResetLibraryAttempts, vars, tables

\* When a lone run makes its list, all failures stand.
LEMMA ListMade ==
  ASSUME OneRun, LedgerInv, LedgerInv', SuccessClears, NEW r \in Runs, Settle(r), ~Outage(run[r]),
         NEW s \in Doomed
  PROVE  proven'[s] = Threshold /\ ledger'[s].last # "done"
<1>1. /\ TypeOK /\ TypeOK' /\ CountsAreEvidence' /\ ledger' = ledger /\ held' = [held EXCEPT ![r] = {}]
      /\ s \in Songs /\ ledger[s].fails >= Threshold
  BY DEF LedgerInv, Settle, tables, Doomed
<1>2. ledger[s].fails \in Nat /\ Threshold \in Nat \ {0} /\ proven'[s] \in 0..Threshold
  BY <1>1, LedgerAssumption DEF TypeOK, LedgerRow
<1>3. held'[r] = {}
  BY <1>1 DEF TypeOK
<1>4. Revocable(s)' = {}
  BY <1>3 DEF Revocable, OneRun
<1>5. Cardinality(Revocable(s)') = 0
  BY <1>4, FS_EmptySet
<1>6. proven'[s] = Threshold
  BY <1>1, <1>2, <1>5 DEF CountsAreEvidence
<1>7. ledger[s].last # "done"
  BY <1>1, <1>2 DEF SuccessClears
<1> QED BY <1>1, <1>6, <1>7

LEMMA ListStep ==
  ASSUME OneRun, LoneInv, LedgerInv', [Next]_vars, NEW r \in Runs, run'[r].phase = "purge",
         NEW s \in run'[r].doomed
  PROVE  proven'[s] = Threshold /\ ledger'[s].last # "done"
<1>t. /\ TypeOK /\ LedgerInv /\ SuccessClears
      /\ run \in [Runs -> RunState] /\ run[r] \in RunState
      /\ run[r].phase = "purge" => \A t \in run[r].doomed : proven[t] = Threshold /\ ledger[t].last # "done"
  BY DEF LoneInv, LedgerInv, TypeOK, ListStands
<1>1. ASSUME NEW q \in Runs, NEW w \in RunState, RunIs(q, w) PROVE run'[r] = w /\ q = r
  BY <1>1, <1>t DEF RunIs, OneRun
<1>2. ASSUME NEW q \in Runs, StartLibrary(q) \/ StartJob(q) PROVE FALSE
  <2>1. PICK plan, kind : Starts(q, plan, kind)
    BY <1>2 DEF StartLibrary, StartJob
  <2>2. RunIs(q, [IdleRun EXCEPT !.phase = "work", !.kind = kind, !.todo = plan]) /\ q = r
    BY <2>1 DEF Starts, OneRun
  <2> QED BY <2>2, <1>t DEF RunIs, IdleRun
<1>3. ASSUME NEW q \in Runs, NEW t \in Songs,
             Skip(q, t) \/ Begin(q, t) \/ Succeeds(q, t) \/ FailsForGood(q, t) \/ FailsForNow(q, t)
             \/ Flush(q, t) \/ FlushFails(q, t)
      PROVE  FALSE
  <2>1. q = r /\ run[r].phase = "work"
    BY <1>3 DEF OneRun, Working, Skip, Begin, Succeeds, FailsForGood, FailsForNow, Flush, FlushFails
  <2>2. CASE Skip(q, t)
    BY <2>1, <2>2, <1>t DEF Skip, RunIs, RunState
  <2>3. CASE Begin(q, t)
    BY <2>1, <2>3, <1>t DEF Begin, RunIs, RunState
  <2>4. CASE Succeeds(q, t)
    BY <2>1, <2>4, <1>t DEF Succeeds, RunIs, RunState
  <2>5. CASE FailsForGood(q, t)
    BY <2>1, <2>5, <1>t DEF FailsForGood, RunIs, RunState
  <2>6. CASE FailsForNow(q, t)
    BY <2>1, <2>6, <1>t DEF FailsForNow, RunIs, RunState
  <2>7. CASE Flush(q, t) \/ FlushFails(q, t)
    BY <2>1, <2>7, <1>t DEF Flush, FlushFails, RunIs, RunState
  <2> QED BY <1>3, <2>2, <2>3, <2>4, <2>5, <2>6, <2>7
<1>4. ASSUME NEW q \in Runs, Settle(q) PROVE proven'[s] = Threshold /\ ledger'[s].last # "done"
  <2>0. q = r /\ Working(r) /\ run[r].phase = "work"
    BY <1>4 DEF OneRun, Settle, Working
  <2>1. CASE Outage(run[r])
    BY <2>0, <2>1, <1>4, <1>t DEF Settle, RunIs, RunState
  <2>2. CASE ~Outage(run[r])
    <3>1. run'[r] = Left([run[r] EXCEPT !.phase = "purge", !.doomed = Doomed])
      BY <1>4, <2>0, <2>2, <1>t DEF Settle, RunIs
    <3>2. s \in Doomed
      BY <3>1, <1>t DEF Left, IdleRun, RunState
    <3> QED BY <3>2, <2>0, <2>2, <1>4, <1>t, ListMade
  <2> QED BY <2>1, <2>2
<1>5. ASSUME NEW q \in Runs, NEW t \in Songs, RollBack(q, t) PROVE FALSE
  <2>1. q = r
    BY DEF OneRun
  <2> QED BY <2>1, <1>5, <1>t DEF RollBack, Left, IdleRun, RunIs, RunState
<1>6. ASSUME NEW q \in Runs, NEW t \in Songs, Remove(q, t)
      PROVE  proven'[s] = Threshold /\ ledger'[s].last # "done"
  <2>1. q = r /\ run[r].phase = "purge" /\ proven' = proven /\ ledger' = [ledger EXCEPT ![t] = NoRow]
    BY <1>6 DEF OneRun, Remove, history
  <2>2. s \in run[r].doomed /\ s # t
    BY <2>1, <1>6, <1>t DEF Remove, Left, IdleRun, RunIs, RunState
  <2>3. s \in Songs
    BY <2>2, <1>t DEF RunState
  <2> QED BY <2>1, <2>2, <2>3, <1>t DEF TypeOK
<1>7. ASSUME NEW q \in Runs, Defer(q) \/ Dies(q) PROVE FALSE
  BY <1>7, <1>1, IdleFits DEF Defer, Dies, IdleRun
<1>8. ASSUME NEW q \in Runs, StopJob(q) PROVE FALSE
  <2>1. q = r /\ run[r].phase = "work"
    BY <1>8 DEF OneRun, StopJob, Working
  <2> QED BY <2>1, <1>8, <1>t DEF StopJob, RunIs, RunState
<1>9. ASSUME Day PROVE FALSE
  BY <1>9 DEF Day, AllIdle
<1>10. ASSUME ResetLibraryAttempts \/ UNCHANGED vars
       PROVE  proven'[s] = Threshold /\ ledger'[s].last # "done"
  BY <1>10, <1>t DEF ResetLibraryAttempts, vars, tables, history
<1> QED BY <1>2, <1>3, <1>4, <1>5, <1>6, <1>7, <1>8, <1>9, <1>10
        DEF Next, RunStep, SongStep, Trouble

LEMMA LoneInvariant == ASSUME OneRun PROVE Spec => []LoneInv
<1>1. Init => LoneInv
  <2>1. Init => LedgerInv
    BY LedgerInvInit
  <2>2. Init => SuccessClears /\ ListStands
    BY DEF Init, NoRow, IdleRun, SuccessClears, ListStands
  <2> QED BY <2>1, <2>2 DEF LoneInv
<1>2. LoneInv /\ [Next]_vars => LoneInv'
  <2> SUFFICES ASSUME LoneInv, [Next]_vars PROVE LoneInv'
    OBVIOUS
  <2>1. LedgerInv /\ LedgerInv' /\ TypeOK /\ SuccessClears
    BY LedgerInvStep DEF LoneInv, LedgerInv
  <2>2. SuccessClears'
    BY <2>1, SuccessStep DEF SuccessClears
  <2>3. ListStands'
    BY <2>1, ListStep DEF ListStands
  <2> QED BY <2>1, <2>2, <2>3 DEF LoneInv
<1> QED BY <1>1, <1>2, PTL DEF Spec

\* Only a removal takes a web song out of the library.
LEMMA Removal ==
  ASSUME TypeOK, [Next]_vars, NEW s \in Songs, Removed(s)
  PROVE  \E r \in Runs : run[r].phase = "purge" /\ s \in run[r].doomed
<1>1. ASSUME NEW r \in Runs, NEW t \in Songs, Flush(r, t) PROVE FALSE
  BY <1>1 DEF Flush, TypeOK, Removed, IsWeb
<1>2. ASSUME NEW r \in Runs, NEW t \in Songs, Remove(r, t)
      PROVE  run[r].phase = "purge" /\ s \in run[r].doomed
  BY <1>2 DEF Remove, TypeOK, Removed, IsWeb
<1>3. ASSUME NEW r \in Runs, NEW t \in Songs,
             Skip(r, t) \/ Begin(r, t) \/ Succeeds(r, t) \/ FailsForGood(r, t) \/ FailsForNow(r, t)
             \/ FlushFails(r, t) \/ RollBack(r, t)
      PROVE  FALSE
  BY <1>3 DEF Skip, Begin, Succeeds, FailsForGood, FailsForNow, FlushFails, RollBack, tables, TypeOK,
              Removed, IsWeb
<1>4. ASSUME NEW r \in Runs,
             StartLibrary(r) \/ StartJob(r) \/ Settle(r) \/ Defer(r) \/ StopJob(r) \/ Dies(r)
      PROVE  FALSE
  BY <1>4 DEF StartLibrary, StartJob, Settle, Defer, StopJob, Dies, tables, Removed, IsWeb
<1>5. ASSUME ResetLibraryAttempts \/ Day \/ UNCHANGED vars PROVE FALSE
  BY <1>5 DEF ResetLibraryAttempts, Day, vars, tables, Removed, IsWeb
<1> QED BY <1>1, <1>2, <1>3, <1>4, <1>5 DEF Next, RunStep, SongStep, Trouble

\* If runs follow one another, a song is removed only when it has failed for good
\* Threshold times since its last success, and no outage can take a failure back
\* (RemovedIsProven).
THEOREM LoneRunRemovesProven == ASSUME OneRun PROVE Spec => RemovedIsProven
<1>1. LoneInv /\ [Next]_vars => \A s \in Songs : Removed(s) => proven[s] = Threshold
  BY Removal DEF LoneInv, LedgerInv, ListStands
<1> QED BY <1>1, LoneInvariant, PTL DEF Spec, RemovedIsProven

\* If runs follow one another, no song is removed whose last download succeeded
\* (DownloadedStays).
THEOREM LoneRunKeepsDownloaded == ASSUME OneRun PROVE Spec => DownloadedStays
<1>1. LoneInv /\ [Next]_vars => \A s \in Songs : Removed(s) => ledger[s].last # "done"
  BY Removal DEF LoneInv, LedgerInv, ListStands
<1> QED BY <1>1, LoneInvariant, PTL DEF Spec, DownloadedStays

=============================================================================
