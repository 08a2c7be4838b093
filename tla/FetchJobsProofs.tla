--------------------------- MODULE FetchJobsProofs ---------------------------
(***************************************************************************)
(* Proofs about FetchJobs, for any number of jobs, loops, songs and        *)
(* environment events: type correctness, the re-entry guard of             *)
(* startFetchJob and the end of a chain.                                   *)
(***************************************************************************)
EXTENDS FetchJobs, FiniteSetTheorems, TLAPS

-----------------------------------------------------------------------------
(* Facts about the operators on rows.                                      *)

\* The number of songs in a set of songs, a tally among them, is a natural.
LEMMA SongsFinite == ASSUME NEW S \in SUBSET Songs PROVE IsFiniteSet(S) /\ Cardinality(S) \in Nat
BY FetchAssumption, FS_Subset, FS_CardinalityType

LEMMA TallyType == ASSUME NEW f, NEW st PROVE Tally(f, st) \in Nat
BY SongsFinite, {s \in Songs : f[s] = st} \in SUBSET Songs DEF Tally

LEMMA NoRowType == NoRow \in Rows /\ NoItems \in [Songs -> ItemSt] /\ ZeroCounts \in Counts
BY DEF NoRow, Rows, Statuses, Kinds, NoItems, ZeroCounts, Counts, ItemSt

\* createFetchJob makes a well-formed row of a set of songs.
LEMMA NewRowType ==
  ASSUME NEW k \in Kinds, NEW a \in BOOLEAN, NEW b \in BOOLEAN, NEW T \in SUBSET Songs
  PROVE  NewRow(k, a, b, T) \in Rows
BY NoRowType DEF NewRow, NoRow, Rows, Statuses, Kinds, NoItems, ItemSt

LEMMA BatchType == ASSUME TypeOK, NEW f \in Flows PROVE Batch(f) \in SUBSET Songs
BY DEF Batch, First, Pool

LEMMA AddCountsType ==
  ASSUME NEW c \in Counts, NEW todo \in SUBSET Songs, NEW out
  PROVE  AddCounts(c, todo, out) \in Counts
<1>1. /\ Cardinality(todo) \in Nat /\ Tally(out, "done") \in Nat /\ Tally(out, "failed") \in Nat
      /\ Tally(out, "skipped") \in Nat /\ Tally(out, "cooling") \in Nat
  BY SongsFinite, TallyType
<1> QED BY <1>1 DEF AddCounts, Counts

LEMMA RecountType ==
  ASSUME NEW items, NEW T \in SUBSET Songs PROVE Recount(items, T) \in Counts
<1>1. /\ Cardinality(T) \in Nat /\ Tally(items, "done") \in Nat /\ Tally(items, "failed") \in Nat
      /\ Tally(items, "skipped") \in Nat
  BY SongsFinite, TallyType
<1> QED BY <1>1 DEF Recount, Counts

LEMMA MergeItemsType ==
  ASSUME NEW items \in [Songs -> ItemSt], NEW out \in [Songs -> Results]
  PROVE  MergeItems(items, out) \in [Songs -> ItemSt]
BY DEF MergeItems, Stored, ItemSt, Results

LEMMA VerdictType == ASSUME NEW c, NEW b PROVE Verdict(c, b) \in Statuses
BY DEF Verdict, Statuses

-----------------------------------------------------------------------------
(* Starting jobs and settling loops.                                       *)

\* What a start writes is well formed, whatever jobs it is given.
LEMMA StartAllType ==
  ASSUME NEW r \in [Jobs -> Rows], NEW c \in [Jobs -> Loops \cup {NoLoop}],
         NEW l \in [Loops -> LoopSt], NEW at, DOMAIN at \subseteq Jobs,
         \A j \in DOMAIN at : at[j] \in Loops,
         StartAll(r, c, l, at)
  PROVE  /\ row' \in [Jobs -> Rows]
         /\ ctl' \in [Jobs -> Loops \cup {NoLoop}]
         /\ loop' \in [Loops -> LoopSt]
<1> DEFINE S == {j \in DOMAIN at : c[j] = NoLoop}
<1>1. CASE writable
  <2>1. \A n \in Loops : (\E j \in S : at[j] = n) =>
          [IdleLoop EXCEPT !.job = CHOOSE j \in S : at[j] = n, !.pc = "queue"] \in LoopSt
  <3> SUFFICES ASSUME NEW n \in Loops, \E j \in S : at[j] = n
               PROVE  [IdleLoop EXCEPT !.job = CHOOSE j \in S : at[j] = n, !.pc = "queue"] \in LoopSt
    OBVIOUS
  <3>1. (CHOOSE j \in S : at[j] = n) \in Jobs OBVIOUS
  <3> QED BY <3>1 DEF IdleLoop, LoopSt
  <2>2. row' = r /\ ctl' = [j \in Jobs |-> IF j \in S THEN at[j] ELSE c[j]]
    BY <1>1 DEF StartAll
  <2>3. loop' = [n \in Loops |->
                   IF \E j \in S : at[j] = n
                   THEN [IdleLoop EXCEPT !.job = CHOOSE j \in S : at[j] = n, !.pc = "queue"]
                   ELSE l[n]]
    BY <1>1 DEF StartAll
  <2>4. loop' \in [Loops -> LoopSt]
    <3> HIDE DEF S
    <3> QED BY <2>1, <2>3
  <2> QED BY <2>2, <2>4
<1>2. CASE ~writable
  <2>1. \A j \in Jobs : [r[j] EXCEPT !.status = "failed"] \in Rows
    BY DEF Rows, Statuses
  <2> QED BY <1>2, <2>1 DEF StartAll
<1> QED BY <1>1, <1>2

LEMMA StartFetchJobType ==
  ASSUME NEW r \in [Jobs -> Rows], NEW c \in [Jobs -> Loops \cup {NoLoop}],
         NEW l \in [Loops -> LoopSt], NEW k \in Jobs, NEW n \in Loops,
         StartFetchJob(r, c, l, k, n)
  PROVE  /\ row' \in [Jobs -> Rows]
         /\ ctl' \in [Jobs -> Loops \cup {NoLoop}]
         /\ loop' \in [Loops -> LoopSt]
BY StartAllType, DOMAIN [j \in {k} |-> n] = {k} DEF StartFetchJob

LEMMA OpenBatchType ==
  ASSUME TypeOK, NEW f \in Flows, NEW r \in [Jobs -> Rows],
         NEW c \in [Jobs -> Loops \cup {NoLoop}], NEW l \in [Loops -> LoopSt],
         NEW k \in Jobs, NEW n \in Loops, OpenBatch(f, r, c, l, k, n)
  PROVE  /\ row' \in [Jobs -> Rows]
         /\ ctl' \in [Jobs -> Loops \cup {NoLoop}]
         /\ loop' \in [Loops -> LoopSt]
         /\ attempted' \in [Flows -> SUBSET Songs]
         /\ session' \in [Flows -> BOOLEAN]
<1>1. f \in Kinds BY FetchAssumption DEF Kinds
<1>2. NewRow(f, TRUE, f = "library", Batch(f)) \in Rows BY <1>1, NewRowType, BatchType
<1>3. [r EXCEPT ![k] = NewRow(f, TRUE, f = "library", Batch(f))] \in [Jobs -> Rows] BY <1>2
<1>4. /\ attempted' \in [Flows -> SUBSET Songs]
      /\ session' \in [Flows -> BOOLEAN]
  BY BatchType DEF OpenBatch, TypeOK
<1> QED BY <1>3, <1>4, StartFetchJobType DEF OpenBatch

LEMMA FinalizeType ==
  ASSUME NEW r \in [Jobs -> Rows], NEW j \in Jobs
  PROVE  FinalizeDrainedFetchJob(r, j) \in [Jobs -> Rows]
<1> DEFINE missing == {s \in r[j].targets : r[j].items[s] = "none"}
           items == [s \in Songs |-> IF s \in missing THEN "cancelled" ELSE r[j].items[s]]
           total == IF missing = {} THEN r[j].cnt.total ELSE Cardinality(r[j].targets)
<1>1. r[j] \in Rows OBVIOUS
<1>2. items \in [Songs -> ItemSt] BY <1>1 DEF Rows, ItemSt
<1>3. total \in Nat BY <1>1, SongsFinite DEF Rows, Counts
<1>4. FinalStatus(r[j].status) \in Statuses BY <1>1 DEF FinalStatus, Rows, Statuses, ActiveSt
<1>5. FinalizeDrainedFetchJob(r, j) =
        IF r[j].status = "none" THEN r
        ELSE [r EXCEPT ![j].status = FinalStatus(@), ![j].items = items, ![j].cnt.total = total]
  BY DEF FinalizeDrainedFetchJob
<1> HIDE DEF items, total
<1>6. [r[j] EXCEPT !.status = FinalStatus(@), !.items = items, !.cnt.total = total] \in Rows
  BY <1>1, <1>2, <1>3, <1>4 DEF Rows, Counts
<1> QED BY <1>5, <1>6

-----------------------------------------------------------------------------
(* The map of controllers and the loops.                                   *)

\* Wiring, for the controllers c, loops l and children ch of a moment inside
\* a handler.
Fit(c, l) ==
  /\ \A n \in Loops : /\ l[n].pc = "idle" <=> l[n].job = NoJob
                      /\ l[n].job # NoJob => c[l[n].job] = n
  /\ \A j \in Jobs : c[j] # NoLoop => l[c[j]].job = j
ChildrenFit(ch, l) == \A n \in Loops : ch[n].pc # "none" => l[n].pc = "child"

LEMMA WiringIsFit == Wiring <=> Fit(ctl, loop) /\ ChildrenFit(child, loop)
BY DEF Wiring, Fit, ChildrenFit, Driven

\* Starting jobs in idle loops, one loop each, keeps map and loops together:
\* startFetchJob ignores the jobs that already have a loop.
LEMMA StartAllFit ==
  ASSUME NEW r, NEW c \in [Jobs -> Loops \cup {NoLoop}], NEW l \in [Loops -> LoopSt],
         NEW ch, Fit(c, l), ChildrenFit(ch, l),
         NEW at, DOMAIN at \subseteq Jobs,
         \A j \in DOMAIN at : at[j] \in Loops /\ l[at[j]].pc = "idle",
         \A i, j \in DOMAIN at : at[i] = at[j] => i = j,
         StartAll(r, c, l, at)
  PROVE  Fit(ctl', loop') /\ ChildrenFit(ch, loop')
<1> DEFINE S == {j \in DOMAIN at : c[j] = NoLoop}
<1>1. CASE ~writable BY <1>1 DEF StartAll
<1>2. CASE writable
  <2>1. ctl' = [j \in Jobs |-> IF j \in S THEN at[j] ELSE c[j]] BY <1>2 DEF StartAll
  <2>2. loop' = [n \in Loops |->
                   IF \E j \in S : at[j] = n
                   THEN [IdleLoop EXCEPT !.job = CHOOSE j \in S : at[j] = n, !.pc = "queue"]
                   ELSE l[n]]
    BY <1>2 DEF StartAll
  <2>3. ASSUME NEW j \in S
        PROVE  at[j] \in Loops /\ loop'[at[j]].job = j /\ loop'[at[j]].pc = "queue"
    <3>1. at[j] \in Loops /\ \E i \in S : at[i] = at[j] OBVIOUS
    <3>2. (CHOOSE i \in S : at[i] = at[j]) = j OBVIOUS
    <3> DEFINE q == CHOOSE i \in S : at[i] = at[j]
    <3>3. loop'[at[j]] = [IdleLoop EXCEPT !.job = q, !.pc = "queue"] BY <2>2, <3>1
    <3> HIDE DEF q
    <3>4. loop'[at[j]].job = q /\ loop'[at[j]].pc = "queue" BY <3>3 DEF IdleLoop
    <3> QED BY <3>1, <3>2, <3>4 DEF q
  <2>4. \A n \in Loops : (\A j \in S : at[j] # n) => loop'[n] = l[n] BY <2>2
  <2>5. \A j \in S : ctl'[j] = at[j] /\ l[at[j]].pc = "idle" /\ c[j] = NoLoop BY <2>1
  <2>6. \A j \in Jobs \ S : ctl'[j] = c[j] BY <2>1
  <2>7. S \subseteq Jobs OBVIOUS
  <2> HIDE DEF S
  <2>8. ASSUME NEW n \in Loops
        PROVE  /\ loop'[n].pc = "idle" <=> loop'[n].job = NoJob
               /\ loop'[n].job # NoJob => ctl'[loop'[n].job] = n
               /\ ch[n].pc # "none" => loop'[n].pc = "child"
    <3>1. CASE \E j \in S : at[j] = n
      <4>1. PICK j \in S : at[j] = n BY <3>1
      <4>2. ch[n].pc = "none" BY <4>1, <2>5 DEF ChildrenFit
      <4> QED BY <4>1, <4>2, <2>3, <2>5, <2>7, FetchAssumption
    <3>2. CASE \A j \in S : at[j] # n
      <4>1. loop'[n] = l[n] BY <3>2, <2>4
      <4>2. l[n].job # NoJob => l[n].job \in Jobs /\ c[l[n].job] = n BY DEF LoopSt, Fit
      <4>3. l[n].job # NoJob => l[n].job \notin S BY <4>2, <2>5, FetchAssumption
      <4>4. l[n].pc = "idle" <=> l[n].job = NoJob BY DEF Fit
      <4>5. ch[n].pc # "none" => l[n].pc = "child" BY DEF ChildrenFit
      <4> QED BY <4>1, <4>2, <4>3, <4>4, <4>5, <2>6
    <3> QED BY <3>1, <3>2
  <2>9. ASSUME NEW j \in Jobs, ctl'[j] # NoLoop PROVE loop'[ctl'[j]].job = j
    <3>1. CASE j \in S BY <3>1, <2>3, <2>5
    <3>2. CASE j \notin S
      <4>1. c[j] \in Loops /\ l[c[j]].job = j /\ ctl'[j] = c[j] BY <3>2, <2>6, <2>9 DEF Fit
      <4>2. l[c[j]].pc # "idle" BY <4>1, FetchAssumption DEF Fit
      <4>3. \A i \in S : at[i] # c[j] BY <4>2, <2>5
      <4> QED BY <4>1, <4>3, <2>4
    <3> QED BY <3>1, <3>2
  <2> QED BY <2>8, <2>9 DEF Fit, ChildrenFit
<1> QED BY <1>1, <1>2

LEMMA StartFetchJobFit ==
  ASSUME NEW r, NEW c \in [Jobs -> Loops \cup {NoLoop}], NEW l \in [Loops -> LoopSt],
         NEW ch, Fit(c, l), ChildrenFit(ch, l),
         NEW k \in Jobs, NEW n \in Loops, l[n].pc = "idle",
         StartFetchJob(r, c, l, k, n)
  PROVE  Fit(ctl', loop') /\ ChildrenFit(ch, loop')
<1> DEFINE at == [j \in {k} |-> n]
<1>1. /\ DOMAIN at \subseteq Jobs
      /\ \A j \in DOMAIN at : at[j] \in Loops /\ l[at[j]].pc = "idle"
      /\ \A i, j \in DOMAIN at : at[i] = at[j] => i = j
  OBVIOUS
<1>2. StartAll(r, c, l, at) BY DEF StartFetchJob
<1> HIDE DEF at
<1> QED BY <1>1, <1>2, StartAllFit

\* A loop that leaves takes its controllers with it, before its hooks run.
LEMMA LeaveFit ==
  ASSUME TypeOK, Wiring, NEW n \in Loops, loop[n].pc # "idle"
  PROVE  /\ Fit([ctl EXCEPT ![loop[n].job] = NoLoop], [loop EXCEPT ![n] = IdleLoop])
         /\ ChildrenFit([child EXCEPT ![n] = NoChild], [loop EXCEPT ![n] = IdleLoop])
<1> DEFINE j == loop[n].job
           c == [ctl EXCEPT ![j] = NoLoop]
           l == [loop EXCEPT ![n] = IdleLoop]
<1>1. j \in Jobs /\ ctl[j] = n BY DEF TypeOK, LoopSt, Wiring
<1>2. c \in [Jobs -> Loops \cup {NoLoop}] /\ l[n].job = NoJob /\ l[n].pc = "idle"
  BY <1>1 DEF TypeOK, IdleLoop
<1>3. \A m \in Loops \ {n} : /\ l[m] = loop[m]
                            /\ loop[m].job # j
                            /\ [child EXCEPT ![n] = NoChild][m] = child[m]
  BY <1>1, FetchAssumption DEF TypeOK, Wiring
<1>4. [child EXCEPT ![n] = NoChild][n].pc = "none" BY DEF TypeOK, NoChild
<1>5. \A i \in Jobs \ {j} : c[i] = ctl[i] BY DEF TypeOK
<1>6. c[j] = NoLoop BY <1>1 DEF TypeOK
<1>7. ASSUME NEW m \in Loops
      PROVE  /\ l[m].pc = "idle" <=> l[m].job = NoJob
             /\ l[m].job # NoJob => c[l[m].job] = m
             /\ [child EXCEPT ![n] = NoChild][m].pc # "none" => l[m].pc = "child"
  <2>1. CASE m = n BY <2>1, <1>2, <1>4
  <2>2. CASE m # n
    <3>1. loop[m].job # NoJob => loop[m].job \in Jobs \ {j} BY <2>2, <1>3 DEF TypeOK, LoopSt
    <3> QED BY <2>2, <3>1, <1>3, <1>5 DEF Wiring
  <2> QED BY <2>1, <2>2
<1>8. ASSUME NEW i \in Jobs, c[i] # NoLoop PROVE l[c[i]].job = i
  <2>1. i # j /\ c[i] = ctl[i] BY <1>5, <1>6, <1>8
  <2>2. ctl[i] \in Loops /\ loop[ctl[i]].job = i BY <2>1, <1>8 DEF TypeOK, Wiring, Driven
  <2>3. ctl[i] # n BY <2>1, <2>2
  <2> QED BY <2>1, <2>2, <2>3, <1>3
<1> HIDE DEF c, l
<1>9. Fit(c, l) BY <1>7, <1>8 DEF Fit
<1>10. ChildrenFit([child EXCEPT ![n] = NoChild], l) BY <1>7 DEF ChildrenFit
<1> QED BY <1>9, <1>10 DEF c, l

-----------------------------------------------------------------------------
(* The inductive invariant, action by action.                              *)

IInv == TypeOK /\ Wiring

\* What is left of the types once rows, controllers and loops are known.
LEMMA OpenBatchInv ==
  ASSUME IInv, NEW f \in Flows, NEW r \in [Jobs -> Rows],
         NEW c \in [Jobs -> Loops \cup {NoLoop}], NEW l \in [Loops -> LoopSt],
         NEW ch, Fit(c, l), ChildrenFit(ch, l),
         NEW k \in Jobs, NEW n \in Loops, l[n].pc = "idle", OpenBatch(f, r, c, l, k, n)
  PROVE  /\ row' \in [Jobs -> Rows]
         /\ ctl' \in [Jobs -> Loops \cup {NoLoop}]
         /\ loop' \in [Loops -> LoopSt]
         /\ attempted' \in [Flows -> SUBSET Songs]
         /\ session' \in [Flows -> BOOLEAN]
         /\ Fit(ctl', loop') /\ ChildrenFit(ch, loop')
<1>1. StartFetchJob([r EXCEPT ![k] = NewRow(f, TRUE, f = "library", Batch(f))], c, l, k, n)
  BY DEF OpenBatch
<1>2. Fit(ctl', loop') /\ ChildrenFit(ch, loop') BY <1>1, StartFetchJobFit
<1> QED BY <1>2, OpenBatchType DEF IInv

LEMMA MaybeContinueInv ==
  ASSUME IInv, NEW r \in [Jobs -> Rows],
         NEW c \in [Jobs -> Loops \cup {NoLoop}], NEW l \in [Loops -> LoopSt],
         NEW ch, Fit(c, l), ChildrenFit(ch, l),
         NEW j \in Jobs, NEW hard \in BOOLEAN, MaybeContinue(r, c, l, j, hard)
  PROVE  /\ row' \in [Jobs -> Rows]
         /\ ctl' \in [Jobs -> Loops \cup {NoLoop}]
         /\ loop' \in [Loops -> LoopSt]
         /\ attempted' \in [Flows -> SUBSET Songs]
         /\ session' \in [Flows -> BOOLEAN]
         /\ stopAsked' \in SUBSET Jobs
         /\ Fit(ctl', loop') /\ ChildrenFit(ch, loop')
<1>1. CASE ChainGoesOn(r, j, hard)
  <2>1. r[j].kind \in Flows BY <1>1 DEF ChainGoesOn, InChain
  <2>2. PICK k \in FreeIds \ {j}, n \in {m \in Loops : l[m].pc = "idle"} :
          OpenBatch(r[j].kind, r, c, l, k, n) /\ stopAsked' = stopAsked \ {j, k}
    BY <1>1 DEF MaybeContinue
  <2>3. k \in Jobs BY DEF FreeIds
  <2>4. stopAsked' \in SUBSET Jobs BY <2>2 DEF IInv, TypeOK
  <2> QED BY <2>1, <2>2, <2>3, <2>4, OpenBatchInv
<1>2. CASE ~ChainGoesOn(r, j, hard)
  <2>1. /\ row' = r /\ ctl' = c /\ loop' = l
        /\ session' = IF ChainEnds(r, j, hard) THEN [session EXCEPT ![r[j].kind] = FALSE] ELSE session
        /\ stopAsked' = stopAsked \ {j}
        /\ attempted' = attempted
    BY <1>2 DEF MaybeContinue
  <2>2. session' \in [Flows -> BOOLEAN] BY <2>1 DEF IInv, TypeOK
  <2> QED BY <2>1, <2>2 DEF IInv, TypeOK
<1> QED BY <1>1, <1>2

LEMMA NoChildType == NoChild \in ChildSt /\ IdleLoop \in LoopSt
BY NoRowType DEF NoChild, ChildSt, ItemSt, NoItems, Results, IdleLoop, LoopSt

LEMMA SettleInv ==
  ASSUME IInv, NEW n \in Loops, loop[n].pc # "idle", NEW r \in [Jobs -> Rows], Settle(n, r)
  PROVE  IInv'
<1> DEFINE j  == loop[n].job
           c  == [ctl EXCEPT ![j] = NoLoop]
           l  == [loop EXCEPT ![n] = IdleLoop]
           ch == [child EXCEPT ![n] = NoChild]
           rf == IF loop[n].hard \/ loop[n].drain THEN FinalizeDrainedFetchJob(r, j) ELSE r
<1>1. j \in Jobs /\ loop[n].hard \in BOOLEAN BY DEF IInv, TypeOK, LoopSt, Wiring
<1>2. rf \in [Jobs -> Rows] BY <1>1, FinalizeType
<1>3. c \in [Jobs -> Loops \cup {NoLoop}] /\ l \in [Loops -> LoopSt] /\ ch \in [Loops -> ChildSt]
  BY <1>1, NoChildType DEF IInv, TypeOK
<1>4. Fit(c, l) /\ ChildrenFit(ch, l) BY LeaveFit DEF IInv
<1>5. /\ MaybeContinue(rf, c, l, j, loop[n].hard)
      /\ child' = ch
      /\ UNCHANGED <<phase, conf, owned, events>>
  BY DEF Settle
<1> HIDE DEF c, l, ch, rf
<1>6. /\ row' \in [Jobs -> Rows]
      /\ ctl' \in [Jobs -> Loops \cup {NoLoop}]
      /\ loop' \in [Loops -> LoopSt]
      /\ attempted' \in [Flows -> SUBSET Songs]
      /\ session' \in [Flows -> BOOLEAN]
      /\ stopAsked' \in SUBSET Jobs
      /\ Fit(ctl', loop') /\ ChildrenFit(ch, loop')
  BY <1>1, <1>2, <1>3, <1>4, <1>5, MaybeContinueInv
<1>7. TypeOK' BY <1>3, <1>5, <1>6 DEF IInv, TypeOK, conf
<1>8. Wiring' BY <1>5, <1>6 DEF Wiring, Fit, ChildrenFit, Driven
<1> QED BY <1>7, <1>8 DEF IInv

LEMMA ChildPcType ==
  ASSUME NEW c \in ChildSt, NEW p \in {"none", "boot", "items", "saved", "sent", "dead"}
  PROVE  [c EXCEPT !.pc = p] \in ChildSt
BY DEF ChildSt

LEMMA RowStatusType ==
  ASSUME NEW r \in Rows, NEW st \in Statuses PROVE [r EXCEPT !.status = st] \in Rows
BY DEF Rows

\* The loop's own steps.
LEMMA GrantInv == ASSUME IInv, NEW n \in Loops, Grant(n) PROVE IInv'
<1>1. /\ loop' = [loop EXCEPT ![n].pc = "child"] /\ child' = [child EXCEPT ![n].pc = "boot"]
      /\ loop[n].pc = "queue"
      /\ UNCHANGED <<phase, db, conf, ctl, events, stopAsked>>
  BY DEF Grant
<1>2. loop' \in [Loops -> LoopSt] BY <1>1 DEF IInv, TypeOK, LoopSt
<1>3. child' \in [Loops -> ChildSt]
  <2>1. [child[n] EXCEPT !.pc = "boot"] \in ChildSt BY ChildPcType DEF IInv, TypeOK
  <2> QED BY <1>1, <2>1 DEF IInv, TypeOK
<1>4. TypeOK' BY <1>1, <1>2, <1>3 DEF IInv, TypeOK, db, conf
<1>5. Wiring' BY <1>1 DEF IInv, TypeOK, Wiring, Driven, db, conf
<1> QED BY <1>4, <1>5 DEF IInv

LEMMA ParentResultInv == ASSUME IInv, NEW n \in Loops, ParentResult(n) PROVE IInv'
<1>1. loop[n].pc = "child" BY DEF ParentResult, IInv, Wiring
<1>2. CASE Settle(n, row) BY <1>1, <1>2, SettleInv DEF IInv, TypeOK
<1>3. CASE /\ loop' = [loop EXCEPT ![n].pc = "sleep", ![n].chunk = @ + 1]
           /\ child' = [child EXCEPT ![n] = NoChild]
           /\ UNCHANGED <<phase, db, conf, ctl, events, stopAsked>>
  <2>1. loop' \in [Loops -> LoopSt] BY <1>3 DEF IInv, TypeOK, LoopSt
  <2>2. child' \in [Loops -> ChildSt] BY <1>3, NoChildType DEF IInv, TypeOK
  <2>3. TypeOK' BY <1>3, <2>1, <2>2 DEF IInv, TypeOK, db, conf
  <2>4. child'[n].pc = "none" BY <1>3 DEF IInv, TypeOK, NoChild
  <2>5. Wiring' BY <1>1, <1>3, <2>4 DEF IInv, TypeOK, Wiring, Driven
  <2> QED BY <2>3, <2>5 DEF IInv
<1> QED BY <1>2, <1>3 DEF ParentResult

LEMMA ParentExitInv == ASSUME IInv, NEW n \in Loops, ParentExit(n) PROVE IInv'
<1>1. loop[n].pc = "child" BY DEF ParentExit, IInv, Wiring
<1> DEFINE r == [row EXCEPT ![loop[n].job].status = CaughtStatus(@, n)]
<1>2. r \in [Jobs -> Rows]
  <2>1. loop[n].job \in Jobs /\ row \in [Jobs -> Rows]
    BY <1>1 DEF IInv, TypeOK, Wiring, LoopSt
  <2>2. CaughtStatus(row[loop[n].job].status, n) \in Statuses
    BY <2>1 DEF CaughtStatus, Statuses, Rows
  <2>3. [row[loop[n].job] EXCEPT !.status = CaughtStatus(@, n)] \in Rows
    BY <2>1, <2>2, RowStatusType
  <2> QED BY <2>1, <2>3
<1>3. Settle(n, r) BY DEF ParentExit
<1> HIDE DEF r
<1> QED BY <1>1, <1>2, <1>3, SettleInv

LEMMA WakeInv == ASSUME IInv, NEW n \in Loops, Wake(n) PROVE IInv'
<1>1. loop[n].pc = "sleep" BY DEF Wake
<1>2. CASE Settle(n, row) BY <1>1, <1>2, SettleInv DEF IInv, TypeOK
<1>3. CASE /\ loop' = [loop EXCEPT ![n].pc = "queue"]
           /\ UNCHANGED <<phase, db, conf, ctl, child, events, stopAsked>>
  <2>1. loop' \in [Loops -> LoopSt] BY <1>3 DEF IInv, TypeOK, LoopSt
  <2>2. TypeOK' BY <1>3, <2>1 DEF IInv, TypeOK, db, conf
  <2>3. Wiring' BY <1>1, <1>3 DEF IInv, TypeOK, Wiring, Driven
  <2> QED BY <2>2, <2>3 DEF IInv
<1> QED BY <1>2, <1>3 DEF Wake

\* A step of a child: the loops and the map stay, and no child comes to life.
LEMMA ChildFrame ==
  ASSUME IInv, ChildOnly, row' \in [Jobs -> Rows], child' \in [Loops -> ChildSt],
         attempted' \in [Flows -> SUBSET Songs], owned' \in [Flows -> SUBSET Songs],
         \A n \in Loops : child'[n].pc # "none" => child[n].pc # "none"
  PROVE  IInv'
<1>1. TypeOK' BY DEF IInv, TypeOK, ChildOnly, conf
<1>2. Wiring' BY DEF IInv, Wiring, ChildOnly, Driven
<1> QED BY <1>1, <1>2 DEF IInv

\* A loop with a child has a job.
LEMMA ChildHasJob ==
  ASSUME IInv, NEW n \in Loops, child[n].pc # "none"
  PROVE  loop[n].job \in Jobs /\ row[loop[n].job] \in Rows /\ child[n] \in ChildSt
BY DEF IInv, TypeOK, Wiring, LoopSt

LEMMA ChildStartInv == ASSUME IInv, NEW n \in Loops, ChildStart(n) PROVE IInv'
<1> DEFINE r == row[loop[n].job]
           slice == Slice(r.targets, loop[n].chunk)
           todo == Todo(r, loop[n].chunk)
           more == HasMore(r.targets, loop[n].chunk)
           st == IF slice # {} /\ todo = {} /\ ~more
                 THEN Verdict(r.cnt, child[n].abort \/ child[n].drain)
                 ELSE IF loop[n].chunk = 0 THEN "running" ELSE r.status
           pc == IF todo = {} THEN "sent" ELSE "items"
<1>1. child[n].pc = "boot" BY DEF ChildStart
<1>2. loop[n].job \in Jobs /\ r \in Rows /\ child[n] \in ChildSt BY <1>1, ChildHasJob
<1>3. todo \in SUBSET Songs /\ more \in BOOLEAN
  BY <1>2 DEF Todo, Slice, HasMore, Rows
<1>4. st \in Statuses BY <1>2, VerdictType DEF Rows, Statuses
<1>5. /\ row' = IF slice = {} THEN row ELSE [row EXCEPT ![loop[n].job].status = st]
      /\ child' = [child EXCEPT ![n].pc = pc, ![n].items = r.items, ![n].cnt = r.cnt,
                                ![n].todo = todo, ![n].more = more]
      /\ ChildOnly /\ UNCHANGED <<attempted, owned>>
  BY DEF ChildStart
<1> HIDE DEF slice, todo, more, st
<1>6. row' \in [Jobs -> Rows]
  <2>1. [r EXCEPT !.status = st] \in Rows BY <1>2, <1>4, RowStatusType
  <2> QED BY <1>2, <1>5, <2>1 DEF IInv, TypeOK
<1>7. [child[n] EXCEPT !.pc = pc, !.items = r.items, !.cnt = r.cnt, !.todo = todo, !.more = more]
        \in ChildSt
  BY <1>2, <1>3 DEF ChildSt, Rows
<1>8. child' \in [Loops -> ChildSt] BY <1>5, <1>7 DEF IInv, TypeOK
<1>9. \A m \in Loops : child'[m].pc # "none" => child[m].pc # "none"
  BY <1>1, <1>5 DEF IInv, TypeOK
<1> QED BY <1>5, <1>6, <1>8, <1>9, ChildFrame DEF IInv, TypeOK

LEMMA OnItemType ==
  ASSUME IInv, NEW n \in Loops, child[n].pc # "none", NEW S \in SUBSET Songs,
         NEW out \in [Songs -> Results], \A s \in S : out[s] # "none",
         OnItem(n, S, out)
  PROVE  row' \in [Jobs -> Rows] /\ attempted' \in [Flows -> SUBSET Songs]
<1> DEFINE j == loop[n].job
           items == [s \in Songs |-> IF s \in S THEN Stored(out[s]) ELSE row[j].items[s]]
           cnt == Recount(items, row[j].targets)
<1>1. j \in Jobs /\ row[j] \in Rows BY ChildHasJob
<1>2. items \in [Songs -> ItemSt] BY <1>1 DEF Stored, Results, ItemSt, Rows
<1>3. cnt \in Counts BY <1>1, RecountType DEF Rows
<1>4. row' = IF S = {} THEN row ELSE [row EXCEPT ![j].items = items, ![j].cnt = cnt]
  BY DEF OnItem
<1> HIDE DEF items, cnt
<1>5. [row[j] EXCEPT !.items = items, !.cnt = cnt] \in Rows BY <1>1, <1>2, <1>3 DEF Rows
<1>6. row' \in [Jobs -> Rows] BY <1>1, <1>4, <1>5 DEF IInv, TypeOK
<1>7. attempted' \in [Flows -> SUBSET Songs] BY DEF OnItem, IInv, TypeOK
<1> QED BY <1>6, <1>7

LEMMA ItemEndInv ==
  ASSUME IInv, NEW n \in Loops, NEW s \in Songs, NEW o \in Outcomes \cup {"cancelled"},
         ItemEnd(n, s, o)
  PROVE  IInv'
<1> DEFINE out == [child[n].out EXCEPT ![s] = o]
           S == IF o \in {"done", "cancelled"} THEN {} ELSE {s}
<1>1. child[n].pc = "items" BY DEF ItemEnd
<1>2. child[n] \in ChildSt BY <1>1, ChildHasJob
<1>3. o \in Results /\ o # "none" BY FetchAssumption DEF Results
<1>4. out \in [Songs -> Results] BY <1>2, <1>3 DEF ChildSt
<1>5. \A t \in S : out[t] # "none" BY <1>2, <1>3 DEF ChildSt
<1>6. /\ OnItem(n, S, out) /\ child' = [child EXCEPT ![n].out[s] = o]
      /\ ChildOnly /\ UNCHANGED owned
  BY DEF ItemEnd
<1>7. child' = [child EXCEPT ![n] = [child[n] EXCEPT !.out = out]]
  BY <1>6
<1> HIDE DEF out, S
<1>8. row' \in [Jobs -> Rows] /\ attempted' \in [Flows -> SUBSET Songs]
  BY <1>1, <1>4, <1>5, <1>6, OnItemType DEF S
<1>9. [child[n] EXCEPT !.out = out] \in ChildSt BY <1>2, <1>4 DEF ChildSt
<1>10. child' \in [Loops -> ChildSt] BY <1>7, <1>9 DEF IInv, TypeOK
<1>11. \A m \in Loops : child'[m].pc # "none" => child[m].pc # "none"
  BY <1>1, <1>7 DEF IInv, TypeOK
<1> QED BY <1>6, <1>8, <1>10, <1>11, ChildFrame DEF IInv, TypeOK

LEMMA FlushInv == ASSUME IInv, NEW n \in Loops, Flush(n) PROVE IInv'
<1> DEFINE f == row[loop[n].job].kind
           U == Unflushed(n)
<1>1. child[n].pc = "items" BY DEF Flush
<1>2. child[n] \in ChildSt BY <1>1, ChildHasJob
<1>3. U \in SUBSET Songs /\ \A s \in U : child[n].out[s] # "none"
  BY <1>2 DEF Unflushed, ChildSt
<1>4. /\ OnItem(n, U, child[n].out) /\ ChildOnly /\ child' = child
      /\ owned' = IF f \in Flows THEN [owned EXCEPT ![f] = @ \cup U] ELSE owned
  BY DEF Flush
<1> HIDE DEF U
<1>5. row' \in [Jobs -> Rows] /\ attempted' \in [Flows -> SUBSET Songs]
  <2>1. child[n].out \in [Songs -> Results] BY <1>2 DEF ChildSt
  <2> QED BY <1>1, <1>3, <1>4, <2>1, OnItemType
<1>6. owned' \in [Flows -> SUBSET Songs] BY <1>3, <1>4 DEF IInv, TypeOK
<1> QED BY <1>4, <1>5, <1>6, ChildFrame DEF IInv, TypeOK

LEMMA ChunkSaveInv == ASSUME IInv, NEW n \in Loops, ChunkSave(n) PROVE IInv'
<1> DEFINE j == loop[n].job
           items == MergeItems(child[n].items, child[n].out)
           cnt == AddCounts(child[n].cnt, child[n].todo, child[n].out)
<1>1. /\ child[n].pc = "items" /\ child' = [child EXCEPT ![n].pc = "saved"]
      /\ row' = [row EXCEPT ![j].items = items, ![j].cnt = cnt]
      /\ ChildOnly /\ UNCHANGED <<attempted, owned>>
  BY DEF ChunkSave
<1>2. j \in Jobs /\ row[j] \in Rows /\ child[n] \in ChildSt BY <1>1, ChildHasJob
<1>3. items \in [Songs -> ItemSt] BY <1>2, MergeItemsType DEF ChildSt
<1>4. cnt \in Counts BY <1>2, AddCountsType DEF ChildSt
<1> HIDE DEF items, cnt
<1>5. [row[j] EXCEPT !.items = items, !.cnt = cnt] \in Rows BY <1>2, <1>3, <1>4 DEF Rows
<1>6. row' \in [Jobs -> Rows] BY <1>1, <1>2, <1>5 DEF IInv, TypeOK
<1>7. child' \in [Loops -> ChildSt] /\ \A m \in Loops : child'[m].pc # "none" => child[m].pc # "none"
  <2>1. [child[n] EXCEPT !.pc = "saved"] \in ChildSt BY <1>2, ChildPcType
  <2> QED BY <1>1, <2>1 DEF IInv, TypeOK
<1> QED BY <1>1, <1>6, <1>7, ChildFrame DEF IInv, TypeOK

LEMMA ChunkStatusInv == ASSUME IInv, NEW n \in Loops, ChunkStatus(n) PROVE IInv'
<1> DEFINE j == loop[n].job
           st == Verdict(row[j].cnt, child[n].abort \/ child[n].drain)
<1>1. /\ child[n].pc = "saved" /\ child' = [child EXCEPT ![n].pc = "sent"]
      /\ row' = IF child[n].more THEN row ELSE [row EXCEPT ![j].status = st]
      /\ ChildOnly /\ UNCHANGED <<attempted, owned>>
  BY DEF ChunkStatus
<1>2. j \in Jobs /\ row[j] \in Rows /\ child[n] \in ChildSt BY <1>1, ChildHasJob
<1>3. [row[j] EXCEPT !.status = st] \in Rows BY <1>2, VerdictType, RowStatusType
<1> HIDE DEF st
<1>4. row' \in [Jobs -> Rows] BY <1>1, <1>2, <1>3 DEF IInv, TypeOK
<1>5. child' \in [Loops -> ChildSt] /\ \A m \in Loops : child'[m].pc # "none" => child[m].pc # "none"
  <2>1. [child[n] EXCEPT !.pc = "sent"] \in ChildSt BY <1>2, ChildPcType
  <2> QED BY <1>1, <2>1 DEF IInv, TypeOK
<1> QED BY <1>1, <1>4, <1>5, ChildFrame DEF IInv, TypeOK

LEMMA DeliverStopInv == ASSUME IInv, NEW n \in Loops, DeliverStop(n) PROVE IInv'
<1>1. child[n].pc # "none" /\ ChildOnly /\ UNCHANGED <<row, attempted, owned>> BY DEF DeliverStop
<1>2. child[n] \in ChildSt BY <1>1, ChildHasJob
<1>3. /\ [child[n] EXCEPT !.abort = TRUE] \in ChildSt
      /\ [child[n] EXCEPT !.drain = TRUE] \in ChildSt
  BY <1>2 DEF ChildSt
<1>4. \/ child' = [child EXCEPT ![n] = [child[n] EXCEPT !.abort = TRUE]]
      \/ child' = [child EXCEPT ![n] = [child[n] EXCEPT !.drain = TRUE]]
  BY DEF DeliverStop
<1>5. child' \in [Loops -> ChildSt] /\ \A m \in Loops : child'[m].pc # "none" => child[m].pc # "none"
  BY <1>1, <1>3, <1>4 DEF IInv, TypeOK
<1> QED BY <1>1, <1>5, ChildFrame DEF IInv, TypeOK

-----------------------------------------------------------------------------
(* The user, the schedulers, the environment and the restart.              *)

LEMMA WiringAsFit == ASSUME IInv PROVE Fit(ctl, loop) /\ ChildrenFit(child, loop)
BY WiringIsFit DEF IInv

\* A start from outside a loop: children stay as they are.
LEMMA StartFrame ==
  ASSUME IInv, row' \in [Jobs -> Rows], ctl' \in [Jobs -> Loops \cup {NoLoop}],
         loop' \in [Loops -> LoopSt], attempted' \in [Flows -> SUBSET Songs],
         session' \in [Flows -> BOOLEAN], stopAsked' \in SUBSET Jobs,
         due' \in [Flows -> BOOLEAN], events' \in 0..MaxEvents,
         phase' \in {"down", "booting", "up"},
         Fit(ctl', loop'), ChildrenFit(child, loop'),
         UNCHANGED <<autoOn, contOn, writable, owned, child>>
  PROVE  IInv'
<1>1. TypeOK' BY DEF IInv, TypeOK
<1>2. Wiring' BY DEF Wiring, Fit, ChildrenFit, Driven
<1> QED BY <1>1, <1>2 DEF IInv

\* Nothing of the loops changes: only types are at stake.
LEMMA QuietFrame ==
  ASSUME IInv, UNCHANGED proc, TypeOK' PROVE IInv'
BY DEF IInv, Wiring, proc, Driven

LEMMA SpendType ==
  ASSUME IInv, NEW e, Spend(e) PROVE events' \in 0..MaxEvents
BY FetchAssumption DEF Spend, IInv, TypeOK

\* One batch of a chain, opened from outside the loops.
LEMMA OpenFrame ==
  ASSUME IInv, NEW f \in Flows, NEW k \in FreeIds, NEW n \in IdleLoops,
         OpenBatch(f, row, ctl, loop, k, n), stopAsked' = stopAsked \ {k},
         due' \in [Flows -> BOOLEAN], events' \in 0..MaxEvents,
         UNCHANGED <<phase, autoOn, contOn, writable, owned, child>>
  PROVE  IInv'
<1>1. k \in Jobs /\ n \in Loops /\ loop[n].pc = "idle" BY DEF FreeIds, IdleLoops
<1>2. /\ row \in [Jobs -> Rows] /\ ctl \in [Jobs -> Loops \cup {NoLoop}]
      /\ loop \in [Loops -> LoopSt] /\ stopAsked' \in SUBSET Jobs
      /\ phase' \in {"down", "booting", "up"}
  BY DEF IInv, TypeOK
<1>3. Fit(ctl, loop) /\ ChildrenFit(child, loop) BY WiringAsFit
<1>4. /\ row' \in [Jobs -> Rows]
      /\ ctl' \in [Jobs -> Loops \cup {NoLoop}]
      /\ loop' \in [Loops -> LoopSt]
      /\ attempted' \in [Flows -> SUBSET Songs]
      /\ session' \in [Flows -> BOOLEAN]
      /\ Fit(ctl', loop') /\ ChildrenFit(child, loop')
  BY <1>1, <1>2, <1>3, OpenBatchInv
<1> QED BY <1>2, <1>4, StartFrame

\* The same for a row r of any kind.
LEMMA SingleFrame ==
  ASSUME IInv, NEW r \in Rows, NEW k \in FreeIds, NEW n \in IdleLoops,
         StartFetchJob([row EXCEPT ![k] = r], ctl, loop, k, n), stopAsked' = stopAsked \ {k},
         attempted' \in [Flows -> SUBSET Songs], events' \in 0..MaxEvents,
         UNCHANGED <<phase, session, conf, owned, child>>
  PROVE  IInv'
<1>1. k \in Jobs /\ n \in Loops /\ loop[n].pc = "idle" BY DEF FreeIds, IdleLoops
<1>2. /\ [row EXCEPT ![k] = r] \in [Jobs -> Rows] /\ ctl \in [Jobs -> Loops \cup {NoLoop}]
      /\ loop \in [Loops -> LoopSt] /\ stopAsked' \in SUBSET Jobs
      /\ phase' \in {"down", "booting", "up"} /\ session' \in [Flows -> BOOLEAN]
      /\ due' \in [Flows -> BOOLEAN]
  BY DEF IInv, TypeOK, conf
<1>3. Fit(ctl, loop) /\ ChildrenFit(child, loop) BY WiringAsFit
<1>4. /\ row' \in [Jobs -> Rows]
      /\ ctl' \in [Jobs -> Loops \cup {NoLoop}]
      /\ loop' \in [Loops -> LoopSt]
      /\ Fit(ctl', loop') /\ ChildrenFit(child, loop')
  BY <1>1, <1>2, <1>3, StartFetchJobFit, StartFetchJobType
<1> QED BY <1>2, <1>4, StartFrame DEF conf

LEMMA OpenSingleInv ==
  ASSUME IInv, NEW lib \in BOOLEAN, NEW T \in SUBSET Songs, OpenSingle(lib, T),
         events' \in 0..MaxEvents
  PROVE  IInv'
<1>1. PICK k \in FreeIds, n \in IdleLoops :
        /\ StartFetchJob([row EXCEPT ![k] = NewRow("single", FALSE, lib, T)], ctl, loop, k, n)
        /\ stopAsked' = stopAsked \ {k}
  BY DEF OpenSingle
<1>2. NewRow("single", FALSE, lib, T) \in Rows BY NewRowType DEF Kinds
<1>3. attempted' \in [Flows -> SUBSET Songs] BY DEF OpenSingle, IInv, TypeOK
<1> QED BY <1>1, <1>2, <1>3, SingleFrame DEF OpenSingle

LEMMA CreateTaskInv == ASSUME IInv, CreateTask PROVE IInv'
<1>1. PICK T \in SUBSET Songs : Spend("single") /\ OpenSingle(FALSE, T) BY DEF CreateTask
<1> QED BY <1>1, SpendType, OpenSingleInv

LEMMA RetryTaskInv == ASSUME IInv, NEW j \in Jobs, RetryTask(j) PROVE IInv'
<1>1. PICK T \in SUBSET Retryable(j) : Spend("retry") /\ OpenSingle(row[j].lib, T)
  BY DEF RetryTask
<1>2. row[j].lib \in BOOLEAN /\ T \in SUBSET Songs
  BY DEF Retryable, IInv, TypeOK, Rows
<1> QED BY <1>1, <1>2, SpendType, OpenSingleInv

\* A row written for an empty plan.
LEMMA EmptyRowType ==
  ASSUME NEW f \in Flows
  PROVE  [NewRow(f, TRUE, f = "library", {}) EXCEPT !.status = "done"] \in Rows
<1>1. f \in Kinds BY FetchAssumption DEF Kinds
<1>2. NewRow(f, TRUE, f = "library", {}) \in Rows BY <1>1, NewRowType
<1> QED BY <1>2, RowStatusType DEF Statuses

LEMMA RunFlowInv == ASSUME IInv, NEW f \in Flows, RunFlow(f) PROVE IInv'
<1>1. PICK k \in FreeIds, n \in IdleLoops :
        /\ IF Batch(f) = {}
           THEN /\ row' = [row EXCEPT ![k] = [NewRow(f, TRUE, f = "library", {}) EXCEPT !.status = "done"]]
                /\ UNCHANGED <<session, attempted, ctl, loop>>
           ELSE OpenBatch(f, row, ctl, loop, k, n)
        /\ stopAsked' = stopAsked \ {k}
  BY DEF RunFlow
<1>2. /\ events' \in 0..MaxEvents
      /\ UNCHANGED <<phase, conf, owned, child>>
  BY SpendType DEF RunFlow
<1>3. CASE Batch(f) = {}
  <2>1. row' \in [Jobs -> Rows] BY <1>1, <1>3, EmptyRowType DEF IInv, TypeOK
  <2>2. UNCHANGED proc BY <1>1, <1>2, <1>3 DEF proc
  <2>3. TypeOK' BY <1>1, <1>2, <1>3, <2>1 DEF IInv, TypeOK, conf
  <2> QED BY <2>2, <2>3, QuietFrame
<1>4. CASE Batch(f) # {}
  <2>1. due' \in [Flows -> BOOLEAN] BY <1>2 DEF IInv, TypeOK, conf
  <2> QED BY <1>1, <1>2, <1>4, <2>1, OpenFrame DEF conf
<1> QED BY <1>3, <1>4

LEMMA RunNamedInv ==
  ASSUME IInv, NEW f \in Flows, NEW T \in SUBSET Songs, RunNamed(f, T) PROVE IInv'
<1>1. PICK k \in FreeIds, n \in IdleLoops :
        /\ StartFetchJob([row EXCEPT ![k] = NewRow(f, FALSE, f = "library", T)], ctl, loop, k, n)
        /\ stopAsked' = stopAsked \ {k}
  BY DEF RunNamed
<1>2. NewRow(f, FALSE, f = "library", T) \in Rows BY FetchAssumption, NewRowType DEF Kinds
<1>3. attempted' \in [Flows -> SUBSET Songs] BY DEF RunNamed, IInv, TypeOK
<1> QED BY <1>1, <1>2, <1>3, SpendType, SingleFrame DEF RunNamed

LEMMA FinishStopInv ==
  ASSUME IInv, NEW j \in Jobs, NEW hard \in BOOLEAN, NEW e, Spend(e), FinishStop(j, hard)
  PROVE  IInv'
<1>1. events' \in 0..MaxEvents BY SpendType
<1>2. session' \in [Flows -> BOOLEAN] BY DEF FinishStop, StopAutoSession, IInv, TypeOK
<1>3. CASE Driven(j)
  <2> DEFINE m == ctl[j]
  <2>1. m \in Loops /\ loop[m] \in LoopSt BY <1>3 DEF Driven, IInv, TypeOK
  <2>2. /\ loop' = [loop EXCEPT ![m].hard = @ \/ hard, ![m].drain = @ \/ ~hard]
        /\ stopAsked' = stopAsked \cup {j}
        /\ UNCHANGED <<row, phase, conf, attempted, owned, ctl, child>>
    BY <1>3 DEF FinishStop
  <2> HIDE DEF m
  <2>3. [loop[m] EXCEPT !.hard = @ \/ hard, !.drain = @ \/ ~hard] \in LoopSt
    <3>1. \A b, d \in BOOLEAN : [loop[m] EXCEPT !.hard = b, !.drain = d] \in LoopSt
      BY <2>1 DEF LoopSt
    <3>2. (loop[m].hard \/ hard) \in BOOLEAN /\ (loop[m].drain \/ ~hard) \in BOOLEAN OBVIOUS
    <3> QED BY <3>1, <3>2
  <2>4. loop' \in [Loops -> LoopSt] BY <2>1, <2>2, <2>3 DEF IInv, TypeOK
  <2>5. \A n \in Loops : loop'[n].pc = loop[n].pc /\ loop'[n].job = loop[n].job
    BY <2>1, <2>2 DEF IInv, TypeOK, LoopSt
  <2>6. TypeOK' BY <1>1, <1>2, <2>2, <2>4 DEF IInv, TypeOK, conf
  <2>7. Wiring'
    <3>1. \A i \in Jobs : Driven(i)' => ctl'[i] \in Loops BY <2>2 DEF Driven, IInv, TypeOK
    <3> QED BY <2>2, <2>5, <3>1 DEF IInv, Wiring, Driven
  <2> QED BY <2>6, <2>7 DEF IInv
<1>4. CASE ~Driven(j)
  <2>1. /\ row' = [row EXCEPT ![j].status = "cancelled"]
        /\ UNCHANGED <<loop, stopAsked, phase, conf, attempted, owned, ctl, child>>
    BY <1>4 DEF FinishStop
  <2>2. row' \in [Jobs -> Rows]
    <3>1. [row[j] EXCEPT !.status = "cancelled"] \in Rows
      BY RowStatusType DEF IInv, TypeOK, Statuses
    <3> QED BY <2>1, <3>1 DEF IInv, TypeOK
  <2>3. TypeOK' BY <1>1, <1>2, <2>1, <2>2 DEF IInv, TypeOK, conf
  <2> QED BY <2>1, <2>3, QuietFrame DEF proc
<1> QED BY <1>3, <1>4

LEMMA DropRowsInv == ASSUME IInv, NEW S \in SUBSET Jobs, DropRows(S) PROVE IInv'
<1>1. row' \in [Jobs -> Rows] BY NoRowType DEF DropRows, IInv, TypeOK
<1>2. events' \in 0..MaxEvents BY SpendType DEF DropRows
<1>3. TypeOK' BY <1>1, <1>2 DEF DropRows, IInv, TypeOK, conf, proc
<1> QED BY <1>3, QuietFrame DEF DropRows

LEMMA ConfigInv ==
  ASSUME IInv, NEW f \in Flows, NEW b \in BOOLEAN,
         SetAutoEnabled(f, b) \/ SetAutoContinue(f, b) \/ ResetAttempts(f)
  PROVE  IInv'
<1>1. events' \in 0..MaxEvents BY SpendType DEF SetAutoEnabled, SetAutoContinue, ResetAttempts
<1>2. TypeOK' BY <1>1 DEF SetAutoEnabled, SetAutoContinue, ResetAttempts, IInv, TypeOK, conf, proc
<1>3. UNCHANGED proc BY DEF SetAutoEnabled, SetAutoContinue, ResetAttempts
<1> QED BY <1>2, <1>3, QuietFrame

LEMMA SchedulerTickInv == ASSUME IInv, NEW f \in Flows, SchedulerTick(f) PROVE IInv'
<1>1. UNCHANGED <<phase, autoOn, contOn, writable, owned, child, events>> BY DEF SchedulerTick
<1>2. events' \in 0..MaxEvents BY <1>1 DEF IInv, TypeOK
<1>3. ASSUME NEW k \in FreeIds, NEW n \in IdleLoops, due' \in [Flows -> BOOLEAN],
             OpenBatch(f, row, ctl, loop, k, n), stopAsked' = stopAsked \ {k}
      PROVE  IInv'
  BY <1>1, <1>2, <1>3, OpenFrame
<1>4. CASE ResumeSession(f)
  <2>1. due' \in [Flows -> BOOLEAN] BY <1>4 DEF ResumeSession, IInv, TypeOK
  <2>2. CASE Batch(f) = {}
    <3>1. /\ session' = [session EXCEPT ![f] = FALSE]
          /\ UNCHANGED <<row, attempted, ctl, loop, stopAsked>>
      BY <1>4, <2>2 DEF ResumeSession
    <3>2. TypeOK' BY <1>1, <2>1, <3>1 DEF IInv, TypeOK
    <3> QED BY <1>1, <3>1, <3>2, QuietFrame DEF proc
  <2>3. CASE Batch(f) # {}
    <3>1. \E k \in FreeIds, n \in IdleLoops :
            OpenBatch(f, row, ctl, loop, k, n) /\ stopAsked' = stopAsked \ {k}
      BY <1>4, <2>3 DEF ResumeSession
    <3> QED BY <1>3, <2>1, <3>1
  <2> QED BY <2>2, <2>3
<1>5. CASE RunAutoOnce(f)
  <2>1. due' \in [Flows -> BOOLEAN] BY <1>5 DEF RunAutoOnce, IInv, TypeOK
  <2>2. PICK k \in FreeIds, n \in IdleLoops :
          /\ IF Batch(f) = {}
             THEN /\ row' = [row EXCEPT ![k] = [NewRow(f, TRUE, f = "library", {}) EXCEPT !.status = "done"]]
                  /\ session' = [session EXCEPT ![f] = FALSE]
                  /\ UNCHANGED <<attempted, ctl, loop>>
             ELSE OpenBatch(f, row, ctl, loop, k, n)
          /\ stopAsked' = stopAsked \ {k}
    BY <1>5 DEF RunAutoOnce
  <2>3. CASE Batch(f) = {}
    <3>1. row' \in [Jobs -> Rows] BY <2>2, <2>3, EmptyRowType DEF IInv, TypeOK
    <3>2. TypeOK' BY <1>1, <2>1, <2>2, <2>3, <3>1 DEF IInv, TypeOK
    <3> QED BY <1>1, <2>2, <2>3, <3>2, QuietFrame DEF proc
  <2>4. CASE Batch(f) # {} BY <1>3, <2>1, <2>2, <2>4
  <2> QED BY <2>3, <2>4
<1>6. CASE DropSession(f)
  <2>1. TypeOK' BY <1>1, <1>6 DEF DropSession, IInv, TypeOK
  <2> QED BY <1>1, <1>6, <2>1, QuietFrame DEF DropSession, proc
<1> QED BY <1>4, <1>5, <1>6 DEF SchedulerTick

LEMMA ConditionsInv == ASSUME IInv, Remount \/ (\E f \in Flows : ComeDue(f)) PROVE IInv'
<1>1. events' \in 0..MaxEvents BY SpendType DEF Remount, ComeDue
<1>2. UNCHANGED proc BY DEF Remount, ComeDue
<1>3. TypeOK'
  <2>1. CASE Remount BY <1>1, <2>1 DEF Remount, IInv, TypeOK, db, proc
  <2>2. ASSUME NEW f \in Flows, ComeDue(f) PROVE TypeOK'
    BY <1>1, <2>2 DEF ComeDue, IInv, TypeOK, db, proc
  <2> QED BY <2>1, <2>2
<1> QED BY <1>2, <1>3, QuietFrame

LEMMA ChildDiesInv == ASSUME IInv, NEW n \in Loops, ChildDies(n) PROVE IInv'
<1>1. /\ child[n].pc # "none" /\ child' = [child EXCEPT ![n].pc = "dead"]
      /\ UNCHANGED <<phase, db, conf, ctl, loop, stopAsked>>
  BY DEF ChildDies
<1>2. events' \in 0..MaxEvents BY SpendType DEF ChildDies, IInv, TypeOK
<1>3. [child[n] EXCEPT !.pc = "dead"] \in ChildSt BY <1>1, ChildHasJob, ChildPcType
<1>4. child' \in [Loops -> ChildSt] /\ \A m \in Loops : child'[m].pc # "none" => child[m].pc # "none"
  BY <1>1, <1>3 DEF IInv, TypeOK
<1>5. TypeOK' BY <1>1, <1>2, <1>4 DEF IInv, TypeOK, db, conf
<1>6. Wiring' BY <1>1, <1>4 DEF IInv, Wiring, Driven
<1> QED BY <1>5, <1>6 DEF IInv

LEMMA CrashInv == ASSUME IInv, Crash PROVE IInv'
<1>1. events' \in 0..MaxEvents BY SpendType DEF Crash
<1>2. TypeOK' BY <1>1, NoChildType DEF Crash, IInv, TypeOK, db, conf
<1>3. Wiring' BY DEF Crash, Wiring, Driven, IdleLoop, NoChild
<1> QED BY <1>2, <1>3 DEF IInv

LEMMA BootInv == ASSUME IInv, Boot PROVE IInv'
<1>1. TypeOK' BY DEF Boot, IInv, TypeOK, db, conf, proc
<1> QED BY <1>1, QuietFrame DEF Boot

\* The boot resume starts a loop for every interrupted job at once.
LEMMA ResumeInv == ASSUME IInv, ResumeInterruptedFetchJobs PROVE IInv'
<1>1. PICK at \in [Interrupted -> IdleLoops] :
        /\ \A i, j \in Interrupted : at[i] = at[j] => i = j
        /\ StartAll(row, ctl, loop, at)
  BY DEF ResumeInterruptedFetchJobs
<1>2. /\ DOMAIN at \subseteq Jobs
      /\ \A j \in DOMAIN at : at[j] \in Loops /\ loop[at[j]].pc = "idle"
      /\ \A i, j \in DOMAIN at : at[i] = at[j] => i = j
  BY <1>1 DEF Interrupted, ActiveIn, IdleLoops
<1>3. /\ row \in [Jobs -> Rows] /\ ctl \in [Jobs -> Loops \cup {NoLoop}]
      /\ loop \in [Loops -> LoopSt]
  BY DEF IInv, TypeOK
<1>4. Fit(ctl', loop') /\ ChildrenFit(child, loop') BY <1>1, <1>2, <1>3, StartAllFit, WiringAsFit
<1>5. /\ row' \in [Jobs -> Rows] /\ ctl' \in [Jobs -> Loops \cup {NoLoop}]
      /\ loop' \in [Loops -> LoopSt]
  BY <1>1, <1>2, <1>3, StartAllType
<1>6. /\ phase' = "up"
      /\ UNCHANGED <<session, conf, attempted, owned, child, events, stopAsked>>
  BY DEF ResumeInterruptedFetchJobs
<1> QED BY <1>4, <1>5, <1>6, StartFrame DEF IInv, TypeOK, conf

-----------------------------------------------------------------------------
(* The theorems.                                                           *)

LEMMA InitInv == Init => IInv
<1> SUFFICES ASSUME Init PROVE IInv OBVIOUS
<1>1. TypeOK BY NoRowType, NoChildType, FetchAssumption DEF Init, TypeOK
<1>2. Wiring BY DEF Init, Wiring, Driven, IdleLoop, NoChild
<1> QED BY <1>1, <1>2 DEF IInv

LEMMA StepInv == IInv /\ [Next]_vars => IInv'
<1> SUFFICES ASSUME IInv, [Next]_vars PROVE IInv' OBVIOUS
<1>1. ASSUME NEW n \in Loops, ChildStep(n) PROVE IInv'
  BY <1>1, ChildStartInv, ItemEndInv, FlushInv, ChunkSaveInv, ChunkStatusInv, DeliverStopInv
  DEF ChildStep
<1>2. ASSUME NEW n \in Loops, LoopStep(n) PROVE IInv'
  BY <1>2, GrantInv, ParentResultInv, ParentExitInv, WakeInv DEF LoopStep
<1>3. ASSUME NEW f \in Flows, SchedulerTick(f) PROVE IInv' BY <1>3, SchedulerTickInv
<1>4. CASE Boot BY <1>4, BootInv
<1>5. CASE ResumeInterruptedFetchJobs BY <1>5, ResumeInv
<1>6. CASE UserStep
  <2>1. CASE CreateTask BY <2>1, CreateTaskInv
  <2>2. ASSUME NEW j \in Jobs, RetryTask(j) \/ Cancel(j) \/ ForceStop(j) PROVE IInv'
    BY <2>2, RetryTaskInv, FinishStopInv DEF Cancel, ForceStop
  <2>3. ASSUME NEW S \in SUBSET Jobs, DropRows(S) PROVE IInv' BY <2>3, DropRowsInv
  <2>4. ASSUME NEW f \in Flows, RunFlow(f) PROVE IInv' BY <2>4, RunFlowInv
  <2>5. ASSUME NEW f \in Flows, NEW T \in SUBSET Songs, RunNamed(f, T) PROVE IInv'
    BY <2>5, RunNamedInv
  <2>6. ASSUME NEW f \in Flows, NEW b \in BOOLEAN,
               ResetAttempts(f) \/ SetAutoEnabled(f, b) \/ SetAutoContinue(f, b)
        PROVE  IInv'
    BY <2>6, ConfigInv
  <2> QED BY <1>6, <2>1, <2>2, <2>3, <2>4, <2>5, <2>6 DEF UserStep
<1>7. CASE Environment
  BY <1>7, ConditionsInv, CrashInv, ChildDiesInv DEF Environment
<1>8. CASE UNCHANGED vars
  <2>1. TypeOK' BY <1>8 DEF vars, IInv, TypeOK
  <2>2. UNCHANGED proc BY <1>8 DEF vars, proc
  <2> QED BY <2>1, <2>2, QuietFrame
<1> QED BY <1>1, <1>2, <1>3, <1>4, <1>5, <1>6, <1>7, <1>8 DEF Next

\* Every reachable state is well formed, and the map of controllers, the
\* loops and the children fit together.
THEOREM TypeCorrect == Spec => [](TypeOK /\ Wiring)
<1> QED BY InitInv, StepInv, PTL DEF Spec, IInv

\* Two loops never drive the same job: each of them would have to be the one
\* the map of controllers names.
THEOREM NeverTwoLoops == Spec => []OneLoopPerJob
<1>1. TypeOK /\ Wiring => OneLoopPerJob BY DEF Wiring, OneLoopPerJob
<1> QED BY <1>1, TypeCorrect, PTL

-----------------------------------------------------------------------------
(* What the end of a stopped loop does to its chain.                       *)

\* Writing the end of a job never takes it out of its chain, nor puts it in,
\* and touches no other row.
LEMMA EndKeepsChain ==
  ASSUME NEW q \in [Jobs -> Rows], NEW r \in [Jobs -> Rows], NEW j \in Jobs,
         r[j].kind = q[j].kind, r[j].auto = q[j].auto,
         r[j].status = "none" <=> q[j].status = "none",
         \A k \in Jobs \ {j} : r[k] = q[k]
  PROVE  LET rf == FinalizeDrainedFetchJob(r, j)
         IN  /\ InChain(rf, j) <=> InChain(q, j)
             /\ rf[j].kind = q[j].kind
             /\ \A k \in Jobs \ {j} : rf[k] = q[k]
<1> DEFINE rf == FinalizeDrainedFetchJob(r, j)
           missing == {s \in r[j].targets : r[j].items[s] = "none"}
           items == [s \in Songs |-> IF s \in missing THEN "cancelled" ELSE r[j].items[s]]
           total == IF missing = {} THEN r[j].cnt.total ELSE Cardinality(r[j].targets)
<1>1. CASE r[j].status = "none" BY <1>1 DEF FinalizeDrainedFetchJob, InChain
<1>2. CASE r[j].status # "none"
  <2>1. rf = [r EXCEPT ![j].status = FinalStatus(@), ![j].items = items, ![j].cnt.total = total]
    BY <1>2 DEF FinalizeDrainedFetchJob
  <2> HIDE DEF rf, items, total
  <2>2. /\ rf[j].kind = r[j].kind /\ rf[j].auto = r[j].auto
        /\ rf[j].status = FinalStatus(r[j].status)
        /\ \A k \in Jobs \ {j} : rf[k] = r[k]
    BY <2>1 DEF Rows
  <2>3. FinalStatus(r[j].status) # "none" BY <1>2 DEF FinalStatus
  <2>4. InChain(rf, j) <=> InChain(q, j) BY <1>2, <2>2, <2>3 DEF InChain
  <2> QED BY <2>2, <2>4 DEF rf
<1> QED BY <1>1, <1>2

\* A start leaves the jobs that have a loop alone.
LEMMA StartKeeps ==
  ASSUME NEW r, NEW c, NEW l, NEW at, StartAll(r, c, l, at),
         c \in [Jobs -> Loops \cup {NoLoop}], NEW j \in Jobs, c[j] # NoLoop
  PROVE  ctl'[j] = c[j]
BY DEF StartAll

LEMMA StartFetchKeeps ==
  ASSUME NEW r, NEW c, NEW l, NEW k, NEW n, StartFetchJob(r, c, l, k, n),
         c \in [Jobs -> Loops \cup {NoLoop}], NEW j \in Jobs, c[j] # NoLoop
  PROVE  ctl'[j] = c[j]
BY StartKeeps DEF StartFetchJob

\* Only the end of a loop takes a job out of the map of a living process.
LEMMA OnlySettleLeaves ==
  ASSUME IInv, [Next]_vars, NEW j \in Jobs, Settles(j)
  PROVE  LET n == ctl[j] IN
         /\ n \in Loops /\ loop[n].job = j /\ loop[n].pc # "idle"
         /\ \/ Settle(n, row)
            \/ Settle(n, [row EXCEPT ![j].status = CaughtStatus(@, n)])
<1> DEFINE n == ctl[j]
<1>1. n \in Loops /\ loop[n].job = j /\ loop[n].pc # "idle" /\ ctl'[j] = NoLoop /\ ctl[j] # NoLoop
  BY FetchAssumption DEF Settles, IInv, TypeOK, Wiring, Driven
<1>2. ASSUME NEW m \in Loops, NEW r, Settle(m, r), loop[m].job \in Jobs PROVE m = n
  <2> DEFINE i == loop[m].job
             c == [ctl EXCEPT ![i] = NoLoop]
             l == [loop EXCEPT ![m] = IdleLoop]
             rf == IF loop[m].hard \/ loop[m].drain THEN FinalizeDrainedFetchJob(r, i) ELSE r
  <2> SUFFICES ASSUME j # i PROVE FALSE BY <1>1, <1>2 DEF IInv, TypeOK, Wiring
  <2>1. c[j] # NoLoop BY <1>1 DEF IInv, TypeOK
  <2>2. MaybeContinue(rf, c, l, i, loop[m].hard) BY <1>2 DEF Settle
  <2> HIDE DEF c, l, rf
  <2>3. CASE ctl' = c BY <1>1, <2>1, <2>3
  <2>4. CASE ctl' # c
    <3>1. PICK f, k, p, q : StartFetchJob(q, c, l, k, p)
      BY <2>2, <2>4 DEF MaybeContinue, OpenBatch
    <3>2. c \in [Jobs -> Loops \cup {NoLoop}] BY DEF c, IInv, TypeOK
    <3> QED BY <1>1, <2>1, <3>1, <3>2, StartFetchKeeps
  <2> QED BY <2>3, <2>4
<1>3. ctl' # ctl BY <1>1
<1>4. ASSUME NEW r, NEW k, NEW p, StartFetchJob(r, ctl, loop, k, p) PROVE FALSE
  BY <1>1, <1>4, StartFetchKeeps DEF IInv, TypeOK
<1>5. ASSUME NEW m \in Loops, ChildStep(m) PROVE FALSE
  BY <1>3, <1>5 DEF ChildStep, ChildStart, ItemEnd, Flush, ChunkSave, ChunkStatus, DeliverStop, ChildOnly
<1>6. ASSUME NEW m \in Loops, LoopStep(m)
      PROVE  \/ Settle(n, row) \/ Settle(n, [row EXCEPT ![j].status = CaughtStatus(@, n)])
  <2>1. loop[m].job \in Jobs
    BY <1>6 DEF LoopStep, Grant, ParentResult, ParentExit, Wake, IInv, TypeOK, LoopSt, Wiring
  <2>2. CASE Settle(m, row) BY <1>2, <2>1, <2>2
  <2>3. CASE ParentExit(m)
    <3>1. Settle(m, [row EXCEPT ![loop[m].job].status = CaughtStatus(@, m)]) BY <2>3 DEF ParentExit
    <3>2. m = n BY <1>2, <2>1, <3>1
    <3> QED BY <1>1, <3>1, <3>2
  <2> QED BY <1>3, <1>6, <2>2, <2>3 DEF LoopStep, Grant, ParentResult, Wake
<1>7. ASSUME NEW f \in Flows, SchedulerTick(f) PROVE FALSE
  <2>1. CASE ResumeSession(f) BY <1>3, <1>4, <2>1 DEF ResumeSession, OpenBatch
  <2>2. CASE RunAutoOnce(f) BY <1>3, <1>4, <2>2 DEF RunAutoOnce, OpenBatch
  <2>3. CASE DropSession(f) BY <1>3, <2>3 DEF DropSession
  <2> QED BY <1>7, <2>1, <2>2, <2>3 DEF SchedulerTick
<1>8. CASE ResumeInterruptedFetchJobs
  <2>1. PICK at : StartAll(row, ctl, loop, at) BY <1>8 DEF ResumeInterruptedFetchJobs
  <2> QED BY <1>1, <2>1, StartKeeps DEF IInv, TypeOK
<1>9. CASE UserStep
  <2>1. ASSUME NEW lib, NEW T, OpenSingle(lib, T) PROVE FALSE BY <1>4, <2>1 DEF OpenSingle
  <2>2. ASSUME NEW f \in Flows, RunFlow(f) PROVE FALSE
    BY <1>3, <1>4, <2>2 DEF RunFlow, OpenBatch
  <2>3. ASSUME NEW f \in Flows, NEW T, RunNamed(f, T) PROVE FALSE
    BY <1>4, <2>3 DEF RunNamed
  <2> QED BY <1>3, <1>9, <2>1, <2>2, <2>3
      DEF UserStep, CreateTask, RetryTask, Cancel, ForceStop, FinishStop, DropRows, ResetAttempts,
          SetAutoEnabled, SetAutoContinue, proc
<1>10. CASE Environment
  BY <1>3, <1>10 DEF Environment, Remount, Crash, ComeDue, ChildDies, proc, Settles
<1>11. CASE Boot \/ UNCHANGED vars BY <1>3, <1>11 DEF Boot, vars, proc
<1> QED BY <1>1, <1>5, <1>6, <1>7, <1>8, <1>9, <1>10, <1>11 DEF Next

\* A complete stop (and every other end of the chain) opens no batch and
\* clears the session.
LEMMA HardSettleEndsChain ==
  ASSUME IInv, NEW n \in Loops, loop[n].pc # "idle", loop[n].hard,
         NEW r \in [Jobs -> Rows], Settle(n, r),
         r[loop[n].job].kind = row[loop[n].job].kind, r[loop[n].job].auto = row[loop[n].job].auto,
         r[loop[n].job].status = "none" <=> row[loop[n].job].status = "none",
         \A k \in Jobs \ {loop[n].job} : r[k] = row[k]
  PROVE  EndsChain(loop[n].job)
<1> DEFINE j == loop[n].job
           rf == FinalizeDrainedFetchJob(r, j)
<1>1. j \in Jobs /\ row \in [Jobs -> Rows] BY DEF IInv, TypeOK, LoopSt, Wiring
<1>2. /\ InChain(rf, j) <=> InChain(row, j)
      /\ rf[j].kind = row[j].kind
      /\ \A k \in Jobs \ {j} : rf[k] = row[k]
  BY <1>1, EndKeepsChain
<1>3. MaybeContinue(rf, [ctl EXCEPT ![j] = NoLoop], [loop EXCEPT ![n] = IdleLoop], j, loop[n].hard)
  BY DEF Settle
<1> HIDE DEF rf
<1>4. ~ChainGoesOn(rf, j, loop[n].hard) BY DEF ChainGoesOn, ChainEnds
<1>5. /\ row' = rf
      /\ session' = IF ChainEnds(rf, j, loop[n].hard) THEN [session EXCEPT ![rf[j].kind] = FALSE] ELSE session
  BY <1>3, <1>4 DEF MaybeContinue
<1>6. InChain(row, j) => ~session'[row[j].kind]
  <2>1. InChain(row, j) => ChainEnds(rf, j, loop[n].hard) /\ rf[j].kind \in Flows
    BY <1>2 DEF ChainEnds, InChain
  <2> QED BY <1>2, <1>5, <2>1 DEF IInv, TypeOK
<1> QED BY <1>2, <1>5, <1>6 DEF EndsChain

\* Once the user has stopped a job completely, the end of its loop opens no
\* further batch of its flow, even if the job had finished just before.
THEOREM ForceStopIsFinal == Spec => ForceStopEndsChain
<1>1. ASSUME IInv, [Next]_vars
      PROVE  [\A j \in Jobs : Settles(j) /\ loop[ctl[j]].hard => EndsChain(j)]_vars
  <2> SUFFICES ASSUME NEW j \in Jobs, Settles(j), loop[ctl[j]].hard PROVE EndsChain(j)
    OBVIOUS
  <2> DEFINE n == ctl[j]
             r == [row EXCEPT ![j].status = CaughtStatus(@, n)]
  <2>1. /\ n \in Loops /\ loop[n].job = j /\ loop[n].pc # "idle"
        /\ Settle(n, row) \/ Settle(n, r)
    BY <1>1, OnlySettleLeaves
  <2>2. row \in [Jobs -> Rows] BY <1>1 DEF IInv, TypeOK
  <2>3. CASE Settle(n, row) BY <1>1, <2>1, <2>2, <2>3, HardSettleEndsChain
  <2>4. CASE Settle(n, r)
    <3>1. CaughtStatus(row[j].status, n) \in Statuses BY <2>2 DEF CaughtStatus, Statuses, Rows
    <3>2. /\ r \in [Jobs -> Rows]
          /\ r[j].kind = row[j].kind /\ r[j].auto = row[j].auto
          /\ r[j].status = CaughtStatus(row[j].status, n)
          /\ \A k \in Jobs \ {j} : r[k] = row[k]
      BY <2>2, <3>1 DEF Rows
    <3>3. r[j].status = "none" <=> row[j].status = "none" BY <3>2 DEF CaughtStatus
    <3> HIDE DEF n, r
    <3> QED BY <1>1, <2>1, <2>4, <3>2, <3>3, HardSettleEndsChain DEF n
  <2> QED BY <2>1, <2>3, <2>4
<1> QED BY <1>1, InitInv, StepInv, PTL DEF Spec, ForceStopEndsChain

-----------------------------------------------------------------------------
(* Jobs outside the chains.                                                *)

\* Only a stop by the user is remembered as one.
LEMMA OnlyStopAsks ==
  ASSUME IInv, [Next]_vars, NEW j \in stopAsked' \ stopAsked
  PROVE  \E hard \in BOOLEAN : FinishStop(j, hard)
<1>1. ~(stopAsked' \subseteq stopAsked) OBVIOUS
<1>2. ASSUME NEW n \in Loops, ChildStep(n) PROVE FALSE
  BY <1>1, <1>2 DEF ChildStep, ChildStart, ItemEnd, Flush, ChunkSave, ChunkStatus, DeliverStop, ChildOnly
<1>3. ASSUME NEW n \in Loops, LoopStep(n) PROVE FALSE
  <2>1. ASSUME NEW r, Settle(n, r) PROVE FALSE BY <1>1, <2>1 DEF Settle, MaybeContinue
  <2> QED BY <1>1, <1>3, <2>1 DEF LoopStep, Grant, ParentResult, ParentExit, Wake
<1>4. ASSUME NEW f \in Flows, SchedulerTick(f) PROVE FALSE
  BY <1>1, <1>4 DEF SchedulerTick, ResumeSession, RunAutoOnce, DropSession
<1>5. CASE UserStep
  <2>1. ASSUME NEW k \in Jobs, NEW hard \in BOOLEAN, FinishStop(k, hard)
        PROVE  FinishStop(j, hard)
    BY <2>1 DEF FinishStop
  <2>2. ASSUME NEW k \in Jobs, Cancel(k) \/ ForceStop(k)
        PROVE  \E hard \in BOOLEAN : FinishStop(j, hard)
    <3>1. TRUE \in BOOLEAN /\ FALSE \in BOOLEAN OBVIOUS
    <3> QED BY <2>1, <2>2, <3>1 DEF Cancel, ForceStop
  <2> QED BY <1>1, <1>5, <2>2
      DEF UserStep, CreateTask, RetryTask, OpenSingle, RunFlow, RunNamed, DropRows, ResetAttempts,
          SetAutoEnabled, SetAutoContinue
<1>6. CASE ResumeInterruptedFetchJobs \/ Environment \/ Boot \/ UNCHANGED vars
  BY <1>1, <1>6
  DEF ResumeInterruptedFetchJobs, Environment, Remount, Crash, ComeDue, ChildDies, Boot, vars
<1> QED BY <1>2, <1>3, <1>4, <1>5, <1>6 DEF Next

\* The end of a job outside the chains has no hook that concerns a chain.
LEMMA NamedSettleLeavesChain ==
  ASSUME IInv, NEW n \in Loops, loop[n].pc # "idle", NEW r \in [Jobs -> Rows], Settle(n, r),
         r[loop[n].job].kind = row[loop[n].job].kind, r[loop[n].job].auto = row[loop[n].job].auto,
         r[loop[n].job].status = "none" <=> row[loop[n].job].status = "none",
         \A k \in Jobs \ {loop[n].job} : r[k] = row[k], ~InChain(row, loop[n].job)
  PROVE  session' = session
<1> DEFINE j == loop[n].job
           rf == FinalizeDrainedFetchJob(r, j)
           q == IF loop[n].hard \/ loop[n].drain THEN rf ELSE r
<1>1. j \in Jobs /\ row \in [Jobs -> Rows] BY DEF IInv, TypeOK, LoopSt, Wiring
<1>2. InChain(rf, j) <=> InChain(row, j) BY <1>1, EndKeepsChain
<1>3. InChain(r, j) <=> InChain(row, j) BY DEF InChain
<1>4. MaybeContinue(q, [ctl EXCEPT ![j] = NoLoop], [loop EXCEPT ![n] = IdleLoop], j, loop[n].hard)
  BY DEF Settle
<1> HIDE DEF rf
<1>5. ~InChain(q, j) BY <1>2, <1>3
<1> HIDE DEF q
<1>6. ~ChainGoesOn(q, j, loop[n].hard) /\ ~ChainEnds(q, j, loop[n].hard)
  BY <1>5 DEF ChainGoesOn, ChainEnds
<1> QED BY <1>4, <1>6 DEF MaybeContinue

\* A task of the user, a retry or a batch of named songs leaves the session of
\* the chain alone when it is stopped (finishStop, stopAutoSessionForJob) and
\* when it ends (maybeContinueLibraryJob, maybeContinueUpgradeJob).
THEOREM NamedJobsAreApart == Spec => NamedJobsLeaveChain
<1>1. ASSUME IInv, [Next]_vars
      PROVE  [\A j \in Jobs : /\ Settles(j) \/ j \in stopAsked' \ stopAsked
                              /\ row[j].status # "none" /\ ~row[j].auto
                              => session' = session]_vars
  <2> SUFFICES ASSUME NEW j \in Jobs, Settles(j) \/ j \in stopAsked' \ stopAsked, ~row[j].auto
               PROVE  session' = session
    OBVIOUS
  <2>1. ~InChain(row, j) /\ row \in [Jobs -> Rows] BY <1>1 DEF InChain, IInv, TypeOK
  <2>2. CASE j \in stopAsked' \ stopAsked
    <3>1. PICK hard \in BOOLEAN : FinishStop(j, hard) BY <1>1, <2>2, OnlyStopAsks
    <3> QED BY <2>1, <3>1 DEF FinishStop, StopAutoSession
  <2>3. CASE Settles(j)
    <3> DEFINE n == ctl[j]
               r == [row EXCEPT ![j].status = CaughtStatus(@, n)]
    <3>1. /\ n \in Loops /\ loop[n].job = j /\ loop[n].pc # "idle"
          /\ Settle(n, row) \/ Settle(n, r)
      BY <1>1, <2>3, OnlySettleLeaves
    <3>2. CASE Settle(n, row)
      <4> HIDE DEF n
      <4> QED BY <1>1, <2>1, <3>1, <3>2, NamedSettleLeavesChain
    <3>3. CASE Settle(n, r)
      <4>1. CaughtStatus(row[j].status, n) \in Statuses BY <2>1 DEF CaughtStatus, Statuses, Rows
      <4>2. /\ r \in [Jobs -> Rows]
            /\ r[j].kind = row[j].kind /\ r[j].auto = row[j].auto
            /\ r[j].status = CaughtStatus(row[j].status, n)
            /\ \A k \in Jobs \ {j} : r[k] = row[k]
        BY <2>1, <4>1 DEF Rows
      <4>3. r[j].status = "none" <=> row[j].status = "none" BY <4>2 DEF CaughtStatus
      <4> HIDE DEF n, r
      <4> QED BY <1>1, <2>1, <3>1, <3>3, <4>2, <4>3, NamedSettleLeavesChain
    <3> QED BY <3>1, <3>2, <3>3
  <2> QED BY <2>2, <2>3
<1> QED BY <1>1, InitInv, StepInv, PTL DEF Spec, NamedJobsLeaveChain
================================================================================
