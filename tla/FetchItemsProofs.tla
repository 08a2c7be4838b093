--------------------------- MODULE FetchItemsProofs ---------------------------
(***************************************************************************)
(* Proofs about the results of a job, for any number of jobs, loops and    *)
(* songs and any sizes of chunks: the counts of a row agree with its       *)
(* items, and a result that was settled is never changed, whatever deaths, *)
(* restarts and stops come between the writes of a chunk.                  *)
(***************************************************************************)
EXTENDS FetchServiceProofs

(***************************************************************************)
(* The inductive invariant, on the rows r, loops l and children ch of a    *)
(* moment inside a handler.                                                *)
(***************************************************************************)

\* The counts c are those of the items.
Tallied(c, items) ==
  /\ c.done = Tally(items, "done") /\ c.failed = Tally(items, "failed")
  /\ c.skipped = Tally(items, "skipped")

Tallies(r) == \A j \in Jobs : Tallied(r[j].cnt, r[j].items)

\* A child works on a copy of items and counts that agree.  It has outcomes only
\* for songs that no earlier run had settled, and an item of the row is as in
\* the copy or the outcome of its song.
Chunk(items, C) ==
  /\ Tallied(C.cnt, C.items)
  /\ \A s \in Songs : C.out[s] # "none" => s \in C.todo
  /\ \A s \in C.todo : C.items[s] \notin SettledItem
  /\ \A s \in Songs : \/ items[s] = C.items[s]
                      \/ C.out[s] # "none" /\ items[s] = Stored(C.out[s])

Chunks(r, l, ch) ==
  \A n \in Loops : /\ ch[n].pc \in {"none", "boot"} => ch[n].out = NoItems
                   /\ ch[n].pc = "items" => Chunk(r[l[n].job].items, ch[n])

Booked(r, l, ch) == Tallies(r) /\ Chunks(r, l, ch)
BInv == SInv /\ Booked(row, loop, child)

\* No settled result of the row of job j changes in this step.
Settled(j) == \A s \in Songs : row[j].items[s] \in SettledItem => row'[j].items[s] = row[j].items[s]

\* What a step must show: the books are kept, and so are the results of the
\* jobs in service, unless the row is dropped.
Kept == /\ Booked(row, loop, child)'
        /\ \A j \in Jobs : InService(j) /\ row'[j].status # "none" => Settled(j)

-----------------------------------------------------------------------------
(* Counting.                                                               *)

LEMMA Apart ==
  ASSUME NEW S \in SUBSET Songs, NEW T \in SUBSET Songs, S \cap T = {}
  PROVE  Cardinality(S \cup T) = Cardinality(S) + Cardinality(T)
<1>1. /\ IsFiniteSet(S) /\ IsFiniteSet(T) /\ Cardinality(S) \in Nat /\ Cardinality(T) \in Nat
  BY SongsFinite
<1>2. Cardinality(S \cup T) = Cardinality(S) + Cardinality(T) - Cardinality(S \cap T)
  BY <1>1, FS_Union
<1>3. Cardinality(S \cap T) = 0 BY FS_EmptySet
<1> QED BY <1>1, <1>2, <1>3

\* The outcomes of a chunk on top of the items they do not contradict: each of
\* the three counts is the sum.
LEMMA MergeTallied ==
  ASSUME NEW c, NEW items \in [Songs -> ItemSt], NEW out \in [Songs -> Results], NEW todo,
         Tallied(c, items), \A s \in Songs : out[s] # "none" => items[s] \notin SettledItem
  PROVE  Tallied(AddCounts(c, todo, out), MergeItems(items, out))
<1> DEFINE M == MergeItems(items, out)
<1>1. ASSUME NEW s \in Songs
      PROVE  /\ M[s] = "done" <=> items[s] = "done" \/ out[s] = "done"
             /\ M[s] = "failed" <=> items[s] = "failed" \/ out[s] = "failed"
             /\ M[s] = "skipped" <=> items[s] = "skipped" \/ out[s] \in {"skipped", "cooling"}
             /\ items[s] \in SettledItem => out[s] = "none"
  BY DEF MergeItems, Stored, SettledItem, Results
<1>2. Tally(M, "done") = Tally(items, "done") + Tally(out, "done")
  <2> DEFINE A == {s \in Songs : items[s] = "done"}
             B == {s \in Songs : out[s] = "done"}
  <2>1. {s \in Songs : M[s] = "done"} = A \cup B BY <1>1
  <2>2. A \cap B = {} BY <1>1 DEF SettledItem
  <2> QED BY <2>1, <2>2, Apart DEF Tally
<1>3. Tally(M, "failed") = Tally(items, "failed") + Tally(out, "failed")
  <2> DEFINE A == {s \in Songs : items[s] = "failed"}
             B == {s \in Songs : out[s] = "failed"}
  <2>1. {s \in Songs : M[s] = "failed"} = A \cup B BY <1>1
  <2>2. A \cap B = {} BY <1>1 DEF SettledItem
  <2> QED BY <2>1, <2>2, Apart DEF Tally
<1>4. Tally(M, "skipped") = Tally(items, "skipped") + (Tally(out, "skipped") + Tally(out, "cooling"))
  <2> DEFINE A == {s \in Songs : items[s] = "skipped"}
             B == {s \in Songs : out[s] = "skipped"}
             D == {s \in Songs : out[s] = "cooling"}
  <2>1. {s \in Songs : M[s] = "skipped"} = A \cup (B \cup D) BY <1>1
  <2>2. A \cap (B \cup D) = {} BY <1>1 DEF SettledItem
  <2>3. B \cap D = {} OBVIOUS
  <2>4. Cardinality(B \cup D) = Cardinality(B) + Cardinality(D) BY <2>3, Apart
  <2>5. Cardinality(A \cup (B \cup D)) = Cardinality(A) + Cardinality(B \cup D) BY <2>2, Apart
  <2> QED BY <2>1, <2>4, <2>5 DEF Tally
<1>5. /\ Tally(items, "skipped") \in Nat /\ Tally(out, "skipped") \in Nat
      /\ Tally(out, "cooling") \in Nat
  BY TallyType
<1> HIDE DEF M
<1> QED BY <1>2, <1>3, <1>4, <1>5 DEF Tallied, AddCounts, M

LEMMA EmptyTallied == Tallied(ZeroCounts, NoItems)
<1>1. \A st \in {"done", "failed", "skipped"} : {s \in Songs : NoItems[s] = st} = {} BY DEF NoItems
<1> QED BY <1>1, FS_EmptySet DEF Tallied, ZeroCounts, Tally

\* The end of a stopped job marks what was not processed; nothing it marks was
\* counted.
LEMMA FinalizeTallied ==
  ASSUME NEW r \in [Jobs -> Rows], NEW j \in Jobs, Tallies(r)
  PROVE  LET rf == FinalizeDrainedFetchJob(r, j)
         IN  /\ Tallies(rf) /\ \A i \in Jobs \ {j} : rf[i] = r[i]
             /\ \A s \in Songs : r[j].items[s] \in SettledItem => rf[j].items[s] = r[j].items[s]
<1> DEFINE rf == FinalizeDrainedFetchJob(r, j)
           missing == {s \in r[j].targets : r[j].items[s] = "none"}
           items == [s \in Songs |-> IF s \in missing THEN "cancelled" ELSE r[j].items[s]]
           total == IF missing = {} THEN r[j].cnt.total ELSE Cardinality(r[j].targets)
<1>1. CASE r[j].status = "none" BY <1>1 DEF FinalizeDrainedFetchJob
<1>2. CASE r[j].status # "none"
  <2>1. rf = [r EXCEPT ![j].status = FinalStatus(@), ![j].items = items, ![j].cnt.total = total]
    BY <1>2 DEF FinalizeDrainedFetchJob
  <2>2. \A s \in Songs : /\ r[j].items[s] \in SettledItem => items[s] = r[j].items[s]
                         /\ items[s] \in SettledItem => items[s] = r[j].items[s]
    BY DEF SettledItem
  <2>3. \A st \in SettledItem : {s \in Songs : items[s] = st} = {s \in Songs : r[j].items[s] = st}
    BY <2>2
  <2>4. \A st \in SettledItem : Tally(items, st) = Tally(r[j].items, st) BY <2>3 DEF Tally
  <2> HIDE DEF rf, items, total
  <2>5. r[j] \in Rows /\ r[j].cnt \in Counts BY DEF Rows
  <2>6. /\ rf[j].items = items /\ rf[j].cnt = [r[j].cnt EXCEPT !.total = total]
        /\ \A i \in Jobs \ {j} : rf[i] = r[i]
    BY <2>1, <2>5 DEF Rows
  <2>7. Tallied(rf[j].cnt, rf[j].items)
    <3>1. Tallied(r[j].cnt, r[j].items) BY DEF Tallies
    <3>2. /\ rf[j].cnt.done = r[j].cnt.done /\ rf[j].cnt.failed = r[j].cnt.failed
          /\ rf[j].cnt.skipped = r[j].cnt.skipped
      BY <2>5, <2>6 DEF Counts
    <3> QED BY <2>4, <2>6, <3>1, <3>2 DEF Tallied, SettledItem
  <2> QED BY <2>2, <2>6, <2>7 DEF Tallies, rf
<1> QED BY <1>1, <1>2

-----------------------------------------------------------------------------
(* Starting jobs and leaving loops.                                        *)

\* A start writes no item and no count, and leaves the loops that run alone.
LEMMA StartKeepsItems ==
  ASSUME NEW r \in [Jobs -> Rows], NEW c \in [Jobs -> Loops \cup {NoLoop}],
         NEW l \in [Loops -> LoopSt], NEW at, DOMAIN at \subseteq Jobs,
         \A j \in DOMAIN at : at[j] \in Loops /\ l[at[j]].pc = "idle",
         \A i, j \in DOMAIN at : at[i] = at[j] => i = j,
         StartAll(r, c, l, at)
  PROVE  /\ \A j \in Jobs : row'[j].items = r[j].items /\ row'[j].cnt = r[j].cnt
         /\ \A m \in Loops : l[m].pc # "idle" => loop'[m] = l[m]
<1>1. CASE writable
  <2>1. row' = r BY <1>1 DEF StartAll
  <2>2. \A m \in Loops : l[m].pc # "idle" => \A j \in DOMAIN at : at[j] # m OBVIOUS
  <2> DEFINE S == {j \in DOMAIN at : c[j] = NoLoop}
             started(m) == [IdleLoop EXCEPT !.job = CHOOSE j \in S : at[j] = m, !.pc = "queue"]
  <2>3. loop' = [m \in Loops |-> IF \E j \in S : at[j] = m THEN started(m) ELSE l[m]]
    BY <1>1 DEF StartAll
  <2>4. S \subseteq DOMAIN at OBVIOUS
  <2> HIDE DEF S, started
  <2>5. \A m \in Loops : (\A j \in DOMAIN at : at[j] # m) => loop'[m] = l[m] BY <2>3, <2>4
  <2> QED BY <2>1, <2>2, <2>5
<1>2. CASE ~writable
  <2> DEFINE S == {j \in DOMAIN at : c[j] = NoLoop}
  <2>1. /\ row' = [j \in Jobs |-> IF j \in S THEN [r[j] EXCEPT !.status = "failed"] ELSE r[j]]
        /\ loop' = l
    BY <1>2 DEF StartAll
  <2> HIDE DEF S
  <2>2. ASSUME NEW j \in Jobs PROVE row'[j].items = r[j].items /\ row'[j].cnt = r[j].cnt
    <3>1. r[j] \in Rows OBVIOUS
    <3>2. /\ [r[j] EXCEPT !.status = "failed"].items = r[j].items
          /\ [r[j] EXCEPT !.status = "failed"].cnt = r[j].cnt
      BY <3>1 DEF Rows
    <3> QED BY <2>1, <3>2
  <2> QED BY <2>1, <2>2
<1> QED BY <1>1, <1>2

LEMMA StartBooked ==
  ASSUME NEW r \in [Jobs -> Rows], NEW c \in [Jobs -> Loops \cup {NoLoop}],
         NEW l \in [Loops -> LoopSt], NEW ch, Fit(c, l), ChildrenFit(ch, l), Booked(r, l, ch),
         NEW at, DOMAIN at \subseteq Jobs,
         \A j \in DOMAIN at : at[j] \in Loops /\ l[at[j]].pc = "idle",
         \A i, j \in DOMAIN at : at[i] = at[j] => i = j,
         StartAll(r, c, l, at)
  PROVE  Booked(row', loop', ch) /\ \A j \in Jobs : row'[j].items = r[j].items
<1>1. /\ \A j \in Jobs : row'[j].items = r[j].items /\ row'[j].cnt = r[j].cnt
      /\ \A m \in Loops : l[m].pc # "idle" => loop'[m] = l[m]
  BY StartKeepsItems
<1>2. ASSUME NEW m \in Loops, ch[m].pc = "items"
      PROVE  loop'[m].job = l[m].job /\ l[m].job \in Jobs
  <2>1. l[m].pc = "child" BY <1>2 DEF ChildrenFit
  <2> QED BY <1>1, <2>1 DEF Fit, LoopSt
<1>3. Chunks(row', loop', ch) BY <1>1, <1>2 DEF Booked, Chunks
<1>4. Tallies(row') BY <1>1 DEF Booked, Tallies
<1> QED BY <1>1, <1>3, <1>4 DEF Booked

\* A new row has no items, and no loop knew it.
LEMMA NewRowBooked ==
  ASSUME NEW r \in [Jobs -> Rows], NEW c, NEW l \in [Loops -> LoopSt], NEW ch,
         Fit(c, l), ChildrenFit(ch, l), Booked(r, l, ch),
         NEW k \in Jobs, \A m \in Loops : l[m].job # k,
         NEW R, R.items = NoItems, R.cnt = ZeroCounts
  PROVE  Booked([r EXCEPT ![k] = R], l, ch)
<1> DEFINE q == [r EXCEPT ![k] = R]
<1>1. q[k] = R /\ \A j \in Jobs \ {k} : q[j] = r[j] OBVIOUS
<1>2. \A m \in Loops : ch[m].pc = "items" => l[m].job \in Jobs \ {k}
  BY DEF Fit, ChildrenFit, LoopSt
<1> HIDE DEF q
<1>3. Tallies(q) BY <1>1, EmptyTallied DEF Tallies, Booked
<1>4. Chunks(q, l, ch) BY <1>1, <1>2 DEF Chunks, Booked
<1> QED BY <1>3, <1>4 DEF Booked, q

LEMMA NewJobBooked ==
  ASSUME NEW r \in [Jobs -> Rows], NEW c \in [Jobs -> Loops \cup {NoLoop}],
         NEW l \in [Loops -> LoopSt], NEW ch, Fit(c, l), ChildrenFit(ch, l), Booked(r, l, ch),
         NEW k \in Jobs, \A m \in Loops : l[m].job # k, NEW n \in Loops, l[n].pc = "idle",
         NEW R \in Rows, R.items = NoItems, R.cnt = ZeroCounts,
         StartFetchJob([r EXCEPT ![k] = R], c, l, k, n)
  PROVE  Booked(row', loop', ch) /\ \A j \in Jobs \ {k} : row'[j].items = r[j].items
<1> DEFINE q == [r EXCEPT ![k] = R]
           at == [j \in {k} |-> n]
<1>1. q \in [Jobs -> Rows] /\ \A j \in Jobs \ {k} : q[j] = r[j] OBVIOUS
<1>2. StartAll(q, c, l, at) BY DEF StartFetchJob
<1>3. DOMAIN at = {k} /\ at[k] = n OBVIOUS
<1>4. Booked(q, l, ch) BY NewRowBooked
<1> HIDE DEF q, at
<1>5. /\ DOMAIN at \subseteq Jobs /\ \A j \in DOMAIN at : at[j] \in Loops /\ l[at[j]].pc = "idle"
      /\ \A i, j \in DOMAIN at : at[i] = at[j] => i = j
  BY <1>3
<1>6. Booked(row', loop', ch) /\ \A j \in Jobs : row'[j].items = q[j].items
  BY <1>1, <1>2, <1>4, <1>5, StartBooked
<1> QED BY <1>1, <1>6

LEMMA BatchBooked ==
  ASSUME TypeOK, NEW f \in Flows,
         NEW r \in [Jobs -> Rows], NEW c \in [Jobs -> Loops \cup {NoLoop}],
         NEW l \in [Loops -> LoopSt], NEW ch, Fit(c, l), ChildrenFit(ch, l), Booked(r, l, ch),
         NEW k \in Jobs, \A m \in Loops : l[m].job # k, NEW n \in Loops, l[n].pc = "idle",
         OpenBatch(f, r, c, l, k, n)
  PROVE  Booked(row', loop', ch) /\ \A j \in Jobs \ {k} : row'[j].items = r[j].items
<1> DEFINE T == Batch(f)
           b == f = "library"
           R == NewRow(f, TRUE, b, T)
<1>1. f \in Kinds /\ T \in SUBSET Songs /\ b \in BOOLEAN BY FetchAssumption, BatchType DEF Kinds
<1>2. R \in Rows /\ R.items = NoItems /\ R.cnt = ZeroCounts
  <2> HIDE DEF T, b
  <2>1. R \in Rows BY <1>1, NewRowType
  <2>2. R.items = NoItems /\ R.cnt = ZeroCounts BY DEF NewRow, NoRow
  <2> QED BY <2>1, <2>2
<1>3. StartFetchJob([r EXCEPT ![k] = R], c, l, k, n) BY DEF OpenBatch
<1> HIDE DEF R
<1> QED BY <1>2, <1>3, NewJobBooked

\* A row identity a new job may take belongs to no job in service.
LEMMA FreeIsOut ==
  ASSUME NEW k \in FreeIds
  PROVE  k \in Jobs /\ ~InService(k) /\ \A n \in Loops : loop[n].job # k
BY DEF FreeIds, InService

\* The facts about the present that every step starts from.
LEMMA Present ==
  ASSUME BInv
  PROVE  /\ TypeOK /\ row \in [Jobs -> Rows] /\ ctl \in [Jobs -> Loops \cup {NoLoop}]
         /\ loop \in [Loops -> LoopSt] /\ child \in [Loops -> ChildSt]
         /\ Fit(ctl, loop) /\ ChildrenFit(child, loop) /\ Booked(row, loop, child)
BY WiringAsFit DEF BInv, SInv, IInv, TypeOK

LEMMA LeaveBooked ==
  ASSUME BInv, NEW n \in Loops, loop[n].pc # "idle", NEW r \in [Jobs -> Rows], Tallies(r),
         \A i \in Jobs \ {loop[n].job} : r[i] = row[i]
  PROVE  Booked(r, [loop EXCEPT ![n] = IdleLoop], [child EXCEPT ![n] = NoChild])
<1> DEFINE l == [loop EXCEPT ![n] = IdleLoop]
           ch == [child EXCEPT ![n] = NoChild]
<1>1. ch[n].pc = "none" /\ ch[n].out = NoItems BY Present DEF NoChild
<1>2. \A m \in Loops \ {n} : l[m] = loop[m] /\ ch[m] = child[m] BY Present
<1>3. loop[n].job \in Jobs /\ ctl[loop[n].job] = n
  BY Present DEF BInv, SInv, IInv, LoopSt, Wiring
<1>4. \A m \in Loops \ {n} : child[m].pc = "items" => loop[m].job \in Jobs \ {loop[n].job}
  BY <1>3, Present, FetchAssumption DEF Fit, ChildrenFit, LoopSt
<1> HIDE DEF l, ch
<1>5. ASSUME NEW m \in Loops
      PROVE  /\ ch[m].pc \in {"none", "boot"} => ch[m].out = NoItems
             /\ ch[m].pc = "items" => Chunk(r[l[m].job].items, ch[m])
  <2>1. CASE m = n BY <1>1, <2>1
  <2>2. CASE m # n BY <1>2, <1>4, <2>2, Present DEF Booked, Chunks
  <2> QED BY <2>1, <2>2
<1> QED BY <1>5 DEF Booked, Chunks, l, ch

LEMMA SettleKept ==
  ASSUME BInv, NEW n \in Loops, loop[n].pc # "idle", NEW r \in [Jobs -> Rows], Settle(n, r),
         \A i \in Jobs \ {loop[n].job} : r[i] = row[i],
         r[loop[n].job].items = row[loop[n].job].items,
         r[loop[n].job].cnt = row[loop[n].job].cnt
  PROVE  Kept
<1> DEFINE j  == loop[n].job
           c  == [ctl EXCEPT ![j] = NoLoop]
           l  == [loop EXCEPT ![n] = IdleLoop]
           ch == [child EXCEPT ![n] = NoChild]
           rf == IF loop[n].hard \/ loop[n].drain THEN FinalizeDrainedFetchJob(r, j) ELSE r
           hard == loop[n].hard
<1>1. j \in Jobs BY Present DEF BInv, SInv, IInv, LoopSt, Wiring
<1>2. rf \in [Jobs -> Rows] BY <1>1, FinalizeType
<1>3. Tallies(r) BY <1>1, Present DEF Booked, Tallies
<1>4. /\ Tallies(rf) /\ \A i \in Jobs \ {j} : rf[i] = row[i]
      /\ \A s \in Songs : row[j].items[s] \in SettledItem => rf[j].items[s] = row[j].items[s]
  BY <1>1, <1>3, FinalizeTallied
<1>5. c \in [Jobs -> Loops \cup {NoLoop}] /\ l \in [Loops -> LoopSt]
  BY <1>1, NoChildType, Present
<1>6. Fit(c, l) /\ ChildrenFit(ch, l) BY LeaveFit DEF BInv, SInv, IInv
<1>7. MaybeContinue(rf, c, l, j, hard) /\ child' = ch BY DEF Settle
<1> HIDE DEF rf, hard
<1>8. Booked(rf, l, ch) BY <1>2, <1>4, LeaveBooked
<1>9. CASE ChainGoesOn(rf, j, hard)
  <2> DEFINE f == rf[j].kind
  <2>1. f \in Flows BY <1>9 DEF ChainGoesOn, InChain
  <2>2. PICK k \in FreeIds \ {j}, m \in {i \in Loops : l[i].pc = "idle"} : OpenBatch(f, rf, c, l, k, m)
    BY <1>7, <1>9 DEF MaybeContinue
  <2>3. k \in Jobs /\ ~InService(k) /\ \A i \in Loops : loop[i].job # k BY FreeIsOut
  <2>4. \A i \in Loops : l[i].job # k
    <3>1. l[n].job = NoJob BY Present DEF IdleLoop
    <3>2. \A i \in Loops \ {n} : l[i] = loop[i] BY Present
    <3> QED BY <2>3, <3>1, <3>2, FetchAssumption
  <2> HIDE DEF f, c, l, ch
  <2>5. Booked(row', loop', ch) /\ \A i \in Jobs \ {k} : row'[i].items = rf[i].items
    BY <1>2, <1>5, <1>6, <1>8, <2>1, <2>2, <2>3, <2>4, Present, BatchBooked
  <2>6. ASSUME NEW i \in Jobs, InService(i) PROVE Settled(i)
    <3>1. i # k BY <2>3, <2>6
    <3>2. row'[i].items = rf[i].items BY <2>5, <3>1
    <3> QED BY <1>4, <3>2 DEF Settled
  <2> QED BY <1>7, <2>5, <2>6 DEF Kept
<1>10. CASE ~ChainGoesOn(rf, j, hard)
  <2>1. row' = rf /\ loop' = l BY <1>7, <1>10 DEF MaybeContinue
  <2> HIDE DEF c, l, ch
  <2>2. \A i \in Jobs : Settled(i) BY <1>4, <2>1 DEF Settled
  <2> QED BY <1>7, <1>8, <2>1, <2>2 DEF Kept
<1> QED BY <1>9, <1>10

-----------------------------------------------------------------------------
(* The child and the loop.                                                 *)

\* A child writes its own row only, keeps its counts and its settled results,
\* and stays true to the copy it works on.
LEMMA ChildKept ==
  ASSUME BInv, NEW n \in Loops, child[n].pc # "none", ChildOnly,
         \A i \in Jobs \ {loop[n].job} : row'[i] = row[i],
         Tallied(row'[loop[n].job].cnt, row'[loop[n].job].items), Settled(loop[n].job),
         \A m \in Loops \ {n} : child'[m] = child[m],
         child'[n].pc \in {"none", "boot"} => child'[n].out = NoItems,
         child'[n].pc = "items" => Chunk(row'[loop[n].job].items, child'[n])
  PROVE  Kept
<1> DEFINE j == loop[n].job
<1>1. loop' = loop /\ j \in Jobs BY ChildHasJob DEF ChildOnly, BInv, SInv
<1>2. \A m \in Loops \ {n} : child[m].pc = "items" => loop[m].job \in Jobs \ {j}
  BY Present, FetchAssumption DEF BInv, SInv, IInv, Wiring, LoopSt
<1>3. Tallies(row') BY <1>1, Present DEF Booked, Tallies
<1>4. Chunks(row', loop', child') BY <1>1, <1>2, Present DEF Booked, Chunks
<1>5. \A i \in Jobs : Settled(i) BY <1>1 DEF Settled
<1> QED BY <1>3, <1>4, <1>5 DEF Kept, Booked

\* No item and no count changes, and a child at work keeps its job and copy.
LEMMA SameKept ==
  ASSUME BInv, \A j \in Jobs : row'[j].items = row[j].items /\ row'[j].cnt = row[j].cnt,
         \A n \in Loops :
           /\ child'[n].pc \in {"none", "boot"} => child'[n].out = NoItems
           /\ child'[n].pc = "items" =>
                /\ child[n].pc = "items" /\ loop'[n].job = loop[n].job
                /\ child'[n].items = child[n].items /\ child'[n].cnt = child[n].cnt
                /\ child'[n].todo = child[n].todo /\ child'[n].out = child[n].out
  PROVE  Kept
<1>1. ASSUME NEW n \in Loops, child'[n].pc = "items"
      PROVE  Chunk(row'[loop'[n].job].items, child'[n])
  <2>1. loop[n].job \in Jobs BY <1>1, ChildHasJob DEF BInv, SInv
  <2>2. Chunk(row[loop[n].job].items, child[n]) BY <1>1, Present DEF Booked, Chunks
  <2> QED BY <1>1, <2>1, <2>2 DEF Chunk
<1>2. Tallies(row') BY Present DEF Booked, Tallies
<1>3. Chunks(row', loop', child') BY <1>1 DEF Chunks
<1>4. \A i \in Jobs : Settled(i) BY DEF Settled
<1> QED BY <1>2, <1>3, <1>4 DEF Kept, Booked

\* The same with loops and children left alone.
LEMMA RestKept ==
  ASSUME BInv, UNCHANGED <<loop, child>>,
         \A j \in Jobs : row'[j].items = row[j].items /\ row'[j].cnt = row[j].cnt
  PROVE  Kept
<1>1. \A n \in Loops : child[n].pc \in {"none", "boot"} => child[n].out = NoItems
  BY Present DEF Booked, Chunks
<1> QED BY <1>1, SameKept

\* What is known of a child at work.
LEMMA ChunkNow ==
  ASSUME BInv, NEW n \in Loops, child[n].pc # "none"
  PROVE  /\ loop[n].job \in Jobs /\ row[loop[n].job] \in Rows /\ child[n] \in ChildSt
         /\ Tallied(row[loop[n].job].cnt, row[loop[n].job].items)
         /\ child[n].pc = "items" => Chunk(row[loop[n].job].items, child[n])
         /\ child[n].pc = "boot" => child[n].out = NoItems
<1>1. loop[n].job \in Jobs /\ row[loop[n].job] \in Rows /\ child[n] \in ChildSt
  BY ChildHasJob DEF BInv, SInv
<1> QED BY <1>1, Present DEF Booked, Tallies, Chunks

LEMMA ChildStartKept == ASSUME BInv, NEW n \in Loops, ChildStart(n) PROVE Kept
<1> DEFINE j == loop[n].job
           r == row[j]
           todo == Todo(r, loop[n].chunk)
           more == HasMore(r.targets, loop[n].chunk)
           st == IF Slice(r.targets, loop[n].chunk) # {} /\ todo = {} /\ ~more
                 THEN Verdict(r.cnt, child[n].abort \/ child[n].drain)
                 ELSE IF loop[n].chunk = 0 THEN "running" ELSE r.status
           pc == IF todo = {} THEN "sent" ELSE "items"
<1>1. child[n].pc = "boot" BY DEF ChildStart
<1>2. /\ j \in Jobs /\ r \in Rows /\ child[n] \in ChildSt
      /\ Tallied(r.cnt, r.items) /\ child[n].out = NoItems
  BY <1>1, ChunkNow
<1>3. \A s \in todo : r.items[s] \notin SettledItem BY DEF Todo
<1>4. /\ row' = row \/ row' = [row EXCEPT ![j].status = st]
      /\ child' = [child EXCEPT ![n].pc = pc, ![n].items = r.items, ![n].cnt = r.cnt,
                                ![n].todo = todo, ![n].more = more]
      /\ ChildOnly
  BY DEF ChildStart
<1> HIDE DEF todo, more, st
<1>5. /\ row'[j].items = r.items /\ row'[j].cnt = r.cnt
      /\ \A i \in Jobs \ {j} : row'[i] = row[i]
  BY <1>2, <1>4, Present DEF Rows
<1>6. /\ child'[n].pc = pc /\ child'[n].items = r.items /\ child'[n].cnt = r.cnt
      /\ child'[n].todo = todo /\ child'[n].out = NoItems
      /\ \A m \in Loops \ {n} : child'[m] = child[m]
  BY <1>2, <1>4, Present DEF ChildSt
<1>7. Chunk(row'[j].items, child'[n]) BY <1>2, <1>3, <1>5, <1>6 DEF Chunk, NoItems
<1>8. Tallied(row'[j].cnt, row'[j].items) /\ Settled(j) BY <1>2, <1>5 DEF Settled
<1> QED BY <1>1, <1>4, <1>5, <1>6, <1>7, <1>8, ChildKept

\* Items that are written derive the counts again.
LEMMA OnItemTallied ==
  ASSUME BInv, NEW n \in Loops, child[n].pc # "none", NEW S \in SUBSET Songs,
         NEW out \in [Songs -> Results], OnItem(n, S, out)
  PROVE  /\ Tallied(row'[loop[n].job].cnt, row'[loop[n].job].items)
         /\ \A i \in Jobs \ {loop[n].job} : row'[i] = row[i]
         /\ \A s \in Songs : row'[loop[n].job].items[s] =
              IF s \in S THEN Stored(out[s]) ELSE row[loop[n].job].items[s]
<1> DEFINE j == loop[n].job
           items == [s \in Songs |-> IF s \in S THEN Stored(out[s]) ELSE row[j].items[s]]
           cnt == Recount(items, row[j].targets)
<1>1. j \in Jobs /\ row[j] \in Rows /\ Tallied(row[j].cnt, row[j].items) BY ChunkNow
<1>2. row' = IF S = {} THEN row ELSE [row EXCEPT ![j].items = items, ![j].cnt = cnt]
  BY DEF OnItem
<1>3. Tallied(cnt, items)
  <2> HIDE DEF items
  <2> QED BY DEF Tallied, Recount
<1>4. \A s \in Songs : items[s] = IF s \in S THEN Stored(out[s]) ELSE row[j].items[s] OBVIOUS
<1>5. CASE S = {} BY <1>1, <1>2, <1>5
<1>6. CASE S # {}
  <2> HIDE DEF items, cnt
  <2>1. row'[j].items = items /\ row'[j].cnt = cnt /\ \A i \in Jobs \ {j} : row'[i] = row[i]
    BY <1>1, <1>2, <1>6, Present DEF Rows
  <2> QED BY <1>3, <1>4, <2>1
<1> QED BY <1>5, <1>6

LEMMA ItemEndKept ==
  ASSUME BInv, NEW n \in Loops, NEW s \in Songs, NEW o \in Outcomes \cup {"cancelled"},
         ItemEnd(n, s, o)
  PROVE  Kept
<1> DEFINE j == loop[n].job
           C == child[n]
           out == [C.out EXCEPT ![s] = o]
           S == IF o \in {"done", "cancelled"} THEN {} ELSE {s}
<1>1. /\ C.pc = "items" /\ s \in C.todo /\ C.out[s] = "none" /\ ChildOnly
      /\ child' = [child EXCEPT ![n] = [C EXCEPT !.out = out]] /\ OnItem(n, S, out)
  BY DEF ItemEnd
<1>2. C \in ChildSt /\ Chunk(row[j].items, C) BY <1>1, ChunkNow
<1>3. out[s] = o /\ \A t \in Songs \ {s} : out[t] = C.out[t] BY <1>2 DEF ChildSt
<1>4. S \subseteq {s} /\ S \in SUBSET Songs OBVIOUS
<1>5. o \in Results /\ o # "none" /\ out \in [Songs -> Results]
  BY <1>2, FetchAssumption DEF ChildSt, Results
<1> HIDE DEF S, out
<1>6. /\ child'[n].pc = "items" /\ child'[n].items = C.items /\ child'[n].cnt = C.cnt
      /\ child'[n].todo = C.todo /\ child'[n].out = out
      /\ \A m \in Loops \ {n} : child'[m] = child[m]
  BY <1>1, <1>2, Present DEF ChildSt
<1>7. /\ Tallied(row'[j].cnt, row'[j].items) /\ \A i \in Jobs \ {j} : row'[i] = row[i]
      /\ \A t \in Songs : row'[j].items[t] = IF t \in S THEN Stored(out[t]) ELSE row[j].items[t]
  <2>1. child[n].pc # "none" /\ OnItem(n, S, out) BY <1>1
  <2> HIDE DEF C
  <2> QED BY <1>4, <1>5, <2>1, OnItemTallied
<1>8. row[j].items[s] = C.items[s] /\ C.items[s] \notin SettledItem BY <1>1, <1>2 DEF Chunk
<1>9. Settled(j) BY <1>4, <1>7, <1>8 DEF Settled
<1>10. Chunk(row'[j].items, child'[n])
  <2>1. \A t \in Songs : child'[n].out[t] # "none" => t \in child'[n].todo
    BY <1>1, <1>2, <1>3, <1>6 DEF Chunk
  <2>2. ASSUME NEW t \in Songs
        PROVE  \/ row'[j].items[t] = C.items[t]
               \/ out[t] # "none" /\ row'[j].items[t] = Stored(out[t])
    BY <1>2, <1>3, <1>4, <1>5, <1>7, <1>8 DEF Chunk
  <2> QED BY <1>2, <1>6, <2>1, <2>2 DEF Chunk
<1> QED BY <1>1, <1>6, <1>7, <1>9, <1>10, ChildKept

LEMMA FlushKept == ASSUME BInv, NEW n \in Loops, Flush(n) PROVE Kept
<1> DEFINE j == loop[n].job
           C == child[n]
           S == Unflushed(n)
<1>1. C.pc = "items" /\ ChildOnly /\ child' = child /\ OnItem(n, S, C.out) BY DEF Flush
<1>2. C \in ChildSt /\ Chunk(row[j].items, C) BY <1>1, ChunkNow
<1>3. S \in SUBSET Songs BY <1>2 DEF Unflushed, ChildSt
<1>4. /\ Tallied(row'[j].cnt, row'[j].items) /\ \A i \in Jobs \ {j} : row'[i] = row[i]
      /\ \A t \in Songs : row'[j].items[t] = IF t \in S THEN Stored(C.out[t]) ELSE row[j].items[t]
  <2> DEFINE out == C.out
  <2>1. child[n].pc # "none" /\ OnItem(n, S, out) /\ out \in [Songs -> Results]
    BY <1>1, <1>2 DEF ChildSt
  <2> HIDE DEF S, out
  <2>2. /\ Tallied(row'[j].cnt, row'[j].items) /\ \A i \in Jobs \ {j} : row'[i] = row[i]
        /\ \A t \in Songs : row'[j].items[t] = IF t \in S THEN Stored(out[t]) ELSE row[j].items[t]
    BY <1>3, <2>1, OnItemTallied
  <2> QED BY <2>2 DEF out
<1>5. ASSUME NEW t \in S PROVE C.out[t] = "done" /\ row[j].items[t] \notin SettledItem
  <2>1. t \in C.todo /\ C.out[t] = "done" /\ row[j].items[t] # "done" BY DEF Unflushed
  <2> QED BY <1>2, <1>3, <2>1 DEF Chunk, Stored
<1>6. Settled(j) BY <1>4, <1>5 DEF Settled
<1>7. Chunk(row'[j].items, child'[n]) BY <1>1, <1>2, <1>4, <1>5 DEF Chunk
<1> QED BY <1>1, <1>4, <1>6, <1>7, ChildKept

\* The end of a chunk counts each outcome once, on top of the counts of the
\* copy, and writes nothing that a flush or a failure had written otherwise.
LEMMA ChunkSaveKept == ASSUME BInv, NEW n \in Loops, ChunkSave(n) PROVE Kept
<1> DEFINE j == loop[n].job
           C == child[n]
           items == MergeItems(C.items, C.out)
           cnt == AddCounts(C.cnt, C.todo, C.out)
<1>1. /\ C.pc = "items" /\ child' = [child EXCEPT ![n].pc = "saved"]
      /\ row' = [row EXCEPT ![j].items = items, ![j].cnt = cnt] /\ ChildOnly
  BY DEF ChunkSave
<1>2. j \in Jobs /\ row[j] \in Rows /\ C \in ChildSt /\ Chunk(row[j].items, C) BY <1>1, ChunkNow
<1>3. \A s \in Songs : C.out[s] # "none" => C.items[s] \notin SettledItem BY <1>2 DEF Chunk
<1>4. Tallied(cnt, items) BY <1>2, <1>3, MergeTallied DEF Chunk, ChildSt
<1>5. \A s \in Songs : row[j].items[s] \in SettledItem => items[s] = row[j].items[s]
  BY <1>2, <1>3 DEF Chunk, MergeItems
<1> HIDE DEF items, cnt
<1>6. /\ row'[j].items = items /\ row'[j].cnt = cnt /\ \A i \in Jobs \ {j} : row'[i] = row[i]
  BY <1>1, <1>2, Present DEF Rows
<1>7. child'[n].pc = "saved" /\ \A m \in Loops \ {n} : child'[m] = child[m]
  BY <1>1, <1>2, Present DEF ChildSt
<1>8. Settled(j) BY <1>5, <1>6 DEF Settled
<1> QED BY <1>1, <1>4, <1>6, <1>7, <1>8, ChildKept

LEMMA ChunkStatusKept == ASSUME BInv, NEW n \in Loops, ChunkStatus(n) PROVE Kept
<1> DEFINE j == loop[n].job
           st == Verdict(row[j].cnt, child[n].abort \/ child[n].drain)
<1>1. /\ child[n].pc = "saved" /\ child' = [child EXCEPT ![n].pc = "sent"]
      /\ row' = row \/ row' = [row EXCEPT ![j].status = st]
      /\ ChildOnly
  BY DEF ChunkStatus
<1>2. j \in Jobs /\ row[j] \in Rows /\ child[n] \in ChildSt /\ Tallied(row[j].cnt, row[j].items)
  BY <1>1, ChunkNow
<1> HIDE DEF st
<1>3. /\ row'[j].items = row[j].items /\ row'[j].cnt = row[j].cnt
      /\ \A i \in Jobs \ {j} : row'[i] = row[i]
  BY <1>1, <1>2, Present DEF Rows
<1>4. child'[n].pc = "sent" /\ \A m \in Loops \ {n} : child'[m] = child[m]
  BY <1>1, <1>2, Present DEF ChildSt
<1>5. Settled(j) BY <1>3 DEF Settled
<1> QED BY <1>1, <1>2, <1>3, <1>4, <1>5, ChildKept

\* A stop, or a death, that reaches the child.
LEMMA SignalKept == ASSUME BInv, NEW n \in Loops, DeliverStop(n) \/ ChildDies(n) PROVE Kept
<1>1. child[n].pc # "none" /\ row' = row /\ loop' = loop
  BY DEF DeliverStop, ChildDies, ChildOnly, db
<1>2. child[n] \in ChildSt BY <1>1, ChunkNow
<1>3. /\ child'[n].pc \in {child[n].pc, "dead"} /\ child'[n].items = child[n].items
      /\ child'[n].cnt = child[n].cnt /\ child'[n].todo = child[n].todo
      /\ child'[n].out = child[n].out
      /\ \A m \in Loops \ {n} : child'[m] = child[m]
  <2>1. \/ child' = [child EXCEPT ![n].abort = TRUE] \/ child' = [child EXCEPT ![n].drain = TRUE]
        \/ child' = [child EXCEPT ![n].pc = "dead"]
    BY DEF DeliverStop, ChildDies
  <2> QED BY <1>2, <2>1, Present DEF ChildSt
<1>4. \A m \in Loops : child[m].pc \in {"none", "boot"} => child[m].out = NoItems
  BY Present DEF Booked, Chunks
<1> QED BY <1>1, <1>3, <1>4, SameKept

LEMMA GrantKept == ASSUME BInv, NEW n \in Loops, Grant(n) PROVE Kept
<1>1. /\ loop[n].pc = "queue" /\ loop' = [loop EXCEPT ![n].pc = "child"]
      /\ child' = [child EXCEPT ![n].pc = "boot"] /\ row' = row
  BY DEF Grant, db
<1>2. child[n].pc = "none" BY <1>1, Present DEF ChildrenFit, ChildSt
<1>3. loop[n] \in LoopSt /\ child[n] \in ChildSt BY Present
<1>4. /\ child'[n].pc = "boot" /\ child'[n].out = child[n].out
      /\ \A m \in Loops \ {n} : loop'[m] = loop[m] /\ child'[m] = child[m]
  BY <1>1, <1>3, Present DEF ChildSt
<1>5. \A m \in Loops : child[m].pc \in {"none", "boot"} => child[m].out = NoItems
  BY Present DEF Booked, Chunks
<1> QED BY <1>1, <1>2, <1>4, <1>5, SameKept

LEMMA ParentResultKept == ASSUME BInv, NEW n \in Loops, ParentResult(n) PROVE Kept
<1>1. child[n].pc = "sent" /\ loop[n].pc = "child"
  BY DEF ParentResult, BInv, SInv, IInv, Wiring
<1>2. CASE Settle(n, row) BY <1>1, <1>2, Present, SettleKept DEF Booked
<1>3. CASE /\ loop' = [loop EXCEPT ![n].pc = "sleep", ![n].chunk = @ + 1]
           /\ child' = [child EXCEPT ![n] = NoChild]
           /\ UNCHANGED <<phase, db, conf, ctl, events, stopAsked>>
  <2>1. /\ child'[n].pc = "none" /\ child'[n].out = NoItems /\ row' = row
        /\ \A m \in Loops \ {n} : loop'[m] = loop[m] /\ child'[m] = child[m]
    BY <1>3, Present DEF NoChild, db
  <2>2. \A m \in Loops : child[m].pc \in {"none", "boot"} => child[m].out = NoItems
    BY Present DEF Booked, Chunks
  <2> QED BY <2>1, <2>2, SameKept
<1> QED BY <1>2, <1>3 DEF ParentResult

LEMMA ParentExitKept == ASSUME BInv, NEW n \in Loops, ParentExit(n) PROVE Kept
<1> DEFINE j == loop[n].job
           r == [row EXCEPT ![j].status = CaughtStatus(@, n)]
<1>1. child[n].pc = "dead" /\ loop[n].pc = "child"
  BY DEF ParentExit, BInv, SInv, IInv, Wiring
<1>2. j \in Jobs /\ row[j] \in Rows BY <1>1, ChunkNow
<1>3. CaughtStatus(row[j].status, n) \in Statuses BY <1>2 DEF CaughtStatus, Statuses, Rows
<1>4. /\ r \in [Jobs -> Rows] /\ r[j].items = row[j].items /\ r[j].cnt = row[j].cnt
      /\ \A i \in Jobs \ {j} : r[i] = row[i]
  <2>1. [row[j] EXCEPT !.status = CaughtStatus(@, n)] \in Rows BY <1>2, <1>3, RowStatusType
  <2> QED BY <1>2, <2>1, Present DEF Rows
<1>5. Settle(n, r) BY DEF ParentExit
<1> HIDE DEF r
<1> QED BY <1>1, <1>4, <1>5, SettleKept

LEMMA WakeKept == ASSUME BInv, NEW n \in Loops, Wake(n) PROVE Kept
<1>1. loop[n].pc = "sleep" BY DEF Wake
<1>2. CASE Settle(n, row) BY <1>1, <1>2, Present, SettleKept
<1>3. CASE /\ loop' = [loop EXCEPT ![n].pc = "queue"]
           /\ UNCHANGED <<phase, db, conf, ctl, child, events, stopAsked>>
  <2>1. loop[n] \in LoopSt BY Present
  <2>2. /\ row' = row /\ child' = child /\ loop'[n].job = loop[n].job
        /\ \A m \in Loops \ {n} : loop'[m] = loop[m]
    BY <1>3, <2>1, Present DEF LoopSt, db
  <2>3. \A m \in Loops : child[m].pc \in {"none", "boot"} => child[m].out = NoItems
    BY Present DEF Booked, Chunks
  <2> QED BY <2>2, <2>3, SameKept
<1> QED BY <1>2, <1>3 DEF Wake

-----------------------------------------------------------------------------
(* The user, the schedulers and the restart.                               *)

\* A new job in a free row.
LEMMA NewJobKept ==
  ASSUME BInv, NEW k \in FreeIds, NEW n \in IdleLoops,
         NEW R \in Rows, R.items = NoItems, R.cnt = ZeroCounts,
         StartFetchJob([row EXCEPT ![k] = R], ctl, loop, k, n), child' = child
  PROVE  Kept
<1>1. /\ k \in Jobs /\ ~InService(k) /\ (\A m \in Loops : loop[m].job # k)
      /\ n \in Loops /\ loop[n].pc = "idle"
  BY FreeIsOut DEF IdleLoops
<1>2. Booked(row', loop', child) /\ \A j \in Jobs \ {k} : row'[j].items = row[j].items
  BY <1>1, Present, NewJobBooked
<1>3. \A j \in Jobs : InService(j) => Settled(j) BY <1>1, <1>2 DEF Settled
<1> QED BY <1>2, <1>3 DEF Kept

LEMMA NewBatchKept ==
  ASSUME BInv, NEW f \in Flows, NEW k \in FreeIds, NEW n \in IdleLoops,
         OpenBatch(f, row, ctl, loop, k, n), child' = child
  PROVE  Kept
<1>1. /\ k \in Jobs /\ ~InService(k) /\ (\A m \in Loops : loop[m].job # k)
      /\ n \in Loops /\ loop[n].pc = "idle"
  BY FreeIsOut DEF IdleLoops
<1>2. Booked(row', loop', child) /\ \A j \in Jobs \ {k} : row'[j].items = row[j].items
  BY <1>1, Present, BatchBooked
<1>3. \A j \in Jobs : InService(j) => Settled(j) BY <1>1, <1>2 DEF Settled
<1> QED BY <1>2, <1>3 DEF Kept

\* The finished row of an empty plan.
LEMMA EmptyPlanKept ==
  ASSUME BInv, NEW f \in Flows, NEW k \in FreeIds, UNCHANGED <<loop, child>>,
         row' = [row EXCEPT ![k] = [NewRow(f, TRUE, f = "library", {}) EXCEPT !.status = "done"]]
  PROVE  Kept
<1> DEFINE N == NewRow(f, TRUE, f = "library", {})
           R == [N EXCEPT !.status = "done"]
<1>1. N \in Rows /\ N.items = NoItems /\ N.cnt = ZeroCounts
  <2>1. f \in Kinds BY FetchAssumption DEF Kinds
  <2>2. N \in Rows BY <2>1, NewRowType
  <2> QED BY <2>2 DEF NewRow, NoRow
<1> HIDE DEF N
<1>2. R.items = NoItems /\ R.cnt = ZeroCounts BY <1>1 DEF Rows
<1>3. row' = [row EXCEPT ![k] = R] BY DEF N
<1> HIDE DEF R
<1>4. k \in Jobs /\ ~InService(k) /\ \A m \in Loops : loop[m].job # k BY FreeIsOut
<1>5. Booked(row', loop, child)
  <2>1. /\ row \in [Jobs -> Rows] /\ loop \in [Loops -> LoopSt] /\ Fit(ctl, loop)
        /\ ChildrenFit(child, loop) /\ Booked(row, loop, child)
    BY Present
  <2>2. Booked([row EXCEPT ![k] = R], loop, child) BY <1>2, <1>4, <2>1, NewRowBooked
  <2> QED BY <1>3, <2>2
<1>6. \A i \in Jobs \ {k} : Settled(i) BY <1>3, Present DEF Settled
<1> QED BY <1>4, <1>5, <1>6 DEF Kept

LEMMA OpenSingleKept ==
  ASSUME BInv, NEW lib \in BOOLEAN, NEW T \in SUBSET Songs, OpenSingle(lib, T) PROVE Kept
<1> DEFINE R == NewRow("single", FALSE, lib, T)
<1>1. PICK k \in FreeIds, n \in IdleLoops : StartFetchJob([row EXCEPT ![k] = R], ctl, loop, k, n)
  BY DEF OpenSingle
<1>2. R \in Rows BY NewRowType DEF Kinds
<1>3. R.items = NoItems /\ R.cnt = ZeroCounts BY DEF NewRow, NoRow
<1>4. child' = child BY DEF OpenSingle
<1> HIDE DEF R
<1> QED BY <1>1, <1>2, <1>3, <1>4, NewJobKept

LEMMA RequestKept == ASSUME BInv, CreateTask \/ \E j \in Jobs : RetryTask(j) PROVE Kept
<1>1. CASE CreateTask
  <2>1. PICK T \in (SUBSET Songs) \ {{}} : OpenSingle(FALSE, T) BY <1>1 DEF CreateTask
  <2>2. T \in SUBSET Songs OBVIOUS
  <2>3. FALSE \in BOOLEAN OBVIOUS
  <2> QED BY <2>1, <2>2, <2>3, OpenSingleKept
<1>2. ASSUME NEW j \in Jobs, RetryTask(j) PROVE Kept
  <2>1. PICK T \in SUBSET Retryable(j) : OpenSingle(row[j].lib, T) BY <1>2 DEF RetryTask
  <2>2. row[j].lib \in BOOLEAN /\ T \in SUBSET Songs BY Present DEF Retryable, Rows
  <2> QED BY <2>1, <2>2, OpenSingleKept
<1> QED BY <1>1, <1>2

LEMMA RunFlowKept == ASSUME BInv, NEW f \in Flows, RunFlow(f) PROVE Kept
<1>1. child' = child BY DEF RunFlow
<1>2. CASE Batch(f) = {} BY <1>1, <1>2, EmptyPlanKept DEF RunFlow
<1>3. CASE Batch(f) # {} BY <1>1, <1>3, NewBatchKept DEF RunFlow
<1> QED BY <1>2, <1>3

LEMMA RunNamedKept ==
  ASSUME BInv, NEW f \in Flows, NEW T \in SUBSET Songs, RunNamed(f, T) PROVE Kept
<1> DEFINE b == f = "library"
           R == NewRow(f, FALSE, b, T)
<1>1. PICK k \in FreeIds, n \in IdleLoops : StartFetchJob([row EXCEPT ![k] = R], ctl, loop, k, n)
  BY DEF RunNamed
<1>2. child' = child BY DEF RunNamed
<1>3. f \in Kinds /\ b \in BOOLEAN BY FetchAssumption DEF Kinds
<1>4. R \in Rows /\ R.items = NoItems /\ R.cnt = ZeroCounts
  <2> HIDE DEF b
  <2>1. R \in Rows BY <1>3, NewRowType
  <2>2. R.items = NoItems /\ R.cnt = ZeroCounts BY DEF NewRow, NoRow
  <2> QED BY <2>1, <2>2
<1> HIDE DEF R
<1> QED BY <1>1, <1>2, <1>4, NewJobKept

LEMMA FinishStopKept ==
  ASSUME BInv, NEW j \in Jobs, NEW hard \in BOOLEAN, FinishStop(j, hard) PROVE Kept
<1>1. CASE Driven(j)
  <2> DEFINE m == ctl[j]
  <2>1. m \in Loops BY <1>1, Present DEF Driven
  <2>2. /\ loop' = [loop EXCEPT ![m].hard = @ \/ hard, ![m].drain = @ \/ ~hard]
        /\ UNCHANGED <<row, child>>
    BY <1>1 DEF FinishStop
  <2> HIDE DEF m
  <2>3. \A n \in Loops : loop'[n].job = loop[n].job BY <2>1, <2>2, Present DEF LoopSt
  <2>4. \A n \in Loops : child[n].pc \in {"none", "boot"} => child[n].out = NoItems
    BY Present DEF Booked, Chunks
  <2> QED BY <2>2, <2>3, <2>4, SameKept
<1>2. CASE ~Driven(j)
  <2>1. row' = [row EXCEPT ![j].status = "cancelled"] /\ UNCHANGED <<loop, child>>
    BY <1>2 DEF FinishStop
  <2>2. \A i \in Jobs : row[i] \in Rows BY Present
  <2>3. \A i \in Jobs : row'[i].items = row[i].items /\ row'[i].cnt = row[i].cnt
    BY <2>1, <2>2, Present DEF Rows
  <2> QED BY <2>1, <2>3, RestKept
<1> QED BY <1>1, <1>2

\* A row that is dropped is finished, so no child works on it.
LEMMA DropRowsKept == ASSUME BInv, NEW S \in SUBSET Jobs, DropRows(S) PROVE Kept
<1>1. UNCHANGED <<loop, child>> BY DEF DropRows, proc
<1>2. ASSUME NEW i \in Jobs
      PROVE  \/ row'[i] = row[i]
             \/ row'[i] = NoRow /\ row[i].status \notin ActiveSt
  <2>1. CASE i \in S BY <2>1 DEF DropRows, TerminalSt, ActiveSt
  <2>2. CASE i \notin S BY <2>2 DEF DropRows
  <2> QED BY <2>1, <2>2
<1>3. NoRow.items = NoItems /\ NoRow.cnt = ZeroCounts /\ NoRow.status = "none" BY DEF NoRow
<1>4. Tallies(row') BY <1>2, <1>3, EmptyTallied, Present DEF Booked, Tallies
<1>5. ASSUME NEW n \in Loops, child[n].pc = "items" PROVE row'[loop[n].job] = row[loop[n].job]
  <2>1. loop[n].job \in Jobs /\ Served(row[loop[n].job], loop[n], child[n])
    BY <1>5, ServedNow DEF BInv
  <2> QED BY <1>2, <1>5, <2>1 DEF Served, Working
<1>6. Chunks(row', loop', child') BY <1>1, <1>5, Present DEF Booked, Chunks
<1>7. \A i \in Jobs : row'[i].status # "none" => Settled(i) BY <1>2, <1>3 DEF Settled
<1> QED BY <1>4, <1>6, <1>7 DEF Kept, Booked

LEMMA SchedulerKept == ASSUME BInv, NEW f \in Flows, SchedulerTick(f) PROVE Kept
<1>1. child' = child BY DEF SchedulerTick
<1>2. CASE ResumeSession(f)
  <2>1. CASE Batch(f) = {} BY <1>1, <1>2, <2>1, RestKept DEF ResumeSession
  <2>2. CASE Batch(f) # {} BY <1>1, <1>2, <2>2, NewBatchKept DEF ResumeSession
  <2> QED BY <2>1, <2>2
<1>3. CASE RunAutoOnce(f)
  <2>1. CASE Batch(f) = {} BY <1>1, <1>3, <2>1, EmptyPlanKept DEF RunAutoOnce
  <2>2. CASE Batch(f) # {} BY <1>1, <1>3, <2>2, NewBatchKept DEF RunAutoOnce
  <2> QED BY <2>1, <2>2
<1>4. CASE DropSession(f) BY <1>1, <1>4, RestKept DEF DropSession
<1> QED BY <1>2, <1>3, <1>4 DEF SchedulerTick

\* Whatever leaves rows, loops and children alone.
LEMMA QuietKept ==
  ASSUME BInv, \/ \E f \in Flows : ResetAttempts(f) \/ ComeDue(f)
               \/ \E f \in Flows, b \in BOOLEAN : SetAutoEnabled(f, b) \/ SetAutoContinue(f, b)
               \/ Remount \/ Boot \/ UNCHANGED vars
  PROVE  Kept
<1>1. UNCHANGED <<row, loop, child>>
  BY DEF ResetAttempts, ComeDue, SetAutoEnabled, SetAutoContinue, Remount, Boot, vars, db, proc
<1> QED BY <1>1, RestKept

LEMMA CrashKept == ASSUME BInv, Crash PROVE Kept
<1>1. row' = row /\ child' = [n \in Loops |-> NoChild] BY DEF Crash, db
<1>2. \A n \in Loops : child'[n].pc = "none" /\ child'[n].out = NoItems BY <1>1 DEF NoChild
<1> QED BY <1>1, <1>2, SameKept

LEMMA ResumeKept == ASSUME BInv, ResumeInterruptedFetchJobs PROVE Kept
<1>1. PICK at \in [Interrupted -> IdleLoops] :
        /\ \A i, j \in Interrupted : at[i] = at[j] => i = j
        /\ StartAll(row, ctl, loop, at)
  BY DEF ResumeInterruptedFetchJobs
<1>2. /\ DOMAIN at \subseteq Jobs
      /\ \A j \in DOMAIN at : at[j] \in Loops /\ loop[at[j]].pc = "idle"
      /\ \A i, j \in DOMAIN at : at[i] = at[j] => i = j
  BY <1>1 DEF Interrupted, ActiveIn, IdleLoops
<1>3. Booked(row', loop', child) /\ \A j \in Jobs : row'[j].items = row[j].items
  BY <1>1, <1>2, Present, StartBooked
<1>4. child' = child BY DEF ResumeInterruptedFetchJobs
<1> QED BY <1>3, <1>4 DEF Kept, Settled

-----------------------------------------------------------------------------
(* The theorems.                                                           *)

LEMMA InitBooked == Init => BInv
<1> SUFFICES ASSUME Init PROVE Booked(row, loop, child) BY InitServes DEF BInv
<1>1. \A j \in Jobs : row[j].items = NoItems /\ row[j].cnt = ZeroCounts BY DEF Init, NoRow
<1>2. \A n \in Loops : child[n].pc = "none" /\ child[n].out = NoItems BY DEF Init, NoChild
<1> QED BY <1>1, <1>2, EmptyTallied DEF Booked, Tallies, Chunks

LEMMA StepKept == ASSUME BInv, [Next]_vars PROVE Kept
<1>1. ASSUME NEW n \in Loops, ChildStep(n) PROVE Kept
  BY <1>1, ChildStartKept, ItemEndKept, FlushKept, ChunkSaveKept, ChunkStatusKept, SignalKept
  DEF ChildStep
<1>2. ASSUME NEW n \in Loops, LoopStep(n) PROVE Kept
  BY <1>2, GrantKept, ParentResultKept, ParentExitKept, WakeKept DEF LoopStep
<1>3. ASSUME NEW f \in Flows, SchedulerTick(f) PROVE Kept BY <1>3, SchedulerKept
<1>4. CASE ResumeInterruptedFetchJobs BY <1>4, ResumeKept
<1>5. CASE UserStep
  <2>1. CASE CreateTask BY <2>1, RequestKept
  <2>2. ASSUME NEW j \in Jobs, RetryTask(j) \/ Cancel(j) \/ ForceStop(j) PROVE Kept
    BY <2>2, RequestKept, FinishStopKept DEF Cancel, ForceStop
  <2>3. ASSUME NEW S \in SUBSET Jobs, DropRows(S) PROVE Kept BY <2>3, DropRowsKept
  <2>4. ASSUME NEW f \in Flows, RunFlow(f) PROVE Kept BY <2>4, RunFlowKept
  <2>5. ASSUME NEW f \in Flows, NEW T \in SUBSET Songs, RunNamed(f, T) PROVE Kept
    BY <2>5, RunNamedKept
  <2>6. ASSUME NEW f \in Flows, NEW b \in BOOLEAN,
               ResetAttempts(f) \/ SetAutoEnabled(f, b) \/ SetAutoContinue(f, b)
        PROVE  Kept
    BY <2>6, QuietKept
  <2> QED BY <1>5, <2>1, <2>2, <2>3, <2>4, <2>5, <2>6 DEF UserStep
<1>6. CASE Environment BY <1>6, QuietKept, CrashKept, SignalKept DEF Environment
<1>7. CASE Boot \/ UNCHANGED vars BY <1>7, QuietKept
<1> QED BY <1>1, <1>2, <1>3, <1>4, <1>5, <1>6, <1>7 DEF Next

LEMMA StepBooked == BInv /\ [Next]_vars => BInv'
BY StepServes, StepKept DEF BInv, Kept

\* The counts of a row always agree with its items: the chunk that adds its
\* counts to the copy it began with, the items that derive them again (onItem)
\* and the end of a stopped job count every song once, whatever deaths and
\* restarts come between these writes.
THEOREM CountsFollowItems == Spec => []CountsMatchItems
<1>1. BInv => CountsMatchItems BY DEF BInv, Booked, Tallies, Tallied, CountsMatchItems
<1> QED BY <1>1, InitBooked, StepBooked, PTL DEF Spec

\* A result that was settled in a row in service is never changed: not by the
\* end of the chunk, which writes the copy of the items it began with, nor by a
\* resumed run or the end of a stopped job.
THEOREM ResultsAreFinal == Spec => SettledItemsKept
<1>1. BInv /\ [Next]_vars =>
        [\A j \in Jobs : InService(j) /\ row'[j].status # "none" =>
           \A s \in Songs : row[j].items[s] \in SettledItem => row'[j].items[s] = row[j].items[s]]_vars
  BY StepKept DEF Kept, Settled
<1> QED BY <1>1, InitBooked, StepBooked, PTL DEF Spec, SettledItemsKept

=============================================================================
