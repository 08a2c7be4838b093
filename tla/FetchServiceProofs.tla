-------------------------- MODULE FetchServiceProofs --------------------------
(***************************************************************************)
(* Proof that no row of fetch_jobs is left active without a loop, that a   *)
(* verdict is not taken back, and that the batches of the chains run one   *)
(* at a time, for any number of jobs, loops, songs, any sizes of chunks    *)
(* and batches and any requests, deaths and restarts.                      *)
(***************************************************************************)
EXTENDS FetchJobsProofs

(***************************************************************************)
(* The inductive invariant, on the rows r, controllers c, loops l and      *)
(* children ch of a moment inside a handler.                               *)
(***************************************************************************)

\* The loop L with the child C still has work to do.
Working(L, C) ==
  \/ L.pc \in {"queue", "sleep"} \/ C.pc \in {"boot", "items", "saved"}
  \/ C.pc = "sent" /\ C.more

\* A loop that works has an active row and songs in its chunk; a child that
\* reports the last chunk has written the verdict before.
Served(R, L, C) ==
  /\ Working(L, C) => R.status \in ActiveSt /\ Slice(R.targets, L.chunk) # {}
  /\ C.pc \in {"items", "saved", "sent"} /\ C.more => HasMore(R.targets, L.chunk)
  /\ C.pc = "sent" /\ ~C.more => R.status \notin ActiveSt

AllServed(r, l, ch) == \A n \in Loops : l[n].pc # "idle" => Served(r[l[n].job], l[n], ch[n])

\* No active row is empty: its first chunk has songs when it is started.
Filled(r) == \A j \in Jobs : r[j].status \in ActiveSt => r[j].targets # {}

\* Every active row has a loop.
Manned(r, c) == \A j \in Jobs : r[j].status \in ActiveSt => c[j] # NoLoop

Service == AllServed(row, loop, child) /\ Filled(row) /\ (phase = "up" => Manned(row, ctl))
SInv    == IInv /\ Service

-----------------------------------------------------------------------------
(* Songs, ranks and chunks.                                                *)

\* The rank is the number of a song in its set, counted from 0.
LEMMA RankBounds ==
  ASSUME NEW T \in SUBSET Songs, NEW u \in T
  PROVE  Rank(u, T) \in 0..(Cardinality(T) - 1)
<1> DEFINE L == {t \in T : t < u}
<1>1. IsFiniteSet(T) /\ IsFiniteSet(L) /\ Cardinality(T) \in Nat /\ Cardinality(L) \in Nat
  BY SongsFinite, L \in SUBSET Songs
<1>2. u \in Nat BY FetchAssumption
<1>3. u \notin L BY <1>2
<1>4. Cardinality(L \cup {u}) = Cardinality(L) + 1 BY <1>1, <1>3, FS_AddElement
<1>5. L \cup {u} \in SUBSET T OBVIOUS
<1>6. Cardinality(L \cup {u}) <= Cardinality(T) BY <1>1, <1>5, FS_Subset
<1> HIDE DEF L
<1> QED BY <1>1, <1>4, <1>6 DEF Rank, L

LEMMA RankGrows ==
  ASSUME NEW T \in SUBSET Songs, NEW u \in T, NEW v \in T, u < v
  PROVE  Rank(u, T) < Rank(v, T)
<1> DEFINE L == {t \in T : t < u}
           M == {t \in T : t < v}
<1>1. IsFiniteSet(L) /\ IsFiniteSet(M) /\ Cardinality(L) \in Nat /\ Cardinality(M) \in Nat
  BY SongsFinite, L \in SUBSET Songs, M \in SUBSET Songs
<1>2. T \subseteq Nat BY FetchAssumption
<1>3. u \notin L /\ L \cup {u} \in SUBSET M
  <2>1. u \in Nat /\ v \in Nat BY <1>2
  <2>2. u \notin L BY <2>1
  <2>3. \A t \in L : t \in M BY <1>2, <2>1
  <2>4. u \in M OBVIOUS
  <2> QED BY <2>2, <2>3, <2>4
<1>4. Cardinality(L \cup {u}) = Cardinality(L) + 1 BY <1>1, <1>3, FS_AddElement
<1>5. Cardinality(L \cup {u}) <= Cardinality(M) BY <1>1, <1>3, FS_Subset
<1> HIDE DEF L, M
<1> QED BY <1>1, <1>4, <1>5 DEF Rank, L, M

\* Every rank below the number of songs is taken.
LEMMA RankTaken ==
  ASSUME NEW T \in SUBSET Songs, NEW c \in Nat, c < Cardinality(T)
  PROVE  \E u \in T : Rank(u, T) = c
<1> DEFINE N == 0..(Cardinality(T) - 1)
           f == [u \in T |-> Rank(u, T)]
<1>1. IsFiniteSet(T) /\ Cardinality(T) \in Nat BY SongsFinite
<1>2. IsFiniteSet(N) /\ Cardinality(N) = Cardinality(T)
  <2> DEFINE m == Cardinality(T) - 1
  <2>1. m \in Int /\ m >= 0 /\ m - 0 + 1 = Cardinality(T) BY <1>1
  <2> HIDE DEF m
  <2>2. 0 \in Int OBVIOUS
  <2>3. IsFiniteSet(0..m) /\ Cardinality(0..m) = IF 0 > m THEN 0 ELSE m - 0 + 1
    BY <2>1, <2>2, FS_Interval
  <2>4. Cardinality(0..m) = m - 0 + 1 BY <2>1, <2>3
  <2> QED BY <2>1, <2>3, <2>4 DEF m
<1>3. f \in [T -> N] BY RankBounds
<1>4. ASSUME NEW u \in T, NEW v \in T, f[u] = f[v] PROVE u = v
  <2>1. u \in Nat /\ v \in Nat BY FetchAssumption
  <2>2. Rank(u, T) \in Nat /\ Rank(v, T) \in Nat /\ Rank(u, T) = Rank(v, T)
    BY <1>1, <1>4, RankBounds
  <2>3. ~(u < v) /\ ~(v < u) BY <2>2, RankGrows
  <2> QED BY <2>1, <2>3
<1>5. f \in Injection(T, N) BY <1>3, <1>4 DEF Injection, IsInjective
<1>6. f \in Surjection(T, N) BY <1>1, <1>2, <1>5, FS_Injection
<1>7. c \in N BY <1>1
<1>8. \E u \in T : f[u] = c BY <1>6, <1>7 DEF Surjection
<1> QED BY <1>8

LEMMA SliceTaken ==
  ASSUME NEW T \in SUBSET Songs, NEW c \in Nat, c * ChunkSize < Cardinality(T)
  PROVE  Slice(T, c) # {}
<1>1. ChunkSize \in Nat /\ ChunkSize >= 1 BY FetchAssumption
<1>2. c * ChunkSize \in Nat /\ (c + 1) * ChunkSize = c * ChunkSize + ChunkSize BY <1>1
<1>3. PICK u \in T : Rank(u, T) = c * ChunkSize BY <1>2, RankTaken
<1>4. u \in Slice(T, c) BY <1>1, <1>2, <1>3 DEF Slice
<1> QED BY <1>4

LEMMA Positive == ASSUME NEW T \in SUBSET Songs, T # {} PROVE Cardinality(T) \in Nat /\ 0 < Cardinality(T)
BY SongsFinite, FS_EmptySet

\* The first chunk of a job has songs, and so has the next one if there is more.
LEMMA FirstChunk == ASSUME NEW T \in SUBSET Songs, T # {} PROVE Slice(T, 0) # {}
<1>1. 0 * ChunkSize = 0 BY FetchAssumption
<1> QED BY <1>1, Positive, SliceTaken

LEMMA NextChunk ==
  ASSUME NEW T \in SUBSET Songs, NEW c \in Nat, HasMore(T, c) PROVE Slice(T, c + 1) # {}
<1>1. (c + 1) * ChunkSize \in Nat /\ Cardinality(T) \in Nat BY FetchAssumption, SongsFinite
<1>2. (c + 1) * ChunkSize < Cardinality(T) BY <1>1 DEF HasMore
<1> QED BY <1>2, SliceTaken

\* A plan takes something from a pool that has something.
LEMMA BatchTaken == ASSUME TypeOK, NEW f \in Flows, Pool(f) # {} PROVE Batch(f) # {}
<1>1. Pool(f) \in SUBSET Songs BY DEF Pool
<1>2. PICK u \in Pool(f) : Rank(u, Pool(f)) = 0 BY <1>1, Positive, RankTaken
<1>3. u \in Batch(f) BY <1>2, FetchAssumption DEF Batch, First
<1> QED BY <1>3

-----------------------------------------------------------------------------
(* Starting jobs and leaving loops.                                        *)

\* What a start makes of the loops.
LEMMA StartedLoops ==
  ASSUME NEW r, NEW c \in [Jobs -> Loops \cup {NoLoop}], NEW l \in [Loops -> LoopSt],
         NEW at, DOMAIN at \subseteq Jobs, \A j \in DOMAIN at : at[j] \in Loops,
         \A i, j \in DOMAIN at : at[i] = at[j] => i = j,
         StartAll(r, c, l, at), writable
  PROVE  \A n \in Loops :
           \/ loop'[n] = l[n]
           \/ \E j \in DOMAIN at : at[j] = n /\ loop'[n].job = j /\ loop'[n].chunk = 0
<1> DEFINE S == {j \in DOMAIN at : c[j] = NoLoop}
<1>1. loop' = [n \in Loops |->
                 IF \E j \in S : at[j] = n
                 THEN [IdleLoop EXCEPT !.job = CHOOSE j \in S : at[j] = n, !.pc = "queue"]
                 ELSE l[n]]
  BY DEF StartAll
<1> SUFFICES ASSUME NEW n \in Loops, NEW j \in S, at[j] = n
             PROVE  loop'[n].job = j /\ loop'[n].chunk = 0
  BY <1>1
<1>2. (CHOOSE i \in S : at[i] = n) = j OBVIOUS
<1>3. loop'[n] = [IdleLoop EXCEPT !.job = j, !.pc = "queue"] BY <1>1, <1>2
<1> QED BY <1>3 DEF IdleLoop

\* A start of active jobs: whoever is started has songs in the first chunk; if
\* the preflight fails the rows are no longer active, and the loops that ran
\* keep theirs.
LEMMA StartAllServes ==
  ASSUME NEW r \in [Jobs -> Rows], NEW c \in [Jobs -> Loops \cup {NoLoop}],
         NEW l \in [Loops -> LoopSt], NEW ch, Fit(c, l), ChildrenFit(ch, l),
         AllServed(r, l, ch), Filled(r), NEW at, DOMAIN at \subseteq Jobs,
         \A j \in DOMAIN at : at[j] \in Loops /\ l[at[j]].pc = "idle" /\ r[j].status \in ActiveSt,
         \A i, j \in DOMAIN at : at[i] = at[j] => i = j,
         StartAll(r, c, l, at)
  PROVE  /\ AllServed(row', loop', ch) /\ Filled(row')
         /\ \A j \in Jobs : row'[j].status \in ActiveSt =>
              /\ r[j].status \in ActiveSt
              /\ j \in DOMAIN at \/ c[j] # NoLoop => ctl'[j] # NoLoop
<1>0. \A j \in DOMAIN at : at[j] \in Loops OBVIOUS
<1> DEFINE S == {j \in DOMAIN at : c[j] = NoLoop}
<1>1. CASE writable
  <2>1. row' = r /\ ctl' = [j \in Jobs |-> IF j \in S THEN at[j] ELSE c[j]]
    BY <1>1 DEF StartAll
  <2>2. ASSUME NEW n \in Loops, loop'[n].pc # "idle"
        PROVE  Served(row'[loop'[n].job], loop'[n], ch[n])
    <3>1. CASE loop'[n] = l[n] BY <2>1, <2>2, <3>1 DEF AllServed
    <3>2. ASSUME NEW j \in DOMAIN at, at[j] = n,
                 loop'[n].job = j, loop'[n].chunk = 0
          PROVE  Served(row'[loop'[n].job], loop'[n], ch[n])
      <4>2. ch[n].pc = "none" BY <3>2 DEF ChildrenFit
      <4>3. j \in Jobs /\ r[j] \in Rows /\ r[j].status \in ActiveSt OBVIOUS
      <4>4. r[j].targets \in SUBSET Songs /\ r[j].targets # {} BY <4>3 DEF Rows, Filled
      <4>5. Slice(r[j].targets, 0) # {} BY <4>4, FirstChunk
      <4> QED BY <2>1, <3>2, <4>2, <4>3, <4>5 DEF Served, Working
    <3>3. \/ loop'[n] = l[n]
          \/ \E j \in DOMAIN at : at[j] = n /\ loop'[n].job = j /\ loop'[n].chunk = 0
      BY <1>0, <1>1, StartedLoops
    <3> QED BY <3>1, <3>2, <3>3
  <2>3. \A j \in Jobs : j \in DOMAIN at \/ c[j] # NoLoop => ctl'[j] # NoLoop
    BY <2>1, FetchAssumption
  <2> QED BY <2>1, <2>2, <2>3 DEF AllServed
<1>2. CASE ~writable
  <2>1. /\ row' = [j \in Jobs |-> IF j \in S THEN [r[j] EXCEPT !.status = "failed"] ELSE r[j]]
        /\ ctl' = c /\ loop' = l
    BY <1>2 DEF StartAll
  <2>2. \A j \in S : row'[j].status \notin ActiveSt
    <3> SUFFICES ASSUME NEW j \in S PROVE row'[j].status \notin ActiveSt OBVIOUS
    <3>1. r[j] \in Rows /\ row'[j] = [r[j] EXCEPT !.status = "failed"] BY <2>1
    <3> QED BY <3>1 DEF Rows, ActiveSt
  <2>3. \A j \in Jobs \ S : row'[j] = r[j] BY <2>1
  <2>4. \A n \in Loops : l[n].pc # "idle" => l[n].job \in Jobs \ S
    BY FetchAssumption DEF Fit, LoopSt
  <2> HIDE DEF S
  <2>5. AllServed(row', loop', ch) BY <2>1, <2>3, <2>4 DEF AllServed
  <2>6. Filled(row') BY <2>2, <2>3 DEF Filled
  <2>7. ASSUME NEW j \in Jobs, row'[j].status \in ActiveSt
        PROVE  r[j].status \in ActiveSt /\ (j \in DOMAIN at \/ c[j] # NoLoop => ctl'[j] # NoLoop)
    <3>1. j \notin S BY <2>2, <2>7
    <3> QED BY <2>1, <2>3, <2>7, <3>1 DEF S
  <2> QED BY <2>5, <2>6, <2>7
<1> QED BY <1>1, <1>2

\* A new row with songs, started in the same step.
LEMMA NewJobServes ==
  ASSUME NEW r \in [Jobs -> Rows], NEW c \in [Jobs -> Loops \cup {NoLoop}],
         NEW l \in [Loops -> LoopSt], NEW ch, Fit(c, l), ChildrenFit(ch, l),
         AllServed(r, l, ch), Filled(r),
         NEW k \in Jobs, \A m \in Loops : l[m].job # k, NEW n \in Loops, l[n].pc = "idle",
         NEW R \in Rows, R.status = "pending", R.targets # {},
         StartFetchJob([r EXCEPT ![k] = R], c, l, k, n)
  PROVE  AllServed(row', loop', ch) /\ Filled(row') /\ (Manned(r, c) => Manned(row', ctl'))
<1> DEFINE q == [r EXCEPT ![k] = R]
           at == [j \in {k} |-> n]
<1>1. q \in [Jobs -> Rows] /\ q[k] = R /\ \A j \in Jobs \ {k} : q[j] = r[j] OBVIOUS
<1>2. StartAll(q, c, l, at) BY DEF StartFetchJob
<1>3. DOMAIN at = {k} /\ at[k] = n OBVIOUS
<1> HIDE DEF q, at
<1>4. AllServed(q, l, ch)
  <2>1. \A m \in Loops : l[m].pc # "idle" => l[m].job \in Jobs \ {k} BY DEF Fit, LoopSt
  <2> QED BY <1>1, <2>1 DEF AllServed
<1>5. Filled(q) BY <1>1 DEF Filled
<1>6. \A j \in DOMAIN at : at[j] \in Loops /\ l[at[j]].pc = "idle" /\ q[j].status \in ActiveSt
  BY <1>1, <1>3 DEF ActiveSt
<1>7. DOMAIN at \subseteq Jobs /\ \A i, j \in DOMAIN at : at[i] = at[j] => i = j BY <1>3
<1>8. /\ AllServed(row', loop', ch) /\ Filled(row')
      /\ \A j \in Jobs : row'[j].status \in ActiveSt =>
           /\ q[j].status \in ActiveSt
           /\ j \in DOMAIN at \/ c[j] # NoLoop => ctl'[j] # NoLoop
  BY <1>1, <1>2, <1>4, <1>5, <1>6, <1>7, StartAllServes
<1>9. ASSUME Manned(r, c) PROVE Manned(row', ctl')
  <2> SUFFICES ASSUME NEW j \in Jobs, row'[j].status \in ActiveSt PROVE ctl'[j] # NoLoop
    BY DEF Manned
  <2>1. CASE j = k BY <1>3, <1>8, <2>1
  <2>2. CASE j # k
    <3>1. r[j].status \in ActiveSt BY <1>1, <1>8, <2>2
    <3>2. c[j] # NoLoop BY <1>9, <3>1 DEF Manned
    <3> QED BY <1>8, <3>2
  <2> QED BY <2>1, <2>2
<1> QED BY <1>8, <1>9

\* A batch of a chain with songs.
LEMMA BatchServes ==
  ASSUME TypeOK, NEW f \in Flows, Batch(f) # {},
         NEW r \in [Jobs -> Rows], NEW c \in [Jobs -> Loops \cup {NoLoop}],
         NEW l \in [Loops -> LoopSt], NEW ch, Fit(c, l), ChildrenFit(ch, l),
         AllServed(r, l, ch), Filled(r),
         NEW k \in Jobs, \A m \in Loops : l[m].job # k, NEW n \in Loops, l[n].pc = "idle",
         OpenBatch(f, r, c, l, k, n)
  PROVE  AllServed(row', loop', ch) /\ Filled(row') /\ (Manned(r, c) => Manned(row', ctl'))
<1> DEFINE T == Batch(f)
           b == f = "library"
           R == NewRow(f, TRUE, b, T)
<1>1. f \in Kinds /\ T \in SUBSET Songs /\ b \in BOOLEAN /\ T # {}
  BY FetchAssumption, BatchType DEF Kinds
<1>2. R \in Rows /\ R.status = "pending" /\ R.targets # {}
  <2> HIDE DEF T, b
  <2>1. R \in Rows BY <1>1, NewRowType
  <2>2. R.status = "pending" /\ R.targets = T BY DEF NewRow, NoRow
  <2> QED BY <1>1, <2>1, <2>2
<1>3. StartFetchJob([r EXCEPT ![k] = R], c, l, k, n) BY DEF OpenBatch
<1> HIDE DEF R
<1> QED BY <1>2, <1>3, NewJobServes

\* A loop that leaves with its row at an end takes nothing from the others.
LEMMA LeaveServes ==
  ASSUME SInv, NEW n \in Loops, loop[n].pc # "idle", NEW r \in [Jobs -> Rows],
         \A i \in Jobs \ {loop[n].job} : r[i] = row[i], r[loop[n].job].status \notin ActiveSt
  PROVE  /\ AllServed(r, [loop EXCEPT ![n] = IdleLoop], [child EXCEPT ![n] = NoChild])
         /\ Filled(r)
         /\ Manned(row, ctl) => Manned(r, [ctl EXCEPT ![loop[n].job] = NoLoop])
<1> DEFINE j == loop[n].job
           l == [loop EXCEPT ![n] = IdleLoop]
           ch == [child EXCEPT ![n] = NoChild]
           c == [ctl EXCEPT ![j] = NoLoop]
<1>1. j \in Jobs /\ ctl[j] = n BY DEF SInv, IInv, TypeOK, LoopSt, Wiring
<1>2. ASSUME NEW m \in Loops, l[m].pc # "idle" PROVE Served(r[l[m].job], l[m], ch[m])
  <2>1. m # n BY <1>2 DEF SInv, IInv, TypeOK, IdleLoop
  <2>2. l[m] = loop[m] /\ ch[m] = child[m] BY <2>1 DEF SInv, IInv, TypeOK
  <2>3. loop[m].job \in Jobs BY <1>2, <2>2 DEF SInv, IInv, TypeOK, LoopSt, Wiring
  <2>4. loop[m].job # j BY <1>1, <2>1, <2>3, FetchAssumption DEF SInv, IInv, Wiring
  <2>5. Served(row[loop[m].job], loop[m], child[m])
    BY <1>2, <2>2 DEF SInv, Service, AllServed
  <2> QED BY <2>2, <2>3, <2>4, <2>5
<1>3. Filled(r) BY DEF SInv, Service, Filled
<1>4. ASSUME Manned(row, ctl) PROVE Manned(r, c)
  BY <1>1, <1>4 DEF Manned, SInv, IInv, TypeOK
<1> QED BY <1>2, <1>3, <1>4 DEF AllServed

\* finalizeDrainedFetchJob ends the row and touches no other.
LEMMA FinalizeEnds ==
  ASSUME NEW r \in [Jobs -> Rows], NEW j \in Jobs
  PROVE  LET rf == FinalizeDrainedFetchJob(r, j)
         IN  rf[j].status \notin ActiveSt /\ \A i \in Jobs \ {j} : rf[i] = r[i]
<1> DEFINE rf == FinalizeDrainedFetchJob(r, j)
           missing == {s \in r[j].targets : r[j].items[s] = "none"}
           items == [s \in Songs |-> IF s \in missing THEN "cancelled" ELSE r[j].items[s]]
           total == IF missing = {} THEN r[j].cnt.total ELSE Cardinality(r[j].targets)
<1>1. CASE r[j].status = "none" BY <1>1 DEF FinalizeDrainedFetchJob, ActiveSt
<1>2. CASE r[j].status # "none"
  <2>1. rf = [r EXCEPT ![j].status = FinalStatus(@), ![j].items = items, ![j].cnt.total = total]
    BY <1>2 DEF FinalizeDrainedFetchJob
  <2> HIDE DEF rf, items, total
  <2>2. rf[j].status = FinalStatus(r[j].status) /\ \A i \in Jobs \ {j} : rf[i] = r[i]
    BY <2>1 DEF Rows
  <2>3. FinalStatus(r[j].status) \notin ActiveSt BY DEF FinalStatus, ActiveSt
  <2> QED BY <2>2, <2>3 DEF rf
<1> QED BY <1>1, <1>2

\* The hooks at the end of a loop.
LEMMA MaybeContinueServes ==
  ASSUME SInv, NEW r \in [Jobs -> Rows], NEW c \in [Jobs -> Loops \cup {NoLoop}],
         NEW l \in [Loops -> LoopSt], NEW ch, Fit(c, l), ChildrenFit(ch, l),
         AllServed(r, l, ch), Filled(r),
         NEW n \in Loops, l = [loop EXCEPT ![n] = IdleLoop],
         NEW j, NEW hard, MaybeContinue(r, c, l, j, hard)
  PROVE  AllServed(row', loop', ch) /\ Filled(row') /\ (Manned(r, c) => Manned(row', ctl'))
<1>1. CASE ChainGoesOn(r, j, hard)
  <2> DEFINE f == r[j].kind
  <2>1. f \in Flows /\ Pool(f) # {} BY <1>1 DEF ChainGoesOn, ChainEnds, InChain
  <2>2. PICK k \in FreeIds \ {j}, m \in {i \in Loops : l[i].pc = "idle"} : OpenBatch(f, r, c, l, k, m)
    BY <1>1 DEF MaybeContinue
  <2>3. TypeOK BY DEF SInv, IInv
  <2>4. k \in Jobs /\ \A i \in Loops : l[i].job # k
    <3>1. k \in Jobs /\ \A i \in Loops : loop[i].job # k BY DEF FreeIds
    <3>2. l[n].job = NoJob BY <2>3 DEF TypeOK, IdleLoop
    <3>3. \A i \in Loops \ {n} : l[i] = loop[i] BY <2>3 DEF TypeOK
    <3> QED BY <3>1, <3>2, <3>3, FetchAssumption
  <2> HIDE DEF f
  <2>5. Batch(f) # {} BY <2>1, <2>3, BatchTaken
  <2> QED BY <2>1, <2>2, <2>3, <2>4, <2>5, BatchServes
<1>2. CASE ~ChainGoesOn(r, j, hard)
  BY <1>2 DEF MaybeContinue
<1> QED BY <1>1, <1>2

\* A loop leaves only with its row at an end, or writes the end itself.
LEMMA SettleServes ==
  ASSUME SInv, NEW n \in Loops, loop[n].pc # "idle", NEW r \in [Jobs -> Rows], Settle(n, r),
         \A i \in Jobs \ {loop[n].job} : r[i] = row[i],
         r[loop[n].job].status \in ActiveSt => loop[n].hard \/ loop[n].drain
  PROVE  Service'
<1> DEFINE j  == loop[n].job
           c  == [ctl EXCEPT ![j] = NoLoop]
           l  == [loop EXCEPT ![n] = IdleLoop]
           ch == [child EXCEPT ![n] = NoChild]
           rf == IF loop[n].hard \/ loop[n].drain THEN FinalizeDrainedFetchJob(r, j) ELSE r
<1>1. j \in Jobs BY DEF SInv, IInv, TypeOK, LoopSt, Wiring
<1>2. rf \in [Jobs -> Rows] BY <1>1, FinalizeType
<1>3. rf[j].status \notin ActiveSt /\ \A i \in Jobs \ {j} : rf[i] = row[i]
  BY <1>1, FinalizeEnds
<1>4. c \in [Jobs -> Loops \cup {NoLoop}] /\ l \in [Loops -> LoopSt]
  BY <1>1, NoChildType DEF SInv, IInv, TypeOK
<1>5. Fit(c, l) /\ ChildrenFit(ch, l) BY LeaveFit DEF SInv, IInv
<1> HIDE DEF rf
<1>6. AllServed(rf, l, ch) /\ Filled(rf) /\ (Manned(row, ctl) => Manned(rf, c))
  BY <1>2, <1>3, LeaveServes
<1>7. MaybeContinue(rf, c, l, j, loop[n].hard) /\ child' = ch /\ phase' = phase
  BY DEF Settle, rf
<1>8. AllServed(row', loop', ch) /\ Filled(row') /\ (Manned(rf, c) => Manned(row', ctl'))
  <2> DEFINE x == l
             hard == loop[n].hard
  <2>1. x = [loop EXCEPT ![n] = IdleLoop] OBVIOUS
  <2> HIDE DEF c, l, ch, j, hard
  <2> QED BY <1>2, <1>4, <1>5, <1>6, <1>7, <2>1, MaybeContinueServes DEF hard
<1> HIDE DEF c, l, ch
<1> QED BY <1>6, <1>7, <1>8 DEF SInv, Service

-----------------------------------------------------------------------------
(* The child and the loop.                                                 *)

\* A child changes its own row only, never the songs it was given, and never
\* makes an ended row active again.
LEMMA ChildServes ==
  ASSUME SInv, NEW n \in Loops, child[n].pc # "none", ChildOnly,
         \A i \in Jobs \ {loop[n].job} : row'[i] = row[i],
         row'[loop[n].job].targets = row[loop[n].job].targets,
         row'[loop[n].job].status \in ActiveSt => row[loop[n].job].status \in ActiveSt,
         \A m \in Loops \ {n} : child'[m] = child[m],
         Served(row'[loop[n].job], loop[n], child'[n])
  PROVE  Service'
<1> DEFINE j == loop[n].job
<1>1. loop' = loop /\ ctl' = ctl /\ phase' = phase BY DEF ChildOnly
<1>2. \A m \in Loops \ {n} : loop[m].pc # "idle" => loop[m].job \in Jobs \ {j}
  BY FetchAssumption DEF SInv, IInv, TypeOK, LoopSt, Wiring
<1>3. AllServed(row', loop', child')
  BY <1>1, <1>2 DEF AllServed, SInv, Service
<1>4. Filled(row') BY DEF Filled, SInv, Service
<1>5. Manned(row, ctl) => Manned(row', ctl') BY <1>1 DEF Manned
<1> QED BY <1>1, <1>3, <1>4, <1>5 DEF SInv, Service

LEMMA ServedNow ==
  ASSUME SInv, NEW n \in Loops, child[n].pc # "none"
  PROVE  /\ loop[n].job \in Jobs /\ row[loop[n].job] \in Rows /\ child[n] \in ChildSt
         /\ Served(row[loop[n].job], loop[n], child[n])
<1>1. loop[n].pc # "idle" BY DEF SInv, IInv, Wiring
<1> QED BY <1>1, ChildHasJob DEF SInv, Service, AllServed

\* The same status, songs and chunk, and a child where it was.
LEMMA SameServed ==
  ASSUME NEW L, NEW Q, NEW C, Served(Q, L, C), NEW R, NEW D,
         R.status = Q.status, R.targets = Q.targets, D.pc = C.pc, D.more = C.more
  PROVE  Served(R, L, D)
BY DEF Served, Working

LEMMA VerdictEnds == ASSUME NEW c, NEW b PROVE Verdict(c, b) \notin ActiveSt
BY DEF Verdict, ActiveSt

LEMMA ChildStartServes == ASSUME SInv, NEW n \in Loops, ChildStart(n) PROVE Service'
<1> DEFINE j == loop[n].job
           r == row[j]
           slice == Slice(r.targets, loop[n].chunk)
           todo == Todo(r, loop[n].chunk)
           more == HasMore(r.targets, loop[n].chunk)
           st == IF slice # {} /\ todo = {} /\ ~more
                 THEN Verdict(r.cnt, child[n].abort \/ child[n].drain)
                 ELSE IF loop[n].chunk = 0 THEN "running" ELSE r.status
           pc == IF todo = {} THEN "sent" ELSE "items"
<1>1. child[n].pc = "boot" BY DEF ChildStart
<1>2. j \in Jobs /\ r \in Rows /\ child[n] \in ChildSt /\ Served(r, loop[n], child[n])
  BY <1>1, ServedNow
<1>3. r.status \in ActiveSt /\ slice # {} BY <1>1, <1>2 DEF Served, Working
<1>4. /\ row' = [row EXCEPT ![j].status = st]
      /\ child' = [child EXCEPT ![n].pc = pc, ![n].items = r.items, ![n].cnt = r.cnt,
                                ![n].todo = todo, ![n].more = more]
      /\ ChildOnly
  BY <1>3 DEF ChildStart
<1>5. st \in ActiveSt \/ (todo = {} /\ ~more /\ st \notin ActiveSt)
  BY <1>3, VerdictEnds DEF ActiveSt
<1>6. more = HasMore(r.targets, loop[n].chunk) /\ slice = Slice(r.targets, loop[n].chunk) OBVIOUS
<1>7. todo = {} /\ ~more => st \notin ActiveSt BY <1>3, VerdictEnds
<1> HIDE DEF slice, todo, more, st
<1>8. /\ row'[j].status = st /\ row'[j].targets = r.targets
      /\ \A i \in Jobs \ {j} : row'[i] = row[i]
  BY <1>2, <1>4 DEF SInv, IInv, TypeOK, Rows
<1>9. /\ child'[n].pc = pc /\ child'[n].more = more
      /\ \A m \in Loops \ {n} : child'[m] = child[m]
  BY <1>2, <1>4 DEF SInv, IInv, TypeOK, ChildSt
<1>10. Served(row'[j], loop[n], child'[n])
  <2>1. Working(loop[n], child'[n]) => row'[j].status \in ActiveSt /\ slice # {}
    <3>1. loop[n].pc = "child" BY <1>1 DEF SInv, IInv, Wiring
    <3> QED BY <1>3, <1>5, <1>8, <1>9, <3>1 DEF Working
  <2>2. child'[n].more => HasMore(row'[j].targets, loop[n].chunk) BY <1>6, <1>8, <1>9
  <2>3. child'[n].pc = "sent" /\ ~child'[n].more => row'[j].status \notin ActiveSt
    BY <1>7, <1>8, <1>9
  <2> QED BY <1>6, <1>8, <2>1, <2>2, <2>3 DEF Served
<1> QED BY <1>1, <1>3, <1>4, <1>8, <1>9, <1>10, ChildServes

LEMMA OnItemKeeps ==
  ASSUME SInv, NEW n \in Loops, child[n].pc # "none", NEW S, NEW out, OnItem(n, S, out)
  PROVE  /\ row'[loop[n].job].status = row[loop[n].job].status
         /\ row'[loop[n].job].targets = row[loop[n].job].targets
         /\ \A i \in Jobs \ {loop[n].job} : row'[i] = row[i]
<1> DEFINE j == loop[n].job
           items == [s \in Songs |-> IF s \in S THEN Stored(out[s]) ELSE row[j].items[s]]
           cnt == Recount(items, row[j].targets)
<1>1. j \in Jobs /\ row[j] \in Rows BY ServedNow
<1>2. row' = IF S = {} THEN row ELSE [row EXCEPT ![j].items = items, ![j].cnt = cnt]
  BY DEF OnItem
<1> HIDE DEF items, cnt
<1> QED BY <1>1, <1>2 DEF SInv, IInv, TypeOK, Rows

LEMMA WorkServes ==
  ASSUME SInv, NEW n \in Loops,
         \/ \E s \in Songs, o \in Outcomes \cup {"cancelled"} : ItemEnd(n, s, o)
         \/ Flush(n) \/ DeliverStop(n)
  PROVE  Service'
<1> DEFINE j == loop[n].job
<1>1. child[n].pc # "none" /\ ChildOnly BY DEF ItemEnd, Flush, DeliverStop
<1>2. j \in Jobs /\ row[j] \in Rows /\ child[n] \in ChildSt /\ Served(row[j], loop[n], child[n])
  BY <1>1, ServedNow
<1>3. /\ row'[j].status = row[j].status /\ row'[j].targets = row[j].targets
      /\ \A i \in Jobs \ {j} : row'[i] = row[i]
  <2>1. CASE DeliverStop(n) BY <2>1 DEF DeliverStop
  <2>2. CASE ~DeliverStop(n)
    <3>1. PICK S, out : OnItem(n, S, out) BY <2>2 DEF ItemEnd, Flush
    <3> QED BY <1>1, <3>1, OnItemKeeps
  <2> QED BY <2>1, <2>2
<1>4. /\ child'[n].pc = child[n].pc /\ child'[n].more = child[n].more
      /\ \A m \in Loops \ {n} : child'[m] = child[m]
  <2>1. CASE child' = child BY <2>1
  <2>2. ASSUME NEW s \in Songs, NEW o, child' = [child EXCEPT ![n].out[s] = o]
        PROVE  /\ child'[n].pc = child[n].pc /\ child'[n].more = child[n].more
               /\ \A m \in Loops \ {n} : child'[m] = child[m]
    <3> DEFINE out == [child[n].out EXCEPT ![s] = o]
    <3>1. child' = [child EXCEPT ![n] = [child[n] EXCEPT !.out = out]] BY <2>2
    <3> HIDE DEF out
    <3> QED BY <1>2, <3>1 DEF SInv, IInv, TypeOK, ChildSt
  <2>3. CASE child' = [child EXCEPT ![n].abort = TRUE] \/ child' = [child EXCEPT ![n].drain = TRUE]
    BY <1>2, <2>3 DEF SInv, IInv, TypeOK, ChildSt
  <2> QED BY <2>1, <2>2, <2>3 DEF ItemEnd, Flush, DeliverStop
<1>5. Served(row'[j], loop[n], child'[n]) BY <1>2, <1>3, <1>4, SameServed
<1> QED BY <1>1, <1>3, <1>4, <1>5, ChildServes

LEMMA ChunkSaveServes == ASSUME SInv, NEW n \in Loops, ChunkSave(n) PROVE Service'
<1> DEFINE j == loop[n].job
           items == MergeItems(child[n].items, child[n].out)
           cnt == AddCounts(child[n].cnt, child[n].todo, child[n].out)
<1>1. /\ child[n].pc = "items" /\ child' = [child EXCEPT ![n].pc = "saved"]
      /\ row' = [row EXCEPT ![j].items = items, ![j].cnt = cnt] /\ ChildOnly
  BY DEF ChunkSave
<1>2. j \in Jobs /\ row[j] \in Rows /\ child[n] \in ChildSt /\ Served(row[j], loop[n], child[n])
  BY <1>1, ServedNow
<1> HIDE DEF items, cnt
<1>3. /\ row'[j].status = row[j].status /\ row'[j].targets = row[j].targets
      /\ \A i \in Jobs \ {j} : row'[i] = row[i]
  BY <1>1, <1>2 DEF SInv, IInv, TypeOK, Rows
<1>4. /\ child'[n].pc = "saved" /\ child'[n].more = child[n].more
      /\ \A m \in Loops \ {n} : child'[m] = child[m]
  BY <1>1, <1>2 DEF SInv, IInv, TypeOK, ChildSt
<1>5. Served(row'[j], loop[n], child'[n]) BY <1>1, <1>2, <1>3, <1>4 DEF Served, Working
<1> QED BY <1>1, <1>3, <1>4, <1>5, ChildServes

LEMMA ChunkStatusServes == ASSUME SInv, NEW n \in Loops, ChunkStatus(n) PROVE Service'
<1> DEFINE j == loop[n].job
           st == Verdict(row[j].cnt, child[n].abort \/ child[n].drain)
<1>1. /\ child[n].pc = "saved" /\ child' = [child EXCEPT ![n].pc = "sent"]
      /\ row' = IF child[n].more THEN row ELSE [row EXCEPT ![j].status = st]
      /\ ChildOnly
  BY DEF ChunkStatus
<1>2. j \in Jobs /\ row[j] \in Rows /\ child[n] \in ChildSt /\ Served(row[j], loop[n], child[n])
  BY <1>1, ServedNow
<1>3. st \notin ActiveSt BY VerdictEnds
<1> HIDE DEF st
<1>4. /\ row'[j].status = IF child[n].more THEN row[j].status ELSE st
      /\ row'[j].targets = row[j].targets
      /\ \A i \in Jobs \ {j} : row'[i] = row[i]
  BY <1>1, <1>2 DEF SInv, IInv, TypeOK, Rows
<1>5. /\ child'[n].pc = "sent" /\ child'[n].more = child[n].more
      /\ \A m \in Loops \ {n} : child'[m] = child[m]
  BY <1>1, <1>2 DEF SInv, IInv, TypeOK, ChildSt
<1>6. loop[n].pc = "child" BY <1>1 DEF SInv, IInv, Wiring
<1>7. Served(row'[j], loop[n], child'[n])
  BY <1>1, <1>2, <1>3, <1>4, <1>5, <1>6 DEF Served, Working
<1> QED BY <1>1, <1>3, <1>4, <1>5, <1>7, ChildServes

\* A step of a loop that goes on with the same job.
LEMMA LoopServes ==
  ASSUME SInv, NEW n \in Loops, UNCHANGED <<phase, row, ctl>>, loop[n].pc # "idle",
         loop'[n].job = loop[n].job, Served(row[loop[n].job], loop'[n], child'[n]),
         \A m \in Loops \ {n} : loop'[m] = loop[m] /\ child'[m] = child[m]
  PROVE  Service'
<1>1. AllServed(row', loop', child') BY DEF AllServed, SInv, Service
<1> QED BY <1>1 DEF SInv, Service

LEMMA GrantServes == ASSUME SInv, NEW n \in Loops, Grant(n) PROVE Service'
<1>1. /\ loop[n].pc = "queue" /\ loop' = [loop EXCEPT ![n].pc = "child"]
      /\ child' = [child EXCEPT ![n].pc = "boot"] /\ UNCHANGED <<phase, row, ctl>>
  BY DEF Grant, db
<1>2. loop[n] \in LoopSt /\ child[n] \in ChildSt BY DEF SInv, IInv, TypeOK
<1>3. /\ loop'[n].job = loop[n].job /\ loop'[n].chunk = loop[n].chunk /\ child'[n].pc = "boot"
      /\ \A m \in Loops \ {n} : loop'[m] = loop[m] /\ child'[m] = child[m]
  BY <1>1, <1>2 DEF SInv, IInv, TypeOK, LoopSt, ChildSt
<1>4. Served(row[loop[n].job], loop[n], child[n]) BY <1>1 DEF SInv, Service, AllServed
<1>5. Served(row[loop[n].job], loop'[n], child'[n]) BY <1>1, <1>3, <1>4 DEF Served, Working
<1> QED BY <1>1, <1>3, <1>5, LoopServes

LEMMA ParentResultServes == ASSUME SInv, NEW n \in Loops, ParentResult(n) PROVE Service'
<1> DEFINE j == loop[n].job
           T == row[j].targets
<1>1. child[n].pc = "sent" /\ loop[n].pc = "child" BY DEF ParentResult, SInv, IInv, Wiring
<1>2. /\ j \in Jobs /\ row[j] \in Rows /\ child[n] \in ChildSt /\ loop[n] \in LoopSt
      /\ Served(row[j], loop[n], child[n])
  BY <1>1, ServedNow DEF SInv, IInv, TypeOK
<1>3. CASE (loop[n].drain \/ ~child[n].more) /\ Settle(n, row)
  <2>1. row[j].status \in ActiveSt => loop[n].hard \/ loop[n].drain
    BY <1>1, <1>2, <1>3 DEF Served
  <2>2. row \in [Jobs -> Rows] BY DEF SInv, IInv, TypeOK
  <2> QED BY <1>1, <1>3, <2>1, <2>2, SettleServes
<1>4. CASE /\ child[n].more
           /\ loop' = [loop EXCEPT ![n].pc = "sleep", ![n].chunk = @ + 1]
           /\ child' = [child EXCEPT ![n] = NoChild]
           /\ UNCHANGED <<phase, db, conf, ctl, events, stopAsked>>
  <2>1. loop[n].chunk \in Nat /\ T \in SUBSET Songs BY <1>2 DEF LoopSt, Rows
  <2>2. row[j].status \in ActiveSt /\ HasMore(T, loop[n].chunk)
    BY <1>1, <1>2, <1>4 DEF Served, Working
  <2>3. /\ loop'[n].job = j /\ loop'[n].pc = "sleep" /\ loop'[n].chunk = loop[n].chunk + 1
        /\ child'[n].pc = "none" /\ UNCHANGED <<phase, row, ctl>>
        /\ \A m \in Loops \ {n} : loop'[m] = loop[m] /\ child'[m] = child[m]
    BY <1>2, <1>4 DEF SInv, IInv, TypeOK, LoopSt, NoChild, db
  <2> HIDE DEF T
  <2>4. Slice(T, loop[n].chunk + 1) # {} BY <2>1, <2>2, NextChunk
  <2>5. Served(row[j], loop'[n], child'[n]) BY <2>2, <2>3, <2>4 DEF Served, T
  <2> QED BY <1>1, <2>3, <2>5, LoopServes
<1> QED BY <1>3, <1>4 DEF ParentResult

LEMMA ParentExitServes == ASSUME SInv, NEW n \in Loops, ParentExit(n) PROVE Service'
<1> DEFINE j == loop[n].job
           r == [row EXCEPT ![j].status = CaughtStatus(@, n)]
<1>1. child[n].pc = "dead" /\ loop[n].pc = "child" BY DEF ParentExit, SInv, IInv, Wiring
<1>2. j \in Jobs /\ row[j] \in Rows BY <1>1, ServedNow
<1>3. CaughtStatus(row[j].status, n) \in Statuses \ ActiveSt
  BY DEF CaughtStatus, Statuses, ActiveSt
<1>4. /\ r \in [Jobs -> Rows] /\ r[j].status \notin ActiveSt
      /\ \A i \in Jobs \ {j} : r[i] = row[i]
  <2>1. [row[j] EXCEPT !.status = CaughtStatus(@, n)] \in Rows BY <1>2, <1>3, RowStatusType
  <2> QED BY <1>2, <1>3, <2>1 DEF SInv, IInv, TypeOK, Rows
<1>5. Settle(n, r) BY DEF ParentExit
<1> HIDE DEF r
<1> QED BY <1>1, <1>4, <1>5, SettleServes

LEMMA WakeServes == ASSUME SInv, NEW n \in Loops, Wake(n) PROVE Service'
<1>1. loop[n].pc = "sleep" BY DEF Wake
<1>2. CASE (loop[n].hard \/ loop[n].drain) /\ Settle(n, row)
  <2>1. row \in [Jobs -> Rows] BY DEF SInv, IInv, TypeOK
  <2> QED BY <1>1, <1>2, <2>1, SettleServes
<1>3. CASE /\ loop' = [loop EXCEPT ![n].pc = "queue"]
           /\ UNCHANGED <<phase, db, conf, ctl, child, events, stopAsked>>
  <2>1. /\ loop'[n].job = loop[n].job /\ loop'[n].chunk = loop[n].chunk /\ loop'[n].pc = "queue"
        /\ UNCHANGED <<phase, row, ctl, child>>
        /\ \A m \in Loops \ {n} : loop'[m] = loop[m]
    BY <1>3 DEF SInv, IInv, TypeOK, LoopSt, db
  <2>2. Served(row[loop[n].job], loop[n], child[n]) BY <1>1 DEF SInv, Service, AllServed
  <2>3. Served(row[loop[n].job], loop'[n], child'[n]) BY <1>1, <2>1, <2>2 DEF Served, Working
  <2> QED BY <1>1, <2>1, <2>3, LoopServes
<1> QED BY <1>2, <1>3 DEF Wake

-----------------------------------------------------------------------------
(* The user, the schedulers, the environment and the restart.              *)

\* Loops and children stay; a row changes only if it is at an end before and
\* after, or is closed when nobody drives it.
LEMMA EndedRowServes ==
  ASSUME SInv, UNCHANGED <<phase, ctl, loop, child>>,
         \A i \in Jobs : \/ row'[i] = row[i]
                         \/ /\ row'[i].status \notin ActiveSt
                            /\ row[i].status \notin ActiveSt \/ ~Driven(i)
  PROVE  Service'
<1>1. ASSUME NEW n \in Loops, loop[n].pc # "idle"
      PROVE  Served(row'[loop[n].job], loop[n], child[n])
  <2> DEFINE j == loop[n].job
  <2>1. j \in Jobs /\ Driven(j)
    BY <1>1, FetchAssumption DEF SInv, IInv, TypeOK, LoopSt, Wiring, Driven
  <2>2. Served(row[j], loop[n], child[n]) BY <1>1 DEF SInv, Service, AllServed
  <2>3. CASE row'[j] = row[j] BY <2>2, <2>3
  <2>4. CASE row'[j].status \notin ActiveSt /\ row[j].status \notin ActiveSt
    BY <2>2, <2>4 DEF Served, Working
  <2> QED BY <2>1, <2>3, <2>4
<1>2. AllServed(row', loop', child') BY <1>1 DEF AllServed
<1>3. Filled(row') BY DEF SInv, Service, Filled
<1>4. Manned(row, ctl) => Manned(row', ctl') BY DEF Manned
<1> QED BY <1>2, <1>3, <1>4 DEF SInv, Service

LEMMA NewJobFrame ==
  ASSUME SInv, NEW k \in FreeIds, NEW n \in IdleLoops,
         NEW R \in Rows, R.status = "pending", R.targets # {},
         StartFetchJob([row EXCEPT ![k] = R], ctl, loop, k, n), UNCHANGED <<phase, child>>
  PROVE  Service'
<1>1. k \in Jobs /\ (\A m \in Loops : loop[m].job # k) /\ n \in Loops /\ loop[n].pc = "idle"
  BY DEF FreeIds, IdleLoops
<1>2. /\ row \in [Jobs -> Rows] /\ ctl \in [Jobs -> Loops \cup {NoLoop}] /\ loop \in [Loops -> LoopSt]
      /\ Fit(ctl, loop) /\ ChildrenFit(child, loop)
      /\ AllServed(row, loop, child) /\ Filled(row)
  BY WiringAsFit DEF SInv, IInv, TypeOK, Service
<1>3. AllServed(row', loop', child) /\ Filled(row') /\ (Manned(row, ctl) => Manned(row', ctl'))
  BY <1>1, <1>2, NewJobServes
<1> QED BY <1>3 DEF SInv, Service

LEMMA BatchFrame ==
  ASSUME SInv, NEW f \in Flows, Batch(f) # {}, NEW k \in FreeIds, NEW n \in IdleLoops,
         OpenBatch(f, row, ctl, loop, k, n), UNCHANGED <<phase, child>>
  PROVE  Service'
<1>1. k \in Jobs /\ (\A m \in Loops : loop[m].job # k) /\ n \in Loops /\ loop[n].pc = "idle"
  BY DEF FreeIds, IdleLoops
<1>2. /\ row \in [Jobs -> Rows] /\ ctl \in [Jobs -> Loops \cup {NoLoop}] /\ loop \in [Loops -> LoopSt]
      /\ Fit(ctl, loop) /\ ChildrenFit(child, loop) /\ TypeOK
      /\ AllServed(row, loop, child) /\ Filled(row)
  BY WiringAsFit DEF SInv, IInv, TypeOK, Service
<1>3. AllServed(row', loop', child) /\ Filled(row') /\ (Manned(row, ctl) => Manned(row', ctl'))
  BY <1>1, <1>2, BatchServes
<1> QED BY <1>3 DEF SInv, Service

\* A finished row for an empty plan.
LEMMA EmptyPlanServes ==
  ASSUME SInv, NEW f \in Flows, NEW k \in FreeIds, UNCHANGED <<phase, ctl, loop, child>>,
         row' = [row EXCEPT ![k] = [NewRow(f, TRUE, f = "library", {}) EXCEPT !.status = "done"]]
  PROVE  Service'
<1> DEFINE R == NewRow(f, TRUE, f = "library", {})
<1>1. R \in Rows
  <2>1. f \in Kinds BY FetchAssumption DEF Kinds
  <2> QED BY <2>1, NewRowType
<1> HIDE DEF R
<1>2. [R EXCEPT !.status = "done"].status = "done" BY <1>1 DEF Rows
<1>3. k \in Jobs /\ row[k].status \notin ActiveSt BY DEF FreeIds
<1>4. row' = [row EXCEPT ![k] = [R EXCEPT !.status = "done"]] BY DEF R
<1>5. row'[k].status = "done" /\ \A i \in Jobs \ {k} : row'[i] = row[i]
  BY <1>2, <1>3, <1>4 DEF SInv, IInv, TypeOK
<1> QED BY <1>3, <1>5, EndedRowServes DEF ActiveSt

LEMMA OpenSingleServes ==
  ASSUME SInv, NEW lib \in BOOLEAN, NEW T \in SUBSET Songs, T # {}, OpenSingle(lib, T)
  PROVE  Service'
<1>1. PICK k \in FreeIds, n \in IdleLoops :
        StartFetchJob([row EXCEPT ![k] = NewRow("single", FALSE, lib, T)], ctl, loop, k, n)
  BY DEF OpenSingle
<1> DEFINE R == NewRow("single", FALSE, lib, T)
<1>2. R \in Rows /\ R.status = "pending" /\ R.targets # {}
  <2>1. R \in Rows BY NewRowType DEF Kinds
  <2>2. R.status = "pending" /\ R.targets = T BY DEF NewRow, NoRow
  <2> QED BY <2>1, <2>2
<1>3. UNCHANGED <<phase, child>> BY DEF OpenSingle
<1> HIDE DEF R
<1> QED BY <1>1, <1>2, <1>3, NewJobFrame DEF R

LEMMA RequestServes ==
  ASSUME SInv, CreateTask \/ \E j \in Jobs : RetryTask(j) PROVE Service'
<1>1. CASE CreateTask
  <2>1. PICK T \in (SUBSET Songs) \ {{}} : OpenSingle(FALSE, T) BY <1>1 DEF CreateTask
  <2>2. T \in SUBSET Songs /\ T # {} OBVIOUS
  <2>3. FALSE \in BOOLEAN OBVIOUS
  <2> QED BY <2>1, <2>2, <2>3, OpenSingleServes
<1>2. ASSUME NEW j \in Jobs, RetryTask(j) PROVE Service'
  <2>1. PICK T \in (SUBSET Retryable(j)) \ {{}} : OpenSingle(row[j].lib, T)
    BY <1>2 DEF RetryTask
  <2>2. row[j].lib \in BOOLEAN /\ T \in SUBSET Songs /\ T # {}
    BY DEF Retryable, SInv, IInv, TypeOK, Rows
  <2> QED BY <2>1, <2>2, OpenSingleServes
<1> QED BY <1>1, <1>2

LEMMA RunFlowServes == ASSUME SInv, NEW f \in Flows, RunFlow(f) PROVE Service'
<1>1. UNCHANGED <<phase, child>> BY DEF RunFlow
<1>2. CASE Batch(f) = {} BY <1>1, <1>2, EmptyPlanServes DEF RunFlow
<1>3. CASE Batch(f) # {} BY <1>1, <1>3, BatchFrame DEF RunFlow
<1> QED BY <1>2, <1>3

LEMMA RunNamedServes ==
  ASSUME SInv, NEW f \in Flows, NEW T \in SUBSET Songs, RunNamed(f, T) PROVE Service'
<1> DEFINE b == f = "library"
           R == NewRow(f, FALSE, b, T)
<1>1. PICK k \in FreeIds, n \in IdleLoops :
        StartFetchJob([row EXCEPT ![k] = R], ctl, loop, k, n)
  BY DEF RunNamed
<1>2. T # {} /\ UNCHANGED <<phase, child>> BY DEF RunNamed
<1>3. f \in Kinds /\ b \in BOOLEAN BY FetchAssumption DEF Kinds
<1>4. R \in Rows /\ R.status = "pending" /\ R.targets # {}
  <2> HIDE DEF b
  <2>1. R \in Rows BY <1>3, NewRowType
  <2>2. R.status = "pending" /\ R.targets = T BY DEF NewRow, NoRow
  <2> QED BY <1>2, <2>1, <2>2
<1> HIDE DEF R
<1> QED BY <1>1, <1>2, <1>4, NewJobFrame

\* A stop reaches the loop, or closes a row nobody drives.
LEMMA FinishStopServes ==
  ASSUME SInv, NEW j \in Jobs, NEW hard \in BOOLEAN, FinishStop(j, hard) PROVE Service'
<1>1. CASE Driven(j)
  <2> DEFINE m == ctl[j]
  <2>1. m \in Loops BY <1>1 DEF Driven, SInv, IInv, TypeOK
  <2>2. /\ loop' = [loop EXCEPT ![m].hard = @ \/ hard, ![m].drain = @ \/ ~hard]
        /\ UNCHANGED <<row, phase, ctl, child>>
    BY <1>1 DEF FinishStop
  <2> HIDE DEF m
  <2>3. \A n \in Loops : /\ loop'[n].pc = loop[n].pc /\ loop'[n].job = loop[n].job
                         /\ loop'[n].chunk = loop[n].chunk
    BY <2>1, <2>2 DEF SInv, IInv, TypeOK, LoopSt
  <2>4. AllServed(row', loop', child')
    BY <2>2, <2>3 DEF SInv, Service, AllServed, Served, Working
  <2> QED BY <2>2, <2>4 DEF SInv, Service
<1>2. CASE ~Driven(j)
  <2>1. row' = [row EXCEPT ![j].status = "cancelled"] /\ UNCHANGED <<phase, ctl, loop, child>>
    BY <1>2 DEF FinishStop
  <2>2. row'[j].status \notin ActiveSt /\ \A i \in Jobs \ {j} : row'[i] = row[i]
    BY <2>1 DEF SInv, IInv, TypeOK, Rows, ActiveSt
  <2> QED BY <1>2, <2>1, <2>2, EndedRowServes
<1> QED BY <1>1, <1>2

LEMMA DropRowsServes == ASSUME SInv, NEW S \in SUBSET Jobs, DropRows(S) PROVE Service'
<1>1. UNCHANGED <<phase, ctl, loop, child>> BY DEF DropRows, proc
<1>2. ASSUME NEW i \in Jobs
      PROVE  row'[i] = row[i] \/ (row'[i].status \notin ActiveSt /\ row[i].status \notin ActiveSt)
  <2>1. CASE i \in S
    <3>1. row'[i] = NoRow /\ row[i].status \in TerminalSt BY <2>1 DEF DropRows
    <3> QED BY <3>1 DEF NoRow, TerminalSt, ActiveSt
  <2>2. CASE i \notin S BY <2>2 DEF DropRows
  <2> QED BY <2>1, <2>2
<1> QED BY <1>1, <1>2, EndedRowServes

LEMMA SchedulerServes == ASSUME SInv, NEW f \in Flows, SchedulerTick(f) PROVE Service'
<1>1. UNCHANGED <<phase, child>> BY DEF SchedulerTick
<1>2. CASE ResumeSession(f)
  <2>1. CASE Batch(f) = {} BY <1>1, <1>2, <2>1, EndedRowServes DEF ResumeSession
  <2>2. CASE Batch(f) # {} BY <1>1, <1>2, <2>2, BatchFrame DEF ResumeSession
  <2> QED BY <2>1, <2>2
<1>3. CASE RunAutoOnce(f)
  <2>1. CASE Batch(f) = {} BY <1>1, <1>3, <2>1, EmptyPlanServes DEF RunAutoOnce
  <2>2. CASE Batch(f) # {} BY <1>1, <1>3, <2>2, BatchFrame DEF RunAutoOnce
  <2> QED BY <2>1, <2>2
<1>4. CASE DropSession(f) BY <1>1, <1>4, EndedRowServes DEF DropSession
<1> QED BY <1>2, <1>3, <1>4 DEF SchedulerTick

\* Whatever leaves rows, controllers, loops and children alone.
LEMMA QuietServes ==
  ASSUME SInv, \/ \E f \in Flows : ResetAttempts(f) \/ ComeDue(f)
               \/ \E f \in Flows, b \in BOOLEAN : SetAutoEnabled(f, b) \/ SetAutoContinue(f, b)
               \/ Remount \/ UNCHANGED vars
  PROVE  Service'
<1>1. UNCHANGED <<phase, row, ctl, loop, child>>
  BY DEF ResetAttempts, ComeDue, SetAutoEnabled, SetAutoContinue, Remount, vars, db, proc
<1> QED BY <1>1, EndedRowServes

LEMMA ChildDiesServes == ASSUME SInv, NEW n \in Loops, ChildDies(n) PROVE Service'
<1>1. /\ child[n].pc # "none" /\ child' = [child EXCEPT ![n].pc = "dead"]
      /\ UNCHANGED <<phase, row, ctl, loop>>
  BY DEF ChildDies, db
<1>2. loop[n].pc = "child" BY <1>1 DEF SInv, IInv, Wiring
<1>3. child'[n].pc = "dead" /\ \A m \in Loops \ {n} : child'[m] = child[m]
  BY <1>1 DEF SInv, IInv, TypeOK, ChildSt
<1>4. Served(row[loop[n].job], loop'[n], child'[n]) BY <1>1, <1>2, <1>3 DEF Served, Working
<1> QED BY <1>1, <1>2, <1>3, <1>4, LoopServes

LEMMA CrashServes == ASSUME SInv, Crash \/ Boot PROVE Service'
<1>1. CASE Crash
  <2>1. /\ phase' = "down" /\ row' = row /\ loop' = [n \in Loops |-> IdleLoop]
    BY <1>1 DEF Crash, db
  <2>2. AllServed(row', loop', child') BY <2>1 DEF AllServed, IdleLoop
  <2> QED BY <2>1, <2>2 DEF SInv, Service
<1>2. CASE Boot
  <2>1. phase' = "booting" /\ UNCHANGED <<row, loop, child, ctl>> BY <1>2 DEF Boot, db, proc
  <2> QED BY <2>1 DEF SInv, Service
<1> QED BY <1>1, <1>2

\* The boot resume gives every active row a loop, or ends it.
LEMMA ResumeServes == ASSUME SInv, ResumeInterruptedFetchJobs PROVE Service'
<1>1. PICK at \in [Interrupted -> IdleLoops] :
        /\ \A i, j \in Interrupted : at[i] = at[j] => i = j
        /\ StartAll(row, ctl, loop, at)
  BY DEF ResumeInterruptedFetchJobs
<1>2. /\ DOMAIN at \subseteq Jobs
      /\ \A j \in DOMAIN at : at[j] \in Loops /\ loop[at[j]].pc = "idle" /\ row[j].status \in ActiveSt
      /\ \A i, j \in DOMAIN at : at[i] = at[j] => i = j
  BY <1>1 DEF Interrupted, ActiveIn, IdleLoops
<1>3. /\ row \in [Jobs -> Rows] /\ ctl \in [Jobs -> Loops \cup {NoLoop}] /\ loop \in [Loops -> LoopSt]
      /\ Fit(ctl, loop) /\ ChildrenFit(child, loop)
      /\ AllServed(row, loop, child) /\ Filled(row)
  BY WiringAsFit DEF SInv, IInv, TypeOK, Service
<1>4. /\ AllServed(row', loop', child) /\ Filled(row')
      /\ \A j \in Jobs : row'[j].status \in ActiveSt =>
           /\ row[j].status \in ActiveSt
           /\ j \in DOMAIN at \/ ctl[j] # NoLoop => ctl'[j] # NoLoop
  BY <1>1, <1>2, <1>3, StartAllServes
<1>5. DOMAIN at = Interrupted /\ child' = child BY <1>1 DEF ResumeInterruptedFetchJobs
<1>6. Manned(row', ctl')
  <2> SUFFICES ASSUME NEW j \in Jobs, row'[j].status \in ActiveSt PROVE ctl'[j] # NoLoop
    BY DEF Manned
  <2>1. j \in Interrupted \/ ctl[j] # NoLoop BY <1>4 DEF Interrupted, ActiveIn, Driven
  <2> QED BY <1>4, <1>5, <2>1
<1> QED BY <1>4, <1>5, <1>6 DEF Service

-----------------------------------------------------------------------------
(* The theorem.                                                            *)

LEMMA InitServes == Init => SInv
<1> SUFFICES ASSUME Init PROVE SInv OBVIOUS
<1>1. IInv BY InitInv
<1>2. AllServed(row, loop, child) BY DEF Init, AllServed, IdleLoop
<1>3. Filled(row) BY DEF Init, Filled, NoRow, ActiveSt
<1> QED BY <1>1, <1>2, <1>3 DEF Init, SInv, Service

LEMMA StepServes == SInv /\ [Next]_vars => SInv'
<1> SUFFICES ASSUME SInv, [Next]_vars PROVE SInv' OBVIOUS
<1>1. IInv' BY StepInv DEF SInv
<1> SUFFICES Service' BY <1>1 DEF SInv
<1>2. ASSUME NEW n \in Loops, ChildStep(n) PROVE Service'
  BY <1>2, ChildStartServes, WorkServes, ChunkSaveServes, ChunkStatusServes DEF ChildStep
<1>3. ASSUME NEW n \in Loops, LoopStep(n) PROVE Service'
  BY <1>3, GrantServes, ParentResultServes, ParentExitServes, WakeServes DEF LoopStep
<1>4. ASSUME NEW f \in Flows, SchedulerTick(f) PROVE Service' BY <1>4, SchedulerServes
<1>5. CASE Boot \/ Crash BY <1>5, CrashServes
<1>6. CASE ResumeInterruptedFetchJobs BY <1>6, ResumeServes
<1>7. CASE UserStep
  <2>1. CASE CreateTask BY <2>1, RequestServes
  <2>2. ASSUME NEW j \in Jobs, RetryTask(j) \/ Cancel(j) \/ ForceStop(j) PROVE Service'
    BY <2>2, RequestServes, FinishStopServes DEF Cancel, ForceStop
  <2>3. ASSUME NEW S \in SUBSET Jobs, DropRows(S) PROVE Service' BY <2>3, DropRowsServes
  <2>4. ASSUME NEW f \in Flows, RunFlow(f) PROVE Service' BY <2>4, RunFlowServes
  <2>5. ASSUME NEW f \in Flows, NEW T \in SUBSET Songs, RunNamed(f, T) PROVE Service'
    BY <2>5, RunNamedServes
  <2>6. ASSUME NEW f \in Flows, NEW b \in BOOLEAN,
               ResetAttempts(f) \/ SetAutoEnabled(f, b) \/ SetAutoContinue(f, b)
        PROVE  Service'
    BY <2>6, QuietServes
  <2> QED BY <1>7, <2>1, <2>2, <2>3, <2>4, <2>5, <2>6 DEF UserStep
<1>8. CASE Environment BY <1>5, <1>8, QuietServes, ChildDiesServes DEF Environment
<1>9. CASE UNCHANGED vars BY <1>9, QuietServes
<1> QED BY <1>2, <1>3, <1>4, <1>5, <1>6, <1>7, <1>8, <1>9 DEF Next

\* Once the boot resume is done, every row that says pending or running has a
\* loop that drives it: no job is left "running" for ever, blocking every chain
\* behind hasAnyActiveJob (the finally block of startFetchJob, the verdict of
\* fetchHandler, finishStop and resumeInterruptedFetchJobs together).
THEOREM NoRowIsLeftBehind == Spec => []NoZombieRow
<1>1. SInv => NoZombieRow
  BY DEF SInv, IInv, Wiring, Service, Manned, NoZombieRow, ActiveIn, Driven
<1> QED BY <1>1, InitServes, StepServes, PTL DEF Spec

-----------------------------------------------------------------------------
(* A verdict is not taken back.                                            *)

\* The status of a job that came to its own end.
Ended(st) == st \in {"done", "partial", "failed"}

LEMMA StartWrites ==
  ASSUME NEW r \in [Jobs -> Rows], NEW c, NEW l, NEW at, StartAll(r, c, l, at),
         NEW j \in Jobs, j \notin DOMAIN at
  PROVE  row'[j] = r[j]
BY DEF StartAll

LEMMA NewJobWrites ==
  ASSUME NEW r \in [Jobs -> Rows], NEW c, NEW l, NEW k \in Jobs, NEW n, NEW R \in Rows,
         StartFetchJob([r EXCEPT ![k] = R], c, l, k, n), NEW j \in Jobs, j # k
  PROVE  row'[j] = r[j]
<1> DEFINE q == [r EXCEPT ![k] = R]
           at == [i \in {k} |-> n]
<1>1. q \in [Jobs -> Rows] /\ q[j] = r[j] /\ DOMAIN at = {k} OBVIOUS
<1>2. StartAll(q, c, l, at) BY DEF StartFetchJob
<1> HIDE DEF q, at
<1> QED BY <1>1, <1>2, StartWrites

LEMMA BatchWrites ==
  ASSUME TypeOK, NEW f \in Flows, NEW r \in [Jobs -> Rows], NEW c, NEW l, NEW k \in Jobs, NEW n,
         OpenBatch(f, r, c, l, k, n), NEW j \in Jobs, j # k
  PROVE  row'[j] = r[j]
<1> DEFINE T == Batch(f)
           b == f = "library"
           R == NewRow(f, TRUE, b, T)
<1>1. f \in Kinds /\ T \in SUBSET Songs /\ b \in BOOLEAN BY FetchAssumption, BatchType DEF Kinds
<1>2. StartFetchJob([r EXCEPT ![k] = R], c, l, k, n) BY DEF OpenBatch
<1>3. R \in Rows
  <2> HIDE DEF T, b
  <2> QED BY <1>1, NewRowType
<1> HIDE DEF R
<1> QED BY <1>2, <1>3, NewJobWrites

\* The end of a loop keeps every verdict it finds.
LEMMA SettleKeepsVerdict ==
  ASSUME SInv, NEW n \in Loops, loop[n].pc # "idle", NEW r \in [Jobs -> Rows], Settle(n, r),
         NEW j \in Jobs, InService(j), Ended(r[j].status)
  PROVE  row'[j].status = r[j].status
<1> DEFINE i == loop[n].job
           c == [ctl EXCEPT ![i] = NoLoop]
           l == [loop EXCEPT ![n] = IdleLoop]
           hard == loop[n].hard
           rf == IF loop[n].hard \/ loop[n].drain THEN FinalizeDrainedFetchJob(r, i) ELSE r
<1>1. i \in Jobs /\ TypeOK BY DEF SInv, IInv, TypeOK, LoopSt, Wiring
<1>2. rf \in [Jobs -> Rows] BY <1>1, FinalizeType
<1>3. rf[j].status = r[j].status
  <2>1. CASE j # i BY <1>1, <2>1, FinalizeEnds
  <2>2. CASE j = i
    <3> DEFINE missing == {s \in r[j].targets : r[j].items[s] = "none"}
               items == [s \in Songs |-> IF s \in missing THEN "cancelled" ELSE r[j].items[s]]
               total == IF missing = {} THEN r[j].cnt.total ELSE Cardinality(r[j].targets)
               fin == FinalizeDrainedFetchJob(r, j)
    <3>1. fin = [r EXCEPT ![j].status = FinalStatus(@), ![j].items = items, ![j].cnt.total = total]
      BY DEF FinalizeDrainedFetchJob, Ended
    <3>2. FinalStatus(r[j].status) = r[j].status BY DEF FinalStatus, ActiveSt, Ended
    <3> HIDE DEF fin, items, total
    <3>3. fin[j].status = r[j].status BY <3>1, <3>2 DEF Rows
    <3> QED BY <2>2, <3>3 DEF fin
  <2> QED BY <2>1, <2>2
<1>4. MaybeContinue(rf, c, l, i, hard) BY DEF Settle
<1> HIDE DEF rf, c, l, hard
<1>5. CASE ChainGoesOn(rf, i, hard)
  <2> DEFINE f == rf[i].kind
  <2>1. f \in Flows BY <1>5 DEF ChainGoesOn, InChain
  <2>2. PICK k \in FreeIds \ {i}, m \in {q \in Loops : l[q].pc = "idle"} : OpenBatch(f, rf, c, l, k, m)
    BY <1>4, <1>5 DEF MaybeContinue
  <2>3. k \in Jobs /\ k # j BY DEF FreeIds, InService
  <2> HIDE DEF f
  <2>4. row'[j] = rf[j] BY <1>1, <1>2, <2>1, <2>2, <2>3, BatchWrites
  <2> QED BY <1>3, <2>4
<1>6. CASE ~ChainGoesOn(rf, i, hard) BY <1>3, <1>4, <1>6 DEF MaybeContinue
<1> QED BY <1>5, <1>6

\* A child writes a status only while the row of its job is active.
LEMMA ChildKeepsVerdict ==
  ASSUME SInv, NEW n \in Loops, ChildStep(n), NEW j \in Jobs, Ended(row[j].status)
  PROVE  row'[j].status = row[j].status
<1> DEFINE i == loop[n].job
<1>1. child[n].pc \in {"boot", "items", "saved"}
  BY DEF ChildStep, ChildStart, ItemEnd, Flush, ChunkSave, ChunkStatus, DeliverStop
<1>2. i \in Jobs /\ row[i] \in Rows /\ Served(row[i], loop[n], child[n]) BY <1>1, ServedNow
<1>3. i # j BY <1>1, <1>2 DEF Served, Working, Ended, ActiveSt
<1>4. ASSUME NEW S, NEW out, OnItem(n, S, out) PROVE row'[j] = row[j]
  BY <1>1, <1>3, <1>4, OnItemKeeps
<1>5. row'[j] = row[j]
  <2>1. CASE ChildStart(n) BY <1>3, <2>1 DEF ChildStart, SInv, IInv, TypeOK
  <2>2. CASE \E s \in Songs, o \in Outcomes \cup {"cancelled"} : ItemEnd(n, s, o)
    <3>1. PICK S, out : OnItem(n, S, out) BY <2>2 DEF ItemEnd
    <3> QED BY <1>4, <3>1
  <2>3. CASE Flush(n)
    <3>1. PICK S, out : OnItem(n, S, out) BY <2>3 DEF Flush
    <3> QED BY <1>4, <3>1
  <2>4. CASE ChunkSave(n) BY <1>3, <2>4 DEF ChunkSave, SInv, IInv, TypeOK
  <2>5. CASE ChunkStatus(n) BY <1>3, <2>5 DEF ChunkStatus, SInv, IInv, TypeOK
  <2>6. CASE DeliverStop(n) BY <2>6 DEF DeliverStop
  <2> QED BY <2>1, <2>2, <2>3, <2>4, <2>5, <2>6 DEF ChildStep
<1> QED BY <1>5

\* The steps of a loop whose child did not die.
LEMMA LoopKeepsVerdict ==
  ASSUME SInv, NEW n \in Loops, LoopStep(n), NEW j \in Jobs, InService(j), Ended(row[j].status),
         loop[n].job = j => child[n].pc # "dead"
  PROVE  row'[j].status = row[j].status
<1>1. row \in [Jobs -> Rows] BY DEF SInv, IInv, TypeOK
<1>2. CASE row' = row BY <1>2
<1>3. CASE Settle(n, row) /\ loop[n].pc # "idle" BY <1>1, <1>3, SettleKeepsVerdict
<1>4. CASE ParentExit(n)
  <2> DEFINE i == loop[n].job
             r == [row EXCEPT ![i].status = CaughtStatus(@, n)]
  <2>1. child[n].pc = "dead" /\ loop[n].pc = "child" BY <1>4 DEF ParentExit, SInv, IInv, Wiring
  <2>2. i \in Jobs /\ row[i] \in Rows /\ i # j BY <2>1, ServedNow
  <2>3. CaughtStatus(row[i].status, n) \in Statuses BY <2>2 DEF CaughtStatus, Statuses, Rows
  <2>4. r \in [Jobs -> Rows] /\ r[j] = row[j]
    <3>1. [row[i] EXCEPT !.status = CaughtStatus(@, n)] \in Rows BY <2>2, <2>3, RowStatusType
    <3> QED BY <1>1, <2>2, <3>1
  <2>5. Settle(n, r) BY <1>4 DEF ParentExit
  <2> HIDE DEF r
  <2>6. row'[j].status = r[j].status BY <2>1, <2>4, <2>5, SettleKeepsVerdict
  <2> QED BY <2>4, <2>6
<1>5. child[n].pc = "sent" \/ loop[n].pc = "sleep" => loop[n].pc # "idle" BY DEF SInv, IInv, Wiring
<1> QED BY <1>2, <1>3, <1>4, <1>5 DEF LoopStep, Grant, ParentResult, Wake, db

\* Requests, schedulers and the boot resume write no ended row of a job in service.
LEMMA RequestKeepsVerdict ==
  ASSUME SInv, NEW j \in Jobs, InService(j), Ended(row[j].status), row'[j].status # "none",
         \/ UserStep \/ ResumeInterruptedFetchJobs \/ \E f \in Flows : SchedulerTick(f)
  PROVE  row'[j].status = row[j].status
<1>1. row \in [Jobs -> Rows] /\ TypeOK BY DEF SInv, IInv, TypeOK
<1>2. \A k \in FreeIds : k \in Jobs /\ k # j BY DEF FreeIds, InService
<1>3. ASSUME NEW k \in FreeIds, NEW R \in Rows, NEW n,
             StartFetchJob([row EXCEPT ![k] = R], ctl, loop, k, n)
      PROVE  row'[j] = row[j]
  BY <1>1, <1>2, <1>3, NewJobWrites
<1>4. ASSUME NEW f \in Flows, NEW k \in FreeIds, NEW n, OpenBatch(f, row, ctl, loop, k, n)
      PROVE  row'[j] = row[j]
  BY <1>1, <1>2, <1>4, BatchWrites
<1>5. ASSUME NEW k \in FreeIds, NEW R, row' = [row EXCEPT ![k] = R] PROVE row'[j] = row[j]
  BY <1>1, <1>2, <1>5
<1>6. ASSUME NEW lib \in BOOLEAN, NEW T \in SUBSET Songs, OpenSingle(lib, T) PROVE row'[j] = row[j]
  <2>1. NewRow("single", FALSE, lib, T) \in Rows BY NewRowType DEF Kinds
  <2> QED BY <1>3, <1>6, <2>1 DEF OpenSingle
<1>7. ASSUME NEW f \in Flows, SchedulerTick(f) PROVE row'[j] = row[j]
  <2>1. CASE ResumeSession(f) BY <1>4, <2>1 DEF ResumeSession
  <2>2. CASE RunAutoOnce(f) BY <1>4, <1>5, <2>2 DEF RunAutoOnce
  <2>3. CASE DropSession(f) BY <2>3 DEF DropSession
  <2> QED BY <1>7, <2>1, <2>2, <2>3 DEF SchedulerTick
<1>8. CASE ResumeInterruptedFetchJobs
  <2>1. PICK at \in [Interrupted -> IdleLoops] : StartAll(row, ctl, loop, at)
    BY <1>8 DEF ResumeInterruptedFetchJobs
  <2>2. j \notin DOMAIN at BY DEF Interrupted, ActiveIn, ActiveSt, Ended
  <2> QED BY <1>1, <2>1, <2>2, StartWrites
<1>9. ASSUME NEW f \in Flows, NEW T \in SUBSET Songs, RunNamed(f, T) PROVE row'[j] = row[j]
  <2> DEFINE b == f = "library"
             R == NewRow(f, FALSE, b, T)
  <2>1. PICK k \in FreeIds, n \in IdleLoops : StartFetchJob([row EXCEPT ![k] = R], ctl, loop, k, n)
    BY <1>9 DEF RunNamed
  <2>2. f \in Kinds /\ b \in BOOLEAN BY FetchAssumption DEF Kinds
  <2>3. R \in Rows
    <3> HIDE DEF b
    <3> QED BY <2>2, NewRowType
  <2> HIDE DEF R
  <2> QED BY <1>3, <2>1, <2>3
<1>10. ASSUME NEW k \in Jobs, NEW hard, FinishStop(k, hard) PROVE row'[j] = row[j]
  <2>1. CASE Driven(k) BY <1>10, <2>1 DEF FinishStop
  <2>2. CASE ~Driven(k)
    <3>1. row[k].status \in ActiveSt /\ row' = [row EXCEPT ![k].status = "cancelled"]
      BY <1>10, <2>2 DEF FinishStop
    <3>2. k # j BY <3>1 DEF ActiveSt, Ended
    <3> QED BY <1>1, <3>1, <3>2
  <2> QED BY <2>1, <2>2
<1>11. CASE UserStep
  <2>1. CASE CreateTask
    <3>1. PICK T \in (SUBSET Songs) \ {{}} : OpenSingle(FALSE, T) BY <2>1 DEF CreateTask
    <3>2. T \in SUBSET Songs OBVIOUS
    <3>3. FALSE \in BOOLEAN OBVIOUS
    <3> QED BY <1>6, <3>1, <3>2, <3>3
  <2>2. ASSUME NEW k \in Jobs, RetryTask(k) PROVE row'[j] = row[j]
    <3>1. PICK T \in SUBSET Retryable(k) : OpenSingle(row[k].lib, T) BY <2>2 DEF RetryTask
    <3>2. row[k].lib \in BOOLEAN /\ T \in SUBSET Songs BY <1>1 DEF Retryable, Rows
    <3> QED BY <1>6, <3>1, <3>2
  <2>3. ASSUME NEW k \in Jobs, Cancel(k) \/ ForceStop(k) PROVE row'[j] = row[j]
    BY <1>10, <2>3 DEF Cancel, ForceStop
  <2>4. ASSUME NEW S \in SUBSET Jobs, DropRows(S) PROVE row'[j] = row[j]
    BY <2>4 DEF DropRows, NoRow
  <2>5. ASSUME NEW f \in Flows, RunFlow(f) PROVE row'[j] = row[j]
    BY <1>4, <1>5, <2>5 DEF RunFlow
  <2>6. ASSUME NEW f \in Flows, NEW b \in BOOLEAN,
               ResetAttempts(f) \/ SetAutoEnabled(f, b) \/ SetAutoContinue(f, b)
        PROVE  row'[j] = row[j]
    BY <2>6 DEF ResetAttempts, SetAutoEnabled, SetAutoContinue
  <2> QED BY <1>9, <1>11, <2>1, <2>2, <2>3, <2>4, <2>5, <2>6 DEF UserStep
<1> QED BY <1>7, <1>8, <1>11

\* A stop, a late message or a restart never changes the verdict of a job that
\* came to its own end, as long as its child lived to report it (FinalStatus in
\* finalizeDrainedFetchJob, and the order in which fetchHandler writes the
\* verdict and the loop reads the drain request).
THEOREM VerdictIsFinal == Spec => VerdictKept
<1>1. ASSUME SInv, [Next]_vars
      PROVE  [\A j \in Jobs : /\ InService(j) /\ row'[j].status # "none"
                              /\ row[j].status \in {"done", "partial", "failed"}
                              /\ \A n \in Loops : loop[n].job = j => child[n].pc # "dead"
                              => row'[j].status = row[j].status]_vars
  <2> SUFFICES ASSUME NEW j \in Jobs, InService(j), row'[j].status # "none", Ended(row[j].status),
                      \A n \in Loops : loop[n].job = j => child[n].pc # "dead"
               PROVE  row'[j].status = row[j].status
    BY DEF Ended
  <2>1. CASE \E n \in Loops : ChildStep(n) \/ LoopStep(n)
    BY <1>1, <2>1, ChildKeepsVerdict, LoopKeepsVerdict
  <2>2. CASE UserStep \/ ResumeInterruptedFetchJobs \/ \E f \in Flows : SchedulerTick(f)
    BY <1>1, <2>2, RequestKeepsVerdict
  <2>3. CASE Environment \/ Boot \/ UNCHANGED vars
    BY <2>3 DEF Environment, Remount, Crash, ComeDue, ChildDies, Boot, vars, db
  <2> QED BY <1>1, <2>1, <2>2, <2>3 DEF Next
<1> QED BY <1>1, InitServes, StepServes, PTL DEF Spec, VerdictKept

-----------------------------------------------------------------------------
(* The batches of the chains run one at a time.                            *)

\* What a step that is no request of the user may do to the active rows: make
\* them fewer, or leave a single one.
OpensAlone == ActiveIn(row') \subseteq ActiveIn(row) \/ \E k \in Jobs : ActiveIn(row') \subseteq {k}

\* A start makes no row active: it leaves them as they are, or fails them.
LEMMA StartFewer ==
  ASSUME NEW r \in [Jobs -> Rows], NEW c, NEW l, NEW at, StartAll(r, c, l, at)
  PROVE  ActiveIn(row') \subseteq ActiveIn(r)
<1> SUFFICES ASSUME NEW j \in Jobs, row'[j].status \in ActiveSt PROVE r[j].status \in ActiveSt
  BY DEF ActiveIn
<1>1. row'[j] = r[j] \/ row'[j] = [r[j] EXCEPT !.status = "failed"] BY DEF StartAll
<1>2. [r[j] EXCEPT !.status = "failed"].status = "failed"
  <2>1. r[j] \in Rows OBVIOUS
  <2> QED BY <2>1 DEF Rows
<1> QED BY <1>1, <1>2 DEF ActiveSt

\* A batch of a chain that is opened over a table without active rows.
LEMMA BatchAlone ==
  ASSUME TypeOK, NEW f \in Flows, NEW r \in [Jobs -> Rows], NEW c, NEW l, NEW k \in Jobs, NEW n,
         OpenBatch(f, r, c, l, k, n), ActiveIn(r) = {}
  PROVE  \E i \in Jobs : ActiveIn(row') \subseteq {i}
<1>1. \A j \in Jobs : j # k => row'[j] = r[j] BY BatchWrites
<1>2. ActiveIn(row') \subseteq {k} BY <1>1 DEF ActiveIn
<1> QED BY <1>2

\* The end of a loop.
LEMMA SettleAlone ==
  ASSUME SInv, NEW n \in Loops, loop[n].pc # "idle", NEW r \in [Jobs -> Rows], Settle(n, r)
  PROVE  ActiveIn(row') \subseteq ActiveIn(r) \/ \E k \in Jobs : ActiveIn(row') \subseteq {k}
<1> DEFINE i == loop[n].job
           c == [ctl EXCEPT ![i] = NoLoop]
           l == [loop EXCEPT ![n] = IdleLoop]
           hard == loop[n].hard
           rf == IF loop[n].hard \/ loop[n].drain THEN FinalizeDrainedFetchJob(r, i) ELSE r
<1>1. i \in Jobs /\ TypeOK BY DEF SInv, IInv, TypeOK, LoopSt, Wiring
<1>2. rf \in [Jobs -> Rows] BY <1>1, FinalizeType
<1>3. ActiveIn(rf) \subseteq ActiveIn(r) BY <1>1, FinalizeEnds DEF ActiveIn
<1>4. MaybeContinue(rf, c, l, i, hard) BY DEF Settle
<1> HIDE DEF rf, c, l, hard
<1>5. CASE ChainGoesOn(rf, i, hard)
  <2> DEFINE f == rf[i].kind
  <2>1. f \in Flows /\ ActiveIn(rf) = {} BY <1>5 DEF ChainGoesOn, InChain
  <2>2. PICK k \in FreeIds \ {i}, m \in {q \in Loops : l[q].pc = "idle"} : OpenBatch(f, rf, c, l, k, m)
    BY <1>4, <1>5 DEF MaybeContinue
  <2>3. k \in Jobs BY DEF FreeIds
  <2> HIDE DEF f
  <2> QED BY <1>1, <1>2, <2>1, <2>2, <2>3, BatchAlone
<1>6. CASE ~ChainGoesOn(rf, i, hard) BY <1>3, <1>4, <1>6 DEF MaybeContinue
<1> QED BY <1>5, <1>6

LEMMA LoopAlone == ASSUME SInv, NEW n \in Loops, LoopStep(n) PROVE OpensAlone
<1>1. row \in [Jobs -> Rows] BY DEF SInv, IInv, TypeOK
<1>2. CASE row' = row BY <1>2 DEF OpensAlone
<1>3. CASE Settle(n, row) /\ loop[n].pc # "idle" BY <1>1, <1>3, SettleAlone DEF OpensAlone
<1>4. CASE ParentExit(n)
  <2> DEFINE i == loop[n].job
             r == [row EXCEPT ![i].status = CaughtStatus(@, n)]
  <2>1. child[n].pc = "dead" /\ loop[n].pc = "child" BY <1>4 DEF ParentExit, SInv, IInv, Wiring
  <2>2. i \in Jobs /\ row[i] \in Rows BY <2>1, ServedNow
  <2>3. CaughtStatus(row[i].status, n) \in Statuses \ ActiveSt
    BY DEF CaughtStatus, Statuses, ActiveSt
  <2>4. [row[i] EXCEPT !.status = CaughtStatus(@, n)] \in Rows BY <2>2, <2>3, RowStatusType
  <2>5. r \in [Jobs -> Rows] BY <1>1, <2>2, <2>4
  <2>6. ActiveIn(r) \subseteq ActiveIn(row)
    <3>1. \A j \in Jobs \ {i} : r[j] = row[j] BY <1>1
    <3>2. r[i].status \notin ActiveSt BY <1>1, <2>2, <2>3 DEF Rows
    <3> HIDE DEF r
    <3> QED BY <3>1, <3>2 DEF ActiveIn
  <2>7. Settle(n, r) BY <1>4 DEF ParentExit
  <2> HIDE DEF r
  <2>8. ActiveIn(row') \subseteq ActiveIn(r) \/ \E k \in Jobs : ActiveIn(row') \subseteq {k}
    BY <2>1, <2>5, <2>7, SettleAlone
  <2> QED BY <2>6, <2>8 DEF OpensAlone
<1>5. child[n].pc = "sent" \/ loop[n].pc = "sleep" => loop[n].pc # "idle" BY DEF SInv, IInv, Wiring
<1> QED BY <1>2, <1>3, <1>4, <1>5 DEF LoopStep, Grant, ParentResult, Wake, db

\* A child writes the row of its job only, and that row is active.
LEMMA ChildAlone == ASSUME SInv, NEW n \in Loops, ChildStep(n) PROVE OpensAlone
<1> DEFINE i == loop[n].job
<1>1. child[n].pc \in {"boot", "items", "saved"}
  BY DEF ChildStep, ChildStart, ItemEnd, Flush, ChunkSave, ChunkStatus, DeliverStop
<1>2. i \in Jobs /\ Served(row[i], loop[n], child[n]) BY <1>1, ServedNow
<1>3. row[i].status \in ActiveSt BY <1>1, <1>2 DEF Served, Working
<1>4. ASSUME NEW j \in Jobs, j # i PROVE row'[j] = row[j]
  <2>1. ASSUME NEW S, NEW out, OnItem(n, S, out) PROVE row'[j] = row[j]
    BY <1>1, <1>4, <2>1, OnItemKeeps
  <2>2. CASE ChildStart(n) BY <1>4, <2>2 DEF ChildStart, SInv, IInv, TypeOK
  <2>3. CASE \E s \in Songs, o \in Outcomes \cup {"cancelled"} : ItemEnd(n, s, o)
    <3>1. PICK S, out : OnItem(n, S, out) BY <2>3 DEF ItemEnd
    <3> QED BY <2>1, <3>1
  <2>4. CASE Flush(n)
    <3>1. PICK S, out : OnItem(n, S, out) BY <2>4 DEF Flush
    <3> QED BY <2>1, <3>1
  <2>5. CASE ChunkSave(n) BY <1>4, <2>5 DEF ChunkSave, SInv, IInv, TypeOK
  <2>6. CASE ChunkStatus(n) BY <1>4, <2>6 DEF ChunkStatus, SInv, IInv, TypeOK
  <2>7. CASE DeliverStop(n) BY <2>7 DEF DeliverStop
  <2> QED BY <2>2, <2>3, <2>4, <2>5, <2>6, <2>7 DEF ChildStep
<1>5. \A j \in Jobs : row'[j].status \in ActiveSt => row[j].status \in ActiveSt BY <1>3, <1>4
<1> QED BY <1>5 DEF OpensAlone, ActiveIn

\* The row of an empty plan is finished from the start.
LEMMA EmptyPlanAlone ==
  ASSUME SInv, NEW f \in Flows, NEW k \in FreeIds,
         row' = [row EXCEPT ![k] = [NewRow(f, TRUE, f = "library", {}) EXCEPT !.status = "done"]]
  PROVE  OpensAlone
<1> DEFINE R == NewRow(f, TRUE, f = "library", {})
<1>1. R \in Rows
  <2>1. f \in Kinds BY FetchAssumption DEF Kinds
  <2> QED BY <2>1, NewRowType
<1> HIDE DEF R
<1>2. [R EXCEPT !.status = "done"].status = "done" BY <1>1 DEF Rows
<1>3. row' = [row EXCEPT ![k] = [R EXCEPT !.status = "done"]] BY DEF R
<1>4. k \in Jobs BY DEF FreeIds
<1>5. row'[k].status = "done" /\ \A i \in Jobs \ {k} : row'[i] = row[i]
  BY <1>2, <1>3, <1>4 DEF SInv, IInv, TypeOK
<1>6. \A i \in Jobs : row'[i].status \in ActiveSt => row[i].status \in ActiveSt
  BY <1>5 DEF ActiveSt
<1> QED BY <1>6 DEF OpensAlone, ActiveIn

\* A scheduler looks at the table before it opens a batch.
LEMMA SchedulerAlone == ASSUME SInv, NEW f \in Flows, SchedulerTick(f) PROVE OpensAlone
<1>1. row \in [Jobs -> Rows] /\ TypeOK BY DEF SInv, IInv, TypeOK
<1>2. CASE row' = row BY <1>2 DEF OpensAlone
<1>3. ASSUME NEW k \in FreeIds, NEW n, OpenBatch(f, row, ctl, loop, k, n), ~Busy PROVE OpensAlone
  <2>1. k \in Jobs /\ ActiveIn(row) = {} BY <1>3 DEF FreeIds, Busy
  <2> QED BY <1>1, <1>3, <2>1, BatchAlone DEF OpensAlone
<1> QED BY <1>2, <1>3, EmptyPlanAlone DEF SchedulerTick, ResumeSession, RunAutoOnce, DropSession

\* A stop and a deletion close rows.
LEMMA CloseAlone ==
  ASSUME SInv, \/ \E j \in Jobs, hard \in BOOLEAN : FinishStop(j, hard)
               \/ \E S \in SUBSET Jobs : DropRows(S)
  PROVE  ActiveIn(row') \subseteq ActiveIn(row)
<1> SUFFICES ASSUME NEW i \in Jobs, row'[i].status \in ActiveSt PROVE row[i].status \in ActiveSt
  BY DEF ActiveIn
<1>1. ASSUME NEW j \in Jobs, NEW hard, FinishStop(j, hard) PROVE row[i].status \in ActiveSt
  <2>1. CASE Driven(j) BY <1>1, <2>1 DEF FinishStop
  <2>2. CASE ~Driven(j)
    <3>1. row' = [row EXCEPT ![j].status = "cancelled"] BY <1>1, <2>2 DEF FinishStop
    <3>2. row'[j].status = "cancelled" BY <3>1 DEF SInv, IInv, TypeOK, Rows
    <3>3. i # j BY <3>2 DEF ActiveSt
    <3> QED BY <3>1, <3>3 DEF SInv, IInv, TypeOK
  <2> QED BY <2>1, <2>2
<1>2. ASSUME NEW S \in SUBSET Jobs, DropRows(S) PROVE row[i].status \in ActiveSt
  <2>1. i \notin S BY <1>2 DEF DropRows, NoRow, ActiveSt
  <2> QED BY <1>2, <2>1 DEF DropRows
<1> QED BY <1>1, <1>2

\* The requests that open a job: only they may run beside what is active.
OpeningRequests == {"single", "retry", "manual", "named"}
ByHand == \/ CreateTask
          \/ \E j \in Jobs : RetryTask(j)
          \/ \E f \in Flows : RunFlow(f) \/ \E T \in SUBSET Songs : RunNamed(f, T)

\* Whatever is no such request makes the active rows fewer, or leaves one.
LEMMA StepAlone ==
  ASSUME SInv, [Next]_vars, ~ByHand PROVE OpensAlone
<1>1. CASE \E n \in Loops : ChildStep(n) \/ LoopStep(n) BY <1>1, ChildAlone, LoopAlone
<1>2. CASE \E f \in Flows : SchedulerTick(f) BY <1>2, SchedulerAlone
<1>3. CASE ResumeInterruptedFetchJobs
  <2>1. PICK at : StartAll(row, ctl, loop, at) BY <1>3 DEF ResumeInterruptedFetchJobs
  <2>2. row \in [Jobs -> Rows] BY DEF SInv, IInv, TypeOK
  <2> QED BY <2>1, <2>2, StartFewer DEF OpensAlone
<1>4. CASE row' = row BY <1>4 DEF OpensAlone
<1>5. CASE Boot \/ Environment \/ UNCHANGED vars
  BY <1>4, <1>5 DEF Boot, Environment, Remount, Crash, ComeDue, ChildDies, vars, db
<1>6. CASE UserStep
  <2>1. ASSUME NEW j \in Jobs, Cancel(j) \/ ForceStop(j) PROVE OpensAlone
    <3>1. FinishStop(j, FALSE) \/ FinishStop(j, TRUE) BY <2>1 DEF Cancel, ForceStop
    <3>2. FALSE \in BOOLEAN /\ TRUE \in BOOLEAN OBVIOUS
    <3> QED BY <3>1, <3>2, CloseAlone DEF OpensAlone
  <2>2. ASSUME NEW S \in SUBSET Jobs, DropRows(S) PROVE OpensAlone
    BY <2>2, CloseAlone DEF OpensAlone
  <2>3. ASSUME NEW f \in Flows, NEW b \in BOOLEAN,
               ResetAttempts(f) \/ SetAutoEnabled(f, b) \/ SetAutoContinue(f, b)
        PROVE  OpensAlone
    BY <1>4, <2>3 DEF ResetAttempts, SetAutoEnabled, SetAutoContinue
  <2> QED BY <1>6, <2>1, <2>2, <2>3 DEF UserStep, ByHand
<1> QED BY <1>1, <1>2, <1>3, <1>5, <1>6 DEF Next

\* The end of a batch, the schedulers, the restart and every event but a request
\* for a new job never add an active row to active rows: what they open is alone
\* in the table (hasAnyActiveJob in maybeContinueLibraryJob,
\* maybeContinueUpgradeJob and the ticks of both schedulers).
THEOREM BatchesGiveWay == Spec => [][ByHand \/ OpensAlone]_vars
<1>1. ASSUME SInv, [Next]_vars PROVE [ByHand \/ OpensAlone]_vars BY <1>1, StepAlone
<1> QED BY <1>1, InitServes, StepServes, PTL DEF Spec

\* At most one row is active.
OneActive == \A i, j \in ActiveIn(row) : i = j

\* As long as nobody asks for a job by hand, the batches of the two flows never
\* run side by side, whatever is stopped, resumed, reconfigured or killed.
THEOREM AutoBatchesGiveWay ==
  ASSUME Events \cap OpeningRequests = {}
  PROVE  Spec => []AutoBatchesAlone
<1>1. Init => OneActive BY DEF Init, OneActive, ActiveIn, NoRow, ActiveSt
<1>2. ASSUME SInv, OneActive, [Next]_vars PROVE OneActive'
  <2>1. \A e \in OpeningRequests : ~Spend(e) BY DEF Spend
  <2>2. ~ByHand BY <2>1 DEF ByHand, CreateTask, RetryTask, RunFlow, RunNamed, OpeningRequests
  <2>3. OpensAlone BY <1>2, <2>2, StepAlone
  <2> QED BY <1>2, <2>3 DEF OneActive, OpensAlone, ActiveIn
<1>3. OneActive => AutoBatchesAlone
  <2> SUFFICES ASSUME OneActive PROVE Cardinality(ActiveIn(row)) <= 1 BY DEF AutoBatchesAlone
  <2>1. CASE ActiveIn(row) = {} BY <2>1, FS_EmptySet
  <2>2. CASE ActiveIn(row) # {}
    <3>1. PICK k : ActiveIn(row) = {k} BY <2>2 DEF OneActive
    <3>2. Cardinality({k}) = 1 BY FS_Singleton
    <3> QED BY <3>1, <3>2
  <2> QED BY <2>1, <2>2
<1> QED BY <1>1, <1>2, <1>3, InitServes, StepServes, PTL DEF Spec

=============================================================================
