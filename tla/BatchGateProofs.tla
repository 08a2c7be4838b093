-------------------------- MODULE BatchGateProofs --------------------------
(***************************************************************************)
(* Proofs about BatchGate, for any number of calls and plugins: the        *)
(* counters of the gate agree with the calls, no call waits while there is *)
(* room, and the gate implements BatchLock.                                *)
(***************************************************************************)
EXTENDS BatchGate, FiniteSetTheorems, SequenceTheorems, TLAPS

-----------------------------------------------------------------------------
(* pumpLock.                                                               *)

\* Fits and In are QueueFits and Inside of any queue and any calls.
Fits(q, f) ==
  /\ \A c \in Calls : f[c].pc = "queued" <=> \E i \in 1..Len(q) : q[i] = c
  /\ \A i, j \in 1..Len(q) : q[i] = q[j] => i = j
In(f) == {c \in Calls : f[c].pc \in {"granted", "running", "settled"}}

\* The calls inside after a step: those of f, and the first of q.
Enter(q, f) == \E k \in 0..Len(q) : Inside' = In(f) \cup FirstOf(q, k)

LEMMA CallsFinite == ASSUME NEW S \in SUBSET Calls PROVE IsFiniteSet(S) /\ Cardinality(S) \in Nat
BY GateAssumption, FS_Subset, FS_CardinalityType

\* pumpLock fills the gate, no further, or empties the queue.
LEMMA RoomBounds ==
  ASSUME NEW lim \in Nat, NEW h \in Nat, NEW q \in Seq(Calls)
  PROVE  /\ Room(lim, h, q) \in 0..Len(q)
         /\ Room(lim, h, q) > 0 => h + Room(lim, h, q) <= lim
         /\ Room(lim, h, q) < Len(q) => h + Room(lim, h, q) >= lim
<1>1. Len(q) \in Nat
  OBVIOUS
<1> QED BY <1>1 DEF Room

\* A queue without repetitions admits as many calls as it loses places.
LEMMA FirstOfCount ==
  ASSUME NEW q \in Seq(Calls), NEW k \in 0..Len(q),
         \A i, j \in 1..Len(q) : q[i] = q[j] => i = j
  PROVE  Cardinality(FirstOf(q, k)) = k
<1> DEFINE g == [i \in 1..k |-> q[i]]
<1>1. k \in Nat /\ 1..k \subseteq 1..Len(q)
  OBVIOUS
<1>2. g \in [1..k -> FirstOf(q, k)]
  BY DEF FirstOf
<1>3. \A a, b \in 1..k : g[a] = g[b] => a = b
  BY <1>1
<1>4. \A t \in FirstOf(q, k) : \E s \in 1..k : g[s] = t
  BY DEF FirstOf
<1>5. g \in Bijection(1..k, FirstOf(q, k))
  BY <1>2, <1>3, <1>4 DEF Bijection, Injection, Surjection, IsInjective
<1> QED BY <1>1, <1>5, FS_CountingElements DEF ExistsBijection

\* What a pump leaves behind, whatever queue and calls it is given.
LEMMA PumpWorks ==
  ASSUME NEW lim \in 1..MaxLimit, NEW h \in Nat, NEW q \in Seq(Calls), NEW f \in [Calls -> CallSt],
         Fits(q, f), h = Cardinality(In(f)), Pump(lim, h, q, f)
  PROVE  /\ limit' = lim /\ holders' \in Nat /\ queue' \in Seq(Calls) /\ call' \in [Calls -> CallSt]
         /\ QueueFits'
         /\ holders' = Cardinality(Inside')
         /\ holders' + Len(queue') = h + Len(q)
         /\ NoIdleSlot'
         /\ In(f) \subseteq Inside'
         /\ Inside' \subseteq In(f) \/ Cardinality(Inside') <= lim
         /\ Enter(q, f)
<1> DEFINE k == Room(lim, h, q)
           A == FirstOf(q, k)
<1>0. MaxLimit \in Nat /\ lim \in Nat /\ Len(q) \in Nat
  BY GateAssumption
<1>1. /\ k \in 0..Len(q) /\ (k > 0 => h + k <= lim) /\ (k < Len(q) => h + k >= lim)
  BY <1>0, RoomBounds
<1>2. /\ limit' = lim /\ holders' = h + k /\ queue' = SubSeq(q, k + 1, Len(q))
      /\ call' = [c \in Calls |-> IF c \in A THEN [f[c] EXCEPT !.pc = "granted"] ELSE f[c]]
  BY DEF Pump, RestOf
<1>3. /\ queue' \in Seq(Calls) /\ Len(queue') = Len(q) - k
      /\ \A i \in 1..Len(queue') : queue'[i] = q[k + i]
  <2>1. \A i \in (k + 1)..Len(q) : q[i] \in Calls
    BY <1>0, <1>1
  <2>2. /\ SubSeq(q, k + 1, Len(q)) \in Seq(Calls)
        /\ Len(SubSeq(q, k + 1, Len(q))) = IF k + 1 <= Len(q) THEN Len(q) - (k + 1) + 1 ELSE 0
        /\ \A i \in 1..(Len(q) - (k + 1) + 1) : SubSeq(q, k + 1, Len(q))[i] = q[k + 1 + i - 1]
    BY <1>0, <1>1, <2>1, SubSeqProperties
  <2>3. queue' \in Seq(Calls) /\ Len(queue') = Len(q) - k
    <3>1. k \in Nat /\ k <= Len(q)
      BY <1>0, <1>1
    <3>2. (IF k + 1 <= Len(q) THEN Len(q) - (k + 1) + 1 ELSE 0) = Len(q) - k
      BY <1>0, <3>1
    <3> QED BY <1>2, <2>2, <3>2
  <2>4. ASSUME NEW i \in 1..Len(queue') PROVE queue'[i] = q[k + i]
    <3>1. i \in 1..(Len(q) - (k + 1) + 1) /\ k + 1 + i - 1 = k + i
      BY <1>0, <1>1, <2>3
    <3> QED BY <1>2, <2>2, <3>1
  <2> QED BY <2>3, <2>4
<1>4. call' \in [Calls -> CallSt]
  BY <1>2 DEF CallSt
<1>5. A \subseteq {c \in Calls : f[c].pc = "queued"}
  <2>1. \A i \in 1..k : q[i] \in Calls /\ f[q[i]].pc = "queued"
    BY <1>0, <1>1 DEF Fits
  <2> QED BY <2>1 DEF FirstOf
<1>6. \A c \in Calls : call'[c].pc = IF c \in A THEN "granted" ELSE f[c].pc
  BY <1>2 DEF CallSt
<1>7. Inside' = In(f) \cup A
  BY <1>5, <1>6 DEF Inside, In
<1>8. QueueFits'
  <2>1. ASSUME NEW c \in Calls, call'[c].pc = "queued" PROVE \E i \in 1..Len(queue') : queue'[i] = c
    <3>1. f[c].pc = "queued" /\ c \notin A
      BY <1>6, <2>1
    <3>2. PICK i \in 1..Len(q) : q[i] = c
      BY <3>1 DEF Fits
    <3>3. i > k
      BY <1>0, <1>1, <3>1, <3>2 DEF FirstOf
    <3>4. i - k \in 1..Len(queue') /\ queue'[i - k] = c
      BY <1>0, <1>1, <1>3, <3>2, <3>3
    <3> QED BY <3>4
  <2>2. ASSUME NEW c \in Calls, NEW i \in 1..Len(queue'), queue'[i] = c PROVE call'[c].pc = "queued"
    <3>1. k + i \in 1..Len(q) /\ q[k + i] = c
      BY <1>0, <1>1, <1>3, <2>2
    <3>2. f[c].pc = "queued"
      BY <3>1 DEF Fits
    <3>3. c \notin A
      BY <1>0, <1>1, <3>1 DEF Fits, FirstOf
    <3> QED BY <1>6, <3>2, <3>3
  <2>3. \A i, j \in 1..Len(queue') : queue'[i] = queue'[j] => i = j
    <3> SUFFICES ASSUME NEW i \in 1..Len(queue'), NEW j \in 1..Len(queue'), queue'[i] = queue'[j]
                 PROVE  i = j
      OBVIOUS
    <3>1. k + i \in 1..Len(q) /\ k + j \in 1..Len(q) /\ q[k + i] = q[k + j]
      BY <1>0, <1>1, <1>3
    <3>2. k + i = k + j
      BY <3>1 DEF Fits
    <3> QED BY <1>0, <1>1, <3>2
  <2> QED BY <2>1, <2>2, <2>3 DEF QueueFits, Queued
<1>9. Cardinality(Inside') = h + k
  <2>1. Cardinality(A) = k
    BY <1>1, FirstOfCount DEF Fits
  <2>2. In(f) \cap A = {}
    BY <1>5 DEF In
  <2>3. IsFiniteSet(In(f)) /\ IsFiniteSet(A)
    BY <1>5, CallsFinite DEF In
  <2>4. Cardinality(In(f) \cup A) = Cardinality(In(f)) + Cardinality(A) - Cardinality({})
    BY <2>2, <2>3, FS_Union
  <2> QED BY <1>0, <1>1, <1>7, <2>1, <2>4, FS_EmptySet
<1>10. Inside' \subseteq In(f) \/ Cardinality(Inside') <= lim
  <2>1. CASE k = 0
    BY <1>7, <2>1 DEF FirstOf
  <2>2. CASE k > 0
    BY <1>1, <1>9, <2>2
  <2> QED BY <1>0, <1>1, <2>1, <2>2
<1>11. NoIdleSlot'
  <2>1. ASSUME queue' # <<>> PROVE Len(queue') > 0
    BY <1>3, <2>1
  <2> QED BY <1>0, <1>1, <1>2, <1>3, <2>1 DEF NoIdleSlot
<1>12. Enter(q, f)
  BY <1>1, <1>7 DEF Enter
<1> QED BY <1>0, <1>1, <1>2, <1>3, <1>4, <1>7, <1>8, <1>9, <1>10, <1>11, <1>12

-----------------------------------------------------------------------------
(* The invariant, action by action.                                        *)

\* TypeOK and Accounts are inductive together: what a pump may admit depends on
\* holders, which only counts right if every call is counted once.  NoIdleSlot
\* holds after each pump, and no other step touches limit, holders or queue.
GInv == TypeOK /\ Accounts /\ NoIdleSlot

\* A call is let in together with all that came before it.
InOrder == \A i, j \in 1..Len(queue) : i < j /\ queue[j] \in Inside' => queue[i] \in Inside'

\* What every step promises BatchLock, and FirstComeFirstServed.
LockStep == /\ limit' \in Nat \ {0}
            /\ Inside' \subseteq Inside \/ Cardinality(Inside') <= limit'
            /\ InOrder

\* A pump admits in order if its queue begins with that of the gate and the
\* calls it takes for admitted are not waiting.
LEMMA PumpInOrder ==
  ASSUME GInv, NEW q \in Seq(Calls), NEW f, Enter(q, f), In(f) \subseteq Inside, Len(queue) <= Len(q),
         \A i \in 1..Len(queue) : q[i] = queue[i],
         \A i, j \in 1..Len(q) : q[i] = q[j] => i = j
  PROVE  InOrder
<1> SUFFICES ASSUME NEW i \in 1..Len(queue), NEW j \in 1..Len(queue), i < j, queue[j] \in Inside'
             PROVE  queue[i] \in Inside'
  BY DEF InOrder
<1>1. Len(queue) \in Nat /\ Len(q) \in Nat /\ i \in 1..Len(q) /\ j \in 1..Len(q)
  BY DEF GInv, TypeOK
<1>2. queue[j] \in Queued
  BY DEF GInv, TypeOK, Accounts, QueueFits
<1>3. queue[j] \notin In(f)
  BY <1>2 DEF Queued, Inside
<1>4. PICK k \in 0..Len(q) : Inside' = In(f) \cup FirstOf(q, k)
  BY DEF Enter
<1>5. PICK m \in 1..k : queue[j] = q[m]
  BY <1>4, <1>3 DEF FirstOf
<1>6. m = j
  BY <1>1, <1>5
<1>7. i \in 1..k /\ queue[i] = q[i]
  BY <1>1, <1>6
<1> QED BY <1>4, <1>7 DEF FirstOf

LEMMA LimitType ==
  ASSUME NEW m \in Nat, NEW ps \in SUBSET Plugins
  PROVE  AtMost(MaxLimit, AtLeast(m, AtLeast(1, Cardinality(ps)))) \in 1..MaxLimit
<1>1. Cardinality(ps) \in Nat /\ MaxLimit \in Nat \ {0}
  BY GateAssumption, FS_Subset, FS_CardinalityType
<1> QED BY <1>1 DEF AtMost, AtLeast

\* A step that only moves calls inside the gate, or changes what is kept of them.
LEMMA QuietStep ==
  ASSUME GInv, UNCHANGED gate, UNCHANGED conf, call' \in [Calls -> CallSt],
         child' \in [Calls -> {"none", "working", "killed"}],
         \A c \in Calls : /\ call'[c].pc = "queued" <=> call[c].pc = "queued"
                          /\ c \in Inside' <=> c \in Inside
  PROVE  GInv' /\ LockStep
<1>1. Inside' = Inside
  BY DEF Inside
<1>2. TypeOK'
  BY DEF GInv, TypeOK, gate, conf
<1>3. QueueFits'
  BY DEF GInv, Accounts, QueueFits, Queued, gate
<1>4. Accounts' /\ NoIdleSlot'
  BY <1>1, <1>3 DEF GInv, Accounts, NoIdleSlot, gate
<1>5. MaxLimit \in Nat
  BY GateAssumption
<1>6. InOrder
  <2>1. \A j \in 1..Len(queue) : queue[j] \in Queued
    BY DEF GInv, TypeOK, Accounts, QueueFits
  <2> QED BY <1>1, <2>1 DEF InOrder, Queued, Inside
<1> QED BY <1>1, <1>2, <1>4, <1>5, <1>6 DEF GInv, LockStep, TypeOK, gate

LEMMA AcquireStep == ASSUME GInv, NEW c \in Calls, Acquire(c) PROVE GInv' /\ LockStep
<1> DEFINE q == Append(queue, c)
           f == [call EXCEPT ![c].pc = "queued"]
<1>1. Pump(limit, holders, q, f) /\ call[c].pc = "out" /\ UNCHANGED conf /\ UNCHANGED child
      /\ pending' = pending + 1
  BY DEF Acquire
<1>2. /\ limit \in 1..MaxLimit /\ holders \in Nat /\ pending \in Nat /\ queue \in Seq(Calls) /\ Len(queue) \in Nat
      /\ call \in [Calls -> CallSt] /\ MaxLimit \in Nat
  BY GateAssumption DEF GInv, TypeOK
<1>3. q \in Seq(Calls) /\ Len(q) = Len(queue) + 1 /\ q[Len(queue) + 1] = c
      /\ \A i \in 1..Len(queue) : q[i] = queue[i]
  BY <1>2, AppendProperties
<1>4. f \in [Calls -> CallSt] /\ \A d \in Calls : f[d].pc = IF d = c THEN "queued" ELSE call[d].pc
  BY <1>2 DEF CallSt
<1>5. Fits(q, f)
  <2>1. \A i \in 1..Len(queue) : queue[i] # c
    BY <1>1, <1>2 DEF GInv, Accounts, QueueFits, Queued
  <2>2. ASSUME NEW d \in Calls, f[d].pc = "queued" PROVE \E i \in 1..Len(q) : q[i] = d
    <3>1. CASE d = c
      BY <1>2, <1>3, <3>1
    <3>2. CASE d # c
      <4>1. PICK i \in 1..Len(queue) : queue[i] = d
        BY <1>4, <2>2, <3>2 DEF GInv, Accounts, QueueFits, Queued
      <4> QED BY <1>2, <1>3, <4>1
    <3> QED BY <3>1, <3>2
  <2>3. ASSUME NEW d \in Calls, NEW i \in 1..Len(q), q[i] = d PROVE f[d].pc = "queued"
    <3>1. CASE i = Len(queue) + 1
      BY <1>3, <1>4, <2>3, <3>1
    <3>2. CASE i \in 1..Len(queue)
      BY <1>3, <1>4, <2>3, <3>2 DEF GInv, Accounts, QueueFits, Queued
    <3> QED BY <1>2, <1>3, <3>1, <3>2
  <2>4. ASSUME NEW i \in 1..Len(q), NEW j \in 1..Len(q), q[i] = q[j] PROVE i = j
    <3>1. CASE i \in 1..Len(queue) /\ j \in 1..Len(queue)
      BY <1>3, <2>4, <3>1 DEF GInv, Accounts, QueueFits
    <3>2. CASE ~(i \in 1..Len(queue) /\ j \in 1..Len(queue))
      BY <1>2, <1>3, <2>1, <2>4, <3>2
    <3> QED BY <3>1, <3>2
  <2> QED BY <2>2, <2>3, <2>4 DEF Fits
<1>6. In(f) = Inside /\ holders = Cardinality(In(f))
  <2>1. \A d \in Calls : f[d].pc \in {"granted", "running", "settled"} <=> call[d].pc \in {"granted", "running", "settled"}
    BY <1>1, <1>4
  <2>2. In(f) = Inside
    BY <2>1 DEF In, Inside
  <2> QED BY <2>2 DEF GInv, Accounts
<1> HIDE DEF q, f
<1>7. /\ limit' = limit /\ holders' \in Nat /\ queue' \in Seq(Calls) /\ call' \in [Calls -> CallSt]
      /\ QueueFits' /\ holders' = Cardinality(Inside') /\ holders' + Len(queue') = holders + Len(q)
      /\ NoIdleSlot' /\ (Inside' \subseteq In(f) \/ Cardinality(Inside') <= limit)
      /\ Enter(q, f)
  BY <1>1, <1>2, <1>3, <1>4, <1>5, <1>6, PumpWorks
<1>8. TypeOK'
  BY <1>1, <1>2, <1>7 DEF GInv, TypeOK, conf
<1>9. Accounts'
  <2>1. pending = holders + Len(queue)
    BY DEF GInv, Accounts
  <2> QED BY <1>1, <1>2, <1>3, <1>7, <2>1 DEF Accounts
<1>10. InOrder
  <2>1. \A i, j \in 1..Len(q) : q[i] = q[j] => i = j
    BY <1>5 DEF Fits
  <2>2. Len(queue) <= Len(q)
    BY <1>2, <1>3
  <2> QED BY <1>3, <1>6, <1>7, <2>1, <2>2, PumpInOrder
<1> QED BY <1>2, <1>6, <1>7, <1>8, <1>9, <1>10 DEF GInv, LockStep

LEMMA ReleaseStep == ASSUME GInv, NEW c \in Calls, Release(c) PROVE GInv' /\ LockStep
<1> DEFINE f == [call EXCEPT ![c] = NoCall]
<1>1. Pump(limit, holders - 1, queue, f) /\ call[c].pc = "settled" /\ UNCHANGED conf /\ UNCHANGED child
      /\ pending' = pending - 1
  BY DEF Release
<1>2. /\ limit \in 1..MaxLimit /\ holders \in Nat /\ pending \in Nat /\ queue \in Seq(Calls) /\ Len(queue) \in Nat
      /\ call \in [Calls -> CallSt] /\ MaxLimit \in Nat
  BY GateAssumption DEF GInv, TypeOK
<1>3. f \in [Calls -> CallSt] /\ \A d \in Calls : f[d].pc = IF d = c THEN "out" ELSE call[d].pc
  BY <1>2 DEF CallSt, NoCall
<1>4. Fits(queue, f)
  BY <1>1, <1>3 DEF Fits, GInv, Accounts, QueueFits, Queued
<1>5. In(f) = Inside \ {c} /\ c \in Inside
  BY <1>1, <1>3 DEF In, Inside
<1>6. Cardinality(In(f)) = holders - 1 /\ holders - 1 \in Nat
  <2>1. IsFiniteSet(Inside) /\ Cardinality(Inside) = holders
    BY CallsFinite DEF Inside, GInv, Accounts
  <2>2. Cardinality(In(f)) = Cardinality(Inside) - 1
    BY <1>5, <2>1, FS_RemoveElement
  <2>3. Cardinality(In(f)) \in Nat
    BY CallsFinite DEF In
  <2> QED BY <2>1, <2>2, <2>3
<1> HIDE DEF f
<1>7. /\ limit' = limit /\ holders' \in Nat /\ queue' \in Seq(Calls) /\ call' \in [Calls -> CallSt]
      /\ QueueFits' /\ holders' = Cardinality(Inside') /\ holders' + Len(queue') = holders - 1 + Len(queue)
      /\ NoIdleSlot' /\ (Inside' \subseteq In(f) \/ Cardinality(Inside') <= limit)
      /\ Enter(queue, f)
  BY <1>1, <1>2, <1>3, <1>4, <1>6, PumpWorks
<1>8. pending' = holders' + Len(queue') /\ Len(queue') \in Nat
  <2>1. pending = holders + Len(queue)
    BY DEF GInv, Accounts
  <2> QED BY <1>1, <1>2, <1>7, <2>1
<1>9. TypeOK'
  BY <1>1, <1>2, <1>7, <1>8 DEF GInv, TypeOK, conf
<1>10. Accounts'
  BY <1>7, <1>8 DEF Accounts
<1>11. InOrder
  <2>1. \A i, j \in 1..Len(queue) : queue[i] = queue[j] => i = j
    BY <1>4 DEF Fits
  <2> QED BY <1>2, <1>5, <1>7, <2>1, PumpInOrder
<1> QED BY <1>2, <1>5, <1>7, <1>9, <1>10, <1>11 DEF GInv, LockStep

\* A change of the limit, to whatever value configuration asks for.
LEMMA LimitStep ==
  ASSUME GInv, NEW fl \in Nat, NEW ps \in SUBSET Plugins, SetBatchConcurrencyLimit(fl, ps),
         floor' \in 1..MaxLimit, parallel' \subseteq Plugins, Change, UNCHANGED pending, UNCHANGED child
  PROVE  GInv' /\ LockStep
<1> DEFINE lim == AtMost(MaxLimit, AtLeast(fl, AtLeast(1, Cardinality(ps))))
<1>1. lim \in 1..MaxLimit
  BY LimitType
<1>2. Pump(lim, holders, queue, call)
  BY DEF SetBatchConcurrencyLimit
<1> HIDE DEF lim
<1>3. /\ holders \in Nat /\ pending \in Nat /\ queue \in Seq(Calls) /\ Len(queue) \in Nat
      /\ call \in [Calls -> CallSt] /\ MaxLimit \in Nat
  BY GateAssumption DEF GInv, TypeOK
<1>4. Fits(queue, call) /\ In(call) = Inside /\ holders = Cardinality(In(call))
  BY DEF Fits, In, Inside, GInv, Accounts, QueueFits, Queued
<1>5. /\ limit' = lim /\ holders' \in Nat /\ queue' \in Seq(Calls) /\ call' \in [Calls -> CallSt]
      /\ QueueFits' /\ holders' = Cardinality(Inside') /\ holders' + Len(queue') = holders + Len(queue)
      /\ NoIdleSlot' /\ (Inside' \subseteq In(call) \/ Cardinality(Inside') <= lim)
      /\ Enter(queue, call)
  BY <1>1, <1>2, <1>3, <1>4, PumpWorks
<1>6. changes' \in 0..MaxChanges
  BY GateAssumption DEF GInv, TypeOK, Change
<1>7. TypeOK'
  BY <1>1, <1>3, <1>5, <1>6 DEF GInv, TypeOK
<1>8. Accounts'
  BY <1>3, <1>5 DEF GInv, Accounts
<1>9. InOrder
  <2>1. \A i, j \in 1..Len(queue) : queue[i] = queue[j] => i = j
    BY <1>4 DEF Fits
  <2> QED BY <1>3, <1>4, <1>5, <2>1, PumpInOrder
<1> QED BY <1>1, <1>3, <1>4, <1>5, <1>7, <1>8, <1>9 DEF GInv, LockStep

-----------------------------------------------------------------------------
(* Every step.                                                             *)

LEMMA GateStep == ASSUME GInv, Next PROVE GInv' /\ LockStep
<1>0. /\ call \in [Calls -> CallSt] /\ child \in [Calls -> {"none", "working", "killed"}]
      /\ MaxLimit \in Nat \ {0}
  BY GateAssumption DEF GInv, TypeOK
<1>1. ASSUME NEW c \in Calls, Acquire(c) PROVE GInv' /\ LockStep
  BY <1>1, AcquireStep
<1>2. ASSUME NEW c \in Calls, Release(c) PROVE GInv' /\ LockStep
  BY <1>2, ReleaseStep
<1>3. ASSUME NEW c \in Calls, Fork(c) PROVE GInv' /\ LockStep
  <2>1. call' \in [Calls -> CallSt] /\ child' \in [Calls -> {"none", "working", "killed"}]
    BY <1>0, <1>3 DEF Fork, CallSt
  <2>2. \A d \in Calls : d # c => call'[d] = call[d]
    BY <1>0, <1>3 DEF Fork
  <2>3. call[c].pc = "granted" /\ call'[c].pc \in {"running", "settled"}
    BY <1>0, <1>3 DEF Fork, CallSt
  <2>4. UNCHANGED gate /\ UNCHANGED conf
    BY <1>3 DEF Fork
  <2> QED BY <2>1, <2>2, <2>3, <2>4, QuietStep DEF Inside
<1>4. ASSUME NEW c \in Calls, Abort(c) PROVE GInv' /\ LockStep
  <2>1. child' = child /\ UNCHANGED gate /\ UNCHANGED conf
    BY <1>4 DEF Abort
  <2>2. call' \in [Calls -> CallSt]
    <3> DEFINE b == call[c].pc = "running"
               r == [call[c] EXCEPT !.signal = TRUE, !.aborted = b, !.timer = b]
    <3>1. r \in CallSt
      <4>1. call[c] \in CallSt /\ b \in BOOLEAN
        BY <1>0
      <4> HIDE DEF b
      <4> QED BY <4>1 DEF CallSt
    <3>2. call' = [call EXCEPT ![c] = r]
      BY <1>4, Zenon DEF Abort
    <3> HIDE DEF r
    <3> QED BY <1>0, <3>1, <3>2
  <2>3. \A d \in Calls : call'[d].pc = call[d].pc
    BY <1>0, <1>4 DEF Abort, CallSt
  <2> QED BY <1>0, <2>1, <2>2, <2>3, QuietStep DEF Inside
<1>5. ASSUME NEW c \in Calls, ChildEnds(c) \/ Watchdog(c) \/ KillTimer(c) \/ KilledExits(c)
      PROVE GInv' /\ LockStep
  <2>1. call' \in [Calls -> CallSt] /\ child' \in [Calls -> {"none", "working", "killed"}]
    <3>1. Settled(c) \in [Calls -> CallSt] /\ [call EXCEPT ![c].timer = FALSE] \in [Calls -> CallSt]
      BY <1>0 DEF Settled, CallSt
    <3>2. /\ [child EXCEPT ![c] = "none"] \in [Calls -> {"none", "working", "killed"}]
          /\ [child EXCEPT ![c] = "killed"] \in [Calls -> {"none", "working", "killed"}]
      BY <1>0
    <3> QED BY <1>0, <1>5, <3>1, <3>2 DEF ChildEnds, Watchdog, KillTimer, KilledExits
  <2>2. \A d \in Calls : call'[d].pc = call[d].pc \/ (call[d].pc = "running" /\ call'[d].pc = "settled")
    BY <1>0, <1>5 DEF ChildEnds, Watchdog, KillTimer, KilledExits, Settled, CallSt
  <2>3. UNCHANGED gate /\ UNCHANGED conf
    BY <1>5 DEF ChildEnds, Watchdog, KillTimer, KilledExits
  <2> QED BY <2>1, <2>2, <2>3, QuietStep DEF Inside
<1>6. ASSUME NEW n \in Floors, EnsureBaseBatchLimit(n) PROVE GInv' /\ LockStep
  <2>1. floor' \in 1..MaxLimit
    BY <1>0, <1>6, GateAssumption DEF EnsureBaseBatchLimit, AtMost, AtLeast
  <2>2. parallel \in SUBSET Plugins /\ parallel' = parallel /\ floor' \in Nat
    BY <1>0, <1>6, <2>1 DEF EnsureBaseBatchLimit, GInv, TypeOK
  <2> QED BY <1>6, <2>1, <2>2, LimitStep DEF EnsureBaseBatchLimit
<1>7. ASSUME NEW p \in Plugins, RegisterBatchWorker(p) \/ UnregisterBatchWorker(p) PROVE GInv' /\ LockStep
  <2>1. floor \in Nat /\ floor' = floor /\ floor' \in 1..MaxLimit /\ parallel' \in SUBSET Plugins
    BY <1>0, <1>7 DEF RegisterBatchWorker, UnregisterBatchWorker, GInv, TypeOK
  <2> QED BY <1>7, <2>1, LimitStep DEF RegisterBatchWorker, UnregisterBatchWorker
<1> QED BY <1>1, <1>2, <1>3, <1>4, <1>5, <1>6, <1>7 DEF Next, CallStep

LEMMA GateInit == ASSUME Init PROVE GInv
<1>1. MaxLimit \in Nat \ {0} /\ MaxChanges \in Nat
  BY GateAssumption
<1>2. TypeOK
  BY <1>1 DEF Init, TypeOK, NoCall, CallSt
<1>3. Inside = {} /\ Len(queue) = 0 /\ QueueFits
  BY DEF Init, Inside, QueueFits, Queued, NoCall
<1> QED BY <1>2, <1>3, FS_EmptySet DEF GInv, Accounts, NoIdleSlot, Init

\* Nothing changes without a step.
LEMMA GateStutter == ASSUME GInv, UNCHANGED vars PROVE GInv'
BY DEF GInv, TypeOK, Accounts, QueueFits, NoIdleSlot, Queued, Inside, vars

LEMMA GateInvariant == Spec => []GInv
<1>1. Init => GInv
  BY GateInit
<1>2. GInv /\ [Next]_vars => GInv'
  BY GateStep, GateStutter
<1> QED BY <1>1, <1>2, PTL DEF Spec

\* The counters of batchPacer.ts agree with the calls they count, however the
\* calls of runBatchJob end.
THEOREM GateTypeCorrect == Spec => []TypeOK
BY GateInvariant, PTL DEF GInv

\* A slot is neither lost nor given back twice, and the queue lists every
\* waiting call once.
THEOREM GateAccounts == Spec => []Accounts
BY GateInvariant, PTL DEF GInv

\* acquire, release and every change of the limit leave no call waiting while
\* there is room (pumpLock is called wherever it must be).
THEOREM GateWorkConserving == Spec => []NoIdleSlot
BY GateInvariant, PTL DEF GInv

\* Calls enter in the order in which they came, also when a change of the limit
\* lets several in at once.
THEOREM GateInArrivalOrder == Spec => FirstComeFirstServed
<1>1. GInv /\ [Next]_vars => [InOrder]_vars
  BY GateStep DEF LockStep
<1> QED BY <1>1, GateInvariant, PTL DEF Spec, FirstComeFirstServed, InOrder

\* The gate of the code is a BatchLock: nobody is let in beyond the limit of
\* that moment, whatever the configuration does to it.
THEOREM GateImplementsLock == Spec => ImplementsLock
<1>1. Init => Lock!Init
  <2> SUFFICES ASSUME Init PROVE Lock!Init
    OBVIOUS
  <2> QED BY DEF Init, Lock!Init, Queued, Inside, NoCall
<1>2. GInv /\ [Next]_vars => [Lock!Next]_<<limit, Queued, Inside>>
  <2> SUFFICES ASSUME GInv, [Next]_vars PROVE [Lock!Next]_<<limit, Queued, Inside>>
    OBVIOUS
  <2>1. CASE Next
    <3>1. LockStep
      BY <2>1, GateStep
    <3>2. Queued' \subseteq Calls /\ Inside' \subseteq Calls /\ Queued' \cap Inside' = {}
      BY DEF Queued, Inside
    <3>3. Lock!Cardinality(Inside') = Cardinality(Inside')
      BY DEF Lock!Cardinality, Cardinality
    <3> QED BY <3>1, <3>2, <3>3 DEF LockStep, Lock!Next
  <2>2. CASE UNCHANGED vars
    BY <2>2 DEF vars, Queued, Inside
  <2> QED BY <2>1, <2>2
<1> QED BY <1>1, <1>2, GateInvariant, PTL DEF Spec, ImplementsLock, Lock!Spec

=============================================================================
