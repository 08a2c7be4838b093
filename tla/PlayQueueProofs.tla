-------------------------- MODULE PlayQueueProofs --------------------------
(***************************************************************************)
(* Proofs about PlayQueue, for any songs, lists, modes and number of calls *)
(* in flight: the queue always stands at one of its songs, and its shuffle *)
(* order is a permutation of as many places as it had when it was made;    *)
(* nothing of a call outlives it; everything kept for a device is of its   *)
(* type; a change of song takes the place in the shuffle order along; and  *)
(* the stop that follows a pause does not move the queue.                  *)
(***************************************************************************)
EXTENDS PlayQueue, TLAPS, FiniteSetTheorems, SequenceTheorems

(***************************************************************************)
(* The inductive invariant.                                                *)
(***************************************************************************)

\* The shuffle order names each of its own places once.  Its length may differ
\* from that of the queue: that is what ensureShuffleReady looks for.
OrderSound(k) ==
  /\ k.pos <= Len(k.order)
  /\ \A i \in 1..Len(k.order) : k.order[i] \in 1..Len(k.order)
  /\ \A i, j \in 1..Len(k.order) : k.order[i] = k.order[j] => i = j

\* The queue stands at one of its songs, at none if it has none.
Standing(k) == k.idx <= Len(k.items) /\ (k.idx = 0 <=> Len(k.items) = 0)

Sound(k) == k \in QueueRec /\ Standing(k) /\ OrderSound(k)

\* The order r belongs to the queue k, of which nothing else was changed.
OrderOf(r, k) ==
  /\ Sound(r) /\ Len(r.order) = Len(k.items)
  /\ r.items = k.items /\ r.idx = k.idx

-----------------------------------------------------------------------------
(* The shuffle order.                                                      *)

LEMMA OrdersArePermutations ==
  ASSUME NEW n \in Nat, NEW h, NEW o \in Orders(n, h)
  PROVE  /\ o \in Seq(Nat) /\ Len(o) = n
         /\ \A i \in 1..n : o[i] \in 1..n
         /\ \A i, j \in 1..n : o[i] = o[j] => i = j
<1>1. o \in [1..n -> 1..n] /\ \A i, j \in 1..n : o[i] = o[j] => i = j
  BY DEF Orders
<1>2. o \in [1..n -> Nat]
  BY <1>1
<1>3. o \in Seq(Nat)
  BY <1>2, SeqDef
<1>4. Len(o) = n
  BY <1>1, <1>3, LenProperties
<1> QED
  BY <1>1, <1>3, <1>4

\* rebuildShuffle makes an order for the queue as it is.
LEMMA RebuiltSound ==
  ASSUME NEW k, Sound(k), NEW r \in Rebuilt(k)
  PROVE  OrderOf(r, k)
<1> DEFINE h == IF k.idx \in DOMAIN k.items THEN k.idx ELSE 1
<1>1. k.items \in Seq(Songs) /\ k.idx \in Nat /\ Len(k.items) \in Nat /\ k \in QueueRec
  BY LenProperties DEF Sound, QueueRec
<1>2. PICK o \in Orders(Len(k.items), h) :
        r = [k EXCEPT !.order = o, !.pos = IF k.idx > 0 THEN 1 ELSE 0]
  BY DEF Rebuilt
<1> HIDE DEF h
<1>3. /\ o \in Seq(Nat) /\ Len(o) = Len(k.items)
      /\ \A i \in 1..Len(o) : o[i] \in 1..Len(o)
      /\ \A i, j \in 1..Len(o) : o[i] = o[j] => i = j
  BY <1>1, OrdersArePermutations
<1>4. r.items = k.items /\ r.idx = k.idx /\ r.order = o /\ r.pos = IF k.idx > 0 THEN 1 ELSE 0
  BY <1>1, <1>2 DEF QueueRec
<1>5. r \in QueueRec
  BY <1>1, <1>2, <1>3 DEF QueueRec
<1>6. k.idx > 0 => Len(k.items) > 0
  BY <1>1 DEF Sound, Standing
<1> QED
  BY <1>1, <1>3, <1>4, <1>5, <1>6 DEF OrderOf, Sound, Standing, OrderSound

\* ensureShuffleReady
LEMMA ReadySound ==
  ASSUME NEW k, Sound(k), NEW r \in Ready(k)
  PROVE  OrderOf(r, k)
<1>1. CASE Len(k.order) # Len(k.items)
  BY <1>1, RebuiltSound DEF Ready
<1>2. CASE Len(k.order) = Len(k.items)
  BY <1>2 DEF Ready, OrderOf
<1> QED
  BY <1>1, <1>2

\* ensureShuffleForLookahead
LEMMA LookedSound == ASSUME NEW k, Sound(k), NEW r \in Looked(k) PROVE Sound(r)
  BY ReadySound DEF Looked, OrderOf

\* Another place in its order, another song: the queue stays sound.
LEMMA MovedSound ==
  ASSUME NEW r, Sound(r), NEW p \in 0..Len(r.order)
  PROVE  OrderOf([r EXCEPT !.pos = p], r) <=> Len(r.order) = Len(r.items)
<1> DEFINE s == [r EXCEPT !.pos = p]
<1>1. r \in QueueRec /\ Len(r.order) \in Nat
  BY LenProperties DEF Sound, QueueRec
<1>0. p \in Nat
  BY <1>1
<1>2. s \in QueueRec /\ s.items = r.items /\ s.idx = r.idx /\ s.order = r.order /\ s.pos = p
  BY <1>0, <1>1 DEF QueueRec
<1> HIDE DEF s
<1>3. Standing(s) /\ OrderSound(s)
  BY <1>1, <1>2 DEF Sound, Standing, OrderSound
<1>4. OrderOf(s, r) <=> Len(r.order) = Len(r.items)
  BY <1>2, <1>3 DEF OrderOf, Sound
<1> QED
  BY <1>4 DEF s

\* shuffleNextIndex
LEMMA ShuffleNextSound ==
  ASSUME NEW k, Sound(k), k.items # <<>>, NEW s \in ShuffleNext(k)
  PROVE  OrderOf(s, k) /\ s.pos \in 1..Len(s.order) /\ s.order[s.pos] \in 1..Len(k.items)
<1>1. PICK r \in Ready(k) :
        s \in IF r.pos + 1 > Len(r.order) THEN NextRound(r) ELSE {[r EXCEPT !.pos = @ + 1]}
  BY DEF ShuffleNext
<1>2. OrderOf(r, k) /\ Sound(r)
  BY ReadySound DEF OrderOf
<1>3. k.items \in Seq(Songs) /\ Len(k.items) \in Nat /\ Len(k.items) # 0
  BY EmptySeq, LenProperties DEF Sound, QueueRec
<1>4. OrderOf(s, k) /\ s.pos \in 1..Len(s.order)
  <2>1. CASE r.pos + 1 > Len(r.order)
    <3>1. PICK r2 \in Rebuilt(r) : s = [r2 EXCEPT !.pos = IF Len(r2.order) > 1 THEN 2 ELSE 1]
      BY <1>1, <2>1 DEF NextRound
    <3>2. OrderOf(r2, r) /\ Sound(r2)
      BY <1>2, RebuiltSound DEF OrderOf
    <3>3. Len(r2.order) = Len(r2.items) /\ r2.items = k.items /\ r2.idx = k.idx
      BY <1>2, <3>2 DEF OrderOf
    <3>4. OrderOf(s, r2)
      <4>1. (IF Len(r2.order) > 1 THEN 2 ELSE 1) \in 0..Len(r2.order)
        BY <1>3, <3>3
      <4> QED
        BY <3>1, <3>2, <3>3, <4>1, MovedSound
    <3>5. s.order = r2.order /\ s.pos = IF Len(r2.order) > 1 THEN 2 ELSE 1
      BY <3>1, <3>2 DEF Sound, QueueRec
    <3> QED
      BY <1>3, <3>3, <3>4, <3>5 DEF OrderOf
  <2>2. CASE ~(r.pos + 1 > Len(r.order))
    <3>1. s = [r EXCEPT !.pos = @ + 1] /\ r.pos \in Nat /\ r.order \in Seq(Nat)
      BY <1>1, <1>2, <2>2 DEF Sound, QueueRec
    <3>2. s = [r EXCEPT !.pos = r.pos + 1] /\ Len(r.order) \in Nat
      BY <3>1, LenProperties
    <3>3. r.pos + 1 \in 0..Len(r.order) /\ r.pos + 1 \in 1..Len(r.order)
      BY <2>2, <3>1, <3>2
    <3>4. Len(r.order) = Len(r.items) /\ r.items = k.items /\ r.idx = k.idx
      BY <1>2 DEF OrderOf
    <3>5. OrderOf(s, r)
      BY <1>2, <3>2, <3>3, <3>4, MovedSound
    <3>6. s.order = r.order /\ s.pos = r.pos + 1
      BY <1>2, <3>2 DEF Sound, QueueRec
    <3> QED
      BY <3>3, <3>4, <3>5, <3>6 DEF OrderOf
  <2> QED
    BY <2>1, <2>2
<1> QED
  BY <1>4 DEF OrderOf, Sound, OrderSound

\* pickNext: what it chooses is a place of the queue or none, and all it does to
\* the queue is to its order.
LEMMA PicksSound ==
  ASSUME NEW k, Sound(k), NEW p \in Picks(k)
  PROVE  /\ Sound(p.k) /\ p.k.items = k.items /\ p.k.idx = k.idx
         /\ p.next \in 0..Len(k.items)
<1>1. k.items \in Seq(Songs) /\ Len(k.items) \in Nat /\ k.idx \in Nat
  BY LenProperties DEF Sound, QueueRec
<1>2. CASE k.mode = "shuffle" /\ Len(k.items) # 0
  <2>1. PICK r \in ShuffleNext(k) : p = [k |-> r, next |-> r.order[r.pos]]
    BY <1>2 DEF Picks
  <2>2. OrderOf(r, k) /\ r.order[r.pos] \in 1..Len(k.items)
    BY <1>1, <1>2, ShuffleNextSound, EmptySeq
  <2> QED
    BY <1>1, <2>1, <2>2 DEF OrderOf
<1>3. CASE ~(k.mode = "shuffle" /\ Len(k.items) # 0)
  <2>1. CASE Len(k.items) = 0
    <3>1. p \in {[k |-> k, next |-> 0]}
      BY <2>1 DEF Picks
    <3> QED
      BY <1>1, <3>1
  <2>2. CASE Len(k.items) # 0
    <3>1. \/ p \in {[k |-> k, next |-> k.idx]}
          \/ p \in {[k |-> k, next |-> IF k.idx < Len(k.items) THEN k.idx + 1 ELSE 1]}
          \/ p \in {[k |-> k, next |-> IF k.idx < Len(k.items) THEN k.idx + 1 ELSE 0]}
      <4>1. CASE k.mode = "one"
        BY <1>3, <2>2, <4>1 DEF Picks
      <4>2. CASE k.mode = "all"
        BY <1>3, <2>2, <4>2 DEF Picks
      <4>3. CASE k.mode \notin {"one", "all"}
        BY <1>3, <2>2, <4>3 DEF Picks
      <4> QED
        BY <4>1, <4>2, <4>3
    <3>2. p.k = k /\ p.next \in 0..Len(k.items)
      BY <1>1, <2>2, <3>1 DEF Sound, Standing
    <3> QED
      BY <3>2
  <2> QED
    BY <2>1, <2>2
<1> QED
  BY <1>2, <1>3

\* nextDistinctIndex
LEMMA OtherInQueue == ASSUME NEW k, Sound(k) PROVE Other(k) \in 0..Len(k.items)
<1>1. k.items \in Seq(Songs) /\ Len(k.items) \in Nat /\ k.idx \in Nat
  BY LenProperties DEF Sound, QueueRec
<1>2. CASE Len(k.items) <= 1
  BY <1>1, <1>2 DEF Other
<1>3. CASE Len(k.items) > 1
  <2>1. k.idx % Len(k.items) \in 0..(Len(k.items) - 1)
    BY <1>1, <1>3
  <2> QED
    BY <1>1, <1>3, <2>1 DEF Other
<1> QED
  BY <1>1, <1>2, <1>3

-----------------------------------------------------------------------------
(* The changes that leave the order alone.                                 *)

LEMMA SoundFields ==
  ASSUME NEW k, Sound(k)
  PROVE  /\ k \in QueueRec /\ k.items \in Seq(Songs) /\ Len(k.items) \in Nat /\ k.idx \in Nat
         /\ k.order \in Seq(Nat) /\ Len(k.order) \in Nat /\ k.pos \in Nat
         /\ k.active \in BOOLEAN /\ k.ended \in BOOLEAN
  BY LenProperties DEF Sound, QueueRec

\* Another song is current, the flags are set.
LEMMA PlacedSound ==
  ASSUME NEW k, Sound(k), NEW i \in 1..Len(k.items), NEW a \in BOOLEAN, NEW e \in BOOLEAN
  PROVE  /\ Sound([k EXCEPT !.idx = i, !.active = a, !.ended = e])
         /\ Sound([k EXCEPT !.idx = i, !.ended = e]) /\ Sound([k EXCEPT !.idx = i])
         /\ Sound([k EXCEPT !.idx = i, !.ended = e, !.active = a])
<1> USE SoundFields DEF Sound, QueueRec, Standing, OrderSound
<1>1. i \in Nat /\ i # 0 /\ Len(k.items) # 0 /\ i <= Len(k.items)
  BY SoundFields
<1>2. Sound([k EXCEPT !.idx = i, !.active = a, !.ended = e])
  BY <1>1
<1>3. Sound([k EXCEPT !.idx = i, !.ended = e]) /\ Sound([k EXCEPT !.idx = i])
  BY <1>1
<1>4. Sound([k EXCEPT !.idx = i, !.ended = e, !.active = a])
  BY <1>1
<1> QED
  BY <1>2, <1>3, <1>4

\* The flags or the mode alone.
LEMMA FlagSound ==
  ASSUME NEW k, Sound(k), NEW a \in BOOLEAN, NEW e \in BOOLEAN,
         NEW m \in {"order", "all", "one", "shuffle"}
  PROVE  /\ Sound([k EXCEPT !.active = a, !.ended = e]) /\ Sound([k EXCEPT !.active = a])
         /\ Sound([k EXCEPT !.ended = e, !.active = a]) /\ Sound([k EXCEPT !.mode = m])
<1> USE SoundFields DEF Sound, QueueRec, Standing, OrderSound
<1>1. Sound([k EXCEPT !.active = a, !.ended = e]) /\ Sound([k EXCEPT !.active = a])
  OBVIOUS
<1>2. Sound([k EXCEPT !.ended = e, !.active = a]) /\ Sound([k EXCEPT !.mode = m])
  OBVIOUS
<1> QED
  BY <1>1, <1>2

\* Whatever else is changed, the order remains one.
LEMMA SameOrder ==
  ASSUME NEW k, Sound(k), NEW r \in QueueRec, r.order = k.order, r.pos = k.pos, Standing(r)
  PROVE  Sound(r)
  BY DEF Sound, OrderSound

\* A list of songs and the place in it, with the flags.
LEMMA ListSound ==
  ASSUME NEW k, Sound(k), NEW list \in Seq(Songs), NEW i \in Nat,
         i <= Len(list), i = 0 <=> Len(list) = 0, NEW a \in BOOLEAN, NEW e \in BOOLEAN,
         NEW r, r = [k EXCEPT !.items = list, !.idx = i, !.active = a, !.ended = e]
  PROVE  Sound(r)
<1>0. k \in QueueRec
  BY SoundFields
<1>1. r \in QueueRec
  BY <1>0 DEF QueueRec
<1>2. r.items = list /\ r.idx = i /\ r.order = k.order /\ r.pos = k.pos
  BY <1>0 DEF QueueRec
<1> QED
  BY <1>1, <1>2, SameOrder DEF Standing

\* The song at i is taken out; the ones after it move up.
LEMMA WithoutShorter ==
  ASSUME NEW s \in Seq(Songs), NEW i \in 1..Len(s)
  PROVE  Without(s, i) \in Seq(Songs) /\ Len(Without(s, i)) = Len(s) - 1
<1>1. Len(s) \in Nat /\ s \in Seq(Songs)
  BY LenProperties
<1>2. SubSeq(s, 1, i - 1) \in Seq(Songs) /\ Len(SubSeq(s, 1, i - 1)) = i - 1
  BY <1>1, SubSeqProperties
<1>3. SubSeq(s, i + 1, Len(s)) \in Seq(Songs) /\ Len(SubSeq(s, i + 1, Len(s))) = Len(s) - i
  BY <1>1, SubSeqProperties
<1>4. Without(s, i) \in Seq(Songs)
      /\ Len(Without(s, i)) = Len(SubSeq(s, 1, i - 1)) + Len(SubSeq(s, i + 1, Len(s)))
  BY <1>2, <1>3, ConcatProperties DEF Without
<1>5. Len(Without(s, i)) = (i - 1) + (Len(s) - i)
  BY <1>2, <1>3, <1>4, Zenon
<1>6. i \in Int /\ Len(s) \in Int /\ (i - 1) + (Len(s) - i) = Len(s) - 1
  BY <1>1
<1> QED
  BY <1>4, <1>5, <1>6, Zenon

LEMMA RemovedSound ==
  ASSUME NEW k, Sound(k), NEW i \in 1..Len(k.items)
  PROVE  Sound(Removed(k, i))
<1> DEFINE s == Without(k.items, i)
           r == Removed(k, i)
           Fits == r \in QueueRec /\ r.order = k.order /\ r.pos = k.pos /\ r.items = s
<1>1. s \in Seq(Songs) /\ Len(s) = Len(k.items) - 1 /\ Len(s) \in Nat
  BY SoundFields, WithoutShorter, LenProperties
<1>2. s = <<>> <=> Len(s) = 0
  BY <1>1, EmptySeq
<1>3. k.idx \in 1..Len(k.items) /\ k \in QueueRec
  BY SoundFields DEF Sound, Standing
<1> HIDE DEF s
<1>5. CASE i < k.idx
  <2>1. r = [k EXCEPT !.items = s, !.idx = k.idx - 1]
    BY <1>3, <1>5 DEF Removed, s, QueueRec
  <2>2. Fits /\ r.idx = k.idx - 1
    <3>1. k.idx - 1 \in Nat
      BY <1>3, <1>5
    <3>2. r \in QueueRec
      BY <1>1, <1>3, <2>1, <3>1 DEF QueueRec
    <3>3. r.order = k.order /\ r.pos = k.pos /\ r.items = s /\ r.idx = k.idx - 1
      BY <1>3, <2>1 DEF QueueRec
    <3> QED
      BY <3>2, <3>3
  <2> HIDE DEF r
  <2>3. Standing(r)
    BY <1>1, <1>3, <1>5, <2>2 DEF Standing
  <2> QED
    BY <2>2, <2>3, SameOrder DEF r
<1>6. CASE i > k.idx
  <2>1. r = [k EXCEPT !.items = s]
    BY <1>3, <1>6 DEF Removed, s, QueueRec
  <2>2. Fits /\ r.idx = k.idx
    BY <1>1, <1>3, <2>1, SoundFields DEF QueueRec
  <2> HIDE DEF r
  <2>3. Standing(r)
    BY <1>1, <1>3, <1>6, <2>2 DEF Standing
  <2> QED
    BY <2>2, <2>3, SameOrder DEF r
<1>7. CASE i = k.idx /\ s = <<>>
  <2>1. r = [k EXCEPT !.items = s, !.idx = 0, !.active = FALSE, !.ended = TRUE]
    BY <1>3, <1>7 DEF Removed, s
  <2> HIDE DEF r
  <2>2. 0 <= Len(s) /\ (0 = 0 <=> Len(s) = 0)
    BY <1>1, <1>2, <1>7
  <2> QED
    BY <1>1, <2>1, <2>2, ListSound DEF r
<1>8. CASE i = k.idx /\ s # <<>>
  <2> DEFINE j == IF k.idx > Len(s) THEN Len(s) ELSE k.idx
  <2>1. r = [k EXCEPT !.items = s, !.idx = j]
    BY <1>3, <1>8 DEF Removed, s, QueueRec
  <2>2. j \in 1..Len(s)
    BY <1>1, <1>2, <1>3, <1>8, SoundFields
  <2> HIDE DEF j
  <2>3. Fits /\ r.idx = j
    <3>1. j \in Nat
      BY <1>1, <2>2
    <3>2. r \in QueueRec
      BY <1>1, <1>3, <2>1, <3>1 DEF QueueRec
    <3>3. r.order = k.order /\ r.pos = k.pos /\ r.items = s /\ r.idx = j
      BY <1>3, <2>1 DEF QueueRec
    <3> QED
      BY <3>2, <3>3
  <2> HIDE DEF r
  <2>4. Standing(r)
    BY <1>1, <2>2, <2>3 DEF Standing
  <2> QED
    BY <2>3, <2>4, SameOrder DEF r
<1> QED
  BY <1>3, <1>5, <1>6, <1>7, <1>8, SoundFields

-----------------------------------------------------------------------------
(* The steps.                                                              *)

\* playCurrent and what its caller does after it.
LEMMA ReturnSound ==
  ASSUME NEW k, Sound(k), NEW t, NEW w, NEW m, Return(t, w, k, m)
  PROVE  Sound(q')
  BY LookedSound DEF Return

LEMMA PlayCurrentSound ==
  ASSUME NEW k, Sound(k), NEW t, NEW w, PlayCurrent(t, w, k)
  PROVE  Sound(q')
  BY ReturnSound DEF PlayCurrent

LEMMA JudgeSound == ASSUME Sound(q), NEW t \in Tasks, Judge(t) PROVE Sound(q')
<1>1. CASE UNCHANGED q
  BY <1>1
<1>2. CASE GiveUp(t, q)
  BY <1>2, ReturnSound DEF GiveUp
<1>3. ASSUME NEW p \in Picks(q), NEW g \in {p.next, Other(q)}, GiveUp(t, p.k) PROVE Sound(q')
  BY <1>3, PicksSound, ReturnSound DEF GiveUp
<1>4. ASSUME NEW p \in Picks(q), NEW g \in {p.next, Other(q)} \ {0, q.idx},
             q' = [p.k EXCEPT !.idx = g]
      PROVE  Sound(q')
  <2>1. Sound(p.k) /\ g \in 1..Len(p.k.items)
    BY <1>4, PicksSound, OtherInQueue, SoundFields
  <2> QED
    BY <1>4, <2>1, PlacedSound
<1> QED
  BY <1>1, <1>2, <1>3, <1>4 DEF Judge

LEMMA AdvanceSound == ASSUME Sound(q), NEW t \in Tasks, Advance(t) PROVE Sound(q')
<1>1. PICK p \in Picks(q) : \E g \in {p.next, Other(q)} :
        \/ q' = p.k
        \/ q' = [p.k EXCEPT !.ended = TRUE, !.active = FALSE]
        \/ g # 0 /\ PlayCurrent(t, "play", [p.k EXCEPT !.idx = g, !.ended = FALSE])
  BY DEF Advance
<1>2. PICK g \in {p.next, Other(q)} :
        \/ q' = p.k
        \/ q' = [p.k EXCEPT !.ended = TRUE, !.active = FALSE]
        \/ g # 0 /\ PlayCurrent(t, "play", [p.k EXCEPT !.idx = g, !.ended = FALSE])
  BY <1>1
<1>3. Sound(p.k) /\ g \in 0..Len(p.k.items) /\ Len(p.k.items) \in Nat
  BY PicksSound, OtherInQueue, SoundFields
<1>4. CASE q' = p.k
  BY <1>3, <1>4
<1>5. CASE q' = [p.k EXCEPT !.ended = TRUE, !.active = FALSE]
  BY <1>3, <1>5, FlagSound
<1>6. CASE g # 0 /\ PlayCurrent(t, "play", [p.k EXCEPT !.idx = g, !.ended = FALSE])
  <2>1. g \in 1..Len(p.k.items)
    BY <1>3, <1>6
  <2>2. Sound([p.k EXCEPT !.idx = g, !.ended = FALSE])
    BY <1>3, <2>1, PlacedSound
  <2> QED
    BY <1>6, <2>2, PlayCurrentSound
<1> QED
  BY <1>2, <1>4, <1>5, <1>6

\* The song chosen is cast, or the queue stays or stops where it is.
LEMMA ChosenSound ==
  ASSUME Sound(q), NEW t \in Tasks, NEW p \in Picks(q), p.next \notin {0, q.idx}
  PROVE  /\ Sound([p.k EXCEPT !.idx = p.next, !.ended = FALSE])
         /\ Sound([p.k EXCEPT !.active = FALSE, !.ended = TRUE])
<1>1. Sound(p.k) /\ p.next \in 1..Len(p.k.items)
  BY PicksSound, SoundFields
<1> QED
  BY <1>1, PlacedSound, FlagSound

LEMMA StalledAgainSound == ASSUME Sound(q), NEW t \in Tasks, StalledAgain(t) PROVE Sound(q')
<1>1. CASE PlayCurrent(t, "play", q)
  BY <1>1, PlayCurrentSound
<1>2. ASSUME NEW p \in Picks(q), PlayCurrent(t, "play", p.k) PROVE Sound(q')
  BY <1>2, PicksSound, PlayCurrentSound
<1>3. ASSUME NEW p \in Picks(q), p.next \notin {0, q.idx},
             \/ q' = [p.k EXCEPT !.active = FALSE, !.ended = TRUE]
             \/ PlayCurrent(t, "play", [p.k EXCEPT !.idx = p.next, !.ended = FALSE])
      PROVE  Sound(q')
  BY <1>3, ChosenSound, PlayCurrentSound
<1> QED
  BY <1>1, <1>2, <1>3 DEF StalledAgain

LEMMA RecoverSound == ASSUME Sound(q), NEW t \in Tasks, Recover(t) PROVE Sound(q')
  BY PlayCurrentSound DEF Recover

LEMMA FreezeSound == ASSUME Sound(q), NEW t \in Tasks, RecheckedFreeze(t) PROVE Sound(q')
<1>1. CASE UNCHANGED q
  BY <1>1
<1>2. CASE Recover(t)
  BY <1>2, RecoverSound
<1>3. ASSUME NEW p \in Picks(q), q' = p.k \/ PlayCurrent(t, "recover", p.k) PROVE Sound(q')
  BY <1>3, PicksSound, PlayCurrentSound
<1>4. ASSUME NEW p \in Picks(q), p.next \notin {0, q.idx},
             PlayCurrent(t, "play", [p.k EXCEPT !.idx = p.next, !.ended = FALSE])
      PROVE  Sound(q')
  BY <1>4, ChosenSound, PlayCurrentSound
<1> QED
  BY <1>1, <1>2, <1>3, <1>4 DEF RecheckedFreeze

\* A call that goes on after its await.
LEMMA TaskSound ==
  ASSUME Sound(q), NEW t \in Tasks, TaskStep(t) \/ CastReaches(t)
  PROVE  Sound(q')
<1>1. CASE CastDelivered(t) \/ CastFailed(t)
  BY <1>1, ReturnSound DEF CastDelivered, CastFailed
<1>2. CASE SeekEnds(t) \/ CameHome(t) \/ CastReaches(t)
  BY <1>2 DEF SeekEnds, CameHome, CastReaches, core
<1>3. CASE RecheckedIdle(t)
  BY <1>3, AdvanceSound DEF RecheckedIdle
<1>4. CASE RecheckedStall(t)
  BY <1>4, StalledAgainSound DEF RecheckedStall
<1>5. CASE CameBack(t)
  BY <1>5, RecoverSound DEF CameBack
<1> QED
  BY <1>1, <1>2, <1>3, <1>4, <1>5, JudgeSound, FreezeSound DEF TaskStep

\* What the device reports and what the timers find.
LEMMA ReportSound == ASSUME Sound(q), Report PROVE Sound(q')
  BY AdvanceSound DEF Report, HandleAdvance, FreeTask, core

LEMMA TimerSound == ASSUME Sound(q), Timers \/ Pushed \/ Poll \/ HaltEnds PROVE Sound(q')
<1>1. CASE Pushed \/ Poll
  BY <1>1, ReportSound DEF Pushed, Poll, core
<1>2. CASE TickEnd
  BY <1>2, AdvanceSound DEF TickEnd, HandleAdvance, FreeTask, core
<1>3. CASE Evaluate \/ SeekSettles \/ HaltEnds
  BY <1>3 DEF Evaluate, SeekSettles, HaltEnds, core
<1>4. CASE WindowTimeout \/ StalledMacrotask \/ TickStalled \/ TickFrozen
  BY <1>4 DEF WindowTimeout, StalledMacrotask, TickStalled, TickFrozen, HandleStalled,
              HandleFrozen, core
<1> QED
  BY <1>1, <1>2, <1>3, <1>4 DEF Timers

-----------------------------------------------------------------------------
(* What the users do.                                                      *)

\* The queue becomes a sound one; a call not yet in flight may start its song.
Changes ==
  \E k : /\ Sound(k)
         /\ \/ q' = k /\ UNCHANGED <<task, busy>>
            \/ \E t \in FreeTask, w \in Whys : PlayCurrent(t, w, k)

LEMMA ChangesSound == ASSUME Changes PROVE Sound(q')
  BY PlayCurrentSound DEF Changes

LEMMA Places == ASSUME NEW i \in 1..Cardinality(Songs) PROVE i \in Nat /\ i >= 1
<1>1. Cardinality(Songs) \in Nat
  BY QueueAssumption, FS_CardinalityType
<1> QED
  BY <1>1

LEMMA PlayFromChanges ==
  ASSUME Sound(q), NEW list \in Lists, NEW n \in 1..Cardinality(Songs), PlayFrom(list, n)
  PROVE  Changes
<1>1. list \in Seq(Songs) /\ Len(list) \in Nat /\ (list = <<>> <=> Len(list) = 0) /\ n \in Nat /\ n >= 1
  BY QueueAssumption, LenProperties, EmptySeq, Places
<1> DEFINE i(f) == IF f > Len(list) THEN Len(list) ELSE f
<1>2. PICK f \in {n} \cup 1..Len(list) \cup {IF list = <<>> THEN 0 ELSE 1} :
        \E k \in Replaced(q, list, i(f)) :
          \/ q' = k /\ UNCHANGED <<task, busy>>
          \/ \E t \in FreeTask : PlayCurrent(t, "play", k)
  BY DEF PlayFrom
<1>3. PICK k \in Replaced(q, list, i(f)) :
          \/ q' = k /\ UNCHANGED <<task, busy>>
          \/ \E t \in FreeTask : PlayCurrent(t, "play", k)
  BY <1>2
<1>4. i(f) \in Nat /\ i(f) <= Len(list) /\ (i(f) = 0 <=> Len(list) = 0)
  BY <1>1
<1> DEFINE new == [q EXCEPT !.items = list, !.idx = i(f), !.active = TRUE, !.ended = FALSE]
<1>5. k \in Rebuilt(new) \/ k = new
  BY <1>3 DEF Replaced
<1> HIDE DEF i
<1>6. Sound(new)
  BY <1>1, <1>4, ListSound
<1> HIDE DEF new
<1>7. Sound(k)
  BY <1>5, <1>6, RebuiltSound DEF OrderOf
<1> QED
  BY <1>3, <1>7 DEF Changes, Whys

LEMMA JumpToChanges ==
  ASSUME Sound(q), NEW i \in 1..Cardinality(Songs), JumpTo(i)
  PROVE  Changes
<1> DEFINE k == [q EXCEPT !.idx = i, !.active = TRUE, !.ended = FALSE]
<1>1. PICK t \in FreeTask, r \in Rebuilt(k) \cup {k} : PlayCurrent(t, "play", r)
  BY DEF JumpTo
<1>2. i \in 1..Len(q.items)
  BY Places, SoundFields DEF JumpTo
<1>3. Sound(k)
  BY <1>2, PlacedSound
<1> HIDE DEF k
<1> QED
  BY <1>1, <1>3, RebuiltSound DEF OrderOf, Changes, Whys

LEMMA NextSongChanges == ASSUME Sound(q), NextSong PROVE Changes
<1>1. PICK p \in Picks(q) :
        \/ q' = [p.k EXCEPT !.ended = TRUE, !.active = FALSE] /\ UNCHANGED <<task, busy>>
        \/ q' = p.k /\ UNCHANGED <<task, busy>>
        \/ /\ p.next # 0
           /\ \E t \in FreeTask :
                PlayCurrent(t, "play", [p.k EXCEPT !.idx = p.next, !.ended = FALSE, !.active = TRUE])
  BY DEF NextSong
<1>2. Sound(p.k) /\ (p.next # 0 => p.next \in 1..Len(p.k.items))
  BY PicksSound, SoundFields
<1>3. /\ Sound([p.k EXCEPT !.ended = TRUE, !.active = FALSE])
      /\ p.next # 0 => Sound([p.k EXCEPT !.idx = p.next, !.ended = FALSE, !.active = TRUE])
  BY <1>2, FlagSound, PlacedSound
<1> QED
  BY <1>1, <1>2, <1>3 DEF Changes, Whys

\* prev
LEMMA BeforeSound == ASSUME NEW k, Sound(k), NEW s \in Before(k) PROVE Sound(s)
<1>1. CASE k.mode = "one"
  BY <1>1 DEF Before
<1>2. CASE k.mode = "shuffle"
  <2>1. PICK r \in Ready(k) :
          s = IF r.pos > 1 THEN [r EXCEPT !.pos = @ - 1, !.idx = r.order[r.pos - 1]] ELSE r
    BY <1>2 DEF Before
  <2>2. OrderOf(r, k) /\ Sound(r) /\ Len(r.order) = Len(r.items)
    BY ReadySound DEF OrderOf
  <2>3. CASE r.pos > 1
    <3>1. s = [r EXCEPT !.pos = r.pos - 1, !.idx = r.order[r.pos - 1]] /\ r \in QueueRec
      BY <2>1, <2>2, <2>3, SoundFields DEF QueueRec
    <3>2. r.pos - 1 \in 1..Len(r.order)
      BY <2>2, <2>3, SoundFields DEF Sound, OrderSound
    <3>3. r.order[r.pos - 1] \in 1..Len(r.items) /\ Len(r.items) \in Nat
      BY <2>2, <3>2, SoundFields DEF Sound, OrderSound
    <3> DEFINE p == r.pos - 1
               i == r.order[r.pos - 1]
    <3>4. p \in Nat /\ i \in Nat /\ i # 0
      BY <2>2, <3>2, <3>3, SoundFields
    <3> HIDE DEF p, i
    <3>5. s = [r EXCEPT !.pos = p, !.idx = i]
      BY <3>1 DEF p, i
    <3>6. s \in QueueRec
      BY <3>1, <3>4, <3>5 DEF QueueRec
    <3>7. s.pos = p /\ s.idx = i /\ s.items = r.items /\ s.order = r.order
      BY <3>1, <3>5 DEF QueueRec
    <3>8. Standing(s)
      BY <3>3, <3>4, <3>7 DEF Standing, i
    <3>9. OrderSound(s)
      BY <2>2, <3>2, <3>7, SoundFields DEF Sound, OrderSound, p
    <3> QED
      BY <3>6, <3>8, <3>9 DEF Sound
  <2> QED
    BY <2>1, <2>2, <2>3
<1>3. CASE k.mode \notin {"one", "shuffle"} /\ s = [k EXCEPT !.idx = IF k.idx > 1 THEN k.idx - 1 ELSE Len(k.items)]
  <2> DEFINE i == IF k.idx > 1 THEN k.idx - 1 ELSE Len(k.items)
  <2>1. i \in 0..Len(k.items) /\ (i = 0 <=> Len(k.items) = 0)
    BY SoundFields DEF Sound, Standing
  <2>2. i = 0 => s = [k EXCEPT !.idx = k.idx]
    BY <1>3, <2>1, SoundFields DEF Sound, Standing
  <2>3. i \in Nat /\ k \in QueueRec
    BY <2>1, SoundFields
  <2> HIDE DEF i
  <2>4. s \in QueueRec /\ s.idx = i /\ s.items = k.items /\ s.order = k.order /\ s.pos = k.pos
    BY <1>3, <2>3 DEF QueueRec, i
  <2>5. Standing(s)
    BY <2>1, <2>4, SoundFields DEF Standing
  <2> QED
    BY <2>4, <2>5, SameOrder
<1> QED
  BY <1>1, <1>2, <1>3, SoundFields DEF Before, Sound, Standing

LEMMA PrevSongChanges == ASSUME Sound(q), PrevSong PROVE Changes
<1> DEFINE k == [q EXCEPT !.active = TRUE, !.ended = FALSE]
<1>1. Sound(k)
  BY FlagSound
<1>2. \/ q' = k /\ UNCHANGED <<task, busy>>
      \/ \E t \in FreeTask, r \in Before(k) : PlayCurrent(t, "play", r)
  BY DEF PrevSong
<1> HIDE DEF k
<1> QED
  BY <1>1, <1>2, BeforeSound DEF Changes, Whys

\* enqueue: a song at the end, the first one of an empty queue becomes the current one.
LEMMA EnqueuedSound ==
  ASSUME Sound(q), NEW s \in Songs
  PROVE  /\ q.idx = 0 => Sound([[q EXCEPT !.items = Append(q.items, s)] EXCEPT !.idx = 1, !.active = TRUE,
                                                                           !.ended = FALSE])
         /\ q.idx # 0 => Sound([q EXCEPT !.items = Append(q.items, s)])
<1> DEFINE list == Append(q.items, s)
           k == [q EXCEPT !.items = list]
           first == [k EXCEPT !.idx = 1, !.active = TRUE, !.ended = FALSE]
<1>1. list \in Seq(Songs) /\ Len(list) = Len(q.items) + 1
  BY SoundFields, AppendProperties
<1>2. Sound(first)
  <2>1. 1 <= Len(list) /\ (1 = 0 <=> Len(list) = 0)
    BY <1>1, SoundFields
  <2>2. first = [q EXCEPT !.items = list, !.idx = 1, !.active = TRUE, !.ended = FALSE]
    OBVIOUS
  <2> HIDE DEF first, list
  <2> QED
    BY <1>1, <2>1, <2>2, ListSound
<1>3. CASE q.idx # 0
  <2>1. q \in QueueRec
    BY SoundFields
  <2> HIDE DEF list
  <2>2. k \in QueueRec /\ k.items = list /\ k.idx = q.idx /\ k.order = q.order /\ k.pos = q.pos
    BY <1>1, <2>1 DEF QueueRec
  <2> HIDE DEF k
  <2>3. Sound(k)
    BY <1>1, <1>3, <2>2, SameOrder, SoundFields DEF Standing, Sound
  <2> QED
    BY <1>2, <1>3, <2>3 DEF k, list
<1> QED
  BY <1>2, <1>3

LEMMA EnqueueChanges ==
  ASSUME Sound(q), NEW s \in Songs, Enqueue(s)
  PROVE  Changes
<1> DEFINE k == [q EXCEPT !.items = Append(q.items, s)]
           first == [k EXCEPT !.idx = 1, !.active = TRUE, !.ended = FALSE]
<1>1. (q.idx = 0 => Sound(first)) /\ (q.idx # 0 => Sound(k))
  BY EnqueuedSound
<1>2. \/ q.idx = 0 /\ \E t \in FreeTask : PlayCurrent(t, "enqueue", first)
      \/ q.idx # 0 /\ q' \in Looked(k) /\ UNCHANGED <<task, busy>>
  BY DEF Enqueue
<1> HIDE DEF k, first
<1> QED
  BY <1>1, <1>2, LookedSound DEF Changes, Whys

LEMMA RemoveAtChanges ==
  ASSUME Sound(q), NEW i \in 1..Cardinality(Songs), RemoveAt(i)
  PROVE  Changes
<1>1. i \in 1..Len(q.items)
  BY Places, SoundFields DEF RemoveAt
<1>2. PICK k \in Looked(Removed(q, i)) :
        \/ q' = k /\ UNCHANGED <<task, busy>>
        \/ \E t \in FreeTask : PlayCurrent(t, "remove", k)
  BY DEF RemoveAt
<1>3. Sound(Removed(q, i))
  BY <1>1, RemovedSound
<1>4. Sound(k)
  BY <1>3, LookedSound
<1> QED
  BY <1>2, <1>4 DEF Changes, Whys

\* reorder makes a list of the same length of the same songs.
LEMMA ReorderedSound ==
  ASSUME Sound(q), NEW from \in 1..Cardinality(Songs), NEW to \in 1..Cardinality(Songs),
         Reorder(from, to)
  PROVE  \E list : LET k == [q EXCEPT !.items = list, !.idx = to]
                   IN  Sound(k) /\ q' \in IF q.mode = "shuffle" THEN Rebuilt(k) ELSE {k}
<1> DEFINE rest == Without(q.items, from)
           head == SubSeq(rest, 1, to - 1)
           tail == SubSeq(rest, to, Len(rest))
           list == head \o <<q.items[from]>> \o tail
           k    == [q EXCEPT !.items = list, !.idx = to]
<1>1. from \in 1..Len(q.items) /\ to \in 1..Len(q.items) /\ Len(q.items) \in Nat
  BY Places, SoundFields DEF Reorder
<1>2. rest \in Seq(Songs) /\ Len(rest) = Len(q.items) - 1
  BY <1>1, SoundFields, WithoutShorter
<1>3. q' \in IF q.mode = "shuffle" THEN Rebuilt(k) ELSE {k}
  BY DEF Reorder
<1> HIDE DEF rest
<1>4. head \in Seq(Songs) /\ Len(head) = to - 1
  BY <1>1, <1>2, SubSeqProperties
<1>5. tail \in Seq(Songs) /\ Len(tail) = Len(q.items) - to
  BY <1>1, <1>2, SubSeqProperties
<1>6. <<q.items[from]>> \in Seq(Songs) /\ Len(<<q.items[from]>>) = 1
  BY <1>1, SoundFields
<1> HIDE DEF head, tail
<1>7. list \in Seq(Songs) /\ Len(list) = (to - 1) + 1 + (Len(q.items) - to)
  <2>1. /\ head \o <<q.items[from]>> \in Seq(Songs)
        /\ Len(head \o <<q.items[from]>>) = Len(head) + Len(<<q.items[from]>>)
    BY <1>4, <1>6, ConcatProperties
  <2>2. list \in Seq(Songs) /\ Len(list) = Len(head \o <<q.items[from]>>) + Len(tail)
    BY <1>5, <2>1, ConcatProperties
  <2> QED
    BY <1>4, <1>5, <1>6, <2>1, <2>2, Zenon
<1>8. Len(list) = Len(q.items)
  BY <1>1, <1>7
<1> HIDE DEF list
<1>9. Sound(k)
  <2>1. q \in QueueRec /\ to \in Nat
    BY <1>1, SoundFields
  <2>2. k \in QueueRec
    BY <1>7, <2>1 DEF QueueRec
  <2>3. k.items = list /\ k.idx = to /\ k.order = q.order /\ k.pos = q.pos
    BY <2>1 DEF QueueRec
  <2> HIDE DEF k
  <2> QED
    BY <1>1, <1>8, <2>2, <2>3, SameOrder DEF Standing
<1> QED
  BY <1>3, <1>9

LEMMA ReorderSound ==
  ASSUME Sound(q), NEW from \in 1..Cardinality(Songs), NEW to \in 1..Cardinality(Songs),
         Reorder(from, to)
  PROVE  Sound(q')
  BY ReorderedSound, RebuiltSound DEF OrderOf

LEMMA ClearSound == ASSUME Sound(q), Clear PROVE Sound(q')
<1>1. q' = [NewQueue EXCEPT !.mode = q.mode] /\ q.mode \in {"order", "all", "one", "shuffle"}
  BY SoundFields DEF Clear, QueueRec
<1>2. <<>> \in Seq(Songs) /\ <<>> \in Seq(Nat) /\ Len(<<>>) = 0
  OBVIOUS
<1>3. q' \in QueueRec /\ q'.items = <<>> /\ q'.idx = 0 /\ q'.order = <<>> /\ q'.pos = 0
  BY <1>1, <1>2 DEF NewQueue, QueueRec
<1> QED
  BY <1>3 DEF Sound, Standing, OrderSound

LEMMA UsersSound == ASSUME Sound(q), Users PROVE Sound(q')
<1>1. ASSUME NEW m \in Modes, SetPlayMode(m) PROVE Sound(q')
  <2>1. Sound([q EXCEPT !.mode = m])
    BY FlagSound, QueueAssumption
  <2> QED
    BY <1>1, <2>1, LookedSound DEF SetPlayMode
<1>2. CASE StopPlayback
  BY <1>2, FlagSound DEF StopPlayback
<1>3. CASE ResumePlayback
  <2> DEFINE a == q.active \/ (~q.ended /\ q.idx > 0)
  <2>1. a \in BOOLEAN /\ q' = [q EXCEPT !.active = a]
    BY <1>3, SoundFields DEF ResumePlayback, QueueRec
  <2> HIDE DEF a
  <2> QED
    BY <2>1, FlagSound
<1>4. CASE Pause \/ \E near \in BOOLEAN : Seek(near)
  BY <1>4 DEF Pause, Seek, core
<1>5. CASE ResumeActive
  BY <1>5, PlayCurrentSound DEF ResumeActive
<1> QED
  BY <1>1, <1>2, <1>3, <1>4, <1>5, PlayFromChanges, JumpToChanges, RemoveAtChanges, NextSongChanges,
     PrevSongChanges, EnqueueChanges, ReorderSound, ClearSound, ChangesSound DEF Users

LEMMA WorldSound == ASSUME Sound(q), World PROVE Sound(q')
<1>1. ASSUME NEW i \in 1..Cardinality(Songs), FlowAdvance(i) PROVE Sound(q')
  <2>1. i \in 1..Len(q.items) /\ q' = [q EXCEPT !.idx = i, !.ended = FALSE]
    BY <1>1, Places, SoundFields DEF FlowAdvance
  <2> QED
    BY <2>1, PlacedSound
<1>2. CASE SetFlowOwned \/ DeviceMoves \/ PauseWatchdog \/ LinkChanges \/ TargetChanges
           \/ GroupChanges
  BY <1>2 DEF SetFlowOwned, DeviceMoves, PauseWatchdog, LinkChanges, TargetChanges, GroupChanges,
              core
<1> QED
  BY <1>1, <1>2 DEF World

-----------------------------------------------------------------------------
LEMMA InitSound == ASSUME Init PROVE Sound(q)
<1>1. PICK m \in Modes, list \in Saved \cup {<<>>} :
        \E i \in IF list = <<>> THEN {0} ELSE DOMAIN list, a \in {FALSE, list # <<>>} :
          q = [NewQueue EXCEPT !.items = list, !.idx = i, !.mode = m, !.active = a]
  BY DEF Init
<1>2. PICK i \in IF list = <<>> THEN {0} ELSE DOMAIN list, a \in BOOLEAN :
        q = [NewQueue EXCEPT !.items = list, !.idx = i, !.mode = m, !.active = a]
  BY <1>1
<1>3. list \in Seq(Songs) /\ Len(list) \in Nat /\ (list = <<>> <=> Len(list) = 0)
      /\ m \in {"order", "all", "one", "shuffle"}
  BY QueueAssumption, LenProperties, EmptySeq
<1>4. i \in Nat /\ i <= Len(list) /\ (i = 0 <=> Len(list) = 0)
  BY <1>2, <1>3, LenProperties
<1>5. <<>> \in Seq(Nat) /\ Len(<<>>) = 0
  OBVIOUS
<1>6. q \in QueueRec
  BY <1>2, <1>3, <1>4, <1>5 DEF NewQueue, QueueRec
<1>7. q.items = list /\ q.idx = i /\ q.order = <<>> /\ q.pos = 0
  BY <1>2 DEF NewQueue
<1> QED
  BY <1>3, <1>4, <1>6, <1>7 DEF Sound, Standing, OrderSound

LEMMA StepSound == ASSUME Sound(q), [Next]_vars PROVE Sound(q')
<1>1. CASE UNCHANGED vars
  BY <1>1 DEF vars, core
<1> QED
  BY <1>1, TaskSound, TimerSound, UsersSound, WorldSound DEF Next

\* Whatever is added, removed, moved or replaced while songs are being changed,
\* the queue is one of the program's queues, it stands at one of its songs, and
\* its shuffle order is a permutation.
THEOREM QueueStaysSound == Spec => []Sound(q)
<1>1. Init => Sound(q)
  BY InitSound
<1>2. Sound(q) /\ [Next]_vars => Sound(q)'
  BY StepSound
<1> QED
  BY <1>1, <1>2, PTL DEF Spec

\* QueueController: idx and shufflePos are always within the queue and its order.
THEOREM QueueIsSound == Spec => []QueueSound
<1>1. Sound(q) => QueueSound
  <2> SUFFICES ASSUME Sound(q) PROVE QueueSound
    OBVIOUS
  <2>1. q.items = <<>> <=> Len(q.items) = 0
    BY SoundFields, EmptySeq
  <2>2. DOMAIN q.order = 1..Len(q.order)
    BY SoundFields, LenProperties
  <2> QED
    BY <2>1, <2>2 DEF Sound, Standing, OrderSound, QueueSound
<1> QED
  BY <1>1, QueueStaysSound, PTL

-----------------------------------------------------------------------------
(* The calls in flight: who holds `advancing', and who the window.         *)

\* Every call is one of the program's, and `advancing' is held by one of them.
Book == /\ task \in [Tasks -> TaskRec] /\ busy \in BOOLEAN
        /\ busy => \E t \in Tasks : Owning(t)

\* The step keeps the book, and every cast that is under way.
BookKept == Book' /\ (Casting => Casting')

\* The call is none, or it waits for an answer before it touches anything.
Looking(t) == task[t].pc \in {"free", "recheck", "home", "look"}

LEMMA Records ==
  /\ NoTask \in TaskRec
  /\ \A p \in Pcs : [NoTask EXCEPT !.pc = p] \in TaskRec
  /\ \A p \in Pcs, w \in Whys : [NoTask EXCEPT !.pc = p, !.why = w] \in TaskRec
  BY DEF NoTask, TaskRec, Pcs, Whys

\* A call that owns nothing becomes another.
LEMMA Swapped ==
  ASSUME Book, NEW t \in Tasks, Looking(t), NEW r \in TaskRec,
         task' = [task EXCEPT ![t] = r], busy' = busy
  PROVE  BookKept
<1>1. \A u \in Tasks : u # t => task'[u] = task[u]
  BY DEF Book
<1>2. task' \in [Tasks -> TaskRec] /\ busy' \in BOOLEAN
  BY DEF Book
<1>3. \A u \in Tasks : Owning(u) => u # t /\ Owning(u)'
  BY <1>1 DEF Looking, Owning
<1>4. \A u \in Tasks : At(u, "cast") => u # t /\ At(u, "cast")'
  BY <1>1 DEF Looking, At
<1> QED
  BY <1>2, <1>3, <1>4 DEF Book, BookKept, Casting

LEMMA DropKeeps == ASSUME Book, NEW t \in Tasks, Looking(t), Drop(t), busy' = busy PROVE BookKept
  BY Swapped, Records DEF Drop

LEMMA RecheckKeeps ==
  ASSUME Book, NEW t \in FreeTask, NEW d \in {"idle_early", "stalled", "frozen"}, Recheck(t, d),
         busy' = busy
  PROVE  BookKept
  BY Swapped, Records DEF Recheck, FreeTask, Looking, Pcs, Whys

LEMMA Untouched == ASSUME Book, UNCHANGED <<task, busy>> PROVE BookKept
  BY DEF Book, BookKept, Owning, Casting, At

\* playCurrent is over: the caller gives up `advancing' if it holds it.
LEMMA ReturnKeeps ==
  ASSUME Book, NEW t \in Tasks, NEW w \in Whys, Owning(t) => w \in Owners,
         NEW k, NEW m, Return(t, w, k, m)
  PROVE  Book' /\ (~At(t, "cast") => BookKept)
<1>1. CASE /\ w = "recover" /\ busy' = TRUE
           /\ task' = [task EXCEPT ![t] = [NoTask EXCEPT !.pc = "seek", !.why = w]]
  <2>1. task' \in [Tasks -> TaskRec]
    BY <1>1, Records DEF Book, Pcs, Whys
  <2>2. task'[t].pc = "seek" /\ task'[t].why = "recover"
    BY <1>1 DEF Book, NoTask
  <2>3. Owning(t)'
    BY <2>2 DEF Owning, Owners
  <2>4. \A u \in Tasks : u # t => task'[u] = task[u]
    BY <1>1 DEF Book
  <2>5. ~At(t, "cast") => (Casting => Casting')
    BY <2>4 DEF Casting, At
  <2> QED
    BY <1>1, <2>1, <2>3, <2>5 DEF Book, BookKept
<1>2. CASE task' = [task EXCEPT ![t] = NoTask] /\ busy' = (busy /\ w \notin Owners)
  <2>1. task' \in [Tasks -> TaskRec] /\ busy' \in BOOLEAN
    BY <1>2, Records DEF Book
  <2>2. \A u \in Tasks : u # t => task'[u] = task[u]
    BY <1>2 DEF Book
  <2>3. busy' => busy /\ ~Owning(t)
    BY <1>2
  <2>4. \A u \in Tasks : u # t /\ Owning(u) => Owning(u)'
    BY <2>2 DEF Owning
  <2>5. ~At(t, "cast") => (Casting => Casting')
    BY <2>2 DEF Casting, At
  <2> QED
    BY <2>1, <2>3, <2>4, <2>5 DEF Book, BookKept
<1> QED
  BY <1>1, <1>2 DEF Return

LEMMA PlayCurrentKeeps ==
  ASSUME Book, NEW t \in Tasks, Looking(t), NEW w \in Whys, NEW k, Sound(k), PlayCurrent(t, w, k)
  PROVE  BookKept
<1> DEFINE r == [pc |-> "judge", why |-> w, song |-> k.items[k.idx],
                 skips |-> 0, limit |-> Len(k.items)]
<1>1. ~Owning(t) /\ ~At(t, "cast")
  BY DEF Looking, Owning, At
<1>2. CASE /\ k.idx > 0 /\ task' = [task EXCEPT ![t] = r]
           /\ busy' = (busy \/ w \in Owners)
  <2>1. k.items[k.idx] \in Songs
    BY <1>2, SoundFields, LenProperties DEF Sound, Standing
  <2>2. r \in TaskRec
    BY <2>1, SoundFields DEF TaskRec, Pcs
  <2>3. r.pc = "judge" /\ r.why = w
    OBVIOUS
  <2> HIDE DEF r
  <2>4. task' \in [Tasks -> TaskRec] /\ busy' \in BOOLEAN /\ task'[t] = r
    BY <1>2, <2>2 DEF Book
  <2>5. \A u \in Tasks : u # t => task'[u] = task[u]
    BY <1>2 DEF Book
  <2>6. w \in Owners => Owning(t)'
    BY <2>3, <2>4 DEF Owning
  <2>7. \A u \in Tasks : Owning(u) => Owning(u)'
    BY <1>1, <2>5 DEF Owning
  <2>8. Casting => Casting'
    BY <1>1, <2>5 DEF Casting, At
  <2> QED
    BY <1>2, <2>4, <2>6, <2>7, <2>8 DEF Book, BookKept
<1>3. ASSUME NEW m, Return(t, w, k, m) PROVE BookKept
  BY <1>1, <1>3, ReturnKeeps
<1> QED
  BY <1>2, <1>3 DEF PlayCurrent

\* A window without a timer belongs to a cast.
Watched == window = "open" => Casting

LEMMA StayWatched == ASSUME Watched, BookKept, window' \in {window, "off"} PROVE Watched'
  BY DEF Watched, BookKept

LEMMA JudgeKeeps ==
  ASSUME Sound(q), Book, Watched, NEW t \in Tasks, Judge(t)
  PROVE  Book' /\ Watched'
<1>1. At(t, "judge") /\ ~At(t, "cast") /\ task[t] \in TaskRec /\ task[t].why \in Whys
  BY DEF Judge, At, Book, TaskRec
<1>2. Owning(t) => task[t].why \in Owners
  BY DEF Owning
<1>3. CASE task' = [task EXCEPT ![t].pc = "cast"] /\ busy' = busy
  <2>1. task' \in [Tasks -> TaskRec] /\ task'[t].pc = "cast" /\ task'[t].why = task[t].why
    BY <1>1, <1>3 DEF Book, TaskRec, Pcs
  <2>2. \A u \in Tasks : u # t => task'[u] = task[u]
    BY <1>3 DEF Book
  <2>3. \A u \in Tasks : Owning(u) => Owning(u)'
    BY <2>1, <2>2 DEF Owning
  <2>4. Casting'
    BY <2>1 DEF Casting, At
  <2> QED
    BY <1>3, <2>1, <2>3, <2>4 DEF Book, Watched
<1>4. ASSUME window' = window, NEW k, GiveUp(t, k) PROVE Book' /\ Watched'
  BY <1>1, <1>2, <1>4, ReturnKeeps, StayWatched DEF GiveUp
<1>5. ASSUME window' = window, NEW p \in Picks(q), NEW g \in {p.next, Other(q)} \ {0},
             task' = [task EXCEPT ![t].song = q.items[g], ![t].skips = @ + 1], busy' = busy
      PROVE  Book' /\ Watched'
  <2>1. g \in 1..Len(q.items)
    BY PicksSound, OtherInQueue, SoundFields
  <2>2. q.items[g] \in Songs
    BY <2>1, SoundFields, LenProperties
  <2>3. task' \in [Tasks -> TaskRec] /\ task'[t].pc = task[t].pc /\ task'[t].why = task[t].why
    BY <1>1, <1>5, <2>2 DEF Book, TaskRec
  <2>4. \A u \in Tasks : u # t => task'[u] = task[u]
    BY <1>5 DEF Book
  <2>5. \A u \in Tasks : Owning(u) => Owning(u)'
    BY <2>3, <2>4 DEF Owning
  <2>6. Casting => Casting'
    BY <1>1, <2>4 DEF Casting, At
  <2> QED
    BY <1>5, <2>3, <2>5, <2>6 DEF Book, Watched
<1>6. CASE window' = window /\ \E p \in Picks(q) : \E g \in {p.next, Other(q)} :
             \/ GiveUp(t, p.k)
             \/ /\ g # 0 /\ busy' = busy
                /\ task' = [task EXCEPT ![t].song = q.items[g], ![t].skips = @ + 1]
  BY <1>4, <1>5, <1>6
<1>7. CASE window' = window /\ GiveUp(t, q)
  BY <1>4, <1>7
<1>8. \/ task' = [task EXCEPT ![t].pc = "cast"] /\ busy' = busy
      \/ window' = window /\ GiveUp(t, q)
      \/ window' = window /\ \E p \in Picks(q) : \E g \in {p.next, Other(q)} :
           \/ GiveUp(t, p.k)
           \/ /\ g # 0 /\ busy' = busy
              /\ task' = [task EXCEPT ![t].song = q.items[g], ![t].skips = @ + 1]
  BY DEF Judge
<1> QED
  BY <1>3, <1>6, <1>7, <1>8

LEMMA CastEndsKeeps ==
  ASSUME Book, NEW t \in Tasks, CastDelivered(t) \/ CastFailed(t)
  PROVE  Book' /\ Watched'
<1>1. task[t].why \in Whys /\ (Owning(t) => task[t].why \in Owners)
  BY DEF Book, TaskRec, Owning
<1>2. PICK m : Return(t, task[t].why, q, m)
  BY DEF CastDelivered, CastFailed
<1>3. window' # "open"
  BY DEF CastDelivered, CastFailed, Armed
<1> QED
  BY <1>1, <1>2, <1>3, ReturnKeeps DEF Watched

LEMMA SeekEndsKeeps == ASSUME Book, NEW t \in Tasks, SeekEnds(t) PROVE BookKept
<1>1. \A u \in Tasks : u # t => task'[u] = task[u]
  BY DEF SeekEnds, Book
<1>2. Casting => Casting'
  BY <1>1 DEF SeekEnds, Casting, At
<1>3. task' \in [Tasks -> TaskRec]
  BY Records DEF SeekEnds, Book
<1> QED
  BY <1>2, <1>3 DEF SeekEnds, Book, BookKept

LEMMA AdvanceKeeps ==
  ASSUME Sound(q), Book, NEW t \in Tasks, Looking(t), Advance(t)
  PROVE  BookKept
<1>1. PICK p \in Picks(q) : \E g \in {p.next, Other(q)} :
        \/ Drop(t) /\ busy' = busy
        \/ g # 0 /\ PlayCurrent(t, "play", [p.k EXCEPT !.idx = g, !.ended = FALSE])
  BY DEF Advance, Drop
<1>2. PICK g \in {p.next, Other(q)} :
        \/ Drop(t) /\ busy' = busy
        \/ g # 0 /\ PlayCurrent(t, "play", [p.k EXCEPT !.idx = g, !.ended = FALSE])
  BY <1>1
<1>3. Sound(p.k) /\ (g # 0 => g \in 1..Len(p.k.items))
  BY PicksSound, OtherInQueue, SoundFields
<1>4. g # 0 => Sound([p.k EXCEPT !.idx = g, !.ended = FALSE])
  BY <1>3, PlacedSound
<1> QED
  BY <1>2, <1>4, DropKeeps, PlayCurrentKeeps DEF Whys

LEMMA StalledAgainKeeps ==
  ASSUME Sound(q), Book, NEW t \in Tasks, Looking(t), StalledAgain(t)
  PROVE  BookKept
<1>1. CASE PlayCurrent(t, "play", q)
  BY <1>1, PlayCurrentKeeps DEF Whys
<1>2. ASSUME NEW p \in Picks(q), PlayCurrent(t, "play", p.k) PROVE BookKept
  BY <1>2, PicksSound, PlayCurrentKeeps DEF Whys
<1>3. ASSUME NEW p \in Picks(q), p.next \notin {0, q.idx},
             \/ Drop(t) /\ busy' = busy
             \/ PlayCurrent(t, "play", [p.k EXCEPT !.idx = p.next, !.ended = FALSE])
      PROVE  BookKept
  BY <1>3, ChosenSound, PlayCurrentKeeps, DropKeeps DEF Whys
<1> QED
  BY <1>1, <1>2, <1>3 DEF StalledAgain

LEMMA RecoverKeeps ==
  ASSUME Sound(q), Book, NEW t \in Tasks, Looking(t), Recover(t)
  PROVE  BookKept
  BY DropKeeps, PlayCurrentKeeps DEF Recover, Whys

LEMMA FreezeKeeps ==
  ASSUME Sound(q), Book, NEW t \in Tasks, RecheckedFreeze(t)
  PROVE  BookKept
<1>1. Looking(t)
  BY DEF RecheckedFreeze, Waits, At, Looking
<1>2. CASE Drop(t) /\ busy' = busy
  BY <1>1, <1>2, DropKeeps
<1>3. CASE Recover(t)
  BY <1>1, <1>3, RecoverKeeps
<1>4. ASSUME NEW p \in Picks(q), PlayCurrent(t, "recover", p.k) PROVE BookKept
  BY <1>1, <1>4, PicksSound, PlayCurrentKeeps DEF Whys
<1>5. ASSUME NEW p \in Picks(q), p.next \notin {0, q.idx},
             PlayCurrent(t, "play", [p.k EXCEPT !.idx = p.next, !.ended = FALSE])
      PROVE  BookKept
  BY <1>1, <1>5, ChosenSound, PlayCurrentKeeps DEF Whys
<1> QED
  BY <1>2, <1>3, <1>4, <1>5 DEF RecheckedFreeze

LEMMA HomeKeeps == ASSUME Book, NEW t \in Tasks, CameHome(t) PROVE BookKept
<1>1. Looking(t) /\ busy' = busy
  BY DEF CameHome, At, Looking
<1>2. CASE task' = [task EXCEPT ![t].pc = "look"]
  <2>1. task' = [task EXCEPT ![t] = [task[t] EXCEPT !.pc = "look"]]
    BY <1>2
  <2>2. [task[t] EXCEPT !.pc = "look"] \in TaskRec
    BY DEF Book, TaskRec, Pcs
  <2> QED
    BY <1>1, <2>1, <2>2, Swapped
<1>3. CASE Drop(t)
  BY <1>1, <1>3, DropKeeps
<1> QED
  BY <1>2, <1>3 DEF CameHome

LEMMA TaskKeeps ==
  ASSUME Sound(q), Book, Watched, NEW t \in Tasks, TaskStep(t) \/ CastReaches(t)
  PROVE  Book' /\ Watched'
<1>1. CASE CastDelivered(t) \/ CastFailed(t)
  BY <1>1, CastEndsKeeps
<1>2. CASE CastReaches(t)
  BY <1>2, Untouched, StayWatched DEF CastReaches, core, seen, BookKept
<1>3. CASE RecheckedIdle(t)
  <2>1. Looking(t) /\ window' = window
    BY <1>3 DEF RecheckedIdle, Waits, At, Looking
  <2>2. BookKept
    BY <1>3, <2>1, DropKeeps, AdvanceKeeps DEF RecheckedIdle
  <2> QED
    BY <2>1, <2>2, StayWatched DEF BookKept
<1>4. CASE RecheckedStall(t)
  <2>1. Looking(t) /\ window' \in {window, "off"}
    BY <1>4 DEF RecheckedStall, Waits, At, Looking
  <2>2. BookKept
    BY <1>4, <2>1, DropKeeps, StalledAgainKeeps DEF RecheckedStall
  <2> QED
    BY <2>1, <2>2, StayWatched DEF BookKept
<1>5. CASE CameBack(t)
  <2>1. Looking(t) /\ window' = window
    BY <1>5 DEF CameBack, At, Looking, seen
  <2>2. BookKept
    BY <1>5, <2>1, DropKeeps, RecoverKeeps DEF CameBack
  <2> QED
    BY <2>1, <2>2, StayWatched DEF BookKept
<1>6. CASE RecheckedFreeze(t) \/ CameHome(t) \/ SeekEnds(t)
  <2>1. window' = window
    BY <1>6 DEF RecheckedFreeze, CameHome, SeekEnds, seen
  <2> QED
    BY <1>6, <2>1, FreezeKeeps, HomeKeeps, SeekEndsKeeps, StayWatched DEF BookKept
<1> QED
  BY <1>1, <1>2, <1>3, <1>4, <1>5, <1>6, JudgeKeeps DEF TaskStep

LEMMA StalledKeeps ==
  ASSUME Book, NEW v, HandleStalled(v) \/ HandleFrozen(v)
  PROVE  BookKept
  BY Untouched, RecheckKeeps DEF HandleStalled, HandleFrozen

LEMMA HandleAdvanceKeeps == ASSUME Sound(q), Book, HandleAdvance PROVE BookKept
  BY Untouched, AdvanceKeeps DEF HandleAdvance, FreeTask, Looking, core

LEMMA ReportKeeps == ASSUME Sound(q), Book, Report PROVE BookKept /\ window' \in {window, "off"}
  BY Untouched, HandleAdvanceKeeps DEF Report, core, seen

LEMMA PollKeeps == ASSUME Sound(q), Book, Poll PROVE BookKept /\ window' \in {window, "off"}
<1>1. CASE Report
  BY <1>1, ReportKeeps
<1>2. CASE UNCHANGED <<task, busy>> /\ window' \in {window, "off"}
  BY <1>2, Untouched
<1>3. CASE GoHome /\ busy' = busy /\ window' \in {window, "off"}
  <2>1. PICK t \in FreeTask : task' = [task EXCEPT ![t] = [NoTask EXCEPT !.pc = "home"]]
    BY <1>3 DEF GoHome
  <2>2. [NoTask EXCEPT !.pc = "home"] \in TaskRec
    BY Records DEF Pcs
  <2>3. t \in Tasks /\ Looking(t)
    BY DEF FreeTask, Looking
  <2>4. BookKept
    BY <1>3, <2>1, <2>2, <2>3, Swapped
  <2> QED
    BY <1>3, <2>4
<1> QED
  BY <1>1, <1>2, <1>3 DEF Poll, core, seen

LEMMA TimerKeeps ==
  ASSUME Sound(q), Book, Watched, Timers \/ Pushed \/ Poll \/ HaltEnds
  PROVE  Book' /\ Watched'
<1>1. CASE Pushed \/ Poll
  <2>1. BookKept /\ window' \in {window, "off"}
    BY <1>1, ReportKeeps, PollKeeps DEF Pushed
  <2> QED
    BY <2>1, StayWatched DEF BookKept
<1>2. CASE TickEnd
  BY <1>2, HandleAdvanceKeeps, StayWatched DEF TickEnd, BookKept
<1>3. CASE Evaluate
  <2>1. BookKept /\ window' = window
    BY <1>3, Untouched, RecheckKeeps DEF Evaluate
  <2> QED
    BY <2>1, StayWatched DEF BookKept
<1>4. CASE SeekSettles \/ HaltEnds
  BY <1>4, Untouched, StayWatched DEF SeekSettles, HaltEnds, core, seen, BookKept
<1>5. CASE WindowTimeout \/ StalledMacrotask \/ TickStalled \/ TickFrozen
  <2>1. BookKept /\ window' \in {window, "off"}
    BY <1>5, StalledKeeps DEF WindowTimeout, StalledMacrotask, TickStalled, TickFrozen
  <2> QED
    BY <2>1, StayWatched DEF BookKept
<1> QED
  BY <1>1, <1>2, <1>3, <1>4, <1>5 DEF Timers

LEMMA ChangesKeep == ASSUME Book, Changes PROVE BookKept
<1>1. PICK k : /\ Sound(k)
               /\ \/ UNCHANGED <<task, busy>>
                  \/ \E t \in FreeTask, w \in Whys : PlayCurrent(t, w, k)
  BY DEF Changes
<1>2. \A t \in FreeTask : t \in Tasks /\ Looking(t)
  BY DEF FreeTask, Looking
<1> QED
  BY <1>1, <1>2, Untouched, PlayCurrentKeeps

LEMMA UsersKeep ==
  ASSUME Sound(q), Book, Watched, Users
  PROVE  Book' /\ Watched'
<1>1. window' \in {window, "off"}
  BY DEF Users, PlayFrom, JumpTo, RemoveAt, NextSong, PrevSong, SetPlayMode, Enqueue, Reorder,
         Clear, StopPlayback, ResumePlayback, Pause, ResumeActive, Seek, core, seen
<1>2. ASSUME ResumeActive PROVE Changes
  BY <1>2 DEF ResumeActive, Changes, Whys
<1>3. ASSUME \/ \E m \in Modes : SetPlayMode(m)
             \/ \E i, j \in 1..Cardinality(Songs) : Reorder(i, j)
             \/ Clear \/ StopPlayback \/ ResumePlayback \/ Pause
             \/ \E near \in BOOLEAN : Seek(near)
      PROVE  UNCHANGED <<task, busy>>
  BY <1>3 DEF SetPlayMode, Reorder, Clear, StopPlayback, ResumePlayback, Pause, Seek, core
<1>4. Changes \/ UNCHANGED <<task, busy>>
  BY <1>2, <1>3, PlayFromChanges, JumpToChanges, RemoveAtChanges, NextSongChanges,
     PrevSongChanges, EnqueueChanges DEF Users
<1>5. BookKept
  BY <1>4, ChangesKeep, Untouched
<1> QED
  BY <1>1, <1>5, StayWatched DEF BookKept

LEMMA WorldKeeps ==
  ASSUME Book, Watched, World
  PROVE  Book' /\ Watched'
<1>1. UNCHANGED <<task, busy, window>>
  BY DEF World, SetFlowOwned, FlowAdvance, DeviceMoves, PauseWatchdog, LinkChanges, TargetChanges,
         GroupChanges, core, seen
<1> QED
  BY <1>1, Untouched, StayWatched DEF BookKept

LEMMA InitBook == ASSUME Init PROVE Book /\ Watched
<1>1. Book
  BY Records DEF Init, Book
<1>2. Watched
  BY DEF Init, Watched
<1> QED
  BY <1>1, <1>2

LEMMA StepBook == ASSUME Sound(q), Book, Watched, [Next]_vars PROVE Book' /\ Watched'
<1>1. CASE UNCHANGED vars
  <2>1. UNCHANGED <<task, busy, window>>
    BY <1>1 DEF vars, core, seen
  <2> QED
    BY <2>1, Untouched, StayWatched DEF BookKept
<1> QED
  BY <1>1, TaskKeeps, TimerKeeps, UsersKeep, WorldKeeps DEF Next

\* Whatever ends a call leaves nothing of it behind: `advancing' never outlives
\* the call that holds it, and a window without a timer belongs to a cast that is
\* under way (the ends of playCurrent and recoverInPlace).
THEOREM NothingIsLeftBehind == Spec => []NothingLeftBehind
<1>1. Init => Sound(q) /\ Book /\ Watched
  BY InitSound, InitBook
<1>2. Sound(q) /\ Book /\ Watched /\ [Next]_vars => (Sound(q) /\ Book /\ Watched)'
  BY StepSound, StepBook
<1>3. Sound(q) /\ Book /\ Watched => NothingLeftBehind
  BY DEF Book, Watched, NothingLeftBehind
<1> QED
  BY <1>1, <1>2, <1>3, PTL DEF Spec

-----------------------------------------------------------------------------
(* Type correctness of what the calls, the timers and the reports write.   *)

Tracks   == [prev : {"none", "idle", "playing", "paused"}, song : Songs \cup {NoSong},
             last : {"none", "early", "near"}, told : BOOLEAN, dur : BOOLEAN]
Marks    == [seek : BOOLEAN, pause : BOOLEAN]
Counters == [song : Songs \cup {NoSong}, n : 0..2, streak : 0..(SkipLimit - 1),
             fails : Nat, strikes : [Songs -> 0..2]]
Devices  == [st : {"idle", "playing", "paused"}, song : Songs \cup {NoSong}, near : BOOLEAN]

JudgedOK == again \in BOOLEAN /\ gaveUp \in BOOLEAN /\ cnt \in Counters /\ mark \in Marks
SeenOK   == /\ window \in {"off", "open", "armed"} /\ trk \in Tracks
            /\ pending \in {"none", "idle_early"} /\ lost \in BOOLEAN
WorldOK  == /\ dev \in Devices /\ halt \in BOOLEAN /\ link \in BOOLEAN /\ online \in BOOLEAN
            /\ grouped \in BOOLEAN /\ flow \in BOOLEAN /\ dead \subseteq MayBeDead
            /\ events \in 0..MaxEvents
Rest     == JudgedOK /\ SeenOK /\ WorldOK

LEMMA TypeIsRest == Sound(q) /\ Book /\ Rest => TypeOK
  BY DEF Sound, Book, Rest, JudgedOK, SeenOK, WorldOK, TypeOK, Tracks, Marks, Counters, Devices

LEMMA HereType == ASSUME Sound(q) PROVE Here \in Songs \cup {NoSong}
<1>1. CASE q.idx > 0
  <2>1. q.idx \in 1..Len(q.items)
    BY <1>1, SoundFields DEF Sound, Standing
  <2> QED
    BY <1>1, <2>1, SoundFields, LenProperties DEF Here, Current
<1>2. CASE ~(q.idx > 0)
  BY <1>2 DEF Here, Current
<1> QED
  BY <1>1, <1>2

LEMMA ResetType == ASSUME NEW v \in Tracks PROVE Reset(v) \in Tracks
  BY DEF Reset, Tracks

LEMMA DeviceStates ==
  /\ [st |-> "idle", song |-> NoSong, near |-> FALSE] \in Devices
  /\ \A s \in Songs \cup {NoSong} : [st |-> "playing", song |-> s, near |-> FALSE] \in Devices
  /\ \A d \in Devices : [d EXCEPT !.near = TRUE] \in Devices
  BY DEF Devices

LEMMA SpendType == ASSUME WorldOK, NEW e, Spend(e) PROVE events' \in 0..MaxEvents
  BY QueueAssumption DEF WorldOK, Spend

\* playCurrent and its end write the marks, and whether the queue gave up.
LEMMA ReturnMarks ==
  ASSUME NEW t, NEW w, NEW k, NEW m \in Marks, Return(t, w, k, m)
  PROVE  mark' \in Marks
  BY DEF Return, Marks

LEMMA PlayCurrentMarks ==
  ASSUME mark \in Marks, NEW t, NEW w, NEW k, PlayCurrent(t, w, k)
  PROVE  mark' \in Marks /\ gaveUp' \in BOOLEAN
<1> DEFINE m == IF online THEN [mark EXCEPT !.pause = FALSE] ELSE mark
<1>1. m \in Marks
  BY DEF Marks
<1>2. gaveUp' = FALSE /\ (mark' = m \/ Return(t, w, k, m))
  BY DEF PlayCurrent
<1> QED
  BY <1>1, <1>2, ReturnMarks

\* The counters after a step that counts the song of the queue.
LEMMA CountersType ==
  ASSUME cnt \in Counters, Sound(q), NEW n \in 0..2
  PROVE  /\ [cnt EXCEPT !.song = Here, !.n = n] \in Counters
         /\ [cnt EXCEPT !.n = n] \in Counters /\ [cnt EXCEPT !.fails = 0] \in Counters
         /\ [cnt EXCEPT !.song = NoSong, !.n = 0] \in Counters
         /\ [cnt EXCEPT !.song = NoSong, !.n = 0, !.streak = 0] \in Counters
         /\ ~FuseBlows => [cnt EXCEPT !.song = NoSong, !.n = 0, !.streak = @ + 1] \in Counters
         /\ [cnt EXCEPT !.fails = cnt.fails + 1] \in Counters
         /\ \A s : [cnt EXCEPT !.strikes[s] = n] \in Counters
<1>1. Here \in Songs \cup {NoSong}
  BY HereType
<1>2. SkipLimit \in Nat \ {0}
  BY QueueAssumption
<1> HIDE DEF Here
<1>3. /\ [cnt EXCEPT !.song = Here, !.n = n] \in Counters
      /\ [cnt EXCEPT !.n = n] \in Counters /\ [cnt EXCEPT !.fails = 0] \in Counters
  BY <1>1 DEF Counters
<1>4. 0 \in 0..(SkipLimit - 1) /\ 0 \in 0..2 /\ cnt.fails + 1 \in Nat
  BY <1>2 DEF Counters
<1>5. /\ [cnt EXCEPT !.song = NoSong, !.n = 0] \in Counters
      /\ [cnt EXCEPT !.song = NoSong, !.n = 0, !.streak = 0] \in Counters
      /\ [cnt EXCEPT !.fails = cnt.fails + 1] \in Counters
  BY <1>4 DEF Counters
<1>7. ~FuseBlows => [cnt EXCEPT !.song = NoSong, !.n = 0, !.streak = @ + 1] \in Counters
  <2> SUFFICES ASSUME ~FuseBlows
               PROVE  [cnt EXCEPT !.song = NoSong, !.n = 0, !.streak = cnt.streak + 1] \in Counters
    OBVIOUS
  <2>1. cnt.streak + 1 \in 0..(SkipLimit - 1)
    BY <1>2 DEF Counters, FuseBlows
  <2> QED
    BY <1>4, <2>1 DEF Counters
<1>6. \A s : [cnt EXCEPT !.strikes[s] = n] \in Counters
  BY DEF Counters
<1> QED
  BY <1>3, <1>5, <1>6, <1>7

LEMMA AdvanceTypes ==
  ASSUME Sound(q), JudgedOK, NEW t \in Tasks, Advance(t), again' = again
  PROVE  JudgedOK'
<1> DEFINE n == IF cnt.strikes[Here] = 0 THEN 1 ELSE 2
<1>1. cnt' = [cnt EXCEPT !.strikes[Here] = n] \/ cnt' = cnt
  BY DEF Advance
<1>2. n \in 0..2
  OBVIOUS
<1> HIDE DEF n
<1>3. cnt' \in Counters
  BY <1>1, <1>2, CountersType DEF JudgedOK
<1>4. \/ gaveUp' \in BOOLEAN /\ mark' = mark
      \/ \E k : PlayCurrent(t, "play", k)
  BY DEF Advance
<1>5. gaveUp' \in BOOLEAN /\ mark' \in Marks
  BY <1>4, PlayCurrentMarks DEF JudgedOK
<1> QED
  BY <1>3, <1>5 DEF JudgedOK

LEMMA HandleAdvanceTypes ==
  ASSUME Sound(q), JudgedOK, HandleAdvance, again' = again
  PROVE  JudgedOK'
  BY AdvanceTypes DEF HandleAdvance, FreeTask, JudgedOK

LEMMA JudgeTypes == ASSUME Sound(q), Rest, NEW t \in Tasks, Judge(t) PROVE Rest'
<1> DEFINE n == IF cnt.strikes[task[t].song] = 0 THEN 1 ELSE 2
<1>1. cnt' = [cnt EXCEPT !.strikes[task[t].song] = n] \/ cnt' = cnt
  BY DEF Judge
<1>2. n \in 0..2
  OBVIOUS
<1> HIDE DEF n
<1>3. cnt' \in Counters
  BY <1>1, <1>2, CountersType DEF Rest, JudgedOK
<1>4. (gaveUp' = gaveUp /\ mark' = mark) \/ \E k : GiveUp(t, k)
  BY DEF Judge
<1>5. gaveUp' \in BOOLEAN /\ mark' \in Marks
  BY <1>4, ReturnMarks DEF GiveUp, Rest, JudgedOK
<1>6. /\ window' \in {window, "open"} /\ (trk' = trk \/ trk' = [trk EXCEPT !.dur = ~flow])
      /\ UNCHANGED <<again, pending, lost, flow, world, events>>
  BY DEF Judge
<1>7. trk' \in Tracks
  BY <1>6 DEF Rest, SeenOK, WorldOK, Tracks
<1> QED
  BY <1>3, <1>5, <1>6, <1>7 DEF Rest, JudgedOK, SeenOK, WorldOK, world

LEMMA CastTypes ==
  ASSUME Sound(q), Book, Rest, NEW t \in Tasks,
         CastReaches(t) \/ CastDelivered(t) \/ CastFailed(t) \/ SeekEnds(t)
  PROVE  Rest'
<1>0. task[t].song \in Songs \cup {NoSong}
  BY DEF Book, TaskRec
<1>1. CASE CastReaches(t)
  <2>1. dev' \in Devices
    BY <1>0, <1>1 DEF CastReaches, Devices
  <2> QED
    BY <1>1, <2>1 DEF CastReaches, Rest, JudgedOK, SeenOK, WorldOK, judged, seen
<1>2. CASE CastDelivered(t)
  <2>1. dev' \in Devices
    <3>1. \/ dev' = [st |-> "playing", song |-> task[t].song, near |-> FALSE]
          \/ dev' = [st |-> "idle", song |-> NoSong, near |-> FALSE]
      BY <1>2 DEF CastDelivered
    <3> QED
      BY <1>0, <3>1, DeviceStates
  <2>2. cnt' \in Counters /\ mark' \in Marks /\ trk' \in Tracks /\ window' \in {"off", "open", "armed"}
    BY <1>2, 0 \in 0..2, CountersType, ReturnMarks, ResetType
       DEF CastDelivered, Armed, Rest, JudgedOK, SeenOK
  <2> QED
    BY <1>2, <2>1, <2>2 DEF CastDelivered, Rest, JudgedOK, SeenOK, WorldOK
<1>3. CASE CastFailed(t)
  <2>1. \/ cnt' = [cnt EXCEPT !.fails = 0] \/ cnt' = [cnt EXCEPT !.fails = cnt.fails + 1]
        \/ cnt' = [cnt EXCEPT !.fails = cnt.fails]
    BY <1>3 DEF CastFailed
  <2>2. [cnt EXCEPT !.fails = cnt.fails] = cnt
    BY DEF Rest, JudgedOK, Counters
  <2>3. cnt' \in Counters /\ mark' \in Marks
    BY <1>3, <2>1, <2>2, 0 \in 0..2, CountersType, ReturnMarks DEF CastFailed, Rest, JudgedOK
  <2>4. again' \in BOOLEAN /\ gaveUp' \in BOOLEAN /\ halt' \in BOOLEAN /\ window' = "off"
    BY <1>3 DEF CastFailed, Rest, JudgedOK, WorldOK
  <2> QED
    BY <1>3, <2>3, <2>4 DEF CastFailed, Rest, JudgedOK, SeenOK, WorldOK
<1>4. CASE SeekEnds(t)
  BY <1>4 DEF SeekEnds, Rest, JudgedOK, SeenOK, WorldOK, judged, seen, world
<1> QED
  BY <1>1, <1>2, <1>3, <1>4

LEMMA RecheckedIdleTypes ==
  ASSUME Sound(q), Rest, NEW t \in Tasks, RecheckedIdle(t)
  PROVE  Rest'
<1>1. JudgedOK'
  BY AdvanceTypes DEF RecheckedIdle, Rest, JudgedOK
<1>2. SeenOK'
  BY ResetType DEF RecheckedIdle, Rearm, Rest, SeenOK, WorldOK
<1> QED
  BY <1>1, <1>2 DEF RecheckedIdle, Rest, WorldOK, world

LEMMA StalledAgainTypes ==
  ASSUME Sound(q), Rest, NEW t \in Tasks, StalledAgain(t), again' = again
  PROVE  /\ JudgedOK' /\ trk' \in Tracks /\ pending' \in {"none", "idle_early"}
         /\ halt' \in BOOLEAN
<1>1. StallCount \in 0..2
  BY DEF StallCount
<1> DEFINE Quietly == UNCHANGED <<trk, pending, halt>>
           Cast    == \E k : PlayCurrent(t, "play", k)
           Stopped == Rearm /\ halt' = TRUE /\ UNCHANGED <<mark, gaveUp>>
<1>2. \/ cnt' = [cnt EXCEPT !.song = Here, !.n = StallCount] /\ Cast /\ Quietly
      \/ cnt' = [cnt EXCEPT !.n = 2] /\ Cast /\ Quietly
      \/ cnt' = [cnt EXCEPT !.song = NoSong, !.n = 0, !.streak = 0] /\ Stopped
      \/ ~FuseBlows /\ cnt' = [cnt EXCEPT !.song = NoSong, !.n = 0, !.streak = @ + 1] /\ Cast /\ Quietly
  BY DEF StalledAgain
<1>3. cnt' \in Counters
  BY <1>1, <1>2, 2 \in 0..2, CountersType DEF Rest, JudgedOK
<1>4. (Cast /\ Quietly) \/ Stopped
  BY <1>2
<1> HIDE DEF Here
<1>5. CASE Cast /\ Quietly
  BY <1>3, <1>5, PlayCurrentMarks DEF Rest, JudgedOK, SeenOK, WorldOK
<1>6. CASE Stopped
  BY <1>3, <1>6, ResetType DEF Rearm, Rest, JudgedOK, SeenOK
<1> QED
  BY <1>4, <1>5, <1>6

LEMMA RecheckedStallTypes ==
  ASSUME Sound(q), Rest, NEW t \in Tasks, RecheckedStall(t)
  PROVE  Rest'
<1>1. UNCHANGED <<again, flow, dev, link, online, grouped, dead, events>>
  BY DEF RecheckedStall
<1>2. CASE lost' = TRUE /\ Rearm /\ UNCHANGED <<cnt, gaveUp, mark, window, halt>>
  BY <1>1, <1>2, ResetType DEF Rearm, Rest, JudgedOK, SeenOK, WorldOK
<1>3. CASE /\ window' = "off" /\ Rearm /\ UNCHANGED <<gaveUp, mark, lost, halt>>
           /\ cnt' = [cnt EXCEPT !.song = NoSong, !.n = 0, !.streak = 0]
  <2>1. cnt' \in Counters
    BY <1>3, 0 \in 0..2, CountersType DEF Rest, JudgedOK
  <2> QED
    BY <1>1, <1>3, <2>1, ResetType DEF Rearm, Rest, JudgedOK, SeenOK, WorldOK
<1>4. CASE StalledAgain(t) /\ UNCHANGED <<window, lost>>
  <2>1. /\ JudgedOK' /\ trk' \in Tracks /\ pending' \in {"none", "idle_early"} /\ halt' \in BOOLEAN
    BY <1>1, <1>4, StalledAgainTypes
  <2> QED
    BY <1>1, <1>4, <2>1 DEF Rest, SeenOK, WorldOK
<1> QED
  BY <1>2, <1>3, <1>4 DEF RecheckedStall

LEMMA RecoverMarks ==
  ASSUME JudgedOK, NEW t, Recover(t)
  PROVE  mark' \in Marks /\ gaveUp' \in BOOLEAN
  BY PlayCurrentMarks DEF Recover, JudgedOK

LEMMA RecheckedFreezeTypes ==
  ASSUME Sound(q), Rest, NEW t \in Tasks, RecheckedFreeze(t)
  PROVE  Rest'
<1>0. UNCHANGED <<again, window, lost, flow, world, events>>
  BY DEF RecheckedFreeze
<1>1. StallCount \in 0..2 /\ JudgedOK
  BY DEF StallCount, Rest
<1> HIDE DEF Here
<1>2. CASE Rearm /\ UNCHANGED <<mark, gaveUp, cnt>>
  BY <1>0, <1>2, ResetType DEF Rearm, Rest, JudgedOK, SeenOK, WorldOK, world
<1>3. CASE /\ UNCHANGED <<trk, pending>>
           /\ cnt' = [cnt EXCEPT !.song = Here, !.n = StallCount] /\ Recover(t)
  <2>1. cnt' \in Counters
    BY <1>1, <1>3, CountersType DEF JudgedOK
  <2>2. mark' \in Marks /\ gaveUp' \in BOOLEAN
    BY <1>1, <1>3, RecoverMarks
  <2> QED
    BY <1>0, <1>3, <2>1, <2>2 DEF Rest, JudgedOK, SeenOK, WorldOK, world
<1>4. CASE /\ UNCHANGED <<trk, pending>>
           /\ cnt' = [cnt EXCEPT !.n = 2] \/ cnt' = [cnt EXCEPT !.song = NoSong, !.n = 0]
           /\ UNCHANGED <<mark, gaveUp>> \/ \E w, k : PlayCurrent(t, w, k)
  <2>1. cnt' \in Counters
    BY <1>1, <1>4, 2 \in 0..2, CountersType DEF JudgedOK
  <2>2. mark' \in Marks /\ gaveUp' \in BOOLEAN
    BY <1>1, <1>4, PlayCurrentMarks DEF JudgedOK
  <2> QED
    BY <1>0, <1>4, <2>1, <2>2 DEF Rest, JudgedOK, SeenOK, WorldOK, world
<1> QED
  BY <1>2, <1>3, <1>4 DEF RecheckedFreeze

LEMMA HomeTypes ==
  ASSUME Rest, NEW t \in Tasks, CameHome(t) \/ CameBack(t)
  PROVE  Rest'
<1>1. CASE CameHome(t)
  BY <1>1 DEF CameHome, Rest, JudgedOK, SeenOK, WorldOK, judged, seen, world
<1>2. CASE CameBack(t)
  <2>1. mark' \in Marks /\ gaveUp' \in BOOLEAN
    BY <1>2, RecoverMarks DEF CameBack, Rest, JudgedOK
  <2> QED
    BY <1>2, <2>1 DEF CameBack, Rest, JudgedOK, SeenOK, WorldOK, seen, world
<1> QED
  BY <1>1, <1>2

\* The tracker and the window after a report.
LEMMA UpdatedType == ASSUME SeenOK, WorldOK PROVE Updated \in Tracks
<1>1. trk \in Tracks /\ dev \in Devices
  BY DEF SeenOK, WorldOK
<1>2. /\ dev.st \in {"none", "idle", "playing", "paused"} /\ dev.song \in Songs \cup {NoSong}
      /\ (trk.told /\ trk.prev = dev.st /\ ~(dev.st = "playing" /\ dev.near)) \in BOOLEAN
      /\ (trk.dur /\ ~(dev.st = "idle" /\ Decision = "advance")) \in BOOLEAN
  BY <1>1 DEF Tracks, Devices
<1>3. (CASE dev.st = "playing" -> (IF dev.near THEN "near" ELSE "early")
         [] dev.st = "idle"    -> "none"
         [] OTHER              -> trk.last) \in {"none", "early", "near"}
  BY <1>1 DEF Tracks, Devices
<1> QED
  BY <1>2, <1>3 DEF Updated, Tracks

LEMMA ReportTypes ==
  ASSUME Sound(q), Rest, Report, again' = again
  PROVE  /\ JudgedOK' /\ window' \in {"off", "open", "armed"} /\ trk' \in Tracks
         /\ pending' \in {"none", "idle_early"}
<1>1. CASE UNCHANGED <<seen, cnt, gaveUp, mark>>
  BY <1>1 DEF Rest, JudgedOK, SeenOK, seen
<1>2. CASE /\ window' = "off" /\ trk' = Updated /\ pending' \in {"idle_early", "none"}
           /\ HandleAdvance \/ UNCHANGED <<cnt, gaveUp, mark>>
  <2>1. JudgedOK'
    BY <1>2, HandleAdvanceTypes DEF Rest, JudgedOK
  <2> QED
    BY <1>2, <2>1, UpdatedType DEF Rest
<1> QED
  BY <1>1, <1>2 DEF Report

LEMMA PollTypes == ASSUME Sound(q), Rest, Pushed \/ Poll PROVE Rest'
<1>0. UNCHANGED <<again, flow, world, events>>
  BY DEF Pushed, Poll
<1>1. lost' \in BOOLEAN
  BY DEF Pushed, Poll, Over, Rest, SeenOK
<1>2. CASE Report
  BY <1>0, <1>1, <1>2, ReportTypes DEF Rest, SeenOK, WorldOK, world
<1>3. CASE UNCHANGED <<seen, cnt, gaveUp, mark>>
  BY <1>0, <1>1, <1>3 DEF Rest, JudgedOK, SeenOK, WorldOK, seen, world
<1>4. CASE /\ window' = "off" /\ trk' = Updated /\ pending' \in {"idle_early", "none"}
           /\ UNCHANGED <<cnt, gaveUp, mark>>
  BY <1>0, <1>1, <1>4, UpdatedType DEF Rest, JudgedOK, SeenOK, WorldOK, world
<1> QED
  BY <1>2, <1>3, <1>4 DEF Pushed, Poll

LEMMA HandleTypes ==
  ASSUME NEW v \in Tracks, HandleStalled(v) \/ HandleFrozen(v), pending \in {"none", "idle_early"}
  PROVE  trk' \in Tracks /\ pending' \in {"none", "idle_early"} /\ UNCHANGED <<cnt, gaveUp, mark>>
  BY ResetType DEF HandleStalled, HandleFrozen

LEMMA TimerTypes == ASSUME Sound(q), Rest, Timers \/ HaltEnds PROVE Rest'
<1>0. trk \in Tracks /\ pending \in {"none", "idle_early"} /\ mark \in Marks
  BY DEF Rest, SeenOK, JudgedOK
<1>1. CASE Evaluate
  BY <1>0, <1>1, ResetType DEF Evaluate, Rest, JudgedOK, SeenOK, WorldOK, judged, world
<1>2. ASSUME NEW v \in Tracks, HandleStalled(v) \/ HandleFrozen(v), again' \in BOOLEAN,
             window' \in {window, "off"}, UNCHANGED <<lost, flow, world, events>>
      PROVE  Rest'
  BY <1>0, <1>2, HandleTypes DEF Rest, JudgedOK, SeenOK, WorldOK, world
<1>3. [trk EXCEPT !.told = TRUE] \in Tracks
  BY <1>0 DEF Tracks
<1>4. CASE WindowTimeout \/ StalledMacrotask
  BY <1>0, <1>2, <1>4 DEF WindowTimeout, StalledMacrotask, Rest, JudgedOK
<1>5. CASE TickStalled \/ TickFrozen
  BY <1>2, <1>3, <1>5 DEF TickStalled, TickFrozen, Rest, JudgedOK
<1>6. CASE TickEnd
  <2>1. trk' \in Tracks
    BY <1>0, <1>6 DEF TickEnd, Tracks
  <2>2. JudgedOK'
    BY <1>6, HandleAdvanceTypes DEF TickEnd, Rest
  <2> QED
    BY <1>6, <2>1, <2>2 DEF TickEnd, Rest, SeenOK, WorldOK, world
<1>7. CASE SeekSettles
  <2>1. mark' \in Marks
    BY <1>0, <1>7 DEF SeekSettles, Marks
  <2> QED
    BY <1>7, <2>1 DEF SeekSettles, Rest, JudgedOK, SeenOK, WorldOK, judged, seen, world
<1>8. CASE HaltEnds
  <2>1. dev' \in Devices
    BY <1>8 DEF HaltEnds, Devices, Rest, WorldOK
  <2> QED
    BY <1>8, <2>1 DEF HaltEnds, Rest, JudgedOK, SeenOK, WorldOK, judged, seen
<1> QED
  BY <1>1, <1>4, <1>5, <1>6, <1>7, <1>8 DEF Timers

\* A request of a user that starts a song, or leaves it at changing the queue.
LEMMA PlayTypes ==
  ASSUME Sound(q), Rest,
         \/ \E list \in Lists, i \in 1..Cardinality(Songs) : PlayFrom(list, i)
         \/ \E i \in 1..Cardinality(Songs) : JumpTo(i) \/ RemoveAt(i)
         \/ NextSong \/ PrevSong \/ ResumeActive \/ \E s \in Songs : Enqueue(s)
  PROVE  Rest'
<1>1. \/ UNCHANGED <<mark, gaveUp>> \/ (mark' = mark /\ gaveUp' = FALSE)
      \/ \E t, w, k : PlayCurrent(t, w, k)
  BY DEF PlayFrom, JumpTo, RemoveAt, NextSong, PrevSong, ResumeActive, Enqueue
<1>2. mark' \in Marks /\ gaveUp' \in BOOLEAN
  BY <1>1, PlayCurrentMarks DEF Rest, JudgedOK
<1>3. cnt' \in {cnt, [cnt EXCEPT !.fails = 0]}
  BY DEF PlayFrom, JumpTo, RemoveAt, NextSong, PrevSong, ResumeActive, Enqueue
<1>4. cnt' \in Counters
  BY <1>3, 0 \in 0..2, CountersType DEF Rest, JudgedOK
<1>5. UNCHANGED <<again, seen, lost, world>> /\ flow' \in {flow, FALSE} /\ \E e : Spend(e)
  BY DEF PlayFrom, JumpTo, RemoveAt, NextSong, PrevSong, ResumeActive, Enqueue
<1> QED
  BY <1>2, <1>4, <1>5, SpendType DEF Rest, JudgedOK, SeenOK, WorldOK, seen, world

LEMMA RequestTypes ==
  ASSUME Sound(q), Rest,
         \/ \E m \in Modes : SetPlayMode(m)
         \/ \E i, j \in 1..Cardinality(Songs) : Reorder(i, j)
         \/ Clear \/ StopPlayback \/ ResumePlayback \/ Pause \/ \E near \in BOOLEAN : Seek(near)
  PROVE  Rest'
<1>0. events' \in 0..MaxEvents
  BY SpendType DEF Rest, SetPlayMode, Reorder, Clear, StopPlayback, ResumePlayback, Pause, Seek
<1>1. CASE \/ \E m \in Modes : SetPlayMode(m)
           \/ \E i, j \in 1..Cardinality(Songs) : Reorder(i, j)
  <2>1. UNCHANGED <<judged, seen, lost, mark, flow, world>>
    BY <1>1 DEF SetPlayMode, Reorder
  <2> QED
    BY <1>0, <2>1 DEF Rest, JudgedOK, SeenOK, WorldOK, judged, seen, world
<1>2. CASE Clear
  BY <1>0, <1>2 DEF Clear, Rest, JudgedOK, SeenOK, WorldOK, seen
<1>3. CASE StopPlayback
  <2>1. mark' \in Marks /\ trk' \in Tracks
    BY <1>3, ResetType DEF StopPlayback, Rearm, Marks, Rest, SeenOK
  <2> QED
    BY <1>0, <1>3, <2>1 DEF StopPlayback, Rearm, Rest, JudgedOK, SeenOK, WorldOK, judged
<1>4. CASE ResumePlayback
  <2>1. mark' \in Marks
    BY <1>4 DEF ResumePlayback, Marks
  <2>2. trk' \in Tracks
    BY <1>4 DEF ResumePlayback, Tracks, Rest, SeenOK, WorldOK
  <2>3. dev' \in Devices
    BY <1>4, HereType DEF ResumePlayback, Devices, Rest, WorldOK
  <2> QED
    BY <1>0, <1>4, <2>1, <2>2, <2>3 DEF ResumePlayback, Rest, JudgedOK, SeenOK, WorldOK, judged
<1>5. CASE Pause
  <2>1. dev' \in Devices
    BY <1>5 DEF Pause, Devices, Rest, WorldOK
  <2> QED
    BY <1>0, <1>5, <2>1 DEF Pause, Rest, JudgedOK, SeenOK, WorldOK, judged, seen
<1>6. ASSUME NEW near \in BOOLEAN, Seek(near) PROVE Rest'
  <2>1. dev' \in Devices /\ mark' \in Marks
    BY <1>6 DEF Seek, Devices, Marks, Rest, WorldOK, JudgedOK
  <2> QED
    BY <1>0, <1>6, <2>1 DEF Seek, Rest, JudgedOK, SeenOK, WorldOK, judged
<1> QED
  BY <1>1, <1>2, <1>3, <1>4, <1>5, <1>6

LEMMA WorldTypes == ASSUME Rest, World PROVE Rest'
<1>1. CASE SetFlowOwned \/ LinkChanges \/ TargetChanges \/ GroupChanges
  <2>1. events' \in 0..MaxEvents
    BY <1>1, SpendType DEF Rest, SetFlowOwned, LinkChanges, TargetChanges, GroupChanges
  <2>2. UNCHANGED <<judged, seen, lost, mark, dev, halt, dead>>
    BY <1>1 DEF SetFlowOwned, LinkChanges, TargetChanges, GroupChanges, world
  <2>3. /\ flow' \in {flow, ~flow} /\ link' \in {link, ~link}
        /\ online' \in {online, ~online} /\ grouped' \in {grouped, ~grouped}
    BY <1>1 DEF SetFlowOwned, LinkChanges, TargetChanges, GroupChanges, world
  <2>4. /\ flow' \in BOOLEAN /\ link' \in BOOLEAN /\ online' \in BOOLEAN /\ grouped' \in BOOLEAN
    BY <2>3, Zenon DEF Rest, WorldOK
  <2> QED
    BY <2>1, <2>2, <2>4 DEF Rest, JudgedOK, SeenOK, WorldOK, judged, seen
<1>2. ASSUME NEW i \in 1..Cardinality(Songs), FlowAdvance(i) PROVE Rest'
  BY <1>2 DEF FlowAdvance, Rest, JudgedOK, SeenOK, WorldOK, judged, seen, world
<1>3. CASE DeviceMoves \/ PauseWatchdog
  <2>1. dev' \in Devices
    <3>1. \/ dev' = [dev EXCEPT !.near = TRUE]
          \/ dev' = [st |-> "idle", song |-> NoSong, near |-> FALSE]
      BY <1>3 DEF DeviceMoves, PauseWatchdog
    <3> QED
      BY <3>1, DeviceStates DEF Rest, WorldOK
  <2>2. mark' \in Marks
    BY <1>3 DEF DeviceMoves, PauseWatchdog, Marks, Rest, JudgedOK
  <2> QED
    BY <1>3, <2>1, <2>2 DEF DeviceMoves, PauseWatchdog, Rest, JudgedOK, SeenOK, WorldOK, judged, seen
<1> QED
  BY <1>1, <1>2, <1>3 DEF World

LEMMA InitTypes == ASSUME Init PROVE Rest
<1>1. JudgedOK
  <2>1. 0 \in 0..(SkipLimit - 1) /\ [s \in Songs |-> 0] \in [Songs -> 0..2]
    BY QueueAssumption
  <2>2. cnt = [song |-> NoSong, n |-> 0, streak |-> 0, fails |-> 0, strikes |-> [s \in Songs |-> 0]]
    BY DEF Init
  <2>3. cnt \in Counters
    BY <2>1, <2>2 DEF Counters
  <2> QED
    BY <2>3 DEF Init, JudgedOK, Marks
<1>2. SeenOK
  BY DEF Init, SeenOK, Tracks, NewTrack
<1>3. WorldOK
  <2>1. link \in BOOLEAN
    BY Zenon DEF Init
  <2>2. events \in 0..MaxEvents /\ dead \subseteq MayBeDead
    BY QueueAssumption DEF Init
  <2>3. dev \in Devices
    BY DEF Init, Devices
  <2> QED
    BY <2>1, <2>2, <2>3 DEF Init, WorldOK
<1> QED
  BY <1>1, <1>2, <1>3 DEF Rest

LEMMA StepTypes == ASSUME Sound(q), Book, Rest, [Next]_vars PROVE Rest'
<1>1. CASE UNCHANGED vars
  BY <1>1 DEF vars, judged, seen, world, Rest, JudgedOK, SeenOK, WorldOK
<1>2. ASSUME NEW t \in Tasks, TaskStep(t) \/ CastReaches(t) PROVE Rest'
  BY <1>2, JudgeTypes, CastTypes, RecheckedIdleTypes, RecheckedStallTypes, RecheckedFreezeTypes,
     HomeTypes DEF TaskStep
<1>3. CASE Users
  BY <1>3, PlayTypes, RequestTypes DEF Users
<1> QED
  BY <1>1, <1>2, <1>3, PollTypes, TimerTypes, WorldTypes DEF Next

\* Everything QueueController, PlayerController and PlaybackTracker keep for a
\* device stays what it is declared to be: no counter of stalls or strikes passes
\* its limit, whatever the order of reports, timers and requests.
THEOREM QueueTypeCorrect == Spec => []TypeOK
<1>1. Init => Sound(q) /\ Book /\ Watched /\ Rest
  BY InitSound, InitBook, InitTypes
<1>2. Sound(q) /\ Book /\ Watched /\ Rest /\ [Next]_vars => (Sound(q) /\ Book /\ Watched /\ Rest)'
  BY StepSound, StepBook, StepTypes
<1> QED
  BY <1>1, <1>2, TypeIsRest, PTL DEF Spec

-----------------------------------------------------------------------------
(* The place in the shuffle order.                                         *)

\* The order stands at the song of the queue.
InStep(k) == k.order[k.pos] = k.idx

\* An order that is not empty stands somewhere.
Placed(k) == Len(k.order) > 0 => k.pos > 0

\* In shuffle mode only a queue of one song keeps an order made for another one:
\* what ensureShuffleReady does not look at, the length, is the whole difference.
Tidy(k) ==
  /\ Placed(k)
  /\ k.mode = "shuffle" /\ Len(k.items) > 1 => Len(k.order) \in {0, Len(k.items)}

\* From the queue q the step to r takes the place along.
Along(r) ==
  q.mode = "shuffle" /\ r.mode = "shuffle" /\ r.idx \notin {0, q.idx} /\ Len(r.order) = Len(r.items)
    => InStep(r)
Good(r) == Sound(r) /\ Tidy(r) /\ Along(r)

\* A new order begins with the current song.
LEMMA RebuiltGood ==
  ASSUME NEW k, Sound(k), NEW r \in Rebuilt(k)
  PROVE  Good(r) /\ r.mode = k.mode
<1>1. OrderOf(r, k) /\ Sound(r)
  BY RebuiltSound DEF OrderOf
<1> DEFINE h == IF k.idx \in DOMAIN k.items THEN k.idx ELSE 1
<1>2. PICK o \in Orders(Len(k.items), h) :
        r = [k EXCEPT !.order = o, !.pos = IF k.idx > 0 THEN 1 ELSE 0]
  BY DEF Rebuilt
<1>3. k.idx > 0 => k.idx \in DOMAIN k.items /\ Len(k.items) > 0
  BY SoundFields, LenProperties DEF Sound, Standing
<1>4. k.idx > 0 => h = k.idx
  BY <1>3
<1> HIDE DEF h
<1>5. k.idx > 0 => o[1] = k.idx
  BY <1>2, <1>3, <1>4 DEF Orders
<1>6. /\ r.order = o /\ r.pos = (IF k.idx > 0 THEN 1 ELSE 0) /\ r.mode = k.mode
      /\ r.idx = k.idx /\ Len(r.order) = Len(k.items) /\ r.items = k.items
  BY <1>1, <1>2, SoundFields DEF QueueRec, OrderOf
<1>7. Tidy(r)
  BY <1>6, SoundFields DEF Tidy, Placed, Sound, Standing
<1>8. Along(r)
  BY <1>5, <1>6, SoundFields DEF Along, InStep
<1> QED
  BY <1>1, <1>6, <1>7, <1>8 DEF Good

LEMMA ReadyGood ==
  ASSUME NEW k, Sound(k), Placed(k), Along(k), NEW r \in Ready(k)
  PROVE  Good(r) /\ r.mode = k.mode
<1>1. CASE Len(k.order) # Len(k.items)
  BY <1>1, RebuiltGood DEF Ready
<1>2. CASE Len(k.order) = Len(k.items)
  BY <1>2 DEF Ready, Good, Tidy
<1> QED
  BY <1>1, <1>2

LEMMA LookedGood ==
  ASSUME NEW k, Sound(k), Placed(k), Along(k), NEW r \in Looked(k)
  PROVE  Good(r)
  BY ReadyGood DEF Looked, Good, Tidy

\* The fields that make a queue tidy.
LEMMA SameTidy ==
  ASSUME NEW k, Tidy(k), NEW r, Len(r.items) = Len(k.items), r.order = k.order, r.pos = k.pos,
         r.mode = k.mode
  PROVE  Tidy(r)
  BY DEF Tidy, Placed

LEMMA StillGood == ASSUME NEW r, Sound(r), Tidy(r), r.idx = q.idx PROVE Good(r)
  BY DEF Good, Along

LEMMA ShuffleNextGood ==
  ASSUME NEW k, Sound(k), Tidy(k), k.items # <<>>, NEW s \in ShuffleNext(k)
  PROVE  Tidy(s) /\ s.mode = k.mode
<1>1. OrderOf(s, k) /\ s.pos \in 1..Len(s.order)
  BY ShuffleNextSound
<1>2. Len(s.order) = Len(s.items) /\ s.pos > 0
  BY <1>1, SoundFields DEF OrderOf
<1>3. PICK r \in Ready(k) :
        s \in IF r.pos + 1 > Len(r.order) THEN NextRound(r) ELSE {[r EXCEPT !.pos = @ + 1]}
  BY DEF ShuffleNext
<1>4. ASSUME NEW m, Sound(m), NEW x \in Rebuilt(m) PROVE x.mode = m.mode
  BY <1>4, RebuiltGood
<1>5. r.mode = k.mode /\ Sound(r)
  BY <1>4, ReadySound DEF Ready, OrderOf
<1>6. CASE r.pos + 1 > Len(r.order)
  <2>1. PICK r2 \in Rebuilt(r) : s = [r2 EXCEPT !.pos = IF Len(r2.order) > 1 THEN 2 ELSE 1]
    BY <1>3, <1>6 DEF NextRound
  <2>2. r2.mode = r.mode /\ r2 \in QueueRec
    BY <1>4, <1>5, <2>1, RebuiltSound DEF OrderOf, Sound
  <2> QED
    BY <1>2, <1>5, <2>1, <2>2 DEF QueueRec, Tidy, Placed
<1>7. CASE ~(r.pos + 1 > Len(r.order))
  <2>1. s = [r EXCEPT !.pos = @ + 1] /\ r \in QueueRec
    BY <1>3, <1>5, <1>7 DEF Sound
  <2> QED
    BY <1>2, <1>5, <2>1 DEF QueueRec, Tidy, Placed
<1> QED
  BY <1>6, <1>7

\* pickNext: in shuffle mode the order stands at what it chose.
LEMMA PicksGood ==
  ASSUME Sound(q), Tidy(q), NEW p \in Picks(q)
  PROVE  /\ Sound(p.k) /\ Tidy(p.k) /\ Good(p.k) /\ p.k.mode = q.mode
         /\ p.next # 0 /\ q.mode = "shuffle" => p.k.order[p.k.pos] = p.next
<1>1. Sound(p.k) /\ p.k.idx = q.idx /\ Len(q.items) \in Nat /\ q.items \in Seq(Songs)
  BY PicksSound, SoundFields
<1>2. CASE q.mode = "shuffle" /\ Len(q.items) # 0
  <2>1. PICK r \in ShuffleNext(q) : p = [k |-> r, next |-> r.order[r.pos]]
    BY <1>2 DEF Picks
  <2>2. Tidy(r) /\ r.mode = q.mode
    BY <1>1, <1>2, ShuffleNextGood, EmptySeq
  <2> QED
    BY <1>1, <2>1, <2>2, StillGood
<1>3. CASE ~(q.mode = "shuffle" /\ Len(q.items) # 0)
  <2>1. CASE Len(q.items) = 0
    <3>1. p \in {[k |-> q, next |-> 0]}
      BY <2>1 DEF Picks
    <3> QED
      BY <1>1, <3>1, StillGood
  <2>2. CASE Len(q.items) # 0 /\ q.mode # "shuffle"
    <3>1. p.k = q
      <4>1. CASE q.mode = "one"
        BY <2>2, <4>1 DEF Picks
      <4>2. CASE q.mode = "all"
        BY <2>2, <4>2 DEF Picks
      <4>3. CASE q.mode \notin {"one", "all"}
        BY <2>2, <4>3 DEF Picks
      <4> QED
        BY <4>1, <4>2, <4>3
    <3> QED
      BY <1>1, <2>2, <3>1, StillGood
  <2> QED
    BY <1>3, <2>1, <2>2
<1> QED
  BY <1>2, <1>3

\* The song that was chosen becomes the current one.
LEMMA ChosenGood ==
  ASSUME Sound(q), Tidy(q), NEW p \in Picks(q), NEW g,
         g = p.next \/ (g = Other(q) /\ q.mode = "one"), g # 0,
         NEW a \in BOOLEAN, NEW e \in BOOLEAN
  PROVE  /\ Good([p.k EXCEPT !.idx = g]) /\ Good([p.k EXCEPT !.idx = g, !.ended = e])
         /\ Good([p.k EXCEPT !.idx = g, !.ended = e, !.active = a])
<1>1. Sound(p.k) /\ Tidy(p.k) /\ p.k.mode = q.mode /\ p.k \in QueueRec
  BY PicksGood, SoundFields
<1>2. g \in 1..Len(p.k.items)
  BY PicksSound, OtherInQueue, SoundFields
<1>3. q.mode = "shuffle" => p.k.order[p.k.pos] = g
  BY PicksGood
<1>4. ASSUME NEW r, Sound(r), r.items = p.k.items, r.order = p.k.order, r.pos = p.k.pos,
             r.mode = p.k.mode, r.idx = g
      PROVE  Good(r)
  BY <1>1, <1>3, <1>4, SameTidy DEF Good, Along, InStep
<1>5. Good([p.k EXCEPT !.idx = g])
  BY <1>1, <1>2, <1>4, PlacedSound DEF QueueRec
<1>6. Good([p.k EXCEPT !.idx = g, !.ended = e])
  BY <1>1, <1>2, <1>4, PlacedSound DEF QueueRec
<1>7. Good([p.k EXCEPT !.idx = g, !.ended = e, !.active = a])
  BY <1>1, <1>2, <1>4, PlacedSound DEF QueueRec
<1> QED
  BY <1>5, <1>6, <1>7

\* The flags alone.
LEMMA FlagGood ==
  ASSUME NEW k, Sound(k), Tidy(k), k.idx = q.idx, NEW a \in BOOLEAN, NEW e \in BOOLEAN
  PROVE  /\ Good([k EXCEPT !.active = a, !.ended = e]) /\ Good([k EXCEPT !.active = a])
         /\ Good([k EXCEPT !.ended = e, !.active = a])
<1>1. k \in QueueRec
  BY SoundFields
<1>2. ASSUME NEW r, Sound(r), r.items = k.items, r.order = k.order, r.pos = k.pos,
             r.mode = k.mode, r.idx = k.idx
      PROVE  Good(r)
  BY <1>2, SameTidy, StillGood
<1>3. Good([k EXCEPT !.active = a, !.ended = e])
  BY <1>1, <1>2, FlagSound DEF QueueRec
<1>4. Good([k EXCEPT !.active = a])
  BY <1>1, <1>2, FlagSound DEF QueueRec
<1>5. Good([k EXCEPT !.ended = e, !.active = a])
  BY <1>1, <1>2, FlagSound DEF QueueRec
<1> QED
  BY <1>3, <1>4, <1>5

LEMMA ReturnGood ==
  ASSUME NEW k, Good(k), NEW t, NEW w, NEW m, Return(t, w, k, m)
  PROVE  Good(q')
  BY LookedGood DEF Return, Good, Tidy

LEMMA PlayCurrentGood ==
  ASSUME NEW k, Good(k), NEW t, NEW w, PlayCurrent(t, w, k)
  PROVE  Good(q')
  BY ReturnGood DEF PlayCurrent

LEMMA JudgeGood == ASSUME Sound(q), Tidy(q), NEW t \in Tasks, Judge(t) PROVE Good(q')
<1>1. Good(q)
  BY StillGood
<1>2. CASE UNCHANGED q
  BY <1>1, <1>2
<1>3. CASE GiveUp(t, q)
  BY <1>1, <1>3, ReturnGood DEF GiveUp
<1>4. ASSUME NEW p \in Picks(q), GiveUp(t, p.k) PROVE Good(q')
  BY <1>4, PicksGood, ReturnGood DEF GiveUp
<1>5. ASSUME NEW p \in Picks(q), NEW g, g = p.next \/ (g = Other(q) /\ q.mode = "one"), g # 0,
             q' = [p.k EXCEPT !.idx = g]
      PROVE  Good(q')
  BY <1>5, ChosenGood
<1> QED
  BY <1>2, <1>3, <1>4, <1>5 DEF Judge

LEMMA AdvanceGood == ASSUME Sound(q), Tidy(q), NEW t \in Tasks, Advance(t) PROVE Good(q')
<1> DEFINE Goals(p) == {p.next} \cup {g \in {Other(q)} : q.mode = "one"}
<1> DEFINE deadOne == q.mode = "one" /\ Here \in dead
           n == IF deadOne THEN (IF cnt.strikes[Here] = 0 THEN 1 ELSE 2) ELSE 0
           goal(p) == IF n = 2 THEN Other(q) ELSE p.next
<1>0. PICK p \in Picks(q) :
        IF goal(p) = 0
        THEN q' = IF n = 2 THEN p.k ELSE [p.k EXCEPT !.ended = TRUE, !.active = FALSE]
        ELSE PlayCurrent(t, "play", [p.k EXCEPT !.idx = goal(p), !.ended = FALSE])
  BY DEF Advance
<1>1. goal(p) \in Goals(p)
  OBVIOUS
<1> HIDE DEF goal, n
<1>2. PICK g \in Goals(p) :
        \/ q' = p.k
        \/ q' = [p.k EXCEPT !.ended = TRUE, !.active = FALSE]
        \/ g # 0 /\ PlayCurrent(t, "play", [p.k EXCEPT !.idx = g, !.ended = FALSE])
  BY <1>0, <1>1
<1>3. Good(p.k) /\ Good([p.k EXCEPT !.ended = TRUE, !.active = FALSE])
  BY PicksGood, PicksSound, FlagGood
<1>4. g # 0 => Good([p.k EXCEPT !.idx = g, !.ended = FALSE])
  <2>1. g = p.next \/ (g = Other(q) /\ q.mode = "one")
    OBVIOUS
  <2> QED
    BY <2>1, ChosenGood
<1> QED
  BY <1>2, <1>3, <1>4, PlayCurrentGood

LEMMA StalledGood ==
  ASSUME Sound(q), Tidy(q), NEW t \in Tasks, StalledAgain(t) \/ RecheckedFreeze(t)
  PROVE  Good(q')
<1>1. CASE UNCHANGED q \/ \E w : PlayCurrent(t, w, q)
  BY <1>1, StillGood, PlayCurrentGood
<1>2. ASSUME NEW p \in Picks(q), q' = p.k \/ \E w : PlayCurrent(t, w, p.k) PROVE Good(q')
  BY <1>2, PicksGood, PlayCurrentGood
<1>3. ASSUME NEW p \in Picks(q), p.next \notin {0, q.idx},
             \/ q' = [p.k EXCEPT !.active = FALSE, !.ended = TRUE]
             \/ PlayCurrent(t, "play", [p.k EXCEPT !.idx = p.next, !.ended = FALSE])
      PROVE  Good(q')
  <2>1. Good([p.k EXCEPT !.active = FALSE, !.ended = TRUE])
    <3>1. Sound(p.k) /\ Tidy(p.k) /\ p.k.idx = q.idx
      BY PicksGood, PicksSound
    <3> QED
      BY <3>1, FlagGood
  <2>2. Good([p.k EXCEPT !.idx = p.next, !.ended = FALSE])
    <3>1. FALSE \in BOOLEAN /\ p.next # 0
      BY <1>3
    <3> QED
      BY <3>1, ChosenGood
  <2> QED
    BY <1>3, <2>1, <2>2, PlayCurrentGood
<1> QED
  BY <1>1, <1>2, <1>3 DEF StalledAgain, RecheckedFreeze, Recover

LEMMA TaskGood ==
  ASSUME Sound(q), Tidy(q), NEW t \in Tasks, TaskStep(t) \/ CastReaches(t)
  PROVE  Good(q')
<1>0. Good(q)
  BY StillGood
<1>1. CASE CastDelivered(t) \/ CastFailed(t)
  BY <1>0, <1>1, ReturnGood DEF CastDelivered, CastFailed
<1>2. CASE SeekEnds(t) \/ CameHome(t) \/ CastReaches(t)
  BY <1>0, <1>2 DEF SeekEnds, CameHome, CastReaches, core
<1>3. CASE RecheckedIdle(t)
  BY <1>0, <1>3, AdvanceGood DEF RecheckedIdle
<1>4. CASE RecheckedStall(t)
  BY <1>0, <1>4, StalledGood DEF RecheckedStall
<1>5. CASE CameBack(t)
  BY <1>0, <1>5, PlayCurrentGood DEF CameBack, Recover
<1> QED
  BY <1>1, <1>2, <1>3, <1>4, <1>5, JudgeGood, StalledGood DEF TaskStep

LEMMA TimerGood ==
  ASSUME Sound(q), Tidy(q), Timers \/ Pushed \/ Poll \/ HaltEnds
  PROVE  Good(q')
<1>0. Good(q)
  BY StillGood
<1>1. ASSUME Report PROVE Good(q')
  BY <1>0, <1>1, AdvanceGood DEF Report, HandleAdvance, FreeTask, core
<1>2. CASE Pushed \/ Poll
  BY <1>0, <1>1, <1>2 DEF Pushed, Poll, core
<1>3. CASE TickEnd
  BY <1>0, <1>3, AdvanceGood DEF TickEnd, HandleAdvance, FreeTask, core
<1>4. CASE Evaluate \/ SeekSettles \/ HaltEnds
  BY <1>0, <1>4 DEF Evaluate, SeekSettles, HaltEnds, core
<1>5. CASE WindowTimeout \/ StalledMacrotask \/ TickStalled \/ TickFrozen
  BY <1>0, <1>5 DEF WindowTimeout, StalledMacrotask, TickStalled, TickFrozen, HandleStalled,
              HandleFrozen, core
<1> QED
  BY <1>2, <1>3, <1>4, <1>5 DEF Timers

\* Out of shuffle mode nothing is asked of the order, and of one song neither.
LEMMA PlainGood ==
  ASSUME NEW r, Sound(r), Placed(r), r.mode # "shuffle" \/ Len(r.items) <= 1
  PROVE  Good(r)
<1>1. Tidy(r)
  BY SoundFields DEF Tidy
<1>2. CASE r.mode # "shuffle"
  BY <1>1, <1>2 DEF Good, Along
<1>3. CASE Len(r.items) <= 1
  <2>1. ASSUME r.idx # 0, Len(r.order) = Len(r.items) PROVE InStep(r)
    <3>0. /\ r.idx \in Nat /\ Len(r.items) \in Nat /\ r.pos \in Nat
          /\ r.idx <= Len(r.items) /\ r.pos <= Len(r.order)
      BY SoundFields DEF Sound, Standing, OrderSound
    <3>1. r.idx = 1 /\ Len(r.order) = 1
      <4>1. r.idx # 0 /\ Len(r.order) = Len(r.items) /\ Len(r.items) <= 1
        BY <1>3, <2>1
      <4>2. ASSUME NEW a \in Nat, NEW b \in Nat, a <= b, a # 0, b <= 1 PROVE a = 1 /\ b = 1
        BY <4>2
      <4> QED
        BY <3>0, <4>1, <4>2
    <3>2. r.pos = 1
      BY <3>0, <3>1 DEF Placed
    <3>3. r.order[1] \in 1..1
      BY <3>1 DEF Sound, OrderSound
    <3> QED
      BY <3>1, <3>2, <3>3 DEF InStep
  <2> QED
    BY <1>1, <2>1 DEF Good, Along
<1> QED
  BY <1>2, <1>3

LEMMA PlayFromGood ==
  ASSUME Sound(q), Tidy(q), NEW list \in Lists, NEW n \in 1..Cardinality(Songs), PlayFrom(list, n)
  PROVE  Good(q')
<1>1. list \in Seq(Songs) /\ Len(list) \in Nat /\ (list = <<>> <=> Len(list) = 0) /\ n \in Nat /\ n >= 1
  BY QueueAssumption, LenProperties, EmptySeq, Places
<1> DEFINE i(f) == IF f > Len(list) THEN Len(list) ELSE f
<1>2. PICK f \in {n} \cup 1..Len(list) \cup {IF list = <<>> THEN 0 ELSE 1} :
        \E k \in Replaced(q, list, i(f)) : q' = k \/ \E t \in FreeTask : PlayCurrent(t, "play", k)
  BY DEF PlayFrom
<1>3. PICK k \in Replaced(q, list, i(f)) : q' = k \/ \E t \in FreeTask : PlayCurrent(t, "play", k)
  BY <1>2
<1>4. i(f) \in Nat /\ i(f) <= Len(list) /\ (i(f) = 0 <=> Len(list) = 0)
  BY <1>1
<1> DEFINE new == [q EXCEPT !.items = list, !.idx = i(f), !.active = TRUE, !.ended = FALSE]
<1>5. k \in Rebuilt(new) \/ (k = new /\ ~(q.mode = "shuffle" /\ Len(list) > 1))
  BY <1>3 DEF Replaced
<1> HIDE DEF i
<1>6. Sound(new)
  BY <1>1, <1>4, ListSound
<1>7. new.items = list /\ new.order = q.order /\ new.pos = q.pos /\ new.mode = q.mode
  BY SoundFields DEF QueueRec
<1> HIDE DEF new
<1>8. Good(k)
  BY <1>1, <1>5, <1>6, <1>7, RebuiltGood, PlainGood DEF Tidy, Placed
<1> QED
  BY <1>3, <1>8, PlayCurrentGood

LEMMA JumpToGood ==
  ASSUME Sound(q), Tidy(q), NEW i \in 1..Cardinality(Songs), JumpTo(i)
  PROVE  Good(q')
<1> DEFINE k == [q EXCEPT !.idx = i, !.active = TRUE, !.ended = FALSE]
<1>1. PICK t \in FreeTask, r \in IF q.mode = "shuffle" THEN Rebuilt(k) ELSE {k} :
        PlayCurrent(t, "play", r)
  BY DEF JumpTo
<1>2. i \in 1..Len(q.items)
  BY Places, SoundFields DEF JumpTo
<1>3. Sound(k) /\ k.order = q.order /\ k.pos = q.pos /\ k.mode = q.mode
  BY <1>2, PlacedSound, SoundFields DEF QueueRec
<1> HIDE DEF k
<1>4. Good(r)
  BY <1>1, <1>3, RebuiltGood, PlainGood DEF Tidy, Placed
<1> QED
  BY <1>1, <1>4, PlayCurrentGood

LEMMA NextSongGood == ASSUME Sound(q), Tidy(q), NextSong PROVE Good(q')
<1>1. PICK p \in Picks(q) :
        \/ q' = [p.k EXCEPT !.ended = TRUE, !.active = FALSE]
        \/ q' = p.k
        \/ /\ p.next # 0
           /\ \E t \in FreeTask :
                PlayCurrent(t, "play", [p.k EXCEPT !.idx = p.next, !.ended = FALSE, !.active = TRUE])
  BY DEF NextSong
<1>2. Good(p.k) /\ Good([p.k EXCEPT !.ended = TRUE, !.active = FALSE])
  BY PicksGood, PicksSound, FlagGood
<1>3. p.next # 0 => Good([p.k EXCEPT !.idx = p.next, !.ended = FALSE, !.active = TRUE])
  BY ChosenGood
<1> QED
  BY <1>1, <1>2, <1>3, PlayCurrentGood

\* prev goes back in the order together with the queue.
LEMMA BeforeGood ==
  ASSUME NEW k, Sound(k), Tidy(k), k.idx = q.idx, NEW s \in Before(k)
  PROVE  Good(s)
<1>1. Sound(s) /\ Good(k)
  BY BeforeSound, StillGood
<1>2. CASE k.mode = "shuffle"
  <2>1. PICK r \in Ready(k) :
          s = IF r.pos > 1 THEN [r EXCEPT !.pos = @ - 1, !.idx = r.order[r.pos - 1]] ELSE r
    BY <1>2 DEF Before
  <2>2. Good(r) /\ r.mode = k.mode /\ r \in QueueRec /\ r.pos \in Nat
    BY <1>1, ReadyGood, SoundFields DEF Good, Tidy
  <2>3. CASE r.pos > 1
    <3>1. /\ s.items = r.items /\ s.order = r.order /\ s.mode = r.mode
          /\ s.pos = r.pos - 1 /\ s.idx = r.order[r.pos - 1]
      BY <2>1, <2>2, <2>3 DEF QueueRec
    <3>2. Tidy(s)
      BY <2>2, <2>3, <3>1 DEF Good, Tidy, Placed
    <3> QED
      BY <1>1, <3>1, <3>2 DEF Good, Along, InStep
  <2> QED
    BY <2>1, <2>2, <2>3
<1>3. CASE k.mode # "shuffle"
  <2>0. k \in QueueRec
    BY SoundFields
  <2>1. \/ s = k \/ s = [k EXCEPT !.idx = IF @ > 1 THEN @ - 1 ELSE Len(k.items)]
        \/ s = [k EXCEPT !.idx = @ - 1]
    <3>1. CASE k.mode = "one"
      BY <3>1 DEF Before
    <3>2. CASE k.mode = "all"
      BY <3>2 DEF Before
    <3>3. CASE k.mode \notin {"one", "all"}
      BY <1>3, <3>3 DEF Before
    <3> QED
      BY <3>1, <3>2, <3>3
  <2>2. s.order = k.order /\ s.pos = k.pos /\ s.mode = k.mode
    BY <2>0, <2>1 DEF QueueRec
  <2> QED
    BY <1>1, <1>3, <2>2, PlainGood DEF Tidy, Placed
<1> QED
  BY <1>2, <1>3

LEMMA PrevSongGood == ASSUME Sound(q), Tidy(q), PrevSong PROVE Good(q')
<1> DEFINE k == [q EXCEPT !.active = TRUE, !.ended = FALSE]
<1>1. Good(k) /\ k.idx = q.idx
  BY FlagGood, SoundFields DEF QueueRec
<1>2. q' = k \/ \E t \in FreeTask, r \in Before(k) : PlayCurrent(t, "play", r)
  BY DEF PrevSong
<1> HIDE DEF k
<1> QED
  BY <1>1, <1>2, BeforeGood, PlayCurrentGood DEF Good

LEMMA EnqueueGood ==
  ASSUME Sound(q), Tidy(q), NEW s \in Songs, Enqueue(s)
  PROVE  Good(q')
<1> DEFINE list == Append(q.items, s)
           k == [q EXCEPT !.items = list]
           first == [k EXCEPT !.idx = 1, !.active = TRUE, !.ended = FALSE]
<1>1. list \in Seq(Songs) /\ Len(list) = Len(q.items) + 1
  BY SoundFields, AppendProperties
<1>2. CASE q.idx = 0
  <2>1. PICK t \in FreeTask : PlayCurrent(t, "enqueue", first)
    BY <1>2 DEF Enqueue
  <2>2. Sound(first) /\ first.items = list /\ first.order = q.order /\ first.pos = q.pos
    <3>1. Sound(first) /\ q \in QueueRec
      BY <1>2, EnqueuedSound, SoundFields
    <3> QED
      BY <3>1 DEF QueueRec
  <2>3. Len(list) <= 1
    BY <1>1, <1>2, SoundFields DEF Sound, Standing
  <2> HIDE DEF first, list
  <2>4. Good(first)
    BY <2>2, <2>3, PlainGood DEF Tidy, Placed
  <2> QED
    BY <2>1, <2>4, PlayCurrentGood
<1>3. CASE q.idx # 0
  <2>1. q' \in Looked(k)
    BY <1>3 DEF Enqueue
  <2>2. Sound(k) /\ k.idx = q.idx /\ k.order = q.order /\ k.pos = q.pos
    <3>1. Sound(k) /\ q \in QueueRec
      BY <1>3, EnqueuedSound, SoundFields
    <3> QED
      BY <3>1 DEF QueueRec
  <2> HIDE DEF k
  <2> QED
    BY <2>1, <2>2, LookedGood DEF Tidy, Placed, Along
<1> QED
  BY <1>2, <1>3

\* A song is taken out: an order of the old length is made anew, for the song
\* the queue then stands at.
LEMMA RemoveAtGood ==
  ASSUME Sound(q), Tidy(q), NEW i \in 1..Cardinality(Songs), RemoveAt(i)
  PROVE  Good(q')
<1> DEFINE r == Removed(q, i)
<1>1. i \in 1..Len(q.items) /\ Len(q.items) \in Nat
  BY Places, SoundFields DEF RemoveAt
<1>2. PICK k \in Looked(r) : q' = k \/ \E t \in FreeTask : PlayCurrent(t, "remove", k)
  BY DEF RemoveAt
<1>3. Sound(r)
  BY <1>1, RemovedSound
<1>4. /\ r.order = q.order /\ r.pos = q.pos /\ r.mode = q.mode
      /\ r.items = Without(q.items, i)
  <2>1. i \in Nat /\ q.idx \in Nat /\ q \in QueueRec
    BY <1>1, SoundFields
  <2> QED
    BY <2>1 DEF Removed, QueueRec
<1>5. Len(r.items) = Len(q.items) - 1
  BY <1>1, <1>4, WithoutShorter, SoundFields
<1>6. Along(r)
  <2> SUFFICES ASSUME q.mode = "shuffle", r.idx \notin {0, q.idx}, Len(r.order) = Len(r.items)
               PROVE  FALSE
    BY DEF Along
  <2> HIDE DEF r
  <2>1. r.idx \in 1..Len(r.items) /\ Len(r.items) >= 1
    <3>1. r.idx \in Nat /\ Len(r.items) \in Nat /\ r.idx <= Len(r.items) /\ r.idx # 0
      BY <1>3, SoundFields DEF Sound, Standing
    <3> QED
      BY <3>1
  <2>2. Len(q.items) > 1 /\ Len(q.order) \in {0, Len(q.items)}
    BY <1>1, <1>5, <2>1 DEF Tidy
  <2> QED
    BY <1>1, <1>4, <1>5, <2>1, <2>2
<1> HIDE DEF r
<1>7. Good(k)
  BY <1>2, <1>3, <1>4, <1>6, LookedGood DEF Tidy, Placed
<1> QED
  BY <1>2, <1>7, PlayCurrentGood

LEMMA ReorderGood ==
  ASSUME Sound(q), Tidy(q), NEW from \in 1..Cardinality(Songs), NEW to \in 1..Cardinality(Songs),
         Reorder(from, to)
  PROVE  Good(q')
<1>1. PICK list : Sound([q EXCEPT !.items = list, !.idx = to])
                  /\ q' \in IF q.mode = "shuffle" THEN Rebuilt([q EXCEPT !.items = list, !.idx = to])
                            ELSE {[q EXCEPT !.items = list, !.idx = to]}
  BY ReorderedSound DEF Reorder
<1> DEFINE k == [q EXCEPT !.items = list, !.idx = to]
<1>2. Sound(k) /\ k.order = q.order /\ k.pos = q.pos /\ k.mode = q.mode
  BY <1>1, SoundFields DEF QueueRec
<1>3. q' \in Rebuilt(k) \/ (q' = k /\ q.mode # "shuffle")
  BY <1>1
<1> HIDE DEF k
<1> QED
  BY <1>2, <1>3, RebuiltGood, PlainGood DEF Tidy, Placed

LEMMA RequestGood ==
  ASSUME Sound(q), Tidy(q),
         \/ \E m \in Modes : SetPlayMode(m)
         \/ Clear \/ StopPlayback \/ ResumePlayback \/ Pause \/ ResumeActive
         \/ \E near \in BOOLEAN : Seek(near)
  PROVE  Good(q')
<1>0. Good(q)
  BY StillGood
<1>1. ASSUME NEW m \in Modes, SetPlayMode(m) PROVE Good(q')
  <2> DEFINE k == [q EXCEPT !.mode = m]
  <2>1. Sound(k) /\ k.idx = q.idx /\ k.order = q.order /\ k.pos = q.pos /\ q' \in Looked(k)
    <3>1. m \in {"order", "all", "one", "shuffle"} /\ q \in QueueRec
      BY QueueAssumption, SoundFields
    <3>2. Sound(k)
      BY <3>1, FlagSound
    <3>3. k.idx = q.idx /\ k.order = q.order /\ k.pos = q.pos
      BY <3>1 DEF QueueRec
    <3> QED
      BY <1>1, <3>2, <3>3 DEF SetPlayMode
  <2> HIDE DEF k
  <2> QED
    BY <2>1, LookedGood DEF Tidy, Placed, Along
<1>2. CASE Clear
  <2>1. Sound(q')
    BY <1>2, ClearSound
  <2>2. q'.idx = 0 /\ q'.items = <<>> /\ q'.order = <<>>
    BY <1>2 DEF Clear, NewQueue
  <2> QED
    BY <2>1, <2>2 DEF Good, Tidy, Placed, Along
<1>3. CASE StopPlayback
  BY <1>3, FlagGood DEF StopPlayback
<1>4. CASE ResumePlayback
  <2> DEFINE a == q.active \/ (~q.ended /\ q.idx > 0)
  <2>1. a \in BOOLEAN /\ q' = [q EXCEPT !.active = a]
    BY <1>4, SoundFields DEF ResumePlayback, QueueRec
  <2> HIDE DEF a
  <2> QED
    BY <2>1, FlagGood
<1>5. CASE Pause \/ \E near \in BOOLEAN : Seek(near)
  BY <1>0, <1>5 DEF Pause, Seek, core
<1>6. CASE ResumeActive
  BY <1>0, <1>6, PlayCurrentGood DEF ResumeActive
<1> QED
  BY <1>1, <1>2, <1>3, <1>4, <1>5, <1>6

LEMMA UsersGood == ASSUME Sound(q), Tidy(q), Users PROVE Good(q')
  BY PlayFromGood, JumpToGood, RemoveAtGood, NextSongGood, PrevSongGood, EnqueueGood, ReorderGood,
     RequestGood DEF Users

\* A stream of several songs moves the queue, and not its order.
LEMMA WorldGood ==
  ASSUME Sound(q), Tidy(q), World
  PROVE  Tidy(q') /\ (flow \/ Good(q'))
<1>1. ASSUME NEW i \in 1..Cardinality(Songs), FlowAdvance(i) PROVE Tidy(q') /\ flow
  <2>1. flow /\ q' = [q EXCEPT !.idx = i, !.ended = FALSE]
    BY <1>1 DEF FlowAdvance
  <2>2. q'.items = q.items /\ q'.order = q.order /\ q'.pos = q.pos /\ q'.mode = q.mode
    BY <2>1, SoundFields DEF QueueRec
  <2> QED
    BY <2>1, <2>2, SameTidy
<1>2. CASE SetFlowOwned \/ DeviceMoves \/ PauseWatchdog \/ LinkChanges \/ TargetChanges
           \/ GroupChanges
  BY <1>2, StillGood DEF SetFlowOwned, DeviceMoves, PauseWatchdog, LinkChanges, TargetChanges,
                         GroupChanges, core
<1> QED
  BY <1>1, <1>2 DEF World

LEMMA InitTidy == ASSUME Init PROVE Tidy(q)
<1>1. q.order = <<>>
  BY DEF Init, NewQueue
<1> QED
  BY <1>1 DEF Tidy, Placed

LEMMA StepGood == ASSUME Sound(q), Tidy(q), [Next]_vars PROVE Tidy(q') /\ (flow \/ Along(q'))
<1>1. CASE UNCHANGED vars
  BY <1>1, StillGood DEF vars, core, Good
<1> QED
  BY <1>1, TaskGood, TimerGood, UsersGood, WorldGood DEF Next, Good

\* In shuffle mode every change of song, by a user, a report, a timer or a song
\* without a source, takes shufflePos along: what the clients show as the song in
\* the order is the song of the queue.  A queue loaded from the database has no
\* order, and one song may stand in an order made for others: the invariant is
\* that no longer queue ever does.
THEOREM SongAndCursorMove == Spec => SongMovesWithCursor
<1>1. Init => Sound(q) /\ Tidy(q)
  BY InitSound, InitTidy
<1>2. Sound(q) /\ Tidy(q) /\ [Next]_vars => (Sound(q) /\ Tidy(q))'
  BY StepSound, StepGood
<1>3. Sound(q) /\ Tidy(q) /\ [Next]_vars
        => (~flow /\ q.mode = "shuffle" /\ q'.mode = "shuffle" /\ q'.idx \notin {0, q.idx}
              /\ Len(q'.order) = Len(q'.items)
            => q'.order[q'.pos] = q'.idx)
  BY StepGood DEF Along, InStep
<1> QED
  BY <1>1, <1>2, <1>3, PTL DEF Spec, SongMovesWithCursor

-----------------------------------------------------------------------------
(* The stop that follows a pause.                                          *)

\* While the stop is taken for the end of a pause, the only question under way
\* is the one that the report of IDLE asks: its answer looks at the mark, those
\* of stalled and frozen do not.
OnlyIdle == mark.pause => \A t \in Tasks : At(t, "recheck") => task[t].why = "idle_early"

\* No question is asked in the step but that one.
Calm == \A u \in Tasks : At(u, "recheck")' => task'[u] = task[u] \/ task'[u].why = "idle_early"
PauseKept == mark'.pause => mark.pause /\ Calm

LEMMA KeptIsOnlyIdle == ASSUME OnlyIdle, PauseKept PROVE OnlyIdle'
  BY DEF OnlyIdle, PauseKept, Calm, At

LEMMA SwappedCalm ==
  ASSUME Book, NEW t \in Tasks, NEW r, r.pc # "recheck" \/ r.why = "idle_early",
         task' = [task EXCEPT ![t] = r]
  PROVE  Calm
  BY DEF Book, Calm, At

LEMMA DropCalm == ASSUME Book, NEW t \in Tasks, Drop(t) PROVE Calm
<1>1. NoTask.pc # "recheck"
  BY DEF NoTask
<1> QED
  BY <1>1, SwappedCalm DEF Drop

LEMMA SameCalm == ASSUME task' = task PROVE Calm
  BY DEF Calm

\* playCurrent asks nothing, and it only ever clears the mark.
LEMMA ReturnCalm ==
  ASSUME Book, NEW t \in Tasks, NEW w, NEW k, NEW m \in Marks, Return(t, w, k, m)
  PROVE  Calm /\ mark'.pause = m.pause
<1> DEFINE s == [NoTask EXCEPT !.pc = "seek", !.why = w]
<1>1. NoTask.pc # "recheck" /\ s.pc # "recheck"
  BY DEF NoTask
<1>2. task' = [task EXCEPT ![t] = s] \/ task' = [task EXCEPT ![t] = NoTask]
  BY DEF Return
<1>3. mark'.pause = m.pause
  BY DEF Return, Marks
<1> HIDE DEF s
<1> QED
  BY <1>1, <1>2, <1>3, SwappedCalm

LEMMA PlayCurrentCalm ==
  ASSUME Book, mark \in Marks, NEW t \in Tasks, NEW w, NEW k, PlayCurrent(t, w, k)
  PROVE  PauseKept
<1> DEFINE m == IF online THEN [mark EXCEPT !.pause = FALSE] ELSE mark
           r == [pc |-> "judge", why |-> w, song |-> k.items[k.idx],
                 skips |-> 0, limit |-> Len(k.items)]
<1>1. m \in Marks /\ (m.pause => mark.pause)
  BY DEF Marks
<1>2. (task' = [task EXCEPT ![t] = r] /\ mark' = m) \/ Return(t, w, k, m)
  BY DEF PlayCurrent
<1>3. r.pc # "recheck"
  OBVIOUS
<1> HIDE DEF m, r
<1>4. CASE task' = [task EXCEPT ![t] = r] /\ mark' = m
  BY <1>1, <1>3, <1>4, SwappedCalm DEF PauseKept
<1>5. CASE Return(t, w, k, m)
  BY <1>1, <1>5, ReturnCalm DEF PauseKept
<1> QED
  BY <1>2, <1>4, <1>5

LEMMA AdvanceCalm ==
  ASSUME Book, mark \in Marks, NEW t \in Tasks, Advance(t)
  PROVE  PauseKept
<1>1. (Drop(t) /\ mark' = mark) \/ \E k : PlayCurrent(t, "play", k)
  BY DEF Advance, Drop
<1> QED
  BY <1>1, DropCalm, PlayCurrentCalm DEF PauseKept

LEMMA RecoverCalm ==
  ASSUME Book, mark \in Marks, NEW t \in Tasks, Recover(t)
  PROVE  PauseKept
  BY DropCalm, PlayCurrentCalm DEF Recover, PauseKept

LEMMA JudgeCalm ==
  ASSUME Book, mark \in Marks, NEW t \in Tasks, Judge(t)
  PROVE  PauseKept
<1>1. task[t] \in TaskRec /\ task[t].pc = "judge"
  BY DEF Judge, At, Book
<1>2. ASSUME NEW k, GiveUp(t, k) PROVE PauseKept
  BY <1>2, ReturnCalm DEF GiveUp, PauseKept
<1>3. ASSUME mark' = mark, NEW r, r.pc # "recheck", task' = [task EXCEPT ![t] = r]
      PROVE  PauseKept
  BY <1>3, SwappedCalm DEF PauseKept
<1>4. CASE task' = [task EXCEPT ![t].pc = "cast"] /\ mark' = mark
  <2>1. task' = [task EXCEPT ![t] = [task[t] EXCEPT !.pc = "cast"]]
    BY <1>4
  <2>2. [task[t] EXCEPT !.pc = "cast"].pc # "recheck"
    BY <1>1 DEF TaskRec
  <2> QED
    BY <1>3, <1>4, <2>1, <2>2
<1>5. ASSUME NEW g, task' = [task EXCEPT ![t].song = q.items[g], ![t].skips = @ + 1], mark' = mark
      PROVE  PauseKept
  <2> DEFINE r == [task[t] EXCEPT !.song = q.items[g], !.skips = @ + 1]
  <2>1. task' = [task EXCEPT ![t] = r]
    BY <1>5 DEF Book
  <2>2. r.pc # "recheck"
    BY <1>1 DEF TaskRec
  <2> HIDE DEF r
  <2> QED
    BY <1>3, <1>5, <2>1, <2>2
<1> QED
  BY <1>2, <1>4, <1>5 DEF Judge

LEMMA StalledAgainCalm ==
  ASSUME Book, mark \in Marks, NEW t \in Tasks, StalledAgain(t)
  PROVE  PauseKept
<1>1. (Drop(t) /\ mark' = mark) \/ \E k : PlayCurrent(t, "play", k)
  BY DEF StalledAgain
<1> QED
  BY <1>1, DropCalm, PlayCurrentCalm DEF PauseKept

LEMMA TaskCalm ==
  ASSUME Book, mark \in Marks, NEW t \in Tasks, TaskStep(t) \/ CastReaches(t)
  PROVE  PauseKept
<1>0. ASSUME Drop(t), mark' = mark PROVE PauseKept
  BY <1>0, DropCalm DEF PauseKept
<1>1. CASE CastDelivered(t) \/ CastFailed(t)
  <2>1. Return(t, task[t].why, q, mark)
    BY <1>1 DEF CastDelivered, CastFailed
  <2> QED
    BY <2>1, ReturnCalm DEF PauseKept
<1>2. CASE CastReaches(t)
  BY <1>2, SameCalm DEF CastReaches, core, PauseKept
<1>3. CASE RecheckedIdle(t)
  BY <1>0, <1>3, AdvanceCalm DEF RecheckedIdle
<1>4. CASE RecheckedStall(t)
  BY <1>0, <1>4, StalledAgainCalm DEF RecheckedStall
<1>5. CASE RecheckedFreeze(t)
  <2>1. (Drop(t) /\ mark' = mark) \/ Recover(t) \/ \E w, k : PlayCurrent(t, w, k)
    BY <1>5 DEF RecheckedFreeze
  <2> QED
    BY <1>0, <2>1, RecoverCalm, PlayCurrentCalm
<1>6. CASE CameBack(t)
  BY <1>0, <1>6, RecoverCalm DEF CameBack
<1>7. CASE CameHome(t)
  <2>1. CASE task' = [task EXCEPT ![t].pc = "look"]
    <3>1. task' = [task EXCEPT ![t] = [task[t] EXCEPT !.pc = "look"]]
      BY <2>1
    <3>2. [task[t] EXCEPT !.pc = "look"].pc # "recheck"
      BY DEF Book, TaskRec
    <3> QED
      BY <1>7, <3>1, <3>2, SwappedCalm DEF CameHome, PauseKept
  <2> QED
    BY <1>0, <1>7, <2>1 DEF CameHome
<1>8. CASE SeekEnds(t)
  BY <1>0, <1>8 DEF SeekEnds, Drop
<1> QED
  BY <1>1, <1>2, <1>3, <1>4, <1>5, <1>6, <1>7, <1>8, JudgeCalm DEF TaskStep

\* A question of stalled and frozen is not asked while the mark is set.
LEMMA HandleCalm ==
  ASSUME Book, NEW v, HandleStalled(v) \/ HandleFrozen(v)
  PROVE  PauseKept
<1>1. mark' = mark /\ (task' = task \/ ~mark.pause)
  BY DEF HandleStalled, HandleFrozen
<1> QED
  BY <1>1, SameCalm DEF PauseKept

LEMMA HandleAdvanceCalm ==
  ASSUME Book, mark \in Marks, HandleAdvance
  PROVE  PauseKept
  BY SameCalm, AdvanceCalm DEF HandleAdvance, core, FreeTask, PauseKept

LEMMA ReportCalm == ASSUME Book, mark \in Marks, Report PROVE PauseKept
  BY SameCalm, HandleAdvanceCalm DEF Report, core, PauseKept

LEMMA TimerCalm ==
  ASSUME Book, mark \in Marks, Timers \/ Pushed \/ Poll \/ HaltEnds
  PROVE  PauseKept
<1>0. ASSUME task' = task, mark' = mark PROVE PauseKept
  BY <1>0, SameCalm DEF PauseKept
<1>1. CASE Pushed
  BY <1>1, ReportCalm DEF Pushed
<1>2. CASE Poll
  <2>1. CASE GoHome /\ mark' = mark
    <3>1. PICK t \in Tasks : task' = [task EXCEPT ![t] = [NoTask EXCEPT !.pc = "home"]]
      BY <2>1 DEF GoHome, FreeTask
    <3>2. [NoTask EXCEPT !.pc = "home"].pc # "recheck"
      BY DEF NoTask
    <3> QED
      BY <2>1, <3>1, <3>2, SwappedCalm DEF PauseKept
  <2> QED
    BY <1>0, <1>2, <2>1, ReportCalm DEF Poll, core
<1>3. CASE Evaluate
  <2>1. CASE \E t \in FreeTask : Recheck(t, "idle_early")
    <3>1. PICK t \in Tasks : task' = [task EXCEPT ![t] = [NoTask EXCEPT !.pc = "recheck", !.why = "idle_early"]]
      BY <2>1 DEF Recheck, FreeTask
    <3>2. [NoTask EXCEPT !.pc = "recheck", !.why = "idle_early"].why = "idle_early"
      BY DEF NoTask
    <3> QED
      BY <1>3, <3>1, <3>2, SwappedCalm DEF Evaluate, PauseKept
  <2> QED
    BY <1>0, <1>3, <2>1 DEF Evaluate
<1>4. CASE WindowTimeout \/ StalledMacrotask \/ TickStalled \/ TickFrozen
  BY <1>4, HandleCalm DEF WindowTimeout, StalledMacrotask, TickStalled, TickFrozen
<1>5. CASE TickEnd
  BY <1>5, HandleAdvanceCalm DEF TickEnd
<1>6. CASE SeekSettles
  BY <1>6, SameCalm DEF SeekSettles, core, PauseKept, Marks
<1>7. CASE HaltEnds
  BY <1>0, <1>7 DEF HaltEnds, core
<1> QED
  BY <1>1, <1>2, <1>3, <1>4, <1>5, <1>6, <1>7 DEF Timers

LEMMA UsersCalm == ASSUME Sound(q), Book, mark \in Marks, Users PROVE PauseKept
<1>0. ASSUME task' = task, mark'.pause => mark.pause PROVE PauseKept
  BY <1>0, SameCalm DEF PauseKept
<1>1. ASSUME NEW t \in FreeTask, NEW w, NEW k, PlayCurrent(t, w, k) PROVE PauseKept
  BY <1>1, PlayCurrentCalm DEF FreeTask
<1>2. ASSUME NEW list \in Lists, NEW i \in 1..Cardinality(Songs), PlayFrom(list, i) PROVE PauseKept
  BY <1>0, <1>1, <1>2 DEF PlayFrom
<1>3. CASE NextSong \/ PrevSong \/ ResumeActive
  BY <1>0, <1>1, <1>3 DEF NextSong, PrevSong, ResumeActive
<1>4. ASSUME NEW i \in 1..Cardinality(Songs), JumpTo(i) \/ RemoveAt(i) PROVE PauseKept
  BY <1>0, <1>1, <1>4 DEF JumpTo, RemoveAt
<1>5. ASSUME NEW s \in Songs, Enqueue(s) PROVE PauseKept
  BY <1>0, <1>1, <1>5 DEF Enqueue
<1>6. ASSUME \/ \E m \in Modes : SetPlayMode(m)
             \/ \E i, j \in 1..Cardinality(Songs) : Reorder(i, j)
             \/ Clear \/ StopPlayback \/ ResumePlayback \/ Pause
             \/ \E near \in BOOLEAN : Seek(near)
      PROVE  PauseKept
  <2>1. task' = task
    BY <1>6 DEF SetPlayMode, Reorder, Clear, StopPlayback, ResumePlayback, Pause, Seek, core
  <2>2. \/ mark' = mark \/ mark' = [seek |-> FALSE, pause |-> FALSE]
        \/ mark' = [mark EXCEPT !.seek = TRUE]
    BY <1>6 DEF SetPlayMode, Reorder, Clear, StopPlayback, ResumePlayback, Pause, Seek
  <2>3. mark'.pause => mark.pause
    BY <2>2 DEF Marks
  <2> QED
    BY <1>0, <2>1, <2>3
<1> QED
  BY <1>2, <1>3, <1>4, <1>5, <1>6 DEF Users

\* The watchdog fires thirty seconds into the pause, when every question that
\* was put before it has its answer.
LEMMA WorldOnlyIdle == ASSUME OnlyIdle, World PROVE OnlyIdle'
<1>1. CASE PauseWatchdog
  BY <1>1 DEF PauseWatchdog, OnlyIdle, At, core
<1>2. CASE UNCHANGED <<task, mark>>
  BY <1>2 DEF OnlyIdle, At
<1> QED
  BY <1>1, <1>2 DEF World, SetFlowOwned, FlowAdvance, DeviceMoves, LinkChanges, TargetChanges,
                    GroupChanges, core

LEMMA StepOnlyIdle ==
  ASSUME Sound(q), Book, mark \in Marks, OnlyIdle, [Next]_vars
  PROVE  OnlyIdle'
<1>1. CASE UNCHANGED vars
  BY <1>1 DEF vars, core, OnlyIdle, At
<1> QED
  BY <1>1, TaskCalm, TimerCalm, UsersCalm, WorldOnlyIdle, KeptIsOnlyIdle DEF Next

LEMMA InitOnlyIdle == ASSUME Init PROVE OnlyIdle
  BY DEF Init, OnlyIdle

\* playCurrent leaves the song it was given where it is.
LEMMA ReturnPlace ==
  ASSUME NEW k, Sound(k), NEW t, NEW w, NEW m, Return(t, w, k, m)
  PROVE  q'.idx = k.idx
<1>1. ASSUME NEW r \in Looked(k) PROVE r.idx = k.idx
  BY <1>1, ReadySound DEF Looked, OrderOf
<1> QED
  BY <1>1 DEF Return

LEMMA PlayCurrentPlace ==
  ASSUME NEW k, Sound(k), NEW t, NEW w, PlayCurrent(t, w, k)
  PROVE  q'.idx = k.idx
  BY ReturnPlace DEF PlayCurrent

\* The state in which the stop after a pause is expected: the pause of a song
\* that was not near its end, and that the tracker has seen.
HeldState == /\ mark.pause /\ q.active /\ Quiet
             /\ trk.dur /\ trk.last # "near" /\ trk.prev # "playing"

LEMMA HeldTask ==
  ASSUME Sound(q), OnlyIdle, HeldState, NEW t \in Tasks, TaskStep(t) \/ CastReaches(t)
  PROVE  q'.idx = q.idx \/ Judge(t)
<1>1. CASE CastDelivered(t) \/ CastFailed(t)
  BY <1>1, ReturnPlace DEF CastDelivered, CastFailed
<1>2. CASE CastReaches(t) \/ SeekEnds(t) \/ CameHome(t)
  BY <1>2 DEF CastReaches, SeekEnds, CameHome, core
<1>3. CASE RecheckedIdle(t)
  BY <1>3 DEF RecheckedIdle, Reprieved, HeldState
<1>4. CASE RecheckedStall(t) \/ RecheckedFreeze(t)
  BY <1>4 DEF RecheckedStall, RecheckedFreeze, Waits, OnlyIdle, HeldState
<1>5. CASE CameBack(t)
  BY <1>5, PlayCurrentPlace DEF CameBack, Recover
<1> QED
  BY <1>1, <1>2, <1>3, <1>4, <1>5 DEF TaskStep

\* The report that follows the stop is the IDLE of a song that was broken off.
LEMMA HeldReport == ASSUME trk \in Tracks, HeldState, Report PROVE q' = q
<1>1. Decision # "advance"
  BY DEF HeldState, Tracks, Decision, NewUri, Far
<1> QED
  BY <1>1 DEF Report, core

LEMMA HeldTimer ==
  ASSUME trk \in Tracks, HeldState, Timers \/ Pushed \/ Poll \/ HaltEnds
  PROVE  q' = q
<1>1. CASE Pushed \/ Poll
  BY <1>1, HeldReport DEF Pushed, Poll, core
<1>2. CASE TickEnd
  BY <1>2 DEF TickEnd, HeldState
<1>3. CASE WindowTimeout \/ StalledMacrotask \/ TickStalled \/ TickFrozen
  BY <1>3 DEF WindowTimeout, StalledMacrotask, TickStalled, TickFrozen, HandleStalled, HandleFrozen
<1>4. CASE Evaluate \/ SeekSettles \/ HaltEnds
  BY <1>4 DEF Evaluate, SeekSettles, HaltEnds, core
<1> QED
  BY <1>1, <1>2, <1>3, <1>4 DEF Timers

LEMMA HeldWorld ==
  ASSUME World
  PROVE  q' = q \/ \E i \in 1..Cardinality(Songs) : FlowAdvance(i)
  BY DEF World, SetFlowOwned, DeviceMoves, PauseWatchdog, LinkChanges, TargetChanges,
         GroupChanges, core

\* What a user does is not what nobody asked for.
LEMMA UsersSpend == ASSUME WorldOK, Users PROVE ~Quiet
<1>1. \E e : Spend(e)
  BY DEF Users, PlayFrom, JumpTo, RemoveAt, NextSong, PrevSong, SetPlayMode, Enqueue, Reorder,
         Clear, StopPlayback, ResumePlayback, Pause, ResumeActive, Seek
<1>2. events \in Nat
  BY QueueAssumption DEF WorldOK
<1> QED
  BY <1>1, <1>2 DEF Spend, Quiet

\* The ways in which the queue may move while the pause is held.
MovesHeld == \/ \E i \in 1..Cardinality(Songs) : FlowAdvance(i)
             \/ \E t \in Tasks : Judge(t)

LEMMA HeldStep ==
  ASSUME Sound(q), Rest, OnlyIdle, [Next]_vars, HeldState
  PROVE  q'.idx = q.idx \/ MovesHeld
<1>0. trk \in Tracks /\ WorldOK
  BY DEF Rest, SeenOK
<1>1. CASE UNCHANGED vars
  BY <1>1 DEF vars, core
<1>2. ASSUME NEW t \in Tasks, TaskStep(t) \/ CastReaches(t) PROVE q'.idx = q.idx \/ MovesHeld
  BY <1>2, HeldTask DEF MovesHeld
<1>3. CASE Timers \/ Pushed \/ Poll \/ HaltEnds
  BY <1>0, <1>3, HeldTimer
<1>4. CASE World
  BY <1>4, HeldWorld DEF MovesHeld
<1>5. ~Users
  BY <1>0, UsersSpend DEF HeldState
<1> QED
  BY <1>1, <1>2, <1>3, <1>4, <1>5 DEF Next

\* What the pause proofs stand on.
PauseInv == Sound(q) /\ Book /\ Watched /\ Rest /\ OnlyIdle

LEMMA InitPause == Init => PauseInv
  BY InitSound, InitBook, InitTypes, InitOnlyIdle DEF PauseInv

LEMMA StepPause == PauseInv /\ [Next]_vars => PauseInv'
<1> SUFFICES ASSUME PauseInv, [Next]_vars PROVE PauseInv'
  OBVIOUS
<1>1. Sound(q') /\ Rest' /\ OnlyIdle'
  BY StepSound, StepTypes, StepOnlyIdle DEF PauseInv, Rest, JudgedOK
<1> QED
  BY <1>1, StepBook DEF PauseInv

\* The stop that follows thirty seconds of pause moves the queue by no report, no
\* question and no timer.  Two things go on under a pause: a stream of several
\* songs, and the search for a song with a source, begun before the pause.
THEOREM PauseMovesNothing ==
  Spec => [][HeldState => q'.idx = q.idx \/ MovesHeld]_vars
<1>1. PauseInv /\ [Next]_vars => (HeldState => q'.idx = q.idx \/ MovesHeld)
  BY HeldStep DEF PauseInv
<1> QED
  BY <1>1, InitPause, StepPause, PTL DEF Spec

\* Without streams of several songs and songs without a source, nothing does.
NoFlow == flow = FALSE

LEMMA StepNoFlow ==
  ASSUME "flow" \notin Events, NoFlow, [Next]_vars
  PROVE  NoFlow'
<1>1. CASE UNCHANGED vars
  BY <1>1 DEF vars, NoFlow
<1>2. ASSUME NEW t \in Tasks, TaskStep(t) \/ CastReaches(t) PROVE NoFlow'
  BY <1>2 DEF TaskStep, Judge, CastDelivered, CastFailed, SeekEnds, RecheckedIdle, RecheckedStall,
              RecheckedFreeze, CameHome, CameBack, CastReaches, NoFlow
<1>3. CASE Timers \/ Pushed \/ Poll \/ HaltEnds
  BY <1>3 DEF Timers, Evaluate, WindowTimeout, StalledMacrotask, TickStalled, TickFrozen, TickEnd,
              SeekSettles, Pushed, Poll, HaltEnds, NoFlow
<1>4. CASE Users
  BY <1>4 DEF Users, PlayFrom, JumpTo, RemoveAt, NextSong, PrevSong, SetPlayMode, Enqueue, Reorder,
              Clear, StopPlayback, ResumePlayback, Pause, ResumeActive, Seek, NoFlow
<1>5. CASE World
  BY <1>5 DEF World, SetFlowOwned, Spend, FlowAdvance, DeviceMoves, PauseWatchdog, LinkChanges,
              TargetChanges, GroupChanges, NoFlow
<1> QED
  BY <1>1, <1>2, <1>3, <1>4, <1>5 DEF Next

\* The stop that follows thirty seconds of pause does not move the queue while
\* the song was not near its end and its pause was seen, where every song has a
\* source and no stream plays several of them.
THEOREM PauseIsHeld ==
  ASSUME "flow" \notin Events, MayBeDead = {}
  PROVE  Spec => PauseHeld
<1>1. Init => PauseInv /\ NoFlow
  BY InitPause DEF Init, NoFlow
<1>2. PauseInv => dead = {}
  BY DEF PauseInv, Rest, WorldOK
<1>3. PauseInv /\ NoFlow /\ [Next]_vars => (PauseInv /\ NoFlow)'
  BY StepPause, StepNoFlow
<1>4. PauseInv /\ NoFlow /\ [Next]_vars => (HeldState => q'.idx = q.idx)
  <2> SUFFICES ASSUME PauseInv, NoFlow, [Next]_vars, HeldState PROVE q'.idx = q.idx
    OBVIOUS
  <2>1. q'.idx = q.idx \/ MovesHeld
    BY HeldStep DEF PauseInv
  <2>2. ASSUME NEW t \in Tasks, Judge(t) PROVE q' = q
    BY <1>2, <2>2 DEF Judge
  <2>3. \A i \in 1..Cardinality(Songs) : ~FlowAdvance(i)
    BY DEF FlowAdvance, NoFlow
  <2> QED
    BY <2>1, <2>2, <2>3 DEF MovesHeld
<1>5. PauseInv /\ NoFlow /\ [Next]_vars
        => (mark.pause /\ q.active /\ Quiet /\ trk.dur /\ trk.last # "near" /\ trk.prev # "playing"
            => q'.idx = q.idx)
  BY <1>4 DEF HeldState
<1> QED
  BY <1>1, <1>3, <1>5, PTL DEF Spec, PauseHeld
=============================================================================
