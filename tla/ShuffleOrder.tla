---------------------------- MODULE ShuffleOrder ----------------------------
(***************************************************************************)
(* Which song a play queue goes to next: the play modes and the shuffle    *)
(* order of QueueController.  Indexes count from 1 and 0 stands for the    *)
(* code's -1.  A queue k has items, idx (the current song), mode, order    *)
(* (shuffleOrder) and pos (shufflePos).  shuffleLen is always the length   *)
(* of shuffleOrder: both are written together.                             *)
(***************************************************************************)
EXTENDS Naturals, Sequences

\* The orders Fisher-Yates can produce: it never moves the first element.
Orders(n, h) == {o \in [1..n -> 1..n] : /\ n > 0 => o[1] = h
                                        /\ \A i, j \in 1..n : o[i] = o[j] => i = j}

\* rebuildShuffle(q, keepCurrent): the current song is the head of the order.
Rebuilt(k) ==
  {[k EXCEPT !.order = o, !.pos = IF k.idx > 0 THEN 1 ELSE 0]
     : o \in Orders(Len(k.items), IF k.idx \in DOMAIN k.items THEN k.idx ELSE 1)}

\* ensureShuffleReady: only a change of length is noticed.
Ready(k) == IF Len(k.order) # Len(k.items) THEN Rebuilt(k) ELSE {k}

\* ensureShuffleForLookahead
Looked(k) == IF k.mode = "shuffle" THEN Ready(k) ELSE {k}

\* (fault) an order is taken as it is, whatever the queue has become.
ReadyIfAny(k) == IF k.order = <<>> THEN Rebuilt(k) ELSE {k}

\* shuffleNextIndex
NextRound(k) == {[r EXCEPT !.pos = IF Len(r.order) > 1 THEN 2 ELSE 1] : r \in Rebuilt(k)}
ShuffleNext(k) ==
  UNION {IF r.pos + 1 > Len(r.order) THEN NextRound(r) ELSE {[r EXCEPT !.pos = @ + 1]}
           : r \in Ready(k)}

\* pickNext: the index to go to (0 for none) and what the choice did to the
\* shuffle order.
Picks(k) ==
  LET n == Len(k.items)
      One(i) == {[k |-> k, next |-> i]}
  IN IF n = 0 THEN One(0) ELSE
     CASE k.mode = "one"     -> One(k.idx)
       [] k.mode = "shuffle" -> {[k |-> r, next |-> r.order[r.pos]] : r \in ShuffleNext(k)}
       [] k.mode = "all"     -> One(IF k.idx < n THEN k.idx + 1 ELSE 1)
       [] OTHER              -> One(IF k.idx < n THEN k.idx + 1 ELSE 0)

\* nextDistinctIndex
Other(k) == IF Len(k.items) <= 1 THEN 0 ELSE (k.idx % Len(k.items)) + 1

\* The song the queue stands at.
Current(k, none) == IF k.idx > 0 THEN k.items[k.idx] ELSE none
==============================================================================
