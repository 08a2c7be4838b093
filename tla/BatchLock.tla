------------------------------ MODULE BatchLock ------------------------------
(***************************************************************************)
(* What the users of acquireBatchLock rely on: calls wait, some are inside *)
(* at once, and nobody is let in beyond the limit of that moment.  A lower *)
(* limit throws nobody out.                                                *)
(***************************************************************************)
EXTENDS Naturals, FiniteSets

CONSTANT Calls

VARIABLES
  cap,      \* how many may be inside
  waiting,  \* calls that asked and were not let in yet
  inside    \* calls that were let in and did not give back

Init == cap \in Nat \ {0} /\ waiting = {} /\ inside = {}

Next ==
  /\ cap' \in Nat \ {0}
  /\ waiting' \subseteq Calls /\ inside' \subseteq Calls
  /\ waiting' \cap inside' = {}
  /\ inside' \subseteq inside \/ Cardinality(inside') <= cap'

Spec == Init /\ [][Next]_<<cap, waiting, inside>>

=============================================================================
