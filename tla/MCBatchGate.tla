----------------------------- MODULE MCBatchGate -----------------------------
(* An instance of BatchGate for TLC. *)
EXTENDS BatchGate

\* Configured values below, at and above MAX_BATCH_LIMIT.
FloorValues == {0, 2, MaxLimit, MaxLimit + 2}

=============================================================================
