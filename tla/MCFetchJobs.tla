------------------------------ MODULE MCFetchJobs ------------------------------
(* Instances of FetchJobs for TLC. *)
EXTENDS FetchJobs, TLC

Interchangeable == Permutations(Jobs) \cup Permutations(Loops)
================================================================================
