----------------------------- MODULE MCFinalJobs -----------------------------
(* TLC instance of FinalJobs.  Process ids, jobs and operators are         *)
(* interchangeable.                                                        *)
EXTENDS FinalJobs, TLC

QueueSymmetry == Permutations(Pids) \cup Permutations(Jobs) \cup Permutations(Operators)
=============================================================================
