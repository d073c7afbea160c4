--------------------------- MODULE MCCheckpointRun ---------------------------
(* TLC instance of CheckpointRun.  The payloads are interchangeable. *)
EXTENDS CheckpointRun, TLC

PayloadSymmetry == Permutations(Payloads)
=============================================================================
