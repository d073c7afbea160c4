-------------------------- MODULE MCFrameRefinement --------------------------
(* TLC instance of FrameRefinement: the profiles the repository ships, the *)
(* sequential one in a call that continues a trajectory.                   *)
EXTENDS FrameRefinement

Discrete   == [continuous |-> FALSE, recovery |-> FALSE, fallback |-> TRUE, forced |-> FALSE,
               restart |-> TRUE, failFast |-> TRUE, full |-> FALSE, resumed |-> FALSE]
FullState  == [Discrete EXCEPT !.continuous = TRUE, !.recovery = TRUE, !.failFast = FALSE]
Sequential == [FullState EXCEPT !.fallback = FALSE]
Shadow     == [FullState EXCEPT !.forced = TRUE, !.full = TRUE]

ShippedCalls ==
  {Discrete, FullState, [Sequential EXCEPT !.resumed = TRUE], Shadow}
=============================================================================
