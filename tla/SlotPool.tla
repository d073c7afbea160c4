------------------------------ MODULE SlotPool ------------------------------
(***************************************************************************)
(* What the final-job queue promises, with no files, locks or operators:   *)
(* a bounded pool of worker slots.  A process holds at most one job, a job *)
(* is held by at most one process, and never more than MaxSlots jobs are   *)
(* held at once.  FinalJobs implements it (FinalJobs!Slots).               *)
(***************************************************************************)
EXTENDS Naturals, FiniteSets

CONSTANTS Jobs,      \* final-refinement jobs
          Pids,      \* processes
          MaxSlots   \* the largest worker limit an operator grants

VARIABLE held        \* set of [job, pid] pairs: who works on what

Init == held = {}

Grant(p, j) ==
  /\ \A h \in held : h.pid # p /\ h.job # j
  /\ Cardinality(held) < MaxSlots
  /\ held' = held \cup {[job |-> j, pid |-> p]}

(* Returned by the process, or lost with it. *)
Drop(h) == held' = held \ {h}

Next == \/ \E p \in Pids, j \in Jobs : Grant(p, j)
        \/ \E h \in held : Drop(h)

Spec == Init /\ [][Next]_held
=============================================================================
