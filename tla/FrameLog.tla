------------------------------ MODULE FrameLog ------------------------------
(***************************************************************************)
(* What a checkpointed refinement run promises: the frames of a clip are   *)
(* committed once each, in order, and an artifact is published only from   *)
(* the complete log.  CheckpointRun implements it (CheckpointRun!Log).     *)
(***************************************************************************)
EXTENDS Naturals

CONSTANTS N,         \* number of frames in the clip
          Payloads,  \* frame checkpoints, named by their content hash
          None

VARIABLES file,      \* the committed checkpoint of each frame, or None
          artifact   \* the published trajectory, or None

Frames == 0 .. N - 1
Whole  == \A f \in Frames : file[f] # None

Init == file = [f \in Frames |-> None] /\ artifact = None

Commit(f, x) ==
  /\ file[f] = None
  /\ \A g \in Frames : g < f => file[g] # None
  /\ file' = [file EXCEPT ![f] = x]
  /\ UNCHANGED artifact

Publish ==
  /\ Whole
  /\ artifact = None
  /\ artifact' = file
  /\ UNCHANGED file

Withdraw ==
  /\ artifact # None
  /\ artifact' = None
  /\ UNCHANGED file

Next == \/ \E f \in Frames, x \in Payloads : Commit(f, x)
        \/ Publish
        \/ Withdraw

Spec == Init /\ [][Next]_<<file, artifact>>
=============================================================================
