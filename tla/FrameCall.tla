------------------------------ MODULE FrameCall ------------------------------
(***************************************************************************)
(* What a call of build_final_trajectory promises its caller, with no      *)
(* solves, attempts or query sets: the frames of the range are decided one *)
(* by one in order, each once; the call returns when all are, and a caller *)
(* that asked for it gets no trajectory past a rejected frame.             *)
(* FrameRefinement implements it (FrameRefinement!Promise).                *)
(***************************************************************************)
EXTENDS Naturals

CONSTANT N           \* frames of the range

VARIABLES failFast,  \* the caller's option
          decided,   \* frames: the verdict on each, or "none"
          outcome    \* "running", or how the call ended

Frames  == 0 .. N - 1
Reached == {f \in Frames : decided[f] # "none"}

Init ==
  /\ failFast \in BOOLEAN
  /\ decided = [f \in Frames |-> "none"]
  /\ outcome = "running"

(* The next frame is decided; after the last the call returns.  The caller *)
(* hears of each frame and may raise.                                      *)
Decide(f, v) ==
  /\ outcome = "running"
  /\ Reached = {g \in Frames : g < f}
  /\ decided' = [decided EXCEPT ![f] = v]
  /\ \/ outcome' = "raised"
     \/ /\ v = "accepted" \/ ~failFast
        /\ outcome' = IF f = N - 1 THEN "done" ELSE "running"
  /\ UNCHANGED failFast

(* A pause returns the frames that are decided, if there are any. *)
Pause ==
  /\ outcome = "running"
  /\ Reached # {}
  /\ outcome' = "paused"
  /\ UNCHANGED <<failFast, decided>>

Raise ==
  /\ outcome = "running"
  /\ outcome' = "raised"
  /\ UNCHANGED <<failFast, decided>>

Next == \/ \E f \in Frames, v \in {"accepted", "rejected"} : Decide(f, v)
        \/ Pause
        \/ Raise

Spec == Init /\ [][Next]_<<failFast, decided, outcome>>

(* What is returned has no gap, is whole unless the call was paused, and   *)
(* under failFast has no rejected frame.                                   *)
Returned ==
  outcome \in {"done", "paused"} =>
    /\ \E n \in 1 .. N : Reached = {f \in Frames : f < n}
    /\ outcome = "done" => Reached = Frames
    /\ failFast => \A f \in Reached : decided[f] = "accepted"
=============================================================================
