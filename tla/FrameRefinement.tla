--------------------------- MODULE FrameRefinement ---------------------------
(***************************************************************************)
(* The refinement of a range of frames                                     *)
(* (toporetarget/retarget/final_refinement.py): build_final_trajectory with*)
(* its ladder of attempts for a frame that is not accepted, and refine_frame*)
(* with the active-set loop that every attempt runs.                       *)
(*                                                                         *)
(* The optimiser and the distances are data: a solve converges or not, some*)
(* unqueried samples are found inside the margin, an audit passes or not.  *)
(* The loop uses the solver's distances, the final audit the reference's,  *)
(* and the two need not agree.                                             *)
(***************************************************************************)
EXTENDS Naturals, FiniteSets

CONSTANTS
  Samples,    \* collision samples of the robot's surface
  N,          \* frames of the call, numbered from 0
  MaxRounds,  \* max_active_set_rounds of the query profile
  Objectives, \* values of the final objective
  Calls       \* the options build_final_trajectory is called with

(* continuous: transport and continuity gate; recovery, fallback and forced*)
(* window; restart: strict_recovery of the execution profile; failFast; a  *)
(* full query set; resumed: initial_previous is given.                     *)
Options == [continuous : BOOLEAN, recovery : BOOLEAN, fallback : BOOLEAN, forced : BOOLEAN,
            restart : BOOLEAN, failFast : BOOLEAN, full : BOOLEAN, resumed : BOOLEAN]

ASSUME SamplesAssumption    == IsFiniteSet(Samples) /\ Samples # {}
ASSUME BoundsAssumption     == N \in Nat \ {0} /\ MaxRounds \in Nat \ {0}
ASSUME ObjectivesAssumption == Objectives \subseteq Nat
ASSUME CallsAssumption      == Calls \subseteq Options

VARIABLES
  call,      \* the options of this call
  pc,        \* what the call does next
  frame,     \* local_index
  decided,   \* frames: was the decided frame accepted?
  hints,     \* frames with an entry in future_hints
  native,    \* the query set the frame's attempts start from
  attempt,   \* retry_attempt
  starts,    \* multi-start candidates solved, by their place in the list
  guarded,   \* inside the try of the five-frame window
  tried,     \* attempt_candidates
  result,    \* the result of the attempt that ended, or the frame's final one
  query,     \* query_set of the active-set loop
  round,     \* query_rounds
  success,   \* result.success of the last solve
  converged, \* active_set_converged
  missed,    \* was a sample inside the margin not in the last query set?
  clean      \* do all samples pass the final audit?

ladder == <<native, attempt, starts, guarded, tried>>
loop   == <<query, round, success, converged, missed>>
vars   == <<call, pc, frame, decided, hints, ladder, result, loop, clean>>

Frames   == 0 .. N - 1
Status   == {"converged", "line_search", "iteration_limit", "failed"}
InLoop   == {"solve", "restart", "discover", "audit"}
Ended    == {"done", "raised", "paused"}
Attempts == 0 .. 3  \* propagated, trust region, multi-start, five-frame window
Results  == [attempt : 0 .. 4, objective : Objectives \cup {0}, accepted : BOOLEAN]
NoResult == [attempt |-> 4, objective |-> 0, accepted |-> FALSE]

Init ==
  /\ call \in Calls
  /\ pc = "frame"
  /\ frame = 0
  /\ decided = [f \in Frames |-> "none"]
  /\ hints = {}
  /\ native = {} /\ attempt = 0 /\ starts = {} /\ guarded = FALSE /\ tried = {}
  /\ result = NoResult
  /\ query = {} /\ round = 0 /\ success = FALSE /\ converged = FALSE /\ missed = FALSE
  /\ clean = FALSE

-----------------------------------------------------------------------------
(* refine_frame *)

(* The arguments and locals of a refine_frame that starts from q. *)
Enter(q) ==
  /\ query' = q
  /\ round' = 0
  /\ success' = FALSE
  /\ converged' = FALSE
  /\ missed' = FALSE
  /\ clean' = FALSE

(* An attempt of the same frame: the query set is the frame's again. *)
Attempt(a) ==
  /\ pc' = "solve"
  /\ attempt' = a
  /\ Enter(native)
  /\ result' = NoResult
  /\ UNCHANGED <<call, frame, decided, native>>

(* strict_recovery_trigger: a line-search failure or an iteration limit, if*)
(* the profile says so and the point is finite and within the bounds.      *)
MayRestart(s) == call.restart /\ s \in {"line_search", "iteration_limit"}

SolveUncounted ==                     \* mutant: query_rounds is set inside the loop
  /\ pc = "solve"
  /\ round' = 1
  /\ \E s \in Status :
       /\ success' = (s = "converged")
       /\ pc' \in IF MayRestart(s) THEN {"restart", "discover"} ELSE {"discover"}
  /\ UNCHANGED <<call, frame, decided, hints, ladder, result, query, converged, missed, clean>>
(* One SLSQP call, solved once more if it may be restarted. *)
Solve ==
  /\ pc = "solve"
  /\ round' = round + 1
  /\ \E s \in Status :
       /\ success' = (s = "converged")
       /\ pc' \in IF MayRestart(s) THEN {"restart", "discover"} ELSE {"discover"}
  /\ UNCHANGED <<call, frame, decided, hints, ladder, result, query, converged, missed, clean>>

Restart ==
  /\ pc = "restart"
  /\ pc' = "discover"
  /\ \E s \in Status : success' = (s = "converged")
  /\ UNCHANGED <<call, frame, decided, hints, ladder, result, query, round, converged, missed, clean>>

(* expand_query_set *)
Expand(new) == query \cup new

StopsEarly(done, new) ==              \* mutant: stops when the solver converged
  success \/ done \/ round >= MaxRounds \/ query = Samples \/ new = {}
StopsLate(done, new) ==               \* mutant: no bound on the rounds
  (success /\ done) \/ round > MaxRounds \/ query = Samples \/ new = {}
StopsOnlyWhenDone(done, new) ==       \* mutant: solves again with the same queries
  (success /\ done) \/ round >= MaxRounds \/ query = Samples
(* The loop ends: converged, out of rounds, or nothing to add. *)
Stops(done, new) ==
  (success /\ done) \/ round >= MaxRounds \/ query = Samples \/ new = {}

(* The full surface is queried after every solve.  new: unqueried samples  *)
(* inside the margin, those beyond -tau among them; feasible: the active   *)
(* constraints and the hard bound hold.                                    *)
Discover ==
  /\ pc = "discover"
  /\ \E new \in SUBSET (Samples \ query), feasible \in BOOLEAN :
       LET done == feasible /\ new = {}
       IN  /\ converged' = done
           /\ missed' = (new # {})
           /\ \/ /\ Stops(done, new)
                 /\ pc' = "audit"
                 /\ query' = query
              \/ /\ ~Stops(done, new)
                 /\ pc' = "solve"
                 /\ query' = Expand(new)
  /\ UNCHANGED <<call, frame, decided, hints, ladder, result, round, success, clean>>

(* strict_acceptance_decision; active constraints are part of converged. *)
Decide == success /\ converged /\ clean'

HasPrevious == frame > 0 \/ call.resumed
Gated == call.continuous /\ HasPrevious

(* The final audit queries the reference distances: no sample is beyond -b *)
(* and no unqueried one beyond -tau (clean).  Then the strict decision and *)
(* the continuity gate.  bounds: joint and slack bounds, finite values.    *)
Audit ==
  /\ pc = "audit"
  /\ pc' = "judge"
  /\ clean' \in BOOLEAN
  /\ \E bounds, continuous \in BOOLEAN, o \in Objectives :
       result' = [attempt |-> attempt, objective |-> o,
                  accepted |-> Decide /\ bounds /\ (Gated => continuous)]
  /\ tried' = IF attempt < 3 THEN tried \cup {result'} ELSE tried
  /\ UNCHANGED <<call, frame, decided, hints, native, attempt, starts, guarded, loop>>

(* A query returned an invalid sign: refine_frame raises.  Only the window *)
(* catches it, and falls back to the propagated state.                     *)
Invalid ==
  /\ pc \in InLoop
  /\ \/ /\ guarded
        /\ guarded' = FALSE
        /\ Attempt(3)
        /\ UNCHANGED <<hints, starts, tried>>
     \/ /\ ~guarded
        /\ pc' = "raised"
        /\ UNCHANGED <<call, frame, decided, hints, ladder, result, loop, clean>>

-----------------------------------------------------------------------------
(* build_final_trajectory *)

(* pause_check says so; without a single frame there is nothing to return. *)
Pause ==
  /\ pc = "frame"
  /\ pc' = IF frame = 0 THEN "raised" ELSE "paused"
  /\ UNCHANGED <<call, frame, decided, hints, ladder, result, loop, clean>>

(* build_query_set: everything inside the margin and the nearest sample of *)
(* every geometry; the full set if the profile says so.                    *)
NativeQueries == IF call.full THEN {Samples} ELSE SUBSET Samples \ {{}}

BeginFrame ==
  /\ pc = "frame"
  /\ \E q \in NativeQueries : native' = q /\ Enter(q)
  /\ pc' = IF ~call.forced THEN "solve" ELSE IF call.continuous THEN "window" ELSE "raised"
  /\ attempt' = 0
  /\ starts' = {}
  /\ guarded' = FALSE
  /\ tried' = {}
  /\ result' = NoResult
  /\ UNCHANGED <<call, frame, decided, hints>>

(* The samples near an original boundary conflict with the sign proxy. *)
Conflict ==
  /\ pc = "frame"
  /\ pc' = "raised"
  /\ UNCHANGED <<call, frame, decided, hints, ladder, result, loop, clean>>

LeaveFrame ==
  /\ native' = {} /\ attempt' = 0 /\ starts' = {} /\ guarded' = FALSE /\ tried' = {}
  /\ Enter({})
  /\ UNCHANGED <<call, hints>>

Verdict(r) == IF r.accepted THEN "accepted" ELSE "rejected"

NextPc == IF frame + 1 = N THEN "done" ELSE "frame"
FinishAlways(r) ==                    \* mutant: a rejected frame is passed over
  /\ result' = r
  /\ decided' = [decided EXCEPT ![frame] = Verdict(r)]
  /\ pc' \in {NextPc, "raised"}
  /\ frame' = IF pc' = "frame" THEN frame + 1 ELSE frame
  /\ LeaveFrame
(* The frame is decided and handed to the caller, whose frame_callback may *)
(* raise (save_frame does).  If nothing raises, its state is what the next *)
(* frame is propagated from, accepted or not.                              *)
Finish(r) ==
  /\ result' = r
  /\ decided' = [decided EXCEPT ![frame] = Verdict(r)]
  /\ \/ pc' = "raised"
     \/ pc' = NextPc /\ (r.accepted \/ ~call.failFast)
  /\ frame' = IF pc' = "frame" THEN frame + 1 ELSE frame
  /\ LeaveFrame

(* Attempt 0: from the propagated state. *)
JudgePropagated ==
  /\ pc = "judge"
  /\ attempt = 0
  /\ \/ /\ result.accepted \/ ~call.continuous \/ ~call.recovery
        /\ Finish(result)
     \/ /\ ~result.accepted /\ call.continuous /\ call.recovery
        /\ Attempt(1)
        /\ UNCHANGED <<hints, starts, guarded, tried>>

(* Attempt 1: the same with a trust region, which stays on for the rest. *)
JudgeTrust ==
  /\ pc = "judge"
  /\ attempt = 1
  /\ \/ /\ result.accepted
        /\ Finish(result)
     \/ /\ ~result.accepted
        /\ Attempt(2)
        /\ starts' = {1}
        /\ UNCHANGED <<hints, guarded, tried>>

(* Candidate states of the multi-start, in their order: 1 propagated,      *)
(* 2 current warm state, 3 a hint of an earlier window, 4 attempt 0's      *)
(* result, 5 the previous frame's state.  For a first frame 2 is the same  *)
(* state as 1, and for any frame one that repeats another is skipped.      *)
LaterStarts ==
  {i \in 2 .. 5 : HasPrevious /\ (i = 3 => frame \in hints) /\ \A j \in starts : j < i}

NextStart ==
  /\ pc = "judge"
  /\ attempt = 2
  /\ \E i \in LaterStarts : starts' = starts \cup {i}
  /\ Attempt(2)
  /\ UNCHANGED <<hints, guarded, tried>>

Before(r, other) ==
  r.objective < other.objective \/ (r.objective = other.objective /\ r.attempt <= other.attempt)
Minimal(r, S) == r \in S /\ \A other \in S : Before(r, other)
AcceptedOf(S) == {r \in S : r.accepted}

JudgeStartsByObjective ==             \* mutant: the key lost its "not accepted"
  /\ pc = "judge"
  /\ attempt = 2
  /\ \E r \in tried : Minimal(r, tried) /\ Finish(r)
JudgeStartsThenWindow ==              \* mutant: the profile's fallback is not asked
  /\ pc = "judge"
  /\ attempt = 2
  /\ \/ \E r \in tried : Minimal(r, AcceptedOf(tried)) /\ Finish(r)
     \/ /\ AcceptedOf(tried) = {}
        /\ pc' = "window"
        /\ UNCHANGED <<call, frame, decided, hints, ladder, result, loop, clean>>
(* No candidate is left: the best accepted one, the window, or the best.   *)
JudgeStarts ==
  /\ pc = "judge"
  /\ attempt = 2
  /\ \/ \E r \in tried : Minimal(r, AcceptedOf(tried)) /\ Finish(r)
     \/ /\ AcceptedOf(tried) = {}
        /\ call.fallback
        /\ pc' = "window"
        /\ UNCHANGED <<call, frame, decided, hints, ladder, result, loop, clean>>
     \/ /\ AcceptedOf(tried) = {}
        /\ ~call.fallback
        /\ \E r \in tried : Minimal(r, tried) /\ Finish(r)

(* The frames a window solves jointly besides its first. *)
WindowAhead == {f \in Frames : frame < f /\ f < frame + 4}

(* Attempt 3: the joint solve over the window gives the first frame's start*)
(* and hints for the others; if it raises, the propagated state is used.   *)
Window ==
  /\ pc = "window"
  /\ Attempt(3)
  /\ \/ /\ hints' = hints \cup WindowAhead
        /\ guarded' = TRUE
     \/ /\ hints' = hints
        /\ guarded' = FALSE
  /\ UNCHANGED <<starts, tried>>

JudgeWindow ==
  /\ pc = "judge"
  /\ attempt = 3
  /\ Finish(result)

-----------------------------------------------------------------------------
Next ==
  \/ BeginFrame
  \/ Solve
  \/ Restart
  \/ Discover
  \/ Audit
  \/ JudgePropagated
  \/ JudgeTrust
  \/ NextStart
  \/ JudgeStarts
  \/ Window
  \/ JudgeWindow
  \/ Pause
  \/ Conflict
  \/ Invalid

Spec == Init /\ [][Next]_vars

-----------------------------------------------------------------------------
(* Properties *)

TypeOK ==
  /\ call \in Calls
  /\ pc \in {"frame", "window", "judge"} \cup InLoop \cup Ended
  /\ frame \in Frames
  /\ decided \in [Frames -> {"none", "accepted", "rejected"}]
  /\ hints \in SUBSET Frames
  /\ native \in SUBSET Samples
  /\ attempt \in Attempts
  /\ starts \in SUBSET (1 .. 5)
  /\ guarded \in BOOLEAN
  /\ tried \in SUBSET Results
  /\ result \in Results
  /\ query \in SUBSET Samples
  /\ round \in 0 .. MaxRounds
  /\ success \in BOOLEAN
  /\ converged \in BOOLEAN
  /\ missed \in BOOLEAN
  /\ clean \in BOOLEAN

(* Every further round queries at least one sample that no earlier round of *)
(* the attempt did: no solve is repeated on the same constraints, and an   *)
(* attempt ends even without the profile's limit on the rounds.            *)
RoundsBounded == pc \in InLoop => round <= Cardinality(query \ native) + 1

(* A query that was added stays in the set for the rest of the attempt     *)
(* ("the set grows monotonically").                                        *)
QueriesKept == [][round > 0 /\ round' > 0 => query \subseteq query']_vars

(* An attempt ends with a sample inside the margin that was never queried  *)
(* only when its rounds are used up, and is then not accepted, whatever the*)
(* solver says ("must not hide a missed full-surface violation").          *)
NothingHidden ==
  pc \in {"audit", "judge"} /\ missed => round = MaxRounds /\ ~result.accepted

(* A frame is decided by the best of its attempts: if any was accepted, so *)
(* is the frame, by none with a higher objective than another accepted one.*)
BestAttemptWins ==
  [][\A f \in Frames :
       decided'[f] # decided[f] =>
         LET accepted == {r \in tried \cup {result} : r.accepted}
         IN  /\ result' \in tried \cup {result}
             /\ decided'[f] = "accepted" <=> accepted # {}
             /\ accepted # {} =>
                  /\ result' \in accepted
                  /\ \A r \in accepted : result'.objective <= r.objective]_vars

(* A profile without the window fallback "must never silently enter the    *)
(* experimental five-frame path": no result and no hint comes from it.     *)
SequentialStaysSequential ==
  ~call.fallback /\ ~call.forced =>
    /\ hints = {}
    /\ attempt # 3
    /\ result.attempt # 3

(* Under fail_fast nothing is solved from a rejected frame: all frames     *)
(* before the current one were accepted.                                   *)
SolvedFromAccepted ==
  call.failFast => \A f \in Frames : f < frame => decided[f] = "accepted"

(* The caller sees which frames are decided, how, and how the call ended:  *)
(* in order, each once, a pause only with a frame to return, nothing past a*)
(* rejected frame under fail_fast.                                         *)
Outcome == IF pc \in Ended THEN pc ELSE "running"
Promise == INSTANCE FrameCall WITH failFast <- call.failFast, outcome <- Outcome
ImplementsFrameCall == Promise!Spec

(* A call returns a trajectory of the first frames of its range without a  *)
(* gap: all of them, if it was not paused, and under fail_fast no rejected *)
(* one among them: it raises instead.                                      *)
ReturnsDecided == Promise!Returned

(* How far a call is within a frame: the rungs of the ladder, the fallback *)
(* of a window that raised the last, and the places of a round of the loop.*)
Rung == CASE pc = "frame" -> 0
          [] pc = "window" -> 4
          [] OTHER -> IF attempt < 3 THEN attempt + 1 ELSE IF guarded THEN 5 ELSE 6
Place == CASE pc = "restart" -> 0
           [] pc = "discover" -> 1
           [] pc \in {"solve", "audit"} -> 2
           [] OTHER -> 3

(* No step leads back: it ends the call, or it advances the frame, or the  *)
(* rung, or adds a start to those tried on it, or a round to the attempt,  *)
(* or its place in the round.  Each of these is bounded, so no retry, no   *)
(* candidate and no exception makes a call go on for ever.                 *)
CallAdvances ==
  [][/\ pc \notin Ended
     /\ \/ pc' \in Ended
        \/ frame' > frame
        \/ /\ frame' = frame
           /\ \/ Rung' > Rung
              \/ /\ Rung' = Rung
                 /\ \/ starts \subseteq starts' /\ starts' # starts
                    \/ starts' = starts /\ round' > round
                    \/ starts' = starts /\ round' = round /\ Place' > Place]_vars
=============================================================================
