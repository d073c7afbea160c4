------------------------ MODULE FrameRefinementProofs ------------------------
(***************************************************************************)
(* Proofs about FrameRefinement, for every set of samples, every limit on  *)
(* the rounds, every number of frames and every set of calls.              *)
(*                                                                         *)
(* The loop: what the last round found decides how the loop was left       *)
(* (LoopInv), and every round but the first has grown the set (Grown).  The*)
(* ladder: who is in the list of attempts, and who of them may be accepted,*)
(* is a matter of the attempt the frame is at (LadderInv).                 *)
(***************************************************************************)
EXTENDS FrameRefinement, FiniteSetTheorems, TLAPS

(* A round that starts is within the limit; a loop that was left with a    *)
(* sample unqueried had no round left; an accepted attempt passed all three*)
(* verdicts.                                                               *)
LoopInv ==
  /\ pc = "solve" => round < MaxRounds
  /\ pc \in {"audit", "judge"} /\ missed => round = MaxRounds /\ ~converged
  /\ pc \in InLoop => ~result.accepted
  /\ pc = "judge" /\ result.accepted => success /\ converged /\ clean

Grown ==
  /\ native \subseteq query
  /\ pc = "solve" => round <= Cardinality(query \ native)
  /\ pc \in InLoop => round <= Cardinality(query \ native) + 1

(* No attempt that was accepted is behind the frame's present one, but in  *)
(* the multi-start, whose candidates are judged together.                  *)
LadderInv ==
  /\ guarded => attempt = 3
  /\ pc \in InLoop /\ attempt = 0 => tried = {}
  /\ pc = "judge" /\ attempt < 3 => result \in tried
  /\ pc = "judge" /\ attempt < 2 => \A r \in tried : r # result => ~r.accepted
  /\ pc \in InLoop /\ attempt = 1 => \A r \in tried : ~r.accepted
  /\ pc = "window" => \A r \in tried : ~r.accepted
  /\ pc \in InLoop \cup {"judge"} /\ attempt = 3 => \A r \in tried : ~r.accepted

(* A call without fallback is nowhere near the window. *)
OutsideWindow ==
  ~call.fallback /\ ~call.forced =>
    /\ pc # "window"
    /\ ~guarded
    /\ \A r \in tried : r.attempt # 3

Inv == TypeOK /\ LoopInv

-----------------------------------------------------------------------------
(* Frames are numbered without gaps, from 0 to N - 1. *)
LEMMA FramesInNat ==
  /\ 0 \in Frames
  /\ \A f \in Frames : f \in Nat /\ (f + 1 = N \/ f + 1 \in Frames)
BY BoundsAssumption DEF Frames

(* A frame below the next of g is below g or is g. *)
LEMMA FramesOrdered ==
  \A f, g \in Frames :
    (f < g => f # g) /\ (f < g + 1 => f < g \/ f = g)
BY DEF Frames

(* The placeholder of a frame without result is a rejected result. *)
LEMMA NoResultTyped == NoResult \in Results
BY DEF NoResult, Results

LEMMA NoResultRejected == NoResult.attempt = 4 /\ ~NoResult.accepted
BY DEF NoResult

(* Objectives of results are numbers, so attempts can be compared. *)
LEMMA ObjectivesInNat == \A r \in Results : r.objective \in Nat
<1>1. \A r \in Results : r.objective \in Objectives \cup {0}
  BY DEF Results
<1>2. Objectives \cup {0} \subseteq Nat
  BY ObjectivesAssumption
<1>3. QED
  BY <1>1, <1>2

(* What Audit builds is a result. *)
LEMMA ResultOfAttempt ==
  ASSUME NEW a \in Attempts, NEW o \in Objectives, NEW b \in BOOLEAN
  PROVE  [attempt |-> a, objective |-> o, accepted |-> b] \in Results
BY DEF Results, Attempts

(* The constants the actions assign are in the ranges of TypeOK. *)
LEMMA NumbersTyped ==
  /\ 0 \in 0 .. MaxRounds
  /\ {0, 1, 2, 3} \subseteq Attempts
  /\ 1 \in 1 .. 5
BY BoundsAssumption DEF Attempts

(* A decided frame is accepted or rejected. *)
LEMMA VerdictTyped == \A r : Verdict(r) \in {"accepted", "rejected"}
BY DEF Verdict

(* A call starts with Inv. *)
LEMMA InitInv == Init => Inv
<1> SUFFICES ASSUME Init PROVE Inv
  OBVIOUS
<1> USE FramesInNat, NoResultTyped, NumbersTyped
<1>1. TypeOK
  BY DEF Init, TypeOK, Ended
<1>2. LoopInv
  BY BoundsAssumption, NoResultRejected DEF Init, LoopInv, InLoop
<1>3. QED
  BY <1>1, <1>2 DEF Inv

(* Every step keeps the types; Solve needs that a round was left. *)
LEMMA TypeStep == ASSUME Inv, [Next]_vars PROVE TypeOK'
<1> USE FramesInNat, NoResultTyped, NumbersTyped, VerdictTyped
<1> USE DEF Inv, TypeOK, InLoop, Ended
<1>1. ASSUME BeginFrame PROVE TypeOK'
  BY <1>1 DEF BeginFrame, NativeQueries, Enter
<1>2. ASSUME Solve PROVE TypeOK'
  <2>1. round + 1 \in 0 .. MaxRounds
    BY <1>2, BoundsAssumption DEF Solve, LoopInv
  <2>2. QED
    BY <1>2, <2>1 DEF Solve, MayRestart, ladder
<1>3. ASSUME Restart PROVE TypeOK'
  BY <1>3 DEF Restart, ladder
<1>4. ASSUME Discover PROVE TypeOK'
  BY <1>4 DEF Discover, Expand, ladder
<1>5. ASSUME Audit PROVE TypeOK'
  <2>1. PICK bounds \in BOOLEAN, continuous \in BOOLEAN, o \in Objectives :
          result' = [attempt |-> attempt, objective |-> o,
                     accepted |-> Decide /\ bounds /\ (Gated => continuous)]
    BY <1>5 DEF Audit
  <2>2. result' \in Results
    BY <2>1, ResultOfAttempt
  <2>3. QED
    BY <1>5, <2>2 DEF Audit, loop
<1>6. ASSUME JudgePropagated PROVE TypeOK'
  BY <1>6 DEF JudgePropagated, Finish, NextPc, LeaveFrame, Attempt, Enter
<1>7. ASSUME JudgeTrust PROVE TypeOK'
  BY <1>7 DEF JudgeTrust, Finish, NextPc, LeaveFrame, Attempt, Enter
<1>8. ASSUME NextStart PROVE TypeOK'
  <2>1. LaterStarts \subseteq 1 .. 5
    BY DEF LaterStarts
  <2>2. QED
    BY <1>8, <2>1 DEF NextStart, Attempt, Enter
<1>9. ASSUME JudgeStarts PROVE TypeOK'
  BY <1>9 DEF JudgeStarts, Minimal, AcceptedOf, Finish, NextPc, LeaveFrame, Enter, ladder, loop
<1>10. ASSUME Window PROVE TypeOK'
  BY <1>10 DEF Window, WindowAhead, Attempt, Enter
<1>11. ASSUME JudgeWindow PROVE TypeOK'
  BY <1>11 DEF JudgeWindow, Finish, NextPc, LeaveFrame, Enter
<1>12. ASSUME Pause PROVE TypeOK'
  BY <1>12 DEF Pause, ladder, loop
<1>13. ASSUME Conflict PROVE TypeOK'
  BY <1>13 DEF Conflict, ladder, loop
<1>14. ASSUME Invalid PROVE TypeOK'
  BY <1>14 DEF Invalid, Attempt, Enter, ladder, loop
<1>15. ASSUME UNCHANGED vars PROVE TypeOK'
  BY <1>15 DEF vars, ladder, loop
<1>16. QED
  BY <1>1, <1>2, <1>3, <1>4, <1>5, <1>6, <1>7, <1>8, <1>9, <1>10, <1>11, <1>12, <1>13, <1>14, <1>15
     DEF Next

(* Every step keeps what the loop's verdicts are worth. *)
LEMMA LoopStep == ASSUME Inv, [Next]_vars PROVE LoopInv'
<1> USE BoundsAssumption, NoResultRejected
<1> USE DEF Inv, LoopInv, InLoop
<1>1. ASSUME BeginFrame PROVE LoopInv'
  BY <1>1 DEF BeginFrame, NativeQueries, Enter, TypeOK
<1>2. ASSUME Solve PROVE LoopInv'
  BY <1>2 DEF Solve, MayRestart, ladder, TypeOK
<1>3. ASSUME Restart PROVE LoopInv'
  BY <1>3 DEF Restart, ladder, TypeOK
<1>4. ASSUME Discover PROVE LoopInv'
  <2>1. PICK new \in SUBSET (Samples \ query), feasible \in BOOLEAN :
          /\ converged' = (feasible /\ new = {})
          /\ missed' = (new # {})
          /\ \/ Stops(feasible /\ new = {}, new) /\ pc' = "audit"
             \/ ~Stops(feasible /\ new = {}, new) /\ pc' = "solve"
    BY <1>4 DEF Discover
  <2>2. round' = round /\ round \in 0 .. MaxRounds /\ result' = result /\ pc = "discover"
    BY <1>4 DEF Discover, TypeOK
  <2>3. CASE pc' = "audit" /\ Stops(feasible /\ new = {}, new)
    <3>1. new # {} => round = MaxRounds
      BY <2>2, <2>3 DEF Stops
    <3>2. QED
      BY <2>1, <2>2, <2>3, <3>1
  <2>4. CASE pc' = "solve" /\ ~Stops(feasible /\ new = {}, new)
    BY <2>2, <2>4 DEF Stops
  <2>5. QED
    BY <2>1, <2>3, <2>4
<1>5. ASSUME Audit PROVE LoopInv'
  BY <1>5 DEF Audit, Decide, loop, TypeOK
<1>6. ASSUME JudgePropagated PROVE LoopInv'
  BY <1>6 DEF JudgePropagated, Finish, NextPc, LeaveFrame, Attempt, Enter, TypeOK
<1>7. ASSUME JudgeTrust PROVE LoopInv'
  BY <1>7 DEF JudgeTrust, Finish, NextPc, LeaveFrame, Attempt, Enter, TypeOK
<1>8. ASSUME NextStart PROVE LoopInv'
  BY <1>8 DEF NextStart, LaterStarts, Attempt, Enter, TypeOK
<1>9. ASSUME JudgeStarts PROVE LoopInv'
  BY <1>9 DEF JudgeStarts, Minimal, AcceptedOf, Finish, NextPc, LeaveFrame, Enter, ladder, loop,
     TypeOK
<1>10. ASSUME Window PROVE LoopInv'
  BY <1>10 DEF Window, WindowAhead, Attempt, Enter, TypeOK
<1>11. ASSUME JudgeWindow PROVE LoopInv'
  BY <1>11 DEF JudgeWindow, Finish, NextPc, LeaveFrame, Enter, TypeOK
<1>12. ASSUME Pause PROVE LoopInv'
  BY <1>12 DEF Pause, ladder, loop, TypeOK
<1>13. ASSUME Conflict PROVE LoopInv'
  BY <1>13 DEF Conflict, ladder, loop, TypeOK
<1>14. ASSUME Invalid PROVE LoopInv'
  BY <1>14 DEF Invalid, Attempt, Enter, ladder, loop, TypeOK
<1>15. ASSUME UNCHANGED vars PROVE LoopInv'
  BY <1>15 DEF vars, ladder, loop, TypeOK
<1>16. QED
  BY <1>1, <1>2, <1>3, <1>4, <1>5, <1>6, <1>7, <1>8, <1>9, <1>10, <1>11, <1>12, <1>13, <1>14, <1>15
     DEF Next

(* The types and the loop's verdicts are invariant. *)
LEMMA Invariance == Spec => []Inv
<1>1. Inv /\ [Next]_vars => Inv'
  BY TypeStep, LoopStep DEF Inv
<1>2. QED
  BY InitInv, <1>1, PTL DEF Spec

(* Every variable of a call keeps its type, whatever the samples, the limit*)
(* on the rounds and the options.                                          *)
THEOREM TypeCorrect == Spec => []TypeOK
<1>1. Inv => TypeOK
  BY DEF Inv
<1>2. QED
  BY Invariance, <1>1, PTL

(* An attempt that missed a sample used up its rounds and is rejected.     *)
THEOREM NothingIsHidden == Spec => []NothingHidden
<1>1. Inv => NothingHidden
  BY DEF Inv, LoopInv, NothingHidden, InLoop
<1>2. QED
  BY Invariance, <1>1, PTL

-----------------------------------------------------------------------------
(* The query set of an attempt only grows.                                 *)
THEOREM QueriesStay == Spec => QueriesKept
<1>1. ASSUME TypeOK, [Next]_vars, round > 0, round' > 0 PROVE query \subseteq query'
  <2> USE <1>1
  <2>1. ASSUME BeginFrame PROVE query \subseteq query'
    BY <2>1 DEF BeginFrame, Enter
  <2>2. ASSUME Solve PROVE query \subseteq query'
    BY <2>2 DEF Solve
  <2>3. ASSUME Restart PROVE query \subseteq query'
    BY <2>3 DEF Restart
  <2>4. ASSUME Discover PROVE query \subseteq query'
    BY <2>4 DEF Discover, Expand
  <2>5. ASSUME Audit PROVE query \subseteq query'
    BY <2>5 DEF Audit, loop
  <2>6. ASSUME JudgePropagated PROVE query \subseteq query'
    BY <2>6 DEF JudgePropagated, Attempt, Enter, Finish, NextPc, LeaveFrame
  <2>7. ASSUME JudgeTrust PROVE query \subseteq query'
    BY <2>7 DEF JudgeTrust, Attempt, Enter, Finish, NextPc, LeaveFrame
  <2>8. ASSUME NextStart PROVE query \subseteq query'
    BY <2>8 DEF NextStart, Attempt, Enter
  <2>9. ASSUME JudgeStarts PROVE query \subseteq query'
    BY <2>9 DEF JudgeStarts, Enter, loop, Finish, NextPc, LeaveFrame
  <2>10. ASSUME Window PROVE query \subseteq query'
    BY <2>10 DEF Window, Attempt, Enter
  <2>11. ASSUME JudgeWindow PROVE query \subseteq query'
    BY <2>11 DEF JudgeWindow, Enter, Finish, NextPc, LeaveFrame
  <2>12. ASSUME Pause PROVE query \subseteq query'
    BY <2>12 DEF Pause, loop
  <2>13. ASSUME Conflict PROVE query \subseteq query'
    BY <2>13 DEF Conflict, loop
  <2>14. ASSUME Invalid PROVE query \subseteq query'
    BY <2>14 DEF Invalid, Attempt, Enter, loop
  <2>15. ASSUME UNCHANGED vars PROVE query \subseteq query'
    BY <2>15 DEF vars, loop
  <2>16. QED
    BY <2>1, <2>2, <2>3, <2>4, <2>5, <2>6, <2>7, <2>8, <2>9, <2>10, <2>11, <2>12, <2>13, <2>14, <2>15
       DEF Next
<1>2. TypeOK /\ [Next]_vars => [round > 0 /\ round' > 0 => query \subseteq query']_vars
  BY <1>1
<1>3. QED
  BY TypeCorrect, <1>2, PTL DEF Spec, QueriesKept

(* Adding to a set of samples, from outside of both, enlarges its part     *)
(* outside the other.                                                      *)
LEMMA GrowsByOne ==
  ASSUME NEW q \in SUBSET Samples, NEW n \in SUBSET q,
         NEW new \in SUBSET (Samples \ q), new # {}
  PROVE  /\ Cardinality(q \ n) \in Nat
         /\ Cardinality((q \cup new) \ n) \in Nat
         /\ Cardinality((q \cup new) \ n) >= Cardinality(q \ n) + 1
<1> PICK s \in new : TRUE
  OBVIOUS
<1>1. IsFiniteSet(q \ n) /\ IsFiniteSet((q \cup new) \ n)
  BY SamplesAssumption, FS_Subset
<1>2. s \notin q \ n /\ (q \ n) \cup {s} \in SUBSET ((q \cup new) \ n)
  OBVIOUS
<1>3. Cardinality((q \ n) \cup {s}) = Cardinality(q \ n) + 1
  BY <1>1, <1>2, FS_AddElement
<1>4. Cardinality((q \ n) \cup {s}) <= Cardinality((q \cup new) \ n)
  BY <1>1, <1>2, FS_Subset
<1>5. Cardinality(q \ n) \in Nat /\ Cardinality((q \cup new) \ n) \in Nat
  BY <1>1, FS_CardinalityType
<1>6. QED
  BY <1>3, <1>4, <1>5

(* The samples added in an attempt can be counted. *)
LEMMA NewQueries == ASSUME TypeOK, native \subseteq query PROVE Cardinality(query \ native) \in Nat
<1>1. IsFiniteSet(query \ native)
  BY SamplesAssumption, FS_Subset DEF TypeOK
<1>2. QED
  BY <1>1, FS_CardinalityType

(* A loop that goes on has added a sample. *)
LEMMA GrownStep == ASSUME TypeOK, Grown, [Next]_vars PROVE Grown'
<1> USE NewQueries
<1> USE DEF Grown, InLoop
<1>0. TypeOK => round \in Nat
  BY BoundsAssumption DEF TypeOK
<1>E. ASSUME NEW n \in SUBSET Samples PROVE Cardinality(n \ n) = 0
  BY FS_EmptySet
<1>1. ASSUME BeginFrame PROVE Grown'
  BY <1>1, <1>0, <1>E DEF BeginFrame, NativeQueries, Enter, TypeOK
<1>2. ASSUME Solve PROVE Grown'
  BY <1>2, <1>0, <1>E DEF Solve, MayRestart, ladder
<1>3. ASSUME Restart PROVE Grown'
  BY <1>3, <1>0, <1>E DEF Restart, ladder
<1>4. ASSUME Discover PROVE Grown'
  <2>1. PICK new \in SUBSET (Samples \ query), feasible \in BOOLEAN :
          \/ pc' = "audit" /\ query' = query
          \/ /\ ~Stops(feasible /\ new = {}, new)
             /\ pc' = "solve"
             /\ query' = query \cup new
    BY <1>4 DEF Discover, Expand
  <2>2. native' = native /\ round' = round /\ pc = "discover"
    BY <1>4 DEF Discover, ladder
  <2>3. CASE query' = query /\ pc' = "audit"
    BY <2>2, <2>3
  <2>4. CASE query' = query \cup new /\ pc' = "solve" /\ ~Stops(feasible /\ new = {}, new)
    <3>1. new # {}
      BY <2>4 DEF Stops
    <3>2. Cardinality(query' \ native) >= Cardinality(query \ native) + 1
          /\ Cardinality(query' \ native) \in Nat
      BY <3>1, <2>4, GrowsByOne DEF TypeOK
    <3>3. native \subseteq query'
      BY <2>4
    <3>4. QED
      BY <3>2, <3>3, <2>2, <2>4, <1>0
  <2>5. QED
    BY <2>1, <2>3, <2>4
<1>5. ASSUME Audit PROVE Grown'
  BY <1>5, <1>0, <1>E DEF Audit, loop
<1>6. ASSUME JudgePropagated PROVE Grown'
  BY <1>6, <1>0, <1>E DEF JudgePropagated, Finish, NextPc, LeaveFrame, Attempt, Enter, TypeOK
<1>7. ASSUME JudgeTrust PROVE Grown'
  BY <1>7, <1>0, <1>E DEF JudgeTrust, Finish, NextPc, LeaveFrame, Attempt, Enter, TypeOK
<1>8. ASSUME NextStart PROVE Grown'
  BY <1>8, <1>0, <1>E DEF NextStart, LaterStarts, Attempt, Enter, TypeOK
<1>9. ASSUME JudgeStarts PROVE Grown'
  BY <1>9, <1>0, <1>E DEF JudgeStarts, Minimal, AcceptedOf, Finish, NextPc, LeaveFrame, Enter,
     ladder, loop
<1>10. ASSUME Window PROVE Grown'
  BY <1>10, <1>0, <1>E DEF Window, WindowAhead, Attempt, Enter, TypeOK
<1>11. ASSUME JudgeWindow PROVE Grown'
  BY <1>11, <1>0, <1>E DEF JudgeWindow, Finish, NextPc, LeaveFrame, Enter
<1>12. ASSUME Pause PROVE Grown'
  BY <1>12, <1>0, <1>E DEF Pause, ladder, loop
<1>13. ASSUME Conflict PROVE Grown'
  BY <1>13, <1>0, <1>E DEF Conflict, ladder, loop
<1>14. ASSUME Invalid PROVE Grown'
  BY <1>14, <1>0, <1>E DEF Invalid, Attempt, Enter, ladder, loop, TypeOK
<1>15. ASSUME UNCHANGED vars PROVE Grown'
  BY <1>15, <1>0, <1>E DEF vars, ladder, loop
<1>16. QED
  BY <1>1, <1>2, <1>3, <1>4, <1>5, <1>6, <1>7, <1>8, <1>9, <1>10, <1>11, <1>12, <1>13, <1>14, <1>15
     DEF Next

(* Every round of an attempt after its first queries a sample more.        *)
THEOREM RoundsAreBounded == Spec => []RoundsBounded
<1>1. Init => Grown
  BY FS_EmptySet DEF Init, Grown, InLoop
<1>2. TypeOK /\ Grown /\ [Next]_vars => Grown'
  BY GrownStep
<1>3. Grown => RoundsBounded
  BY DEF Grown, RoundsBounded
<1>4. QED
  BY TypeCorrect, <1>1, <1>2, <1>3, PTL DEF Spec

-----------------------------------------------------------------------------
(* Every step keeps what may be accepted on each rung of the ladder. *)
LEMMA LadderStep == ASSUME TypeOK, LadderInv, [Next]_vars PROVE LadderInv'
<1> USE DEF LadderInv, InLoop
<1>1. ASSUME BeginFrame PROVE LadderInv'
  BY <1>1 DEF BeginFrame, Enter
<1>2. ASSUME Solve PROVE LadderInv'
  BY <1>2 DEF Solve, ladder
<1>3. ASSUME Restart PROVE LadderInv'
  BY <1>3 DEF Restart, ladder
<1>4. ASSUME Discover PROVE LadderInv'
  BY <1>4 DEF Discover, Expand, ladder
<1>5. ASSUME Audit PROVE LadderInv'
  <2>1. attempt \in {0, 1, 2, 3}
    BY DEF TypeOK, Attempts
  <2>2. /\ pc' = "judge" /\ guarded' = guarded /\ attempt' = attempt
        /\ tried' = IF attempt < 3 THEN tried \cup {result'} ELSE tried
    BY <1>5 DEF Audit
  <2>3. CASE attempt < 3
    BY <1>5, <2>1, <2>2, <2>3 DEF Audit
  <2>4. CASE attempt = 3
    BY <1>5, <2>2, <2>4 DEF Audit
  <2>5. QED
    BY <2>1, <2>3, <2>4
<1>6. ASSUME JudgePropagated PROVE LadderInv'
  BY <1>6 DEF JudgePropagated, Finish, NextPc, LeaveFrame, Attempt, Enter
<1>7. ASSUME JudgeTrust PROVE LadderInv'
  BY <1>7 DEF JudgeTrust, Finish, NextPc, LeaveFrame, Attempt, Enter
<1>8. ASSUME NextStart PROVE LadderInv'
  BY <1>8 DEF NextStart, Attempt, Enter
<1>9. ASSUME JudgeStarts PROVE LadderInv'
  <2>1. CASE pc' \in {"raised", "done", "frame"} /\ guarded' = FALSE
    BY <2>1
  <2>2. CASE AcceptedOf(tried) = {} /\ pc' = "window" /\ UNCHANGED <<guarded, attempt, tried>>
    BY <2>2 DEF AcceptedOf
  <2>3. QED
    BY <1>9, <2>1, <2>2 DEF JudgeStarts, Finish, NextPc, LeaveFrame, ladder
<1>10. ASSUME Window PROVE LadderInv'
  BY <1>10 DEF Window, Attempt, Enter
<1>11. ASSUME JudgeWindow PROVE LadderInv'
  BY <1>11 DEF JudgeWindow, Finish, NextPc, LeaveFrame, Enter
<1>12. ASSUME Pause PROVE LadderInv'
  BY <1>12 DEF Pause, ladder, loop
<1>13. ASSUME Conflict PROVE LadderInv'
  BY <1>13 DEF Conflict, ladder, loop
<1>14. ASSUME Invalid PROVE LadderInv'
  BY <1>14 DEF Invalid, Attempt, Enter, ladder
<1>15. ASSUME UNCHANGED vars PROVE LadderInv'
  BY <1>15 DEF vars, ladder, loop
<1>16. QED
  BY <1>1, <1>2, <1>3, <1>4, <1>5, <1>6, <1>7, <1>8, <1>9, <1>10, <1>11, <1>12, <1>13, <1>14, <1>15
     DEF Next

(* So it always holds. *)
LEMMA LadderInvariance == Spec => []LadderInv
<1>1. Init => LadderInv
  BY DEF Init, LadderInv, InLoop
<1>2. QED
  BY TypeCorrect, <1>1, LadderStep, PTL DEF Spec

(* What BestAttemptWins says of a step. *)
Best ==
  \A f \in Frames :
    decided'[f] # decided[f] =>
      LET accepted == {r \in tried \cup {result} : r.accepted}
      IN  /\ result' \in tried \cup {result}
          /\ decided'[f] = "accepted" <=> accepted # {}
          /\ accepted # {} =>
               /\ result' \in accepted
               /\ \A r \in accepted : result'.objective <= r.objective

(* A frame that finishes with a result no accepted attempt beats is decided*)
(* as BestAttemptWins says.                                                *)
LEMMA FinishBest ==
  ASSUME TypeOK, NEW r \in tried \cup {result}, Finish(r),
         \A other \in tried \cup {result} :
           other.accepted => r.accepted /\ r.objective <= other.objective
  PROVE  Best
<1>1. result' = r /\ decided' = [decided EXCEPT ![frame] = Verdict(r)]
  BY DEF Finish, NextPc
<1>2. ASSUME NEW f \in Frames, decided'[f] # decided[f] PROVE decided'[f] = Verdict(r)
  BY <1>1, <1>2 DEF TypeOK
<1>3. Verdict(r) = "accepted" <=> r.accepted
  BY DEF Verdict
<1>4. QED
  BY <1>1, <1>2, <1>3 DEF Best

(* So is one whose earlier attempts were all rejected. *)
LEMMA OnlyResultAccepted ==
  ASSUME TypeOK, \A r \in tried : r # result => ~r.accepted, Finish(result)
  PROVE  Best
<1>1. result.objective <= result.objective
  BY ObjectivesInNat DEF TypeOK
<1>2. \A other \in tried \cup {result} : other.accepted => other = result
  OBVIOUS
<1>3. QED
  BY <1>1, <1>2, FinishBest

(* Every step decides frames only in one of these two ways. *)
LEMMA BestStep == ASSUME TypeOK, LadderInv, [Next]_vars PROVE Best
<1>0. ASSUME decided' = decided PROVE Best
  BY <1>0 DEF Best
<1>1. ASSUME BeginFrame PROVE Best
  BY <1>0, <1>1 DEF BeginFrame
<1>2. ASSUME Solve PROVE Best
  BY <1>0, <1>2 DEF Solve
<1>3. ASSUME Restart PROVE Best
  BY <1>0, <1>3 DEF Restart
<1>4. ASSUME Discover PROVE Best
  BY <1>0, <1>4 DEF Discover
<1>5. ASSUME Audit PROVE Best
  BY <1>0, <1>5 DEF Audit
<1>6. ASSUME JudgePropagated PROVE Best
  <2>1. CASE Finish(result)
    BY <1>6, <2>1, OnlyResultAccepted DEF JudgePropagated, LadderInv
  <2>2. CASE decided' = decided
    BY <1>0, <2>2
  <2>3. QED
    BY <1>6, <2>1, <2>2 DEF JudgePropagated, Attempt
<1>7. ASSUME JudgeTrust PROVE Best
  <2>1. CASE Finish(result)
    BY <1>7, <2>1, OnlyResultAccepted DEF JudgeTrust, LadderInv
  <2>2. CASE decided' = decided
    BY <1>0, <2>2
  <2>3. QED
    BY <1>7, <2>1, <2>2 DEF JudgeTrust, Attempt
<1>8. ASSUME NextStart PROVE Best
  BY <1>0, <1>8 DEF NextStart, Attempt
<1>9. ASSUME JudgeStarts PROVE Best
  <2>0. tried \cup {result} = tried /\ tried \subseteq Results
    BY <1>9 DEF JudgeStarts, LadderInv, TypeOK
  <2>1. ASSUME NEW r \in tried, Minimal(r, AcceptedOf(tried)), Finish(r) PROVE Best
    <3>1. r.accepted
      BY <2>1 DEF Minimal, AcceptedOf
    <3>2. ASSUME NEW other \in tried, other.accepted PROVE r.objective <= other.objective
      <4>1. Before(r, other)
        BY <2>1, <3>2 DEF Minimal, AcceptedOf
      <4>2. r.objective \in Nat /\ other.objective \in Nat
        BY <2>0, ObjectivesInNat
      <4>3. QED
        BY <4>1, <4>2 DEF Before
    <3>3. QED
      BY <2>0, <2>1, <3>1, <3>2, FinishBest
  <2>2. ASSUME NEW r \in tried, AcceptedOf(tried) = {}, Finish(r) PROVE Best
    <3>1. \A other \in tried : ~other.accepted
      BY <2>2 DEF AcceptedOf
    <3>2. QED
      BY <2>0, <2>2, <3>1, FinishBest
  <2>3. CASE decided' = decided
    BY <1>0, <2>3
  <2>4. QED
    BY <1>9, <2>1, <2>2, <2>3 DEF JudgeStarts
<1>10. ASSUME Window PROVE Best
  BY <1>0, <1>10 DEF Window, Attempt
<1>11. ASSUME JudgeWindow PROVE Best
  BY <1>11, OnlyResultAccepted DEF JudgeWindow, LadderInv
<1>12. ASSUME Pause PROVE Best
  BY <1>0, <1>12 DEF Pause
<1>13. ASSUME Conflict PROVE Best
  BY <1>0, <1>13 DEF Conflict
<1>14. ASSUME Invalid PROVE Best
  BY <1>0, <1>14 DEF Invalid, Attempt
<1>15. ASSUME UNCHANGED vars PROVE Best
  BY <1>0, <1>15 DEF vars
<1>16. QED
  BY <1>1, <1>2, <1>3, <1>4, <1>5, <1>6, <1>7, <1>8, <1>9, <1>10, <1>11, <1>12, <1>13, <1>14, <1>15
     DEF Next

(* A frame is decided by an accepted attempt if there is one, and by none  *)
(* that another accepted attempt beats.                                    *)
THEOREM BestAttemptDecides == Spec => BestAttemptWins
<1>1. TypeOK /\ LadderInv /\ [Next]_vars => [Best]_vars
  BY BestStep
<1>2. [][Best]_vars => BestAttemptWins
  BY PTL DEF Best, BestAttemptWins
<1>3. QED
  BY TypeCorrect, LadderInvariance, <1>1, <1>2, PTL DEF Spec

(* Under fail_fast the frames behind the current one are all accepted.     *)
THEOREM OnlyFromAccepted == Spec => []SolvedFromAccepted
<1>1. Init => SolvedFromAccepted
  BY FramesInNat DEF Init, SolvedFromAccepted
<1>2. ASSUME TypeOK, SolvedFromAccepted, NEW r, Finish(r) PROVE SolvedFromAccepted'
  <2>1. /\ frame \in Frames
        /\ decided' = [decided EXCEPT ![frame] = Verdict(r)]
        /\ \A f \in Frames : f # frame => decided'[f] = decided[f]
        /\ decided'[frame] = Verdict(r)
        /\ call' = call
    BY <1>2 DEF Finish, NextPc, LeaveFrame, TypeOK
  <2>2. CASE frame' = frame
    BY <1>2, <2>1, <2>2, FramesOrdered DEF SolvedFromAccepted
  <2>3. CASE frame' = frame + 1 /\ pc' = "frame"
    <3>1. call.failFast => Verdict(r) = "accepted"
      BY <1>2, <2>3 DEF Finish, NextPc, Verdict
    <3>2. \A f \in Frames : f < frame + 1 => f < frame \/ f = frame
      BY <2>1, FramesOrdered
    <3>3. QED
      BY <1>2, <2>1, <2>3, <3>1, <3>2 DEF SolvedFromAccepted
  <2>4. QED
    BY <1>2, <2>2, <2>3 DEF Finish, NextPc
<1>3. ASSUME SolvedFromAccepted, call' = call, frame' = frame, decided' = decided
      PROVE  SolvedFromAccepted'
  BY <1>3 DEF SolvedFromAccepted
<1>4. ASSUME TypeOK, SolvedFromAccepted, [Next]_vars PROVE SolvedFromAccepted'
  <2> USE <1>4, <1>2, <1>3
  <2>1. ASSUME BeginFrame PROVE SolvedFromAccepted'
    BY <2>1 DEF BeginFrame
  <2>2. ASSUME Solve PROVE SolvedFromAccepted'
    BY <2>2 DEF Solve
  <2>3. ASSUME Restart PROVE SolvedFromAccepted'
    BY <2>3 DEF Restart
  <2>4. ASSUME Discover PROVE SolvedFromAccepted'
    BY <2>4 DEF Discover
  <2>5. ASSUME Audit PROVE SolvedFromAccepted'
    BY <2>5 DEF Audit
  <2>6. ASSUME JudgePropagated PROVE SolvedFromAccepted'
    BY <2>6 DEF JudgePropagated, Attempt
  <2>7. ASSUME JudgeTrust PROVE SolvedFromAccepted'
    BY <2>7 DEF JudgeTrust, Attempt
  <2>8. ASSUME NextStart PROVE SolvedFromAccepted'
    BY <2>8 DEF NextStart, Attempt
  <2>9. ASSUME JudgeStarts PROVE SolvedFromAccepted'
    BY <2>9 DEF JudgeStarts
  <2>10. ASSUME Window PROVE SolvedFromAccepted'
    BY <2>10 DEF Window, Attempt
  <2>11. ASSUME JudgeWindow PROVE SolvedFromAccepted'
    BY <2>11 DEF JudgeWindow
  <2>12. ASSUME Pause PROVE SolvedFromAccepted'
    BY <2>12 DEF Pause
  <2>13. ASSUME Conflict PROVE SolvedFromAccepted'
    BY <2>13 DEF Conflict
  <2>14. ASSUME Invalid PROVE SolvedFromAccepted'
    BY <2>14 DEF Invalid, Attempt
  <2>15. ASSUME UNCHANGED vars PROVE SolvedFromAccepted'
    BY <2>15 DEF vars
  <2>16. QED
    BY <2>1, <2>2, <2>3, <2>4, <2>5, <2>6, <2>7, <2>8, <2>9, <2>10, <2>11, <2>12, <2>13, <2>14, <2>15
       DEF Next
<1>5. QED
  BY TypeCorrect, <1>1, <1>4, PTL DEF Spec

(* Without fallback and force no attempt is the window's and no hint is    *)
(* ever left.                                                              *)
THEOREM NeverIntoWindow == Spec => []SequentialStaysSequential
<1> DEFINE Sequential == SequentialStaysSequential /\ OutsideWindow
<1>1. Init => Sequential
  BY NoResultRejected DEF Init, SequentialStaysSequential, OutsideWindow
<1>2. ASSUME Sequential, [Next]_vars PROVE Sequential'
  <2> USE <1>2, NoResultRejected
  <2> USE DEF SequentialStaysSequential, OutsideWindow
  <2>1. ASSUME BeginFrame PROVE Sequential'
    BY <2>1 DEF BeginFrame, Enter
  <2>2. ASSUME Solve PROVE Sequential'
    BY <2>2 DEF Solve, ladder
  <2>3. ASSUME Restart PROVE Sequential'
    BY <2>3 DEF Restart, ladder
  <2>4. ASSUME Discover PROVE Sequential'
    BY <2>4 DEF Discover, Expand, ladder
  <2>5. ASSUME Audit PROVE Sequential'
    <3>1. ~call.fallback /\ ~call.forced =>
            result'.attempt # 3 /\ \A r \in tried' : r.attempt # 3
      BY <2>5 DEF Audit
    <3>2. QED
      BY <2>5, <3>1 DEF Audit
  <2>6. ASSUME JudgePropagated PROVE Sequential'
    BY <2>6 DEF JudgePropagated, Finish, NextPc, LeaveFrame, Attempt, Enter
  <2>7. ASSUME JudgeTrust PROVE Sequential'
    BY <2>7 DEF JudgeTrust, Finish, NextPc, LeaveFrame, Attempt, Enter
  <2>8. ASSUME NextStart PROVE Sequential'
    BY <2>8 DEF NextStart, Attempt, Enter
  <2>9. ASSUME JudgeStarts PROVE Sequential'
    BY <2>9 DEF JudgeStarts, Finish, NextPc, LeaveFrame, Enter, ladder, loop
  <2>10. ASSUME Window PROVE Sequential'
    BY <2>10 DEF Window, Attempt, Enter
  <2>11. ASSUME JudgeWindow PROVE Sequential'
    BY <2>11 DEF JudgeWindow, Finish, NextPc, LeaveFrame, Enter
  <2>12. ASSUME Pause PROVE Sequential'
    BY <2>12 DEF Pause, ladder, loop
  <2>13. ASSUME Conflict PROVE Sequential'
    BY <2>13 DEF Conflict, ladder, loop
  <2>14. ASSUME Invalid PROVE Sequential'
    BY <2>14 DEF Invalid, Attempt, Enter, ladder, loop
  <2>15. ASSUME UNCHANGED vars PROVE Sequential'
    BY <2>15 DEF vars, ladder, loop
  <2>16. QED
    BY <2>1, <2>2, <2>3, <2>4, <2>5, <2>6, <2>7, <2>8, <2>9, <2>10, <2>11, <2>12, <2>13, <2>14, <2>15
       DEF Next
<1>3. QED
  BY <1>1, <1>2, PTL DEF Spec

-----------------------------------------------------------------------------
(* What CallAdvances says of a step. *)
Advance ==
  /\ pc \notin Ended
  /\ \/ pc' \in Ended
     \/ frame' > frame
     \/ /\ frame' = frame
        /\ \/ Rung' > Rung
           \/ /\ Rung' = Rung
              /\ \/ starts \subseteq starts' /\ starts' # starts
                 \/ starts' = starts /\ round' > round
                 \/ starts' = starts /\ round' = round /\ Place' > Place

(* A frame that is decided is left, or the call ends. *)
LEMMA FinishAdvances ==
  ASSUME TypeOK, pc = "judge", NEW r, Finish(r) PROVE Advance
<1>1. frame \in Nat /\ frame + 1 > frame
  BY FramesInNat DEF TypeOK
<1>2. pc \notin Ended
  BY DEF Ended
<1>3. CASE pc' = "frame"
  BY <1>1, <1>2, <1>3 DEF Finish, NextPc, Advance
<1>4. CASE pc' \in Ended
  BY <1>2, <1>4 DEF Advance
<1>5. QED
  BY <1>3, <1>4 DEF Finish, NextPc, Ended

(* A further attempt is on a higher rung than every one before it. *)
LEMMA AttemptAdvances ==
  ASSUME TypeOK, pc \in {"judge", "window"}, NEW a \in 1 .. 3, Attempt(a),
         pc = "judge" => attempt < a /\ attempt \in 0 .. 2,
         pc = "window" => a = 3
  PROVE  Advance
<1>1. pc \notin Ended /\ frame' = frame /\ pc' = "solve" /\ attempt' = a
  BY DEF Attempt, Ended
<1>2. Rung' = IF a < 3 THEN a + 1 ELSE IF guarded' THEN 5 ELSE 6
  BY <1>1 DEF Rung
<1>3. Rung = IF pc = "window" THEN 4 ELSE attempt + 1
  BY DEF Rung
<1>4. Rung' > Rung
  BY <1>2, <1>3
<1>5. QED
  BY <1>1, <1>4 DEF Advance

(* Every step of a call leads on.  LadderInv is needed where the window    *)
(* raised: only attempt 3 is guarded.                                      *)
LEMMA AdvanceStep == ASSUME TypeOK, LadderInv, Next PROVE Advance
<1> USE FramesInNat
<1>0. attempt \in {0, 1, 2, 3} /\ round \in Nat
  BY BoundsAssumption DEF TypeOK, Attempts
<1>1. ASSUME BeginFrame PROVE Advance
  <2>1. frame' = frame /\ pc = "frame" /\ attempt' = 0 /\ pc' \in {"solve", "window", "raised"}
    BY <1>1 DEF BeginFrame
  <2>2. QED
    BY <2>1 DEF Advance, Rung, Ended
<1>2. ASSUME Solve PROVE Advance
  <2>1. /\ pc = "solve" /\ pc' \in {"restart", "discover"} /\ round' = round + 1
        /\ UNCHANGED <<frame, attempt, starts, guarded>>
    BY <1>2 DEF Solve, MayRestart, ladder
  <2>2. Rung' = Rung
    BY <2>1 DEF Rung
  <2>3. QED
    BY <1>0, <2>1, <2>2 DEF Advance, Ended
<1>3. ASSUME Restart PROVE Advance
  <2>1. pc = "restart" /\ pc' = "discover" /\ UNCHANGED <<frame, attempt, starts, guarded, round>>
    BY <1>3 DEF Restart, ladder
  <2>2. Rung' = Rung /\ Place' > Place
    BY <2>1 DEF Rung, Place
  <2>3. QED
    BY <2>1, <2>2 DEF Advance, Ended
<1>4. ASSUME Discover PROVE Advance
  <2>1. /\ pc = "discover" /\ pc' \in {"audit", "solve"}
        /\ UNCHANGED <<frame, attempt, starts, guarded, round>>
    BY <1>4 DEF Discover, ladder
  <2>2. Rung' = Rung /\ Place' > Place
    BY <2>1 DEF Rung, Place
  <2>3. QED
    BY <2>1, <2>2 DEF Advance, Ended
<1>5. ASSUME Audit PROVE Advance
  <2>1. pc = "audit" /\ pc' = "judge" /\ UNCHANGED <<frame, attempt, starts, guarded, round>>
    BY <1>5 DEF Audit, loop
  <2>2. Rung' = Rung /\ Place' > Place
    BY <2>1 DEF Rung, Place
  <2>3. QED
    BY <2>1, <2>2 DEF Advance, Ended
<1>6. ASSUME JudgePropagated PROVE Advance
  BY <1>6, FinishAdvances, AttemptAdvances DEF JudgePropagated
<1>7. ASSUME JudgeTrust PROVE Advance
  BY <1>7, FinishAdvances, AttemptAdvances DEF JudgeTrust
<1>8. ASSUME NextStart PROVE Advance
  <2>1. PICK i \in LaterStarts : starts' = starts \cup {i}
    BY <1>8 DEF NextStart
  <2>2. i \in Nat /\ i \notin starts
    BY DEF LaterStarts
  <2>3. pc = "judge" /\ pc' = "solve" /\ attempt = 2 /\ attempt' = 2 /\ frame' = frame
    BY <1>8 DEF NextStart, Attempt
  <2>4. Rung' = Rung
    BY <2>3 DEF Rung
  <2>5. QED
    BY <2>1, <2>2, <2>3, <2>4 DEF Advance, Ended
<1>9. ASSUME JudgeStarts PROVE Advance
  <2>1. CASE pc' = "window" /\ UNCHANGED <<frame, attempt>>
    <3>1. pc = "judge" /\ attempt = 2
      BY <1>9 DEF JudgeStarts
    <3>2. Rung = 3 /\ Rung' = 4
      BY <2>1, <3>1 DEF Rung
    <3>3. QED
      BY <2>1, <3>1, <3>2 DEF Advance, Ended
  <2>2. CASE \E r \in tried : Finish(r)
    BY <1>9, <2>2, FinishAdvances DEF JudgeStarts
  <2>3. QED
    BY <1>9, <2>1, <2>2 DEF JudgeStarts, ladder
<1>10. ASSUME Window PROVE Advance
  BY <1>10, AttemptAdvances DEF Window
<1>11. ASSUME JudgeWindow PROVE Advance
  BY <1>11, FinishAdvances DEF JudgeWindow
<1>12. ASSUME Pause PROVE Advance
  BY <1>12 DEF Pause, Advance, Ended
<1>13. ASSUME Conflict PROVE Advance
  BY <1>13 DEF Conflict, Advance, Ended
<1>14. ASSUME Invalid PROVE Advance
  <2>1. pc \in InLoop /\ pc \notin Ended
    BY <1>14 DEF Invalid, InLoop, Ended
  <2>2. CASE guarded /\ ~guarded' /\ pc' = "solve" /\ attempt' = 3 /\ frame' = frame
    <3>1. Rung = 5 /\ Rung' = 6
      BY <2>1, <2>2 DEF Rung, LadderInv, InLoop
    <3>2. QED
      BY <2>1, <2>2, <3>1 DEF Advance
  <2>3. CASE pc' = "raised"
    BY <2>1, <2>3 DEF Advance, Ended
  <2>4. QED
    BY <1>14, <2>2, <2>3 DEF Invalid, Attempt, TypeOK
<1>15. QED
  BY <1>1, <1>2, <1>3, <1>4, <1>5, <1>6, <1>7, <1>8, <1>9, <1>10, <1>11, <1>12, <1>13, <1>14
     DEF Next

(* A call never goes back, whatever its options: each step ends it or      *)
(* advances one of the bounded quantities of CallAdvances.                 *)
THEOREM EveryStepAdvances == Spec => CallAdvances
<1>1. TypeOK /\ LadderInv /\ [Next]_vars => [Advance]_vars
  BY AdvanceStep
<1>2. [][Advance]_vars => CallAdvances
  BY PTL DEF Advance, CallAdvances
<1>3. QED
  BY TypeCorrect, LadderInvariance, <1>1, <1>2, PTL DEF Spec

-----------------------------------------------------------------------------
(* A call that goes on is at its first undecided frame. *)
OrderInv ==
  pc \notin Ended => \A f \in Frames : decided[f] = "none" <=> f >= frame

(* Of the frames, only those before the current one are decided. *)
LEMMA ReachedAreBefore ==
  ASSUME TypeOK, OrderInv, pc \notin Ended
  PROVE  Promise!Reached = {g \in Frames : g < frame}
<1>1. \A f \in Frames : f \in Int /\ frame \in Int
  BY FramesInNat DEF TypeOK
<1>2. QED
  BY <1>1 DEF OrderInv, Promise!Reached, Promise!Frames, Frames

(* Finish decides the frame it is at, and the next is the first undecided. *)
LEMMA FinishDecides ==
  ASSUME TypeOK, OrderInv, pc = "judge", NEW r, Finish(r)
  PROVE  OrderInv' /\ Promise!Decide(frame, Verdict(r))
<1>1. pc \notin Ended /\ Outcome = "running" /\ frame \in Frames
  BY DEF Ended, Outcome, TypeOK
<1>2. Verdict(r) \in {"accepted", "rejected"} /\ (Verdict(r) = "rejected" <=> ~r.accepted)
  BY DEF Verdict
<1>3. decided' = [decided EXCEPT ![frame] = Verdict(r)] /\ call' = call
  BY DEF Finish, NextPc, LeaveFrame
<1>4. \/ Outcome' = "raised"
      \/ /\ Verdict(r) = "accepted" \/ ~call.failFast
         /\ Outcome' = IF frame = N - 1 THEN "done" ELSE "running"
  <2>1. frame + 1 = N <=> frame = N - 1
    BY <1>1, BoundsAssumption DEF Frames
  <2>2. \/ pc' = "raised"
        \/ /\ Verdict(r) = "accepted" \/ ~call.failFast
           /\ pc' = IF frame = N - 1 THEN "done" ELSE "frame"
    BY <1>2, <2>1 DEF Finish, NextPc
  <2>3. QED
    BY <2>2 DEF Outcome, Ended
<1>5. Promise!Decide(frame, Verdict(r))
  BY <1>1, <1>3, <1>4, ReachedAreBefore DEF Promise!Decide, Promise!Frames, Frames
<1>6. ASSUME pc' \notin Ended, NEW f \in Frames PROVE decided'[f] = "none" <=> f >= frame'
  <2>1. frame' = frame + 1
    BY <1>6 DEF Finish, NextPc, Ended
  <2>2. decided'[f] = IF f = frame THEN Verdict(r) ELSE decided[f]
    BY <1>3 DEF TypeOK
  <2>3. f \in Nat /\ frame \in Nat
    BY <1>1, FramesInNat
  <2>4. decided[f] = "none" <=> f >= frame
    BY <1>1 DEF OrderInv
  <2>5. QED
    BY <1>2, <2>1, <2>2, <2>3, <2>4
<1>7. QED
  BY <1>5, <1>6 DEF OrderInv

(* The caller sees nothing of a step inside the call. *)
LEMMA InsideCall ==
  ASSUME OrderInv, pc \notin Ended, pc' \notin Ended, UNCHANGED <<call, frame, decided>>
  PROVE  OrderInv' /\ UNCHANGED <<call.failFast, decided, Outcome>>
BY DEF OrderInv, Outcome

(* An exception leaves the decided frames alone. *)
LEMMA RaiseEnds ==
  ASSUME pc \notin Ended, pc' = "raised", UNCHANGED <<call, decided>>
  PROVE  OrderInv' /\ Promise!Raise
BY DEF OrderInv, Outcome, Ended, Promise!Raise

(* Every step decides the next frame, ends the call, or is not seen.       *)
LEMMA CallStep ==
  ASSUME TypeOK, OrderInv, Next
  PROVE  OrderInv' /\ [Promise!Next]_<<call.failFast, decided, Outcome>>
<1> DEFINE Seen == OrderInv' /\ [Promise!Next]_<<call.failFast, decided, Outcome>>
<1> USE DEF Ended
<1>1. ASSUME pc = "judge", NEW r, Finish(r) PROVE Seen
  <2>1. frame \in Promise!Frames
    BY DEF TypeOK, Frames, Promise!Frames
  <2>2. QED
    BY <1>1, <2>1, FinishDecides, VerdictTyped DEF Promise!Next
<1>2. ASSUME pc \notin Ended, pc' \notin Ended, UNCHANGED <<call, frame, decided>> PROVE Seen
  BY <1>2, InsideCall
<1>3. ASSUME pc \notin Ended, pc' = "raised", UNCHANGED <<call, decided>> PROVE Seen
  BY <1>3, RaiseEnds DEF Promise!Next
<1>4. CASE BeginFrame
  BY <1>2, <1>3, <1>4 DEF BeginFrame
<1>5. CASE Solve \/ Restart \/ Discover \/ Audit
  BY <1>2, <1>5 DEF Solve, MayRestart, Restart, Discover, Audit
<1>6. CASE JudgePropagated \/ JudgeTrust \/ NextStart \/ JudgeWindow
  BY <1>1, <1>2, <1>6 DEF JudgePropagated, JudgeTrust, NextStart, JudgeWindow, Attempt
<1>7. CASE JudgeStarts
  BY <1>1, <1>2, <1>7 DEF JudgeStarts
<1>8. CASE Window
  BY <1>2, <1>8 DEF Window, Attempt
<1>9. CASE Conflict
  BY <1>3, <1>9 DEF Conflict
<1>10. CASE Invalid
  BY <1>2, <1>3, <1>10 DEF Invalid, InLoop, Attempt
<1>11. CASE Pause
  <2>1. pc = "frame" /\ UNCHANGED <<call, frame, decided>>
    BY <1>11 DEF Pause
  <2>2. CASE frame = 0
    BY <1>3, <1>11, <2>1, <2>2 DEF Pause
  <2>3. CASE frame # 0
    <3>1. pc' = "paused"
      BY <1>11, <2>3 DEF Pause
    <3>2. 0 \in {g \in Frames : g < frame}
      BY <2>3, FramesInNat DEF TypeOK
    <3>3. Promise!Pause
      BY <2>1, <3>1, <3>2, ReachedAreBefore DEF Promise!Pause, Outcome
    <3>4. OrderInv'
      BY <3>1 DEF OrderInv
    <3>5. QED
      BY <3>3, <3>4 DEF Promise!Next
  <2>4. QED
    BY <2>2, <2>3
<1>12. QED
  BY <1>4, <1>5, <1>6, <1>7, <1>8, <1>9, <1>10, <1>11 DEF Next

(* To its caller, a call is one of FrameCall: frames decided one by one in *)
(* order, nothing past a rejected one under fail_fast, done only with all. *)
THEOREM CallRefinesFrameCall == Spec => ImplementsFrameCall
<1>1. Init => OrderInv
  <2>1. \A f \in Frames : f >= 0
    BY FramesInNat
  <2>2. QED
    BY <2>1 DEF Init, OrderInv
<1>2. Init => Promise!Init
  <2>1. Calls \subseteq Options /\ \A c \in Options : c.failFast \in BOOLEAN
    BY CallsAssumption DEF Options
  <2>2. QED
    BY <2>1 DEF Init, Promise!Init, Promise!Frames, Frames, Outcome, Ended
<1>3. TypeOK /\ OrderInv /\ [Next]_vars =>
        OrderInv' /\ [Promise!Next]_<<call.failFast, decided, Outcome>>
  <2>1. ASSUME OrderInv, UNCHANGED vars
        PROVE  OrderInv' /\ UNCHANGED <<call.failFast, decided, Outcome>>
    BY <2>1 DEF vars, OrderInv, Outcome
  <2>2. QED
    BY <2>1, CallStep
<1>4. QED
  BY TypeCorrect, <1>1, <1>2, <1>3, PTL DEF Spec, ImplementsFrameCall, Promise!Spec

(* The frames that a call decided are the first ones, all accepted until it*)
(* raises if it was to fail fast.                                          *)
PromiseInv ==
  /\ \E n \in 0 .. N : Promise!Reached = {f \in Frames : f < n}
  /\ Outcome = "done" => Promise!Reached = Frames
  /\ Outcome = "paused" => Promise!Reached # {}
  /\ Outcome # "raised" /\ call.failFast => \A f \in Promise!Reached : decided[f] = "accepted"

LEMMA PromiseStep ==
  ASSUME TypeOK, PromiseInv, [Promise!Next]_<<call.failFast, decided, Outcome>>
  PROVE  PromiseInv'
<1> USE DEF Promise!Frames, Frames
<1>1. CASE UNCHANGED <<call.failFast, decided, Outcome>>
  BY <1>1 DEF PromiseInv, Promise!Reached
<1>2. CASE Promise!Pause \/ Promise!Raise
  BY <1>2 DEF PromiseInv, Promise!Reached, Promise!Pause, Promise!Raise
<1>3. ASSUME NEW f \in Frames, NEW v \in {"accepted", "rejected"}, Promise!Decide(f, v)
      PROVE  PromiseInv'
  <2>1. /\ Promise!Reached = {g \in Frames : g < f}
        /\ decided' = [decided EXCEPT ![f] = v]
        /\ Outcome = "running" /\ call'.failFast = call.failFast
        /\ \/ Outcome' = "raised"
           \/ /\ v = "accepted" \/ ~call.failFast
              /\ Outcome' = IF f = N - 1 THEN "done" ELSE "running"
    BY <1>3 DEF Promise!Decide
  <2>2. \A g \in Frames : decided'[g] = IF g = f THEN v ELSE decided[g]
    BY <2>1 DEF TypeOK
  <2>3. Promise!Reached' = Promise!Reached \cup {f}
    BY <2>2 DEF Promise!Reached
  <2>4. f \in Nat /\ f + 1 \in 0 .. N /\ \A g \in Frames : g < f + 1 <=> g < f \/ g = f
    BY BoundsAssumption
  <2>5. Promise!Reached' = {g \in Frames : g < f + 1}
    BY <2>1, <2>3, <2>4
  <2>6. f = N - 1 => {g \in Frames : g < f + 1} = Frames
    BY BoundsAssumption
  <2>7. ASSUME Outcome' # "raised", call'.failFast, NEW g \in Promise!Reached'
        PROVE  decided'[g] = "accepted"
    <3>1. v = "accepted"
      BY <2>1, <2>7
    <3>2. g \in Frames
      BY <2>5, <2>7
    <3>3. CASE g = f
      BY <2>2, <3>1, <3>2, <3>3
    <3>4. CASE g # f
      BY <2>1, <2>2, <2>3, <2>7, <3>2, <3>4 DEF PromiseInv
    <3>5. QED
      BY <3>3, <3>4
  <2>8. \E n \in 0 .. N : Promise!Reached' = {g \in Frames : g < n}
    BY <2>4, <2>5
  <2>9. QED
    BY <2>1, <2>5, <2>6, <2>7, <2>8 DEF PromiseInv
<1>4. QED
  BY <1>1, <1>2, <1>3 DEF Promise!Next

(* Whatever the options, a returned trajectory is a prefix of the range,   *)
(* whole unless paused, and without a rejected frame under fail_fast.      *)
THEOREM OnlyDecidedReturned == Spec => []ReturnsDecided
<1>1. Promise!Init => PromiseInv
  <2>1. {f \in Frames : f < 0} = {}
    BY BoundsAssumption DEF Frames
  <2>2. 0 \in 0 .. N
    BY BoundsAssumption
  <2>3. QED
    BY <2>1, <2>2 DEF Promise!Init, Promise!Frames, Frames, Promise!Reached, PromiseInv
<1>2. TypeOK /\ PromiseInv /\ [Promise!Next]_<<call.failFast, decided, Outcome>> => PromiseInv'
  BY PromiseStep
<1>3. PromiseInv => ReturnsDecided
  <2>1. SUFFICES ASSUME PromiseInv, Outcome \in {"done", "paused"}
                 PROVE  \E n \in 1 .. N : Promise!Reached = {f \in Frames : f < n}
    BY DEF PromiseInv, ReturnsDecided, Promise!Returned, Promise!Frames, Frames
  <2>2. PICK n \in 0 .. N : Promise!Reached = {f \in Frames : f < n}
    BY <2>1 DEF PromiseInv
  <2>3. Promise!Reached # {}
    <3>1. 0 \in Frames
      BY BoundsAssumption DEF Frames
    <3>2. QED
      BY <2>1, <3>1 DEF PromiseInv
  <2>4. n # 0
    BY <2>2, <2>3, BoundsAssumption DEF Frames
  <2>5. QED
    BY <2>2, <2>4
<1>4. QED
  BY TypeCorrect, CallRefinesFrameCall, <1>1, <1>2, <1>3, PTL DEF ImplementsFrameCall, Promise!Spec
=============================================================================
