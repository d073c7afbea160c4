---------------------------- MODULE Stage12Proofs ----------------------------
(***************************************************************************)
(* Theorems about Stage12Run for any clip length, any number of workers    *)
(* and any number of solves.  Exclusive is not assumed: WorkInv says that  *)
(* a process in a session or an assembly holds the clip's reservation, and *)
(* the queue holds at most one, so the invariant RunInv of                 *)
(* CheckpointProofs is kept although MayStart is open.                     *)
(***************************************************************************)
EXTENDS Stage12Run, CheckpointProofs

(* At most one live reservation of the clip: what Queue!Grant keeps. *)
AtMostOne == \A g, h \in held : g = h

(* From the claim to the end of the session a worker has the reservation. *)
HeldInv == \A p \in Procs : work[p] \in {"claimed", "session"} => Reserved(p)
BusyInv == \A p \in Procs : pc[p] \notin Done => work[p] = "session"

(* The worker never forces, so an assembly gets to "staging" only while    *)
(* nothing is published, and nobody else publishes meanwhile.              *)
Meek     == \A p \in Procs : ~force[p]
StageInv == \A p \in Procs : pc[p] \in {"staging", "installing"} => artifact = None
PassInv  ==
  /\ \A p \in Procs : verdict[p] = "pass" => artifact # None
  /\ report = "pass" => artifact # None

ClerkType ==
  /\ held \subseteq {Mine(p) : p \in Procs}
  /\ work \in [Procs -> WorkSteps]
  /\ complete \in [Procs -> BOOLEAN]
  /\ verdict \in [Procs -> Verdicts]
  /\ report \in Verdicts

ClerkInv == ClerkType /\ AtMostOne /\ HeldInv /\ BusyInv
WorkInv  == RunInv /\ ClerkInv /\ Meek /\ StageInv /\ PassInv

USE DEF InSession, InAssembly, Done, Statuses, InLoop, HasPayload, HasRows

-----------------------------------------------------------------------------
(* What a step of a session or an assembly does to its process, to the     *)
(* others and to the artifact.                                             *)
Turn(p) ==
  /\ pc[p] \notin Done
  /\ \A q \in Procs : q # p => pc'[q] = pc[q] /\ force'[q] = force[q]
  /\ force'[p] \in {force[p], FALSE}
  /\ artifact' = artifact \/ pc[p] \in {"staging", "installing"}
  /\ pc'[p] = "staging" => artifact' = artifact /\ (artifact = None \/ force[p])
  /\ pc'[p] = "installing" => artifact' = None
  /\ artifact # None /\ pc[p] = "installing" => artifact' = artifact

LEMMA SessionTurn ==
  ASSUME TypeOK, NEW p \in Procs, SessionStep(p) \/ Pause(p) \/ Crash(p)
  PROVE  Turn(p)
<1> USE DEF TypeOK, Turn, Goto, Exit, store, session
<1>1. CASE WriteManifest(p) \/ Scan(p) \/ Complete(p)
  BY <1>1 DEF WriteManifest, Scan, Complete
<1>2. CASE LoadPrevious(p)
  BY <1>2 DEF LoadPrevious
<1>3. CASE Solve(p)
  BY <1>3 DEF Solve
<1>4. CASE RejectedStops(p) \/ RejectedContinues(p) \/ Pause(p) \/ Crash(p)
  BY <1>4 DEF RejectedStops, RejectedContinues, Pause, Crash
<1>5. CASE SaveCheck(p)
  BY <1>5 DEF SaveCheck
<1>6. CASE SaveWrite(p)
  BY <1>6 DEF SaveWrite
<1> QED BY <1>1, <1>2, <1>3, <1>4, <1>5, <1>6 DEF SessionStep

LEMMA AssemblyTurn ==
  ASSUME TypeOK, NEW p \in Procs, AssemblyStep(p)
  PROVE  Turn(p)
<1> USE DEF TypeOK, Turn, Goto, Exit, store, session
<1>1. CASE Validate(p)
  BY <1>1 DEF Validate
<1>2. CASE LoadRows(p)
  BY <1>2 DEF LoadRows
<1>3. CASE CheckDestination(p)
  BY <1>3 DEF CheckDestination
<1>4. CASE RemoveOld(p)
  BY <1>4 DEF RemoveOld
<1>5. CASE Install(p)
  BY <1>5 DEF Install
<1> QED BY <1>1, <1>2, <1>3, <1>4, <1>5 DEF AssemblyStep

-----------------------------------------------------------------------------
(* Two processes at work would hold two reservations. *)
LEMMA HoldersAlone ==
  ASSUME ClerkInv
  PROVE  OneAtATime
BY DEF ClerkInv, AtMostOne, HeldInv, BusyInv, Reserved, Mine, OneAtATime

(* Every step is, of the run, a step of CheckpointRun. *)
LEMMA WorkIsNext ==
  ASSUME [WorkNext]_allVars
  PROVE  [Next]_vars
<1> USE DEF Next, vars
<1>1. CASE UNCHANGED allVars
  BY <1>1 DEF allVars
<1>2. ASSUME NEW p \in Procs,
             \/ Look(p) \/ UpstreamFails(p) \/ ReadFinal(p) \/ Refused(p) \/ Claim(p)
             \/ OpenRefused(p) \/ Finish(p) \/ WriteReport(p) \/ Release(p)
      PROVE  UNCHANGED vars
  BY <1>2 DEF Look, UpstreamFails, ReadFinal, Refused, Claim, OpenRefused, Finish, WriteReport,
              Release
<1>3. ASSUME NEW p \in Procs, OpenRoot(p) \/ Die(p) PROVE [Next]_vars
  BY <1>3 DEF OpenRoot, Die
<1>4. ASSUME NEW p \in Procs,
             SessionGoes(p) \/ SessionAssembled(p) \/ SessionPaused(p) \/ SessionRaises(p)
      PROVE  Next
  BY <1>4 DEF SessionGoes, SessionAssembled, SessionPaused, SessionRaises, SessionStep, AssemblyStep
<1>5. CASE FrameDamaged
  BY <1>5 DEF FrameDamaged
<1> QED BY <1>1, <1>2, <1>3, <1>4, <1>5 DEF WorkNext, WorkerStep

-----------------------------------------------------------------------------
(* The worker around its session *)

(* A step of p that moves p alone has to answer for p alone. *)
LEMMA ClerkKept ==
  ASSUME ClerkInv, NEW p \in Procs, ClerkType', AtMostOne',
         \A q \in Procs : q # p =>
           /\ work'[q] = work[q]
           /\ pc'[q] = pc[q]
           /\ Reserved(q) => Reserved(q)',
         work'[p] \in {"claimed", "session"} => Reserved(p)',
         pc'[p] \notin Done => work'[p] = "session"
  PROVE  ClerkInv'
BY DEF ClerkInv, HeldInv, BusyInv

LEMMA OutsideClerk ==
  ASSUME WorkInv, NEW p \in Procs,
         \/ Look(p) \/ UpstreamFails(p) \/ ReadFinal(p) \/ Refused(p)
         \/ OpenRefused(p) \/ Finish(p) \/ WriteReport(p)
  PROVE  ClerkInv'
<1>1. held' = held /\ pc' = pc /\ work[p] \notin {"session"}
  BY DEF Look, UpstreamFails, ReadFinal, Refused, OpenRefused, Finish, WriteReport, Move, Conclude,
         vars
<1>2. work' = [work EXCEPT ![p] = work'[p]] /\ work'[p] \in WorkSteps \ {"claimed", "session"}
  BY DEF Look, UpstreamFails, ReadFinal, Refused, OpenRefused, Finish, WriteReport, Move, Conclude,
         WorkInv, ClerkInv, ClerkType, WorkSteps
<1>3. complete' \in [Procs -> BOOLEAN] /\ verdict' \in [Procs -> Verdicts] /\ report' \in Verdicts
  BY DEF Look, UpstreamFails, ReadFinal, Refused, OpenRefused, Finish, WriteReport, Move, Conclude,
         WorkInv, ClerkInv, ClerkType, Verdicts
<1>4. pc[p] \in Done
  BY <1>1 DEF WorkInv, ClerkInv, BusyInv
<1>5. ClerkType' /\ AtMostOne'
  BY <1>1, <1>2, <1>3 DEF WorkInv, ClerkInv, ClerkType, AtMostOne, Mine
<1> QED BY <1>1, <1>2, <1>4, <1>5, ClerkKept DEF WorkInv, ClerkInv, ClerkType, Reserved, Mine

LEMMA ClaimClerk ==
  ASSUME WorkInv, NEW p \in Procs, Claim(p)
  PROVE  ClerkInv'
<1>1. held' = held \cup {Mine(p)} /\ pc' = pc
  BY DEF Claim, Queue!Grant, Mine, vars
<1>2. held = {}
  BY DEF Claim, Queue!Grant, WorkInv, ClerkInv, ClerkType, Mine
<1>3. work[p] = "asking" /\ work' = [work EXCEPT ![p] = "claimed"]
      /\ UNCHANGED <<complete, verdict, report>>
  BY DEF Claim, Move
<1>4. ClerkType' /\ AtMostOne'
  BY <1>1, <1>2, <1>3 DEF WorkInv, ClerkInv, ClerkType, AtMostOne, Mine, WorkSteps
<1> QED BY <1>1, <1>3, <1>4, ClerkKept DEF WorkInv, ClerkInv, ClerkType, BusyInv, Reserved, Mine

LEMMA OpenClerk ==
  ASSUME WorkInv, NEW p \in Procs, OpenRoot(p)
  PROVE  ClerkInv'
<1>1. work[p] = "claimed" /\ work' = [work EXCEPT ![p] = "session"]
      /\ UNCHANGED <<held, complete, verdict, report>>
  BY DEF OpenRoot, Move
<1>2. \A q \in Procs : q # p => pc'[q] = pc[q]
  BY DEF OpenRoot, MakeRoot, Resume, Goto, WorkInv, RunInv, TypeOK
<1>3. ClerkType' /\ AtMostOne'
  BY <1>1 DEF WorkInv, ClerkInv, ClerkType, AtMostOne, Mine, WorkSteps
<1> QED BY <1>1, <1>2, <1>3, ClerkKept
     DEF WorkInv, ClerkInv, ClerkType, HeldInv, Reserved, Mine, WorkSteps

LEMMA SessionClerk ==
  ASSUME WorkInv, NEW p \in Procs, Turn(p), held' = held,
         work[p] = "session", work' = [work EXCEPT ![p] = work'[p]], work'[p] \in WorkSteps,
         pc'[p] \in Done \/ work'[p] = "session",
         work'[p] # "claimed",
         verdict' \in [Procs -> Verdicts], UNCHANGED <<complete, report>>
  PROVE  ClerkInv'
<1>1. ClerkType' /\ AtMostOne'
  BY DEF WorkInv, ClerkInv, ClerkType, AtMostOne, Mine
<1> QED BY <1>1, ClerkKept DEF WorkInv, ClerkInv, ClerkType, HeldInv, Turn, Reserved, Mine

(* Release and death: the reservation goes with the process. *)
LEMMA LeaveClerk ==
  ASSUME WorkInv, NEW p \in Procs, held' = held \ {Mine(p)}, pc'[p] \in Done,
         \A q \in Procs : q # p => pc'[q] = pc[q],
         work' = [work EXCEPT ![p] = "idle"],
         complete' \in [Procs -> BOOLEAN], verdict' \in [Procs -> Verdicts], report' = report
  PROVE  ClerkInv'
<1>1. ClerkType' /\ AtMostOne'
  BY DEF WorkInv, ClerkInv, ClerkType, AtMostOne, Mine, WorkSteps
<1>2. \A q \in Procs : q # p /\ Reserved(q) => Reserved(q)'
  BY DEF Reserved, Mine
<1> QED BY <1>1, <1>2, ClerkKept DEF WorkInv, ClerkInv, ClerkType

(* A step of the session, or its end. *)
AtWork(p) == SessionGoes(p) \/ SessionAssembled(p) \/ SessionPaused(p) \/ SessionRaises(p)

LEMMA WorkTurn ==
  ASSUME TypeOK, NEW p \in Procs, AtWork(p)
  PROVE  Turn(p)
<1>1. SessionStep(p) \/ AssemblyStep(p) \/ Pause(p) \/ Crash(p)
  BY DEF AtWork, SessionGoes, SessionAssembled, SessionPaused, SessionRaises, SessionStep,
         AssemblyStep
<1> QED BY <1>1, SessionTurn, AssemblyTurn

LEMMA InstallEnds ==
  ASSUME TypeOK, NEW p \in Procs, Install(p)
  PROVE  pc'[p] \in Done
BY DEF Install, Exit, TypeOK

LEMMA AtWorkClerk ==
  ASSUME WorkInv, NEW p \in Procs, AtWork(p)
  PROVE  ClerkInv'
<1>1. Turn(p)
  BY WorkTurn DEF WorkInv, RunInv
<1>2. work \in [Procs -> WorkSteps] /\ verdict \in [Procs -> Verdicts]
  BY DEF WorkInv, ClerkInv, ClerkType
<1>3. CASE SessionGoes(p)
  <2>1. work[p] = "session" /\ UNCHANGED clerk
    BY <1>3 DEF SessionGoes
  <2>2. work' = [work EXCEPT ![p] = work'[p]] /\ work'[p] = "session"
    BY <1>2, <2>1 DEF clerk
  <2> QED BY <1>1, <1>2, <2>1, <2>2, SessionClerk DEF clerk, WorkSteps
<1>4. CASE SessionAssembled(p)
  <2>1. work[p] = "session" /\ work' = [work EXCEPT ![p] = "finishing"]
        /\ UNCHANGED <<held, complete, verdict, report>> /\ pc'[p] \in Done
    BY <1>4, InstallEnds DEF SessionAssembled, Move, WorkInv, RunInv
  <2>2. work'[p] = "finishing"
    BY <1>2, <2>1
  <2> QED BY <1>1, <1>2, <2>1, <2>2, SessionClerk DEF WorkSteps
<1>5. CASE SessionPaused(p) \/ SessionRaises(p)
  <2>1. PICK s \in {"paused", "blocked"} : Conclude(p, "session", s)
    BY <1>5 DEF SessionPaused, SessionRaises
  <2>2. work[p] = "session" /\ work' = [work EXCEPT ![p] = "reporting"]
        /\ verdict' = [verdict EXCEPT ![p] = s] /\ UNCHANGED <<held, complete, report>>
    BY <2>1 DEF Conclude, Move
  <2>3. pc'[p] \in Done
    BY <1>5 DEF SessionPaused, SessionRaises, Pause, Exit, WorkInv, RunInv, TypeOK
  <2>4. work'[p] = "reporting" /\ verdict' \in [Procs -> Verdicts]
    BY <1>2, <2>2 DEF Verdicts
  <2> QED BY <1>1, <1>2, <2>2, <2>3, <2>4, SessionClerk DEF WorkSteps
<1> QED BY <1>3, <1>4, <1>5 DEF AtWork

LEMMA ReleaseClerk ==
  ASSUME WorkInv, NEW p \in Procs, Release(p)
  PROVE  ClerkInv'
<1>1. pc' = pc /\ work[p] = "releasing" /\ work' = [work EXCEPT ![p] = "idle"]
      /\ held' = held \ {Mine(p)} /\ UNCHANGED <<complete, verdict, report>>
  BY DEF Release, Move, Queue!Drop, vars
<1>2. pc[p] \in Done
  BY <1>1 DEF WorkInv, ClerkInv, BusyInv
<1> QED BY <1>1, <1>2, LeaveClerk DEF WorkInv, ClerkInv, ClerkType

LEMMA DieClerk ==
  ASSUME WorkInv, NEW p \in Procs, Die(p)
  PROVE  ClerkInv'
<1>1. work' = [work EXCEPT ![p] = "idle"] /\ held' = held \ {Mine(p)} /\ report' = report
      /\ complete' = [complete EXCEPT ![p] = FALSE] /\ verdict' = [verdict EXCEPT ![p] = "none"]
  BY DEF Die, Queue!Drop
<1>2. pc'[p] \in Done /\ \A q \in Procs : q # p => pc'[q] = pc[q]
  BY DEF Die, Crash, Exit, vars, WorkInv, RunInv, TypeOK
<1>3. complete' \in [Procs -> BOOLEAN] /\ verdict' \in [Procs -> Verdicts]
  BY <1>1 DEF WorkInv, ClerkInv, ClerkType, Verdicts
<1> QED BY <1>1, <1>2, <1>3, LeaveClerk

LEMMA ClerkStep ==
  ASSUME WorkInv, [WorkNext]_allVars
  PROVE  ClerkInv'
<1>1. CASE UNCHANGED allVars
  BY <1>1 DEF allVars, vars, WorkInv, ClerkInv, ClerkType, AtMostOne, HeldInv, BusyInv, Reserved, Mine
<1>2. CASE FrameDamaged
  BY <1>2 DEF FrameDamaged, Damage, clerk, WorkInv, ClerkInv, ClerkType, AtMostOne, HeldInv, BusyInv,
              Reserved, Mine
<1> QED BY <1>1, <1>2, OutsideClerk, ClaimClerk, OpenClerk, AtWorkClerk, ReleaseClerk, DieClerk
     DEF WorkNext, WorkerStep, AtWork

-----------------------------------------------------------------------------
(* The artifact *)

Publishing == Meek /\ StageInv /\ PassInv

LEMMA TurnPublishes ==
  ASSUME WorkInv, NEW p \in Procs, Turn(p), OneAtATime',
         verdict'[p] = "pass" => verdict[p] = "pass",
         \A q \in Procs : q # p => verdict'[q] = verdict[q],
         report' = report
  PROVE  Publishing' /\ (artifact # None => artifact' = artifact)
<1>1. artifact # None => artifact' = artifact
  BY DEF Turn, WorkInv, StageInv
<1>2. Meek'
  BY DEF Turn, WorkInv, Meek
<1>3. StageInv'
  <2> SUFFICES ASSUME NEW q \in Procs, pc'[q] \in {"staging", "installing"} PROVE artifact' = None
    BY DEF StageInv
  <2>1. CASE q = p
    BY <2>1 DEF Turn, WorkInv, Meek, StageInv
  <2>2. CASE q # p
    <3>1. pc[q] = pc'[q]
      BY <2>2 DEF Turn
    <3> QED BY <2>2, <3>1, HoldersAlone DEF WorkInv, OneAtATime, Turn
  <2> QED BY <2>1, <2>2
<1>4. PassInv'
  BY <1>1 DEF WorkInv, PassInv
<1> QED BY <1>1, <1>2, <1>3, <1>4 DEF Publishing

LEMMA PublishStep ==
  ASSUME WorkInv, ClerkInv', [WorkNext]_allVars
  PROVE  Publishing' /\ (artifact # None => artifact' = artifact)
<1>0. OneAtATime'
  BY HoldersAlone, PTL
<1>1. CASE UNCHANGED allVars
  BY <1>1 DEF allVars, vars, WorkInv, Publishing, Meek, StageInv, PassInv
<1>2. CASE FrameDamaged
  BY <1>2 DEF FrameDamaged, Damage, clerk, WorkInv, Publishing, Meek, StageInv, PassInv
<1>3. ASSUME NEW p \in Procs, AtWork(p)
      PROVE  Publishing' /\ (artifact # None => artifact' = artifact)
  <2>1. Turn(p)
    BY <1>3, WorkTurn DEF WorkInv, RunInv
  <2>2. report' = report /\ \E s \in {verdict[p], "paused", "blocked"} :
                              verdict' = [verdict EXCEPT ![p] = s]
    BY <1>3 DEF AtWork, SessionGoes, SessionAssembled, SessionPaused, SessionRaises, Conclude, clerk,
                WorkInv, ClerkInv, ClerkType
  <2> QED BY <1>0, <2>1, <2>2, TurnPublishes DEF WorkInv, ClerkInv, ClerkType
<1>4. ASSUME NEW p \in Procs, Die(p)
      PROVE  Publishing' /\ (artifact # None => artifact' = artifact)
  <2>1. verdict' = [verdict EXCEPT ![p] = "none"] /\ report' = report
    BY <1>4 DEF Die
  <2>2. CASE UNCHANGED vars
    BY <2>1, <2>2 DEF vars, WorkInv, Publishing, Meek, StageInv, PassInv, ClerkInv, ClerkType
  <2>3. CASE Crash(p)
    <3>1. Turn(p)
      BY <2>3, SessionTurn DEF WorkInv, RunInv
    <3> QED BY <1>0, <2>1, <3>1, TurnPublishes DEF WorkInv, ClerkInv, ClerkType
  <2> QED BY <1>4, <2>2, <2>3 DEF Die
<1>5. ASSUME NEW p \in Procs, OpenRoot(p)
      PROVE  Publishing' /\ (artifact # None => artifact' = artifact)
  <2>1. UNCHANGED <<artifact, verdict, report>>
    BY <1>5 DEF OpenRoot, MakeRoot, Resume, store
  <2>2. ~force'[p] /\ \A q \in Procs : q # p => force'[q] = force[q] /\ pc'[q] = pc[q]
    BY <1>5 DEF OpenRoot, MakeRoot, Resume, Goto, WorkInv, RunInv, TypeOK
  <2>3. pc'[p] \notin {"staging", "installing"}
    BY <1>5 DEF OpenRoot, MakeRoot, Resume, Goto, WorkInv, RunInv, TypeOK
  <2> QED BY <2>1, <2>2, <2>3 DEF WorkInv, Publishing, Meek, StageInv, PassInv
<1>6. ASSUME NEW p \in Procs, Finish(p)
      PROVE  Publishing' /\ (artifact # None => artifact' = artifact)
  BY <1>6 DEF Finish, Conclude, vars, WorkInv, Publishing, Meek, StageInv, PassInv, ClerkInv, ClerkType
<1>7. ASSUME NEW p \in Procs, WriteReport(p)
      PROVE  Publishing' /\ (artifact # None => artifact' = artifact)
  BY <1>7 DEF WriteReport, vars, WorkInv, Publishing, Meek, StageInv, PassInv, ClerkInv, ClerkType
<1>8. ASSUME NEW p \in Procs,
             \/ Look(p) \/ UpstreamFails(p) \/ ReadFinal(p) \/ Refused(p) \/ Claim(p)
             \/ OpenRefused(p) \/ Release(p)
      PROVE  Publishing' /\ (artifact # None => artifact' = artifact)
  <2>1. UNCHANGED <<artifact, force, pc, report>>
    BY <1>8 DEF Look, UpstreamFails, ReadFinal, Refused, Claim, OpenRefused, Release, Conclude, vars
  <2>2. \E s \in {verdict[p], "paused", "blocked"} : verdict' = [verdict EXCEPT ![p] = s]
    BY <1>8 DEF Look, UpstreamFails, ReadFinal, Refused, Claim, OpenRefused, Release, Conclude,
                WorkInv, ClerkInv, ClerkType
  <2> QED BY <2>1, <2>2 DEF WorkInv, Publishing, Meek, StageInv, PassInv, ClerkInv, ClerkType
<1> QED BY <1>1, <1>2, <1>3, <1>4, <1>5, <1>6, <1>7, <1>8 DEF WorkNext, WorkerStep, AtWork

-----------------------------------------------------------------------------
(* The run underneath, as an instance with exclusive sessions *)

(* The instance differs from CheckpointRun in MayStart only. *)
LEMMA SameNames ==
  /\ Alone!Frames = Frames /\ Alone!Maybe = Maybe /\ Alone!NoRows = NoRows
  /\ Alone!store = store /\ Alone!session = session /\ Alone!vars = vars
  /\ Alone!Sessions = Sessions
BY DEF Alone!Frames, Frames, Alone!Maybe, Maybe, Alone!NoRows, NoRows, Alone!store, store,
       Alone!session, session, Alone!vars, vars, Alone!Sessions, Sessions, Alone!InSession

LEMMA SameStore ==
  /\ \A f \in Frames : Alone!Intact(f) <=> Intact(f)
  /\ \A n : Alone!Contiguous(n) <=> Contiguous(n)
  /\ \A n : Alone!Before(n) = Before(n)
  /\ \A x : Alone!Made(x) <=> Made(x)
  /\ Alone!ChainPass <=> ChainPass
BY DEF Alone!Frames, Frames, Alone!Intact, Intact, Alone!Contiguous, Contiguous, Alone!Before, Before,
       Alone!Made, Made, Alone!ChainPass, ChainPass, Alone!Linked, Linked

LEMMA SameMoves ==
  ASSUME NEW p
  PROVE  /\ Exit(p) => Alone!Exit(p)
         /\ \A from, to : Goto(p, from, to) => Alone!Goto(p, from, to)
BY SameNames DEF Exit, Alone!Exit, Goto, Alone!Goto

LEMMA SameSteps ==
  ASSUME NEW p \in Procs, SessionStep(p) \/ AssemblyStep(p) \/ Pause(p) \/ Crash(p)
  PROVE  Alone!Next
<1> USE SameNames, SameStore, SameMoves
    DEF Alone!Next, Alone!SessionStep, Alone!AssemblyStep, store, session, Alone!store, Alone!session
<1>1. CASE WriteManifest(p)
  BY <1>1 DEF WriteManifest, Alone!WriteManifest
<1>2. CASE Scan(p)
  BY <1>2 DEF Scan, Alone!Scan
<1>3. CASE LoadPrevious(p)
  BY <1>3 DEF LoadPrevious, Alone!LoadPrevious
<1>4. CASE Solve(p)
  BY <1>4 DEF Solve, Alone!Solve
<1>5. CASE RejectedStops(p)
  BY <1>5 DEF RejectedStops, Alone!RejectedStops
<1>6. CASE RejectedContinues(p)
  BY <1>6 DEF RejectedContinues, Alone!RejectedContinues
<1>7. CASE SaveCheck(p)
  BY <1>7 DEF SaveCheck, Alone!SaveCheck
<1>8. CASE SaveWrite(p)
  BY <1>8 DEF SaveWrite, Alone!SaveWrite
<1>9. CASE Complete(p)
  BY <1>9 DEF Complete, Alone!Complete
<1>10. CASE Pause(p)
  BY <1>10 DEF Pause, Alone!Pause
<1>11. CASE Crash(p)
  BY <1>11 DEF Crash, Alone!Crash, Alone!Done
<1>12. CASE Validate(p)
  BY <1>12 DEF Validate, Alone!Validate
<1>13. CASE LoadRows(p)
  BY <1>13 DEF LoadRows, Alone!LoadRows
<1>14. CASE CheckDestination(p)
  BY <1>14 DEF CheckDestination, Alone!CheckDestination
<1>15. CASE RemoveOld(p)
  BY <1>15 DEF RemoveOld, Alone!RemoveOld
<1>16. CASE Install(p)
  BY <1>16 DEF Install, Alone!Install
<1> QED BY <1>1, <1>2, <1>3, <1>4, <1>5, <1>6, <1>7, <1>8, <1>9, <1>10, <1>11, <1>12, <1>13,
     <1>14, <1>15, <1>16 DEF SessionStep, AssemblyStep

(* A worker that opens the root finds no session open: it would not be     *)
(* alone in the next state.                                                *)
LEMMA OpensAlone ==
  ASSUME TypeOK, OneAtATime', NEW p \in Procs, MakeRoot(p) \/ Resume(p)
  PROVE  Alone!Next
<1>1. Sessions \subseteq {p}
  <2> SUFFICES ASSUME NEW q \in Sessions, q # p PROVE FALSE
    OBVIOUS
  <2>1. pc'[q] \notin Done /\ pc'[p] \notin Done
    BY DEF Sessions, MakeRoot, Resume, Goto, TypeOK
  <2> QED BY <2>1 DEF OneAtATime, Sessions
<1>2. Alone!MayStart(p)
  BY <1>1, SameNames DEF Alone!MayStart
<1>3. CASE MakeRoot(p)
  BY <1>2, <1>3, SameMoves
     DEF MakeRoot, Alone!MakeRoot, Alone!Next, session, Alone!session
<1>4. CASE Resume(p)
  BY <1>2, <1>4, SameMoves
     DEF Resume, Alone!Resume, Alone!Next, store, session, Alone!store, Alone!session
<1> QED BY <1>3, <1>4

LEMMA AloneStep ==
  ASSUME WorkInv, OneAtATime', [WorkNext]_allVars
  PROVE  [Alone!Next]_(Alone!vars)
<1>1. CASE UNCHANGED vars
  BY <1>1 DEF vars, Alone!vars
<1>2. ASSUME NEW p \in Procs, OpenRoot(p) PROVE Alone!Next
  BY <1>2, OpensAlone DEF OpenRoot, WorkInv, RunInv
<1>3. ASSUME NEW p \in Procs, AtWork(p) PROVE Alone!Next
  <2>1. SessionStep(p) \/ AssemblyStep(p) \/ Pause(p) \/ Crash(p)
    BY <1>3 DEF AtWork, SessionGoes, SessionAssembled, SessionPaused, SessionRaises, SessionStep,
                AssemblyStep
  <2> QED BY <2>1, SameSteps
<1>4. ASSUME NEW p \in Procs, Die(p), ~UNCHANGED vars PROVE Alone!Next
  BY <1>4, SameSteps DEF Die
<1>5. CASE FrameDamaged
  BY <1>5, SameNames, SameStore
     DEF FrameDamaged, Damage, Alone!Damage, Alone!Next, session, Alone!session
<1>6. ASSUME NEW p \in Procs,
             \/ Look(p) \/ UpstreamFails(p) \/ ReadFinal(p) \/ Refused(p) \/ Claim(p)
             \/ OpenRefused(p) \/ Finish(p) \/ WriteReport(p) \/ Release(p)
      PROVE  UNCHANGED vars
  BY <1>6 DEF Look, UpstreamFails, ReadFinal, Refused, Claim, OpenRefused, Finish, WriteReport,
              Release
<1>7. CASE UNCHANGED allVars
  BY <1>1, <1>7 DEF allVars, vars
<1> QED BY <1>1, <1>2, <1>3, <1>4, <1>5, <1>6, <1>7 DEF WorkNext, WorkerStep, AtWork

-----------------------------------------------------------------------------
(* The theorems *)

LEMMA WorkStart == WorkInit => WorkInv
<1> SUFFICES ASSUME WorkInit PROVE WorkInv
  OBVIOUS
<1>1. RunInv
  BY InitRun DEF WorkInit
<1>2. ClerkInv
  BY DEF WorkInit, Init, ClerkInv, ClerkType, AtMostOne, HeldInv, BusyInv, WorkSteps, Verdicts
<1>3. Publishing
  BY DEF WorkInit, Init, Publishing, Meek, StageInv, PassInv
<1> QED BY <1>1, <1>2, <1>3 DEF WorkInv, Publishing

LEMMA WorkStepKeeps ==
  ASSUME WorkInv, [WorkNext]_allVars
  PROVE  WorkInv'
<1>1. ClerkInv'
  BY ClerkStep
<1>2. OneAtATime'
  BY <1>1, HoldersAlone, PTL
<1>3. OneSession'
  BY <1>2 DEF OneSession, OneAtATime
<1>4. RunInv'
  BY <1>3, WorkIsNext, RunStep DEF WorkInv
<1>5. Publishing'
  BY <1>1, PublishStep
<1> QED BY <1>1, <1>4, <1>5 DEF WorkInv, Publishing

(* The inductive invariant of the composition. *)
THEOREM WorkInvariant == WorkSpec => []WorkInv
BY WorkStart, WorkStepKeeps, PTL DEF WorkSpec

(* Type correctness of the workers and of what they run. *)
THEOREM WorkTypes == WorkSpec => []WorkTypeOK
<1>1. WorkInv => WorkTypeOK
  BY DEF WorkInv, RunInv, ClerkInv, ClerkType, WorkTypeOK
<1> QED BY <1>1, WorkInvariant, PTL

(* The reservation alone keeps the sessions of a clip apart. *)
THEOREM ReservationExcludes == WorkSpec => []OneAtATime
<1>1. WorkInv => OneAtATime
  BY HoldersAlone DEF WorkInv
<1> QED BY <1>1, WorkInvariant, PTL

(* A step of p that is not its release changes no reservation of another,  *)
(* and leaves p on its way to the release.                                 *)
LEMMA SlotStep ==
  ASSUME ClerkType, SlotsAtWork, [WorkNext]_allVars
  PROVE  SlotsAtWork'
<1> USE DEF SlotsAtWork, ClerkType, Reserved, Mine
<1>1. CASE UNCHANGED allVars \/ FrameDamaged
  BY <1>1 DEF allVars, FrameDamaged, clerk
<1>2. ASSUME NEW p \in Procs, Look(p) \/ UpstreamFails(p) PROVE SlotsAtWork'
  BY <1>2 DEF Look, UpstreamFails, Move, Conclude
<1>3. ASSUME NEW p \in Procs, ReadFinal(p) \/ Refused(p) PROVE SlotsAtWork'
  BY <1>3 DEF ReadFinal, Refused, Move, Conclude
<1>4. ASSUME NEW p \in Procs, Claim(p) PROVE SlotsAtWork'
  BY <1>4 DEF Claim, Move, Queue!Grant
<1>5. ASSUME NEW p \in Procs, OpenRoot(p) \/ OpenRefused(p) \/ AtWork(p) PROVE SlotsAtWork'
  BY <1>5 DEF OpenRoot, OpenRefused, AtWork, SessionGoes, SessionAssembled, SessionPaused,
              SessionRaises, Move, Conclude, clerk
<1>6. ASSUME NEW p \in Procs, Finish(p) \/ WriteReport(p) PROVE SlotsAtWork'
  BY <1>6 DEF Finish, WriteReport, Move, Conclude
<1>7. ASSUME NEW p \in Procs, Release(p) \/ Die(p) PROVE SlotsAtWork'
  BY <1>7 DEF Release, Die, Move, Queue!Drop
<1> QED BY <1>1, <1>2, <1>3, <1>4, <1>5, <1>6, <1>7 DEF WorkNext, WorkerStep, AtWork

(* Whatever ends a session, its worker still has the release before it:    *)
(* a slot is not leaked.                                                   *)
THEOREM SlotsAreNotLeaked == WorkSpec => []SlotsAtWork
<1>1. WorkInit => SlotsAtWork
  BY DEF WorkInit, SlotsAtWork, Reserved
<1>2. WorkInv => ClerkType
  BY DEF WorkInv, ClerkInv
<1>3. ClerkType /\ SlotsAtWork /\ [WorkNext]_allVars => SlotsAtWork'
  BY SlotStep
<1> QED BY <1>1, <1>2, <1>3, WorkInvariant, PTL DEF WorkSpec

(* Nothing that was published is removed or replaced by a worker. *)
THEOREM PublishedStays == WorkSpec => ArtifactStays
<1>1. WorkInv /\ [WorkNext]_allVars => [artifact # None => artifact' = artifact]_allVars
  BY ClerkStep, PublishStep
<1> QED BY <1>1, WorkInvariant, PTL DEF WorkSpec, ArtifactStays

(* A clip reported as passed has a published, temporal trajectory. *)
THEOREM PassedIsPublished == WorkSpec => []PassIsPublished
<1>1. WorkInv => PassIsPublished
  BY PublishedIsTemporal DEF WorkInv, PassInv, PassIsPublished
<1> QED BY <1>1, WorkInvariant, PTL

(* The workers and their queue are a run with exclusive sessions, so the   *)
(* theorems of CheckpointProofs hold of it without their assumption.       *)
THEOREM WorkRefinesExclusiveRun == WorkSpec => ImplementsExclusiveRun
<1>1. WorkInit => Alone!Init
  BY DEF WorkInit, Init, Alone!Init, Alone!Frames, Alone!NoRows, Alone!Unmade, Frames, NoRows, Unmade
<1>2. ASSUME WorkInv, [WorkNext]_allVars
      PROVE  [Alone!Next]_(Alone!vars)
  <2>1. ClerkInv'
    BY <1>2, ClerkStep
  <2>2. OneAtATime'
    BY <2>1, HoldersAlone, PTL
  <2> QED BY <1>2, <2>2, AloneStep
<1> QED BY <1>1, <1>2, WorkInvariant, PTL DEF WorkSpec, ImplementsExclusiveRun, Alone!Spec

-----------------------------------------------------------------------------
(* What the run underneath promises, of the workers, without Exclusive.    *)

(* Frames are committed once, whatever the workers do to each other. *)
THEOREM WorkCommitsStay == WorkSpec => FramesImmutable
<1>1. ASSUME WorkInv, [WorkNext]_allVars
      PROVE  [\A f \in Frames : file[f] # None => file'[f] = file[f]]_vars
  BY <1>1, WorkIsNext, FileStays DEF WorkInv
<1> QED BY <1>1, WorkInvariant, PTL DEF WorkSpec, FramesImmutable

(* The artifact of a clip is what its store holds, whoever wrote either.   *)
THEOREM WorkPublishesStore == WorkSpec => []ArtifactIsStore
<1>1. WorkInv => ArtifactIsStore
  BY DEF WorkInv, RunInv, PublishInv, ArtifactIsStore
<1> QED BY <1>1, WorkInvariant, PTL

(* The chain that CheckpointProofs proves of exclusive sessions. *)
LEMMA WorkChain ==
  ASSUME StopOnReject
  PROVE  WorkSpec => [](WorkInv /\ ChainInv)
<1>1. WorkInit => ChainInv
  BY InitChain DEF WorkInit
<1>2. WorkInv /\ ChainInv /\ [WorkNext]_allVars => ChainInv'
  BY WorkIsNext, ChainStep DEF WorkInv
<1> QED BY <1>1, <1>2, WorkInvariant, PTL DEF WorkSpec

(* Each frame of the clip was solved from, and links to, the one before    *)
(* it, however many workers had a go at the clip.                          *)
THEOREM WorkChainContinues ==
  ASSUME StopOnReject
  PROVE  WorkSpec => []ChainIsTemporal
BY PrefixIsTemporal, WorkChain, PTL

(* "complete" in progress.json, which a worker reads before it claims, is  *)
(* true of the store.                                                      *)
THEOREM WorkCompleteIsTrue ==
  ASSUME StopOnReject
  PROVE  WorkSpec => []CompleteMeansWhole
<1>1. ChainInv => CompleteMeansWhole
  BY DEF ChainInv
<1> QED BY <1>1, WorkChain, PTL

(* Whatever workers did to a clip, its store can be assembled when it is   *)
(* whole and undamaged.                                                    *)
THEOREM WorkFinishedIsAssemblable ==
  ASSUME StopOnReject
  PROVE  WorkSpec => []WholeIsAssemblable
<1>1. WorkInv => TypeOK
  BY DEF WorkInv, RunInv
<1> QED BY <1>1, WholePasses, WorkChain, PTL

(* Workers that start, die and reuse implement the write-once frame log.   *)
THEOREM WorkRefinesFrameLog ==
  ASSUME StopOnReject
  PROVE  WorkSpec => ImplementsFrameLog
<1>1. WorkInit => Log!Init
  BY LogStart DEF WorkInit
<1>2. WorkInv /\ ChainInv /\ [WorkNext]_allVars => [Log!Next]_<<file, artifact>>
  BY WorkIsNext, LogStep DEF WorkInv
<1> QED BY <1>1, <1>2, WorkChain, PTL DEF WorkSpec, ImplementsFrameLog, Log!Spec

(* Without damage no worker's session solves a frame it cannot save. *)
THEOREM WorkSolvesAreSaved ==
  ASSUME StopOnReject, ~MayDamage
  PROVE  WorkSpec => []NoSolveRefused
<1>1. WorkInit => AheadInv
  BY InitAhead DEF WorkInit
<1>2. WorkInv /\ ChainInv /\ AheadInv /\ [WorkNext]_allVars => AheadInv'
  BY WorkIsNext, AheadStep DEF WorkInv
<1>3. WorkInv /\ AheadInv => NoSolveRefused
  BY AheadIsFree DEF WorkInv
<1> QED BY <1>1, <1>2, <1>3, WorkChain, PTL DEF WorkSpec
=============================================================================
