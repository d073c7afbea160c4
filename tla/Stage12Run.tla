----------------------------- MODULE Stage12Run -----------------------------
(***************************************************************************)
(* Stage-12 workers on one clip: run_one of                                *)
(* scripts/stage12_dataset_validation.py, composed of the final-job queue  *)
(* (through SlotPool, which FinalJobs implements) and the checkpoint       *)
(* sessions and assemblies of CheckpointRun, which run inside the worker.  *)
(*                                                                         *)
(* Nothing here makes sessions exclusive but the reservation: MayStart of  *)
(* CheckpointRun is left open (Exclusive = FALSE in the instance), and     *)
(* ImplementsExclusiveRun says that the composition behaves as if it were  *)
(* closed.  A worker looks at progress.json and at the final artifact      *)
(* before it asks for a slot, so what it saw may be old when it claims.    *)
(***************************************************************************)
EXTENDS CheckpointRun

CONSTANT Clip        \* the job of the clip

VARIABLES
  held,     \* live reservations of the clip's job in the queue
  work,     \* where a process is in run_one
  complete, \* checkpoint_complete: what it read from progress.json
  verdict,  \* "status" of the payload it is about to report
  report    \* "status" of the clip's report file

clerk   == <<held, work, complete, verdict, report>>
allVars == <<vars, held, work, complete, verdict, report>>

Verdicts  == {"none", "pass", "paused", "blocked"}
WorkSteps == {"idle", "looking", "asking", "claimed", "session", "finishing", "reporting", "releasing"}

(* The queue hands out at most one live reservation of a job. *)
Queue == INSTANCE SlotPool WITH Jobs <- {Clip}, Pids <- Procs, MaxSlots <- 1
Mine(p) == [job |-> Clip, pid |-> p]
Reserved(p) == Mine(p) \in held

WorkInit ==
  /\ Init
  /\ held = {}
  /\ work = [p \in Procs |-> "idle"]
  /\ complete = [p \in Procs |-> FALSE]
  /\ verdict = [p \in Procs |-> "none"]
  /\ report = "none"

Move(p, from, to) ==
  /\ work[p] = from
  /\ work' = [work EXCEPT ![p] = to]

(* The try block is left with this status; the report comes next. *)
Conclude(p, from, status) ==
  /\ Move(p, from, "reporting")
  /\ verdict' = [verdict EXCEPT ![p] = status]
  /\ UNCHANGED <<held, complete, report>>

-----------------------------------------------------------------------------
(* Before the claim, under no reservation *)

(* The upstream artifacts are there or were built; progress.json is read.  *)
Look(p) ==
  /\ Move(p, "idle", "looking")
  /\ complete' = [complete EXCEPT ![p] = (progress = "complete")]
  /\ UNCHANGED <<vars, held, verdict, report>>

(* Loading, warm start, graph or evaluation raised. *)
UpstreamFails(p) ==
  /\ Conclude(p, "idle", "blocked")
  /\ UNCHANGED vars

(* A complete run with a final artifact is reused without a claim. *)
ReadFinal(p) ==
  /\ Move(p, "looking", IF complete[p] /\ artifact # None THEN "finishing" ELSE "asking")
  /\ complete' = [complete EXCEPT ![p] = FALSE]
  /\ UNCHANGED <<vars, held, verdict, report>>

(* FinalJobPaused: the queue is closed, full, or the job is running. *)
Refused(p) ==
  /\ Conclude(p, "asking", "paused")
  /\ UNCHANGED vars

ClaimUnchecked(p) ==            \* mutant: the rows of active_jobs.json are not looked at
  /\ Move(p, "asking", "claimed")
  /\ held' = held \cup {Mine(p)}
  /\ UNCHANGED <<vars, complete, verdict, report>>

Claim(p) ==
  /\ Move(p, "asking", "claimed")
  /\ Queue!Grant(p, Clip)
  /\ UNCHANGED <<vars, complete, verdict, report>>

-----------------------------------------------------------------------------
(* The session, inside the worker and with force=False *)

OpenForced(p) ==                \* mutant: the suites' --force
  /\ Move(p, "claimed", "session")
  /\ MakeRoot(p) \/ Resume(p)
  /\ force'[p]
  /\ UNCHANGED <<held, complete, verdict, report>>

OpenRoot(p) ==
  /\ Move(p, "claimed", "session")
  /\ MakeRoot(p) \/ Resume(p)
  /\ ~force'[p]
  /\ UNCHANGED <<held, complete, verdict, report>>

(* Directories without a manifest: CheckpointError. *)
OpenRefused(p) ==
  /\ root = "unmarked"
  /\ Conclude(p, "claimed", "blocked")
  /\ UNCHANGED vars

SessionGoes(p) ==
  /\ work[p] = "session"
  /\ SessionStep(p) \/ AssemblyStep(p)
  /\ pc'[p] \notin Done
  /\ UNCHANGED clerk

(* _run_checkpoint_refinement returns with the trajectory assembled.       *)
SessionAssembled(p) ==
  /\ artifact = None
  /\ Install(p)
  /\ Move(p, "session", "finishing")
  /\ UNCHANGED <<held, complete, verdict, report>>

SessionPausedRaw(p) ==          \* mutant: the payload takes the status of progress.json
  /\ \/ Pause(p)
     \/ RejectedStops(p) /\ progress' = "gated"
  /\ Conclude(p, "session", progress')

(* It returns paused: by the queue, or by the health gate, which stops at  *)
(* the first rejected frame.                                               *)
SessionPaused(p) ==
  /\ \/ Pause(p)
     \/ /\ RejectedStops(p) \/ SaveWrite(p)
        /\ pc'[p] \in Done
        /\ progress' = "gated"
  /\ Conclude(p, "session", "paused")

(* A checkpoint error, a refused save or destination, or any exception.    *)
SessionRaises(p) ==
  /\ \/ LoadPrevious(p) \/ SaveCheck(p) \/ Validate(p) \/ LoadRows(p) \/ CheckDestination(p)
     \/ artifact # None /\ Install(p)
     \/ Crash(p)
  /\ pc'[p] \in Done
  /\ Conclude(p, "session", "blocked")

-----------------------------------------------------------------------------
(* After it *)

(* load_final_trajectory, the viewer and its smoke test. *)
Finish(p) ==
  /\ \/ artifact # None /\ Conclude(p, "finishing", "pass")
     \/ Conclude(p, "finishing", "blocked")
  /\ UNCHANGED vars

ReportAndKeep(p) ==             \* mutant: only a pass gives the slot back
  /\ Move(p, "reporting", IF Reserved(p) /\ verdict[p] = "pass" THEN "releasing" ELSE "idle")
  /\ report' = verdict[p]
  /\ verdict' = [verdict EXCEPT ![p] = "none"]
  /\ UNCHANGED <<vars, held, complete>>

(* The release is in the finally clause: it follows a failed write too. *)
WriteReport(p) ==
  /\ Move(p, "reporting", IF Reserved(p) THEN "releasing" ELSE "idle")
  /\ report' \in {verdict[p], report}
  /\ verdict' = [verdict EXCEPT ![p] = "none"]
  /\ UNCHANGED <<vars, held, complete>>

Release(p) ==
  /\ Move(p, "releasing", "idle")
  /\ Queue!Drop(Mine(p))
  /\ UNCHANGED <<vars, complete, verdict, report>>

(* Killed anywhere.  Its row is dead and counts no more. *)
Die(p) ==
  /\ work[p] # "idle"
  /\ work' = [work EXCEPT ![p] = "idle"]
  /\ IF pc[p] \in Done THEN UNCHANGED vars ELSE Crash(p)
  /\ complete' = [complete EXCEPT ![p] = FALSE]
  /\ verdict' = [verdict EXCEPT ![p] = "none"]
  /\ Queue!Drop(Mine(p))
  /\ UNCHANGED report

FrameDamaged ==
  /\ \E f \in Frames : Damage(f)
  /\ UNCHANGED clerk

-----------------------------------------------------------------------------
WorkerStep(p) ==
  \/ ReadFinal(p)
  \/ Refused(p)
  \/ Claim(p)
  \/ OpenRoot(p)
  \/ OpenRefused(p)
  \/ SessionGoes(p)
  \/ SessionAssembled(p)
  \/ SessionPaused(p)
  \/ SessionRaises(p)
  \/ Finish(p)
  \/ WriteReport(p)
  \/ Release(p)

WorkNext ==
  \/ \E p \in Procs : Look(p)
  \/ \E p \in Procs : UpstreamFails(p)
  \/ \E p \in Procs : WorkerStep(p)
  \/ \E p \in Procs : Die(p)
  \/ FrameDamaged

WorkSpec == WorkInit /\ [][WorkNext]_allVars

(* A worker that runs goes on; operators owe nothing. *)
WorkFairSpec == WorkSpec /\ \A p \in Procs : WF_allVars(WorkerStep(p))

-----------------------------------------------------------------------------
(* Properties *)

WorkTypeOK ==
  /\ TypeOK
  /\ held \subseteq {Mine(p) : p \in Procs}
  /\ work \in [Procs -> WorkSteps]
  /\ complete \in [Procs -> BOOLEAN]
  /\ verdict \in [Procs -> Verdicts]
  /\ report \in Verdicts

(* The reservation keeps sessions and assemblies of the clip apart, from   *)
(* the claim of one worker to its release, its death included: this is the *)
(* Exclusive that CheckpointRun assumes.                                   *)
OneAtATime == \A p, q \in Procs : pc[p] \notin Done /\ pc[q] \notin Done => p = q

(* The worker, its queue and its sessions are a run of CheckpointRun with  *)
(* exclusive sessions, so all that is proved of such a run holds here.     *)
Alone == INSTANCE CheckpointRun WITH Exclusive <- TRUE
ImplementsExclusiveRun == Alone!Spec

(* A published trajectory is never removed or replaced, whatever a worker  *)
(* that looked before it was published does after claiming the slot.       *)
ArtifactStays == [][artifact # None => artifact' = artifact]_allVars

(* A clip reported as passed has its artifact, made of one temporal        *)
(* sequence of frames, also when the worker reused it without a claim.     *)
PassIsPublished == report = "pass" => artifact # None /\ ArtifactIsTemporal

(* No reservation is left behind: who holds the slot is a live worker that *)
(* has yet to release it, however its session or its report ended.         *)
SlotsAtWork ==
  \A p \in Procs :
    Reserved(p) => work[p] \in {"claimed", "session", "finishing", "reporting", "releasing"}

(* Every reservation is given back: by the worker, in whatever way its     *)
(* session ended, or with its death.                                       *)
SlotComesBack == \A p \in Procs : Reserved(p) ~> ~Reserved(p)
=============================================================================
