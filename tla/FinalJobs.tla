------------------------------ MODULE FinalJobs ------------------------------
(***************************************************************************)
(* The Stage-12 final-job queue (toporetarget/retarget/final_jobs.py), its *)
(* worker (scripts/stage12_dataset_validation.py, run_one) and its operator*)
(* commands (toporetarget/cli/jobs.py).                                    *)
(*                                                                         *)
(* The queue is four files under .local/control/final_jobs: the sentinel   *)
(* PAUSED, pause_manifest.json, scheduler_state.json and active_jobs.json. *)
(* active_jobs.json is read and rewritten under an flock; the other three  *)
(* are written by pause and resume one after the other under no lock.      *)
(* A worker is identified with its process id: os.kill(pid, 0) is the only *)
(* liveness test the code has, so what a row of active_jobs.json means when*)
(* its process is gone depends on who has the id now.                      *)
(***************************************************************************)
EXTENDS Naturals, FiniteSets

CONSTANTS
  Pids,              \* process ids the operating system hands out
  Jobs,              \* final-refinement jobs of the selection
  Operators,         \* processes running `jobs pause-final` / `resume-final`
  MaxLimit,          \* largest --max-final-workers an operator passes
  None,              \* "no job" / "no lock holder"
  PidReuse,          \* may an unrelated process get a worker's old id?
  OperatorMayCrash   \* may a command die between two of its file writes?

ASSUME LimitAssumption == MaxLimit \in Nat \ {0}
ASSUME NoneAssumption  == None \notin Pids \cup Jobs \cup Operators
ASSUME ActorAssumption == Pids \cap Operators = {}
ASSUME FlagAssumption  == PidReuse \in BOOLEAN /\ OperatorMayCrash \in BOOLEAN

VARIABLES
  sentinel,    \* the file PAUSED exists
  manifest,    \* "state" of pause_manifest.json
  scheduler,   \* scheduler_state.json; an absent file reads as closed
  active,      \* rows of active_jobs.json (their order is never used)
  lock,        \* holder of the flock on active_jobs.lock, or None
  rows,        \* what the holder read from active_jobs.json
  pc,          \* what the process with this id is doing
  job,         \* the job a worker is on
  cap,         \* the worker limit a worker read when it claimed
  opPc,        \* next file operation of an operator command
  opLimit      \* the limit a resume command was given

control == <<sentinel, manifest, scheduler>>
table   == <<active, lock, rows>>
worker  == <<pc, job, cap>>
opvars  == <<opPc, opLimit>>
vars    == <<sentinel, manifest, scheduler, active, lock, rows, pc, job, cap, opPc, opLimit>>

Limits   == 1 .. MaxLimit
Claiming == {"locked", "unpaused", "scheduled", "counted"}    \* in claim_final_job
Running  == {"boundary", "solving", "releasing", "returning"} \* claimed, not released
WorkerPc == {"idle", "checked"} \cup Claiming \cup Running
NoProcess == {"none"}
PcValues == NoProcess \cup {"other"} \cup WorkerPc
Pausing  == {"pause_manifest", "pause_scheduler"}
Resuming == {"resume_prune", "resume_unlink", "resume_manifest", "resume_scheduler"}
OpValues == {"idle"} \cup Pausing \cup Resuming

Actors == Pids \cup Operators
Row == [job : Jobs, pid : Pids]
RowOf(p) == [job |-> job[p], pid |-> p]
Workers == {p \in Pids : pc[p] \in Running}

(* _pid_is_alive: any process under this id counts. *)
Alive(p) == pc[p] \notin NoProcess
LiveRows == {r \in active : Alive(r.pid)}

Init ==
  /\ sentinel = FALSE
  /\ manifest = "none"
  /\ scheduler = [allowed |-> FALSE, limit |-> 0]
  /\ active = {}
  /\ lock = None
  /\ rows = [a \in Actors |-> {}]
  /\ pc = [p \in Pids |-> "none"]
  /\ job = [p \in Pids |-> None]
  /\ cap = [p \in Pids |-> 0]
  /\ opPc = [o \in Operators |-> "idle"]
  /\ opLimit = [o \in Operators |-> 0]

-----------------------------------------------------------------------------
(* Processes *)

(* _active_jobs_lock, and what is left of a critical section when its      *)
(* process leaves it or dies in it.                                        *)
SharedLock(a) == lock' = a                     \* mutant: LOCK_SH for LOCK_EX
TakeLock(a) == lock = None /\ lock' = a
Forget(a) ==
  /\ lock' = IF lock = a THEN None ELSE lock
  /\ rows' = [rows EXCEPT ![a] = {}]

(* Without reuse an id is not handed out while a row still names it. *)
FreeId(p) == pc[p] = "none" /\ (PidReuse \/ \A r \in active : r.pid # p)

Launch(p) ==
  /\ FreeId(p)
  /\ pc' = [pc EXCEPT ![p] = "idle"]
  /\ UNCHANGED <<control, table, job, cap, opvars>>

(* The id goes to a process that has nothing to do with the queue. *)
Reuse(p) ==
  /\ PidReuse
  /\ FreeId(p)
  /\ pc' = [pc EXCEPT ![p] = "other"]
  /\ UNCHANGED <<control, table, job, cap, opvars>>

(* Exit or kill at any point.  The kernel drops the flock with the process;*)
(* the row in active_jobs.json stays.                                      *)
Die(p) ==
  /\ Alive(p)
  /\ pc' = [pc EXCEPT ![p] = "none"]
  /\ job' = [job EXCEPT ![p] = None]
  /\ cap' = [cap EXCEPT ![p] = 0]
  /\ Forget(p)
  /\ UNCHANGED <<control, active, opvars>>

-----------------------------------------------------------------------------
(* The worker *)

(* assert_final_jobs_allowed, before the claim and under no lock.  When the*)
(* sentinel is there run_one reports the job as paused and takes the next. *)
CheckAllowed(p, j) ==
  /\ pc[p] = "idle"
  /\ ~sentinel
  /\ pc' = [pc EXCEPT ![p] = "checked"]
  /\ job' = [job EXCEPT ![p] = j]
  /\ UNCHANGED <<control, table, cap, opvars>>

(* claim_final_job: one action for each file it reads, all of them inside  *)
(* the flock; pause and resume write the first two without it.             *)
ClaimLock(p) ==
  /\ pc[p] = "checked"
  /\ TakeLock(p)
  /\ pc' = [pc EXCEPT ![p] = "locked"]
  /\ UNCHANGED <<control, active, rows, job, cap, opvars>>

(* FinalJobPaused leaves the critical section; run_one reports and goes on.*)
Reject(p) ==
  /\ Forget(p)
  /\ pc' = [pc EXCEPT ![p] = "idle"]
  /\ job' = [job EXCEPT ![p] = None]
  /\ cap' = [cap EXCEPT ![p] = 0]
  /\ UNCHANGED active

ClaimReadSentinel(p) ==
  /\ pc[p] = "locked"
  /\ \/ /\ sentinel
        /\ Reject(p)
     \/ /\ ~sentinel
        /\ pc' = [pc EXCEPT ![p] = "unpaused"]
        /\ UNCHANGED <<table, job, cap>>
  /\ UNCHANGED <<control, opvars>>

ClaimReadScheduler(p) ==
  /\ pc[p] = "unpaused"
  /\ \/ /\ ~scheduler.allowed \/ scheduler.limit < 1
        /\ Reject(p)
     \/ /\ scheduler.allowed /\ scheduler.limit >= 1
        /\ pc' = [pc EXCEPT ![p] = "scheduled"]
        /\ cap' = [cap EXCEPT ![p] = scheduler.limit]
        /\ UNCHANGED <<table, job>>
  /\ UNCHANGED <<control, opvars>>

ClaimReadRows(p) ==
  /\ pc[p] = "scheduled"
  /\ rows' = [rows EXCEPT ![p] = LiveRows]
  /\ pc' = [pc EXCEPT ![p] = "counted"]
  /\ UNCHANGED <<control, active, lock, job, cap, opvars>>

TakenBySelf(p) == \E r \in rows[p] : r.job = job[p] /\ r.pid = p   \* mutant
OverFull(p) == Cardinality(rows[p]) > cap[p]                     \* mutant

JobTaken(p) == \E r \in rows[p] : r.job = job[p]
Full(p) == Cardinality(rows[p]) >= cap[p]

(* The rows read are tested, appended to and written back; a rejected claim*)
(* writes nothing.                                                         *)
ClaimReserve(p) ==
  /\ pc[p] = "counted"
  /\ \/ /\ JobTaken(p) \/ Full(p)
        /\ Reject(p)
     \/ /\ ~JobTaken(p) /\ ~Full(p)
        /\ active' = rows[p] \cup {RowOf(p)}
        /\ Forget(p)
        /\ pc' = [pc EXCEPT ![p] = "boundary"]
        /\ UNCHANGED <<job, cap>>
  /\ UNCHANGED <<control, opvars>>

(* The session looks at the sentinel before every frame, and only there. *)
BeginFrameUnchecked(p) ==       \* mutant: the session never polls the sentinel
  /\ pc[p] = "boundary"
  /\ pc' = [pc EXCEPT ![p] = "solving"]
  /\ UNCHANGED <<control, table, job, cap, opvars>>

BeginFrame(p) ==
  /\ pc[p] = "boundary"
  /\ pc' = [pc EXCEPT ![p] = IF sentinel THEN "releasing" ELSE "solving"]
  /\ UNCHANGED <<control, table, job, cap, opvars>>

(* The frame is solved; or it was the last, the health gate stopped the    *)
(* session, or it raised: all of these end in run_one's finally clause.    *)
EndFrame(p) ==
  /\ pc[p] = "solving"
  /\ \E next \in {"boundary", "releasing"} : pc' = [pc EXCEPT ![p] = next]
  /\ UNCHANGED <<control, table, job, cap, opvars>>

(* release_final_job: read under the lock, filter out the own row, write. *)
ReleaseReadUnlocked(p) ==       \* mutant: the file is read before the flock
  /\ pc[p] = "releasing"
  /\ rows' = [rows EXCEPT ![p] = active]
  /\ pc' = [pc EXCEPT ![p] = "returning"]
  /\ UNCHANGED <<control, active, lock, job, cap, opvars>>

ReleaseRead(p) ==
  /\ pc[p] = "releasing"
  /\ TakeLock(p)
  /\ rows' = [rows EXCEPT ![p] = active]
  /\ pc' = [pc EXCEPT ![p] = "returning"]
  /\ UNCHANGED <<control, active, job, cap, opvars>>

ReleaseSkippedWhenPaused(p) ==  \* mutant: a paused session keeps its row
  /\ pc[p] = "returning"
  /\ active' = IF sentinel THEN rows[p] ELSE rows[p] \ {RowOf(p)}
  /\ Forget(p)
  /\ pc' = [pc EXCEPT ![p] = "idle"]
  /\ job' = [job EXCEPT ![p] = None]
  /\ cap' = [cap EXCEPT ![p] = 0]
  /\ UNCHANGED <<control, opvars>>

ReleaseWrite(p) ==
  /\ pc[p] = "returning"
  /\ active' = rows[p] \ {RowOf(p)}
  /\ Forget(p)
  /\ pc' = [pc EXCEPT ![p] = "idle"]
  /\ job' = [job EXCEPT ![p] = None]
  /\ cap' = [cap EXCEPT ![p] = 0]
  /\ UNCHANGED <<control, opvars>>

-----------------------------------------------------------------------------
(* Operator commands: one action per file they touch *)

OpStep(o, from, to) ==
  /\ opPc[o] = from
  /\ opPc' = [opPc EXCEPT ![o] = to]

PauseSentinel(o) ==
  /\ OpStep(o, "idle", "pause_manifest")
  /\ sentinel' = TRUE
  /\ UNCHANGED <<manifest, scheduler, table, worker, opLimit>>

PauseManifest(o) ==
  /\ OpStep(o, "pause_manifest", "pause_scheduler")
  /\ manifest' = "PAUSED"
  /\ UNCHANGED <<sentinel, scheduler, table, worker, opLimit>>

PauseScheduler(o) ==
  /\ OpStep(o, "pause_scheduler", "idle")
  /\ scheduler' = [allowed |-> FALSE, limit |-> 0]
  /\ UNCHANGED <<sentinel, manifest, table, worker, opLimit>>

(* _read_live_active_jobs: read under the lock, then write the live rows   *)
(* back.  With one left resume_final_jobs raises; otherwise it goes on,    *)
(* without the lock.                                                       *)
ResumeReadUnlocked(o, n) ==     \* mutant: the rows are read without the flock
  /\ OpStep(o, "idle", "resume_prune")
  /\ rows' = [rows EXCEPT ![o] = LiveRows]
  /\ opLimit' = [opLimit EXCEPT ![o] = n]
  /\ UNCHANGED <<control, active, lock, worker>>

ResumeRead(o, n) ==
  /\ OpStep(o, "idle", "resume_prune")
  /\ TakeLock(o)
  /\ rows' = [rows EXCEPT ![o] = LiveRows]
  /\ opLimit' = [opLimit EXCEPT ![o] = n]
  /\ UNCHANGED <<control, active, worker>>

ResumePrune(o) ==
  /\ opPc[o] = "resume_prune"
  /\ active' = rows[o]
  /\ Forget(o)
  /\ \/ /\ rows[o] = {}
        /\ opPc' = [opPc EXCEPT ![o] = "resume_unlink"]
        /\ UNCHANGED opLimit
     \/ /\ rows[o] # {}
        /\ opPc' = [opPc EXCEPT ![o] = "idle"]
        /\ opLimit' = [opLimit EXCEPT ![o] = 0]
  /\ UNCHANGED <<control, worker>>

ResumeUnlink(o) ==
  /\ OpStep(o, "resume_unlink", "resume_manifest")
  /\ sentinel' = FALSE
  /\ UNCHANGED <<manifest, scheduler, table, worker, opLimit>>

ResumeManifest(o) ==
  /\ OpStep(o, "resume_manifest", "resume_scheduler")
  /\ manifest' = "READY"
  /\ UNCHANGED <<sentinel, scheduler, table, worker, opLimit>>

ResumeOneTooMany(o) ==          \* mutant: the limit is written off by one
  /\ OpStep(o, "resume_scheduler", "idle")
  /\ scheduler' = [allowed |-> TRUE, limit |-> opLimit[o] + 1]
  /\ opLimit' = [opLimit EXCEPT ![o] = 0]
  /\ UNCHANGED <<sentinel, manifest, table, worker>>

ResumeScheduler(o) ==
  /\ OpStep(o, "resume_scheduler", "idle")
  /\ scheduler' = [allowed |-> TRUE, limit |-> opLimit[o]]
  /\ opLimit' = [opLimit EXCEPT ![o] = 0]
  /\ UNCHANGED <<sentinel, manifest, table, worker>>

OperatorCrash(o) ==
  /\ OperatorMayCrash
  /\ opPc[o] # "idle"
  /\ opPc' = [opPc EXCEPT ![o] = "idle"]
  /\ opLimit' = [opLimit EXCEPT ![o] = 0]
  /\ Forget(o)
  /\ UNCHANGED <<control, active, worker>>

-----------------------------------------------------------------------------
WorkerStep(p) ==
  \/ ClaimLock(p)
  \/ ClaimReadSentinel(p)
  \/ ClaimReadScheduler(p)
  \/ ClaimReadRows(p)
  \/ ClaimReserve(p)
  \/ BeginFrame(p)
  \/ EndFrame(p)
  \/ ReleaseRead(p)
  \/ ReleaseWrite(p)

OperatorStep(o) ==
  \/ PauseSentinel(o)
  \/ PauseManifest(o)
  \/ PauseScheduler(o)
  \/ \E n \in Limits : ResumeRead(o, n)
  \/ ResumePrune(o)
  \/ ResumeUnlink(o)
  \/ ResumeManifest(o)
  \/ ResumeScheduler(o)
  \/ OperatorCrash(o)

Next ==
  \/ \E p \in Pids : Launch(p)
  \/ \E p \in Pids : Reuse(p)
  \/ \E p \in Pids : Die(p)
  \/ \E p \in Pids, j \in Jobs : CheckAllowed(p, j)
  \/ \E p \in Pids : WorkerStep(p)
  \/ \E o \in Operators : OperatorStep(o)

Spec == Init /\ [][Next]_vars

(* A process that is not killed keeps being scheduled, the code inside the *)
(* flock waits for nothing, and every frame solve is bounded (SLSQP has a  *)
(* maximum number of iterations).  The flock is contended: a waiting       *)
(* release is let in infinitely often, not always.                         *)
Fairness ==
  /\ \A p \in Pids :
       /\ WF_vars(ClaimReadSentinel(p))
       /\ WF_vars(ClaimReadScheduler(p))
       /\ WF_vars(ClaimReadRows(p))
       /\ WF_vars(ClaimReserve(p))
       /\ WF_vars(BeginFrame(p))
       /\ WF_vars(EndFrame(p))
       /\ SF_vars(ReleaseRead(p))
       /\ WF_vars(ReleaseWrite(p))
  /\ \A o \in Operators : WF_vars(ResumePrune(o))

FairSpec == Spec /\ Fairness

-----------------------------------------------------------------------------
(* Properties *)

TypeOK ==
  /\ sentinel \in BOOLEAN
  /\ manifest \in {"none", "PAUSED", "READY"}
  /\ scheduler \in [allowed : BOOLEAN, limit : {0} \cup Limits]
  /\ active \in SUBSET Row
  /\ lock \in Actors \cup {None}
  /\ rows \in [Actors -> SUBSET Row]
  /\ pc \in [Pids -> PcValues]
  /\ job \in [Pids -> Jobs \cup {None}]
  /\ cap \in [Pids -> {0} \cup Limits]
  /\ opPc \in [Operators -> OpValues]
  /\ opLimit \in [Operators -> {0} \cup Limits]

(* A running worker's reservation is in active_jobs.json: no prune, no     *)
(* other worker's claim or release, no resume and no reused process id     *)
(* ever takes a live reservation away (claim_final_job,                    *)
(* release_final_job, _read_live_active_jobs).                             *)
WorkersReserved == \A p \in Workers : RowOf(p) \in active

(* No two processes ever refine the same job, whatever crashed before. *)
OneWorkerPerJob ==
  \A p, q \in Workers : p # q => job[p] # job[q]

(* Whenever workers run together, at least one of them was admitted under  *)
(* a limit as large as their number, although limits change while they run *)
(* and resume checks for running workers before, not while, it writes.     *)
CapRespected ==
  \A S \in SUBSET Workers :
    S # {} => \E p \in S : Cardinality(S) <= cap[p]

(* The queue is opened only on a quiet machine: when a resume, after any   *)
(* pauses and resumes that crashed half-way, makes claims possible again,  *)
(* no worker of an earlier opening still runs or holds a grant             *)
(* (resume_final_jobs: "cannot resume while active final jobs are          *)
(* recorded").  The commands take no lock against each other, so this needs*)
(* that they are not run at the same time.                                 *)
Open == ~sentinel /\ scheduler.allowed
Busy == {p \in Pids : pc[p] \in {"scheduled", "counted"} \cup Running}
OpensQuiet == [][~Open /\ Open' => Busy = {}]_vars

(* A pause that stays drains the queue: every running worker stops at its  *)
(* next frame boundary and gives its slot back.                            *)
PauseDrains ==
  \A p \in Pids : (pc[p] \in Running /\ sentinel) ~> (pc[p] \notin Running \/ ~sentinel)

(* Without process-id reuse a row whose process is alive belongs to a      *)
(* worker that still works on that job: no slot is ever leaked.            *)
RowsAreWorkers == \A r \in LiveRows : r.pid \in Workers /\ r.job = job[r.pid]

(* The queue implements the bounded pool of slots. *)
Held == {RowOf(p) : p \in Workers}
Slots == INSTANCE SlotPool WITH
           MaxSlots <- MaxLimit,
           held <- Held
ImplementsSlotPool == Slots!Spec

(* Seen from one job it is a pool with a single slot, which is what a      *)
(* Stage-12 worker of that clip relies on (Stage12Run!Queue).              *)
HeldOf(j) == {h \in Held : h.job = j}
JobSlot(j) == INSTANCE SlotPool WITH
                Jobs <- {j},
                MaxSlots <- 1,
                held <- HeldOf(j)
ImplementsJobSlots ==
  /\ \A j \in Jobs : JobSlot(j)!Init
  /\ [][\A j \in Jobs : JobSlot(j)!Next \/ UNCHANGED HeldOf(j)]_Held
=============================================================================
