--------------------------- MODULE FinalJobsProofs ---------------------------
(***************************************************************************)
(* Theorems about FinalJobs for any sets of process ids, jobs and          *)
(* operators and any worker limit.                                         *)
(*                                                                         *)
(* The inductive invariant is QueueInv.  Shape adds to TypeOK what makes it*)
(* inductive: who holds the flock, which control states carry a job and a  *)
(* limit, and that the rows are finitely many, so that counting them bounds*)
(* the workers.  Registered says that active_jobs.json, and whatever copy  *)
(* of it a process is about to write back, names every running worker; it  *)
(* is what the flock is for.  Admitted is the rest of what the runs check. *)
(* Every step but a granted claim only takes workers away (Shrinks), so    *)
(* Admitted has one proof for those steps and one for the claim.           *)
(***************************************************************************)
EXTENDS FinalJobs, FiniteSetTheorems, FunctionTheorems, TLAPS

InSection(p) == pc[p] \in Claiming \cup {"returning"}
LockOK ==
  /\ \A p \in Pids : InSection(p) <=> lock = p
  /\ \A o \in Operators : opPc[o] = "resume_prune" <=> lock = o
JobOK  == \A p \in Pids : pc[p] \in {"checked"} \cup Claiming \cup Running => job[p] \in Jobs
CapOK  == \A p \in Pids : pc[p] \in {"scheduled", "counted"} \cup Running => cap[p] \in Limits
RowsOK == IsFiniteSet(active) /\ \A a \in Actors : IsFiniteSet(rows[a])
Shape  == TypeOK /\ LockOK /\ JobOK /\ CapOK /\ RowsOK

(* Actor a has read active_jobs.json and will write its copy back. *)
Reading(a) ==
  \/ a \in Pids /\ pc[a] \in {"counted", "returning"}
  \/ a \in Operators /\ opPc[a] = "resume_prune"
CopiesCover == \A a \in Actors : Reading(a) => \A q \in Workers : RowOf(q) \in rows[a]
Registered  == WorkersReserved /\ CopiesCover

Admitted == OneWorkerPerJob /\ CapRespected
QueueInv == Shape /\ Registered /\ Admitted

(* claim_final_job got its slot; every other outcome of a claim is Reject. *)
Granted(p) ==
  /\ pc[p] = "counted"
  /\ ~JobTaken(p) /\ ~Full(p)
  /\ active' = rows[p] \cup {RowOf(p)}
  /\ Forget(p)
  /\ pc' = [pc EXCEPT ![p] = "boundary"]
  /\ UNCHANGED <<job, cap, control, opvars>>

(* The step adds no worker and the remaining ones keep their job and limit.*)
Shrinks ==
  /\ Workers' \subseteq Workers
  /\ \A q \in Workers' : job'[q] = job[q] /\ cap'[q] = cap[q]

ProcessStep(p) ==
  \/ Launch(p) \/ Reuse(p) \/ Die(p)
  \/ \E j \in Jobs : CheckAllowed(p, j)

(* All control states and the sets of them, expanded together. *)
USE DEF Limits, Claiming, Running, WorkerPc, NoProcess, PcValues, Pausing,
        Resuming, OpValues, Actors, InSection

-----------------------------------------------------------------------------
LEMMA ReserveCases ==
  ASSUME NEW p \in Pids, ClaimReserve(p)
  PROVE  Granted(p) \/ (Reject(p) /\ UNCHANGED <<control, opvars>>)
BY DEF ClaimReserve, Granted

LEMMA LiveRowsFinite ==
  ASSUME RowsOK
  PROVE  IsFiniteSet(LiveRows)
<1>1. LiveRows \in SUBSET active
  BY DEF LiveRows
<1> QED BY <1>1, FS_Subset DEF RowsOK

LEMMA InitInv == Init => QueueInv
<1> SUFFICES ASSUME Init PROVE QueueInv
  OBVIOUS
<1>1. Workers = {}
  BY DEF Init, Workers
<1>2. Registered /\ Admitted
  BY <1>1 DEF Registered, WorkersReserved, CopiesCover, Admitted, OneWorkerPerJob, CapRespected
<1>3. RowsOK
  BY FS_EmptySet DEF Init, RowsOK
<1>4. TypeOK
  BY DEF Init, TypeOK
<1>5. LockOK /\ JobOK /\ CapOK
  BY NoneAssumption DEF Init, LockOK, JobOK, CapOK
<1> QED BY <1>2, <1>3, <1>4, <1>5 DEF QueueInv, Shape

-----------------------------------------------------------------------------
(* The shape is preserved by every step. *)

LEMMA ProcessShape ==
  ASSUME Shape, NEW p \in Pids, ProcessStep(p)
  PROVE  Shape'
<1> USE NoneAssumption, ActorAssumption
    DEF Shape, TypeOK, LockOK, JobOK, CapOK, RowsOK, control, table, opvars
<1>1. CASE Launch(p)
  BY <1>1 DEF Launch, FreeId
<1>2. CASE Reuse(p)
  BY <1>2 DEF Reuse, FreeId
<1>3. CASE Die(p)
  <2>1. RowsOK' /\ rows' \in [Actors -> SUBSET Row]
    BY <1>3, FS_EmptySet DEF Die, Forget
  <2>2. LockOK'
    BY <1>3 DEF Die, Forget, Alive
  <2>3. JobOK' /\ CapOK'
    BY <1>3 DEF Die
  <2>4. TypeOK'
    BY <1>3, <2>1 DEF Die, Forget
  <2> QED BY <2>1, <2>2, <2>3, <2>4
<1>4. ASSUME NEW j \in Jobs, CheckAllowed(p, j) PROVE Shape'
  BY <1>4 DEF CheckAllowed
<1> QED BY <1>1, <1>2, <1>3, <1>4 DEF ProcessStep

LEMMA RejectShape ==
  ASSUME Shape, NEW p \in Pids, pc[p] \in Claiming, Reject(p), UNCHANGED <<control, opvars>>
  PROVE  Shape'
<1> USE NoneAssumption, ActorAssumption
    DEF Reject, Forget, Shape, TypeOK, LockOK, JobOK, CapOK, RowsOK, control, opvars
<1>1. RowsOK' /\ rows' \in [Actors -> SUBSET Row]
  BY FS_EmptySet
<1>2. LockOK'
  OBVIOUS
<1>3. JobOK' /\ CapOK'
  OBVIOUS
<1> QED BY <1>1, <1>2, <1>3

LEMMA WorkerShape ==
  ASSUME Shape, NEW p \in Pids, WorkerStep(p)
  PROVE  Shape'
<1> USE NoneAssumption, ActorAssumption
    DEF Shape, TypeOK, LockOK, JobOK, CapOK, RowsOK, control, table, opvars
<1>1. CASE ClaimLock(p)
  BY <1>1 DEF ClaimLock, TakeLock
<1>2. CASE ClaimReadSentinel(p)
  <2>1. CASE Reject(p)
    BY <1>2, <2>1, RejectShape DEF ClaimReadSentinel
  <2>2. CASE ~Reject(p)
    BY <1>2, <2>2 DEF ClaimReadSentinel
  <2> QED BY <2>1, <2>2
<1>3. CASE ClaimReadScheduler(p)
  <2>1. CASE Reject(p)
    BY <1>3, <2>1, RejectShape DEF ClaimReadScheduler
  <2>2. CASE ~Reject(p)
    <3>1. scheduler.limit \in Limits
      BY <1>3, <2>2, LimitAssumption DEF ClaimReadScheduler
    <3> QED BY <1>3, <2>2, <3>1 DEF ClaimReadScheduler
  <2> QED BY <2>1, <2>2
<1>4. CASE ClaimReadRows(p)
  <2>1. RowsOK' /\ rows' \in [Actors -> SUBSET Row]
    BY <1>4, LiveRowsFinite DEF ClaimReadRows, LiveRows
  <2> QED BY <1>4, <2>1 DEF ClaimReadRows
<1>5. CASE ClaimReserve(p)
  <2>1. CASE Reject(p) /\ UNCHANGED <<control, opvars>>
    BY <1>5, <2>1, RejectShape DEF ClaimReserve
  <2>2. CASE Granted(p)
    <3>1. RowOf(p) \in Row
      BY <2>2 DEF Granted, RowOf, Row
    <3>2. active' \in SUBSET Row
      BY <2>2, <3>1 DEF Granted
    <3>3. RowsOK' /\ rows' \in [Actors -> SUBSET Row]
      BY <2>2, FS_AddElement, FS_EmptySet DEF Granted, Forget
    <3>4. LockOK'
      BY <2>2 DEF Granted, Forget
    <3>5. JobOK' /\ CapOK'
      BY <2>2 DEF Granted
    <3>6. TypeOK'
      BY <2>2, <3>2, <3>3 DEF Granted, Forget
    <3> QED BY <3>3, <3>4, <3>5, <3>6
  <2> QED BY <1>5, <2>1, <2>2, ReserveCases
<1>6. CASE BeginFrame(p)
  BY <1>6 DEF BeginFrame
<1>7. CASE EndFrame(p)
  BY <1>7 DEF EndFrame
<1>8. CASE ReleaseRead(p)
  BY <1>8 DEF ReleaseRead, TakeLock
<1>9. CASE ReleaseWrite(p)
  <2>1. RowsOK' /\ rows' \in [Actors -> SUBSET Row]
    BY <1>9, FS_Difference, FS_EmptySet DEF ReleaseWrite, Forget
  <2>2. LockOK'
    BY <1>9 DEF ReleaseWrite, Forget
  <2>3. JobOK' /\ CapOK'
    BY <1>9 DEF ReleaseWrite
  <2>4. TypeOK'
    BY <1>9, <2>1 DEF ReleaseWrite, Forget
  <2> QED BY <2>1, <2>2, <2>3, <2>4
<1> QED BY <1>1, <1>2, <1>3, <1>4, <1>5, <1>6, <1>7, <1>8, <1>9 DEF WorkerStep

LEMMA OperatorShape ==
  ASSUME Shape, NEW o \in Operators, OperatorStep(o)
  PROVE  Shape'
<1> USE LimitAssumption, NoneAssumption, ActorAssumption
    DEF Shape, TypeOK, LockOK, JobOK, CapOK, RowsOK, control, table, worker, opvars, OpStep
<1>1. CASE PauseSentinel(o)
  BY <1>1 DEF PauseSentinel
<1>2. CASE PauseManifest(o)
  BY <1>2 DEF PauseManifest
<1>3. CASE PauseScheduler(o)
  BY <1>3 DEF PauseScheduler
<1>4. ASSUME NEW n \in Limits, ResumeRead(o, n) PROVE Shape'
  <2>1. RowsOK' /\ rows' \in [Actors -> SUBSET Row]
    BY <1>4, LiveRowsFinite DEF ResumeRead, LiveRows
  <2>2. LockOK'
    BY <1>4 DEF ResumeRead, TakeLock
  <2> QED BY <1>4, <2>1, <2>2 DEF ResumeRead, TakeLock
<1>5. CASE ResumePrune(o)
  <2>1. RowsOK' /\ rows' \in [Actors -> SUBSET Row] /\ active' \in SUBSET Row
    BY <1>5, FS_EmptySet DEF ResumePrune, Forget
  <2>2. LockOK'
    BY <1>5 DEF ResumePrune, Forget
  <2> QED BY <1>5, <2>1, <2>2 DEF ResumePrune, Forget
<1>6. CASE ResumeUnlink(o)
  BY <1>6 DEF ResumeUnlink
<1>7. CASE ResumeManifest(o)
  BY <1>7 DEF ResumeManifest
<1>8. CASE ResumeScheduler(o)
  BY <1>8 DEF ResumeScheduler
<1>9. CASE OperatorCrash(o)
  <2>1. RowsOK' /\ rows' \in [Actors -> SUBSET Row]
    BY <1>9, FS_EmptySet DEF OperatorCrash, Forget
  <2>2. LockOK'
    BY <1>9 DEF OperatorCrash, Forget
  <2> QED BY <1>9, <2>1, <2>2 DEF OperatorCrash, Forget
<1> QED BY <1>1, <1>2, <1>3, <1>4, <1>5, <1>6, <1>7, <1>8, <1>9 DEF OperatorStep

LEMMA ShapeStep == Shape /\ [Next]_vars => Shape'
<1> SUFFICES ASSUME Shape, [Next]_vars PROVE Shape'
  OBVIOUS
<1>1. CASE UNCHANGED vars
  BY <1>1 DEF vars, Shape, TypeOK, LockOK, JobOK, CapOK, RowsOK
<1> QED BY <1>1, ProcessShape, WorkerShape, OperatorShape DEF Next, ProcessStep

-----------------------------------------------------------------------------
(* Which steps add a worker. *)

LEMMA ProcessShrinks ==
  ASSUME Shape, NEW p \in Pids, ProcessStep(p)
  PROVE  Shrinks
<1> USE DEF Shrinks, Workers, Shape, TypeOK
<1>1. CASE Launch(p)
  BY <1>1 DEF Launch
<1>2. CASE Reuse(p)
  BY <1>2 DEF Reuse
<1>3. CASE Die(p)
  BY <1>3 DEF Die
<1>4. ASSUME NEW j \in Jobs, CheckAllowed(p, j) PROVE Shrinks
  BY <1>4 DEF CheckAllowed
<1> QED BY <1>1, <1>2, <1>3, <1>4 DEF ProcessStep

LEMMA WorkerShrinks ==
  ASSUME Shape, NEW p \in Pids, WorkerStep(p), ~Granted(p)
  PROVE  Shrinks
<1> USE DEF Shrinks, Workers, Shape, TypeOK
<1>1. CASE ClaimLock(p)
  BY <1>1 DEF ClaimLock
<1>2. CASE ClaimReadSentinel(p)
  BY <1>2 DEF ClaimReadSentinel, Reject
<1>3. CASE ClaimReadScheduler(p)
  BY <1>3 DEF ClaimReadScheduler, Reject
<1>4. CASE ClaimReadRows(p)
  BY <1>4 DEF ClaimReadRows
<1>5. CASE ClaimReserve(p)
  BY <1>5, ReserveCases DEF Reject
<1>6. CASE BeginFrame(p)
  BY <1>6 DEF BeginFrame
<1>7. CASE EndFrame(p)
  BY <1>7 DEF EndFrame
<1>8. CASE ReleaseRead(p)
  BY <1>8 DEF ReleaseRead
<1>9. CASE ReleaseWrite(p)
  BY <1>9 DEF ReleaseWrite
<1> QED BY <1>1, <1>2, <1>3, <1>4, <1>5, <1>6, <1>7, <1>8, <1>9 DEF WorkerStep

LEMMA OperatorKeeps ==
  ASSUME NEW o \in Operators, OperatorStep(o)
  PROVE  UNCHANGED worker
BY DEF OperatorStep, PauseSentinel, PauseManifest, PauseScheduler, ResumeRead,
       ResumePrune, ResumeUnlink, ResumeManifest, ResumeScheduler, OperatorCrash

-----------------------------------------------------------------------------
(* Every copy of the rows names every worker. *)

LEMMA LiveRowsCover ==
  ASSUME Registered
  PROVE  \A q \in Workers : RowOf(q) \in active /\ RowOf(q) \in LiveRows
BY DEF Registered, WorkersReserved, LiveRows, Workers, Alive, RowOf

LEMMA ProcessRegistered ==
  ASSUME Shape, Registered, NEW p \in Pids, ProcessStep(p)
  PROVE  Registered'
<1>1. Shrinks
  BY ProcessShrinks
<1>2. active' = active
  BY DEF ProcessStep, Launch, Reuse, Die, CheckAllowed, table
<1>3. \A a \in Actors : Reading(a)' => Reading(a) /\ rows'[a] = rows[a]
  BY ActorAssumption DEF ProcessStep, Launch, Reuse, FreeId, Die, CheckAllowed, Forget, Reading,
     table, opvars, Shape, TypeOK
<1> QED BY <1>1, <1>2, <1>3 DEF Registered, WorkersReserved, CopiesCover, Shrinks, RowOf

LEMMA WorkerRegistered ==
  ASSUME Shape, Registered, NEW p \in Pids, WorkerStep(p), ~Granted(p)
  PROVE  Registered'
<1>1. Shrinks
  BY WorkerShrinks
<1>2. \A q \in Workers' : q \in Workers /\ RowOf(q)' = RowOf(q)
  BY <1>1 DEF Shrinks, RowOf
<1>3. \A a \in Actors : Reading(a)' =>
        \/ Reading(a) /\ rows'[a] = rows[a]
        \/ \A q \in Workers : RowOf(q) \in rows'[a]
  <2> USE ActorAssumption DEF Reading, Shape, TypeOK, opvars, table
  <2>1. CASE ClaimReadRows(p)
    BY <2>1, LiveRowsCover DEF ClaimReadRows
  <2>2. CASE ReleaseRead(p)
    BY <2>2, LiveRowsCover DEF ReleaseRead
  <2>3. CASE ~ClaimReadRows(p) /\ ~ReleaseRead(p)
    BY <2>3, ReserveCases DEF WorkerStep, ClaimLock, ClaimReadSentinel, ClaimReadScheduler,
       BeginFrame, EndFrame, ReleaseWrite, Reject, Forget
  <2> QED BY <2>1, <2>2, <2>3
<1>4. WorkersReserved'
  <2>1. CASE ReleaseWrite(p)
    <3>1. \A q \in Workers : RowOf(q) \in rows[p]
      BY <2>1 DEF ReleaseWrite, Registered, CopiesCover, Reading
    <3>2. \A q \in Workers' : q # p
      BY <2>1 DEF ReleaseWrite, Workers, Shape, TypeOK
    <3> QED BY <1>2, <2>1, <3>1, <3>2 DEF ReleaseWrite, WorkersReserved, RowOf
  <2>2. CASE ~ReleaseWrite(p)
    <3>1. active' = active
      BY <2>2, ReserveCases DEF WorkerStep, ClaimLock, ClaimReadSentinel, ClaimReadScheduler,
         ClaimReadRows, BeginFrame, EndFrame, ReleaseRead, Reject, table
    <3> QED BY <1>2, <3>1 DEF Registered, WorkersReserved
  <2> QED BY <2>1, <2>2
<1> QED BY <1>2, <1>3, <1>4 DEF Registered, CopiesCover

(* A granted claim ends the only critical section there is. *)
LEMMA GrantRegistered ==
  ASSUME Shape, Registered, NEW p \in Pids, Granted(p)
  PROVE  Registered'
<1>1. Workers' \subseteq Workers \cup {p}
  BY DEF Granted, Workers, Shape, TypeOK
<1>2. \A q \in Pids : RowOf(q)' = RowOf(q)
  BY DEF Granted, RowOf
<1>3. \A q \in Workers : RowOf(q) \in rows[p]
  BY DEF Granted, Registered, CopiesCover, Reading
<1>4. WorkersReserved'
  BY <1>1, <1>2, <1>3 DEF Granted, WorkersReserved, Workers
<1>5. lock = p
  BY DEF Granted, Shape, LockOK
<1>6. \A a \in Actors : ~Reading(a)'
  BY <1>5, ActorAssumption DEF Granted, Reading, Shape, TypeOK, LockOK, opvars
<1> QED BY <1>4, <1>6 DEF Registered, CopiesCover

LEMMA OperatorRegistered ==
  ASSUME Shape, Registered, NEW o \in Operators, OperatorStep(o)
  PROVE  Registered'
<1>1. UNCHANGED worker
  BY OperatorKeeps
<1>2. Workers' = Workers /\ \A q \in Pids : RowOf(q)' = RowOf(q)
  BY <1>1 DEF worker, Workers, RowOf
<1>3. \A a \in Actors : Reading(a)' =>
        \/ Reading(a) /\ rows'[a] = rows[a]
        \/ \A q \in Workers : RowOf(q) \in rows'[a]
  <2> USE ActorAssumption DEF Reading, Shape, TypeOK, worker, opvars, table, OpStep
  <2>1. ASSUME NEW n \in Limits, ResumeRead(o, n)
        PROVE  \A a \in Actors : Reading(a)' =>
                 \/ Reading(a) /\ rows'[a] = rows[a]
                 \/ \A q \in Workers : RowOf(q) \in rows'[a]
    BY <2>1, LiveRowsCover DEF ResumeRead
  <2>2. CASE ~\E n \in Limits : ResumeRead(o, n)
    BY <1>1, <2>2 DEF OperatorStep, PauseSentinel, PauseManifest, PauseScheduler, ResumePrune,
       ResumeUnlink, ResumeManifest, ResumeScheduler, OperatorCrash, Forget
  <2> QED BY <2>1, <2>2
<1>4. \A q \in Workers : RowOf(q) \in active'
  <2>1. CASE ResumePrune(o)
    BY <2>1 DEF ResumePrune, Registered, CopiesCover, Reading
  <2>2. CASE ~ResumePrune(o)
    <3>1. active' = active
      BY <2>2 DEF OperatorStep, PauseSentinel, PauseManifest, PauseScheduler, ResumeRead,
         ResumeUnlink, ResumeManifest, ResumeScheduler, OperatorCrash, table
    <3> QED BY <3>1 DEF Registered, WorkersReserved
  <2> QED BY <2>1, <2>2
<1>5. WorkersReserved'
  BY <1>2, <1>4 DEF WorkersReserved, Workers
<1>6. CopiesCover'
  BY <1>2, <1>3 DEF Registered, CopiesCover, Workers
<1> QED BY <1>5, <1>6 DEF Registered

LEMMA RegisteredStep == Shape /\ Registered /\ [Next]_vars => Registered'
<1> SUFFICES ASSUME Shape, Registered, [Next]_vars PROVE Registered'
  OBVIOUS
<1>1. CASE UNCHANGED vars
  BY <1>1 DEF vars, Registered, WorkersReserved, CopiesCover, Workers, RowOf, Reading
<1> QED BY <1>1, ProcessRegistered, WorkerRegistered, GrantRegistered, OperatorRegistered
       DEF Next, ProcessStep

-----------------------------------------------------------------------------
(* One worker per job, and never more than the limits allow. *)

LEMMA ShrinkAdmitted ==
  ASSUME Admitted, Shrinks
  PROVE  Admitted'
<1>1. OneWorkerPerJob'
  BY DEF Admitted, OneWorkerPerJob, Shrinks
<1>2. CapRespected'
  <2> SUFFICES ASSUME NEW S \in SUBSET Workers', S # {}
               PROVE  \E q \in S : Cardinality(S) <= cap'[q]
    BY DEF CapRespected
  <2>1. S \in SUBSET Workers
    BY DEF Shrinks
  <2>2. PICK q \in S : Cardinality(S) <= cap[q]
    BY <2>1 DEF Admitted, CapRespected
  <2> QED BY <2>2 DEF Shrinks
<1> QED BY <1>1, <1>2 DEF Admitted

(* The rows the claim counted name every worker, so there are no more      *)
(* workers than rows.                                                      *)
LEMMA WorkersFitRows ==
  ASSUME Shape, Registered, NEW p \in Pids, pc[p] = "counted"
  PROVE  /\ IsFiniteSet(Workers)
         /\ Cardinality(Workers) \in Nat
         /\ Cardinality(rows[p]) \in Nat
         /\ Cardinality(Workers) <= Cardinality(rows[p])
<1> DEFINE f == [q \in Workers |-> RowOf(q)]
<1>1. \A q \in Workers : RowOf(q) \in rows[p]
  BY DEF Registered, CopiesCover, Reading
<1>2. f \in Injection(Workers, rows[p])
  <2>1. f \in [Workers -> rows[p]]
    BY <1>1
  <2>2. \A q, r \in Workers : f[q] = f[r] => q = r
    BY DEF RowOf
  <2> QED BY <2>1, <2>2, Fun_IsInj
<1>3. IsFiniteSet(rows[p])
  BY DEF Shape, RowsOK
<1> HIDE DEF f
<1> QED BY <1>2, <1>3, FS_Injection, FS_CardinalityType

LEMMA GrantAdmitted ==
  ASSUME QueueInv, NEW p \in Pids, Granted(p)
  PROVE  Admitted'
<1> USE DEF QueueInv
<1>1. Workers' = Workers \cup {p} /\ p \notin Workers
  BY DEF Granted, Workers, Shape, TypeOK
<1>2. \A q \in Workers' : job'[q] = job[q] /\ cap'[q] = cap[q]
  BY DEF Granted
<1>3. OneWorkerPerJob'
  <2>1. \A q \in Workers : RowOf(q) \in rows[p]
    BY DEF Granted, Registered, CopiesCover, Reading
  <2>2. \A q \in Workers : job[q] # job[p]
    BY <2>1 DEF Granted, JobTaken, RowOf
  <2> QED BY <1>1, <1>2, <2>2 DEF Admitted, OneWorkerPerJob
<1>4. CapRespected'
  <2> SUFFICES ASSUME NEW S \in SUBSET Workers', S # {}
               PROVE  \E q \in S : Cardinality(S) <= cap'[q]
    BY DEF CapRespected
  <2>1. CASE p \notin S
    <3>1. PICK q \in S : Cardinality(S) <= cap[q]
      BY <1>1, <2>1 DEF Admitted, CapRespected
    <3> QED BY <1>2, <3>1
  <2>2. CASE p \in S
    <3>1. pc[p] = "counted" /\ ~(Cardinality(rows[p]) >= cap[p]) /\ cap[p] \in Nat
      BY LimitAssumption DEF Granted, Full, Shape, CapOK
    <3>2. Cardinality(Workers) + 1 <= cap[p]
      BY <3>1, WorkersFitRows
    <3>3. /\ IsFiniteSet(Workers')
          /\ Cardinality(Workers') = Cardinality(Workers) + 1
      BY <1>1, <3>1, WorkersFitRows, FS_AddElement
    <3>4. Cardinality(S) <= Cardinality(Workers') /\ Cardinality(S) \in Nat
      BY <3>3, FS_Subset, FS_CardinalityType
    <3>5. Cardinality(S) <= cap[p]
      BY <3>1, <3>2, <3>3, <3>4, WorkersFitRows
    <3> QED BY <1>1, <1>2, <2>2, <3>5
  <2> QED BY <2>1, <2>2
<1> QED BY <1>3, <1>4 DEF Admitted

LEMMA AdmittedStep == QueueInv /\ [Next]_vars => Admitted'
<1> SUFFICES ASSUME QueueInv, [Next]_vars PROVE Admitted'
  OBVIOUS
<1> USE DEF QueueInv
<1>1. CASE UNCHANGED worker
  <2>1. Shrinks
    BY <1>1 DEF worker, Shrinks, Workers
  <2> QED BY <2>1, ShrinkAdmitted
<1>2. ASSUME NEW p \in Pids, WorkerStep(p) PROVE Admitted'
  BY <1>2, WorkerShrinks, ShrinkAdmitted, GrantAdmitted
<1>3. ASSUME NEW p \in Pids, ProcessStep(p) PROVE Admitted'
  BY <1>3, ProcessShrinks, ShrinkAdmitted
<1>4. ASSUME NEW o \in Operators, OperatorStep(o) PROVE Admitted'
  BY <1>1, <1>4, OperatorKeeps
<1>5. CASE UNCHANGED vars
  BY <1>1, <1>5 DEF vars, worker
<1> QED BY <1>2, <1>3, <1>4, <1>5 DEF Next, ProcessStep

-----------------------------------------------------------------------------
(* QueueInv holds throughout: the inductive invariant of the queue files,  *)
(* the flock and the worker processes.                                     *)
THEOREM QueueInvariant == Spec => []QueueInv
<1>1. QueueInv /\ [Next]_vars => QueueInv'
  BY ShapeStep, RegisteredStep, AdmittedStep DEF QueueInv
<1> QED BY InitInv, <1>1, PTL DEF Spec

(* Every variable keeps its type: pause, resume, claim, release, process   *)
(* deaths and crashes of operator commands write only values the readers   *)
(* of the four control files understand.                                   *)
THEOREM TypeCorrect == Spec => []TypeOK
<1>1. QueueInv => TypeOK
  BY DEF QueueInv, Shape
<1> QED BY QueueInvariant, <1>1, PTL

(* No interleaving of claims, releases, prunes, kills, reused process ids  *)
(* and operator commands loses the reservation of a running worker.        *)
THEOREM ReservationsKept == Spec => []WorkersReserved
<1>1. QueueInv => WorkersReserved
  BY DEF QueueInv, Registered
<1> QED BY QueueInvariant, <1>1, PTL

(* claim_final_job never lets two live processes refine the same job. *)
THEOREM JobExclusion == Spec => []OneWorkerPerJob
<1>1. QueueInv => OneWorkerPerJob
  BY DEF QueueInv, Admitted
<1> QED BY QueueInvariant, <1>1, PTL

(* Workers that run together were admitted under a limit that covers them. *)
THEOREM CapHolds == Spec => []CapRespected
<1>1. QueueInv => CapRespected
  BY DEF QueueInv, Admitted
<1> QED BY QueueInvariant, <1>1, PTL

-----------------------------------------------------------------------------
(* Refinement: the queue is a bounded pool of slots. *)

(* A step of process p that leaves p alone leaves the pool alone; one that *)
(* loses worker p drops p's slot.                                          *)
LEMMA PoolStep ==
  ASSUME Shape, NEW p \in Pids,
         \A q \in Pids \ {p} : (q \in Workers' <=> q \in Workers) /\ job'[q] = job[q],
         p \in Workers' => p \in Workers /\ job'[p] = job[p]
  PROVE  [Slots!Next]_Held
<1> USE DEF Held, RowOf
<1>0. Workers \subseteq Pids /\ Workers' \subseteq Pids
  BY DEF Workers
<1>1. CASE p \in Workers' \/ p \notin Workers
  <2>1. Workers' = Workers
    BY <1>0, <1>1
  <2>2. Held' = Held
    BY <1>0, <2>1
  <2> QED BY <2>2
<1>2. CASE p \notin Workers' /\ p \in Workers
  <2>1. Workers' = Workers \ {p}
    BY <1>0, <1>2
  <2>2. Held' = Held \ {RowOf(p)}
    BY <1>0, <2>1
  <2> QED BY <1>2, <2>2 DEF Slots!Next, Slots!Drop
<1> QED BY <1>1, <1>2

LEMMA GrantRefines ==
  ASSUME QueueInv, NEW p \in Pids, Granted(p)
  PROVE  Slots!Grant(p, job[p])
<1> USE DEF QueueInv
<1>1. Workers' = Workers \cup {p} /\ p \notin Workers
  BY DEF Granted, Workers, Shape, TypeOK
<1>2. Held' = Held \cup {[job |-> job[p], pid |-> p]}
  BY <1>1 DEF Held, RowOf, Granted
<1>3. Held \in SUBSET rows[p]
  BY DEF Held, Granted, Registered, CopiesCover, Reading
<1>4. \A h \in Held : h.pid # p /\ h.job # job[p]
  BY <1>1, <1>3 DEF Held, Granted, JobTaken, RowOf
<1>5. Cardinality(Held) < MaxLimit
  <2>1. /\ Cardinality(rows[p]) \in Nat
        /\ Cardinality(Held) \in Nat
        /\ Cardinality(Held) <= Cardinality(rows[p])
    BY <1>3, FS_Subset, FS_CardinalityType DEF Shape, RowsOK
  <2>2. cap[p] \in Limits /\ ~(Cardinality(rows[p]) >= cap[p])
    BY DEF Shape, CapOK, Granted, Full
  <2> QED BY <2>1, <2>2, LimitAssumption
<1> QED BY <1>2, <1>4, <1>5 DEF Slots!Grant, Slots!Cardinality, Cardinality

LEMMA StepRefines == QueueInv /\ [Next]_vars => [Slots!Next]_Held
<1> SUFFICES ASSUME QueueInv, [Next]_vars PROVE [Slots!Next]_Held
  OBVIOUS
<1> USE DEF QueueInv, Shape, TypeOK
<1>1. CASE UNCHANGED worker
  BY <1>1 DEF worker, Held, RowOf, Workers
<1>2. ASSUME NEW p \in Pids, WorkerStep(p) PROVE [Slots!Next]_Held
  <2>1. CASE Granted(p)
    <3>1. job[p] \in Jobs
      BY <2>1 DEF Granted, JobOK
    <3> QED BY <2>1, <3>1, GrantRefines DEF Slots!Next
  <2>2. CASE ~Granted(p)
    <3>1. \A q \in Pids \ {p} : (q \in Workers' <=> q \in Workers) /\ job'[q] = job[q]
      BY <1>2, ReserveCases DEF WorkerStep, Workers, ClaimLock, ClaimReadSentinel,
         ClaimReadScheduler, ClaimReadRows, Granted, Reject, BeginFrame, EndFrame,
         ReleaseRead, ReleaseWrite
    <3>2. p \in Workers' => p \in Workers /\ job'[p] = job[p]
      BY <1>2, <2>2, WorkerShrinks DEF Shrinks
    <3> QED BY <3>1, <3>2, PoolStep
  <2> QED BY <2>1, <2>2
<1>3. ASSUME NEW p \in Pids, ProcessStep(p) PROVE [Slots!Next]_Held
  <2>1. \A q \in Pids \ {p} : (q \in Workers' <=> q \in Workers) /\ job'[q] = job[q]
    BY <1>3 DEF ProcessStep, Launch, Reuse, Die, CheckAllowed, Workers
  <2>2. p \in Workers' => p \in Workers /\ job'[p] = job[p]
    BY <1>3, ProcessShrinks DEF Shrinks
  <2> QED BY <2>1, <2>2, PoolStep
<1>4. ASSUME NEW o \in Operators, OperatorStep(o) PROVE [Slots!Next]_Held
  BY <1>1, <1>4, OperatorKeeps
<1>5. CASE UNCHANGED vars
  BY <1>1, <1>5 DEF vars, worker
<1> QED BY <1>2, <1>3, <1>4, <1>5 DEF Next, ProcessStep

(* The four files, the flock and the pid test implement SlotPool: a slot is*)
(* granted only when the job and the process are free and fewer than       *)
(* MaxLimit are taken, and given back one at a time.                       *)
THEOREM QueueRefinesSlotPool == Spec => ImplementsSlotPool
<1>1. Init => Slots!Init
  BY DEF Init, Slots!Init, Held, Workers
<1>2. QueueInv /\ [Next]_vars => [Slots!Next]_Held
  BY StepRefines
<1> QED BY QueueInvariant, <1>1, <1>2, PTL DEF Spec, ImplementsSlotPool, Slots!Spec

(* What the pool does is done to the slot of one job. *)
LEMMA SlotStep ==
  ASSUME [Slots!Next]_Held, NEW j \in Jobs
  PROVE  JobSlot(j)!Next \/ UNCHANGED HeldOf(j)
<1>1. CASE UNCHANGED Held
  BY <1>1 DEF HeldOf
<1>2. ASSUME NEW p \in Pids, NEW k \in Jobs, Slots!Grant(p, k)
      PROVE  JobSlot(j)!Next \/ UNCHANGED HeldOf(j)
  <2>1. /\ \A h \in Held : h.pid # p /\ h.job # k
        /\ Held' = Held \cup {[job |-> k, pid |-> p]}
    BY <1>2 DEF Slots!Grant
  <2>2. CASE k = j
    <3>1. HeldOf(j) = {} /\ HeldOf(j)' = {[job |-> j, pid |-> p]}
      BY <2>1, <2>2 DEF HeldOf
    <3>2. Cardinality(HeldOf(j)) = 0
      BY <3>1, FS_EmptySet
    <3>3. JobSlot(j)!Grant(p, j)
      BY <3>1, <3>2 DEF JobSlot!Grant, JobSlot!Cardinality, Cardinality
    <3> QED BY <3>3 DEF JobSlot!Next
  <2>3. CASE k # j
    BY <2>1, <2>3 DEF HeldOf
  <2> QED BY <2>2, <2>3
<1>3. ASSUME NEW g \in Held, Slots!Drop(g)
      PROVE  JobSlot(j)!Next \/ UNCHANGED HeldOf(j)
  <2>1. HeldOf(j)' = HeldOf(j) \ {g}
    BY <1>3 DEF Slots!Drop, HeldOf
  <2>2. CASE g \in HeldOf(j)
    BY <2>1, <2>2 DEF JobSlot!Next, JobSlot!Drop
  <2>3. CASE g \notin HeldOf(j)
    BY <2>1, <2>3
  <2> QED BY <2>2, <2>3
<1> QED BY <1>1, <1>2, <1>3 DEF Slots!Next

(* For each job the queue is the single slot that Stage12Run composes with *)
(* its workers and sessions.                                               *)
THEOREM QueueRefinesJobSlots == Spec => ImplementsJobSlots
<1>1. Init => \A j \in Jobs : JobSlot(j)!Init
  BY DEF Init, JobSlot!Init, HeldOf, Held, Workers
<1>2. QueueInv /\ [Next]_vars =>
        [\A j \in Jobs : JobSlot(j)!Next \/ UNCHANGED HeldOf(j)]_Held
  BY StepRefines, SlotStep
<1> QED BY QueueInvariant, <1>1, <1>2, PTL DEF Spec, ImplementsJobSlots

-----------------------------------------------------------------------------
(* The queue is opened on a quiet machine.  A resume has found no live row *)
(* under the flock, hence no worker and, nobody else being in the section, *)
(* no claim; what has come since stops at the sentinel or at the scheduler *)
(* as long as one of them is closed.                                       *)
OneOperator == \A o, p \in Operators : o = p

Cleared(o) == opPc[o] \in {"resume_unlink", "resume_manifest", "resume_scheduler"}
QuietInv ==
  \A o \in Operators : Cleared(o) =>
    /\ ~scheduler.allowed => Busy = {}
    /\ opPc[o] = "resume_unlink" /\ sentinel =>
         Busy = {} /\ \A p \in Pids : pc[p] # "unpaused"
    /\ opPc[o] # "resume_unlink" => ~sentinel

LEMMA QuietProcess ==
  ASSUME TypeOK, QuietInv, NEW p \in Pids, ProcessStep(p) PROVE QuietInv'
BY DEF TypeOK, QuietInv, Cleared, Busy, ProcessStep, Launch, Reuse, Die, CheckAllowed, control, opvars

LEMMA QuietWorker ==
  ASSUME TypeOK, QuietInv, NEW p \in Pids, WorkerStep(p) PROVE QuietInv'
<1>1. UNCHANGED <<control, opvars>> /\ \A q \in Pids \ {p} : pc'[q] = pc[q]
  BY DEF TypeOK, WorkerStep, ClaimLock, ClaimReadSentinel, ClaimReadScheduler, ClaimReadRows,
         ClaimReserve, Reject, BeginFrame, EndFrame, ReleaseRead, ReleaseWrite
<1>2. p \in Busy' => p \in Busy \/ (pc[p] = "unpaused" /\ scheduler.allowed)
  BY DEF TypeOK, Busy, WorkerStep, ClaimLock, ClaimReadSentinel, ClaimReadScheduler,
         ClaimReadRows, ClaimReserve, Reject, BeginFrame, EndFrame, ReleaseRead, ReleaseWrite
<1>3. pc'[p] = "unpaused" => pc[p] = "unpaused" \/ ~sentinel
  BY DEF TypeOK, WorkerStep, ClaimLock, ClaimReadSentinel, ClaimReadScheduler, ClaimReadRows,
         ClaimReserve, Reject, BeginFrame, EndFrame, ReleaseRead, ReleaseWrite
<1>4. Busy' \subseteq Busy \cup {p}
  BY <1>1 DEF Busy
<1> QED BY <1>1, <1>2, <1>3, <1>4 DEF QuietInv, Cleared, control, opvars

LEMMA QuietOperator ==
  ASSUME QueueInv, QuietInv, OneOperator, NEW o \in Operators, OperatorStep(o) PROVE QuietInv'
<1> USE DEF QueueInv, Shape, TypeOK
<1>1. pc' = pc /\ Busy' = Busy
  BY OperatorKeeps DEF Busy, worker
<1>2. \A q \in Operators : q = o
  BY DEF OneOperator
<1>3. CASE ResumePrune(o)
  <2>1. \A p \in Pids : pc[p] \notin Claiming \cup {"returning"}
    BY <1>3, ActorAssumption DEF ResumePrune, LockOK
  <2>2. ASSUME rows[o] = {} PROVE Workers = {}
    BY <1>3, <2>2 DEF ResumePrune, Registered, CopiesCover, Reading
  <2>3. rows[o] = {} => Busy = {}
    BY <2>1, <2>2 DEF Busy, Workers
  <2>4. opPc'[o] = "resume_unlink" \/ opPc'[o] = "idle"
    BY <1>3 DEF ResumePrune
  <2>5. opPc'[o] = "resume_unlink" => rows[o] = {}
    BY <1>3 DEF ResumePrune
  <2> QED BY <1>1, <1>2, <2>1, <2>3, <2>4, <2>5 DEF QuietInv, Cleared
<1>4. CASE ~ResumePrune(o)
  BY <1>1, <1>2, <1>4
     DEF QuietInv, Cleared, OperatorStep, OpStep, PauseSentinel, PauseManifest, PauseScheduler,
         ResumeRead, ResumeUnlink, ResumeManifest, ResumeScheduler, OperatorCrash, control
<1> QED BY <1>3, <1>4

LEMMA QuietStep == ASSUME QueueInv, QuietInv, OneOperator, [Next]_vars PROVE QuietInv'
<1>1. TypeOK
  BY DEF QueueInv, Shape
<1>2. CASE UNCHANGED vars
  BY <1>2 DEF vars, QuietInv, Cleared, Busy
<1> QED BY <1>1, <1>2, QuietProcess, QuietWorker, QuietOperator DEF Next, ProcessStep

(* Where operator commands are not run at the same time, a resume makes    *)
(* claims possible again only when nobody of an earlier opening works,     *)
(* whatever crashed before.                                                *)
THEOREM QueueOpensQuiet ==
  ASSUME OneOperator PROVE Spec => OpensQuiet
<1>1. Init => QuietInv
  BY DEF Init, QuietInv, Cleared
<1>2. QueueInv /\ QuietInv /\ [Next]_vars => QuietInv'
  BY QuietStep
<1>3. QueueInv /\ QuietInv /\ [Next]_vars => [~Open /\ Open' => Busy = {}]_vars
  <2> SUFFICES ASSUME QueueInv, QuietInv, Next, ~Open, Open' PROVE Busy = {}
    OBVIOUS
  <2> USE DEF QueueInv, Shape, TypeOK, Open
  <2>1. ASSUME NEW p \in Pids, WorkerStep(p) PROVE FALSE
    BY <2>1 DEF WorkerStep, ClaimLock, ClaimReadSentinel, ClaimReadScheduler, ClaimReadRows,
           ClaimReserve, Reject, BeginFrame, EndFrame, ReleaseRead, ReleaseWrite, control
  <2>2. ASSUME NEW p \in Pids, ProcessStep(p) PROVE FALSE
    BY <2>2 DEF ProcessStep, Launch, Reuse, Die, CheckAllowed, control
  <2>3. ASSUME NEW o \in Operators, OperatorStep(o) PROVE Busy = {}
    BY <2>3 DEF QuietInv, Cleared, OperatorStep, OpStep, PauseSentinel, PauseManifest,
           PauseScheduler, ResumeRead, ResumePrune, ResumeUnlink, ResumeManifest,
           ResumeScheduler, OperatorCrash, control
  <2> QED BY <2>1, <2>2, <2>3 DEF Next, ProcessStep
<1> QED BY QueueInvariant, <1>1, <1>2, <1>3, PTL DEF Spec, OpensQuiet

-----------------------------------------------------------------------------
(* Slots are not leaked, as long as a process id that a row names is not   *)
(* given away.  Only the holder of the flock writes active_jobs.json, so   *)
(* what it has read still bounds what is there.                            *)

CopiesAreRows == \A a \in Actors : Reading(a) => rows[a] \subseteq active
NoLeak == RowsAreWorkers /\ CopiesAreRows

(* A step of p that adds no row, and keeps p a worker on its job if a row  *)
(* names it, leaks nothing.                                                *)
LEMMA NamedRows ==
  ASSUME RowsAreWorkers, NEW p \in Pids, active' \subseteq active, Shape,
         \A q \in Pids \ {p} : pc'[q] = pc[q] /\ job'[q] = job[q],
         \A r \in active' : r.pid = p /\ pc'[p] # "none" =>
           pc[p] # "none" /\ (pc[p] \in Running => pc'[p] \in Running /\ job'[p] = job[p])
  PROVE  RowsAreWorkers'
<1> SUFFICES ASSUME NEW r \in active', pc'[r.pid] \notin NoProcess
             PROVE  pc'[r.pid] \in Running /\ r.job = job'[r.pid] /\ r.pid \in Pids
  BY DEF RowsAreWorkers, LiveRows, Alive, Workers
<1>1. r \in active /\ r.pid \in Pids
  BY DEF Shape, TypeOK, Row
<1>2. pc[r.pid] \notin NoProcess
  BY <1>1
<1>3. pc[r.pid] \in Running /\ r.job = job[r.pid]
  BY <1>1, <1>2 DEF RowsAreWorkers, LiveRows, Alive, Workers
<1> QED BY <1>1, <1>3

LEMMA ProcessNoLeak ==
  ASSUME Shape, NoLeak, ~PidReuse, NEW p \in Pids, ProcessStep(p)
  PROVE  NoLeak'
<1>1. active' = active
  BY DEF ProcessStep, Launch, Reuse, Die, CheckAllowed, table
<1>2. \A a \in Actors : Reading(a)' => Reading(a) /\ rows'[a] = rows[a]
  BY ActorAssumption DEF ProcessStep, Launch, Reuse, FreeId, Die, CheckAllowed, Forget, Reading,
     table, opvars, Shape, TypeOK
<1>3. \A q \in Pids \ {p} : pc'[q] = pc[q] /\ job'[q] = job[q]
  BY DEF ProcessStep, Launch, Reuse, Die, CheckAllowed, Shape, TypeOK
<1>4. \A r \in active' : r.pid = p /\ pc'[p] # "none" =>
        pc[p] # "none" /\ (pc[p] \in Running => pc'[p] \in Running /\ job'[p] = job[p])
  BY <1>1 DEF ProcessStep, Launch, Reuse, FreeId, Die, CheckAllowed, Shape, TypeOK
<1>5. RowsAreWorkers'
  BY <1>1, <1>3, <1>4, NamedRows DEF NoLeak
<1> QED BY <1>1, <1>2, <1>5 DEF NoLeak, CopiesAreRows

LEMMA GrantNoLeak ==
  ASSUME Shape, NoLeak, NEW p \in Pids, Granted(p)
  PROVE  NoLeak'
<1>1. active' = rows[p] \cup {RowOf(p)} /\ pc' = [pc EXCEPT ![p] = "boundary"] /\ job' = job
  BY DEF Granted
<1>2. rows[p] \subseteq active
  BY DEF Granted, NoLeak, CopiesAreRows, Reading
<1>3. pc[p] = "counted" /\ pc'[p] = "boundary" /\ job[p] \in Jobs
  BY DEF Granted, Shape, TypeOK, JobOK
<1>4. RowsAreWorkers'
  <2> SUFFICES ASSUME NEW r \in active', pc'[r.pid] \notin NoProcess
               PROVE  pc'[r.pid] \in Running /\ r.job = job'[r.pid] /\ r.pid \in Pids
    BY DEF RowsAreWorkers, LiveRows, Alive, Workers
  <2>1. CASE r = RowOf(p)
    BY <1>1, <1>3, <2>1 DEF RowOf
  <2>2. CASE r # RowOf(p)
    <3>1. r \in active /\ r.pid \in Pids
      BY <1>1, <1>2, <2>2 DEF Shape, TypeOK, Row
    <3>2. pc[r.pid] \notin NoProcess
      BY <1>1, <1>3, <3>1 DEF Shape, TypeOK
    <3>3. pc[r.pid] \in Running /\ r.job = job[r.pid]
      BY <3>1, <3>2 DEF NoLeak, RowsAreWorkers, LiveRows, Alive, Workers
    <3> QED BY <1>1, <1>3, <3>1, <3>3 DEF Shape, TypeOK
  <2> QED BY <2>1, <2>2
<1>5. lock = p
  BY DEF Granted, Shape, LockOK
<1>6. \A a \in Actors : ~Reading(a)'
  BY <1>5, ActorAssumption DEF Granted, Reading, Shape, TypeOK, LockOK, opvars
<1> QED BY <1>4, <1>6 DEF NoLeak, CopiesAreRows

(* The row of p is removed before p takes another job. *)
LEMMA ReleaseNoLeak ==
  ASSUME Shape, NoLeak, NEW p \in Pids, ReleaseWrite(p)
  PROVE  NoLeak'
<1>1. pc[p] = "returning" /\ active' = rows[p] \ {RowOf(p)} /\ rows[p] \subseteq active
  BY DEF ReleaseWrite, NoLeak, CopiesAreRows, Reading
<1>2. \A r \in active' : r.pid # p
  <2> SUFFICES ASSUME NEW r \in active', r.pid = p PROVE FALSE
    OBVIOUS
  <2>1. r.job = job[p]
    BY <1>1 DEF NoLeak, RowsAreWorkers, LiveRows, Alive
  <2>2. r = RowOf(p)
    BY <1>1, <2>1 DEF RowOf, Row, Shape, TypeOK
  <2> QED BY <1>1, <2>2
<1>3. \A q \in Pids \ {p} : pc'[q] = pc[q] /\ job'[q] = job[q]
  BY DEF ReleaseWrite, Shape, TypeOK
<1>4. RowsAreWorkers'
  BY <1>1, <1>2, <1>3, NamedRows DEF NoLeak
<1>5. lock = p
  BY <1>1 DEF Shape, LockOK
<1>6. \A a \in Actors : ~Reading(a)'
  BY <1>5, ActorAssumption DEF ReleaseWrite, Reading, Shape, TypeOK, LockOK, opvars
<1> QED BY <1>4, <1>6 DEF NoLeak, CopiesAreRows

LEMMA WorkerNoLeak ==
  ASSUME Shape, NoLeak, NEW p \in Pids, WorkerStep(p), ~Granted(p), ~ReleaseWrite(p)
  PROVE  NoLeak'
<1>1. active' = active
  BY ReserveCases DEF WorkerStep, ClaimLock, ClaimReadSentinel, ClaimReadScheduler,
     ClaimReadRows, BeginFrame, EndFrame, ReleaseRead, Reject, table
<1>2. \A q \in Pids \ {p} : pc'[q] = pc[q] /\ job'[q] = job[q]
  BY ReserveCases DEF WorkerStep, ClaimLock, ClaimReadSentinel, ClaimReadScheduler,
     ClaimReadRows, BeginFrame, EndFrame, ReleaseRead, Reject, Shape, TypeOK
<1>3. pc[p] # "none" /\ (pc[p] \in Running => pc'[p] \in Running /\ job'[p] = job[p])
  BY DEF WorkerStep, ClaimLock, ClaimReadSentinel, ClaimReadScheduler, ClaimReadRows,
     ClaimReserve, BeginFrame, EndFrame, ReleaseRead, Shape, TypeOK
<1>4. RowsAreWorkers'
  BY <1>1, <1>2, <1>3, NamedRows DEF NoLeak
<1>5. \A a \in Actors : Reading(a)' => (Reading(a) /\ rows'[a] = rows[a]) \/ rows'[a] \subseteq active
  <2> USE ActorAssumption DEF Reading, Shape, TypeOK, opvars, table
  <2>1. CASE ClaimReadRows(p)
    BY <2>1 DEF ClaimReadRows, LiveRows
  <2>2. CASE ReleaseRead(p)
    BY <2>2 DEF ReleaseRead
  <2>3. CASE ~ClaimReadRows(p) /\ ~ReleaseRead(p)
    BY <2>3, ReserveCases DEF WorkerStep, ClaimLock, ClaimReadSentinel, ClaimReadScheduler,
       BeginFrame, EndFrame, Reject, Forget
  <2> QED BY <2>1, <2>2, <2>3
<1> QED BY <1>1, <1>4, <1>5 DEF NoLeak, CopiesAreRows

LEMMA OperatorNoLeak ==
  ASSUME Shape, NoLeak, NEW o \in Operators, OperatorStep(o)
  PROVE  NoLeak'
<1>1. UNCHANGED worker
  BY OperatorKeeps
<1>2. \A a \in Actors : Reading(a)' =>
        /\ (Reading(a) /\ rows'[a] = rows[a]) \/ rows'[a] \subseteq active
        /\ ~ResumePrune(o)
  <2> USE ActorAssumption DEF Reading, Shape, TypeOK, LockOK, worker, opvars, table, OpStep
  <2>1. ASSUME NEW n \in Limits, ResumeRead(o, n)
        PROVE  \A a \in Actors : Reading(a)' =>
                 /\ (Reading(a) /\ rows'[a] = rows[a]) \/ rows'[a] \subseteq active
                 /\ ~ResumePrune(o)
    BY <2>1 DEF ResumeRead, ResumePrune, LiveRows
  <2>2. CASE ResumePrune(o)
    <3>1. lock = o
      BY <2>2 DEF ResumePrune
    <3> QED BY <1>1, <2>2, <3>1 DEF ResumePrune
  <2>3. CASE ~ResumePrune(o) /\ ~\E n \in Limits : ResumeRead(o, n)
    BY <1>1, <2>3 DEF OperatorStep, PauseSentinel, PauseManifest, PauseScheduler,
       ResumeUnlink, ResumeManifest, ResumeScheduler, OperatorCrash, Forget
  <2> QED BY <2>1, <2>2, <2>3
<1>3. active' \subseteq active /\ (active' # active => ResumePrune(o))
  BY DEF OperatorStep, PauseSentinel, PauseManifest, PauseScheduler, ResumeRead, ResumePrune,
     ResumeUnlink, ResumeManifest, ResumeScheduler, OperatorCrash, table, NoLeak, CopiesAreRows,
     Reading
<1>4. RowsAreWorkers'
  BY <1>1, <1>3 DEF NoLeak, RowsAreWorkers, LiveRows, Alive, Workers, worker
<1> QED BY <1>2, <1>3, <1>4 DEF NoLeak, CopiesAreRows

(* A row whose process is alive is that process's reservation of the job   *)
(* it is on: release_final_job and the prunes leave no slot behind, and a  *)
(* crash only until its process id is found dead.                          *)
THEOREM NoSlotLeaks ==
  ASSUME ~PidReuse
  PROVE  Spec => []RowsAreWorkers
<1>1. Init => NoLeak
  BY DEF Init, NoLeak, RowsAreWorkers, LiveRows, CopiesAreRows, Reading
<1>2. Shape /\ NoLeak /\ [Next]_vars => NoLeak'
  <2> SUFFICES ASSUME Shape, NoLeak, [Next]_vars PROVE NoLeak'
    OBVIOUS
  <2>1. CASE UNCHANGED vars
    BY <2>1 DEF vars, NoLeak, RowsAreWorkers, LiveRows, Alive, Workers, CopiesAreRows, Reading
  <2> QED BY <2>1, ProcessNoLeak, GrantNoLeak, ReleaseNoLeak, WorkerNoLeak, OperatorNoLeak
         DEF Next, ProcessStep
<1>3. QueueInv => Shape
  BY DEF QueueInv
<1>4. NoLeak => RowsAreWorkers
  BY DEF NoLeak
<1> QED BY <1>1, <1>2, <1>3, <1>4, QueueInvariant, PTL DEF Spec
=============================================================================
