# Specifications of TopoRetarget

This directory keeps the TLA+ specifications of TopoRetarget beside its code: the modules, the TLC configurations that
check them on small instances, and the proofs that hold for every instance. Paths below are relative to the repository
(`src/...` in `PROJECT.json` is the repository root).

## The system

TopoRetarget turns recorded hand-object motion into robot-hand motion. It is an offline pipeline:

    dataset adapters -> canonical HOI -> keypoints -> warm start -> interaction graph
       -> refinement of every frame (SLSQP, one checkpoint per frame) -> assembled trajectory -> validation, export

Around it stand programs that keep state on disk and run for hours: a queue for the expensive final jobs, a resumable
workflow, a frozen benchmark, an acceptance gate, and the RL stages with their bounded recovery ledgers. That is where
orders, crashes and stale files matter, and what these specifications are about. The numerical code (least squares,
SLSQP, signed distances, meshes) is data here: a solve is a payload, accepted or rejected.

### Components

| component | state it keeps | operations | correct when |
|---|---|---|---|
| Final-job queue (`retarget/final_jobs.py`, `cli/jobs.py`) | `PAUSED`, `pause_manifest.json`, `scheduler_state.json`, `active_jobs.json`, an flock | claim, release, pause, resume, frame-boundary check | no job twice, worker cap, no lost reservation, a pause drains, a closed queue opens only when nobody works |
| Frame checkpoints (`retarget/refinement_checkpoint.py`, `cli/retarget.py`) | run root: `manifest.json`, `progress.json`, `frames/*.npz` linked by hash; the assembled trajectory | open, scan, validate, solve, save, gate, pause, assemble | the chain is one temporal sequence, committed frames never change, "complete" is true, resumes finish |
| Stage-12 worker (`scripts/stage12_dataset_validation.py`) | a reservation, what it read of `progress.json` and the artifact, the clip's report | look, claim, refine, assemble, report, release | one session of a root at a time, a published artifact stays, a pass is published, the slot comes back |
| Workflow executor (`workflows/executor.py`, `cache.py`, `registry.py`, `planning.py`) | run root: a cache record and outputs per node, `status.json` | plan, skip, reuse, run, validate, record, fail, resume | a run that gets through has whole outputs, none behind the profiles that are hashed for it or the output before it; forcing rebuilds |
| Frame refinement (`retarget/final_refinement.py`) | active query set, attempts of a frame, previous result | solve, audit, expand, retry, recover, accept | an accepted frame passed every gate; the set only grows; retries are bounded |
| Recovery ledgers (`rl/state_machine.py`, `rl/environments/isaaclab_backend/recovery_state_machine.py`, `rl/physics_retargeting/recovery.py`) | counters, transitions, a JSONL log | record, switch, transition, validate, block, reload | budgets survive a reload; a blocked stage stays blocked |
| Benchmark (`benchmark/selection.py`, `benchmark/runner.py`) | frozen manifest, per-item results | freeze, verify, run, reuse | nothing is run that was not frozen |
| Gate and accepted run (`workflows/gate.py`, `workflows/accepted_run.py`) | acceptance file, accepted-run manifest | evaluate, accept, create, resume | only an accepted run is continued |
| GRAB suite (`workflows/grab_suite.py`) | `selection_manifest.json`, `selection.lock`, a record and a final artifact per clip | select, lock, refine clip after clip, judge, report | a locked selection stays, a run ends, comes back to no clip, and passes a clip on an artifact of its selection (it does not: `grab_suite_foreign`) |
| Shadow equivalence, quality orchestrator | per-stage reports, a checkpoint file | run, resume, compare | batches resume without repeating or losing an item |
| Warm start, graphs, geometry, adapters, reports, RL training | artifacts and reports | pure computation and I/O | outside a model checker's reach |

How they interact: a Stage-12 worker claims a slot of the queue, starts a checkpoint session and releases the slot; the
queue is what keeps two sessions of one root apart: Stage12Run composes the three and shows that they implement
CheckpointRun with `Exclusive`, which CheckpointRun by itself assumes. The suite starts the same sessions without a
reservation, as processes of its own in roots of its own.
For each job FinalJobs implements the single slot that Stage12Run takes it for (`ImplementsJobSlots`).
The session polls the queue's sentinel before every frame (`Pause` of CheckpointRun, `BeginFrame` of FinalJobs). The
session calls the refinement of one frame (`Solve` of CheckpointRun is what FrameRefinement models in detail).
The workflow executor runs the pipeline stages as subprocesses and reads only their outputs.

The hard behaviours, at their lines, are the `hazards` of `PROJECT.json`: read-modify-write of shared JSON files, kills
between two file writes, reused process ids, orphan frames, cached outputs whose inputs changed, retries of a solve.

## Modules

| module | what it is |
|---|---|
| `SlotPool` | abstract: a bounded set of held slots |
| `FinalJobs` | the queue: one action per file access of claim, release, pause, resume |
| `FinalJobsProofs` | type correctness, safety and the refinement of SlotPool |
| `FrameLog` | abstract: a write-once log of frames and a published copy of a full one |
| `CheckpointRun` | sessions and assemblies of one checkpoint root |
| `CheckpointProofs` | type correctness, safety and the refinement of FrameLog |
| `Workflow` | runs and resumed runs of one workflow root |
| `WorkflowProofs` | type correctness and safety |
| `Stage12Run` | workers on one clip: the queue's reservations (SlotPool) composed with CheckpointRun |
| `Stage12Proofs` | type correctness, safety and the refinement of CheckpointRun with exclusive sessions |
| `GrabSuite` | runs of the GRAB suite, its lock and its sessions |
| `GrabSuiteProofs` | type correctness and safety |
| `RecoveryLedger` | sessions of one Stage-16 recovery log |
| `RecoveryLedgerProofs` | type correctness, and that every repair on disk counts |
| `FrameRefinement` | one call of `build_final_trajectory`: the active-set loop and the ladder of attempts |
| `FrameCall` | abstract: what a call of `build_final_trajectory` promises its caller |
| `FrameRefinementProofs` | type correctness, safety, action properties and the refinement of FrameCall |
| `MCFinalJobs`, `MCCheckpointRun`, `MCWorkflow`, `MCFrameRefinement` | instances for TLC: symmetry, a chain of nodes, command lines, the shipped profiles |

### FinalJobs

State: the four control files (`sentinel`, `manifest`, `scheduler`, `active`), the flock, the process table and, per
process and per operator command, a program counter and its locals. `claim_final_job` is ClaimLock, ClaimReadSentinel,
ClaimReadScheduler, ClaimReadRows and ClaimReserve, one action per file access under the lock; `release_final_job` is
ReleaseRead and ReleaseWrite; pause and resume are one action per file, without the lock, as in the code. Processes die
anywhere (`Die`) and ids are handed out again (`Reuse`, if `PidReuse`); operator commands die between two writes
(`OperatorCrash`).

- `WorkersReserved`: a running worker's row is in `active_jobs.json`.
- `OneWorkerPerJob`: no job is refined twice at a time.
- `CapRespected`: any workers running together include one admitted under a limit of at least their number. "Live
  workers never exceed the current limit" would be false: resume checks for live workers before its writes, so on a
  queue that is already open a lower limit can land under workers admitted in between.
- `OpensQuiet` (action property): when a resume makes claims possible again, nobody of an earlier opening works or holds
  a grant, whatever pause or resume died halfway before. It needs that operator commands are not run at the same time:
  with two, a resume that read the rows before a pause takes the sentinel away after it, the pause is lost, and workers
  that started in between are running.
- `ImplementsSlotPool`: the reservations of running workers are a SlotPool.
- `ImplementsJobSlots` (proved from it): seen from one job the queue is a pool with one slot, which is what Stage12Run
  takes the queue of its clip for.
- `RowsAreWorkers`: without reuse of ids a live row is a running worker's row. With reuse it fails, for the code has
  only `os.kill(pid, 0)`; `WorkersReserved` and `OneWorkerPerJob` hold with reuse too.
- `PauseDrains` (liveness): a pause that stays makes every worker stop at its next frame and give its slot back.

The three files can disagree when a pause and a resume overlap or one of them dies halfway. A claim needs both the
sentinel's absence and the scheduler's permission, but reads them before it reserves: a worker that is past both reads
when the pause comes still gets its slot. It then meets the sentinel at its first frame boundary, which is
`PauseDrains`.

Left out: CPU affinity, heartbeats, reports, and the one-off audit in `scripts/final_refinement_ops.py` that rewrites
`active_jobs.json` without the lock.

### CheckpointRun

A frame checkpoint is its content hash. The content includes the solve time, so a solve takes a payload not used before;
`made[x]` is what payload x holds: frame, link (`previous_checkpoint_hash`) and the payload whose state it was solved
from. Sessions scan, load the previous frame, and loop over Pause, Solve, SaveCheck, SaveWrite; a rejected solve either
stops the session (`fail_fast`, health gate) or is continued from (`continue_on_failure`): `StopOnReject`. A step writes
one file, except SaveWrite (the frame, then `progress.json`) and WriteManifest (`manifest.json`, then `progress.json`):
both second writes only record what a scan would find, and every session scans before it uses anything. Assembly is
validate, load again, check the destination, remove, install. Crashes hit between any two steps; a file may stop
matching its hash (`Damage`).

- `ChainIsTemporal`: each frame of the contiguous chain was solved from, and links to, the frame before it.
- `ArtifactIsTemporal`: so was each frame of an assembled artifact, under every policy.
- `ArtifactIsStore`: once published, the artifact is what the store holds, also after damage and further sessions and
  under every policy. What is audited is what was exported.
- `ImplementsFrameLog`: the root is a write-once log of frames.
- `FramesImmutable` (proved): a committed frame is never replaced, under every policy.
- `WholeIsAssemblable` (proved): whatever sessions ran, a whole and undamaged store passes the checks of an assembly.
- `CompleteMeansWhole`: `progress.json` says complete only of a root with every frame.
- `NoSolveRefused`: no session solves a frame that `save_frame` will refuse.
- `EventuallyAssembled` (liveness): a run resumed after every interruption is assembled, or every payload is spent.

`ChainIsTemporal`, `CompleteMeansWhole`, `WholeIsAssemblable`, `NoSolveRefused` and `ImplementsFrameLog` need
`StopOnReject`: under
`continue_on_failure` an orphan behind a gap makes a later solve of its frame be refused for ever.

Two places where the code and `docs/REFINEMENT_CHECKPOINT_AND_RESUME.md` part, outside these assumptions. With
`StopOnReject = FALSE` a frame solved from a rejected one is kept in the contiguous chain (`ChainIsTemporal` fails),
while line 38 says that an orphan is never used as temporal state. With `Exclusive = FALSE` two assemblies started by
hand both find the destination absent, and the later one removes what the earlier installed; line 52 says that assembly
does not overwrite without `--force`. The first is stopped by the link check of an assembly (`ArtifactIsTemporal`), the
second by the reservation of Stage-12 workers (`ArtifactStays`).

### Stage12Run

EXTENDS CheckpointRun with `Exclusive = FALSE`, so that a session may start whoever else runs, and adds per process
where it is in `run_one`: `work`, what it read of `progress.json` (`complete`), the status it is about to report
(`verdict`); and the clip's reservations (`held`, a SlotPool, which FinalJobs implements) and its `report`.
Look reads `progress.json`, ReadFinal tests for the artifact, both before the claim; Refused and Claim are the queue's
answer; OpenRoot, SessionGoes and SessionAssembled are the session inside the worker, steps of CheckpointRun;
SessionPaused and SessionRaises are the two handlers; Finish, WriteReport and Release the end, the release following
also a report that cannot be written. Die kills a worker anywhere. A file is damaged at any time.

- `ImplementsExclusiveRun` (refinement): the composition is a behaviour of CheckpointRun with `Exclusive = TRUE`. What
  CheckpointRun assumes of its environment is thereby a consequence of the reservation, and its theorems hold here.
- `ArtifactStays` (action property): no worker replaces or removes an artifact, whatever it saw before it claimed.
- `PassIsPublished`: a clip reported as passed has an artifact that is one temporal sequence, also if it was reused.
- `SlotComesBack` (liveness): every reservation is given back, however the session ended.
- `SlotsAtWork` (proved): who holds the slot is a live worker that has yet to release it, the safety half of that.
- `OneAtATime` (proved): one worker of the clip at most is in a session.

The properties of CheckpointRun are proved of the workers as well, without its `Exclusive`: a clip's frames are
written once, its chain is temporal, its artifact is its store, "complete" is true. `ChainIsTemporal`,
`CompleteMeansWhole` and `ImplementsFrameLog` are checked here, with the reservation in the place of `Exclusive`; of
CheckpointRun alone, where an assembly may also be started by hand, they are proved.

A status other than a pass or a pause counts as blocked (`completed_with_solver_failures` among them); other clips
matter only for the number of slots, which is FinalJobs.

### GrabSuite

`run_suite` for the whole suite or one clip (`--unit`) under a solver profile. `manifest`, `lock` and `trial` are the
three files of the selection; `frames` the checkpoint roots, keyed by clip and profile; `final` the clip's artifact,
which the code does not key by profile; `sessions` the live `retarget refine --force` processes, which a killed driver
may leave behind (`own = FALSE`). PassLock and RefuseLock decide on the lock, WriteManifest, TruncateLock and WriteLock
write it (`write_text` truncates first); then clip after clip Reuse or Prepare, Spawn, the session's Commit, RemoveOld,
Install, Pause, Fail or Clash, and Judge. Kill hits everywhere.

- `SelectionStays` (action property): once the manifest and the lock are those of the whole suite, or the lock is torn
  under such a manifest, no run replaces the selection.
- `LockBindsSolver` (violated): a clip that passed under the locked selection passed on an artifact of that selection's
  solver, as `docs/WUJI_HAND2_THREE_CLIP_BENCHMARK.md` says. A run under one selection reuses the artifact that a trial
  under another left. `ForeignFinalIsRecorded` (proved) says that it happens in no other way: when a clip passes so,
  `selection_trial_replaced.json` exists.
- `RunEnds` (liveness): the loop over paused sessions ends.
- `RunAdvances` (action property): a run comes back to no clip, whatever failed, and goes back within one only to start
  another session after one that paused with frames left; so only sessions that commit nothing can keep it going.

A run of the whole suite killed between the manifest and the lock is followed by what the old lock says, not by the
manifest: without a lock any selection is admitted, under an old lock only that lock's, and under a torn lock none.
`SelectionStays` therefore starts when the lock is the manifest's, or torn under it. A clip passes without validation
if the artifact disappears between its session and the test for it, which needs a stray session. Two drivers in one root
are not modelled. The driver ignores its `resume` option, and the wall time of a session is free. Identical strays count
once.

### RecoveryLedger

A session of `Stage16RecoveryStateMachine`: Load restores the counters from the rows of the log (the highest attempt
of a class, the number of rows of a phase and of all, the highest switch count), Record and SwitchBackend count and
escalate beyond a budget, Write appends what is not written yet, End leaves any prefix of it, its last row perhaps
without its newline, or a torn one. Then the next session loads.

- `EveryRepairCounts`: the attempt of each row is the number of rows of its class so far, the switches likewise, and a
  row is recorded without escalation only within every budget, over all sessions. A row forgotten by a reload, written
  twice or counted for the wrong budget breaks it.
- `RowsStay` (action property): a row whose line is complete stays at its place as it was written, whatever later
  sessions append and wherever they are cut.

A broken line makes every later load raise, and a row appended to a line without newline breaks that line: the ledger
then stops (in the model too) until somebody repairs the file. Left out: sessions that overlap or start with an empty
machine on an existing log (`qualify_stage16_world_wrist.py` does); both would spend a class budget again, as the code
takes the highest attempt for the number of rows. The order of dynamic phases is checked in memory only and no program
reloads it.

### Workflow

A chain of K nodes. Content of an output is the versions of source and profiles it was computed from, so "stale" and
"from another profile" can be told apart. The files a command reads and the files its signature hashes are two lists in
the code (`executor.py` and `PROFILE_PATHS` of `planning.py`) and two constants here, `Uses` and `Hashed`. They differ:
`generate_warm_start` reads `configs/retarget/warm_start/paper_repro_scipy_trf.yaml`, which no signature hashes (nor the
cached collision samples of the robot that the refinement reads). Nodes are `Opaque` when their output does not depend on their input
(`audit_object_mesh` reports the mesh only). Actions: EditSource, EditProfile and Remove by the user; Start with a
command line; then per node Skip, Reuse, Run, Pass, Record, Fail; Close does the final source check; Kill anywhere.

- `ThroughIsComplete`: a run that got through its nodes has a complete, passing output at every configured node,
  whatever it reused and whatever was killed before.
- `ThroughProfile`: none of them was made under an older version than the run's of a file that is hashed for its node.
  `docs/WORKFLOW_RESUME_AND_PROVENANCE.md` (32-34) says it of every changed profile; it is not true of the warm-start
  solver profile: an edit of it does not prevent the reuse of the warm start.
- `ThroughFollows`: along the chain nothing is stale. In a run that is through each node was computed from the outputs
  that are there now of the nodes its signature tells of (`Told`): the node before it and, if that one is kept, depends
  on its input and reads it, the one before that. Behind an opaque or a skipped node this ends, which
  `workflow_stale_reuse` shows.
- `ForcedIsFresh`: what a forced or fresh run rebuilt was computed from the outputs that are there now.

Not in the model: a changed request (fixed by the root: another request changes every signature); versions that come
back; edits that the window statistics see (they change the request); two executors on one root. Manifests are
represented by `status`; a failure before the final source check is covered by Kill. The cross-stage identity report
records mismatches without failing a run, so it has no action.

### FrameRefinement

The refinement of a range of frames. `Samples` are the collision samples of the robot's surface; an attempt starts from
the frame's native query set and is the loop Solve, (Restart), Discover, Audit of `refine_frame`: solve on the queried
samples, look at the whole surface, add what is inside the margin, until the solver and the active set have both
converged, the rounds are used up or nothing is left to add. What a solve returns, which samples come near and whether
an audit passes is free; the loop asks the solver's distances and the audit the reference's, which need not agree.

Around it `build_final_trajectory` climbs a ladder: JudgePropagated (attempt 0), JudgeTrust (1), NextStart and
JudgeStarts (2, one attempt per candidate state), Window and JudgeWindow (3). `call` holds the options that decide which
rungs exist: `Discrete` is a scipy profile, `FullState` and `Sequential` the two Wuji profiles, `Shadow` the forced
window of the diagnostics on a full query set. Finish decides a frame, and its state, accepted or not, is what the next
one is propagated from, unless the profile fails fast or the caller's callback raises. Invalid is an exception of a distance query: it leaves the call,
except inside the window's `try`, which falls back to the propagated state. Hints of a window stay for later frames.

- `RoundsBounded`: every round of an attempt after the first adds a sample, so no problem is solved twice and, as the
  query set only grows (`QueriesKept`, proved), the rounds are bounded by the samples.
- `NothingHidden`: an attempt that ends with a sample inside the margin it never queried used up its rounds and is
  rejected, whatever the solver says.
- `BestAttemptWins` (action property): a frame with an accepted attempt is accepted, by one that no other accepted
  attempt beats.
- `SequentialStaysSequential`: a profile without fallback never sees the window or its hints.
- `ImplementsFrameCall` (refinement): to its caller the whole ladder is FrameCall: frames are decided in order, each
  once, a pause returns only when there is a frame to return, and under `fail_fast` nothing is decided past a rejected
  frame. Hence a returned trajectory has no gap, is whole unless paused, and has no rejected frame under `fail_fast`
  (`ReturnsDecided`, proved), and no frame is solved from a rejected one there (`SolvedFromAccepted`, proved).
- `CallAdvances` (action property): no step leads back. Each ends the call or advances the frame, the rung, the starts
  tried, the round, or the place in the round, all of them bounded: no call runs for ever.

In a checkpoint session each frame is a call of its own (`Solve` of CheckpointRun), so hints do not survive there; over
a range they do, and give a later frame a fifth multi-start candidate, where
`wuji_continuous_full_state_v1.yaml` says `max_multi_start_candidates: 4` (a key nothing reads). Left out: frozen
query sets of diagnostic callers, `fixed_*_to_seed`, the joint solve of the window (it succeeds or raises), and the
arrays of the trajectory object.

## Runs

| run | instance | shows |
|---|---|---|
| `final_jobs` | 3 process ids, 2 jobs, 2 operators, limits to 2; reuse, crashes; symmetric | reservations, exclusion, cap, and the pool |
| `final_jobs_drain` | 2 ids, 2 jobs, 1 operator that crashes, no reuse, fair | `PauseDrains`, `RowsAreWorkers`, `OpensQuiet` |
| `checkpoint_continue` | 2 processes, 3 frames, 4 solves, damage, continue on failure | `ArtifactIsTemporal`, `ArtifactIsStore` |
| `checkpoint_progress` | 1 process, 2 frames, 3 solves, fair | `NoSolveRefused`, `EventuallyAssembled` |
| `stage12_run` | 2 workers, 2 frames, 3 solves, damage, kills, fair | the composition of queue, worker and sessions; chain, "complete", write-once frame log |
| `grab_suite` | 2 clips of 2 frames, 2 profiles, suite or first clip, 2 strays, fair | the lock, and that a run goes on and ends |
| `grab_suite_foreign` | finding, the same instance | a clip passes on the artifact of another solver than the lock's |
| `recovery_ledger` | 2 classes, 2 phases, budgets of 1 to 4, 5 rows | what is counted over sessions that are cut anywhere |
| `workflow` | 4 nodes, one hashed profile; edits, removals, kills, the command lines of `CommandLines` | the safety of a resumed run |
| `workflow_stale_reuse` | finding | a node is reused although something upstream changed |
| `workflow_resume` | finding | a resume blames the user for a source nobody changed |
| `frame_refinement` | 3 samples, 2 rounds, 2 frames, 2 objectives, four kinds of call | the loop and the ladder, the promise to the caller, and that no step leads back |

Why the bounds suffice. Two jobs and three ids make a full queue, a contender and a dead row with a reused id possible
at once. Two frames make one link, three a gap with an orphan behind it and an orphan's successor. Each session or
operator step is at most one file, so more frames or processes repeat the same pairs of steps. `Payloads` bounds the
number of solves, `Edits` and `Invocations` the edits and runs of a workflow. Three samples and two rounds are
the least for a loop to run out of rounds with a sample unqueried; two frames let a hint, a rejection and a previous
state reach another frame; two objectives make one attempt better than another. For the workflow, the command lines cover each flag of the
executor, with and without `--resume`, and reuse behind a skipped and a forced node; two versions of each
file are an old one and a new one. Two clips and two profiles are
the least for a trial of one clip to meet a run of all under another profile; two strays let foreign sessions outlive
two selections. Five rows use up each budget of the ledger and go beyond it, with rows of two classes and phases around
a reload. Deadlock checking is off for RecoveryLedger, where a broken log stops, for CheckpointRun and Stage12Run, where an unmarked root or a completed run really stops, and for FrameRefinement, whose call ends.

### Fairness

`FinalJobs!FairSpec`: weak fairness of a worker's own steps, strong fairness of taking the lock to release, since an
flock is contended and the kernel serves a waiter that retries. Operators owe nothing. `CheckpointRun!FairSpec`: strong
fairness of a session's steps, which means that an interrupted run is resumed again and again (its `resume_command`)
and that crashes and pauses do not hit the same step for ever.
`Stage12Run!WorkFairSpec`: weak fairness of a worker's own steps; nobody has to start one.
`GrabSuite!FairSpec`: weak fairness of the driver, strong fairness of its sessions' progress for each clip: the wall
time of a session is enough for a frame now and then. No safety property needs fairness.

## Proofs

Every theorem is proved for all values of the constants under the ASSUMEs of its module. A theorem that needs more says
so in its statement: `Exclusive` for the theorems of `CheckpointProofs` (discharged in `Stage12Proofs`), `StopOnReject`
where the policy matters, `~MayDamage` for `SolvesAreSaved`, no reuse of process ids for `NoSlotLeaks`, and for `QueueOpensQuiet` at most one
operator command at a time (`OneOperator`).

- `FinalJobsProofs`: the inductive invariant says who holds the lock, what the holder has read, and that nobody else can
  have changed the rows since; this is why a claim's or a release's write is based on current rows. `ReservationsKept`
  and `JobExclusion` follow from it; `CapHolds` needs in addition that the row set of running workers only grew under a
  limit read by the last admitted one. `NoSlotLeaks` rests on the holder's copy never naming a row that is not in the
  file. `QueueRefinesJobSlots` takes each step of the pool (`QueueRefinesSlotPool`) apart by job: a grant takes the slot
  of one job, which was free, and leaves every other alone. It is the interface to `Stage12Run`, whose `Queue` is the
  pool of one job. `QueueOpensQuiet` rests on what holds of a resume past its reading of the rows (`QuietInv`):
  nobody works as long as the queue is closed, for nobody is admitted until it is open. Also `TypeCorrect`.
- `CheckpointProofs`: the invariant relates a session's locals (`next`, `last`, `state`) to the files under them and,
  for an assembly, the rows in hand to the files they were read from. `AssemblyIsTemporal` needs no assumption about the
  rejection policy, the link check does the work. Its conjunct `PublishInv` says that behind an artifact, as behind an assembly
  that has validated, every frame is there and linked, so that no save gets past its check: `PublishedIsStored`. `ChainContinues`,
  `CompleteIsTrue` and `RunRefinesFrameLog` use the chain (`ChainInv`), and from its prefixes a whole store is linked
  (`FinishedIsAssemblable`). For `SolvesAreSaved` the stored frames are a prefix and the cursor of a session is its end.
  Also `CommittedFramesStay`, `TypeCorrect`.
- `Stage12Proofs`: the invariant ties where a worker is to its reservation and its session: whoever is past its claim
  holds the slot, and only such a worker has a session (`ReservationExcludes`). Each step is then a step, or a stutter,
  of CheckpointRun with exclusive sessions (`WorkRefinesExclusiveRun`), so its invariants carry over step by step:
  `WorkCommitsStay`, `WorkPublishesStore`, `WorkChainContinues`, `WorkCompleteIsTrue`, `WorkFinishedIsAssemblable`,
  `WorkSolvesAreSaved`, `WorkRefinesFrameLog`, none of which assumes `Exclusive`, and `PassedIsPublished`.
  `PublishedStays` rests on the worker never passing `--force`; `SlotsAreNotLeaked` on every way out of a session leading
  to the release. Also `WorkTypes`.
- `WorkflowProofs`: `ThroughComplete` and `ThroughCurrent` rest on what a cache record says of the output it was written
  for (complete, same hash, hashed profiles not older than in its signature) although the output may since have been removed or
  overwritten; `ForcedFresh` on the nodes behind a forced one being forced as well. `ThroughFollowed` needs more
  (`FollowInv`): the dependency in a record's signature is what the recorded output was computed from, and tells what
  that one was computed from; the hashes a run carries are those of the outputs it passed; and these already follow the
  ones before them. A reuse compares dependencies only, so the node before last is reached through the node before. Also `TypeCorrect`.
- `GrabSuiteProofs`: the invariant says what the driver's place implies for manifest and lock, and that everything made
  under a profile other than the manifest's is older than a replacement on record: `ForeignRecorded`,
  `LockedSelectionStays`. `EveryTurnAdvances` needs that a driver that waits has its own session, of the clip whose turn
  it is and under its profile (`TurnInv`): a stray of another run cannot make it go back. Also `TypeCorrect`.
- `RecoveryLedgerProofs`: the attempts of a class on disk have no gap, so their maximum is their number (`Sound`), in
  every prefix; the log is the prefix of the session's rows that was written. `RepairsCounted`, `CompleteRowsStay`,
  `TypeCorrect`.
- `FrameRefinementProofs`: `LoopInv` ties how the loop was left (`missed`, `round`, `converged`) to what an audit may
  accept: `NothingIsHidden`. `Grown` counts the samples added since the native set: `RoundsAreBounded`,
  `QueriesStay`. `LadderInv` says which attempts in the list can be accepted at each rung (none behind the present one,
  except among the multi-start candidates), which `BestAttemptDecides` and `EveryStepAdvances` need. `OrderInv` (a frame
  is decided if and only if it is before the current one, a call that is done has decided all) carries
  `CallRefinesFrameCall`; what a caller may rely on is then proved of FrameCall alone (`PromiseInv`) and holds of the
  call by the refinement: `OnlyDecidedReturned`. `OnlyFromAccepted` and `NeverIntoWindow` are inductive with the types
  and with the list of attempts. Also `TypeCorrect`.

Only model-checked: `PauseDrains`, `EventuallyAssembled`, `SlotComesBack`, `RunEnds` (liveness is out of this prover's
reach). Of two of them the safety half is proved: `SlotsAtWork`, `RunAdvances`; `CallAdvances` says as much of a
refinement call. Every
other property of a passing run is proved. Some properties are proved and not part of a run, for one that is implies
them or says more: `ImplementsJobSlots` (`ImplementsSlotPool`), `WholeIsAssemblable` (`ChainIsTemporal`), `SolvedFromAccepted` and `ReturnsDecided` (`ImplementsFrameCall`),
`FramesImmutable` (`ImplementsFrameLog`, where rejections stop), `TypeOK` of CheckpointRun (`WorkTypeOK`),
`SlotsAtWork`, `ForeignFinalIsRecorded` and `QueriesKept`. Nothing here is recursive.

## Plan and what is not modelled

Done: the queue, the checkpoint store with its sessions, the worker that composes the two, the refinement of frames,
the workflow executor, the GRAB suite and the recovery ledger. What could follow, in this order:

1. `AcceptedRun`: gate and accepted run: a crash between the directory and its manifest, a resume of a run accepted
   under other inputs.
2. `Benchmark`: freeze, verify, run: nothing is run or reported that was not frozen.
3. Two drivers, or two executors, in one root: nothing locks either, and nothing is promised of them.
4. A checkpoint session whose `Solve` is a FrameRefinement call.

Not modelled, and why: warm start, interaction graphs, geometry, signed distances, keypoints and adapters are numerical
code without control state; RL training and the simulators are third-party loops; stage audits, comparisons, reports
and visualisation (most of the code by lines: `workflows/stage9_*`, `*_audit`, `shadow_equivalence`) are single passes
that read artifacts and write a report. The in-memory gates of the later RL stages
(`rl/environments/isaaclab_backend/recovery_state_machine.py` and its siblings) are driven by one fixed sequence of
calls each and keep nothing; the quality orchestrator repeats the suite's loop over sessions.
