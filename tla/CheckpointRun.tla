---------------------------- MODULE CheckpointRun ----------------------------
(***************************************************************************)
(* One checkpoint root of the frame-by-frame refinement: the store         *)
(* (toporetarget/retarget/refinement_checkpoint.py), the sessions that fill*)
(* it (toporetarget/cli/retarget.py, _run_checkpoint_refinement) and the   *)
(* assembly of the final artifact, which a session runs when it is done and*)
(* `retarget assemble-refinement` runs at any time.                        *)
(*                                                                         *)
(* A frame checkpoint is named by its content hash.  The content includes  *)
(* the solve time, so no two solves give the same hash: a solve takes a    *)
(* payload nobody has used.  made[x] is what payload x holds: its frame,   *)
(* the hash it links to (previous_checkpoint_hash) and, in its arrays, the *)
(* base and joint state it was solved from.                                *)
(***************************************************************************)
EXTENDS Naturals

CONSTANTS
  Procs,       \* processes that run a session or an assembly
  N,           \* frames in the requested range, numbered from 0
  Payloads,    \* frame solves (bounds how often a frame is solved again)
  None,        \* "no payload" / "no file"
  StopOnReject,\* fail_fast profile or health gate; FALSE: continue_on_failure
  Exclusive,   \* sessions of one root never overlap (FinalJobs!OneWorkerPerJob)
  MayDamage    \* may a frame file stop matching its hash?

ASSUME FramesAssumption == N \in Nat \ {0}
ASSUME NoneAssumption   == None \notin Payloads
ASSUME FlagAssumption   == StopOnReject \in BOOLEAN /\ Exclusive \in BOOLEAN /\ MayDamage \in BOOLEAN

VARIABLES
  root,      \* absent; unmarked: directories, no manifest.json; open
  progress,  \* "status" of progress.json
  file,      \* frames/frame_<f>.npz, by its hash, or None
  damaged,   \* frames whose file no longer passes load_frame
  made,      \* the content of every payload solved so far
  artifact,  \* the assembled trajectory: a payload per frame, or None
  pc,        \* what each process does next
  next,      \* next_frame of a session
  last,      \* previous_hash of a session
  state,     \* payload whose base/qpos the next frame is solved from
  new,       \* the payload just solved
  rows,      \* checkpoints an assembly loaded
  force      \* was the process started with --force?

store   == <<root, progress, file, damaged, artifact>>
session == <<next, last, state, new>>
vars    == <<root, progress, file, damaged, made, artifact, pc, next, last, state, new, rows, force>>

Frames   == 0 .. N - 1
Maybe    == Payloads \cup {None}
NoRows   == [f \in Frames |-> None]
Unmade   == [frame |-> N, from |-> None, link |-> None]
Content  == [frame : 0 .. N, from : Maybe, link : Maybe]
InSession  == {"marking", "scanning", "loading", "loop", "solved", "rejected", "writing"}
InAssembly == {"validating", "reading", "checking", "staging", "installing"}
Done     == {"none"}
Statuses == {"none", "created", "paused", "gated", "complete"}

Sessions == {p \in Procs : pc[p] \in InSession}
Made(x)  == made[x].frame # N

Init ==
  /\ root = "absent"
  /\ progress = "none"
  /\ file = [f \in Frames |-> None]
  /\ damaged = {}
  /\ made = [x \in Payloads |-> Unmade]
  /\ artifact = None
  /\ pc = [p \in Procs |-> "none"]
  /\ next = [p \in Procs |-> 0]
  /\ last = [p \in Procs |-> None]
  /\ state = [p \in Procs |-> None]
  /\ new = [p \in Procs |-> None]
  /\ rows = [p \in Procs |-> NoRows]
  /\ force = [p \in Procs |-> FALSE]

-----------------------------------------------------------------------------
(* The store *)

(* load_frame succeeds. *)
Intact(f) == file[f] # None /\ f \notin damaged

(* scan: n is next_frame, the contiguous frames are those below it. *)
Contiguous(n) ==
  /\ \A f \in Frames : f < n => Intact(f)
  /\ n \in Frames => ~Intact(n)

Before(f) == IF f = 0 THEN None ELSE file[f - 1]
Linked == \A f \in Frames : made[file[f]].link = Before(f)

UnlinkedChain ==                \* mutant: the chain is only counted
  Contiguous(N) /\ damaged = {}

(* validate_chain: complete and chain_pass. *)
ChainPass == Contiguous(N) /\ damaged = {} /\ Linked

(* The process is over: returned, raised or killed.  Its locals are gone. *)
Exit(p) ==
  /\ pc' = [pc EXCEPT ![p] = "none"]
  /\ next' = [next EXCEPT ![p] = 0]
  /\ last' = [last EXCEPT ![p] = None]
  /\ state' = [state EXCEPT ![p] = None]
  /\ new' = [new EXCEPT ![p] = None]
  /\ rows' = [rows EXCEPT ![p] = NoRows]
  /\ force' = [force EXCEPT ![p] = FALSE]

Goto(p, from, to) ==
  /\ pc[p] = from
  /\ pc' = [pc EXCEPT ![p] = to]

Crash(p) ==
  /\ pc[p] \notin Done
  /\ Exit(p)
  /\ UNCHANGED <<store, made>>

Damage(f) ==
  /\ MayDamage
  /\ Intact(f)
  /\ damaged' = damaged \cup {f}
  /\ UNCHANGED <<root, progress, file, made, artifact, pc, session, rows, force>>

-----------------------------------------------------------------------------
(* A session.  CheckpointStore.open refuses a root that has directories but*)
(* no manifest, so nothing starts on an unmarked one.                      *)

MayStart(p) == Exclusive => Sessions \subseteq {p}

MakeRoot(p) ==
  /\ Goto(p, "none", "marking")
  /\ MayStart(p)
  /\ root = "absent"
  /\ root' = "unmarked"
  /\ \E b \in BOOLEAN : force' = [force EXCEPT ![p] = b]
  /\ UNCHANGED <<progress, file, damaged, made, artifact, session, rows>>

WriteManifest(p) ==
  /\ Goto(p, "marking", "scanning")
  /\ root' = "open"
  /\ progress' = "created"
  /\ UNCHANGED <<file, damaged, made, artifact, session, rows, force>>

Resume(p) ==
  /\ Goto(p, "none", "scanning")
  /\ MayStart(p)
  /\ root = "open"
  /\ \E b \in BOOLEAN : force' = [force EXCEPT ![p] = b]
  /\ UNCHANGED <<store, made, session, rows>>

ScanFromZero(p) ==              \* mutant: the chain found is not resumed
  /\ Goto(p, "scanning", "loading")
  /\ next' = [next EXCEPT ![p] = 0]
  /\ UNCHANGED <<store, made, last, state, new, rows, force>>
ScanPastEnd(p) ==               \* mutant: len(contiguous) + 1
  /\ Goto(p, "scanning", "loading")
  /\ \E n \in 0 .. N : Contiguous(n) /\ next' = [next EXCEPT ![p] = n + 1]
  /\ UNCHANGED <<store, made, last, state, new, rows, force>>

(* validate_chain, of which a session uses next_frame only. *)
Scan(p) ==
  /\ Goto(p, "scanning", "loading")
  /\ \E n \in 0 .. N : Contiguous(n) /\ next' = [next EXCEPT ![p] = n]
  /\ UNCHANGED <<store, made, last, state, new, rows, force>>

LoadFresh(p) ==                 \* mutant: the first frame starts from the warm start
  /\ Goto(p, "loading", "loop")
  /\ last' = [last EXCEPT ![p] = Before(next[p])]
  /\ UNCHANGED <<store, made, next, state, new, rows, force>>

(* The last frame's hash and state; every frame below is read as well, for *)
(* the health gate's window, and load_frame raises on a damaged one.       *)
LoadPrevious(p) ==
  /\ pc[p] = "loading"
  /\ \/ /\ \E f \in Frames : f < next[p] /\ ~Intact(f)
        /\ Exit(p)
     \/ /\ \A f \in Frames : f < next[p] => Intact(f)
        /\ Goto(p, "loading", "loop")
        /\ last' = [last EXCEPT ![p] = Before(next[p])]
        /\ state' = [state EXCEPT ![p] = Before(next[p])]
        /\ UNCHANGED <<next, new, rows, force>>
  /\ UNCHANGED <<store, made>>

PauseDeclaresComplete(p) ==     \* mutant: the pause returns the wrong status
  /\ pc[p] = "loop"
  /\ next[p] < N
  /\ progress' = "complete"
  /\ Exit(p)
  /\ UNCHANGED <<root, file, damaged, made, artifact>>

(* The queue's sentinel or the wall-time budget, tested before each frame; *)
(* --stop-after-frame ends a session here as well.                         *)
Pause(p) ==
  /\ pc[p] = "loop"
  /\ next[p] < N
  /\ progress' = "paused"
  /\ Exit(p)
  /\ UNCHANGED <<root, file, damaged, made, artifact>>

(* build_final_trajectory on [next, next + 1) with initial_previous. *)
Solve(p) ==
  /\ pc[p] = "loop"
  /\ next[p] < N
  /\ \E x \in Payloads :
       /\ ~Made(x)
       /\ made' = [made EXCEPT ![x] =
                     [frame |-> next[p], from |-> state[p], link |-> last[p]]]
       /\ new' = [new EXCEPT ![p] = x]
  /\ \E verdict \in {"solved", "rejected"} : pc' = [pc EXCEPT ![p] = verdict]
  /\ UNCHANGED <<store, next, last, state, rows, force>>

RejectedSkipped(p) ==           \* mutant: the gate does not see the rejection
  /\ Goto(p, "rejected", "loop")
  /\ state' = [state EXCEPT ![p] = new[p]]
  /\ next' = [next EXCEPT ![p] = @ + 1]
  /\ UNCHANGED <<store, made, last, new, rows, force>>

(* A rejected frame is not saved.  fail_fast raises out of the session; the*)
(* health gate pauses it.                                                  *)
RejectedStops(p) ==
  /\ pc[p] = "rejected"
  /\ StopOnReject
  /\ progress' \in {progress, "gated"}
  /\ Exit(p)
  /\ UNCHANGED <<root, file, damaged, made, artifact>>

(* continue_on_failure: the next frame is solved from the rejected result, *)
(* and linked to the last saved one.                                       *)
RejectedContinues(p) ==
  /\ ~StopOnReject
  /\ Goto(p, "rejected", "loop")
  /\ state' = [state EXCEPT ![p] = new[p]]
  /\ next' = [next EXCEPT ![p] = @ + 1]
  /\ progress' = "paused"
  /\ UNCHANGED <<root, file, damaged, made, artifact, last, new, rows, force>>

SaveUnchecked(p) ==             \* mutant: an existing frame is replaced
  /\ Goto(p, "solved", "writing")
  /\ UNCHANGED <<store, made, session, rows, force>>

(* save_frame: a frame that exists has another hash, or cannot be read. *)
SaveCheck(p) ==
  /\ pc[p] = "solved"
  /\ \/ /\ file[next[p]] # None
        /\ Exit(p)
     \/ /\ file[next[p]] = None
        /\ Goto(p, "solved", "writing")
        /\ UNCHANGED <<session, rows, force>>
  /\ UNCHANGED <<store, made>>

(* The rename, after which the frame is in; the session moves on, or its   *)
(* health gate stops it (runtime limits).                                  *)
SaveWrite(p) ==
  /\ pc[p] = "writing"
  /\ file' = [file EXCEPT ![next[p]] = new[p]]
  /\ damaged' = damaged \ {next[p]}
  /\ \/ /\ Goto(p, "writing", "loop")
        /\ last' = [last EXCEPT ![p] = new[p]]
        /\ state' = [state EXCEPT ![p] = new[p]]
        /\ next' = [next EXCEPT ![p] = @ + 1]
        /\ progress' = "paused"
        /\ UNCHANGED <<new, rows, force>>
     \/ /\ progress' = "gated"
        /\ Exit(p)
  /\ UNCHANGED <<root, made, artifact>>

(* The loop is over: "complete" is written first, then the chain assembled.*)
Complete(p) ==
  /\ Goto(p, "loop", "validating")
  /\ next[p] = N
  /\ progress' = "complete"
  /\ UNCHANGED <<root, file, damaged, made, artifact, session, rows, force>>

-----------------------------------------------------------------------------
(* Assembly *)

StartAssemble(p) ==
  /\ Goto(p, "none", "validating")
  /\ root = "open"
  /\ \E b \in BOOLEAN : force' = [force EXCEPT ![p] = b]
  /\ UNCHANGED <<store, made, session, rows>>

Validate(p) ==
  /\ pc[p] = "validating"
  /\ \/ /\ ~ChainPass
        /\ Exit(p)
     \/ /\ ChainPass
        /\ Goto(p, "validating", "reading")
        /\ UNCHANGED <<session, rows, force>>
  /\ UNCHANGED <<store, made>>

(* The frames are loaded again for the rows that are stacked. *)
LoadRows(p) ==
  /\ pc[p] = "reading"
  /\ \/ /\ \E f \in Frames : ~Intact(f)
        /\ Exit(p)
     \/ /\ \A f \in Frames : Intact(f)
        /\ Goto(p, "reading", "checking")
        /\ rows' = [rows EXCEPT ![p] = file]
        /\ UNCHANGED <<session, force>>
  /\ UNCHANGED <<store, made>>

(* save_final_trajectory: the only place that looks at --force. *)
CheckDestination(p) ==
  /\ pc[p] = "checking"
  /\ \/ /\ artifact # None /\ ~force[p]
        /\ Exit(p)
     \/ /\ artifact = None \/ force[p]
        /\ Goto(p, "checking", "staging")
        /\ UNCHANGED <<session, rows, force>>
  /\ UNCHANGED <<store, made>>

(* After the temporary directory is written: rmtree whatever is there. *)
RemoveOld(p) ==
  /\ Goto(p, "staging", "installing")
  /\ artifact' = None
  /\ UNCHANGED <<root, progress, file, damaged, made, session, rows, force>>

(* os.replace fails on a directory that appeared in between. *)
Install(p) ==
  /\ pc[p] = "installing"
  /\ artifact' = IF artifact = None THEN rows[p] ELSE artifact
  /\ Exit(p)
  /\ UNCHANGED <<root, progress, file, damaged, made>>

-----------------------------------------------------------------------------
SessionStep(p) ==
  \/ WriteManifest(p)
  \/ Scan(p)
  \/ LoadPrevious(p)
  \/ Solve(p)
  \/ RejectedStops(p)
  \/ RejectedContinues(p)
  \/ SaveCheck(p)
  \/ SaveWrite(p)
  \/ Complete(p)

AssemblyStep(p) ==
  \/ Validate(p)
  \/ LoadRows(p)
  \/ CheckDestination(p)
  \/ RemoveOld(p)
  \/ Install(p)

Next ==
  \/ \E p \in Procs : MakeRoot(p)
  \/ \E p \in Procs : Resume(p)
  \/ \E p \in Procs : StartAssemble(p)
  \/ \E p \in Procs : SessionStep(p)
  \/ \E p \in Procs : AssemblyStep(p)
  \/ \E p \in Procs : Pause(p)
  \/ \E p \in Procs : Crash(p)
  \/ \E f \in Frames : Damage(f)

Spec == Init /\ [][Next]_vars

(* An interrupted run is resumed again and again (its resume_command), and *)
(* crashes and pauses do not hit the same step of it forever.              *)
Fairness ==
  \A p \in Procs :
    /\ SF_vars(Resume(p))
    /\ SF_vars(Scan(p))
    /\ SF_vars(LoadPrevious(p))
    /\ SF_vars(Solve(p))
    /\ SF_vars(RejectedStops(p))
    /\ SF_vars(SaveCheck(p))
    /\ SF_vars(SaveWrite(p))
    /\ SF_vars(Complete(p))
    /\ SF_vars(Validate(p))
    /\ SF_vars(LoadRows(p))
    /\ SF_vars(CheckDestination(p))
    /\ SF_vars(RemoveOld(p))
    /\ SF_vars(Install(p))

FairSpec == Spec /\ Fairness

-----------------------------------------------------------------------------
(* Properties *)

TypeOK ==
  /\ root \in {"absent", "unmarked", "open"}
  /\ progress \in Statuses
  /\ file \in [Frames -> Maybe]
  /\ damaged \in SUBSET Frames
  /\ made \in [Payloads -> Content]
  /\ artifact \in [Frames -> Maybe] \cup {None}
  /\ pc \in [Procs -> Done \cup InSession \cup InAssembly]
  /\ next \in [Procs -> 0 .. N]
  /\ last \in [Procs -> Maybe]
  /\ state \in [Procs -> Maybe]
  /\ new \in [Procs -> Maybe]
  /\ rows \in [Procs -> [Frames -> Maybe]]
  /\ force \in [Procs -> BOOLEAN]

(* Every frame of the contiguous chain was solved from the frame before it *)
(* and links to it, whichever sessions solved the two and however they     *)
(* ended: never from an orphan, a rejected result or the warm start.       *)
ChainIsTemporal ==
  \A f \in Frames :
    (\A g \in Frames : g <= f => Intact(g)) =>
      made[file[f]] = [frame |-> f, from |-> Before(f), link |-> Before(f)]

(* A published artifact is one temporal sequence as well: what the links   *)
(* are checked for by assemble is true of the states the frames were solved*)
(* from, although continue_on_failure leaves frames in the store that were *)
(* solved from rejected results.                                           *)
ArtifactIsTemporal ==
  artifact # None =>
    \A f \in Frames :
      /\ made[artifact[f]].frame = f
      /\ made[artifact[f]].from = IF f = 0 THEN None ELSE artifact[f - 1]

(* What was published is what the store holds: the frames behind an        *)
(* artifact are never solved anew to other results, whatever is damaged and*)
(* resumed after it, so the two can be audited against each other.         *)
ArtifactIsStore == artifact # None => artifact = file

(* A frame that was committed is never replaced, also when it is damaged   *)
(* and solved again ("refusing to overwrite hash-mismatched frame").       *)
FramesImmutable == [][\A f \in Frames : file[f] # None => file'[f] = file[f]]_vars

(* A run whose progress says "complete" has every frame: the Stage-12      *)
(* worker reuses such a run without opening its store.                     *)
CompleteMeansWhole == progress = "complete" => \A f \in Frames : file[f] # None

(* Sessions of any number and in any order leave a store that can be       *)
(* assembled: once every frame is there and undamaged, validate_chain      *)
(* finds nothing to refuse, so a finished run is not solved in vain.       *)
WholeIsAssemblable == (\A f \in Frames : Intact(f)) => ChainPass

(* No solve is thrown away because its frame turns out to exist: without   *)
(* damage a session never works on a frame that save_frame will refuse, so *)
(* it cannot be stuck on one.                                              *)
NoSolveRefused ==
  \A p \in Procs : pc[p] \in {"loop", "solved"} /\ next[p] < N => file[next[p]] = None

(* The run implements the write-once frame log. *)
Log == INSTANCE FrameLog
ImplementsFrameLog == Log!Spec

(* A run that is resumed after every interruption is assembled, unless     *)
(* every solve of the model has been spent on rejected or lost frames.     *)
Spent == \A x \in Payloads : Made(x)
EventuallyAssembled == (root = "open") ~> (artifact # None \/ Spent)
=============================================================================
