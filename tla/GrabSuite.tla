------------------------------ MODULE GrabSuite ------------------------------
(***************************************************************************)
(* The GRAB suite (workflows/grab_suite.py): run_suite takes a selection   *)
(* of clips and a solver profile, compares it with selection.lock, writes  *)
(* the selection and then runs `retarget refine` sessions of one clip      *)
(* after the other, each in a process of its own, until the clip is final. *)
(*                                                                         *)
(* A selection is what selection_hash is computed from: the clips and the  *)
(* solver profile; sources, robot and meshes do not change in the model.   *)
(* The checkpoint root of a clip is keyed by the profile, its final        *)
(* artifact is not.  The driver may be killed at any step, and the session *)
(* it waits for may live on.  A session is a prefix of frames that grows   *)
(* (CheckpointRun has its steps); a final artifact is named by the profile *)
(* it was made under, since frames are written once.                       *)
(***************************************************************************)
EXTENDS Naturals, FiniteSets

CONSTANTS
  U,         \* clips of the suite, numbered in its order
  N,         \* frames of a clip
  Profiles,  \* solver profiles an operator asks for
  Single,    \* clips an operator asks for by themselves (--unit)
  None,
  Torn,      \* selection.lock was truncated and not written
  MaxStray   \* bound: sessions that live on without their driver

Units      == 1 .. U
Scopes     == {Units} \cup {{u} : u \in Single}
Selections == [units : Scopes, profile : Profiles]

ASSUME SuiteAssumption ==
  /\ U \in Nat \ {0} /\ N \in Nat /\ MaxStray \in Nat
  /\ Single \subseteq Units
  /\ None \notin Profiles
  /\ None \notin Selections /\ Torn \notin Selections /\ Torn # None

VARIABLES
  manifest,  \* selection_manifest.json: a selection, or None
  lock,      \* selection.lock: a selection, Torn or None
  trial,     \* does selection_trial_replaced.json exist?
  frames,    \* frames committed to the checkpoint root of a clip and profile
  final,     \* the profile a clip's final artifact was made under, or None
  passed,    \* the profile of the run unit_result.json says passed, or None
  sessions,  \* live `retarget refine` processes
  pc,        \* where the driver is
  sel,       \* its selection
  todo       \* clips it has not judged

suite   == <<manifest, lock, trial>>
work    == <<frames, final, sessions>>
driver  == <<pc, sel, todo>>
vars    == <<manifest, lock, trial, frames, final, sessions, passed, pc, sel, todo>>

Steps    == {"off", "checking", "listing", "truncating", "locking", "unit", "spawning", "waiting", "judging"}
Session  == [unit : Units, profile : Profiles, own : BOOLEAN, step : {"solving", "installing"}]

Init ==
  /\ manifest = None /\ lock = None /\ trial = FALSE
  /\ frames = [u \in Units |-> [q \in Profiles |-> 0]]
  /\ final = [u \in Units |-> None]
  /\ passed = [u \in Units |-> None]
  /\ sessions = {}
  /\ pc = "off" /\ sel = None /\ todo = {}

Go(from, to) == pc = from /\ pc' = to

(* The driver returns, raises or is killed. *)
End == pc' = "off" /\ sel' = None /\ todo' = {}

-----------------------------------------------------------------------------
(* The selection *)

(* run-grab-suite or evaluate-retargeting-suite, for the suite or one clip.*)
Start(s) ==
  /\ Go("off", "checking")
  /\ sel' = s
  /\ todo' = s.units
  /\ UNCHANGED <<suite, work, passed>>

(* Canonical conversion or the robot audit raised: nothing was written. *)
UpstreamFails ==
  /\ pc = "checking"
  /\ End
  /\ UNCHANGED <<suite, work, passed>>

WholeSuite(s) == s # None /\ s.units = Units

(* Replaceable: a manifest that does not list every clip of the suite. *)
TrialOfSelected ==              \* mutant: compared with the selected clips
  manifest = None \/ Cardinality(manifest.units) # Cardinality(sel.units)
Trial == ~WholeSuite(manifest)

Agrees == lock \in {None, sel}

PassLock ==
  /\ Go("checking", "listing")
  /\ \/ Agrees /\ UNCHANGED trial
     \/ ~Agrees /\ Trial /\ trial' = TRUE
  /\ UNCHANGED <<manifest, lock, work, passed, sel, todo>>

(* "selection.lock identity mismatch; refusing reselection" *)
RefuseLock ==
  /\ pc = "checking"
  /\ ~Agrees /\ ~Trial
  /\ End
  /\ UNCHANGED <<suite, work, passed>>

WriteManifest ==
  /\ Go("listing", "truncating")
  /\ manifest' = sel
  /\ UNCHANGED <<lock, trial, work, passed, sel, todo>>

(* lock_path.write_text opens the file empty before it writes the hash. *)
TruncateLock ==
  /\ Go("truncating", "locking")
  /\ lock' = Torn
  /\ UNCHANGED <<manifest, trial, work, passed, sel, todo>>

WriteLock ==
  /\ Go("locking", "unit")
  /\ lock' = sel
  /\ UNCHANGED <<manifest, trial, work, passed, sel, todo>>

-----------------------------------------------------------------------------
(* One clip after the other *)

Turn(u) == u \in todo /\ \A v \in todo : u <= v

JudgedIfPassed(u, mark) ==      \* mutant: a clip that failed is tried again
  /\ passed' = [passed EXCEPT ![u] = mark]
  /\ todo' = IF mark = None THEN todo ELSE todo \ {u}
  /\ UNCHANGED <<suite, sel>>

(* The record of the clip is written, and the next clip's turn comes. *)
Judged(u, mark) ==
  /\ passed' = [passed EXCEPT ![u] = mark]
  /\ todo' = todo \ {u}
  /\ UNCHANGED <<suite, sel>>

(* A stage before the refinement raised. *)
FailUnit(u) ==
  /\ Turn(u)
  /\ Go("unit", "unit")
  /\ Judged(u, None)
  /\ UNCHANGED work

(* The final artifact is there already: whatever profile made it. *)
Reuse(u) ==
  /\ Turn(u)
  /\ Go("unit", "judging")
  /\ final[u] # None
  /\ UNCHANGED <<suite, work, passed, sel, todo>>

Prepare(u) ==
  /\ Turn(u)
  /\ Go("unit", "spawning")
  /\ final[u] = None
  /\ UNCHANGED <<suite, work, passed, sel, todo>>

Spawn(u) ==
  /\ Turn(u)
  /\ Go("spawning", "waiting")
  /\ sessions' = sessions \cup
       {[unit |-> u, profile |-> sel.profile, own |-> TRUE, step |-> "solving"]}
  /\ UNCHANGED <<suite, frames, final, passed, sel, todo>>

(* Validation, export and viewer: each of them may fail the clip.  They    *)
(* are skipped, and the clip passes, if the artifact is gone meanwhile.    *)
Judge(u) ==
  /\ Turn(u)
  /\ Go("judging", "unit")
  /\ \E mark \in {None, sel.profile} : Judged(u, mark)
  /\ UNCHANGED work

(* Aggregate metrics and dashboard, of this run's records. *)
Report ==
  /\ pc = "unit"
  /\ todo = {}
  /\ End
  /\ UNCHANGED <<suite, work, passed>>

-----------------------------------------------------------------------------
(* Sessions: `retarget refine --resume --force --max-wall-time` *)

CommitPastEnd(s) ==             \* mutant: the range is taken as closed
  /\ s.step = "solving"
  /\ frames[s.unit][s.profile] <= N
  /\ frames' = [frames EXCEPT ![s.unit][s.profile] = @ + 1]
  /\ UNCHANGED <<suite, final, sessions, passed, driver>>

Commit(s) ==
  /\ s.step = "solving"
  /\ frames[s.unit][s.profile] < N
  /\ frames' = [frames EXCEPT ![s.unit][s.profile] = @ + 1]
  /\ UNCHANGED <<suite, final, sessions, passed, driver>>

(* With --force the assembly removes what is at the destination. *)
RemoveOld(s) ==
  /\ s.step = "solving"
  /\ frames[s.unit][s.profile] = N
  /\ final' = [final EXCEPT ![s.unit] = None]
  /\ sessions' = (sessions \ {s}) \cup {[s EXCEPT !.step = "installing"]}
  /\ UNCHANGED <<suite, frames, passed, driver>>

(* The process ends; its driver, if it is alive, goes on with the outcome.*)
Over(s, to) ==
  /\ sessions' = sessions \ {s}
  /\ pc' = IF s.own THEN to ELSE pc
  /\ UNCHANGED <<suite, frames, passed, sel, todo>>

(* Status complete. *)
Install(s) ==
  /\ s.step = "installing"
  /\ final[s.unit] = None
  /\ final' = [final EXCEPT ![s.unit] = s.profile]
  /\ Over(s, "judging")

(* The wall time is used up: the driver starts the next session. *)
Pause(s) ==
  /\ s.step = "solving"
  /\ frames[s.unit][s.profile] < N
  /\ Over(s, "spawning")
  /\ UNCHANGED final

FailRetried(s) ==               \* mutant: a failed session is started again
  /\ Over(s, "spawning")
  /\ UNCHANGED final

(* A nonzero exit, or a status the driver does not know (that of a paused  *)
(* final-job queue): the clip fails, and is not tried again in this run.   *)
Fail(s) ==
  /\ sessions' = sessions \ {s}
  /\ IF s.own
       THEN pc' = "unit" /\ Judged(s.unit, None)
       ELSE UNCHANGED <<suite, passed, driver>>
  /\ UNCHANGED <<frames, final>>

(* os.replace fails on an artifact that another session put there. *)
Clash(s) ==
  /\ s.step = "installing"
  /\ final[s.unit] # None
  /\ Fail(s)

Own    == {s \in sessions : s.own}
Strays == sessions \ Own

(* Killed, with its session or without it; or an exception that no clip   *)
(* catches, as one of the mesh audit after the lock.                       *)
Kill ==
  /\ pc # "off"
  /\ End
  /\ \/ sessions' = Strays
     \/ /\ Cardinality(Strays) < MaxStray
        /\ sessions' = Strays \cup {[s EXCEPT !.own = FALSE] : s \in Own}
  /\ UNCHANGED <<suite, frames, final, passed>>

-----------------------------------------------------------------------------
DriverStep ==
  \/ PassLock
  \/ RefuseLock
  \/ WriteManifest
  \/ TruncateLock
  \/ WriteLock
  \/ \E u \in Units : Reuse(u)
  \/ \E u \in Units : Prepare(u)
  \/ \E u \in Units : Spawn(u)
  \/ \E u \in Units : Judge(u)
  \/ Report

SessionStep(s) == Commit(s) \/ RemoveOld(s) \/ Install(s) \/ Clash(s)

Next ==
  \/ \E s \in Selections : Start(s)
  \/ UpstreamFails
  \/ DriverStep
  \/ \E u \in Units : FailUnit(u)
  \/ \E s \in sessions : SessionStep(s)
  \/ \E s \in sessions : Pause(s)
  \/ \E s \in sessions : Fail(s)
  \/ Kill

Spec == Init /\ [][Next]_vars

(* The driver goes on.  A session ends, and sessions that are started again*)
(* and again commit a frame some time: their wall time is enough for one.  *)
OwnSession(u) == \E s \in sessions : s.own /\ s.unit = u /\ SessionStep(s)
Fairness == WF_vars(DriverStep) /\ \A u \in Units : SF_vars(OwnSession(u))
FairSpec == Spec /\ Fairness

-----------------------------------------------------------------------------
(* Properties *)

TypeOK ==
  /\ manifest \in Selections \cup {None}
  /\ lock \in Selections \cup {None, Torn}
  /\ trial \in BOOLEAN
  /\ frames \in [Units -> [Profiles -> 0 .. N]]
  /\ final \in [Units -> Profiles \cup {None}]
  /\ passed \in [Units -> Profiles \cup {None}]
  /\ sessions \subseteq Session
  /\ pc \in Steps
  /\ sel \in Selections \cup {None}
  /\ todo \subseteq Units

(* Once the selection of the whole suite is locked no run replaces it,     *)
(* whatever was killed, also in the middle of writing the lock ("no        *)
(* result-based reselection", "refusing reselection").                     *)
SelectionStays ==
  [][WholeSuite(manifest) /\ lock \in {manifest, Torn} => manifest' = manifest]_vars

(* "selection.lock freezes the three native frame windows and binds ...    *)
(* solver hashes": a clip that passed under the locked selection passed on *)
(* an artifact of that selection's solver profile.                         *)
LockBindsSolver ==
  lock \notin {None, Torn} =>
    \A u \in Units : passed[u] = lock.profile => final[u] \in {None, lock.profile}

(* It can fail only in a suite whose selection was replaced: a clip passed *)
(* with a final artifact of another profile than its run's only if         *)
(* selection_trial_replaced.json exists.                                   *)
ForeignFinalIsRecorded ==
  \A u \in Units : passed[u] # None /\ final[u] \notin {None, passed[u]} => trial

(* How far the driver is: before the clips, and with one of them. *)
Place == CASE pc = "checking"   -> 0
           [] pc = "listing"    -> 1
           [] pc = "truncating" -> 2
           [] pc = "locking"    -> 3
           [] pc = "unit"       -> 4
           [] pc = "spawning"   -> 5
           [] pc = "waiting"    -> 6
           [] OTHER             -> 7

(* A run never goes back, but to start another session of a clip that has  *)
(* frames left: it waits, or goes on with the clip whose turn it is, or is *)
(* over with that clip, which it then does not come to again.  So only     *)
(* sessions that commit nothing can keep it from ending.                   *)
RunAdvances ==
  [][pc # "off" /\ pc' # "off" =>
       \/ UNCHANGED driver
       \/ /\ sel' = sel
          /\ \/ todo' = todo /\ Place' > Place
             \/ \E u \in Units :
                  /\ Turn(u)
                  /\ \/ todo' = todo \ {u}
                     \/ /\ todo' = todo /\ pc = "waiting" /\ pc' = "spawning"
                        /\ frames[u][sel.profile] < N]_vars

(* The loop over paused sessions ends: every run that is started ends, in  *)
(* a report or a refusal, or is killed.                                    *)
RunEnds == (pc # "off") ~> (pc = "off")
=============================================================================
