--------------------------- MODULE GrabSuiteProofs ---------------------------
(***************************************************************************)
(* Theorems about GrabSuite for any number of clips, profiles, frames and  *)
(* sessions that outlive their driver.                                     *)
(*                                                                         *)
(* SuiteInv is inductive.  Its core is BoundInv: as long as no replaced    *)
(* selection is on record, every profile that left a trace in the suite (a *)
(* live session, a final artifact, a pass) is that of the manifest.  The   *)
(* manifest is written before the lock, so the invariant also says what a  *)
(* lock that is absent, torn or of an older selection tells of it.         *)
(***************************************************************************)
EXTENDS GrabSuite, TLAPS

AtUnits == {"unit", "spawning", "waiting", "judging"}

(* The profile q left something behind in the suite. *)
InUse(q) ==
  \/ \E u \in Units : final[u] = q \/ passed[u] = q
  \/ \E s \in sessions : s.profile = q

BoundInv == \A q \in Profiles : InUse(q) => trial \/ (manifest # None /\ manifest.profile = q)
LockInv ==
  /\ lock = None => \A q \in Profiles : ~InUse(q)
  /\ lock \notin {None, Torn} /\ lock # manifest => trial
DriverInv ==
  /\ pc # "off" => sel \in Selections
  /\ pc = "listing" => Agrees \/ (trial /\ ~WholeSuite(manifest))
  /\ pc \in {"truncating", "locking"} => manifest = sel
  /\ pc \in AtUnits => manifest = sel /\ lock = sel
OwnInv ==
  /\ \A s \in sessions : s.own => pc = "waiting"
  /\ \A s, t \in sessions : s.own /\ t.own => s = t

SuiteInv == TypeOK /\ BoundInv /\ LockInv /\ DriverInv /\ OwnInv

-----------------------------------------------------------------------------
(* Types *)

LEMMA InitType == Init => TypeOK
<1> SUFFICES ASSUME Init PROVE TypeOK
  OBVIOUS
<1>1. frames \in [Units -> [Profiles -> 0 .. N]]
  <2>1. 0 \in 0 .. N
    BY SuiteAssumption
  <2> QED BY <2>1 DEF Init
<1> QED BY <1>1 DEF Init, TypeOK, Steps

LEMMA SelectionShape ==
  ASSUME NEW s \in Selections
  PROVE  s.units \subseteq Units /\ s.profile \in Profiles
BY SuiteAssumption DEF Selections, Scopes

LEMMA EndType ==
  ASSUME TypeOK, End, UNCHANGED suite, UNCHANGED <<frames, final, passed>>, sessions' \subseteq Session
  PROVE  TypeOK'
BY DEF TypeOK, End, suite, Steps

LEMMA SelectType ==
  ASSUME TypeOK, DriverInv,
         \/ \E s \in Selections : Start(s)
         \/ PassLock \/ WriteManifest \/ TruncateLock \/ WriteLock
  PROVE  TypeOK'
<1> USE DEF TypeOK, Go, suite, work, Steps
<1>1. ASSUME NEW s \in Selections, Start(s) PROVE TypeOK'
  BY <1>1, SelectionShape DEF Start
<1>2. CASE PassLock
  BY <1>2 DEF PassLock
<1>3. CASE WriteManifest
  BY <1>3 DEF WriteManifest, DriverInv
<1>4. CASE TruncateLock
  BY <1>4 DEF TruncateLock
<1>5. CASE WriteLock
  BY <1>5 DEF WriteLock, DriverInv
<1> QED BY <1>1, <1>2, <1>3, <1>4, <1>5

LEMMA UnitType ==
  ASSUME TypeOK, DriverInv, NEW u \in Units,
         FailUnit(u) \/ Reuse(u) \/ Prepare(u) \/ Spawn(u) \/ Judge(u)
  PROVE  TypeOK'
<1> USE DEF TypeOK, Go, suite, work, Steps, Judged
<1>1. CASE FailUnit(u) \/ Reuse(u) \/ Prepare(u)
  BY <1>1 DEF FailUnit, Reuse, Prepare
<1>2. pc # "off" => sel.profile \in Profiles
  BY SelectionShape DEF DriverInv
<1>3. CASE Spawn(u)
  <2>1. [unit |-> u, profile |-> sel.profile, own |-> TRUE, step |-> "solving"] \in Session
    BY <1>2, <1>3 DEF Spawn, Session
  <2> QED BY <1>3, <2>1 DEF Spawn
<1>4. CASE Judge(u)
  BY <1>2, <1>4 DEF Judge
<1> QED BY <1>1, <1>3, <1>4

LEMMA SessionType ==
  ASSUME TypeOK, NEW s \in sessions, SessionStep(s) \/ Pause(s) \/ Fail(s)
  PROVE  TypeOK'
<1> USE DEF suite, driver
<1>1. s \in Session /\ s.unit \in Units /\ s.profile \in Profiles
  BY DEF TypeOK, Session
<1>2. CASE Commit(s)
  <2>1. frames[s.unit][s.profile] + 1 \in 0 .. N
    BY <1>1, <1>2, SuiteAssumption DEF Commit, TypeOK
  <2>2. frames' \in [Units -> [Profiles -> 0 .. N]]
    BY <1>1, <1>2, <2>1 DEF Commit, TypeOK
  <2> QED BY <1>2, <2>2 DEF Commit, TypeOK
<1>3. CASE RemoveOld(s)
  <2>1. [s EXCEPT !.step = "installing"] \in Session
    BY <1>1 DEF Session
  <2> QED BY <1>1, <1>3, <2>1 DEF RemoveOld, TypeOK
<1>4. CASE Install(s)
  BY <1>1, <1>4 DEF Install, Over, TypeOK, Steps
<1>5. CASE Pause(s)
  BY <1>1, <1>5 DEF Pause, Over, TypeOK, Steps
<1>6. CASE Fail(s) \/ Clash(s)
  BY <1>1, <1>6 DEF Fail, Clash, Judged, TypeOK, Steps
<1> QED BY <1>2, <1>3, <1>4, <1>5, <1>6 DEF SessionStep

LEMMA KillType ==
  ASSUME TypeOK, Kill
  PROVE  TypeOK'
<1>1. \A s \in Own : [s EXCEPT !.own = FALSE] \in Session
  BY DEF TypeOK, Own, Session
<1>2. sessions' \subseteq Session
  BY <1>1 DEF Kill, Strays, TypeOK
<1> QED BY <1>2, EndType DEF Kill

LEMMA TypeStep ==
  ASSUME TypeOK, DriverInv, [Next]_vars
  PROVE  TypeOK'
<1>1. CASE UNCHANGED vars
  BY <1>1 DEF vars, TypeOK
<1>2. CASE UpstreamFails \/ RefuseLock \/ Report
  BY <1>2, EndType DEF UpstreamFails, RefuseLock, Report, work, TypeOK
<1> QED BY <1>1, <1>2, SelectType, UnitType, SessionType, KillType DEF Next, DriverStep

-----------------------------------------------------------------------------
(* The driver, and the session it owns *)

LEMMA SelectDriver ==
  ASSUME SuiteInv,
         \/ \E s \in Selections : Start(s)
         \/ PassLock \/ WriteManifest \/ TruncateLock \/ WriteLock
  PROVE  DriverInv' /\ OwnInv'
<1> USE DEF SuiteInv, TypeOK, DriverInv, OwnInv, Go, suite, work, AtUnits, Agrees, Trial, WholeSuite
<1>1. ASSUME NEW s \in Selections, Start(s) PROVE DriverInv' /\ OwnInv'
  BY <1>1 DEF Start
<1>2. CASE PassLock
  BY <1>2 DEF PassLock
<1>3. CASE WriteManifest \/ TruncateLock \/ WriteLock
  BY <1>3 DEF WriteManifest, TruncateLock, WriteLock
<1> QED BY <1>1, <1>2, <1>3

LEMMA UnitDriver ==
  ASSUME SuiteInv, NEW u \in Units,
         FailUnit(u) \/ Reuse(u) \/ Prepare(u) \/ Spawn(u) \/ Judge(u)
  PROVE  DriverInv' /\ OwnInv'
<1> USE DEF SuiteInv, DriverInv, OwnInv, Go, suite, work, AtUnits, Agrees, Judged
<1>1. CASE FailUnit(u) \/ Reuse(u) \/ Prepare(u) \/ Judge(u)
  BY <1>1 DEF FailUnit, Reuse, Prepare, Judge
<1>2. CASE Spawn(u)
  BY <1>2 DEF Spawn
<1> QED BY <1>1, <1>2

LEMMA EndDriver ==
  ASSUME SuiteInv, End, \A s \in sessions' : ~s.own
  PROVE  DriverInv' /\ OwnInv'
BY DEF End, DriverInv, OwnInv, AtUnits

LEMMA SessionDriver ==
  ASSUME SuiteInv, NEW s \in sessions, SessionStep(s) \/ Pause(s) \/ Fail(s)
  PROVE  DriverInv' /\ OwnInv'
<1> USE DEF SuiteInv, DriverInv, OwnInv, suite, driver, AtUnits, Agrees
<1>1. CASE Commit(s)
  BY <1>1 DEF Commit
<1>2. CASE RemoveOld(s)
  <2>1. [s EXCEPT !.step = "installing"].own = s.own
    BY DEF TypeOK, Session
  <2> QED BY <1>2, <2>1 DEF RemoveOld
<1>3. CASE Install(s) \/ Pause(s)
  BY <1>3 DEF Install, Pause, Over
<1>4. CASE Fail(s) \/ Clash(s)
  BY <1>4 DEF Fail, Clash, Judged
<1> QED BY <1>1, <1>2, <1>3, <1>4 DEF SessionStep

LEMMA DriverStays ==
  ASSUME SuiteInv, [Next]_vars
  PROVE  DriverInv' /\ OwnInv'
<1>1. CASE UNCHANGED vars
  BY <1>1 DEF vars, SuiteInv, DriverInv, OwnInv, AtUnits, Agrees
<1>2. CASE UpstreamFails \/ RefuseLock \/ Report
  BY <1>2, EndDriver DEF UpstreamFails, RefuseLock, Report, work, SuiteInv, OwnInv
<1>3. CASE Kill
  <2>1. \A s \in Own : ~[s EXCEPT !.own = FALSE].own
    BY DEF Own, SuiteInv, TypeOK, Session
  <2>2. \A s \in sessions' : s \in Strays \/ \E t \in Own : s = [t EXCEPT !.own = FALSE]
    BY <1>3 DEF Kill
  <2>3. \A s \in sessions' : ~s.own
    BY <2>1, <2>2 DEF Strays, Own
  <2> QED BY <1>3, <2>3, EndDriver DEF Kill
<1> QED BY <1>1, <1>2, <1>3, SelectDriver, UnitDriver, SessionDriver DEF Next, DriverStep

-----------------------------------------------------------------------------
(* What the lock and the manifest say of the suite *)

(* A step that brings no new profile into the suite and leaves the         *)
(* selection alone. *)
LEMMA NothingNew ==
  ASSUME SuiteInv, UNCHANGED <<manifest, lock>>, trial => trial',
         \A q \in Profiles : InUse(q)' => InUse(q) \/ (pc \in AtUnits /\ q = sel.profile)
  PROVE  BoundInv' /\ LockInv'
<1>1. pc \in AtUnits => lock # None /\ manifest # None /\ manifest = sel
  BY SuiteAssumption DEF SuiteInv, DriverInv, AtUnits
<1> QED BY <1>1 DEF SuiteInv, BoundInv, LockInv

LEMMA SameUse ==
  ASSUME UNCHANGED <<final, passed, sessions>>, NEW q
  PROVE  InUse(q)' <=> InUse(q)
BY DEF InUse

LEMMA SelectBound ==
  ASSUME SuiteInv,
         \/ \E s \in Selections : Start(s)
         \/ PassLock \/ WriteManifest \/ TruncateLock \/ WriteLock
  PROVE  BoundInv' /\ LockInv'
<1>1. UNCHANGED <<final, passed, sessions>>
  BY DEF Start, PassLock, WriteManifest, TruncateLock, WriteLock, work
<1>2. \A q \in Profiles : InUse(q)' <=> InUse(q)
  BY <1>1, SameUse
<1>3. pc # "off" => sel \in Selections /\ sel # None /\ sel # Torn
  BY SuiteAssumption DEF SuiteInv, DriverInv
<1>4. ASSUME NEW s \in Selections, Start(s) PROVE BoundInv' /\ LockInv'
  BY <1>2, <1>4, NothingNew DEF Start, suite
<1>5. CASE PassLock
  BY <1>2, <1>5, NothingNew DEF PassLock
<1>6. CASE WriteManifest
  <2>1. pc = "listing" /\ manifest' = sel /\ lock' = lock /\ trial' = trial
    BY <1>6 DEF WriteManifest, Go
  <2>2. Agrees \/ trial
    BY <2>1 DEF SuiteInv, DriverInv
  <2>3. CASE trial
    BY <1>2, <2>1, <2>3 DEF SuiteInv, BoundInv, LockInv
  <2>4. CASE ~trial /\ lock = None
    BY <1>2, <2>1, <2>4 DEF SuiteInv, BoundInv, LockInv
  <2>5. CASE ~trial /\ lock = sel
    <3>1. manifest = sel
      BY <1>3, <2>1, <2>5 DEF SuiteInv, LockInv
    <3> QED BY <1>2, <2>1, <3>1 DEF SuiteInv, BoundInv, LockInv
  <2> QED BY <2>2, <2>3, <2>4, <2>5 DEF Agrees
<1>7. CASE TruncateLock
  BY <1>2, <1>7, SuiteAssumption DEF TruncateLock, SuiteInv, BoundInv, LockInv
<1>8. CASE WriteLock
  <2>1. manifest = sel /\ lock' = sel /\ UNCHANGED <<manifest, trial>> /\ sel # None
    BY <1>3, <1>8 DEF WriteLock, Go, SuiteInv, DriverInv
  <2> QED BY <1>2, <2>1 DEF SuiteInv, BoundInv, LockInv
<1> QED BY <1>4, <1>5, <1>6, <1>7, <1>8

LEMMA UnitBound ==
  ASSUME SuiteInv, NEW u \in Units,
         FailUnit(u) \/ Reuse(u) \/ Prepare(u) \/ Spawn(u) \/ Judge(u)
  PROVE  BoundInv' /\ LockInv'
<1>1. UNCHANGED suite /\ pc \in AtUnits /\ final' = final
  BY DEF FailUnit, Reuse, Prepare, Spawn, Judge, Judged, Go, AtUnits, work
<1>2. sessions' = sessions \/ sessions' = sessions \cup
        {[unit |-> u, profile |-> sel.profile, own |-> TRUE, step |-> "solving"]}
  BY DEF FailUnit, Reuse, Prepare, Spawn, Judge, work
<1>3. \A v \in Units : passed'[v] \in {passed[v], None, sel.profile}
  BY DEF FailUnit, Reuse, Prepare, Spawn, Judge, Judged, SuiteInv, TypeOK
<1>4. \A q \in Profiles : InUse(q)' => InUse(q) \/ q = sel.profile
  BY <1>1, <1>2, <1>3, SuiteAssumption DEF InUse
<1> QED BY <1>1, <1>4, NothingNew DEF suite

LEMMA SessionBound ==
  ASSUME SuiteInv, NEW s \in sessions, SessionStep(s) \/ Pause(s) \/ Fail(s)
  PROVE  BoundInv' /\ LockInv'
<1>1. UNCHANGED suite
  BY DEF SessionStep, Commit, RemoveOld, Install, Clash, Pause, Fail, Over, Judged
<1>2. \A v \in Units : final'[v] \in {final[v], None, s.profile}
  BY DEF SessionStep, Commit, RemoveOld, Install, Clash, Pause, Fail, SuiteInv, TypeOK
<1>3. \A v \in Units : passed'[v] \in {passed[v], None}
  BY DEF SessionStep, Commit, RemoveOld, Install, Clash, Pause, Fail, Over, Judged, SuiteInv, TypeOK
<1>4. \A t \in sessions' : t \in sessions \/ t.profile = s.profile
  BY DEF SessionStep, Commit, RemoveOld, Install, Clash, Pause, Fail, Over, SuiteInv, TypeOK, Session
<1>5. \A q \in Profiles : InUse(q)' => InUse(q)
  BY <1>2, <1>3, <1>4, SuiteAssumption DEF InUse
<1> QED BY <1>1, <1>5, NothingNew DEF suite

LEMMA EndBound ==
  ASSUME SuiteInv, UNCHANGED suite, UNCHANGED <<final, passed>>,
         \A s \in sessions' : \E t \in sessions : t.profile = s.profile
  PROVE  BoundInv' /\ LockInv'
<1>1. \A q \in Profiles : InUse(q)' => InUse(q)
  BY DEF InUse
<1> QED BY <1>1, NothingNew DEF suite

LEMMA BoundStays ==
  ASSUME SuiteInv, [Next]_vars
  PROVE  BoundInv' /\ LockInv'
<1>1. CASE UNCHANGED vars
  BY <1>1, EndBound DEF vars, suite
<1>2. CASE UpstreamFails \/ RefuseLock \/ Report
  BY <1>2, EndBound DEF UpstreamFails, RefuseLock, Report, work
<1>3. CASE Kill
  <2>1. \A s \in Own : [s EXCEPT !.own = FALSE].profile = s.profile
    BY DEF Own, SuiteInv, TypeOK, Session
  <2>2. \A s \in sessions' : s \in Strays \/ \E t \in Own : s = [t EXCEPT !.own = FALSE]
    BY <1>3 DEF Kill
  <2>3. ASSUME NEW s \in sessions' PROVE \E t \in sessions : t.profile = s.profile
    <3>1. CASE s \in Strays
      BY <3>1 DEF Strays
    <3>2. CASE s \notin Strays
      <4>1. PICK t \in Own : s = [t EXCEPT !.own = FALSE]
        BY <2>2, <3>2
      <4>2. t \in sessions /\ t.profile = s.profile
        BY <2>1, <4>1 DEF Own
      <4> QED BY <4>2
    <3> QED BY <3>1, <3>2
  <2> QED BY <1>3, <2>3, EndBound DEF Kill
<1> QED BY <1>1, <1>2, <1>3, SelectBound, UnitBound, SessionBound DEF Next, DriverStep

-----------------------------------------------------------------------------
(* The theorems *)

LEMMA InitSuite == Init => SuiteInv
<1> SUFFICES ASSUME Init PROVE SuiteInv
  OBVIOUS
<1>1. TypeOK
  BY InitType
<1>2. \A q \in Profiles : ~InUse(q)
  BY SuiteAssumption DEF Init, InUse
<1> QED BY <1>1, <1>2 DEF SuiteInv, Init, BoundInv, LockInv, DriverInv, OwnInv, AtUnits

LEMMA SuiteStep ==
  ASSUME SuiteInv, [Next]_vars
  PROVE  SuiteInv'
<1>1. TypeOK'
  BY TypeStep DEF SuiteInv
<1> QED BY <1>1, DriverStays, BoundStays DEF SuiteInv

(* The inductive invariant of the suite. *)
THEOREM SuiteInvariant == Spec => []SuiteInv
BY InitSuite, SuiteStep, PTL DEF Spec

(* Type correctness of the suite. *)
THEOREM TypeCorrect == Spec => []TypeOK
<1>1. SuiteInv => TypeOK
  BY DEF SuiteInv
<1> QED BY <1>1, SuiteInvariant, PTL

(* LockBindsSolver fails in no other way than by a replaced trial: where a *)
(* clip passed on another profile's artifact, the record of a replaced     *)
(* selection exists.                                                       *)
THEOREM ForeignRecorded == Spec => []ForeignFinalIsRecorded
<1>1. SuiteInv => ForeignFinalIsRecorded
  <2> SUFFICES ASSUME SuiteInv, NEW u \in Units, passed[u] # None, final[u] \notin {None, passed[u]}
               PROVE  trial
    BY DEF ForeignFinalIsRecorded
  <2>1. final[u] \in Profiles /\ passed[u] \in Profiles
    BY DEF SuiteInv, TypeOK
  <2>2. InUse(final[u]) /\ InUse(passed[u])
    BY DEF InUse
  <2> QED BY <2>1, <2>2 DEF SuiteInv, BoundInv
<1> QED BY <1>1, SuiteInvariant, PTL

(* The locked selection of the whole suite is never replaced. *)
THEOREM LockedSelectionStays == Spec => SelectionStays
<1>1. ASSUME SuiteInv, [Next]_vars, WholeSuite(manifest), lock \in {manifest, Torn}
      PROVE  manifest' = manifest
  <2>1. CASE WriteManifest
    <3>1. pc = "listing" /\ manifest' = sel /\ sel \in Selections
      BY <1>1, <2>1 DEF WriteManifest, Go, SuiteInv, DriverInv
    <3>2. lock = None \/ lock = sel
      BY <1>1, <3>1 DEF SuiteInv, DriverInv, Agrees
    <3>3. manifest # None /\ sel # Torn /\ Torn # None
      BY <1>1, <3>1, SuiteAssumption DEF WholeSuite
    <3> QED BY <1>1, <3>1, <3>2, <3>3
  <2>2. CASE ~WriteManifest
    BY <1>1, <2>2 DEF Next, vars, DriverStep, SessionStep, Start, UpstreamFails, PassLock, RefuseLock,
       TruncateLock, WriteLock, Reuse, Prepare, Spawn, Judge, Report, FailUnit, Judged, Commit,
       RemoveOld, Install, Clash, Pause, Fail, Over, Kill, suite
  <2> QED BY <2>1, <2>2
<1>2. SuiteInv /\ [Next]_vars =>
        [WholeSuite(manifest) /\ lock \in {manifest, Torn} => manifest' = manifest]_vars
  BY <1>1
<1> QED BY <1>2, SuiteInvariant, PTL DEF Spec, SelectionStays

-----------------------------------------------------------------------------
(* The driver goes forward.  While it waits there is a session of its own, *)
(* and that is of the clip whose turn it is, under the run's profile.      *)
Waits(s) == s.own /\ Turn(s.unit) /\ s.profile = sel.profile
TurnInv == pc = "waiting" => \E s \in sessions : Waits(s)

(* The session that ends under a waiting driver is the one it waits for. *)
LEMMA OwnWaits ==
  ASSUME SuiteInv, TurnInv, NEW s \in sessions, s.own
  PROVE  /\ pc = "waiting" /\ Turn(s.unit) /\ s.profile = sel.profile
         /\ s.unit \in Units /\ \A t \in sessions : t.own => t = s
<1>1. pc = "waiting" /\ \A t \in sessions : t.own => t = s
  BY DEF SuiteInv, OwnInv
<1> QED BY <1>1 DEF TurnInv, Waits, SuiteInv, TypeOK, Session

LEMMA SessionWaits ==
  ASSUME SuiteInv, TurnInv, NEW s \in sessions, SessionStep(s) \/ Pause(s) \/ Fail(s)
  PROVE  TurnInv'
<1> SUFFICES ASSUME pc' = "waiting" PROVE \E t \in sessions' : Waits(t)'
  BY DEF TurnInv
<1>1. pc = "waiting" /\ UNCHANGED <<sel, todo>>
  BY OwnWaits DEF SessionStep, Commit, RemoveOld, Install, Clash, Pause, Fail, Over, Judged, driver
<1>2. PICK t \in sessions : Waits(t)
  BY <1>1 DEF TurnInv
<1>3. CASE t \in sessions'
  BY <1>1, <1>2, <1>3 DEF Waits, Turn
<1>4. CASE t \notin sessions'
  <2>1. t = s
    BY <1>4 DEF SessionStep, Commit, RemoveOld, Install, Clash, Pause, Fail, Over
  <2>2. ~(Install(s) \/ Pause(s) \/ Fail(s) \/ Clash(s))
    BY <1>2, <2>1 DEF Install, Pause, Fail, Clash, Over, Waits
  <2>3. RemoveOld(s)
    BY <1>4, <2>1, <2>2 DEF SessionStep, Commit
  <2>4. [s EXCEPT !.step = "installing"] \in sessions'
    BY <2>3 DEF RemoveOld
  <2>5. /\ [s EXCEPT !.step = "installing"].own = s.own
        /\ [s EXCEPT !.step = "installing"].unit = s.unit
        /\ [s EXCEPT !.step = "installing"].profile = s.profile
    BY DEF SuiteInv, TypeOK, Session
  <2>6. Waits([s EXCEPT !.step = "installing"])'
    BY <1>1, <1>2, <2>1, <2>5 DEF Waits, Turn
  <2> QED BY <2>4, <2>6
<1> QED BY <1>3, <1>4

LEMMA SpawnWaits ==
  ASSUME NEW u \in Units, Spawn(u)
  PROVE  TurnInv'
<1> DEFINE t == [unit |-> u, profile |-> sel.profile, own |-> TRUE, step |-> "solving"]
<1>1. t \in sessions' /\ UNCHANGED <<sel, todo>> /\ Turn(u)
  BY DEF Spawn
<1>2. Waits(t)'
  BY <1>1 DEF Waits, Turn
<1> QED BY <1>1, <1>2 DEF TurnInv

LEMMA TurnStep ==
  ASSUME SuiteInv, TurnInv, [Next]_vars
  PROVE  TurnInv'
<1>1. CASE UNCHANGED vars
  BY <1>1 DEF vars, TurnInv, Waits, Turn
<1>2. ASSUME pc' # "waiting" PROVE TurnInv'
  BY <1>2 DEF TurnInv
<1>3. CASE \/ \E s \in Selections : Start(s)
           \/ UpstreamFails \/ RefuseLock \/ Report \/ Kill
           \/ PassLock \/ WriteManifest \/ TruncateLock \/ WriteLock
           \/ \E u \in Units : FailUnit(u) \/ Reuse(u) \/ Prepare(u) \/ Judge(u)
  BY <1>2, <1>3 DEF Start, UpstreamFails, RefuseLock, Report, Kill, End, PassLock, WriteManifest,
     TruncateLock, WriteLock, FailUnit, Reuse, Prepare, Judge, Go
<1> QED BY <1>1, <1>3, SessionWaits, SpawnWaits DEF Next, DriverStep

(* What RunAdvances says of a step. *)
Advance ==
  pc # "off" /\ pc' # "off" =>
    \/ UNCHANGED driver
    \/ /\ sel' = sel
       /\ \/ todo' = todo /\ Place' > Place
          \/ \E u \in Units :
               /\ Turn(u)
               /\ \/ todo' = todo \ {u}
                  \/ /\ todo' = todo /\ pc = "waiting" /\ pc' = "spawning"
                     /\ frames[u][sel.profile] < N

LEMMA DriverAdvances ==
  ASSUME \/ PassLock \/ WriteManifest \/ TruncateLock \/ WriteLock
         \/ \E u \in Units : FailUnit(u) \/ Reuse(u) \/ Prepare(u) \/ Spawn(u) \/ Judge(u)
  PROVE  Advance
<1> USE DEF Go, Place, Advance
<1>1. CASE PassLock \/ WriteManifest \/ TruncateLock \/ WriteLock
  BY <1>1 DEF PassLock, WriteManifest, TruncateLock, WriteLock
<1>2. ASSUME NEW u \in Units, Reuse(u) \/ Prepare(u) \/ Spawn(u) PROVE Advance
  BY <1>2 DEF Reuse, Prepare, Spawn
<1>3. ASSUME NEW u \in Units, FailUnit(u) \/ Judge(u) PROVE Advance
  BY <1>3 DEF FailUnit, Judge, Judged
<1> QED BY <1>1, <1>2, <1>3

LEMMA SessionAdvances ==
  ASSUME SuiteInv, TurnInv, NEW s \in sessions, SessionStep(s) \/ Pause(s) \/ Fail(s)
  PROVE  Advance
<1> USE DEF Advance, driver
<1>1. CASE ~s.own
  BY <1>1 DEF SessionStep, Commit, RemoveOld, Install, Clash, Pause, Fail, Over
<1>2. CASE s.own
  <2>1. pc = "waiting" /\ Turn(s.unit) /\ s.profile = sel.profile /\ s.unit \in Units
    BY <1>2, OwnWaits
  <2>2. CASE Commit(s) \/ RemoveOld(s)
    BY <2>2 DEF Commit, RemoveOld
  <2>3. CASE Install(s)
    BY <1>2, <2>1, <2>3 DEF Install, Over, Place
  <2>4. CASE Pause(s)
    BY <1>2, <2>1, <2>4 DEF Pause, Over
  <2>5. CASE Fail(s) \/ Clash(s)
    BY <1>2, <2>1, <2>5 DEF Fail, Clash, Judged
  <2> QED BY <2>2, <2>3, <2>4, <2>5 DEF SessionStep
<1> QED BY <1>1, <1>2

LEMMA AdvanceStep ==
  ASSUME SuiteInv, TurnInv, [Next]_vars
  PROVE  [Advance]_vars
<1>1. CASE \/ \E s \in Selections : Start(s)
           \/ UpstreamFails \/ RefuseLock \/ Report \/ Kill
  BY <1>1 DEF Start, UpstreamFails, RefuseLock, Report, Kill, End, Go, Advance
<1> QED BY <1>1, DriverAdvances, SessionAdvances DEF Next, DriverStep

(* A run goes on with its clips in their order and comes back to none; the *)
(* one step back starts another session of a clip with frames left.        *)
THEOREM EveryTurnAdvances == Spec => RunAdvances
<1>1. Init => TurnInv
  BY DEF Init, TurnInv
<1>2. SuiteInv /\ TurnInv /\ [Next]_vars => TurnInv'
  BY TurnStep
<1>3. SuiteInv /\ TurnInv /\ [Next]_vars => [Advance]_vars
  BY AdvanceStep
<1>4. [][Advance]_vars => RunAdvances
  BY PTL DEF Advance, RunAdvances
<1> QED BY SuiteInvariant, <1>1, <1>2, <1>3, <1>4, PTL DEF Spec
=============================================================================
