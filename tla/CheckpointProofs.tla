--------------------------- MODULE CheckpointProofs ---------------------------
(***************************************************************************)
(* Theorems about CheckpointRun for any clip length, any number of         *)
(* processes and any number of solves, with Exclusive sessions (what       *)
(* FinalJobsProofs!JobExclusion shows for sessions the queue started).     *)
(*                                                                         *)
(* RunInv is inductive under every rejection policy.  Its core is Rule: a  *)
(* payload links to what it was solved from, or else to something older    *)
(* than the frame before it, and an older link is exactly what Linked      *)
(* refuses when the artifact is assembled.  Under StopOnReject ChainInv is *)
(* inductive as well: the store is a gapless prefix in which every frame   *)
(* continues the one before.                                               *)
(***************************************************************************)
EXTENDS CheckpointRun, TLAPS

InLoop     == {"loop", "solved", "rejected", "writing"}
HasPayload == {"solved", "rejected", "writing"}
HasRows    == {"checking", "staging", "installing"}

OneSession == \A p, q \in Procs : pc[p] \in InSession /\ pc[q] \in InSession => p = q

(* How a frame's content relates to the frame it was solved from.  A link  *)
(* that is not to that frame is to an older one.                           *)
Rule(n, from, link) ==
  /\ n = 0 => from = None /\ link = None
  /\ n # 0 => from # None /\ Made(from) /\ made[from].frame = n - 1
  /\ link # None => Made(link)
  /\ link = from \/ (n # 0 /\ (link # None => made[link].frame < n - 1))

RuleInv == \A x \in Payloads : Made(x) => Rule(made[x].frame, made[x].from, made[x].link)
FileInv == \A f \in Frames : file[f] # None => Made(file[f]) /\ made[file[f]].frame = f

(* What a process may rely on between two of its steps. *)
Reached(p) == \A f \in Frames : f < next[p] => file[f] # None
Holds(p) ==
  /\ next[p] \in Frames
  /\ new[p] # None
  /\ made[new[p]] = [frame |-> next[p], from |-> state[p], link |-> last[p]]
Frozen == (\A f \in Frames : file[f] # None) /\ Linked
Local(p) ==
  /\ pc[p] = "loading" => Reached(p)
  /\ pc[p] \in InLoop => Rule(next[p], state[p], last[p])
  /\ pc[p] \in HasPayload => Holds(p)
  /\ pc[p] = "writing" => file[next[p]] = None
  /\ pc[p] = "reading" => Frozen
  /\ pc[p] \in HasRows => rows[p] = file /\ Frozen
LocalInv   == \A p \in Procs : Local(p)
PublishInv == artifact # None => artifact = file /\ Frozen

RunInv == TypeOK /\ OneSession /\ RuleInv /\ FileInv /\ LocalInv /\ PublishInv

(* With rejections ending the session. *)
PrefixInv == \A f \in Frames :
               file[f] # None =>
                 /\ \A g \in Frames : g < f => file[g] # None
                 /\ made[file[f]] = [frame |-> f, from |-> Before(f), link |-> Before(f)]
CursorInv == \A p \in Procs : pc[p] \in InLoop =>
               /\ \A f \in Frames : f < next[p] => file[f] # None
               /\ state[p] = Before(next[p]) /\ last[p] = Before(next[p])
ChainInv  == PrefixInv /\ CursorInv /\ CompleteMeansWhole

USE DEF InSession, InAssembly, Done, Statuses, InLoop, HasPayload, HasRows

-----------------------------------------------------------------------------
(* Types *)

LEMMA InitType == Init => TypeOK
BY FramesAssumption DEF Init, TypeOK, Unmade, Content, Maybe, NoRows, Frames

LEMMA ExitType ==
  ASSUME TypeOK, NEW p \in Procs, Exit(p), made' \in [Payloads -> Content],
         root' = root, file' \in [Frames -> Maybe], damaged' \in SUBSET Frames,
         progress' \in Statuses, artifact' \in [Frames -> Maybe] \cup {None}
  PROVE  TypeOK'
BY FramesAssumption DEF TypeOK, Exit, Maybe, NoRows, Frames

LEMMA CursorBound ==
  ASSUME LocalInv, NEW p \in Procs, pc[p] \in HasPayload
  PROVE  next[p] \in Frames /\ next[p] + 1 \in 0 .. N
<1>1. next[p] \in Frames
  BY DEF LocalInv, Local, Holds
<1> QED BY <1>1, FramesAssumption DEF Frames

LEMMA SessionType ==
  ASSUME TypeOK, LocalInv, NEW p \in Procs, SessionStep(p) \/ Pause(p)
  PROVE  TypeOK'
<1> USE FramesAssumption DEF TypeOK, Goto, store, session
<1>1. CASE WriteManifest(p)
  BY <1>1 DEF WriteManifest
<1>2. CASE Scan(p)
  BY <1>2 DEF Scan
<1>3. CASE LoadPrevious(p)
  <2>1. CASE Exit(p)
    BY <1>3, <2>1, ExitType DEF LoadPrevious
  <2>2. CASE ~Exit(p)
    <3>1. Before(next[p]) \in Maybe
      BY DEF Before, Maybe, Frames
    <3> QED BY <1>3, <2>2, <3>1 DEF LoadPrevious
  <2> QED BY <2>1, <2>2
<1>4. CASE Solve(p)
  BY <1>4 DEF Solve, Content, Maybe
<1>5. CASE RejectedStops(p)
  BY <1>5, ExitType DEF RejectedStops
<1>6. CASE RejectedContinues(p)
  <2>1. next[p] + 1 \in 0 .. N
    BY <1>6, CursorBound DEF RejectedContinues
  <2> QED BY <1>6, <2>1 DEF RejectedContinues
<1>7. CASE SaveCheck(p)
  <2>1. CASE Exit(p)
    BY <1>7, <2>1, ExitType DEF SaveCheck
  <2>2. CASE ~Exit(p)
    BY <1>7, <2>2 DEF SaveCheck
  <2> QED BY <2>1, <2>2
<1>8. CASE SaveWrite(p)
  <2>1. file' \in [Frames -> Maybe] /\ damaged' \in SUBSET Frames
    BY <1>8 DEF SaveWrite
  <2>2. CASE Exit(p)
    BY <1>8, <2>1, <2>2, ExitType DEF SaveWrite
  <2>3. CASE ~Exit(p)
    <3>1. next[p] + 1 \in 0 .. N
      BY <1>8, CursorBound DEF SaveWrite
    <3>2. next' = [next EXCEPT ![p] = next[p] + 1] /\ progress' = "paused"
          /\ last' = [last EXCEPT ![p] = new[p]] /\ state' = [state EXCEPT ![p] = new[p]]
          /\ pc' = [pc EXCEPT ![p] = "loop"]
          /\ UNCHANGED <<new, rows, force, root, made, artifact>>
      BY <1>8, <2>3 DEF SaveWrite
    <3> QED BY <2>1, <3>1, <3>2
  <2> QED BY <2>2, <2>3
<1>9. CASE Complete(p)
  BY <1>9 DEF Complete
<1>10. CASE Pause(p)
  BY <1>10, ExitType DEF Pause
<1> QED BY <1>1, <1>2, <1>3, <1>4, <1>5, <1>6, <1>7, <1>8, <1>9, <1>10 DEF SessionStep

LEMMA AssemblyType ==
  ASSUME TypeOK, NEW p \in Procs, AssemblyStep(p)
  PROVE  TypeOK'
<1> USE DEF TypeOK, Goto, store, session
<1>1. CASE Validate(p)
  <2>1. CASE Exit(p)
    BY <1>1, <2>1, ExitType DEF Validate
  <2>2. CASE ~Exit(p)
    BY <1>1, <2>2 DEF Validate
  <2> QED BY <2>1, <2>2
<1>2. CASE LoadRows(p)
  <2>1. CASE Exit(p)
    BY <1>2, <2>1, ExitType DEF LoadRows
  <2>2. CASE ~Exit(p)
    BY <1>2, <2>2 DEF LoadRows
  <2> QED BY <2>1, <2>2
<1>3. CASE CheckDestination(p)
  <2>1. CASE Exit(p)
    BY <1>3, <2>1, ExitType DEF CheckDestination
  <2>2. CASE ~Exit(p)
    BY <1>3, <2>2 DEF CheckDestination
  <2> QED BY <2>1, <2>2
<1>4. CASE RemoveOld(p)
  BY <1>4 DEF RemoveOld
<1>5. CASE Install(p)
  BY <1>5, ExitType DEF Install
<1> QED BY <1>1, <1>2, <1>3, <1>4, <1>5 DEF AssemblyStep

LEMMA TypeStep ==
  ASSUME TypeOK, LocalInv, [Next]_vars
  PROVE  TypeOK'
<1> USE DEF TypeOK, Goto, store, session
<1>1. CASE UNCHANGED vars
  BY <1>1 DEF vars
<1>2. ASSUME NEW p \in Procs, MakeRoot(p) PROVE TypeOK'
  BY <1>2 DEF MakeRoot
<1>3. ASSUME NEW p \in Procs, Resume(p) PROVE TypeOK'
  BY <1>3 DEF Resume
<1>4. ASSUME NEW p \in Procs, StartAssemble(p) PROVE TypeOK'
  BY <1>4 DEF StartAssemble
<1>5. ASSUME NEW p \in Procs, Crash(p) PROVE TypeOK'
  BY <1>5, ExitType DEF Crash
<1>6. ASSUME NEW f \in Frames, Damage(f) PROVE TypeOK'
  BY <1>6 DEF Damage
<1> QED BY <1>1, <1>2, <1>3, <1>4, <1>5, <1>6, SessionType, AssemblyType DEF Next

-----------------------------------------------------------------------------
(* RunInv *)

LEMMA InitRun == Init => RunInv
<1> SUFFICES ASSUME Init PROVE RunInv
  OBVIOUS
<1>1. TypeOK
  BY InitType
<1>2. RuleInv
  BY DEF Init, RuleInv, Made, Unmade
<1>3. LocalInv
  BY DEF Init, LocalInv, Local
<1> QED BY <1>1, <1>2, <1>3 DEF RunInv, Init, OneSession, FileInv, PublishInv

(* The step is process p's: the locals of the others stay. *)
Only(p) ==
  \A q \in Procs : q # p =>
    /\ pc'[q] = pc[q]
    /\ next'[q] = next[q] /\ state'[q] = state[q] /\ last'[q] = last[q]
    /\ new'[q] = new[q] /\ rows'[q] = rows[q]

LEMMA ExitOnly ==
  ASSUME TypeOK, NEW p \in Procs, Exit(p)
  PROVE  Only(p) /\ pc'[p] = "none"
BY DEF TypeOK, Exit, Only

LEMMA GotoOnly ==
  ASSUME TypeOK, NEW p \in Procs, NEW from, NEW to, Goto(p, from, to),
         UNCHANGED <<session, rows>>
  PROVE  Only(p) /\ pc'[p] = to
BY DEF TypeOK, Goto, Only, session

LEMMA RuleKept ==
  ASSUME made' = made, NEW n, NEW from, NEW link, Rule(n, from, link)
  PROVE  Rule(n, from, link)'
BY DEF Rule, Made

(* A step of p that leaves the frames alone has to answer for p only. *)
LEMMA KeptFiles ==
  ASSUME RunInv, TypeOK', OneSession', NEW p \in Procs, Only(p), file' = file, made' = made,
         Local(p)', artifact' # None => artifact' = file /\ Frozen
  PROVE  RunInv'
<1> USE DEF RunInv
<1>1. RuleInv'
  BY DEF RuleInv, Rule, Made
<1>2. FileInv'
  BY DEF FileInv, Made
<1>3. Frozen <=> Frozen'
  BY DEF Frozen, Linked, Before
<1>4. LocalInv'
  <2> SUFFICES ASSUME NEW q \in Procs, q # p PROVE Local(q)'
    BY DEF LocalInv
  <2>1. Local(q)
    BY DEF LocalInv
  <2>2. pc'[q] \in InLoop => Rule(next[q], state[q], last[q])'
    BY <2>1, RuleKept DEF Local, Only
  <2> QED BY <1>3, <2>1, <2>2 DEF Local, Only, Reached, Holds, Rule
<1>5. PublishInv'
  BY <1>3 DEF PublishInv
<1> QED BY <1>1, <1>2, <1>4, <1>5

LEMMA SameSession ==
  ASSUME OneSession, NEW p \in Procs, Only(p), pc'[p] \in InSession => pc[p] \in InSession
  PROVE  OneSession'
BY DEF OneSession, Only

LEMMA ExitRun ==
  ASSUME RunInv, TypeOK', NEW p \in Procs, Exit(p), file' = file, made' = made,
         artifact' # None => artifact' = file /\ Frozen
  PROVE  RunInv'
<1>1. Only(p) /\ pc'[p] = "none"
  BY ExitOnly DEF RunInv
<1>2. OneSession'
  BY <1>1, SameSession DEF RunInv
<1>3. Local(p)'
  BY <1>1 DEF Local
<1> QED BY <1>1, <1>2, <1>3, KeptFiles

LEMMA StartRun ==
  ASSUME RunInv, TypeOK', Exclusive \/ OneSession', NEW p \in Procs,
         MakeRoot(p) \/ Resume(p) \/ StartAssemble(p)
  PROVE  RunInv'
<1>1. Only(p) /\ pc'[p] \in {"marking", "scanning", "validating"}
      /\ file' = file /\ made' = made /\ artifact' = artifact
  BY DEF MakeRoot, Resume, StartAssemble, Goto, Only, RunInv, TypeOK, session, store
<1>2. Exclusive => (pc'[p] \in InSession => Sessions \subseteq {p})
  BY <1>1 DEF MakeRoot, Resume, StartAssemble, MayStart, Goto, RunInv, TypeOK
<1>3. OneSession'
  BY <1>1, <1>2 DEF OneSession, Sessions, Only, RunInv
<1>4. Local(p)'
  BY <1>1 DEF Local
<1> QED BY <1>1, <1>3, <1>4, KeptFiles DEF RunInv, PublishInv

LEMMA OpenRun ==
  ASSUME RunInv, TypeOK', NEW p \in Procs,
         WriteManifest(p) \/ Scan(p) \/ Complete(p)
  PROVE  RunInv'
<1>1. Only(p) /\ file' = file /\ made' = made /\ artifact' = artifact
  BY DEF WriteManifest, Scan, Complete, Goto, Only, RunInv, TypeOK, session, store
<1>2. pc[p] \in InSession /\ pc'[p] \in {"scanning", "loading", "validating"}
  BY DEF WriteManifest, Scan, Complete, Goto, RunInv, TypeOK
<1>3. pc'[p] = "loading" => Reached(p)'
  <2> SUFFICES ASSUME pc'[p] = "loading" PROVE Reached(p)'
    OBVIOUS
  <2>1. Scan(p)
    BY DEF WriteManifest, Complete, Goto, RunInv, TypeOK
  <2>2. Contiguous(next'[p])
    BY <2>1 DEF Scan, RunInv, TypeOK
  <2> QED BY <1>1, <2>2 DEF Contiguous, Intact, Reached
<1>4. Local(p)'
  BY <1>2, <1>3 DEF Local
<1> QED BY <1>1, <1>2, <1>4, SameSession, KeptFiles DEF RunInv, PublishInv

LEMMA LoadRun ==
  ASSUME RunInv, TypeOK', NEW p \in Procs, LoadPrevious(p)
  PROVE  RunInv'
<1>1. CASE Exit(p)
  BY <1>1, ExitRun DEF LoadPrevious, store, RunInv, PublishInv
<1>2. CASE ~Exit(p)
  <2>1. Only(p) /\ pc[p] = "loading" /\ pc'[p] = "loop" /\ next' = next
        /\ state'[p] = Before(next[p]) /\ last'[p] = Before(next[p])
        /\ file' = file /\ made' = made /\ artifact' = artifact
    BY <1>2 DEF LoadPrevious, Goto, Only, RunInv, TypeOK, store
  <2>2. Rule(next[p], Before(next[p]), Before(next[p]))
    <3>1. CASE next[p] = 0
      BY <3>1 DEF Rule, Before
    <3>2. CASE next[p] # 0
      <4>1. next[p] - 1 \in Frames /\ next[p] - 1 < next[p]
        BY <3>2, FramesAssumption DEF Frames, RunInv, TypeOK
      <4>2. file[next[p] - 1] # None
        BY <2>1, <4>1 DEF RunInv, LocalInv, Local, Reached
      <4> QED BY <3>2, <4>1, <4>2 DEF Rule, Before, FileInv, RunInv
    <3> QED BY <3>1, <3>2
  <2>3. Rule(next[p], Before(next[p]), Before(next[p]))'
    BY <2>1, <2>2 DEF Rule, Made, Before
  <2>4. Local(p)'
    BY <2>1, <2>3 DEF Local, Before
  <2> QED BY <2>1, <2>4, SameSession, KeptFiles DEF RunInv, PublishInv
<1> QED BY <1>1, <1>2

LEMMA RejectRun ==
  ASSUME RunInv, TypeOK', NEW p \in Procs, RejectedContinues(p)
  PROVE  RunInv'
<1>1. Only(p) /\ pc[p] = "rejected" /\ pc'[p] = "loop" /\ next'[p] = next[p] + 1
      /\ state'[p] = new[p] /\ last'[p] = last[p]
      /\ file' = file /\ made' = made /\ artifact' = artifact
  BY DEF RejectedContinues, Goto, Only, RunInv, TypeOK
<1>2. Holds(p) /\ Rule(next[p], state[p], last[p])
  BY <1>1 DEF RunInv, LocalInv, Local
<1>3. Made(new[p]) /\ made[new[p]].frame = next[p] /\ new[p] # None /\ next[p] \in Nat
  BY <1>2, FramesAssumption DEF Holds, Made, Frames
<1>4. last[p] # None => Made(last[p]) /\ made[last[p]].frame < next[p]
  <2>1. last[p] # None => made[last[p]].frame \in Nat
    BY FramesAssumption DEF RunInv, TypeOK, Content, Maybe
  <2> QED BY <1>2, <1>3, <2>1 DEF Rule
<1>5. Rule(next[p] + 1, new[p], last[p])
  BY <1>3, <1>4 DEF Rule
<1>6. Rule(next[p], state[p], last[p])'
  BY <1>1, <1>5 DEF Rule, Made
<1>7. Local(p)'
  BY <1>1, <1>6 DEF Local
<1> QED BY <1>1, <1>7, SameSession, KeptFiles DEF RunInv, PublishInv

LEMMA SaveCheckRun ==
  ASSUME RunInv, TypeOK', NEW p \in Procs, SaveCheck(p)
  PROVE  RunInv'
<1>1. CASE Exit(p)
  BY <1>1, ExitRun DEF SaveCheck, store, RunInv, PublishInv
<1>2. CASE ~Exit(p)
  <2>1. pc[p] = "solved" /\ file[next[p]] = None
        /\ file' = file /\ made' = made /\ artifact' = artifact
        /\ next' = next /\ state' = state /\ last' = last /\ new' = new
    BY <1>2 DEF SaveCheck, store, session
  <2>2. Only(p) /\ pc'[p] = "writing"
    BY <1>2 DEF SaveCheck, Goto, Only, session, RunInv, TypeOK
  <2>3. Holds(p) /\ Rule(next[p], state[p], last[p])
    BY <2>1 DEF RunInv, LocalInv, Local
  <2>4. Rule(next[p], state[p], last[p])'
    BY <2>1, <2>3 DEF Rule, Made
  <2>5. Local(p)'
    BY <2>1, <2>2, <2>3, <2>4 DEF Local, Holds
  <2> QED BY <2>1, <2>2, <2>5, SameSession, KeptFiles DEF RunInv, PublishInv
<1> QED BY <1>1, <1>2

(* A solve takes an unused payload, so nothing that is made changes. *)
LEMMA SolveRun ==
  ASSUME RunInv, TypeOK', NEW p \in Procs, Solve(p)
  PROVE  RunInv'
<1>1. PICK x \in Payloads :
        /\ ~Made(x)
        /\ made' = [made EXCEPT ![x] = [frame |-> next[p], from |-> state[p], link |-> last[p]]]
        /\ new' = [new EXCEPT ![p] = x]
  BY DEF Solve
<1>2. pc[p] = "loop" /\ pc'[p] \in {"solved", "rejected"} /\ next[p] \in Frames
      /\ file' = file /\ artifact' = artifact /\ next' = next /\ last' = last
      /\ state' = state /\ rows' = rows
  <2>1. next[p] \in Frames
    BY FramesAssumption DEF Solve, Frames, RunInv, TypeOK
  <2> QED BY <2>1 DEF Solve, store, RunInv, TypeOK
<1>3. Only(p)
  BY <1>1, <1>2 DEF Solve, Only, RunInv, TypeOK
<1>4. \A y \in Payloads : Made(y) => made'[y] = made[y] /\ Made(y)'
  BY <1>1 DEF Made, RunInv, TypeOK
<1>5. ASSUME NEW n, NEW from \in Maybe, NEW link \in Maybe, Rule(n, from, link)
      PROVE  Rule(n, from, link)'
  BY <1>4, <1>5 DEF Rule, Maybe
<1>6. Rule(next[p], state[p], last[p])
  BY <1>2 DEF RunInv, LocalInv, Local
<1>7. made'[x] = [frame |-> next[p], from |-> state[p], link |-> last[p]] /\ new'[p] = x /\ x # None
  BY <1>1, NoneAssumption DEF RunInv, TypeOK
<1>8. state[p] \in Maybe /\ last[p] \in Maybe
  BY DEF RunInv, TypeOK
<1>9. RuleInv'
  <2> SUFFICES ASSUME NEW y \in Payloads, Made(y)'
               PROVE  Rule(made[y].frame, made[y].from, made[y].link)'
    BY DEF RuleInv
  <2>1. CASE y = x
    <3>1. Rule(next[p], state[p], last[p])'
      BY <1>4, <1>2, <1>6, <1>8 DEF Rule, Maybe
    <3> QED BY <1>2, <1>7, <2>1, <3>1
  <2>2. CASE y # x
    <3>1. made'[y] = made[y]
      BY <1>1, <2>2 DEF RunInv, TypeOK
    <3>2. Made(y) /\ made[y].from \in Maybe /\ made[y].link \in Maybe
      BY <3>1 DEF Made, RunInv, TypeOK, Content
    <3>3. Rule(made[y].frame, made[y].from, made[y].link)
      BY <3>2 DEF RunInv, RuleInv
    <3> QED BY <1>4, <3>1, <3>2, <3>3 DEF Rule, Maybe
  <2> QED BY <2>1, <2>2
<1>10. FileInv'
  BY <1>2, <1>4 DEF RunInv, TypeOK, FileInv, Maybe
<1>11. Frozen => Frozen'
  BY <1>2, <1>4 DEF Frozen, Linked, Before, RunInv, TypeOK, FileInv, Maybe
<1>12. LocalInv'
  <2> SUFFICES ASSUME NEW q \in Procs PROVE Local(q)'
    BY DEF LocalInv
  <2>1. Local(q)
    BY DEF RunInv, LocalInv
  <2>2. pc[q] \in InLoop => Rule(next[q], state[q], last[q])'
    <3> SUFFICES ASSUME pc[q] \in InLoop PROVE Rule(next[q], state[q], last[q])'
      OBVIOUS
    <3>1. Rule(next[q], state[q], last[q]) /\ state[q] \in Maybe /\ last[q] \in Maybe
      BY <2>1 DEF Local, RunInv, TypeOK
    <3> QED BY <1>2, <1>4, <3>1 DEF Rule, Maybe
  <2>3. CASE q = p
    BY <1>2, <1>7, <2>2, <2>3 DEF Local, Holds
  <2>4. CASE q # p
    <3>1. pc[q] \notin HasPayload
      BY <1>2, <2>4 DEF RunInv, OneSession
    <3>2. pc'[q] = pc[q] /\ next'[q] = next[q] /\ rows'[q] = rows[q]
      BY <1>3, <2>4 DEF Only
    <3> QED BY <1>2, <1>11, <2>1, <2>2, <3>1, <3>2 DEF Local, Reached
  <2> QED BY <2>3, <2>4
<1>13. OneSession'
  BY <1>2, <1>3, SameSession DEF RunInv
<1>14. PublishInv'
  BY <1>2, <1>11 DEF RunInv, PublishInv
<1> QED BY <1>9, <1>10, <1>12, <1>13, <1>14 DEF RunInv

(* The one step that writes a frame: it fills an empty place, so nobody    *)
(* has relied on that place yet.                                           *)
LEMMA SaveWriteRun ==
  ASSUME RunInv, TypeOK', NEW p \in Procs, SaveWrite(p)
  PROVE  RunInv'
<1>1. pc[p] = "writing" /\ made' = made /\ artifact' = artifact
      /\ file' = [file EXCEPT ![next[p]] = new[p]]
  BY DEF SaveWrite
<1>2. Holds(p) /\ file[next[p]] = None
  BY <1>1 DEF RunInv, LocalInv, Local
<1>3. next[p] \in Frames /\ new[p] # None /\ Made(new[p]) /\ made[new[p]].frame = next[p]
  BY <1>2 DEF Holds, Made, Frames
<1>4. ~Frozen
  BY <1>2, <1>3 DEF Frozen
<1>5. Only(p) /\ pc'[p] \in {"none", "loop"}
  <2>1. CASE Exit(p)
    BY <2>1, ExitOnly DEF RunInv
  <2>2. CASE ~Exit(p)
    BY <2>2 DEF SaveWrite, Goto, Only, RunInv, TypeOK
  <2> QED BY <2>1, <2>2
<1>6. RuleInv'
  BY <1>1 DEF RunInv, RuleInv, Rule, Made
<1>7. FileInv'
  BY <1>1, <1>3 DEF RunInv, TypeOK, FileInv, Made
<1>8. LocalInv'
  <2> SUFFICES ASSUME NEW q \in Procs PROVE Local(q)'
    BY DEF LocalInv
  <2>1. CASE q # p
    <3>1. Local(q) /\ pc[q] \notin InSession
      BY <1>1, <2>1 DEF RunInv, LocalInv, OneSession
    <3>2. pc'[q] = pc[q]
      BY <1>5, <2>1 DEF Only
    <3> QED BY <1>4, <3>1, <3>2 DEF Local
  <2>2. CASE q = p /\ pc'[p] = "none"
    BY <2>2 DEF Local
  <2>3. CASE q = p /\ pc'[p] = "loop"
    <3>1. next'[p] = next[p] + 1 /\ state'[p] = new[p] /\ last'[p] = new[p]
      BY <2>3 DEF SaveWrite, Exit, RunInv, TypeOK
    <3>2. Rule(next[p] + 1, new[p], new[p])
      BY <1>3, FramesAssumption DEF Rule, Frames
    <3>3. Rule(next[p], state[p], last[p])'
      BY <1>1, <3>1, <3>2 DEF Rule, Made
    <3> QED BY <2>3, <3>3 DEF Local
  <2> QED BY <1>5, <2>1, <2>2, <2>3
<1>9. OneSession'
  BY <1>1, <1>5, SameSession DEF RunInv
<1>10. PublishInv'
  BY <1>1, <1>4 DEF RunInv, PublishInv
<1> QED BY <1>6, <1>7, <1>8, <1>9, <1>10 DEF RunInv

LEMMA AssemblyRun ==
  ASSUME RunInv, TypeOK', NEW p \in Procs, AssemblyStep(p)
  PROVE  RunInv'
<1> USE DEF RunInv
<1>1. file' = file /\ made' = made
  BY DEF AssemblyStep, Validate, LoadRows, CheckDestination, RemoveOld, Install, store
<1>2. CASE Exit(p)
  <2>1. pc[p] = "installing" => rows[p] = file /\ Frozen
    BY DEF LocalInv, Local
  <2>2. artifact' # None => artifact' = file /\ Frozen
    BY <2>1 DEF AssemblyStep, Validate, LoadRows, CheckDestination, RemoveOld, Install, store,
                PublishInv
  <2> QED BY <1>1, <1>2, <2>2, ExitRun
<1>3. CASE ~Exit(p)
  <2>1. artifact' # None => artifact' = file /\ Frozen
    BY <1>3 DEF AssemblyStep, Validate, LoadRows, CheckDestination, RemoveOld, Install, store,
                PublishInv
  <2>2. Only(p) /\ pc[p] \in InAssembly /\ pc'[p] \in {"reading", "checking", "staging", "installing"}
    BY <1>3 DEF AssemblyStep, Validate, LoadRows, CheckDestination, RemoveOld, Install, store,
                session, Goto, Only, TypeOK
  <2>3. Frozen
    <3>1. CASE Validate(p)
      BY <1>3, <3>1, FramesAssumption DEF Validate, ChainPass, Contiguous, Intact, Frozen, Frames
    <3>2. CASE ~Validate(p)
      BY <1>3, <3>2 DEF AssemblyStep, LoadRows, CheckDestination, RemoveOld, Install, Goto,
                        LocalInv, Local
    <3> QED BY <3>1, <3>2
  <2>4. pc'[p] \in HasRows => rows'[p] = file
    <3>1. CASE LoadRows(p)
      BY <1>3, <3>1 DEF LoadRows, TypeOK
    <3>2. CASE ~LoadRows(p)
      BY <1>3, <3>2 DEF AssemblyStep, Validate, CheckDestination, RemoveOld, Install, Goto,
                        LocalInv, Local, TypeOK
    <3> QED BY <3>1, <3>2
  <2>5. Local(p)'
    BY <1>1, <2>2, <2>3, <2>4 DEF Local, Frozen, Linked, Before
  <2> QED BY <1>1, <2>1, <2>2, <2>5, SameSession, KeptFiles
<1> QED BY <1>2, <1>3

(* Sessions are kept apart by MayStart, or by whoever starts them. *)
LEMMA RunStep ==
  ASSUME RunInv, Exclusive \/ OneSession', [Next]_vars
  PROVE  RunInv'
<1>1. TypeOK'
  BY TypeStep DEF RunInv
<1>2. CASE UNCHANGED vars
  BY <1>2 DEF vars, RunInv, TypeOK, OneSession, RuleInv, FileInv, LocalInv, PublishInv, Local,
              Rule, Made, Reached, Holds, Frozen, Linked, Before
<1>3. ASSUME NEW p \in Procs, SessionStep(p) \/ Pause(p) \/ Crash(p) PROVE RunInv'
  <2>1. CASE RejectedStops(p) \/ Pause(p) \/ Crash(p)
    BY <1>1, <2>1, ExitRun DEF RejectedStops, Pause, Crash, store, RunInv, PublishInv
  <2> QED BY <1>1, <1>3, <2>1, OpenRun, LoadRun, SolveRun, RejectRun, SaveCheckRun, SaveWriteRun
       DEF SessionStep
<1>4. ASSUME NEW f \in Frames, Damage(f) PROVE RunInv'
  BY <1>1, <1>4 DEF Damage, session, RunInv, OneSession, RuleInv, FileInv, LocalInv, PublishInv,
                    Local, Rule, Made, Reached, Holds, Frozen, Linked, Before
<1> QED BY <1>1, <1>2, <1>3, <1>4, StartRun, AssemblyRun DEF Next

-----------------------------------------------------------------------------
(* The theorems *)

(* The inductive invariant itself. *)
THEOREM RunInvariant ==
  ASSUME Exclusive
  PROVE  Spec => []RunInv
BY InitRun, RunStep, PTL DEF Spec

(* Type correctness, under either rejection policy. *)
THEOREM TypeCorrect ==
  ASSUME Exclusive
  PROVE  Spec => []TypeOK
<1>1. RunInv => TypeOK
  BY DEF RunInv
<1> QED BY <1>1, RunInvariant, PTL

(* What RunInv says of a published artifact. *)
LEMMA PublishedIsTemporal == RunInv => ArtifactIsTemporal
<1> SUFFICES ASSUME RunInv, artifact # None, NEW f \in Frames
             PROVE  /\ made[artifact[f]].frame = f
                    /\ made[artifact[f]].from = IF f = 0 THEN None ELSE artifact[f - 1]
  BY DEF ArtifactIsTemporal
<1>1. artifact = file /\ Frozen
  BY DEF RunInv, PublishInv
<1>2. file[f] \in Payloads /\ Made(file[f]) /\ made[file[f]].frame = f
  BY <1>1 DEF Frozen, RunInv, FileInv, TypeOK, Maybe
<1>3. Rule(f, made[file[f]].from, made[file[f]].link)
  BY <1>2 DEF RunInv, RuleInv
<1>4. CASE f = 0
  BY <1>1, <1>2, <1>3, <1>4 DEF Rule
<1>5. CASE f # 0
  <2>1. f - 1 \in Frames /\ f - 1 \in Nat
    BY <1>5, FramesAssumption DEF Frames
  <2>2. made[file[f]].link = file[f - 1] /\ file[f - 1] # None /\ made[file[f - 1]].frame = f - 1
    BY <1>1, <1>5, <2>1 DEF Frozen, Linked, Before, RunInv, FileInv
  <2> QED BY <1>1, <1>2, <1>3, <1>5, <2>1, <2>2 DEF Rule
<1> QED BY <1>4, <1>5

(* Whatever was rejected, skipped, damaged or interrupted on the way, an   *)
(* assembled artifact is one temporal sequence: the links that assemble    *)
(* checks determine the states the frames were solved from.                *)
THEOREM AssemblyIsTemporal ==
  ASSUME Exclusive
  PROVE  Spec => []ArtifactIsTemporal
BY PublishedIsTemporal, RunInvariant, PTL

(* An artifact and the frames in the store do not part, under every policy.*)
THEOREM PublishedIsStored ==
  ASSUME Exclusive
  PROVE  Spec => []ArtifactIsStore
<1>1. RunInv => ArtifactIsStore
  BY DEF RunInv, PublishInv, ArtifactIsStore
<1> QED BY <1>1, RunInvariant, PTL

(* A frame is written only where none is. *)
LEMMA FileStays ==
  ASSUME RunInv, [Next]_vars, NEW f \in Frames, file[f] # None
  PROVE  file'[f] = file[f]
<1>1. CASE file' = file
  BY <1>1
<1>2. ASSUME NEW p \in Procs, SaveWrite(p) PROVE file'[f] = file[f]
  <2>1. pc[p] = "writing" /\ file' = [file EXCEPT ![next[p]] = new[p]]
    BY <1>2 DEF SaveWrite
  <2>2. file[next[p]] = None
    BY <2>1 DEF RunInv, LocalInv, Local
  <2> QED BY <2>1, <2>2 DEF RunInv, TypeOK
<1>3. file' = file \/ \E p \in Procs : SaveWrite(p)
  BY DEF Next, vars, store, session, MakeRoot, Resume, StartAssemble, SessionStep,
         AssemblyStep, Pause, Crash, Damage, WriteManifest, Scan, LoadPrevious, Solve,
         RejectedStops, RejectedContinues, SaveCheck, Complete, Validate, LoadRows,
         CheckDestination, RemoveOld, Install
<1> QED BY <1>1, <1>2, <1>3

(* No step ever replaces a committed frame. *)
THEOREM CommittedFramesStay ==
  ASSUME Exclusive
  PROVE  Spec => FramesImmutable
<1>1. RunInv /\ [Next]_vars => [\A f \in Frames : file[f] # None => file'[f] = file[f]]_vars
  BY FileStays
<1> QED BY <1>1, RunInvariant, PTL DEF Spec, FramesImmutable

-----------------------------------------------------------------------------
(* ChainInv: sessions that end with a rejected frame *)

LEMMA InitChain == Init => ChainInv
BY DEF Init, ChainInv, PrefixInv, CursorInv, CompleteMeansWhole

(* A step that writes no frame and solves nothing keeps the prefix, and    *)
(* has to answer for the cursor of p and for "complete" only.              *)
LEMMA KeptChain ==
  ASSUME ChainInv, NEW p \in Procs, Only(p), file' = file, made' = made,
         pc'[p] \in InLoop => /\ \A f \in Frames : f < next'[p] => file[f] # None
                              /\ state'[p] = Before(next'[p]) /\ last'[p] = Before(next'[p]),
         progress' = "complete" => progress = "complete" \/ \A f \in Frames : file[f] # None
  PROVE  ChainInv'
<1>1. PrefixInv'
  BY DEF ChainInv, PrefixInv, Before
<1>2. CursorInv'
  BY DEF ChainInv, CursorInv, Before, Only
<1>3. CompleteMeansWhole'
  BY DEF ChainInv, CompleteMeansWhole
<1> QED BY <1>1, <1>2, <1>3 DEF ChainInv

LEMMA StartChain ==
  ASSUME RunInv, ChainInv, NEW p \in Procs,
         \/ MakeRoot(p) \/ Resume(p) \/ StartAssemble(p) \/ WriteManifest(p) \/ Scan(p)
         \/ RejectedStops(p) \/ Pause(p) \/ Crash(p)
  PROVE  ChainInv'
<1>1. Only(p) /\ pc'[p] \notin InLoop /\ file' = file /\ made' = made
  BY DEF MakeRoot, Resume, StartAssemble, WriteManifest, Scan, RejectedStops, Pause, Crash,
         Exit, Goto, Only, RunInv, TypeOK, session, store
<1>2. progress' = "complete" => progress = "complete"
  BY DEF MakeRoot, Resume, StartAssemble, WriteManifest, Scan, RejectedStops, Pause, Crash, store
<1> QED BY <1>1, <1>2, KeptChain

LEMMA LoadChain ==
  ASSUME RunInv, ChainInv, NEW p \in Procs, LoadPrevious(p)
  PROVE  ChainInv'
<1>1. Only(p) /\ file' = file /\ made' = made /\ progress' = progress
  BY ExitOnly DEF LoadPrevious, Goto, Only, RunInv, TypeOK, store
<1>2. ASSUME pc'[p] \in InLoop
      PROVE  /\ \A f \in Frames : f < next'[p] => file[f] # None
             /\ state'[p] = Before(next'[p]) /\ last'[p] = Before(next'[p])
  BY <1>2 DEF LoadPrevious, Exit, Intact, RunInv, TypeOK
<1> QED BY <1>1, <1>2, KeptChain

LEMMA CheckChain ==
  ASSUME RunInv, ChainInv, NEW p \in Procs, SaveCheck(p)
  PROVE  ChainInv'
<1>1. Only(p) /\ file' = file /\ made' = made /\ progress' = progress
  BY ExitOnly DEF SaveCheck, Goto, Only, RunInv, TypeOK, store, session
<1>2. pc'[p] \in InLoop => pc[p] \in InLoop /\ next' = next /\ state' = state /\ last' = last
  BY DEF SaveCheck, Exit, RunInv, TypeOK, session
<1> QED BY <1>1, <1>2, KeptChain DEF ChainInv, CursorInv

LEMMA CompleteChain ==
  ASSUME RunInv, ChainInv, NEW p \in Procs, Complete(p)
  PROVE  ChainInv'
<1>1. Only(p) /\ pc'[p] \notin InLoop /\ file' = file /\ made' = made /\ pc[p] = "loop" /\ next[p] = N
  BY DEF Complete, Goto, Only, RunInv, TypeOK, session
<1>2. \A f \in Frames : file[f] # None
  BY <1>1, FramesAssumption DEF ChainInv, CursorInv, Frames
<1> QED BY <1>1, <1>2, KeptChain

LEMMA AssemblyChain ==
  ASSUME RunInv, ChainInv, NEW p \in Procs, AssemblyStep(p)
  PROVE  ChainInv'
<1>1. file' = file /\ made' = made /\ progress' = progress
  BY DEF AssemblyStep, Validate, LoadRows, CheckDestination, RemoveOld, Install, store
<1>2. Only(p) /\ pc'[p] \notin InLoop
  <2>1. CASE Exit(p)
    BY <2>1, ExitOnly DEF RunInv
  <2>2. CASE ~Exit(p)
    BY <2>2 DEF AssemblyStep, Validate, LoadRows, CheckDestination, RemoveOld, Install, store,
                session, Goto, Only, RunInv, TypeOK
  <2> QED BY <2>1, <2>2
<1> QED BY <1>1, <1>2, KeptChain

LEMMA SolveChain ==
  ASSUME RunInv, ChainInv, NEW p \in Procs, Solve(p)
  PROVE  ChainInv'
<1>1. PICK x \in Payloads :
        /\ ~Made(x)
        /\ made' = [made EXCEPT ![x] = [frame |-> next[p], from |-> state[p], link |-> last[p]]]
  BY DEF Solve
<1>2. file' = file /\ progress' = progress /\ next' = next /\ state' = state /\ last' = last
  BY DEF Solve, store
<1>3. \A q \in Procs : pc'[q] \in InLoop => pc[q] \in InLoop
  BY DEF Solve, RunInv, TypeOK
<1>4. \A f \in Frames : file[f] # None => made'[file[f]] = made[file[f]]
  BY <1>1 DEF RunInv, TypeOK, FileInv, Maybe
<1>5. PrefixInv'
  BY <1>2, <1>4 DEF ChainInv, PrefixInv, Before
<1>6. CursorInv'
  BY <1>2, <1>3 DEF ChainInv, CursorInv, Before
<1> QED BY <1>2, <1>5, <1>6 DEF ChainInv, CompleteMeansWhole

LEMMA SaveWriteChain ==
  ASSUME RunInv, ChainInv, NEW p \in Procs, SaveWrite(p)
  PROVE  ChainInv'
<1> DEFINE n == next[p]
<1>1. pc[p] = "writing" /\ made' = made /\ progress' # "complete"
      /\ file' = [file EXCEPT ![n] = new[p]]
  BY DEF SaveWrite
<1>2. Holds(p) /\ file[n] = None
  BY <1>1 DEF RunInv, LocalInv, Local
<1>3. n \in Frames /\ new[p] # None
      /\ made[new[p]] = [frame |-> n, from |-> Before(n), link |-> Before(n)]
      /\ \A f \in Frames : f < n => file[f] # None
  BY <1>1, <1>2 DEF Holds, ChainInv, CursorInv
<1>4. file'[n] = new[p] /\ \A f \in Frames : f # n => file'[f] = file[f]
  BY <1>1, <1>3 DEF RunInv, TypeOK
<1>5. \A f \in Frames : file[f] # None => f < n
  <2> SUFFICES ASSUME NEW f \in Frames, file[f] # None, ~(f < n) PROVE FALSE
    OBVIOUS
  <2>1. f # n /\ n < f
    BY <1>2, <1>3, FramesAssumption DEF Frames
  <2> QED BY <1>2, <1>3, <2>1 DEF ChainInv, PrefixInv
<1>6. \A f \in Frames : f < n \/ f = n => Before(f)' = Before(f)
  BY <1>3, <1>4, FramesAssumption DEF Before, Frames
<1>7. PrefixInv'
  <2> SUFFICES ASSUME NEW f \in Frames, file'[f] # None
               PROVE  /\ \A g \in Frames : g < f => file'[g] # None
                      /\ made'[file'[f]] = [frame |-> f, from |-> Before(f)', link |-> Before(f)']
    BY DEF PrefixInv
  <2>1. CASE f = n
    BY <1>1, <1>3, <1>4, <1>6, <2>1
  <2>2. CASE f # n
    <3>1. file[f] # None /\ f < n
      BY <1>4, <1>5, <2>2
    <3> QED BY <1>1, <1>3, <1>4, <1>6, <2>2, <3>1 DEF ChainInv, PrefixInv
  <2> QED BY <2>1, <2>2
<1>8. CursorInv'
  <2> SUFFICES ASSUME NEW q \in Procs, pc'[q] \in InLoop
               PROVE  /\ \A f \in Frames : f < next'[q] => file'[f] # None
                      /\ state'[q] = Before(next[q])' /\ last'[q] = Before(next[q])'
    BY DEF CursorInv
  <2>1. q = p
    <3>1. q # p => pc'[q] = pc[q]
      BY DEF SaveWrite, Exit, Goto, RunInv, TypeOK
    <3> QED BY <1>1, <3>1 DEF RunInv, OneSession
  <2>2. next'[p] = n + 1 /\ state'[p] = new[p] /\ last'[p] = new[p]
    BY <2>1 DEF SaveWrite, Exit, RunInv, TypeOK
  <2>3. \A f \in Frames : f < n + 1 => f = n \/ f < n
    BY <1>3, FramesAssumption DEF Frames
  <2>4. Before(next[p])' = new[p]
    BY <1>3, <1>4, <2>2, FramesAssumption DEF Before, Frames
  <2> QED BY <1>3, <1>4, <2>1, <2>2, <2>3, <2>4
<1>9. CompleteMeansWhole'
  BY <1>1 DEF CompleteMeansWhole
<1> QED BY <1>7, <1>8, <1>9 DEF ChainInv

LEMMA ChainStep ==
  ASSUME RunInv, ChainInv, StopOnReject, [Next]_vars
  PROVE  ChainInv'
<1>1. CASE UNCHANGED vars
  BY <1>1 DEF vars, ChainInv, PrefixInv, CursorInv, CompleteMeansWhole, Before
<1>2. ASSUME NEW f \in Frames, Damage(f) PROVE ChainInv'
  BY <1>2 DEF Damage, session, ChainInv, PrefixInv, CursorInv, CompleteMeansWhole, Before
<1>3. ASSUME NEW p \in Procs, SessionStep(p) PROVE ChainInv'
  BY <1>3, StartChain, LoadChain, CheckChain, CompleteChain, SolveChain, SaveWriteChain
     DEF SessionStep, RejectedContinues
<1> QED BY <1>1, <1>2, <1>3, StartChain, AssemblyChain DEF Next

LEMMA ChainInvariant ==
  ASSUME Exclusive, StopOnReject
  PROVE  Spec => [](RunInv /\ ChainInv)
<1>1. Init => RunInv /\ ChainInv
  BY InitRun, InitChain
<1>2. (RunInv /\ ChainInv) /\ [Next]_vars => (RunInv /\ ChainInv)'
  BY RunStep, ChainStep
<1> QED BY <1>1, <1>2, PTL DEF Spec

(* A prefix of frames, each solved from and linked to the one before it.   *)
LEMMA PrefixIsTemporal == ChainInv => ChainIsTemporal
<1> SUFFICES ASSUME ChainInv, NEW f \in Frames, \A g \in Frames : g <= f => Intact(g)
             PROVE  made[file[f]] = [frame |-> f, from |-> Before(f), link |-> Before(f)]
  BY DEF ChainIsTemporal
<1>1. file[f] # None
  BY FramesAssumption DEF Intact, Frames
<1> QED BY <1>1 DEF ChainInv, PrefixInv

(* A rejected frame never leaves a trace in the chain: every frame was     *)
(* solved from the frame before it, across any number of sessions.         *)
THEOREM ChainContinues ==
  ASSUME Exclusive, StopOnReject
  PROVE  Spec => []ChainIsTemporal
BY PrefixIsTemporal, ChainInvariant, PTL

(* "complete" in progress.json is true of the store. *)
THEOREM CompleteIsTrue ==
  ASSUME Exclusive, StopOnReject
  PROVE  Spec => []CompleteMeansWhole
<1>1. ChainInv => CompleteMeansWhole
  BY DEF ChainInv
<1> QED BY <1>1, ChainInvariant, PTL

(* A whole and undamaged store passes the checks of an assembly. *)
LEMMA WholePasses == TypeOK /\ ChainInv => WholeIsAssemblable
<1> SUFFICES ASSUME TypeOK, ChainInv, \A f \in Frames : Intact(f) PROVE ChainPass
  BY DEF WholeIsAssemblable
<1>1. damaged = {}
  BY DEF TypeOK, Intact
<1>2. Contiguous(N)
  BY FramesAssumption DEF Contiguous, Frames
<1>3. Linked
  <2> SUFFICES ASSUME NEW f \in Frames PROVE made[file[f]].link = Before(f)
    BY DEF Linked
  <2>1. file[f] # None
    BY DEF Intact
  <2>2. made[file[f]] = [frame |-> f, from |-> Before(f), link |-> Before(f)]
    BY <2>1 DEF ChainInv, PrefixInv
  <2> QED BY <2>2
<1> QED BY <1>1, <1>2, <1>3 DEF ChainPass

(* When rejections stop a session, what the sessions finished can always   *)
(* be assembled.                                                           *)
THEOREM FinishedIsAssemblable ==
  ASSUME Exclusive, StopOnReject
  PROVE  Spec => []WholeIsAssemblable
BY WholePasses, ChainInvariant, TypeCorrect, PTL

(* Every step of a run commits the next frame, publishes the full log,     *)
(* withdraws what was published, or leaves both alone.                     *)
LEMMA LogStep ==
  ASSUME RunInv, ChainInv, [Next]_vars
  PROVE  [Log!Next]_<<file, artifact>>
<1>1. ASSUME NEW p \in Procs, SaveWrite(p) PROVE Log!Next
  <2>1. pc[p] = "writing" /\ file' = [file EXCEPT ![next[p]] = new[p]] /\ artifact' = artifact
    BY <1>1 DEF SaveWrite
  <2>2. file[next[p]] = None /\ Holds(p) /\ \A g \in Frames : g < next[p] => file[g] # None
    BY <2>1 DEF RunInv, LocalInv, Local, ChainInv, CursorInv
  <2>3. next[p] \in Frames /\ new[p] \in Payloads
    BY <2>2 DEF Holds, RunInv, TypeOK, Maybe
  <2>4. Log!Commit(next[p], new[p])
    BY <2>1, <2>2 DEF Log!Commit, Log!Frames, Frames
  <2> QED BY <2>3, <2>4 DEF Log!Next, Log!Frames, Frames
<1>2. ASSUME NEW p \in Procs, Install(p) PROVE [Log!Next]_<<file, artifact>>
  <2>1. rows[p] = file /\ Frozen /\ file' = file
    BY <1>2 DEF Install, RunInv, LocalInv, Local
  <2>2. CASE artifact = None
    BY <1>2, <2>1, <2>2 DEF Install, Log!Next, Log!Publish, Log!Whole, Log!Frames, Frames, Frozen
  <2>3. CASE artifact # None
    BY <1>2, <2>1, <2>3 DEF Install
  <2> QED BY <2>2, <2>3
<1>3. ASSUME NEW p \in Procs, RemoveOld(p) PROVE [Log!Next]_<<file, artifact>>
  BY <1>3 DEF RemoveOld, Log!Next, Log!Withdraw
<1>4. \/ UNCHANGED <<file, artifact>>
      \/ \E p \in Procs : SaveWrite(p) \/ Install(p) \/ RemoveOld(p)
  BY DEF Next, vars, store, session, MakeRoot, Resume, StartAssemble, SessionStep,
              AssemblyStep, Pause, Crash, Damage, WriteManifest, Scan, LoadPrevious, Solve,
              RejectedStops, RejectedContinues, SaveCheck, Complete, Validate, LoadRows,
              CheckDestination
<1> QED BY <1>1, <1>2, <1>3, <1>4

LEMMA LogStart == Init => Log!Init
BY DEF Init, Log!Init, Log!Frames, Frames

(* The store, its sessions and its assemblies implement the frame log. *)
THEOREM RunRefinesFrameLog ==
  ASSUME Exclusive, StopOnReject
  PROVE  Spec => ImplementsFrameLog
BY LogStart, LogStep, ChainInvariant, PTL DEF Spec, ImplementsFrameLog, Log!Spec

-----------------------------------------------------------------------------
(* Without damage the cursor of a session is the end of the stored prefix. *)

Ahead(p) == pc[p] \in {"loading"} \cup InLoop /\ next[p] \in Frames => file[next[p]] = None
AheadInv == damaged = {} /\ \A p \in Procs : Ahead(p)

LEMMA KeptAhead ==
  ASSUME AheadInv, NEW p \in Procs, Only(p), file' = file, damaged' = damaged, Ahead(p)'
  PROVE  AheadInv'
<1>1. ASSUME NEW q \in Procs, q # p PROVE Ahead(q)'
  BY <1>1 DEF AheadInv, Ahead, Only
<1> QED BY <1>1 DEF AheadInv

LEMMA StartAhead ==
  ASSUME RunInv, AheadInv, NEW p \in Procs,
         \/ MakeRoot(p) \/ Resume(p) \/ StartAssemble(p) \/ WriteManifest(p) \/ Complete(p)
         \/ RejectedStops(p) \/ Pause(p) \/ Crash(p) \/ AssemblyStep(p)
  PROVE  AheadInv'
<1>1. file' = file /\ damaged' = damaged
  BY DEF MakeRoot, Resume, StartAssemble, WriteManifest, Complete, RejectedStops, Pause, Crash,
         AssemblyStep, Validate, LoadRows, CheckDestination, RemoveOld, Install, store
<1>2. Only(p) /\ pc'[p] \notin {"loading"} \cup InLoop
  <2>1. CASE Exit(p)
    BY <2>1, ExitOnly DEF RunInv
  <2>2. CASE ~Exit(p)
    BY <2>2 DEF MakeRoot, Resume, StartAssemble, WriteManifest, Complete, RejectedStops, Pause,
                Crash, AssemblyStep, Validate, LoadRows, CheckDestination, RemoveOld, Install,
                Goto, Only, RunInv, TypeOK, store, session
  <2> QED BY <2>1, <2>2
<1> QED BY <1>1, <1>2, KeptAhead DEF Ahead

(* The frame at which the scan stopped is missing, for none is damaged. *)
LEMMA ScanAhead ==
  ASSUME RunInv, AheadInv, NEW p \in Procs, Scan(p)
  PROVE  AheadInv'
<1>1. Only(p) /\ file' = file /\ damaged' = damaged
  BY DEF Scan, Goto, Only, RunInv, TypeOK, store
<1>2. Contiguous(next'[p])
  BY DEF Scan, RunInv, TypeOK
<1>3. Ahead(p)'
  BY <1>1, <1>2 DEF Ahead, AheadInv, Contiguous, Intact
<1> QED BY <1>1, <1>3, KeptAhead

LEMMA SessionAhead ==
  ASSUME RunInv, AheadInv, NEW p \in Procs, LoadPrevious(p) \/ Solve(p) \/ SaveCheck(p)
  PROVE  AheadInv'
<1>1. file' = file /\ damaged' = damaged
  BY DEF LoadPrevious, Solve, SaveCheck, store
<1>2. Only(p) /\ (pc'[p] # "none" => next'[p] = next[p] /\ pc[p] \in {"loading"} \cup InLoop)
  <2>1. CASE Exit(p)
    BY <2>1, ExitOnly DEF RunInv
  <2>2. CASE ~Exit(p)
    BY <2>2 DEF LoadPrevious, Solve, SaveCheck, Goto, Only, RunInv, TypeOK, store, session
  <2> QED BY <2>1, <2>2
<1>3. Ahead(p)'
  BY <1>1, <1>2 DEF Ahead, AheadInv
<1> QED BY <1>1, <1>2, <1>3, KeptAhead

(* The stored frames are a prefix, so behind a missing one all are missing.*)
LEMMA SaveWriteAhead ==
  ASSUME RunInv, ChainInv, AheadInv, NEW p \in Procs, SaveWrite(p)
  PROVE  AheadInv'
<1> DEFINE n == next[p]
<1>1. pc[p] = "writing" /\ file' = [file EXCEPT ![n] = new[p]] /\ damaged' = {}
  BY DEF SaveWrite, AheadInv
<1>2. n \in Frames /\ file[n] = None
  BY <1>1 DEF RunInv, LocalInv, Local, Holds
<1>3. ASSUME NEW q \in Procs, pc'[q] \in {"loading"} \cup InLoop, next'[q] \in Frames
      PROVE  file'[next'[q]] = None
  <2>1. q # p => pc'[q] = pc[q]
    BY DEF SaveWrite, Exit, Goto, RunInv, TypeOK
  <2>2. q = p
    BY <1>1, <1>3, <2>1 DEF RunInv, OneSession
  <2>3. next'[q] = n + 1
    BY <1>3, <2>2 DEF SaveWrite, Exit, RunInv, TypeOK
  <2>4. n + 1 \in Frames /\ n < n + 1 /\ n # n + 1
    BY <1>2, <1>3, <2>3, FramesAssumption DEF Frames
  <2>5. file[n + 1] = None
    BY <1>2, <2>4 DEF ChainInv, PrefixInv
  <2> QED BY <1>1, <2>3, <2>4, <2>5 DEF RunInv, TypeOK
<1> QED BY <1>1, <1>3 DEF AheadInv, Ahead

LEMMA AheadStep ==
  ASSUME RunInv, ChainInv, AheadInv, StopOnReject, ~MayDamage, [Next]_vars
  PROVE  AheadInv'
<1>1. CASE UNCHANGED vars
  BY <1>1 DEF vars, AheadInv, Ahead
<1>2. ASSUME NEW p \in Procs, SessionStep(p) PROVE AheadInv'
  BY <1>2, StartAhead, ScanAhead, SessionAhead, SaveWriteAhead DEF SessionStep, RejectedContinues
<1> QED BY <1>1, <1>2, StartAhead DEF Next, Damage

(* A session about to solve is at a frame that is not there. *)
LEMMA AheadIsFree == RunInv /\ AheadInv => NoSolveRefused
<1> SUFFICES ASSUME RunInv, AheadInv, NEW p \in Procs, pc[p] \in {"loop", "solved"}, next[p] < N
             PROVE  file[next[p]] = None
  BY DEF NoSolveRefused
<1>1. next[p] \in Frames
  BY FramesAssumption DEF RunInv, TypeOK, Frames
<1> QED BY <1>1 DEF AheadInv, Ahead

LEMMA InitAhead == Init => AheadInv
BY DEF Init, AheadInv, Ahead

(* A session never solves a frame that save_frame will refuse. *)
THEOREM SolvesAreSaved ==
  ASSUME Exclusive, StopOnReject, ~MayDamage
  PROVE  Spec => []NoSolveRefused
<1>1. RunInv /\ ChainInv /\ AheadInv /\ [Next]_vars => AheadInv'
  BY AheadStep
<1> QED BY InitAhead, <1>1, AheadIsFree, ChainInvariant, PTL DEF Spec
=============================================================================
