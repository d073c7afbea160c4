--------------------------- MODULE WorkflowProofs ---------------------------
(***************************************************************************)
(* Proofs about Workflow, for every chain and every set of command lines.  *)
(*                                                                         *)
(* The invariant follows the cursor: of the nodes it has passed, those the *)
(* run kept are complete, those it rebuilt were computed from the outputs  *)
(* that are there now (FreshAt), and none was made under a hashed profile  *)
(* older than the run's (NewEnough).  Reuse keeps the first and the last   *)
(* because a cache record that is there names a complete output and claims *)
(* no newer profile than that was made under (RecordsHonest); the commands *)
(* keep FreshAt because they read only outputs of earlier nodes, which the *)
(* cursor has left behind.                                                 *)
(***************************************************************************)
EXTENDS Workflow, TLAPS

FreshAt(n) ==
  \E s \in Versions, v \in ProfileVersions :
    /\ out[n] = ContentAt(n, s, v)
    /\ \A c \in Profiles : v[c] >= seen[c]
    /\ s =< source
    /\ resolved # None => s >= resolved

NewEnough(n) == \A c \in Uses[n] \cap Hashed[n] : out[n].config[c] >= seen[c]

Passed(n) == n < at \/ (n = at /\ pc = "passed")

Cursor ==
  /\ pc \in {"command", "passed"} => at \in Kept
  /\ pc # "idle" =>
       /\ \A c \in Profiles : seen[c] =< profile[c]
       /\ resolved # None => resolved =< source
       /\ \A n \in Kept : Passed(n) => Complete(n) /\ NewEnough(n)
       /\ \A n \in Rebuilt : Passed(n) => FreshAt(n)

RecordsHonest ==
  \A n \in Nodes :
    record[n].hash # Absent =>
      /\ record[n].hash.node = n
      /\ \A c \in Uses[n] \cap Hashed[n] :
           record[n].hash.config[c] >= record[n].signature.config[c]

Inv == TypeOK /\ Cursor /\ RecordsHonest

-----------------------------------------------------------------------------
LEMMA ContentTyped ==
  ASSUME NEW n \in Nodes, NEW s \in Versions, NEW v \in ProfileVersions
  PROVE  /\ IsOutput(n, ContentAt(n, s, v))
         /\ ContentAt(n, s, v).node = n
         /\ \A c \in Uses[n] : ContentAt(n, s, v).config[c] = v[c]
<1>1. Uses[n] \subseteq Profiles
  BY ProfilesAssumption
<1>2. [c \in Uses[n] |-> v[c]] \in [Uses[n] -> Versions]
  BY <1>1 DEF ProfileVersions
<1> QED BY <1>2, EditsAssumption DEF IsOutput, ContentAt, Versions

LEMMA UnreadTyped == Unread \in ProfileVersions /\ 0 \in Versions
BY EditsAssumption DEF Unread, ProfileVersions, Versions

(* Placeholders are none of the complete outputs. *)
LEMMA PlaceholderTyped == \A n \in Nodes : IsOutput(n, Absent) /\ IsOutput(n, Bad)
BY ChainAssumption, EditsAssumption DEF IsOutput, Absent, Bad, Versions, Nodes

LEMMA NodesInNat == Nodes \subseteq Nat /\ K \in Nat /\ K >= 1
BY ChainAssumption DEF Nodes

LEMMA InitInv == Init => Inv
<1> SUFFICES ASSUME Init PROVE Inv
  OBVIOUS
<1> USE ChainAssumption, NodesAssumption, EditsAssumption, NodesInNat
<1>1. TypeOK
  BY PlaceholderTyped, UnreadTyped DEF Init, TypeOK, NoRecord, Versions, Flags, Quiet, Nodes
<1>2. Cursor
  BY DEF Init, Cursor
<1>3. RecordsHonest
  BY DEF Init, RecordsHonest, NoRecord, Absent, Nodes
<1> QED BY <1>1, <1>2, <1>3 DEF Inv

(* What a node past the cursor satisfies is not disturbed by a step that   *)
(* writes at most the output of a later node.                              *)
LEMMA ContentStays ==
  ASSUME TypeOK, NEW n \in Nodes, NEW m \in Nodes, m < n, NEW o,
         out' = [out EXCEPT ![n] = o], NEW s, NEW v
  PROVE  out'[m] = out[m] /\ ContentAt(m, s, v)' = ContentAt(m, s, v)
<1>1. m # n /\ n \notin Reads[m]
  BY ChainAssumption, NodesInNat DEF Nodes
<1>2. DOMAIN out = Nodes /\ Reads[m] \subseteq Nodes
  BY ChainAssumption DEF TypeOK
<1>3. \A i \in Nodes : i # n => out'[i] = out[i]
  BY <1>2
<1>4. \A i \in Reads[m] : out'[i] = out[i]
  BY <1>1, <1>2, <1>3
<1> DEFINE D == IF m \in Opaque THEN {} ELSE Reads[m]
<1>5. [i \in D |-> out'[i]] = [i \in D |-> out[i]]
  BY <1>4
<1> QED BY <1>1, <1>3, <1>5 DEF ContentAt

(* The steps that stop the run leave nothing for Cursor to say. *)
LEMMA StopInv ==
  ASSUME Inv, Stop, UNCHANGED <<world, disk>>,
         status' \in {"none", "running", "failed", "source_changed", "pending_human_acceptance"}
  PROVE  Inv'
<1> USE NodesInNat
<1>1. TypeOK'
  BY ChainAssumption, UnreadTyped DEF Inv, TypeOK, Stop, world, disk, IsOutput, Flags, Quiet
<1>2. Cursor'
  BY DEF Stop, Cursor
<1>3. RecordsHonest'
  BY DEF Inv, disk, RecordsHonest
<1> QED BY <1>1, <1>2, <1>3 DEF Inv

LEMMA EditInv ==
  ASSUME Inv, EditSource \/ \E c \in Profiles : EditProfile(c) PROVE Inv'
<1> USE EditsAssumption DEF Inv
<1>1. /\ source' \in Versions /\ source' >= source
      /\ profile' \in ProfileVersions /\ \A c \in Profiles : profile'[c] >= profile[c]
      /\ UNCHANGED <<disk, status, pc, at, run>>
  <2>1. CASE EditSource
    BY <2>1 DEF EditSource, TypeOK, Versions, ProfileVersions
  <2>2. ASSUME NEW c \in Profiles, EditProfile(c) PROVE <1>1!:
    <3>1. profile \in [Profiles -> Nat] /\ profile[c] + 1 \in Versions
      BY <2>2 DEF EditProfile, TypeOK, ProfileVersions, Versions
    <3>2. profile' = [profile EXCEPT ![c] = profile[c] + 1]
      BY <2>2 DEF EditProfile
    <3>3. profile' \in ProfileVersions
      BY <3>1, <3>2 DEF TypeOK, ProfileVersions
    <3>4. \A d \in Profiles : profile'[d] >= profile[d]
      BY <3>1, <3>2
    <3> QED BY <2>2, <3>3, <3>4 DEF EditProfile, TypeOK, Versions
  <2> QED BY <2>1, <2>2
<1>2. TypeOK'
  BY <1>1 DEF TypeOK, IsOutput, disk, run
<1>3. ASSUME NEW n \in Nodes, FreshAt(n) PROVE FreshAt(n)'
  <2>1. PICK s \in Versions, v \in ProfileVersions :
          /\ out[n] = ContentAt(n, s, v) /\ \A c \in Profiles : v[c] >= seen[c]
          /\ s =< source
          /\ resolved # None => s >= resolved
    BY <1>3 DEF FreshAt
  <2>2. s =< source'
    BY <2>1, <1>1 DEF TypeOK, Versions
  <2>3. ContentAt(n, s, v)' = ContentAt(n, s, v)
    BY <1>1 DEF ContentAt, disk
  <2> QED BY <2>1, <2>2, <2>3, <1>1 DEF FreshAt, disk, run
<1>4. Cursor'
  <2>1. Kept' = Kept /\ Rebuilt' = Rebuilt /\ Rebuilt \subseteq Nodes
    BY <1>1 DEF Kept, Rebuilt, FromStage, Skipped, run
  <2>2. \A n \in Nodes : (Passed(n)' <=> Passed(n)) /\ (Complete(n)' <=> Complete(n))
                            /\ (NewEnough(n)' <=> NewEnough(n))
    BY <1>1 DEF Passed, Complete, NewEnough, disk, run
  <2>3. pc # "idle" => /\ \A c \in Profiles : seen'[c] =< profile'[c]
                       /\ resolved' # None => resolved' =< source'
    BY <1>1 DEF Cursor, TypeOK, Versions, ProfileVersions, run
  <2>4. Kept \subseteq Nodes
    BY DEF Kept
  <2>5. pc' = pc /\ at' = at
    BY <1>1
  <2> QED BY <2>1, <2>2, <2>3, <2>4, <2>5, <1>3 DEF Cursor
<1>5. RecordsHonest'
  BY <1>1 DEF RecordsHonest, disk
<1> QED BY <1>2, <1>4, <1>5

LEMMA RemoveInv == ASSUME Inv, NEW n \in Nodes, Remove(n) PROVE Inv'
<1> USE DEF Inv
<1>1. TypeOK'
  BY PlaceholderTyped DEF TypeOK, IsOutput, Remove, world, run
<1>2. Cursor'
  BY DEF Remove, Cursor
<1>3. RecordsHonest'
  BY DEF Remove, RecordsHonest
<1> QED BY <1>1, <1>2, <1>3

LEMMA StartInv == ASSUME Inv, NEW f \in Invocations, Start(f) PROVE Inv'
<1> USE DEF Inv
<1>1. TypeOK'
  BY FlagsAssumption, NodesInNat DEF TypeOK, IsOutput, Start, world, disk
<1>2. \A n \in Nodes : ~Passed(n)'
  BY NodesInNat DEF Start, Passed, Nodes
<1>3. Cursor'
  BY <1>2 DEF Start, Cursor, Kept, Rebuilt, TypeOK, Versions, ProfileVersions, world
<1>4. RecordsHonest'
  BY DEF Start, RecordsHonest, disk
<1> QED BY <1>1, <1>3, <1>4

-----------------------------------------------------------------------------
(* Steps that move the cursor past n and leave the outputs alone. *)
LEMMA AdvanceInv ==
  ASSUME Inv, NEW n \in Nodes, at = n, at' = n + 1, pc # "idle", pc' = "loop",
         UNCHANGED <<world, out, status, resolved, seen, began, flags>>,
         TypeOK', RecordsHonest',
         n \in Kept => Complete(n) /\ NewEnough(n),
         n \in Rebuilt => FreshAt(n)
  PROVE  Inv'
<1> USE NodesInNat DEF Inv
<1>1. /\ Kept' = Kept /\ Rebuilt' = Rebuilt
      /\ Kept \subseteq Nodes /\ Rebuilt \subseteq Nodes
  BY DEF Kept, Rebuilt, FromStage, Skipped
<1>2. \A m \in Nodes : Passed(m)' => m = n \/ Passed(m)
  BY DEF Passed, Nodes
<1>3. \A m \in Nodes : (Complete(m)' <=> Complete(m)) /\ (NewEnough(m)' <=> NewEnough(m))
  BY DEF Complete, NewEnough
<1>4. \A m \in Nodes : FreshAt(m)' <=> FreshAt(m)
  BY DEF FreshAt, ContentAt, world
<1>5. \A m \in Kept : Passed(m)' => (Complete(m) /\ NewEnough(m))'
  BY <1>1, <1>2, <1>3 DEF Cursor
<1>6. \A m \in Rebuilt : Passed(m)' => FreshAt(m)'
  BY <1>1, <1>2, <1>4 DEF Cursor
<1>7. /\ \A c \in Profiles : seen'[c] =< profile'[c]
      /\ resolved' # None => resolved' =< source'
  BY DEF Cursor, world
<1> QED BY <1>1, <1>5, <1>6, <1>7 DEF Cursor

LEMMA SkipInv == ASSUME Inv, NEW n \in Nodes, Skip(n) PROVE Inv'
<1> USE NodesInNat DEF Inv
<1>1. TypeOK'
  BY DEF TypeOK, IsOutput, Skip, AtNode, world, disk, run, Nodes
<1>2. RecordsHonest'
  BY DEF Skip, RecordsHonest, disk
<1>3. n \notin Kept /\ n \notin Rebuilt
  BY DEF Skip, Kept, Rebuilt
<1> QED BY <1>1, <1>2, <1>3, AdvanceInv DEF Skip, AtNode, disk, run

LEMMA ReuseInv == ASSUME Inv, NEW n \in Nodes, Reuse(n) PROVE Inv'
<1> USE NodesInNat DEF Inv
<1>1. TypeOK'
  BY DEF TypeOK, IsOutput, Reuse, AtNode, world, disk, Nodes
<1>2. RecordsHonest'
  BY DEF Reuse, RecordsHonest, disk
<1>3. Complete(n) /\ NewEnough(n)
  BY DEF Reuse, Reusable, Signature, SignedProfiles, RecordsHonest, NewEnough, Complete
<1>4. n \notin Rebuilt
  BY DEF Reuse, Forced, Rebuilt, FromStage, TypeOK, Flags, Nodes
<1> QED BY <1>1, <1>2, <1>3, <1>4, AdvanceInv DEF Reuse, AtNode, disk

LEMMA RunInv == ASSUME Inv, NEW n \in Nodes, Run(n) PROVE Inv'
<1> USE NodesInNat DEF Inv
<1>1. PICK o \in {out[n], Bad} : out' = [out EXCEPT ![n] = o]
  BY DEF Run
<1>2. TypeOK'
  <2>1. \A m \in Nodes : IsOutput(m, out[m])' /\ DOMAIN out' = Nodes
    BY <1>1, PlaceholderTyped DEF TypeOK, IsOutput
  <2> QED BY <2>1 DEF TypeOK, IsOutput, Run, world, run
<1>3. /\ Kept' = Kept /\ Rebuilt' = Rebuilt /\ n \in Kept
      /\ Kept \subseteq Nodes /\ Rebuilt \subseteq Kept
  BY DEF Run, Kept, Rebuilt, FromStage, Skipped, run
<1>4. \A m \in Nodes : Passed(m)' => m < n /\ Passed(m)
  BY DEF Run, AtNode, Passed, Nodes
<1>5. \A m \in Nodes : m < n => out'[m] = out[m]
  BY <1>1 DEF TypeOK, Nodes
<1>6. \A m \in Kept : Passed(m)' => (Complete(m) /\ NewEnough(m))'
  BY <1>3, <1>4, <1>5 DEF Cursor, Complete, NewEnough, Run, AtNode, run
<1>7. ASSUME NEW m \in Rebuilt, Passed(m)' PROVE FreshAt(m)'
  <2>1. m < n /\ FreshAt(m) /\ m \in Nodes
    BY <1>7, <1>3, <1>4 DEF Cursor, Run, AtNode
  <2>2. \A s, v : out'[m] = out[m] /\ ContentAt(m, s, v)' = ContentAt(m, s, v)
    BY <1>1, <2>1, ContentStays
  <2> QED BY <2>1, <2>2 DEF FreshAt, Run, world, run
<1>8. Cursor'
  BY <1>3, <1>6, <1>7 DEF Cursor, Run, AtNode, world, run
<1>9. RecordsHonest'
  BY DEF Run, RecordsHonest
<1> QED BY <1>2, <1>8, <1>9

LEMMA PassInv == ASSUME Inv, NEW n \in Nodes, Pass(n) PROVE Inv'
<1> USE NodesInNat DEF Inv
<1>1. out' = [out EXCEPT ![n] = Content(n)] /\ source \in Versions /\ profile \in ProfileVersions
  BY DEF Pass, TypeOK
<1>2. TypeOK'
  <2>1. IsOutput(n, Content(n))
    BY <1>1, ContentTyped DEF Content
  <2>2. \A m \in Nodes : IsOutput(m, out[m])' /\ DOMAIN out' = Nodes
    BY <1>1, <2>1 DEF TypeOK, IsOutput
  <2> QED BY <2>2 DEF TypeOK, IsOutput, Pass, world
<1>3. /\ Kept' = Kept /\ Rebuilt' = Rebuilt /\ n \in Kept
      /\ Kept \subseteq Nodes /\ Rebuilt \subseteq Kept
  BY DEF Pass, Kept, Rebuilt, FromStage, Skipped, Cursor
<1>4. \A m \in Nodes : Passed(m)' => m = n \/ (m < n /\ Passed(m))
  BY DEF Pass, Passed, Nodes
<1>5. \A m \in Nodes : m < n => out'[m] = out[m]
  BY <1>1 DEF TypeOK, Nodes
<1>6. out'[n] = Content(n)
  BY <1>1 DEF TypeOK
<1>7. /\ seen' = seen /\ world' = world /\ \A c \in Profiles : profile[c] >= seen[c]
      /\ (resolved' # None => resolved' =< source)
      /\ \A m \in Nodes : m < n => resolved' = resolved
  <2>1. \A c \in Profiles : seen[c] =< profile[c] /\ seen[c] \in Nat /\ profile[c] \in Nat
    BY DEF Pass, Cursor, TypeOK, ProfileVersions, Versions
  <2> QED BY <1>1, <2>1 DEF Pass, Cursor, world, Versions, Nodes
<1>8. ASSUME NEW m \in Kept, Passed(m)' PROVE (Complete(m) /\ NewEnough(m))'
  <2>1. CASE m = n
    <3>1. Content(n).node = n /\ \A c \in Uses[n] : Content(n).config[c] = profile[c]
      BY <1>1, ContentTyped DEF Content
    <3> QED BY <2>1, <3>1, <1>6, <1>7, ProfilesAssumption DEF Complete, NewEnough
  <2>2. CASE m # n
    BY <1>8, <2>2, <1>3, <1>4, <1>5, <1>7 DEF Cursor, Complete, NewEnough, Pass
  <2> QED BY <2>1, <2>2
<1>9. ASSUME NEW m \in Rebuilt, Passed(m)' PROVE FreshAt(m)'
  <2>1. CASE m = n
    <3>1. ContentAt(n, source, profile)' = ContentAt(n, source, profile)
      <4>1. n \notin Reads[n] /\ Reads[n] \subseteq Nodes /\ DOMAIN out = Nodes
        BY ChainAssumption DEF Nodes, TypeOK
      <4>2. \A i \in Reads[n] : out'[i] = out[i]
        BY <1>1, <4>1
      <4> DEFINE D == IF n \in Opaque THEN {} ELSE Reads[n]
      <4>3. [i \in D |-> out'[i]] = [i \in D |-> out[i]]
        BY <4>2
      <4> QED BY <4>3, <1>7 DEF ContentAt, world
    <3>2. source =< source /\ (resolved' # None => source >= resolved')
      BY <1>1, <1>7 DEF TypeOK, Versions
    <3> QED BY <2>1, <3>1, <3>2, <1>1, <1>6, <1>7 DEF FreshAt, Content, world
  <2>2. CASE m # n
    <3>1. m < n /\ FreshAt(m) /\ m \in Nodes
      BY <1>9, <2>2, <1>3, <1>4 DEF Cursor, Pass
    <3>2. \A s, v : out'[m] = out[m] /\ ContentAt(m, s, v)' = ContentAt(m, s, v)
      BY <1>1, <3>1, ContentStays
    <3> QED BY <3>1, <3>2, <1>7 DEF FreshAt, world
  <2> QED BY <2>1, <2>2
<1>10. Cursor'
  BY <1>3, <1>7, <1>8, <1>9 DEF Cursor, Pass, world
<1>11. RecordsHonest'
  BY DEF Pass, RecordsHonest
<1> QED BY <1>2, <1>10, <1>11

LEMMA RecordInv == ASSUME Inv, NEW n \in Nodes, Record(n) PROVE Inv'
<1> USE NodesInNat DEF Inv
<1>1. n \in Kept /\ Passed(n)
  BY DEF Record, Cursor, Passed
<1>2. Complete(n) /\ NewEnough(n) /\ (n \in Rebuilt => FreshAt(n))
  BY <1>1 DEF Record, Cursor
<1>3. TypeOK'
  <2>2. \A m \in Nodes : IsOutput(m, record[m].hash)'
    BY DEF Record, TypeOK, IsOutput
  <2>3. DOMAIN record' = Nodes /\ DOMAIN hashes' = Nodes /\ at' \in 1 .. K + 1
    BY DEF Record, TypeOK, Nodes
  <2>4. \A m \in Nodes : IsOutput(m, out[m])'
    BY DEF Record, TypeOK, IsOutput
  <2> QED BY <2>2, <2>3, <2>4 DEF TypeOK, Record, world
<1>4. RecordsHonest'
  <2> SUFFICES ASSUME NEW m \in Nodes, record'[m].hash # Absent
               PROVE  /\ record'[m].hash.node = m
                      /\ \A c \in Uses[m] \cap Hashed[m] :
                           record'[m].hash.config[c] >= record'[m].signature.config[c]
    BY DEF RecordsHonest
  <2>1. CASE m = n
    <3>1. record'[n].hash = out[n] /\ record'[n].signature = Signature(n)
      BY DEF Record, TypeOK
    <3>2. \A c \in Hashed[n] : Signature(n).config[c] = seen[c]
      BY DEF Signature, SignedProfiles
    <3> QED BY <2>1, <3>1, <3>2, <1>2 DEF NewEnough, Complete
  <2>2. CASE m # n
    BY <2>2 DEF Record, TypeOK, RecordsHonest
  <2> QED BY <2>1, <2>2
<1> QED BY <1>2, <1>3, <1>4, AdvanceInv DEF Record

LEMMA EndInv == ASSUME Inv, NEW n \in Nodes, Fail(n) \/ Close \/ Kill PROVE Inv'
<1>1. /\ Stop /\ UNCHANGED <<world, disk>>
      /\ status' \in {"none", "running", "failed", "source_changed", "pending_human_acceptance"}
  BY DEF Fail, Close, Kill, Inv, TypeOK
<1> QED BY <1>1, StopInv

LEMMA StutterInv == ASSUME Inv, UNCHANGED vars PROVE Inv'
<1> USE DEF Inv, vars
<1>1. TypeOK'
  BY DEF TypeOK, IsOutput
<1>2. \A n \in Nodes : (FreshAt(n)' <=> FreshAt(n)) /\ (Passed(n)' <=> Passed(n))
                         /\ (Complete(n)' <=> Complete(n)) /\ (NewEnough(n)' <=> NewEnough(n))
  BY DEF FreshAt, ContentAt, Passed, Complete, NewEnough
<1>3. Kept' = Kept /\ Rebuilt' = Rebuilt /\ Kept \subseteq Nodes /\ Rebuilt \subseteq Nodes
  BY DEF Kept, Rebuilt, FromStage, Skipped
<1>4. Cursor'
  BY <1>2, <1>3 DEF Cursor
<1>5. RecordsHonest'
  BY DEF RecordsHonest
<1> QED BY <1>1, <1>4, <1>5

LEMMA NextInv == Inv /\ [Next]_vars => Inv'
<1> SUFFICES ASSUME Inv, [Next]_vars PROVE Inv'
  OBVIOUS
<1>0. 1 \in Nodes
  BY NodesInNat DEF Nodes
<1>1. CASE EditSource \/ \E c \in Profiles : EditProfile(c)
  BY <1>1, EditInv
<1>2. CASE \E n \in Nodes : Remove(n)
  BY <1>2, RemoveInv
<1>3. CASE \E f \in Invocations : Start(f)
  BY <1>3, StartInv
<1>4. CASE \E n \in Nodes : NodeStep(n)
  BY <1>4, SkipInv, ReuseInv, RunInv, PassInv, RecordInv, EndInv DEF NodeStep
<1>5. CASE Close \/ Kill
  BY <1>0, <1>5, EndInv
<1>6. CASE UNCHANGED vars
  BY <1>6, StutterInv
<1> QED BY <1>1, <1>2, <1>3, <1>4, <1>5, <1>6 DEF Next

(* The invariant of the executor, on any chain. *)
THEOREM WorkflowInvariant == Spec => []Inv
<1> QED BY InitInv, NextInv, PTL DEF Spec

-----------------------------------------------------------------------------
(* Type correctness. *)
THEOREM TypeCorrect == Spec => []TypeOK
<1>1. Inv => TypeOK
  BY DEF Inv
<1> QED BY <1>1, WorkflowInvariant, PTL

(* run_workflow: a run that is through has only complete, passing outputs, *)
(* reused ones included.                                                   *)
THEOREM ThroughComplete == Spec => []ThroughIsComplete
<1>1. Inv => ThroughIsComplete
  BY NodesInNat DEF Inv, Cursor, Passed, Through, ThroughIsComplete, Kept, Nodes
<1> QED BY <1>1, WorkflowInvariant, PTL

(* can_reuse: outputs made under older versions of a profile that is hashed*)
(* for their node are never part of a run.  Of a file that a command reads *)
(* without its being hashed nothing is claimed.                            *)
THEOREM ThroughCurrent == Spec => []ThroughProfile
<1>1. Inv => ThroughProfile
  BY NodesInNat DEF Inv, Cursor, Passed, Through, ThroughProfile, Kept, NewEnough, Nodes
<1> QED BY <1>1, WorkflowInvariant, PTL

(* --force-stage leaves nothing stale behind it, whatever the chain and    *)
(* whatever the commands read.                                             *)
THEOREM ForcedFresh == Spec => []ForcedIsFresh
<1>1. ASSUME Inv, Through, NEW n \in Rebuilt
      PROVE  \E s \in Versions, v \in ProfileVersions :
               /\ out[n] = ContentAt(n, s, v)
               /\ \A c \in Profiles : v[c] >= seen[c]
               /\ resolved = source => s = source
  <2>1. FreshAt(n)
    BY <1>1, NodesInNat DEF Inv, Cursor, Passed, Through, Rebuilt, Kept, Nodes
  <2>2. PICK s \in Versions, v \in ProfileVersions :
          /\ out[n] = ContentAt(n, s, v) /\ \A c \in Profiles : v[c] >= seen[c]
          /\ s =< source
          /\ resolved # None => s >= resolved
    BY <2>1 DEF FreshAt
  <2>3. source \in Versions /\ source # None
    BY <1>1, NoneAssumption DEF Inv, TypeOK, Versions
  <2>4. resolved = source => s = source
    BY <2>2, <2>3, EditsAssumption DEF Versions
  <2> QED BY <2>2, <2>4
<1>2. Inv => ForcedIsFresh
  BY <1>1 DEF ForcedIsFresh
<1> QED BY <1>2, WorkflowInvariant, PTL

-----------------------------------------------------------------------------
(* Along the chain.  What a run remembers of the nodes it passed is what   *)
(* they have now (HashesFollow), and a record that names an output of the  *)
(* node before names the one its own output was computed from, and that    *)
(* the one before was computed from (RecordsFollow), so a reused node      *)
(* follows them too.                                                       *)
Follows(n) == n \notin Opaque => \A i \in Told(n) : out[n].inputs[i] = out[i]

HashesFollow ==
  pc # "idle" =>
    \A n \in Nodes : hashes[n] = IF n < at /\ n \in Kept THEN out[n] ELSE Absent

CursorFollows == pc # "idle" => \A n \in Kept : Passed(n) => Follows(n)

RecordsFollow ==
  \A n \in Nodes \ Opaque :
    record[n].hash.node = n /\ record[n].signature.dependency # Absent =>
      /\ n - 1 \in Reads[n] =>
           record[n].hash.inputs[n - 1] = record[n].signature.dependency
      /\ n - 2 \in (Reads[n] \cap Reads[n - 1]) \ Validators /\ n - 1 \notin Opaque =>
           record[n].hash.inputs[n - 2] = record[n].signature.dependency.inputs[n - 2]

FollowInv == HashesFollow /\ CursorFollows /\ RecordsFollow

(* Nodes are numbered; the node before n is not n. *)
LEMMA NodeBefore ==
  \A n \in Nodes : /\ n \in Nat /\ n # n - 1 /\ n - 1 < n /\ n < n + 1
                   /\ n # 1 => n - 1 \in Nodes
                   /\ n = 1 => n - 1 \notin Nodes
                   /\ \A m \in Nodes : m < n + 1 <=> m < n \/ m = n
BY NodesInNat DEF Nodes

(* What a node is told of is in the run, and stands before the node. *)
LEMMA ToldBefore ==
  ASSUME NEW n \in Nodes, NEW i \in Told(n)
  PROVE  /\ i \in Kept /\ i < n /\ i # n /\ i \in Reads[n] /\ i \in Nodes
         /\ n - 1 \in Kept /\ n - 1 \in Nodes
         /\ i = n - 1 \/ (i \in Told(n - 1) /\ i = n - 2 /\ n - 1 \notin Opaque
                            /\ i \in (Reads[n] \cap Reads[n - 1]) \ Validators)
<1>1. i \in Reads[n] /\ n - 1 \in Kept /\ n - 1 \in Nodes /\ n \in Nat
  BY NodesInNat DEF Told, Kept, Nodes
<1>2. i \in Nodes /\ i < n
  BY <1>1, ChainAssumption
<1>3. i # n
  BY <1>1, <1>2, NodesInNat
<1>4. CASE i = n - 1
  BY <1>1, <1>2, <1>3, <1>4
<1>5. CASE i # n - 1
  <2>1. i = n - 2 /\ i \notin Validators /\ i \in Reads[n - 1] /\ n - 1 \notin Opaque
    BY <1>5 DEF Told
  <2>2. i \in Kept /\ i = (n - 1) - 1
    BY <1>1, <1>2, <2>1, NodesInNat DEF Kept, Skipped
  <2>3. i \in Told(n - 1)
    BY <2>1, <2>2 DEF Told
  <2> QED BY <1>1, <1>2, <1>3, <2>1, <2>2, <2>3
<1> QED BY <1>4, <1>5

LEMMA KeptNodes == Kept \subseteq Nodes /\ Opaque \subseteq Nodes
BY NodesAssumption DEF Kept

(* A complete output is none of the placeholders. *)
LEMMA CompletePresent == ASSUME NEW n \in Nodes, Complete(n) PROVE out[n] # Absent
BY NodesInNat DEF Complete, Absent, Nodes

LEMMA InitFollow == Init => FollowInv
BY NodesInNat DEF Init, FollowInv, HashesFollow, CursorFollows, RecordsFollow, NoRecord, Absent, Nodes

(* A step that leaves an executor idle, or was taken beside it. *)
LEMMA IdleFollow ==
  ASSUME FollowInv, pc' = "idle", record' = record PROVE FollowInv'
BY DEF FollowInv, HashesFollow, CursorFollows, RecordsFollow

LEMMA BesideFollow ==
  ASSUME FollowInv, UNCHANGED <<out, record, pc, at, hashes, flags>> PROVE FollowInv'
BY DEF FollowInv, HashesFollow, CursorFollows, RecordsFollow, Kept, Skipped, Passed, Follows, Told

LEMMA StartFollow ==
  ASSUME FollowInv, NEW f \in Invocations, Start(f) PROVE FollowInv'
<1>1. at' = 1 /\ pc' = "loop" /\ hashes' = [n \in Nodes |-> Absent] /\ record' = record
  BY DEF Start, disk
<1>2. \A n \in Nodes : ~(n < 1) /\ ~Passed(n)'
  BY <1>1, NodesInNat DEF Passed, Nodes
<1>3. Kept' \subseteq Nodes
  BY DEF Kept
<1> QED BY <1>1, <1>2, <1>3 DEF FollowInv, HashesFollow, CursorFollows, RecordsFollow

LEMMA SkipFollow ==
  ASSUME FollowInv, NEW n \in Nodes, Skip(n) PROVE FollowInv'
<1>1. /\ at = n /\ at' = n + 1 /\ pc = "loop" /\ UNCHANGED <<out, record, pc, hashes, flags>>
      /\ n \notin Kept
  BY DEF Skip, AtNode, disk, run, Kept
<1>2. Kept' = Kept
  BY <1>1 DEF Kept, Skipped
<1>3. \A m \in Kept : m < n + 1 <=> m < n
  BY <1>1, NodeBefore, KeptNodes
<1> QED BY <1>1, <1>2, <1>3
        DEF FollowInv, HashesFollow, CursorFollows, RecordsFollow, Passed, Follows, Told

(* The cursor passes n, whose output follows. *)
LEMMA PassFollow ==
  ASSUME TypeOK, FollowInv, NEW n \in Nodes, n \in Kept, at = n, at' = n + 1,
         pc # "idle", pc' = "loop", hashes' = [hashes EXCEPT ![n] = out[n]],
         UNCHANGED <<out, flags>>, Follows(n)
  PROVE  HashesFollow' /\ CursorFollows'
<1>1. Kept' = Kept
  BY DEF Kept, Skipped
<1>2. \A m \in Nodes : m < n + 1 <=> m < n \/ m = n
  BY NodeBefore
<1>3. HashesFollow'
  BY <1>1, <1>2, NodeBefore DEF FollowInv, HashesFollow, TypeOK
<1>4. ASSUME NEW m \in Kept, Passed(m)' PROVE Follows(m)'
  <2>1. m < n \/ m = n
    BY <1>2, <1>4, KeptNodes DEF Passed
  <2>2. Follows(m)
    BY <2>1 DEF FollowInv, CursorFollows, Passed
  <2> QED BY <2>2, <1>1 DEF Follows, Told
<1> QED BY <1>1, <1>3, <1>4 DEF CursorFollows

LEMMA ReuseFollow ==
  ASSUME Inv, FollowInv, NEW n \in Nodes, Reuse(n) PROVE FollowInv'
<1>1. /\ at = n /\ at' = n + 1 /\ pc = "loop" /\ pc' = "loop" /\ n \in Kept
      /\ hashes' = [hashes EXCEPT ![n] = out[n]] /\ UNCHANGED <<out, record, flags>>
      /\ record[n].signature = Signature(n) /\ record[n].hash = out[n] /\ out[n].node = n
  BY DEF Reuse, AtNode, disk, Kept, Reusable, Inv, RecordsHonest
<1>2. Follows(n)
  <2> SUFFICES ASSUME n \notin Opaque, NEW i \in Told(n) PROVE out[n].inputs[i] = out[i]
    BY DEF Follows
  <2>1. n - 1 \in Nodes /\ n - 1 \in Kept /\ n - 1 < n /\ n # 1
    BY NodeBefore, ToldBefore
  <2>2. Complete(n - 1) /\ Passed(n - 1)
    BY <1>1, <2>1 DEF Inv, Cursor, Passed
  <2>3. hashes[n - 1] = out[n - 1] /\ out[n - 1] # Absent
    BY <1>1, <2>1, <2>2, CompletePresent DEF FollowInv, HashesFollow
  <2>4. record[n].signature.dependency = out[n - 1]
    BY <1>1, <2>1, <2>3 DEF Signature
  <2>5. Follows(n - 1)
    BY <1>1, <2>1, <2>2 DEF FollowInv, CursorFollows
  <2>6. CASE i = n - 1
    BY <1>1, <2>3, <2>4, <2>6, ToldBefore DEF FollowInv, RecordsFollow
  <2>7. CASE i # n - 1
    <3>1. /\ i \in Told(n - 1) /\ i = n - 2 /\ n - 1 \notin Opaque
          /\ i \in (Reads[n] \cap Reads[n - 1]) \ Validators
      BY <2>7, ToldBefore
    <3>2. out[n].inputs[i] = out[n - 1].inputs[i]
      BY <1>1, <2>3, <2>4, <3>1 DEF FollowInv, RecordsFollow
    <3> QED BY <2>5, <3>1, <3>2 DEF Follows
  <2> QED BY <2>6, <2>7
<1>3. RecordsFollow'
  BY <1>1 DEF FollowInv, RecordsFollow
<1> QED BY <1>1, <1>2, <1>3, PassFollow DEF Inv, FollowInv

(* A step that writes the output at the cursor, which is not passed yet.   *)
LEMMA WriteFollow ==
  ASSUME TypeOK, FollowInv, NEW n \in Nodes, NEW o, at = n, at' = n, pc # "idle",
         out' = [out EXCEPT ![n] = o], UNCHANGED <<record, hashes, flags>>,
         pc' = "passed" => Follows(n)'
  PROVE  FollowInv'
<1>1. Kept' = Kept
  BY DEF Kept, Skipped
<1>2. \A m \in Nodes : m # n => out'[m] = out[m]
  BY DEF TypeOK
<1>3. \A m \in Nodes : m < n => m # n /\ m # n + 1 /\ m - 1 # n
  BY NodesInNat DEF Nodes
<1>4. HashesFollow' /\ \A m \in Nodes : Told(m)' = Told(m)
  BY <1>1, <1>2, <1>3 DEF FollowInv, HashesFollow, Told
<1>5. ASSUME NEW m \in Kept, Passed(m)' PROVE Follows(m)'
  <2>1. CASE m = n
    BY <1>5, <2>1, <1>3, NodeBefore DEF Passed
  <2>2. CASE m < n
    <3>1. Follows(m)
      BY <2>2 DEF FollowInv, CursorFollows, Passed
    <3>2. out'[m] = out[m] /\ m \in Nodes /\ m \in Nat /\ n \in Nat
      BY <1>1, <1>2, <1>3, <1>5, <2>2, KeptNodes, NodeBefore
    <3>3. ASSUME NEW i \in Told(m) PROVE out'[i] = out[i]
      <4>1. i \in Nodes /\ i < m /\ i \in Nat
        BY <3>2, ToldBefore, NodeBefore
      <4> QED BY <1>2, <2>2, <3>2, <4>1
    <3> QED BY <1>4, <3>1, <3>2, <3>3 DEF Follows
  <2> QED BY <1>5, <2>1, <2>2 DEF Passed
<1>6. RecordsFollow'
  BY DEF FollowInv, RecordsFollow
<1> QED BY <1>1, <1>4, <1>5, <1>6 DEF FollowInv, CursorFollows

LEMMA CommandFollow ==
  ASSUME Inv, FollowInv, NEW n \in Nodes, Run(n) \/ Pass(n) PROVE FollowInv'
<1>1. CASE Run(n)
  <2>1. PICK o \in {out[n], Bad} : out' = [out EXCEPT ![n] = o]
    BY <1>1 DEF Run
  <2>2. pc # "idle" /\ pc' = "command" /\ at = n /\ at' = n /\ UNCHANGED <<record, hashes, flags>>
    BY <1>1 DEF Run, AtNode, run
  <2> QED BY <2>1, <2>2, WriteFollow DEF Inv
<1>2. CASE Pass(n)
  <2>1. /\ out' = [out EXCEPT ![n] = Content(n)] /\ pc # "idle" /\ at = n /\ at' = n
        /\ UNCHANGED <<record, hashes, flags>>
    BY <1>2 DEF Pass
  <2>2. Follows(n)'
    <3> SUFFICES ASSUME n \notin Opaque, NEW i \in Told(n) PROVE out'[n].inputs[i] = out'[i]
      BY <2>1 DEF Follows, Told, Kept, Skipped
    <3>1. out'[n] = Content(n)
      BY <2>1 DEF Inv, TypeOK
    <3>2. Content(n).inputs[i] = out[i]
      BY ToldBefore DEF Content, ContentAt
    <3>3. out'[i] = out[i]
      BY <2>1, ToldBefore DEF Inv, TypeOK
    <3> QED BY <3>1, <3>2, <3>3
  <2> QED BY <2>1, <2>2, WriteFollow DEF Inv
<1> QED BY <1>1, <1>2

LEMMA RecordFollow ==
  ASSUME Inv, FollowInv, NEW n \in Nodes, Record(n) PROVE FollowInv'
<1>1. /\ at = n /\ at' = n + 1 /\ pc = "passed" /\ pc' = "loop"
      /\ hashes' = [hashes EXCEPT ![n] = out[n]] /\ UNCHANGED <<out, flags>>
      /\ record' = [record EXCEPT ![n] = [signature |-> Signature(n), hash |-> out[n]]]
  BY DEF Record
<1>2. n \in Kept /\ Follows(n)
  BY <1>1 DEF Inv, Cursor, FollowInv, CursorFollows, Passed
<1>3. ASSUME NEW m \in Nodes \ Opaque, record'[m].hash.node = m,
             record'[m].signature.dependency # Absent
      PROVE  /\ m - 1 \in Reads[m] =>
                  record'[m].hash.inputs[m - 1] = record'[m].signature.dependency
             /\ m - 2 \in (Reads[m] \cap Reads[m - 1]) \ Validators /\ m - 1 \notin Opaque =>
                  record'[m].hash.inputs[m - 2] = record'[m].signature.dependency.inputs[m - 2]
  <2>1. CASE m = n
    <3>1. record'[n] = [signature |-> Signature(n), hash |-> out[n]]
      BY <1>1 DEF Inv, TypeOK
    <3>2. n # 1 /\ hashes[n - 1] # Absent /\ record'[n].signature.dependency = hashes[n - 1]
      BY <1>3, <2>1, <3>1 DEF Signature
    <3>3. n - 1 \in Nodes /\ n - 1 < n
      BY <3>2, NodeBefore
    <3>4. n - 1 \in Kept /\ hashes[n - 1] = out[n - 1]
      BY <1>1, <3>2, <3>3 DEF FollowInv, HashesFollow
    <3>5. ASSUME n - 1 \in Reads[n] PROVE out[n].inputs[n - 1] = out[n - 1]
      <4>1. n - 1 \in Told(n)
        BY <3>4, <3>5 DEF Told
      <4> QED BY <1>2, <1>3, <2>1, <4>1 DEF Follows
    <3>6. ASSUME n - 2 \in (Reads[n] \cap Reads[n - 1]) \ Validators, n - 1 \notin Opaque
          PROVE  out[n].inputs[n - 2] = out[n - 1].inputs[n - 2]
      <4>1. n - 2 \in Told(n)
        BY <3>4, <3>6 DEF Told
      <4>2. n - 2 \in Told(n - 1)
        BY <4>1, ToldBefore, NodesInNat DEF Nodes
      <4>3. Follows(n - 1)
        BY <1>1, <3>3, <3>4 DEF FollowInv, CursorFollows, Passed
      <4> QED BY <1>2, <1>3, <2>1, <3>6, <4>1, <4>2, <4>3 DEF Follows
    <3> QED BY <2>1, <3>1, <3>2, <3>4, <3>5, <3>6
  <2>2. CASE m # n
    BY <1>1, <1>3, <2>2 DEF FollowInv, RecordsFollow, Inv, TypeOK
  <2> QED BY <2>1, <2>2
<1>4. RecordsFollow'
  BY <1>3 DEF RecordsFollow
<1> QED BY <1>1, <1>2, <1>4, PassFollow DEF Inv, FollowInv

LEMMA FollowStep == ASSUME Inv, FollowInv, [Next]_vars PROVE FollowInv'
<1>1. CASE EditSource \/ (\E c \in Profiles : EditProfile(c)) \/ UNCHANGED vars
  BY <1>1, BesideFollow DEF EditSource, EditProfile, disk, run, vars
<1>2. ASSUME NEW n \in Nodes, Remove(n) PROVE FollowInv'
  BY <1>2, IdleFollow DEF Remove
<1>3. ASSUME NEW f \in Invocations, Start(f) PROVE FollowInv'
  BY <1>3, StartFollow
<1>4. ASSUME NEW n \in Nodes, NodeStep(n) PROVE FollowInv'
  BY <1>4, SkipFollow, ReuseFollow, CommandFollow, RecordFollow, IdleFollow
     DEF NodeStep, Fail, Stop, disk
<1>5. CASE Close \/ Kill
  BY <1>5, IdleFollow DEF Close, Kill, Stop, disk
<1> QED BY <1>1, <1>2, <1>3, <1>4, <1>5 DEF Next

(* In a run that is through, each node was computed from what the node     *)
(* before it and the one before that have now, executed or reused.         *)
THEOREM ThroughFollowed == Spec => []ThroughFollows
<1>1. Inv /\ FollowInv /\ [Next]_vars => FollowInv'
  BY FollowStep
<1>2. ASSUME FollowInv PROVE ThroughFollows
  <2>1. \A n \in Nodes : n < K + 1
    BY NodesInNat DEF Nodes
  <2> QED BY <1>2, <2>1, KeptNodes
          DEF FollowInv, CursorFollows, Follows, Passed, Through, ThroughFollows
<1> QED BY InitFollow, <1>1, <1>2, WorkflowInvariant, PTL DEF Spec
=============================================================================
