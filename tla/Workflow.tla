------------------------------ MODULE Workflow ------------------------------
(***************************************************************************)
(* The Stage-10 workflow of one run root (toporetarget/workflows): the     *)
(* executor walks the chain of nodes (executor.run_workflow), reuses a node*)
(* whose cache record still matches (cache.can_reuse) or runs its command, *)
(* and checks the raw source when the last node is done.  Between and      *)
(* during runs somebody edits the raw source or a profile, or removes      *)
(* outputs; a run may be killed anywhere.  The files a command reads and   *)
(* the files its signature hashes are two lists in the code, and two       *)
(* constants here (Uses, Hashed).                                          *)
(*                                                                         *)
(* A file is abstracted to its content: what it was computed from.  Equal  *)
(* contents have equal hashes, so a hash is modelled by the content itself.*)
(* Versions of the raw source and of the profiles never come back.         *)
(***************************************************************************)
EXTENDS Naturals

CONSTANTS
  K,           \* nodes of the chain before write_run_manifest, in order
  Reads,       \* Reads[n]: nodes whose outputs the command of n reads
  RawReaders,  \* nodes that read the raw source
  Profiles,    \* profile and sample files, apart from the raw source
  Uses,        \* Uses[n]: those the command of n reads
  Hashed,      \* Hashed[n]: those whose hash is in the signature of n
  Opaque,      \* nodes whose report says nothing about what they read
  Producers,   \* nodes whose command refuses to replace its output
  Validators,  \* nodes that --no-validate skips
  Invocations, \* the command lines tried
  Edits,       \* how often the source and the profiles are edited
  None         \* manifest.source_hash of a run that has not set it

Nodes == 1 .. K
Flags == [resume : BOOLEAN, stage : 0 .. K, overwrite : BOOLEAN, skip : BOOLEAN]

ASSUME ChainAssumption ==
  /\ K \in Nat \ {0}
  /\ Reads \in [Nodes -> SUBSET Nodes]
  /\ \A n \in Nodes : \A i \in Reads[n] : i < n
ASSUME NodesAssumption ==
  /\ RawReaders \subseteq Nodes /\ 1 \in RawReaders
  /\ Producers \subseteq Nodes /\ Validators \subseteq Nodes
  /\ Opaque \subseteq Nodes \ RawReaders
ASSUME ProfilesAssumption ==
  /\ Uses \in [Nodes -> SUBSET Profiles]
  /\ Hashed \in [Nodes -> SUBSET Profiles]
  /\ \A n \in Opaque : Uses[n] = {}
ASSUME EditsAssumption == Edits \in Nat
ASSUME NoneAssumption == None \notin 0 .. Edits
ASSUME FlagsAssumption == Invocations \subseteq Flags

VARIABLES
  source,    \* version of the raw source file
  profile,   \* version of each profile file
  out,       \* output of each node
  record,    \* cache/<node>.json: the signature and the hash of the output
  status,    \* run_status in status.json
  pc,        \* the executor: idle, between nodes, in a command, after it
  at,        \* the node it is at
  hashes,    \* output_hashes
  resolved,  \* manifest.source_hash
  seen,      \* the profile versions hashed when the run started
  began,     \* the source version when the run started (history)
  flags      \* --resume, --force-stage, --force-output, --no-validate

world == <<source, profile>>
disk  == <<out, record>>
run   == <<hashes, resolved, seen, began, flags>>
vars  == <<source, profile, out, record, status, pc, at, hashes, resolved, seen, began, flags>>

Versions == 0 .. Edits
Unread == [c \in Profiles |-> 0]
Quiet == [resume |-> FALSE, stage |-> 0, overwrite |-> FALSE, skip |-> FALSE]

(* Outputs that are not the complete output of any node: no file, and one  *)
(* that is incomplete or a report that does not pass.                      *)
Absent == [node |-> 0, raw |-> 0, config |-> <<>>, inputs |-> <<>>]
Bad    == [node |-> K + 1, raw |-> 0, config |-> <<>>, inputs |-> <<>>]
Complete(n) == out[n].node = n

NoRecord == [signature |-> [config |-> <<>>, dependency |-> Absent], hash |-> Absent]

Init ==
  /\ source = 0
  /\ profile = Unread
  /\ out = [n \in Nodes |-> Absent]
  /\ record = [n \in Nodes |-> NoRecord]
  /\ status = "none"
  /\ pc = "idle"
  /\ at = 1
  /\ hashes = [n \in Nodes |-> Absent]
  /\ resolved = None
  /\ seen = Unread
  /\ began = 0
  /\ flags = Quiet

-----------------------------------------------------------------------------
(* The world *)

EditSource ==
  /\ source < Edits
  /\ source' = source + 1
  /\ UNCHANGED <<profile, disk, status, pc, at, run>>

EditProfile(c) ==
  /\ profile[c] < Edits
  /\ profile' = [profile EXCEPT ![c] = @ + 1]
  /\ UNCHANGED <<source, disk, status, pc, at, run>>

Remove(n) ==
  /\ pc = "idle"
  /\ out[n] # Absent
  /\ out' = [out EXCEPT ![n] = Absent]
  /\ UNCHANGED <<world, record, status, pc, at, run>>

-----------------------------------------------------------------------------
(* What the executor computes *)

(* What the command of n writes now, with the raw source at version s and  *)
(* the profiles at versions v.                                             *)
ContentAt(n, s, v) ==
  [node   |-> n,
   raw    |-> IF n \in RawReaders THEN s ELSE 0,
   config |-> [c \in Uses[n] |-> v[c]],
   inputs |-> [i \in (IF n \in Opaque THEN {} ELSE Reads[n]) |-> out[i]]]
Content(n) == ContentAt(n, source, profile)

(* _node_signature: the hashes of the profiles that are listed for n, as   *)
(* they were when the run started, and the output hash of the node before, *)
(* "" when that node was skipped.  The request is fixed by the run root.   *)
SignedProfiles(n) == [c \in Hashed[n] |-> seen[c]]
SignatureAlone(n) ==                             \* mutant: of the node itself only
  [config |-> SignedProfiles(n), dependency |-> Absent]
Signature(n) ==
  [config |-> SignedProfiles(n), dependency |-> IF n = 1 THEN Absent ELSE hashes[n - 1]]

ForcedOnly(n) == flags.stage = n                                \* mutant: no latch
Forced(n) == flags.stage # 0 /\ n >= flags.stage
Skipped(n) == flags.skip /\ n \in Validators

ReusableUnsigned(n) == out[n] # Absent /\ record[n].hash = out[n]  \* mutant
ReusableUnhashed(n) ==                           \* mutant: the output only exists
  record[n] # NoRecord /\ record[n].signature = Signature(n) /\ out[n] # Absent

(* can_reuse: signature, existence and hash of the output.  A report whose *)
(* status it reads is the output itself, so the hash stands for the status *)
(* the node was recorded with.                                             *)
Reusable(n) ==
  /\ record[n].signature = Signature(n)
  /\ out[n] # Absent
  /\ record[n].hash = out[n]

-----------------------------------------------------------------------------
(* The executor *)

Start(f) ==
  /\ pc = "idle"
  /\ pc' = "loop"
  /\ at' = 1
  /\ hashes' = [n \in Nodes |-> Absent]
  /\ resolved' = None
  /\ seen' = profile
  /\ began' = source
  /\ flags' = f
  /\ status' = "running"
  /\ UNCHANGED <<world, disk>>

AtNode(n) == pc = "loop" /\ at = n

Skip(n) ==
  /\ AtNode(n)
  /\ Skipped(n)
  /\ at' = n + 1
  /\ UNCHANGED <<world, disk, status, pc, run>>

Reuse(n) ==
  /\ AtNode(n)
  /\ ~Skipped(n)
  /\ flags.resume /\ ~Forced(n)
  /\ Reusable(n)
  /\ hashes' = [hashes EXCEPT ![n] = out[n]]
  /\ at' = n + 1
  /\ UNCHANGED <<world, disk, status, pc, resolved, seen, began, flags>>

Blocked(n) == n \in Producers /\ out[n] # Absent /\ ~flags.overwrite /\ ~Forced(n)

(* The command starts; until it is done its output may be incomplete. *)
Run(n) ==
  /\ AtNode(n)
  /\ ~Skipped(n)
  /\ ~(flags.resume /\ ~Forced(n) /\ Reusable(n))
  /\ ~Blocked(n)
  /\ pc' = "command"
  /\ \E o \in {out[n], Bad} : out' = [out EXCEPT ![n] = o]
  /\ UNCHANGED <<world, record, status, at, run>>

(* It passes: outputs are hashed after it returned.  resolve_source also   *)
(* sets manifest.source_hash.                                              *)
Pass(n) ==
  /\ pc = "command" /\ at = n
  /\ \A i \in Reads[n] : Complete(i)
  /\ out' = [out EXCEPT ![n] = Content(n)]
  /\ resolved' = IF n = 1 THEN source ELSE resolved
  /\ pc' = "passed"
  /\ UNCHANGED <<world, record, status, at, hashes, seen, began, flags>>

RecordTwice(n) ==                \* mutant: the cursor is advanced twice
  /\ pc = "passed" /\ at = n
  /\ hashes' = [hashes EXCEPT ![n] = out[n]]
  /\ record' = [record EXCEPT ![n] = [signature |-> Signature(n), hash |-> out[n]]]
  /\ at' = n + 2
  /\ pc' = "loop"
  /\ UNCHANGED <<world, out, status, resolved, seen, began, flags>>

Record(n) ==
  /\ pc = "passed" /\ at = n
  /\ hashes' = [hashes EXCEPT ![n] = out[n]]
  /\ record' = [record EXCEPT ![n] = [signature |-> Signature(n), hash |-> out[n]]]
  /\ at' = n + 1
  /\ pc' = "loop"
  /\ UNCHANGED <<world, out, status, resolved, seen, began, flags>>

(* The process is gone, with everything it held in memory. *)
Stop ==
  /\ pc' = "idle"
  /\ at' = 1
  /\ hashes' = [n \in Nodes |-> Absent]
  /\ resolved' = None
  /\ seen' = Unread
  /\ began' = 0
  /\ flags' = Quiet

(* The command refuses or fails, or its report does. *)
Fail(n) ==
  /\ at = n
  /\ \/ pc = "command"
     \/ AtNode(n) /\ ~Skipped(n) /\ Blocked(n) /\ ~(flags.resume /\ ~Forced(n) /\ Reusable(n))
  /\ status' = "failed"
  /\ Stop
  /\ UNCHANGED <<world, disk>>

(* After the loop: is the source what resolve_source saw?  A run that did  *)
(* not execute resolve_source has no hash to compare with.                 *)
Close ==
  /\ pc = "loop" /\ at = K + 1
  /\ status' = IF resolved = source THEN "pending_human_acceptance" ELSE "source_changed"
  /\ Stop
  /\ UNCHANGED <<world, disk>>

Kill ==
  /\ pc # "idle"
  /\ Stop
  /\ UNCHANGED <<world, disk, status>>

-----------------------------------------------------------------------------
NodeStep(n) ==
  \/ Skip(n)
  \/ Reuse(n)
  \/ Run(n)
  \/ Pass(n)
  \/ Record(n)
  \/ Fail(n)

Next ==
  \/ EditSource
  \/ \E c \in Profiles : EditProfile(c)
  \/ \E n \in Nodes : Remove(n)
  \/ \E f \in Invocations : Start(f)
  \/ \E n \in Nodes : NodeStep(n)
  \/ Close
  \/ Kill

Spec == Init /\ [][Next]_vars

-----------------------------------------------------------------------------
(* Properties *)

ProfileVersions == [Profiles -> Versions]

IsOutput(n, x) ==
  /\ x.node \in {0, n, K + 1}
  /\ x.raw \in Versions
  /\ x.node = n => x.config \in [Uses[n] -> Versions]

TypeOK ==
  /\ source \in Versions
  /\ profile \in ProfileVersions
  /\ DOMAIN out = Nodes
  /\ \A n \in Nodes : IsOutput(n, out[n])
  /\ DOMAIN record = Nodes
  /\ \A n \in Nodes : IsOutput(n, record[n].hash)
  /\ DOMAIN hashes = Nodes
  /\ status \in {"none", "running", "failed", "source_changed", "pending_human_acceptance"}
  /\ pc \in {"idle", "loop", "command", "passed"}
  /\ at \in 1 .. K + 1
  /\ resolved \in Versions \cup {None}
  /\ seen \in ProfileVersions
  /\ began \in Versions
  /\ flags \in Flags

(* Every node was executed, reused or skipped. *)
Through == pc = "loop" /\ at = K + 1
Kept == {n \in Nodes : ~Skipped(n)}
FromStage == IF flags.stage = 0 THEN {} ELSE flags.stage .. K
Rebuilt == IF flags.resume THEN Kept \cap FromStage ELSE Kept

(* --force-stage (and a run without --resume) rebuilds everything from its *)
(* stage on: when the run is through, each of these outputs was computed   *)
(* from the outputs that are there now, under the profiles of this run or  *)
(* later edits of them, and, when the check of the source is going to pass,*)
(* from the source that is there now.                                      *)
ForcedIsFresh ==
  Through =>
    \A n \in Rebuilt :
      \E s \in Versions, v \in ProfileVersions :
        /\ out[n] = ContentAt(n, s, v)
        /\ \A c \in Profiles : v[c] >= seen[c]
        /\ resolved = source => s = source

(* A run that is through has no missing, incomplete or failing output, also*)
(* among the outputs it reused and whatever was killed or removed before.  *)
ThroughIsComplete == Through => \A n \in Kept : Complete(n)

(* "changed profile ... prevents reuse", if it is one that is hashed for   *)
(* the node: no output of a run that is through was made under a version of*)
(* such a file older than the one in the run's manifest.  Of a file that is*)
(* read and not hashed nothing of the kind holds.                          *)
ThroughProfile ==
  Through => \A n \in Kept : \A c \in Uses[n] \cap Hashed[n] : out[n].config[c] >= seen[c]

(* Inputs of n that its signature tells of: the output before it, and what *)
(* that one was computed from in its turn.                                 *)
Told(n) ==
  {i \in Reads[n] :
     /\ n - 1 \in Kept
     /\ \/ i = n - 1
        \/ i = n - 2 /\ i \notin Validators /\ i \in Reads[n - 1] /\ n - 1 \notin Opaque}

(* Along the chain nothing is stale: in a run that is through, each node   *)
(* was computed from the outputs that are there now of the node before it  *)
(* and of the one before that, executed or reused, and whatever earlier    *)
(* runs left in the records.  Where a node in between was skipped or hides *)
(* what it read the signature tells nothing (ReuseIsFresh fails).          *)
ThroughFollows ==
  Through => \A n \in Kept \ Opaque : \A i \in Told(n) : out[n].inputs[i] = out[i]

(* A changed upstream artifact changes downstream signatures: a node is    *)
(* reused only if it would be computed from the same inputs now.           *)
ReuseIsFresh ==
  [][\A n \in Nodes \ Opaque :
       AtNode(n) /\ ~Skipped(n) /\ at' = n + 1 => out[n].inputs = Content(n).inputs]_vars

(* "raw GRAB source changed during workflow execution" is said only of a   *)
(* source that changed.                                                    *)
BlamesOnlyChange ==
  [][status' = "source_changed" /\ status # "source_changed" => source # began]_vars
=============================================================================
