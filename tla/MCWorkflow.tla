------------------------------ MODULE MCWorkflow ------------------------------
(* TLC instances of Workflow: segments of the chain with what their        *)
(* commands read.                                                          *)
EXTENDS Workflow

CONSTANTS listed, warm

(* resolve_source, canonicalize_grab, validate_canonical (skippable, reads *)
(* the raw source again), generate_warm_start.                             *)
ValidatedReads == <<{}, {}, {2}, {2}>>

(* resolve_source, canonicalize_grab, audit_object_mesh (reads the object  *)
(* mesh out of the canonical artifact), generate_warm_start.               *)
AuditedReads == <<{}, {}, {2}, {2}>>

(* The profiles of PROFILE_PATHS are one file here, listed, hashed for     *)
(* every node.  The warm-start solver profile is another: only             *)
(* generate_warm_start reads it and nobody hashes it.                      *)
ValidatedUses == <<{}, {listed}, {listed}, {listed}>>
AuditedUses   == <<{}, {listed}, {}, {listed, warm}>>
ListedHashed  == [n \in Nodes |-> {listed}]

(* First run, resume, resume that may replace outputs, with a stage forced,*)
(* and the last two without validation.                                    *)
Line(r, f, o, v) == [resume |-> r, stage |-> f, overwrite |-> o, skip |-> v]
CommandLines ==
  { Line(FALSE, 0, FALSE, FALSE), Line(TRUE, 0, FALSE, FALSE), Line(TRUE, 0, TRUE, FALSE),
    Line(TRUE, 0, TRUE, TRUE), Line(TRUE, 1, FALSE, TRUE), Line(TRUE, 2, FALSE, FALSE) }
=============================================================================
