CONSTANTS
  Procs = {p1, p2}
  N = 2
  Payloads = {x1, x2, x3}
  None = None
  StopOnReject = TRUE
  Exclusive = FALSE
  MayDamage = TRUE
  Clip = clip
SPECIFICATION WorkFairSpec
INVARIANTS WorkTypeOK PassIsPublished ChainIsTemporal CompleteMeansWhole
PROPERTIES ImplementsExclusiveRun ImplementsFrameLog ArtifactStays SlotComesBack
CHECK_DEADLOCK FALSE
