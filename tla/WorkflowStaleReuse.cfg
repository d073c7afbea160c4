CONSTANTS
  K = 4
  Reads <- AuditedReads
  RawReaders = {1, 2}
  listed = listed
  warm = warm
  Profiles = {listed, warm}
  Uses <- AuditedUses
  Hashed <- ListedHashed
  Opaque = {3}
  Producers = {2, 4}
  Validators = {}
  Invocations <- CommandLines
  Edits = 1
  None = None
SPECIFICATION Spec
PROPERTY ReuseIsFresh
