CONSTANTS
  K = 4
  Reads <- ValidatedReads
  RawReaders = {1, 2, 3}
  listed = listed
  warm = warm
  Profiles = {listed}
  Uses <- ValidatedUses
  Hashed <- ListedHashed
  Opaque = {}
  Producers = {2, 4}
  Validators = {3}
  Invocations <- CommandLines
  Edits = 1
  None = None
SPECIFICATION Spec
INVARIANTS TypeOK ForcedIsFresh ThroughIsComplete ThroughProfile ThroughFollows
