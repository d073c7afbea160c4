CONSTANTS
  U = 2
  N = 2
  Profiles = {a, b}
  Single = {1}
  None = None
  Torn = Torn
  MaxStray = 2
SPECIFICATION Spec
INVARIANT LockBindsSolver
