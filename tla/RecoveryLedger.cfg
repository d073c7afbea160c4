\* Two classes and two phases, a budget of each kind that a few rows use up.
SPECIFICATION Spec
CONSTANTS
  dep = dep
  obj = obj
  A = A
  B = B
  Classes = {dep, obj}
  Dependency = dep
  Phases = {A, B}
  repairs_per_class = 2
  reruns_per_phase = 3
  backend_switches = 1
  major_repairs = 4
  MaxRows = 5
INVARIANTS TypeOK EveryRepairCounts
PROPERTIES RowsStay
\* A ledger with a broken line cannot be loaded any more, and a full one only rests.
CHECK_DEADLOCK FALSE
