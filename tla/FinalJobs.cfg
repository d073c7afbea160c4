CONSTANTS
  Pids = {p1, p2, p3}
  Jobs = {j1, j2}
  Operators = {o1, o2}
  MaxLimit = 2
  None = None
  PidReuse = TRUE
  OperatorMayCrash = TRUE
SPECIFICATION Spec
INVARIANTS TypeOK WorkersReserved OneWorkerPerJob CapRespected
PROPERTY ImplementsSlotPool
SYMMETRY QueueSymmetry
