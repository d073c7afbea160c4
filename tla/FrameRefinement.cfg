CONSTANTS
  Samples = {a, b, c}
  N = 2
  MaxRounds = 2
  Objectives = {1, 2}
  Calls <- ShippedCalls
SPECIFICATION Spec
INVARIANTS TypeOK RoundsBounded NothingHidden SequentialStaysSequential
PROPERTIES BestAttemptWins ImplementsFrameCall CallAdvances
CHECK_DEADLOCK FALSE
