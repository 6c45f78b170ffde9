SPECIFICATION Spec
CONSTANTS
  Runs = {r1}
  Workers = {w1, w2}
  MaxAttempts = 2
  NumStages = 1
  LeaseTicks = 1
  MaxFaults = 1
  NoRun = NoRun
SYMMETRY Interchangeable
INVARIANTS
  DurablePatchCompletes
