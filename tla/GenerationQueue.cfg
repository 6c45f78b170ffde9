\* One run handed between two worker processes; two stages, so that a run can
\* be taken over with one checkpoint completed and one in progress. No symmetry,
\* because a liveness property is checked.
SPECIFICATION FairSpec
CONSTANTS
  Runs = {r1}
  Workers = {w1, w2}
  MaxAttempts = 2
  NumStages = 2
  LeaseTicks = 2
  MaxFaults = 2
  NoRun = NoRun
INVARIANTS
  QueueInv
  SingleWriter
  PatchFromCheckpoints
  CancelPreventsPatch
  OneOutcomePerAttempt
  OutcomeClosesLog
PROPERTIES
  TakeoverAfterExpiry
  CheckpointsAreFinal
  ImplementsLifecycle
  EveryRunSettles
