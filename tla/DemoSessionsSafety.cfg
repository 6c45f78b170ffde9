SPECIFICATION Spec
CONSTANTS
  Sessions = {s1, s2}
  Runs = {r1, r2}
  Cleaners = {c1}
  NoSession = NoSession
  MaxAttempts = 1
  SessionTicks = 2
  WindowTicks = 1
  HourTicks = 1
  HybridLimit = 1
  ConcurrentLimit = 1
  GlobalLimit = 1
  BatchSize = 1
  MaxClock = 2
  MaxResets = 1
  MaxAborts = 1
SYMMETRY Symmetric
INVARIANTS TypeOK RowsBelongToSession LockedRowsStay QuotasHold
