SPECIFICATION Spec
CONSTANTS
  Sessions = {s1}
  Runs = {r1, r2}
  Cleaners = {c1}
  NoSession = NoSession
  MaxAttempts = 2
  SessionTicks = 1
  WindowTicks = 1
  HourTicks = 1
  HybridLimit = 2
  ConcurrentLimit = 1
  GlobalLimit = 2
  BatchSize = 1
  MaxClock = 1
  MaxResets = 0
  MaxAborts = 0
PROPERTY DeletedOnlyFenced
