SPECIFICATION FairSpec
CONSTANTS
  Sessions = {s1, s2}
  Runs = {r1}
  Cleaners = {c1}
  NoSession = NoSession
  MaxAttempts = 2
  SessionTicks = 1
  WindowTicks = 1
  HourTicks = 1
  HybridLimit = 1
  ConcurrentLimit = 1
  GlobalLimit = 1
  BatchSize = 1
  MaxClock = 2
  MaxResets = 1
  MaxAborts = 1
PROPERTY ExpiredSessionsDeleted
