SPECIFICATION Spec
CONSTANTS
  Handlers = {h1, h2}
  Keys = {k1, k2}
  Urls = {u1,u2}
  Wordings = {w1,w2}
  Texts = {t1}
  Versions = {v1,v2}
  None = None
  LeaseTicks = 1
  FreshTicks = 1
  ExpiryTicks = 1
  MaxRedirects = 1
  MaxClock = 1
  MaxChanges = 1
SYMMETRY Symmetric
INVARIANTS IngestionInv OneSourcePerKey HitsAreTrue
CHECK_DEADLOCK FALSE
