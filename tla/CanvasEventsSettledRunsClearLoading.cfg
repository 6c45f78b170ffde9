\* One run that settles while the answer to the request of the page to cancel
\* it is on its way.
SPECIFICATION Spec
CONSTANTS
  Runs = {r1}
  BatchSize = 2
  MaxSequence = 3
  MaxDisconnects = 0
  MaxReloads = 0
  MaxRequests = 1
INVARIANTS
  SettledRunsClearLoading
