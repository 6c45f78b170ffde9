\* Two runs of the canvas whose transactions interleave; the connection breaks
\* once, the page is loaded again once and sends one request.
SPECIFICATION FairSpec
CONSTANTS
  Runs = {r1, r2}
  BatchSize = 1
  MaxSequence = 3
  MaxDisconnects = 1
  MaxReloads = 1
  MaxRequests = 1
INVARIANTS
  EventsInv
  SequenceIsDense
  RunSequenceAgrees
  CardFollowsLog
PROPERTIES
  ImplementsFeed
  EveryEventShown
