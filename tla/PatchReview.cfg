CONSTANTS
  NoNode = NoNode
  g = g
  c = c
  s = s
  o = o
  k = k
  x = x
  p = p
  a = a
  gs = gs
  so = so
  ko = ko
  kp = kp
  xp = xp
  pa = pa
  Tokens <- TheTokens
  EdgeTokens = 2
  EnvelopeTokens = 1
  HardLimit = 60
  ResponseBudget = 8
  FixedReserve = 2
  Proposals = 1
  MaxEvidence = 1
  InitialGraph <- TheGraph
  InitialLog <- TheLog
  DirectRequests <- TheDirectRequests
  RunRequests <- TheRunRequests
  LeftOut = {"claim", "opportunity", "assumption"}
  MaxOperations = 2
  MaxRuns = 2
  MaxRequests = 3
SPECIFICATION Spec
INVARIANTS TypeOK GraphConsistent OperationsOnce DecisionsSound OneRunPerKey
  ContextSound
PROPERTIES VersionsAdvanceOnce DependentsTurnStale DecisionsFinal
  SuccessorsParallel
CHECK_DEADLOCK FALSE
