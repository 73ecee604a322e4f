CONSTANTS
  NumLayers = 4
  Experts = {e1, e2}
  CacheSize = 4
  Chunk = 1
  NumChunks = 4
  MinSlots = 3
  PNone = 0
  Fresh = 1
  SoftBase = 1
  KMax = 3
  MaxQuery = 1
  MaxNear = 0
  MaxPred = 1
  MaxStep = 1
  MaxResets = 0
  EarlyPf = TRUE
  Elastic = TRUE
  PfGuard = TRUE
  NoId = NoId
  Torn = Torn
SYMMETRY Symmetry
SPECIFICATION PipeSpec
INVARIANTS
  RoutesKept
  GemmReadsRight
  PlanIntact
  IdleDrained
