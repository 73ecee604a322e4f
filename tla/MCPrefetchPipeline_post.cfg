CONSTANTS
  NumLayers = 2
  Experts = {e1, e2}
  CacheSize = 4
  Chunk = 1
  NumChunks = 4
  MinSlots = 3
  PNone = 0
  Fresh = 1
  SoftBase = 1
  KMax = 3
  MaxQuery = 2
  MaxNear = 0
  MaxPred = 1
  MaxStep = 3
  MaxResets = 0
  EarlyPf = FALSE
  Elastic = TRUE
  PfGuard = TRUE
  NoId = NoId
  Torn = Torn
SYMMETRY Symmetry
SPECIFICATION PipeSpec
INVARIANTS
  PipeTypeOK
  GemmReadsRight
  PlanIntact
  OneWriter
  IdleDrained
  MappedBacked
