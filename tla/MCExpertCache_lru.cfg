CONSTANTS
  NumLayers = 2
  Experts = {e1, e2}
  CacheSize = 4
  Chunk = 1
  NumChunks = 4
  MinSlots = 4
  PNone = 0
  Fresh = 1
  SoftBase = 6
  KMax = 8
  MaxQuery = 2
  MaxNear = 0
  MaxPred = 1
  MaxStep = 3
  MaxResets = 1
  EarlyPf = FALSE
  Elastic = FALSE
  PfGuard = FALSE
  NoId = NoId
SYMMETRY Symmetry
SPECIFICATION Spec
INVARIANTS
  MapInverse
  VictimsSuffice
