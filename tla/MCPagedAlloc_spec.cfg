CONSTANTS
  NumReqs = 4
  NumPages = 20
  InitialFree <- AllPages
  Key <- ShortKeys
  InLen <- Ins
  OutLen <- ShortOuts
  Width = 8
  Horizon = 2
  Comfort = 0
  Torn = Torn
SPECIFICATION Spec
INVARIANTS
  PaTypeOK
  RowsRight
  TreeRight
  PoolAccounted
PROPERTIES
  AdmittedEnds
