CONSTANTS
  NumReqs = 4
  NumPages = 11
  InitialFree <- AllPages
  Key <- Keys
  InLen <- Ins
  OutLen <- Outs
  Width = 8
  Horizon = 2
  Comfort = 5
  Torn = Torn
SPECIFICATION Spec
INVARIANTS
  RowsRight
