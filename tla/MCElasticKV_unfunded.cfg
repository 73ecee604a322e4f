CONSTANTS
  NumReqs = 3
  NumPages = 7
  InitialFree <- FirstStep
  Key <- Keys
  InLen <- Ins
  OutLen <- Outs
  Width = 7
  Horizon = 0
  Comfort = 0
  Torn = Torn
  Step = 2
  Tail1 = 1
  StepsMax = 3
  StepBytes = 4
  ChunkBytes = 2
  TopBytes = 1
  AllChunks = 6
  MinChunks = 3
SPECIFICATION ESpec
INVARIANTS
  GrownServed
