SPECIFICATION Spec
CONSTANTS
  Archs = {"glm5_next"}
  Reqs = {r1, r2}
  PromptLen = 1
  MaxLen = 6
  K = 2
  MaxSeq = 6
  Slots = {s1, s2}
  Dummy = s0
  None = None
  ConvW = 2
  Zeroed = None
  Ratio = 2
  Empty = None
  Page = 4
  Win = 3
  r1 = r1
  r2 = r2
  s1 = s1
  s2 = s2
  s0 = s0
INVARIANT EmitsGreedy
