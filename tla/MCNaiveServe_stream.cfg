SPECIFICATION Spec
CONSTANTS
    TopK = 2
    Window = 2
    BlockN = 2
    BlockT = 2
    NSplit = 2
    Sink = Sink
    NoSlot = NoSlot
    Blank = Blank
    Width = 4
    Block = 2
    Passes = 2
    Base = 2
    Stale = 5
    StepLen = 2
    TailLen = 2
    StepsMax = 2
    SwaTokens = 4
    Texts = {a, b}
    MaxPrompt = 3
    MaxChunk = 2
    Scorings <- MCScorings
SYMMETRY MCSymmetry
INVARIANTS
    AttendsVisible
    SelectionExact
    SwaOwned
