SPECIFICATION Spec
CONSTANTS
    ShareDiffs <- MCShareDiffs
    Difficulty <- MCDifficulty
    Callers = {c1, c2}
    Rewards = {"r1"}
    TargetShares = 4
    MinWindow = 1
    MaxWindow = 2
    LuckFactor = 6
    History = 1
    Scale = 12
    Infinite = 9999
    Huge = 1000
    MaxFaults = 1
INVARIANTS
    TypeOK
    WindowWithinBounds
    HeightIsProcessed
PROPERTY SelectionFillsWindow
SYMMETRY Symmetry
CHECK_DEADLOCK FALSE
