CONSTANTS
    Pool <- Five
    kMaxLevels = 3
    MaxDraws = 2
SPECIFICATION Spec
INVARIANTS LevelsLinked GetFindsNewest
CHECK_DEADLOCK FALSE
