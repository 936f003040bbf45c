CONSTANTS
    Pool <- Five
    kMaxLevels = 2
    MaxDraws = 3
SPECIFICATION Spec
INVARIANT HeadInitialized
CHECK_DEADLOCK FALSE
