CONSTANTS
    KeySizes = {1, 127, 128}
    ValueSizes = {0, 2, 128}
    Fill = {1, 255}
    MaxEntries = 0
    Samples = {0, 1, 213}
    Lengths = {8}
    After = {0, 85, 170}
SPECIFICATION Spec
INVARIANTS RoundTrip
CHECK_DEADLOCK FALSE
