CONSTANTS
    KeySizes = {1, 127, 128}
    ValueSizes = {0, 2, 128}
    Fill = {1, 255}
    MaxEntries = 2
    Samples = {0, 1, 213}
    Lengths = {1, 2, 3, 4, 5, 6, 7, 9, 10}
    After = {0, 85, 170}
SPECIFICATION Spec
INVARIANTS EntriesReadBack RoundTrip
CHECK_DEADLOCK FALSE
