CONSTANTS
    Readers = {r1, r2}
    MaxGets = 2
    LevelSize <- TwoTwo
    Buffer = 6
    MaxFlushes = 4
    MaxCrashes = 2
    MaxFailures = 1
SPECIFICATION Spec
INVARIANTS IteratorsValid VersionsKept ManifestIsLatest FlushedSurvive
CHECK_DEADLOCK FALSE
