SPECIFICATION Spec
CONSTANTS
    MaxSeq = 2
    MaxRecords = 2
    QueueCap = 1
    SegmentLines = 1
    Measurements = 2
    Choices <- OptOutOrShorten
    MaxStarts = 3
    MaxCalls = 2
    MaxFaults = 1
INVARIANTS
    TypeOK
    Accounted
    StagingFree
    OptOutExcludes
PROPERTIES
    LegacyGone
    CurrentSurvives
    KeepsHistory
CHECK_DEADLOCK FALSE
