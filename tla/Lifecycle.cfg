SPECIFICATION FairSpec
CONSTANTS
    NPhases = 3
    NFields = 2
    MaxSamples = 3
INVARIANTS
    Untorn
    NotMissed
    ReadyShowsAll
    NoUseAfterUnmap
PROPERTIES
    ShowsReports
    Unmaps
