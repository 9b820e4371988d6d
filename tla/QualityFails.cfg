\* No trouble and no crash: a chapter is only refused by its reviews.
SPECIFICATION GraphSpec
CONSTANTS
    MaxChapters = 1
    Interventions <- Unattended
    MaxRevisions = 0
    MaxMishaps = 0
    MaxCrashes = 0
    CrashChapters = 0
INVARIANT QualityDoesNotFail
CHECK_DEADLOCK FALSE
