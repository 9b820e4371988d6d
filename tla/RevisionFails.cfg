\* No trouble and no crash: the user only asks for a third outline.
SPECIFICATION GraphSpec
CONSTANTS
    MaxChapters = 1
    Interventions <- Attended
    MaxRevisions = 3
    MaxMishaps = 0
    MaxCrashes = 0
    CrashChapters = 0
INVARIANT RevisionsAreServed
CHECK_DEADLOCK FALSE
