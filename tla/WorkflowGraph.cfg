\* Two chapters, either kind of job, two mishaps, a crash in a one-chapter article.
SPECIFICATION FairGraphSpec
CONSTRAINT OneDraft
CONSTANTS
    MaxChapters = 2
    Interventions <- Either
    MaxRevisions = 1
    MaxMishaps = 2
    MaxCrashes = 1
    CrashChapters = 1
CHECK_DEADLOCK FALSE
INVARIANTS
    GraphIsConsistent
    ExportedIsJudged
PROPERTIES
    AcceptedTextIsKept
    GraphConcludes
