\* Two issues, one workspace, up to three failures, crashes or restarts.
CONSTANTS
    i1 = i1
    i2 = i2
    Issues <- MCIssues
    Clerks = {c1}
    None = None
    MaxFaults = 3

SPECIFICATION FairSpec

INVARIANTS
    AckedIsEnriched
    AckedIsFinal

PROPERTIES
    AssistsAsPromised
    PublishedIsEnriched
