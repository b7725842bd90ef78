\* Two requests may overlap on one issue and two statements may fail.
CONSTANTS
    ama = ama
    mensah = mensah
    boateng = boateng
    root = root
    i1 = i1
    Slots = {s1, s2}
    NoRequest = NoRequest
    Users <- MCUsers
    Issues <- MCIssues
    Reporter <- MCReporter
    TokenRoles <- MCTokenRoles
    InConstituency <- MCInConstituency
    MaxFaults = 2

SPECIFICATION FairSpec

INVARIANTS
    TypeOK
    StampRestsOnVerification
    SettledStampAgrees
    SettledClaimHasNote

PROPERTIES
    OnlyReporterOrAdminDecides
    Accountability
    RequestsReturn
