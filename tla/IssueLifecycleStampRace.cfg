\* Two requests overlap on one issue and nothing fails.
CONSTANTS
    ama = ama
    mensah = mensah
    boateng = boateng
    root = root
    i1 = i1
    Slots = {s1, s2}
    NoRequest = NoRequest
    Users <- MCUsers
    Issues <- MCIssues
    Reporter <- MCReporter
    TokenRoles <- MCTokenRoles
    InConstituency <- MCInConstituency
    MaxFaults = 0

SPECIFICATION Spec

INVARIANT StampAgreesAtRest
