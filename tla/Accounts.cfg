\* Two transactions at a time on one user, up to two failed statements.
CONSTANTS
    esi = esi
    Users <- MCUsers
    Whitelist = {}
    Slots = {s1, s2}
    NoTx = NoTx
    MaxFaults = 2

SPECIFICATION FairSpec

INVARIANTS
    MPHasActiveProfile
    ProfileFollowsRole
    AuditIsTrue

PROPERTIES
    ActsInOneStep
    OnboardingIsGated
    TransactionsEnd
