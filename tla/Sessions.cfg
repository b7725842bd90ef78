\* An access token and a session live two ticks, a handler one.
CONSTANTS
    Users = {esi, kofi}
    Privileged = {"mp"}
    Keys = {k1}
    NoKey = NoKey
    Handlers = {h1}
    NoRequest = NoRequest
    AccessTTL = 2
    RefreshTTL = 2
    Grace = 1
    MaxTime = 6

SPECIFICATION Spec

INVARIANTS
    TypeOK
    PrivilegeExpires
    SessionEnds
