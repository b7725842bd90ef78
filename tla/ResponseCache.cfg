\* Two reads and two writes overlap, and a deletion may fail or a request end.
CONSTANTS
    all = all
    trend = trend
    Keys <- MCKeys
    Family <- MCFamily
    TTL <- MCTTL
    Kinds = {"status", "enrich"}
    Readers = {r1, r2}
    Writers = {w1, w2}
    Nothing = Nothing
    Grace = 1
    MaxTime = 3
    MaxFaults = 1

SPECIFICATION Spec

INVARIANTS
    StalenessBounded
    OutdatedIsDeleted
