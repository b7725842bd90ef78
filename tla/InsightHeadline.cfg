\* Two issues of the last two days, two zones, no patterns from the ML service.
CONSTANTS
    Zones = {"za", "zb"}
    Elsewhere = "zo"
    Sectors = {"s1", "s2"}
    LastDay = 2
    WindowDays = 1
    Cases = {c1, c2}
    Patterns = {}
    Null = none

SPECIFICATION InsightSpec

INVARIANT EveryHeadlineIsTraced
