\* Every view on a small instance; a1, a2 and b1, b2 are interchangeable.
CONSTANTS
    a1 = a1
    a2 = a2
    b1 = b1
    b2 = b2

    AskSlots = {a1, a2}
    PostSlots = {"post"}
    NoCall = none
    PhotoLimit = 1

    Regions = {"r1", "r2"}
    Districts = {"d1", "d2", "d3"}
    Constituencies = {"c1", "c2"}
    RegionOf <- MCRegionOf
    DistrictOf <- MCDistrictOf
    LoadSlots = {a1, a2}
    Nothing = none

    Members = {"ama"}
    Nobody = none
    PatchSlots = {"patch"}

    Tabs = {b1, b2}
    People = {"kofi", "esi"}
    Guest = none
    RoleOf <- MCRoleOf
    CallSlots = {a1, a2}
    Unused = none

    Statuses = {"Pending Verification", "Reopened"}
    OfficeStatuses = {"Pending Verification"}
    Verdicts = {"Reopened"}
    Handlings = {"one", "two"}
    WriteSlots = {"write"}
    FetchSlots = {a1, a2}
    Free = none

    Topics = {a1, a2}
    NoTopic = none
    ReportLimit = 2
    PublishSlots = {b1, b2}
    NoPost = none

    Zones = {"za", "zb"}
    Elsewhere = "zo"
    Sectors = {"s1", "s2"}
    LastDay = 2
    WindowDays = 1
    Cases = {a1, a2}
    Patterns <- MCPatterns
    Null = none

    Figures = {"insights", "recurring"}
    Homes = {"c1", "c2"}
    Nowhere = "nowhere"
    Answers = {"l1", "l2", "l3"}
    NoLoad = none

    Hotspots = {a1, a2}
    Pins = {b1, b2}
    Off = none

    Facets = {"status", "zone"}
    Charts = {"status"}
    Marks = {"m1", "m2"}
    RunSlots = {"n1", "n2"}
    NoRun = none

    WeekTabs = {b1, b2}
    Chores = {"k"}
    Seats = {"c1", "c2"}
    HomeSeat = "c1"
    NoSeat = "nobody"
    NoList = none

SPECIFICATION BrowserSpec

VIEW Seen

SYMMETRY Interchangeable

INVARIANTS
    BrowserTypeOK
    OverrideStands
    SmoothReportIsFiled
    ChoicesFit
    UntouchedFlagsStand
    TabsActAsShown
    LogoutSticks
    CalmDeskIsTrue
    GateHoldsDrafts
    InsightsAreTraced
    OwnFiguresStand
    SelectionIsMeant
    HandlersAreCurrent
    WeeklyListIsKept
