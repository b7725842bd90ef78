\* Two clicks, of one tab or of two, and two fetches of the list may be in
\* flight together.
CONSTANTS
    ama = ama
    kofi = kofi
    phone = phone
    desk = desk
    i1 = i1
    Users <- MCUsers
    Tabs <- MCTabs
    Issues <- MCIssues
    Owner <- MCOwner
    Surplus <- MCSurplus
    Toggles = {t1, t2}
    Gets = {g1, g2}
    Nothing = Nothing
    MaxClicks = 3
    MaxFaults = 1

SPECIFICATION Spec

INVARIANTS
    TypeOK
    CounterIsVotes
    QuietTabAgrees

PROPERTIES
    Ledger
