----------------------------- MODULE InsightDesk -----------------------------
(***************************************************************************)
(* The intelligence desk of an MP, app/mp/analytics/page.tsx: cards that   *)
(* summarise the issues of the constituency, and the list of issues that   *)
(* is shown as the evidence of the card or chart that was clicked.         *)
(*                                                                         *)
(* Everything the page shows is computed from the issues in the data       *)
(* store, from the recurring patterns that the ML service sent, if any,    *)
(* and from what was clicked: the focus, kept in the address, and the two  *)
(* drill filters, which stay when the next click does not name them.       *)
(*                                                                         *)
(* Windows count back from the day of the latest issue.  Severity is high  *)
(* or not, status resolved or not.  Rows that the code's comparisons leave *)
(* equal come in some fixed order.  Wording, colours, the forecast's       *)
(* numbers and the count that the ML service sends with a pattern are left *)
(* out; a change of the address takes effect at once.                      *)
(***************************************************************************)
EXTENDS Integers, FiniteSets

CONSTANTS
    Zones,       \* the zones of the MP's constituency
    Elsewhere,   \* a zone of another constituency
    Sectors,     \* the sectors
    LastDay,     \* issues are from the days 1 to LastDay
    WindowDays,  \* WINDOW_DAYS, 14
    Cases,       \* the issues
    Patterns,    \* the patterns that the ML service reports, if it answers with any
    Null         \* no issue, no filter, no focus

ASSUME InsightAssumption ==
    /\ Patterns \subseteq [zone : Zones, sector : Sectors]
    /\ IsFiniteSet(Zones) /\ IsFiniteSet(Sectors) /\ IsFiniteSet(Cases)
    /\ Elsewhere \notin Zones /\ LastDay \in Nat \ {0} /\ WindowDays \in Nat \ {0}

VARIABLES
    issues,       \* issues[c]: what the data store knows of issue c
    recurring,    \* the patterns that the ML service sent
    focusParam,   \* the focus in the address
    drillSector, drillZone

\* What the property remembers; no handler reads this.
VARIABLE
    clicked       \* the card of Counting that was clicked last, and nothing has changed since

insightVars == <<issues, recurring, focusParam, drillSector, drillZone, clicked>>

-----------------------------------------------------------------------------
\* Of an issue elsewhere only the zone matters, so the model keeps one.
Details == [zone : Zones, sector : Sectors, day : 1 .. LastDay, resolved : BOOLEAN, high : BOOLEAN]
Foreign == [zone |-> Elsewhere, sector |-> Null, day |-> 1, resolved |-> FALSE, high |-> FALSE]

Pairs == [zone : Zones, sector : Sectors]

Foci == {"sector-rise", "community-pressure", "volume-forecast", "recurring-patterns"}

ASSUME NullAssumption == Null \notin Zones \cup Sectors \cup Pairs \cup Foci

\* The cards that count issues.  The fourth is about the days to come.
Counting == Foci \ {"volume-forecast"}

\* The element of S that comes first when Ahead sorts it.
FirstBy(S, Ahead(_, _)) == CHOOSE s \in S : \A t \in S : ~Ahead(t, s)

\* The issues of the constituency; those of a zone, of a sector.
InScope == {c \in Cases : issues[c] # Null /\ issues[c].zone \in Zones}
InZone(z) == {c \in InScope : issues[c].zone = z}
InSector(s) == {c \in InScope : issues[c].sector = s}
Unresolved(S) == {c \in S : ~issues[c].resolved}
HighOf(S) == {c \in S : issues[c].high}

\* latestAnchor, and the two windows of the sector rows
Anchor == CHOOSE d \in 0 .. LastDay :
            \/ InScope = {} /\ d = 0
            \/ \E c \in InScope : issues[c].day = d /\ \A e \in InScope : issues[e].day <= d
Recent(S) == LET start == Anchor - WindowDays IN {c \in S : issues[c].day > start}
Prior(S) == LET start == Anchor - WindowDays
            IN  {c \in S : issues[c].day <= start /\ issues[c].day > start - WindowDays}

\* buildSectorWindowRows and topSector
CurrentCount(s) == Cardinality(Recent(InSector(s)))
PriorCount(s) == Cardinality(Prior(InSector(s)))
PctChange(s) == IF PriorCount(s) = 0 THEN IF CurrentCount(s) > 0 THEN 100 ELSE 0
                ELSE ((CurrentCount(s) - PriorCount(s)) * 100) \div PriorCount(s)
SectorRows == {s \in Sectors : CurrentCount(s) > 0 \/ PriorCount(s) > 0}
SectorAhead(s, t) == \/ CurrentCount(s) > CurrentCount(t)
                     \/ CurrentCount(s) = CurrentCount(t) /\ PctChange(s) > PctChange(t)
TopSector ==
    LET rising == {s \in SectorRows : CurrentCount(s) > PriorCount(s)}
    IN  IF rising # {} THEN FirstBy(rising, SectorAhead)
        ELSE IF SectorRows # {} THEN FirstBy(SectorRows, SectorAhead) ELSE Null

\* zonePressure, in tenths, and topZone
Pressure(z) == 10 * Cardinality(Unresolved(InZone(z))) + 16 * Cardinality(HighOf(InZone(z)))
ZoneAhead(y, z) ==
    \/ Pressure(y) > Pressure(z)
    \/ /\ Pressure(y) = Pressure(z)
       /\ Cardinality(Unresolved(InZone(y))) > Cardinality(Unresolved(InZone(z)))
TopZone ==
    LET rows == {z \in Zones : InZone(z) # {}}
    IN  IF rows # {} THEN FirstBy(rows, ZoneAhead) ELSE Null

\* buildRecurring, recurringRows and topRecurring
CasesOf(p) == InZone(p.zone) \cap InSector(p.sector)
OwnRows == {p \in Pairs : Cardinality(CasesOf(p)) >= 2}
PairAhead(p, q) ==
    \/ Cardinality(CasesOf(p)) > Cardinality(CasesOf(q))
    \/ /\ Cardinality(CasesOf(p)) = Cardinality(CasesOf(q))
       /\ HighOf(CasesOf(p)) # {} /\ HighOf(CasesOf(q)) = {}
RecurringRows == IF recurring # {} THEN recurring ELSE OwnRows
TopRecurring ==
    CASE recurring # {} -> CHOOSE p \in recurring : TRUE
      [] recurring = {} /\ OwnRows # {} -> FirstBy(OwnRows, PairAhead)
      [] OTHER -> Null

\* focus, activeSector, activeZone and activeRecurring
Focus == CASE focusParam # Null -> focusParam
           [] focusParam = Null /\ SectorRows # {} -> "sector-rise"
           [] OTHER -> "volume-forecast"
Or(choice, otherwise) == IF choice # Null THEN choice ELSE otherwise
ActiveSector == Or(drillSector, TopSector)
ActiveZone == Or(drillZone, TopZone)
ActiveRecurring ==
    LET drilled == {p \in RecurringRows : /\ p.zone = Or(drillZone, TopRecurring.zone)
                                          /\ p.sector = Or(drillSector, TopRecurring.sector)}
    IN  IF TopRecurring = Null THEN Null
        ELSE IF drilled # {} THEN CHOOSE p \in drilled : TRUE ELSE TopRecurring

\* evidenceIssues
AtActiveZone(S) == IF ActiveZone = Null THEN S ELSE S \cap InZone(ActiveZone)
Evidence ==
    CASE Focus = "sector-rise" ->
           AtActiveZone(IF ActiveSector = Null THEN InScope ELSE InSector(ActiveSector))
      [] Focus = "community-pressure" ->
           LET here == AtActiveZone(InScope) IN Unresolved(here) \cup HighOf(here)
      [] Focus = "volume-forecast" -> AtActiveZone(Recent(InScope))
      [] Focus = "recurring-patterns" ->
           IF ActiveRecurring = Null THEN InScope ELSE CasesOf(ActiveRecurring)

\* What a card leads to: its zone and its sector.  A card that names none
\* leaves that filter as it is.
CardZone(f, kept) == CASE f = "community-pressure" -> TopZone
                       [] f = "recurring-patterns" -> TopRecurring.zone
                       [] OTHER -> kept
CardSector_Kept(f, kept) == IF f = "sector-rise" THEN TopSector ELSE kept
CardSector(f, kept) == CASE f = "sector-rise" -> TopSector
                         [] f = "recurring-patterns" -> TopRecurring.sector
                         [] OTHER -> kept

\* Is there a card for f?  There always is one for the forecast.
Shown(f) == CASE f = "sector-rise" -> SectorRows # {}
              [] f = "community-pressure" -> InScope # {}
              [] f = "recurring-patterns" -> RecurringRows # {}
              [] OTHER -> TRUE

-----------------------------------------------------------------------------
InsightInit ==
    /\ issues \in [Cases -> {Null}] /\ recurring = {}
    /\ focusParam \in Foci \cup {Null}
    /\ drillSector = Null /\ drillZone = Null /\ clicked = Null

\* A refresh of the data store: one issue is filed, is gone, or has another
\* sector, severity or status.
IssueChanges ==
    \E c \in Cases :
        /\ \/ /\ issues[c] = Null
              /\ \E d \in Details \cup {Foreign} : issues' = [issues EXCEPT ![c] = d]
           \/ issues[c] # Null /\ issues' = [issues EXCEPT ![c] = Null]
           \/ /\ c \in InScope
              /\ \/ \E s \in Sectors : issues' = [issues EXCEPT ![c].sector = s]
                 \/ issues' = [issues EXCEPT ![c].high = ~issues[c].high]
                 \/ issues' = [issues EXCEPT ![c].resolved = ~issues[c].resolved]
        /\ clicked' = Null
        /\ UNCHANGED <<recurring, focusParam, drillSector, drillZone>>

\* The ML service answers: with no pattern, or with its patterns.
PatternsArrive ==
    /\ recurring' \in {{}, Patterns}
    /\ clicked' = Null
    /\ UNCHANGED <<issues, focusParam, drillSector, drillZone>>

\* setFocus
SetFocus(f, s, z) == focusParam' = f /\ drillSector' = s /\ drillZone' = z

ClickCard(f) ==
    /\ Shown(f)
    /\ SetFocus(f, CardSector(f, drillSector), CardZone(f, drillZone))
    /\ clicked' = IF f \in Counting THEN f ELSE Null
    /\ UNCHANGED <<issues, recurring>>

\* A click on a chart: no card is the last thing that was clicked any more.
Drilled == clicked' = Null /\ UNCHANGED <<issues, recurring>>

\* A zone that a bar or a cell of a chart stands for.
ChartZones == {z \in Zones : InZone(z) # {}}

\* The two charts above the cards.
ClickOverview ==
    /\ \/ SetFocus("volume-forecast", drillSector, drillZone)
       \/ \E z \in ChartZones : SetFocus("community-pressure", drillSector, z)
    /\ Drilled

\* The lab shows charts of its own for each focus.  Those of the rising sectors:
\* the sectors, and the zones of the active sector.
ClickSectorLab ==
    /\ Focus = "sector-rise"
    /\ \/ \E s \in SectorRows : SetFocus("sector-rise", s, drillZone)
       \/ \E z \in ChartZones : SetFocus("sector-rise", ActiveSector, z)
    /\ Drilled

\* Those of the pressure: only the ranking answers a click.
ClickPressureLab ==
    /\ Focus = "community-pressure"
    /\ \E z \in ChartZones : SetFocus("community-pressure", drillSector, z)
    /\ Drilled

\* Those of the forecast: only the demand by zone answers a click.
ClickForecastLab ==
    /\ Focus = "volume-forecast"
    /\ \E z \in ChartZones : SetFocus("volume-forecast", drillSector, z)
    /\ Drilled

\* Those of the patterns: the grid of zones and sectors, and the clusters.
ClickRecurringLab ==
    /\ Focus = "recurring-patterns"
    /\ \/ \E z \in ChartZones, s \in Sectors : SetFocus("recurring-patterns", s, z)
       \/ \E p \in RecurringRows : SetFocus("recurring-patterns", p.sector, p.zone)
    /\ Drilled

\* clearDrills
ClearDrills ==
    /\ drillSector' = Null /\ drillZone' = Null /\ clicked' = Null
    /\ UNCHANGED <<issues, recurring, focusParam>>

InsightNext ==
    \/ IssueChanges \/ PatternsArrive \/ ClearDrills \/ \E f \in Foci : ClickCard(f)
    \/ ClickOverview \/ ClickSectorLab \/ ClickPressureLab \/ ClickForecastLab
    \/ ClickRecurringLab

InsightSpec == InsightInit /\ [][InsightNext]_insightVars

-----------------------------------------------------------------------------
\* The state of the page is well formed.
InsightTypeOK ==
    /\ issues \in [Cases -> Details \cup {Foreign, Null}] /\ recurring \subseteq Patterns
    /\ focusParam \in Foci \cup {Null} /\ clicked \in Counting \cup {Null}
    /\ drillSector \in Sectors \cup {Null} /\ drillZone \in Zones \cup {Null}

\* What the list shows after a click on a card.  For the zone under most pressure
\* and for the pattern that recurs most it is exactly what the card is about, and
\* filters set before make no difference: the unresolved and the high cases of
\* the zone, or the cases of the pattern.  For the rising sector it is the cases of
\* that sector, of any age, in one zone: the one that an earlier click has left
\* in the filter, or else the one under most pressure.
InsightsAreTraced ==
    /\ clicked = "community-pressure" =>
         Evidence = Unresolved(InZone(TopZone)) \cup HighOf(InZone(TopZone))
    /\ clicked = "recurring-patterns" => Evidence = CasesOf(TopRecurring)
    /\ clicked = "sector-rise" =>
         Evidence = InSector(TopSector) \cap InZone(Or(drillZone, TopZone))

-----------------------------------------------------------------------------
\* "Click insights and charts to trace every headline back to the underlying
\* issue records", the page says.  The card of the rising sector counts the recent
\* cases of all zones; a click on it should list each of them.
EveryHeadlineIsTraced ==
    clicked = "sector-rise" => Recent(InSector(TopSector)) \subseteq Evidence
=============================================================================
