----------------------------- MODULE HotspotMap -----------------------------
(***************************************************************************)
(* The heat maps of citizens and MPs: app/heatmap/page.tsx,                *)
(* app/mp/heatmap/page.tsx and components/IssueHeatmapMap.tsx.  A zone is  *)
(* selected on the map or in the list beside it; the pins of its issues    *)
(* appear and open the drawer; a click beside them clears the selection.   *)
(*                                                                         *)
(* Two libraries share the map.  The layers of deck.gl answer a click on a *)
(* zone or a pin, and the map itself reports the same gesture as a click   *)
(* of its own, before or after, or not at all.  A flag tells the map's     *)
(* handler that a layer has dealt with the click.  Both handlers of a      *)
(* gesture see the selection that was rendered last, and React applies     *)
(* what they set in their order, but the flag is a ref and changes at once.*)
(*                                                                         *)
(* Counts, pressure, colours and the camera are payload; an issue is the   *)
(* zone that it lies in.                                                   *)
(***************************************************************************)
CONSTANTS
    Hotspots,    \* the zones
    Pins,        \* the issues
    Off          \* no zone, no issue, out of scope

ASSUME HotspotAssumption == Off \notin Hotspots /\ Off \notin Pins

VARIABLES
    pinAt,           \* pinAt[p]: the zone of issue p, if it is in scope
    selectedZone,
    selectedIssueId,
    suppressed,      \* suppressNextMapClickRef

    \* What the property remembers; no handler reads these.
    meant,           \* the selections that the user's gestures leave open
    owed             \* the last gesture was on a zone or pin, and the map did not
                     \* report it after the layer

hotspotVars == <<pinAt, selectedZone, selectedIssueId, suppressed, meant, owed>>

-----------------------------------------------------------------------------
\* The zones of the issues in a given scope.
ZonesOf(at) == {at[p] : p \in Pins} \ {Off}

\* The pins on the map, which are the list of the selected zone as well: there
\* are none before a zone is selected.
ShownPins == {p \in Pins : selectedZone # Off /\ pinAt[p] = selectedZone}

\* In which order the layer and the map hear of a click.
Orders == {"layer", "layer, map", "map, layer"}

\* handleMapClick, when the flag is as given: does it clear the selection?
MapClears(flag) == ~flag /\ selectedZone # Off

\* A layer sets the flag, the map takes it back.
FlagAfter_Stays(order) == TRUE
FlagAfter(order) == order # "layer, map"

\* The zone after a gesture of which the layer's handler makes zone z.
ZoneAfter(order, z, layerSets) ==
    CASE order = "layer, map" /\ MapClears(TRUE) -> Off
      [] order = "map, layer" /\ ~layerSets /\ MapClears(suppressed) -> Off
      [] OTHER -> z

-----------------------------------------------------------------------------
HotspotInit ==
    /\ pinAt \in [Pins -> {Off}]
    /\ selectedZone = Off /\ selectedIssueId = Off
    /\ suppressed = FALSE /\ meant = {Off} /\ owed = FALSE

\* handleZoneToggle: the layer of the zones.
ClickZone(z, order) ==
    LET toggled == IF selectedZone = z THEN Off ELSE z IN
    /\ z \in ZonesOf(pinAt)
    /\ suppressed' = FlagAfter(order)
    /\ selectedZone' = ZoneAfter(order, toggled, TRUE)
    /\ meant' = {toggled} /\ owed' = (order # "layer, map")
    /\ UNCHANGED <<pinAt, selectedIssueId>>

\* The layer of the pins.  The map's handler, when it comes first, does not
\* know of the layer's yet.
ClickPin(p, order) ==
    /\ p \in ShownPins
    /\ suppressed' = FlagAfter(order)
    /\ selectedIssueId' = p
    /\ selectedZone' = ZoneAfter(order, selectedZone, FALSE)
    /\ meant' = IF order = "map, layer" THEN {selectedZone, Off} ELSE {selectedZone}
    /\ owed' = (order # "layer, map")
    /\ UNCHANGED pinAt

\* A click beside zones and pins.  A flag that a layer has left behind
\* swallows it.
ClickMap ==
    /\ suppressed' = FALSE
    /\ selectedZone' = IF MapClears(suppressed) THEN Off ELSE selectedZone
    /\ meant' = IF owed THEN {selectedZone, Off} ELSE {Off}
    /\ owed' = FALSE
    /\ UNCHANGED <<pinAt, selectedIssueId>>

\* The list of the zones, which is there while none is selected; "Clear".
ListZone(z) ==
    /\ selectedZone = Off /\ z \in ZonesOf(pinAt)
    /\ selectedZone' = z /\ meant' = {z}
    /\ UNCHANGED <<pinAt, selectedIssueId, suppressed, owed>>

ClearZone ==
    /\ selectedZone # Off
    /\ selectedZone' = Off /\ meant' = {Off}
    /\ UNCHANGED <<pinAt, selectedIssueId, suppressed, owed>>

\* The list of the selected zone's issues.
ListIssue(p) ==
    /\ p \in ShownPins
    /\ selectedIssueId' = p
    /\ UNCHANGED <<pinAt, selectedZone, suppressed, meant, owed>>

\* While no zone is selected, MPs see the issues of the hottest one, whichever
\* that is.  A click on one selects the issue and not the zone.
ListHottest(p) ==
    /\ selectedZone = Off /\ pinAt[p] # Off
    /\ selectedIssueId' = p
    /\ UNCHANGED <<pinAt, selectedZone, suppressed, meant, owed>>

\* The drawer is closed.
CloseIssue ==
    /\ selectedIssueId # Off
    /\ selectedIssueId' = Off
    /\ UNCHANGED <<pinAt, selectedZone, suppressed, meant, owed>>

\* A refresh of the issues, or another constituency: the two effects drop what
\* is not in scope any more.
ScopeChanges ==
    \E at \in [Pins -> Hotspots \cup {Off}] :
        /\ pinAt' = at
        /\ selectedZone' = IF selectedZone \in ZonesOf(at) THEN selectedZone ELSE Off
        /\ selectedIssueId' = IF selectedIssueId # Off /\ at[selectedIssueId] = Off THEN Off
                              ELSE selectedIssueId
        /\ meant' = {IF z \in ZonesOf(at) THEN z ELSE Off : z \in meant}
        /\ UNCHANGED <<suppressed, owed>>

HotspotNext ==
    \/ ClickMap \/ ClearZone \/ CloseIssue \/ ScopeChanges
    \/ \E z \in Hotspots : ListZone(z) \/ \E order \in Orders : ClickZone(z, order)
    \/ \E p \in Pins : ListIssue(p) \/ ListHottest(p) \/ \E order \in Orders : ClickPin(p, order)

HotspotSpec == HotspotInit /\ [][HotspotNext]_hotspotVars

-----------------------------------------------------------------------------
\* The state of the page is well formed.
HotspotTypeOK ==
    /\ pinAt \in [Pins -> Hotspots \cup {Off}]
    /\ selectedZone \in Hotspots \cup {Off} /\ selectedIssueId \in Pins \cup {Off}
    /\ suppressed \in BOOLEAN /\ owed \in BOOLEAN
    /\ meant \subseteq Hotspots \cup {Off}

\* What the user's gestures come to, in whichever order the two libraries report
\* them.  A click on a zone selects it, or clears it if it was selected.  A click on
\* a pin keeps the zone, unless the map reports it first: then the zone may be
\* lost.  A click beside them clears the selection, but the first one after a
\* gesture that the map has not reported last may be lost: the second never is.
\* And what is selected is in scope.
SelectionIsMeant ==
    /\ selectedZone \in meant
    /\ selectedZone \in ZonesOf(pinAt) \cup {Off}
    /\ selectedIssueId # Off => pinAt[selectedIssueId] # Off
=============================================================================
