----------------------------- MODULE ViewProofs -----------------------------
(***************************************************************************)
(* Proofs about the session of the browser, the copy of an issue, the      *)
(* charts, maps and cards, for every number of tabs, users, requests and   *)
(* zones; and about the views together.                                    *)
(***************************************************************************)
EXTENDS FormProofs, Browser, WellFoundedInduction, FiniteSetTheorems, TLAPS

-----------------------------------------------------------------------------
(* The figures of the analytics page.                                      *)

LEMMA CancelledLoad ==
    ASSUME NEW l \in SignalLoad
    PROVE  /\ [l EXCEPT !.cancelled = TRUE] \in SignalLoad
           /\ [l EXCEPT !.cancelled = TRUE].cancelled
  BY DEF SignalLoad

LEMMA SignalTypeStep ==
    ASSUME SignalTypeOK, SignalNext
    PROVE  SignalTypeOK'
<1>1. ASSUME NEW place \in Places, HomeChanges(place)
      PROVE  SignalTypeOK'
  <2>1. PICK a \in Answers : LoadFor(place, a)
    BY <1>1 DEF HomeChanges
  <2>2. [of |-> place, cancelled |-> FALSE] \in SignalLoad
    BY DEF SignalLoad
  <2>3. \A b \in Answers : Cancelled(signalLoads[b]) \in SignalLoad \cup {NoLoad}
    BY CancelledLoad DEF Cancelled, SignalTypeOK
  <2>4. signalLoads' \in [Answers -> SignalLoad \cup {NoLoad}]
    BY <2>1, <2>2, <2>3 DEF LoadFor
  <2>5. QED
    BY <1>1, <2>4 DEF HomeChanges, SignalTypeOK
<1>2. ASSUME NEW a \in Answers, LoadSettles(a)
      PROVE  SignalTypeOK'
  <2>1. signalLoads[a].of \in Places
    BY <1>2 DEF LoadSettles, SignalTypeOK, SignalLoad
  <2>2. QED
    BY <1>2, <2>1 DEF LoadSettles, SignalTypeOK
<1>3. QED
  BY <1>1, <1>2 DEF SignalNext

LEMMA SignalShaped == SignalSpec => []SignalTypeOK
<1>1. SignalInit => SignalTypeOK
  BY DEF SignalInit, SignalTypeOK, SignalLoad, Places
<1>2. SignalTypeOK /\ [SignalNext]_signalVars => SignalTypeOK'
  <2>1. ASSUME SignalTypeOK, UNCHANGED signalVars
        PROVE  SignalTypeOK'
    BY <2>1 DEF SignalTypeOK, signalVars
  <2>2. QED
    BY <2>1, SignalTypeStep
<1>3. QED
  BY <1>1, <1>2, PTL DEF SignalSpec

\* A load that is not cancelled is one for the constituency of the user.
LoadsAreOwn ==
    \A a \in Answers :
      signalLoads[a] # NoLoad /\ ~signalLoads[a].cancelled => signalLoads[a].of = home

\* A figure that came for the constituency shown is not replaced by one of
\* another place that was asked for earlier and comes later.
THEOREM FiguresStand == SignalSpec => [](SignalTypeOK /\ OwnFiguresStand)
<1>1. SignalInit => LoadsAreOwn /\ OwnFiguresStand
  BY DEF SignalInit, LoadsAreOwn, OwnFiguresStand
<1>2. SignalTypeOK /\ LoadsAreOwn /\ OwnFiguresStand /\ [SignalNext]_signalVars
      => LoadsAreOwn' /\ OwnFiguresStand'
  <2> SUFFICES ASSUME SignalTypeOK, LoadsAreOwn, OwnFiguresStand, [SignalNext]_signalVars
               PROVE  LoadsAreOwn' /\ OwnFiguresStand'
    OBVIOUS
  <2>1. ASSUME NEW place \in Places, HomeChanges(place)
        PROVE  LoadsAreOwn' /\ OwnFiguresStand'
    <3>1. PICK a \in Answers : LoadFor(place, a)
      BY <2>1 DEF HomeChanges
    <3>2. \A b \in Answers : signalLoads[b] # NoLoad => Cancelled(signalLoads[b]).cancelled
      BY CancelledLoad DEF Cancelled, SignalTypeOK
    <3>3. LoadsAreOwn'
      BY <2>1, <3>1, <3>2 DEF HomeChanges, LoadFor, Cancelled, LoadsAreOwn
    <3>4. QED
      BY <2>1, <3>3 DEF HomeChanges, OwnFiguresStand
  <2>2. ASSUME NEW a \in Answers, LoadSettles(a)
        PROVE  LoadsAreOwn' /\ OwnFiguresStand'
    <3>1. LoadsAreOwn'
      BY <2>2 DEF LoadSettles, LoadsAreOwn, SignalTypeOK
    <3>2. CASE UNCHANGED <<figures, answered>>
      <4>1. UNCHANGED home
        BY <2>2 DEF LoadSettles
      <4>2. QED
        BY <3>1, <3>2, <4>1 DEF OwnFiguresStand
    <3>3. CASE ~signalLoads[a].cancelled
      <4>1. signalLoads[a].of = home
        BY <2>2, <3>3 DEF LoadSettles, LoadsAreOwn
      <4>2. PICK ok \in SUBSET Figures :
                /\ figures' = [f \in Figures |-> IF f \in ok THEN home ELSE figures[f]]
                /\ answered' = answered \cup ok
        BY <2>2, <3>3, <4>1 DEF LoadSettles
      <4>3. QED
        BY <2>2, <3>1, <4>2 DEF LoadSettles, OwnFiguresStand, SignalTypeOK
    <3>4. QED
      BY <2>2, <3>1, <3>2, <3>3 DEF LoadSettles
  <2>3. CASE UNCHANGED signalVars
    BY <2>3 DEF LoadsAreOwn, OwnFiguresStand, signalVars
  <2>4. QED
    BY <2>1, <2>2, <2>3 DEF SignalNext
<1>3. QED
  BY <1>1, <1>2, SignalShaped, PTL DEF SignalSpec

-----------------------------------------------------------------------------
(* The heat maps.                                                          *)

\* A flag is only left behind by a gesture that the map did not report last, so
\* it never outlives the first click beside zones and pins.
FlagIsOwed == suppressed => owed

LEMMA HotspotStep ==
    ASSUME HotspotTypeOK, SelectionIsMeant, FlagIsOwed, HotspotNext
    PROVE  HotspotTypeOK' /\ SelectionIsMeant' /\ FlagIsOwed'
<1> USE HotspotAssumption
    DEF HotspotTypeOK, SelectionIsMeant, FlagIsOwed, ZonesOf, MapClears, FlagAfter
<1>1. CASE ClickMap \/ ClearZone \/ CloseIssue
  <2>1. CASE ClickMap
    <3>1. selectedZone' \in {selectedZone, Off} /\ (~owed => selectedZone' = Off)
      BY <2>1 DEF ClickMap
    <3>2. meant' = (IF owed THEN {selectedZone, Off} ELSE {Off}) /\ ~suppressed' /\ ~owed'
      BY <2>1 DEF ClickMap
    <3>3. UNCHANGED <<pinAt, selectedIssueId>>
      BY <2>1 DEF ClickMap
    <3>4. suppressed' \in BOOLEAN /\ owed' \in BOOLEAN
      BY <2>1 DEF ClickMap
    <3>5. QED
      BY <3>1, <3>2, <3>3, <3>4
  <2>2. CASE ClearZone
    BY <2>2 DEF ClearZone
  <2>3. CASE CloseIssue
    BY <2>3 DEF CloseIssue
  <2>4. QED
    BY <1>1, <2>1, <2>2, <2>3
<1>2. CASE ScopeChanges
  <2>1. PICK at \in [Pins -> Hotspots \cup {Off}] :
            /\ pinAt' = at
            /\ selectedZone' = IF selectedZone \in ZonesOf(at) THEN selectedZone ELSE Off
            /\ selectedIssueId' = IF selectedIssueId # Off /\ at[selectedIssueId] = Off THEN Off
                                  ELSE selectedIssueId
            /\ meant' = {IF z \in ZonesOf(at) THEN z ELSE Off : z \in meant}
            /\ UNCHANGED <<suppressed, owed>>
    BY <1>2 DEF ScopeChanges
  <2>2. HotspotTypeOK'
    BY <2>1
  <2>3. QED
    BY <2>1, <2>2
<1>3. ASSUME NEW z \in Hotspots, ListZone(z)
      PROVE  HotspotTypeOK' /\ SelectionIsMeant' /\ FlagIsOwed'
  BY <1>3 DEF ListZone
<1>4. ASSUME NEW z \in Hotspots, NEW order \in Orders, ClickZone(z, order)
      PROVE  HotspotTypeOK' /\ SelectionIsMeant' /\ FlagIsOwed'
  BY <1>4 DEF ClickZone, ZoneAfter, Orders
<1>5. ASSUME NEW p \in Pins, ListIssue(p) \/ ListHottest(p)
      PROVE  HotspotTypeOK' /\ SelectionIsMeant' /\ FlagIsOwed'
  BY <1>5 DEF ListIssue, ListHottest, ShownPins
<1>6. ASSUME NEW p \in Pins, NEW order \in Orders, ClickPin(p, order)
      PROVE  HotspotTypeOK' /\ SelectionIsMeant' /\ FlagIsOwed'
  BY <1>6 DEF ClickPin, ShownPins, ZoneAfter, Orders
<1>7. QED
  BY <1>1, <1>2, <1>3, <1>4, <1>5, <1>6 DEF HotspotNext

\* What is selected on the map follows from the user's gestures: clicks on zones
\* take effect in every order in which the two libraries report them, clicks on
\* pins keep the zone unless the map reports them first, and of clicks beside them
\* at most one is lost after each gesture that the map has not reported last.
THEOREM SelectionHolds == HotspotSpec => [](HotspotTypeOK /\ SelectionIsMeant)
<1>1. HotspotInit => HotspotTypeOK /\ SelectionIsMeant /\ FlagIsOwed
  BY DEF HotspotInit, HotspotTypeOK, SelectionIsMeant, FlagIsOwed, ZonesOf
<1>2. HotspotTypeOK /\ SelectionIsMeant /\ FlagIsOwed /\ [HotspotNext]_hotspotVars
      => HotspotTypeOK' /\ SelectionIsMeant' /\ FlagIsOwed'
  <2>1. ASSUME HotspotTypeOK, SelectionIsMeant, FlagIsOwed, UNCHANGED hotspotVars
        PROVE  HotspotTypeOK' /\ SelectionIsMeant' /\ FlagIsOwed'
    BY <2>1 DEF HotspotTypeOK, SelectionIsMeant, FlagIsOwed, ZonesOf, hotspotVars
  <2>2. QED
    BY <2>1, HotspotStep
<1>3. QED
  BY <1>1, <1>2, PTL DEF HotspotSpec

-----------------------------------------------------------------------------
(* The charts of the issue queue.                                          *)

RunTable == [Charts -> [RunSlots -> EffectRun \cup {NoRun}]]

\* The runs of chart c that have not been told to stop.
LiveRuns(c) == {r \in Going(c) : ~runs[c][r].cancelled}

\* There is at most one such run for a chart, it belongs to the filter that is
\* shown, and it has neither attached its handler yet nor failed.
RunsFollow ==
    \A c \in Charts :
      /\ \A r \in LiveRuns(c) : /\ runs[c][r].filter = filters[c]
                              /\ ~ready[c] /\ ~broken[c] /\ handlers[c] = NoRun
      /\ \A r, s \in LiveRuns(c) : r = s

LEMMA EndedRun ==
    ASSUME NEW run \in EffectRun
    PROVE  /\ [run EXCEPT !.cancelled = TRUE] \in EffectRun
           /\ [run EXCEPT !.cancelled = TRUE].cancelled
           /\ [run EXCEPT !.waits = "react"] \in EffectRun
           /\ [run EXCEPT !.waits = "react"].cancelled = run.cancelled
           /\ [run EXCEPT !.waits = "react"].filter = run.filter
  BY DEF EffectRun

\* Every step that renders the page starts one run of every chart's effect.
LEMMA RenderStep ==
    ASSUME QueueTypeOK, NEW fs \in [Facets -> SUBSET Marks], Render(fs), picked' \in BOOLEAN
    PROVE  QueueTypeOK' /\ RunsFollow' /\ HandlersAreCurrent'
<1>1. PICK s \in [Charts -> RunSlots] :
          runs' = [c \in Charts |-> [r \in RunSlots |->
              IF r = s[c] THEN [waits |-> "import", filter |-> fs[c], cancelled |-> FALSE]
              ELSE IF runs[c][r] = NoRun THEN NoRun ELSE [runs[c][r] EXCEPT !.cancelled = TRUE]]]
  BY DEF Render
<1>2. /\ filters' = fs /\ handlers' = [c \in Charts |-> NoRun]
      /\ ready' = [c \in Charts |-> FALSE] /\ broken' = [c \in Charts |-> FALSE]
  BY DEF Render
<1>3. ASSUME NEW c \in Charts, NEW r \in RunSlots
      PROVE  /\ runs'[c][r] \in EffectRun \cup {NoRun}
             /\ r \in LiveRuns(c)' => r = s[c] /\ runs'[c][r].filter = fs[c]
  <2>1. CASE r = s[c]
    <3>1. runs'[c][r] = [waits |-> "import", filter |-> fs[c], cancelled |-> FALSE]
      BY <1>1, <2>1
    <3>2. fs[c] \in SUBSET Marks
      BY QueueAssumption
    <3>3. QED
      BY <2>1, <3>1, <3>2 DEF EffectRun
  <2>2. CASE r # s[c] /\ runs[c][r] = NoRun
    <3>1. runs'[c][r] = NoRun
      BY <1>1, <2>2
    <3>2. QED
      BY <3>1 DEF LiveRuns, Going
  <2>3. CASE r # s[c] /\ runs[c][r] # NoRun
    <3>1. runs'[c][r] = [runs[c][r] EXCEPT !.cancelled = TRUE] /\ runs[c][r] \in EffectRun
      BY <1>1, <2>3 DEF QueueTypeOK
    <3>2. runs'[c][r] \in EffectRun /\ runs'[c][r].cancelled
      BY <3>1, EndedRun
    <3>3. QED
      BY <3>2 DEF LiveRuns, Going
  <2>4. QED
    BY <2>1, <2>2, <2>3
<1>4. runs' \in RunTable
  <2>1. DOMAIN runs' = Charts /\ \A c \in Charts : runs'[c] = [r \in RunSlots |-> runs'[c][r]]
    BY <1>1
  <2>2. \A c \in Charts : runs'[c] \in [RunSlots -> EffectRun \cup {NoRun}]
    BY <1>3, <2>1
  <2>3. runs' = [c \in Charts |-> runs'[c]]
    BY <1>1
  <2>4. QED
    BY <2>2, <2>3 DEF RunTable
<1>5. QueueTypeOK'
  <2>1. filters' \in [Facets -> SUBSET Marks] /\ handlers' \in [Charts -> {NoRun} \cup SUBSET Marks]
    BY <1>2
  <2>2. ready' \in [Charts -> BOOLEAN] /\ broken' \in [Charts -> BOOLEAN]
    BY <1>2
  <2>3. QED
    BY <1>4, <2>1, <2>2 DEF QueueTypeOK, RunTable
<1>6. RunsFollow'
  <2>1. \A c \in Charts : LiveRuns(c)' \subseteq RunSlots
    BY DEF LiveRuns, Going
  <2>2. QED
    BY <1>2, <1>3, <2>1 DEF RunsFollow
<1>7. HandlersAreCurrent'
  BY <1>2 DEF HandlersAreCurrent
<1>8. QED
  BY <1>5, <1>6, <1>7

LEMMA RunStep ==
    ASSUME QueueTypeOK, RunsFollow, HandlersAreCurrent, NEW c \in Charts, NEW r \in RunSlots,
           Imported(c, r) \/ Drawn(c, r) \/ RunFails(c, r)
    PROVE  QueueTypeOK' /\ RunsFollow' /\ HandlersAreCurrent'
<1>1. runs \in RunTable /\ runs[c][r] \in EffectRun /\ runs[c][r] # NoRun
  BY DEF Imported, Drawn, RunFails, Going, QueueTypeOK, RunTable
<1>2. ~runs[c][r].cancelled => r \in LiveRuns(c)
  BY <1>1 DEF LiveRuns, Going
<1>3. CASE Imported(c, r)
  <2>1. PICK remains \in EffectRun \cup {NoRun} :
            /\ runs' = [runs EXCEPT ![c][r] = remains]
            /\ remains # NoRun => remains.cancelled = runs[c][r].cancelled /\ remains.filter = runs[c][r].filter
    BY <1>1, <1>3, EndedRun DEF Imported, RunTable
  <2>2. UNCHANGED <<filters, picked, handlers, ready, broken>>
    BY <1>3 DEF Imported
  <2>3. runs' \in RunTable
    BY <1>1, <2>1 DEF RunTable
  <2>4. \A d \in Charts : \A s \in LiveRuns(d)' :
            s \in LiveRuns(d) /\ runs'[d][s].filter = runs[d][s].filter
    BY <1>1, <2>1 DEF LiveRuns, Going, RunTable
  <2>5. RunsFollow'
    BY <2>2, <2>4 DEF RunsFollow
  <2>6. QED
    BY <2>2, <2>3, <2>5 DEF QueueTypeOK, HandlersAreCurrent, RunTable
<1>4. ASSUME Drawn(c, r) \/ RunFails(c, r)
      PROVE  /\ runs' \in RunTable
             /\ \A d \in Charts : \A s \in LiveRuns(d)' :
                  s \in LiveRuns(d) /\ runs'[d][s] = runs[d][s] /\ (d # c \/ s # r)
  <2>1. runs' = [runs EXCEPT ![c][r] = NoRun]
    BY <1>4 DEF Drawn, RunFails
  <2>2. QED
    BY <1>1, <2>1 DEF LiveRuns, Going, RunTable
<1>5. CASE (Drawn(c, r) \/ RunFails(c, r)) /\ runs[c][r].cancelled
  <2>1. UNCHANGED <<filters, picked, handlers, ready, broken>>
    BY <1>5 DEF Drawn, RunFails, GoesOn, QueueTypeOK
  <2>2. RunsFollow'
    BY <1>4, <1>5, <2>1 DEF RunsFollow
  <2>3. QED
    BY <1>4, <1>5, <2>1, <2>2 DEF QueueTypeOK, HandlersAreCurrent, RunTable
<1>6. CASE (Drawn(c, r) \/ RunFails(c, r)) /\ ~runs[c][r].cancelled
  <2>1. LiveRuns(c) = {r} /\ LiveRuns(c)' = {}
    BY <1>2, <1>4, <1>6 DEF RunsFollow
  <2>2. runs[c][r].filter = filters[c] /\ filters[c] \in SUBSET Marks /\ filters[c] # NoRun
    BY <2>1, QueueAssumption DEF RunsFollow, QueueTypeOK
  <2>3. ~ready[c] /\ ~broken[c] /\ handlers[c] = NoRun
    BY <2>1 DEF RunsFollow
  <2>4. UNCHANGED <<filters, picked>>
    BY <1>6 DEF Drawn, RunFails
  <2>5. /\ handlers' \in [Charts -> {NoRun} \cup SUBSET Marks]
        /\ ready' \in [Charts -> BOOLEAN] /\ broken' \in [Charts -> BOOLEAN]
        /\ \A d \in Charts : d # c => /\ handlers'[d] = handlers[d]
                                    /\ ready'[d] = ready[d] /\ broken'[d] = broken[d]
    <3>1. CASE Drawn(c, r)
      <4>1. /\ handlers' = [handlers EXCEPT ![c] = filters[c]]
            /\ ready' = [ready EXCEPT ![c] = TRUE] /\ broken' = broken
        BY <1>6, <2>2, <3>1 DEF Drawn, GoesOn
      <4>2. QED
        BY <2>2, <4>1 DEF QueueTypeOK
    <3>2. CASE RunFails(c, r)
      <4>1. /\ broken' = [broken EXCEPT ![c] = TRUE]
            /\ ready' = [ready EXCEPT ![c] = FALSE] /\ handlers' = handlers
        BY <1>6, <3>2 DEF RunFails, GoesOn
      <4>2. QED
        BY <4>1 DEF QueueTypeOK
    <3>3. QED
      BY <1>6, <3>1, <3>2
  <2>6. \/ handlers'[c] = filters[c] /\ ready'[c] /\ ~broken'[c]
        \/ handlers'[c] = NoRun /\ ~ready'[c] /\ broken'[c]
    BY <1>6, <2>2, <2>3 DEF Drawn, RunFails, GoesOn, QueueTypeOK
  <2>7. RunsFollow'
    BY <1>4, <1>6, <2>1, <2>4, <2>5 DEF RunsFollow
  <2>8. HandlersAreCurrent'
    BY <2>2, <2>4, <2>5, <2>6 DEF HandlersAreCurrent
  <2>9. QED
    BY <1>4, <1>6, <2>4, <2>5, <2>7, <2>8 DEF QueueTypeOK, RunTable
<1>7. QED
  BY <1>3, <1>5, <1>6

\* A chart that is shown toggles in the filter as the page shows it, whatever
\* runs of earlier renders are still waiting.
THEOREM HandlersHold == QueueSpec => [](QueueTypeOK /\ HandlersAreCurrent)
<1>1. QueueInit => QueueTypeOK /\ RunsFollow /\ HandlersAreCurrent
  <2> SUFFICES ASSUME QueueInit
               PROVE  QueueTypeOK /\ RunsFollow /\ HandlersAreCurrent
    OBVIOUS
  <2>1. PICK s \in RunSlots :
            runs = [c \in Charts |-> [r \in RunSlots |->
              IF r = s THEN [waits |-> "import", filter |-> {}, cancelled |-> FALSE] ELSE NoRun]]
    BY DEF QueueInit
  <2>2. [waits |-> "import", filter |-> {}, cancelled |-> FALSE] \in EffectRun
    BY DEF EffectRun
  <2>3. runs \in RunTable
    BY <2>1, <2>2 DEF RunTable
  <2>4. \A c \in Charts : \A r \in LiveRuns(c) : r = s /\ runs[c][r].filter = {}
    BY <2>1 DEF LiveRuns, Going
  <2>5. /\ filters = [f \in Facets |-> {}] /\ picked = FALSE
        /\ handlers = [c \in Charts |-> NoRun]
        /\ ready = [c \in Charts |-> FALSE] /\ broken = [c \in Charts |-> FALSE]
    BY DEF QueueInit
  <2>6. QueueTypeOK
    <3>1. filters \in [Facets -> SUBSET Marks] /\ handlers \in [Charts -> {NoRun} \cup SUBSET Marks]
      BY <2>5
    <3>2. picked \in BOOLEAN /\ ready \in [Charts -> BOOLEAN] /\ broken \in [Charts -> BOOLEAN]
      BY <2>5
    <3>3. QED
      BY <2>3, <3>1, <3>2 DEF QueueTypeOK, RunTable
  <2>7. RunsFollow
    BY <2>4, <2>5, QueueAssumption DEF RunsFollow
  <2>8. HandlersAreCurrent
    BY <2>5 DEF HandlersAreCurrent
  <2>9. QED
    BY <2>6, <2>7, <2>8
<1>2. QueueTypeOK /\ RunsFollow /\ HandlersAreCurrent /\ [QueueNext]_queueVars
      => QueueTypeOK' /\ RunsFollow' /\ HandlersAreCurrent'
  <2> SUFFICES ASSUME QueueTypeOK, RunsFollow, HandlersAreCurrent, [QueueNext]_queueVars
               PROVE  QueueTypeOK' /\ RunsFollow' /\ HandlersAreCurrent'
    OBVIOUS
  <2>1. ASSUME NEW f \in Facets, NEW old \in SUBSET Marks, NEW m \in Marks
        PROVE  [filters EXCEPT ![f] = Toggle1(old, m)] \in [Facets -> SUBSET Marks]
    BY DEF QueueTypeOK, Toggle1
  <2>2. CASE ClearAllFilters
    BY <2>2, RenderStep DEF ClearAllFilters, QueueTypeOK
  <2>3. CASE PickIssue
    BY <2>3, RenderStep DEF PickIssue, QueueTypeOK
  <2>4. ASSUME NEW f \in Facets, NEW m \in Marks, TickFilter(f, m)
        PROVE  QueueTypeOK' /\ RunsFollow' /\ HandlersAreCurrent'
    <3>1. Render([filters EXCEPT ![f] = Toggle1(filters[f], m)]) /\ picked' \in BOOLEAN
      BY <2>4 DEF TickFilter, QueueTypeOK
    <3>2. [filters EXCEPT ![f] = Toggle1(filters[f], m)] \in [Facets -> SUBSET Marks]
      BY <2>1 DEF QueueTypeOK
    <3>3. QED
      BY <3>1, <3>2, RenderStep
  <2>5. ASSUME NEW c \in Charts, NEW m \in Marks, ClickPoint(c, m)
        PROVE  QueueTypeOK' /\ RunsFollow' /\ HandlersAreCurrent'
    <3>1. Render([filters EXCEPT ![c] = Toggle1(handlers[c], m)]) /\ picked' \in BOOLEAN
      BY <2>5 DEF ClickPoint, QueueTypeOK
    <3>2. handlers[c] \in SUBSET Marks
      <4>1. handlers[c] # NoRun /\ handlers \in [Charts -> {NoRun} \cup SUBSET Marks]
        BY <2>5 DEF ClickPoint, QueueTypeOK
      <4>2. QED
        BY <4>1
    <3>3. c \in Facets
      BY QueueAssumption
    <3>4. [filters EXCEPT ![c] = Toggle1(handlers[c], m)] \in [Facets -> SUBSET Marks]
      BY <2>1, <3>2, <3>3
    <3>5. QED
      BY <3>1, <3>4, RenderStep
  <2>6. ASSUME NEW c \in Charts, ClearFacet(c)
        PROVE  QueueTypeOK' /\ RunsFollow' /\ HandlersAreCurrent'
    <3>1. Render([filters EXCEPT ![c] = {}]) /\ picked' \in BOOLEAN
      BY <2>6 DEF ClearFacet, QueueTypeOK
    <3>2. [filters EXCEPT ![c] = {}] \in [Facets -> SUBSET Marks]
      BY DEF QueueTypeOK
    <3>3. QED
      BY <3>1, <3>2, RenderStep
  <2>7. CASE UNCHANGED queueVars
    BY <2>7 DEF queueVars, QueueTypeOK, RunsFollow, HandlersAreCurrent, LiveRuns, Going
  <2>8. QED
    BY <2>2, <2>3, <2>4, <2>5, <2>6, <2>7, RunStep DEF QueueNext
<1>3. QED
  BY <1>1, <1>2, PTL DEF QueueSpec

-----------------------------------------------------------------------------
(* The session of the browser.                                             *)

CallTable == calls \in [CallSlots -> Call \cup {Unused}]
SessionRest == /\ stored \in Visitors /\ cookie \in Visitors
               /\ shown \in [Tabs -> Visitors] /\ page \in [Tabs -> Pages \cup {"leaving"}]
SessionFlags == /\ fresh \in BOOLEAN /\ busy \in [Tabs -> BOOLEAN]
                /\ orderly \in BOOLEAN /\ left \in BOOLEAN

LEMMA MovedCall ==
    ASSUME NEW k \in Call, NEW u \in Visitors
    PROVE  /\ [k EXCEPT !.phase = "refreshing", !.as = u] \in Call
           /\ [k EXCEPT !.phase = "again"] \in Call
           /\ [k EXCEPT !.phase = "reading"] \in Call
  BY DEF Call

LEMMA SentCall ==
    ASSUME NEW t \in Tabs, NEW kind \in {"data", "login", "logout"}, NEW u \in Visitors
    PROVE  [tab |-> t, kind |-> kind, as |-> u, phase |-> "sent"] \in Call
  BY DEF Call

LEMMA CallTableStep == ASSUME CallTable, SessionRest, SessionNext PROVE CallTable'
<1> USE DEF CallTable
<1>1. CASE Expire
  BY <1>1 DEF Expire
<1>2. ASSUME NEW t \in Tabs,
             Land(t) \/ EnterSite(t) \/ \E p \in Pages : Visit(t, p) \/ FollowLink(t, p)
      PROVE  CallTable'
  BY <1>2 DEF Land, Visit, Load, EnterSite, FollowLink
<1>3. ASSUME NEW t \in Tabs, NEW c \in CallSlots, NEW kind \in {"data", "login", "logout"},
             NEW u \in Visitors, Begin(t, c, kind, u)
      PROVE  CallTable'
  BY <1>3, SentCall DEF Begin
<1>4. ASSUME NEW t \in Tabs, NEW c \in CallSlots,
             AskData(t, c) \/ Logout(t, c) \/ \E u \in People : Login(t, c, u)
      PROVE  CallTable'
  BY <1>3, <1>4 DEF AskData, Logout, Login, SessionRest, Visitors
<1>5. ASSUME NEW c \in CallSlots, Refused(c) \/ Renewed(c) \/ LoginStored(c)
      PROVE  CallTable'
  <2>1. calls[c] \in Call /\ cookie \in Visitors
    BY <1>5 DEF Refused, Renewed, LoginStored, At, Flying, SessionRest
  <2>2. \/ calls' = [calls EXCEPT ![c] = [calls[c] EXCEPT !.phase = "refreshing", !.as = cookie]]
        \/ calls' = [calls EXCEPT ![c] = [calls[c] EXCEPT !.phase = "again"]]
        \/ calls' = [calls EXCEPT ![c] = [calls[c] EXCEPT !.phase = "reading"]]
    BY <1>5 DEF Refused, Renewed, LoginStored
  <2>3. QED
    BY <2>1, <2>2, MovedCall
<1>6. ASSUME NEW c \in CallSlots, Done(c)
      PROVE  CallTable'
  BY <1>6 DEF Done
<1>7. ASSUME NEW c \in CallSlots,
             \/ Served(c) \/ GiveUp(c) \/ Lost(c) \/ LoginShown(c) \/ LoginFails(c)
             \/ \E ok \in BOOLEAN : LoggedOut(c, ok)
      PROVE  CallTable'
  BY <1>6, <1>7 DEF Served, GiveUp, Lost, LoginShown, LoginFails, LoggedOut
<1>8. QED
  BY <1>1, <1>2, <1>4, <1>5, <1>7 DEF SessionNext

LEMMA AdmittedPage ==
    ASSUME NEW p \in Pages
    PROVE  Admit(p) \in Pages
  BY DEF Admit, Pages, Public

LEMMA SessionRestStep == ASSUME CallTable, SessionRest, SessionNext PROVE SessionRest'
<1> USE DEF SessionRest, SetToken, ClearToken
<1>1. CASE Expire
  BY <1>1 DEF Expire
<1>2. CurrentUser \in Visitors /\ Guest \in Visitors
  BY DEF CurrentUser, Visitors
<1>3. ASSUME NEW t \in Tabs, NEW p \in Pages, Load(t, p)
      PROVE  SessionRest'
  BY <1>2, <1>3, AdmittedPage DEF Load
<1>4. ASSUME NEW t \in Tabs, NEW p \in Pages, Follow(t, p), UNCHANGED <<stored, cookie, shown>>
      PROVE  SessionRest'
  BY <1>4, AdmittedPage DEF Follow
<1>5. ASSUME NEW t \in Tabs, Land(t) \/ EnterSite(t) \/ \E p \in Pages : Visit(t, p) \/ FollowLink(t, p)
      PROVE  SessionRest'
  <2>1. CASE Land(t) \/ \E p \in Pages : Visit(t, p)
    BY <1>3, <2>1 DEF Land, Visit, Pages, Public
  <2>2. CASE EnterSite(t) \/ \E p \in Pages : FollowLink(t, p)
    BY <1>4, <2>2 DEF EnterSite, FollowLink, Pages, Public
  <2>3. QED
    BY <1>5, <2>1, <2>2
<1>6. ASSUME NEW t \in Tabs, NEW c \in CallSlots,
             AskData(t, c) \/ Logout(t, c) \/ \E u \in People : Login(t, c, u)
      PROVE  SessionRest'
  BY <1>6 DEF AskData, Logout, Login, Begin
<1>7. ASSUME NEW c \in CallSlots, c \in Flying
      PROVE  calls[c].tab \in Tabs /\ calls[c].as \in Visitors
  BY <1>7 DEF CallTable, Flying, Call
<1>8. ASSUME NEW c \in CallSlots, Served(c) \/ Refused(c) \/ Renewed(c) \/ Lost(c) \/ LoginStored(c)
      PROVE  SessionRest'
  BY <1>7, <1>8 DEF Served, Refused, Renewed, Lost, LoginStored, At
<1>9. ASSUME NEW c \in CallSlots, GiveUp(c) \/ LoginShown(c) \/ LoginFails(c)
      PROVE  SessionRest'
  BY <1>2, <1>7, <1>9 DEF GiveUp, AfterGiveUp, LoginShown, LoginFails, At
<1>10. ASSUME NEW c \in CallSlots, NEW ok \in BOOLEAN, LoggedOut(c, ok)
      PROVE  SessionRest'
  BY <1>2, <1>7, <1>10 DEF LoggedOut, CookieAfterLogout, At, Pages, Public
<1>11. QED
  BY <1>1, <1>5, <1>6, <1>8, <1>9, <1>10 DEF SessionNext

LEMMA SessionFlagsStep == ASSUME SessionFlags, SessionNext PROVE SessionFlags'
<1> USE DEF SessionFlags, SetToken, ClearToken
<1>1. CASE Expire
  BY <1>1 DEF Expire
<1>2. ASSUME NEW t \in Tabs, Land(t) \/ EnterSite(t) \/ \E p \in Pages : Visit(t, p) \/ FollowLink(t, p)
      PROVE  SessionFlags'
  BY <1>2 DEF Land, Visit, Load, EnterSite, FollowLink, Follow
<1>3. ASSUME NEW t \in Tabs, NEW c \in CallSlots,
             AskData(t, c) \/ Logout(t, c) \/ \E u \in People : Login(t, c, u)
      PROVE  SessionFlags'
  BY <1>3 DEF AskData, Logout, Login, Begin
<1>4. ASSUME NEW c \in CallSlots, Served(c) \/ Refused(c) \/ Renewed(c) \/ Lost(c) \/ LoginStored(c)
      PROVE  SessionFlags'
  BY <1>4 DEF Served, Refused, Renewed, Lost, LoginStored
<1>5. ASSUME NEW c \in CallSlots, GiveUp(c) \/ LoginShown(c) \/ LoginFails(c)
      PROVE  SessionFlags'
  BY <1>5 DEF GiveUp, LoginShown, LoginFails
<1>6. ASSUME NEW c \in CallSlots, NEW ok \in BOOLEAN, LoggedOut(c, ok)
      PROVE  SessionFlags'
  BY <1>6 DEF LoggedOut
<1>7. QED
  BY <1>1, <1>2, <1>3, <1>4, <1>5, <1>6 DEF SessionNext

LEMMA SessionShaped == SessionSpec => [](CallTable /\ SessionRest /\ SessionFlags)
<1>1. SessionInit => CallTable /\ SessionRest /\ SessionFlags
  <2> SUFFICES ASSUME SessionInit
               PROVE  CallTable /\ SessionRest /\ SessionFlags
    OBVIOUS
  <2>1. CallTable /\ SessionRest
    BY DEF SessionInit, CallTable, SessionRest, Visitors, Pages, Public
  <2>2. SessionFlags
    BY DEF SessionInit, SessionFlags
  <2>3. QED
    BY <2>1, <2>2
<1>2. CallTable /\ SessionRest /\ SessionFlags /\ [SessionNext]_sessionVars
      => CallTable' /\ SessionRest' /\ SessionFlags'
  <2>1. ASSUME CallTable, SessionRest, SessionFlags, UNCHANGED sessionVars
        PROVE  CallTable' /\ SessionRest' /\ SessionFlags'
    BY <2>1 DEF CallTable, SessionRest, SessionFlags, sessionVars
  <2>2. QED
    BY <2>1, CallTableStep, SessionRestStep, SessionFlagsStep
<1>3. QED
  BY <1>1, <1>2, PTL DEF SessionSpec

\* After a clean logout no refresh in flight carries a token of anybody.
QuietInv ==
    left => /\ stored = Guest /\ cookie = Guest
            /\ \A c \in Flying : calls[c].phase = "refreshing" => calls[c].as = Guest

LEMMA QuietStep == ASSUME CallTable, QuietInv, SessionNext PROVE QuietInv'
<1> USE DEF QuietInv, SetToken, ClearToken, Flying
<1>1. CASE Expire
  BY <1>1 DEF Expire
<1>2. ASSUME NEW t \in Tabs, Land(t) \/ EnterSite(t) \/ \E p \in Pages : Visit(t, p) \/ FollowLink(t, p)
      PROVE  QuietInv'
  BY <1>2 DEF Land, Visit, Load, EnterSite, FollowLink, Follow
<1>3. ASSUME NEW t \in Tabs, NEW c \in CallSlots,
             AskData(t, c) \/ Logout(t, c) \/ \E u \in People : Login(t, c, u)
      PROVE  QuietInv'
  <2>1. PICK kind, u : Begin(t, c, kind, u)
    BY <1>3 DEF AskData, Logout, Login
  <2>2. UNCHANGED left
    BY <1>3 DEF AskData, Logout, Login
  <2>3. QED
    BY <2>1, <2>2 DEF Begin, CallTable
<1>4. ASSUME NEW c \in CallSlots, Served(c) \/ Lost(c) \/ LoginStored(c)
      PROVE  QuietInv'
  BY <1>4 DEF Served, Lost, LoginStored, Done, CallTable
<1>5. ASSUME NEW c \in CallSlots, Refused(c) \/ Renewed(c)
      PROVE  QuietInv'
  <2>1. calls[c] \in Call /\ calls[c] # Unused
    BY <1>5 DEF Refused, Renewed, At, CallTable
  <2>2. CASE Refused(c)
    BY <2>1, <2>2, MovedCall DEF Refused, CallTable, Call
  <2>3. CASE Renewed(c)
    <3>1. ~left
      BY <2>3 DEF Renewed, At
    <3>2. QED
      BY <2>3, <3>1 DEF Renewed
  <2>4. QED
    BY <1>5, <2>2, <2>3
<1>6. ASSUME NEW c \in CallSlots, GiveUp(c) \/ LoginShown(c) \/ LoginFails(c)
      PROVE  QuietInv'
  BY <1>6 DEF GiveUp, LoginShown, LoginFails, Done, CallTable
<1>7. ASSUME NEW c \in CallSlots, NEW ok \in BOOLEAN, LoggedOut(c, ok)
      PROVE  QuietInv'
  BY <1>7 DEF LoggedOut, CookieAfterLogout, Done, CallTable
<1>8. QED
  BY <1>1, <1>2, <1>3, <1>4, <1>5, <1>6, <1>7 DEF SessionNext

\* After a logout that was answered while no refresh and no login was in flight
\* the browser holds no token until somebody logs in.
THEOREM LogoutHolds == SessionSpec => []LogoutSticks
<1>1. SessionInit => QuietInv
  BY DEF SessionInit, QuietInv
<1>2. CallTable /\ QuietInv /\ [SessionNext]_sessionVars => QuietInv'
  <2>1. ASSUME QuietInv, UNCHANGED sessionVars
        PROVE  QuietInv'
    BY <2>1 DEF QuietInv, Flying, sessionVars
  <2>2. QED
    BY <2>1, QuietStep
<1>3. QuietInv => LogoutSticks
  BY DEF QuietInv, LogoutSticks
<1>4. QED
  BY <1>1, <1>2, <1>3, SessionShaped, PTL DEF SessionSpec

-----------------------------------------------------------------------------
\* Tab t shows nobody, is about to reload, or shows the user of the token on a
\* page of that user's.
TabFits(t) ==
    \/ shown[t] = Guest /\ page[t] \in {"login", "site", "leaving"}
    \/ page[t] = "leaving"
    \/ /\ shown[t] = stored /\ stored # Guest
       /\ page[t] = "mp" => RoleOf[stored] # "citizen"
       /\ page[t] = "admin" => RoleOf[stored] = "sysadmin"

\* While the session is orderly every tab fits, all tokens and requests are of
\* the user of the refresh cookie, and a tab that is about to reload waits for
\* no answer.
OrderlyTabs == \A t \in Tabs : TabFits(t)
OrderlyToken == stored # Guest => cookie = stored
OrderlyCall(c) == /\ page[calls[c].tab] # "leaving"
                  /\ calls[c].kind = "data" /\ calls[c].as # Guest => calls[c].as = cookie
OrderlyCalls == \A c \in Flying : OrderlyCall(c)

OrderlyInv == orderly => OrderlyTabs /\ OrderlyToken /\ OrderlyCalls

\* The page that the middleware serves is one that the token's user may see.
LEMMA AdmittedFits ==
    ASSUME NEW p \in Pages
    PROVE  /\ Admit(p) # "leaving"
           /\ CurrentUser = Guest => Admit(p) = "login"
           /\ CurrentUser # Guest =>
                /\ CurrentUser = stored
                /\ Admit(p) = "mp" => RoleOf[stored] # "citizen"
                /\ Admit(p) = "admin" => RoleOf[stored] = "sysadmin"
           /\ p \in {"login", "site"} => Admit(p) \in {"login", "site"}
  BY DEF Admit, Pages, Public, CurrentUser

LEMMA OrderlyPages ==
    ASSUME CallTable, SessionRest, OrderlyInv,
           NEW t \in Tabs, Land(t) \/ EnterSite(t) \/ \E p \in Pages : Visit(t, p) \/ FollowLink(t, p)
    PROVE  OrderlyInv'
<1>1. UNCHANGED <<stored, fresh, cookie, orderly>>
  BY DEF Land, Visit, Load, EnterSite, FollowLink
<1>2. ASSUME NEW p \in Pages, Load(t, p)
      PROVE  OrderlyInv'
  <2>1. /\ page' = [page EXCEPT ![t] = Admit(p)] /\ shown' = [shown EXCEPT ![t] = CurrentUser]
        /\ calls' = [c \in CallSlots |-> IF c \in Flying /\ calls[c].tab = t THEN Unused ELSE calls[c]]
    BY <1>2 DEF Load
  <2>2. TabFits(t)'
    BY <1>1, <2>1, AdmittedFits DEF TabFits, SessionRest
  <2>3. ASSUME NEW u \in Tabs, u # t, TabFits(u)
        PROVE  TabFits(u)'
    BY <1>1, <2>1, <2>3 DEF TabFits, SessionRest
  <2>4. ASSUME NEW c \in Flying'
        PROVE  c \in Flying /\ calls'[c] = calls[c] /\ calls[c].tab # t
               /\ page'[calls[c].tab] = page[calls[c].tab]
    <3>1. c \in CallSlots /\ c \in Flying /\ calls'[c] = calls[c] /\ calls[c].tab # t
      BY <2>1, <2>4 DEF Flying
    <3>2. calls[c].tab \in Tabs
      BY <3>1 DEF CallTable, Call, Flying
    <3>3. QED
      BY <2>1, <3>1, <3>2 DEF SessionRest
  <2>5. OrderlyTabs => OrderlyTabs'
    BY <2>2, <2>3 DEF OrderlyTabs
  <2>6. OrderlyCalls => OrderlyCalls'
    BY <1>1, <2>4 DEF OrderlyCalls, OrderlyCall
  <2>7. QED
    BY <1>1, <2>5, <2>6 DEF OrderlyInv, OrderlyToken
<1>3. ASSUME NEW p \in Pages, Follow(t, p), UNCHANGED <<shown, calls>>,
             page[t] # "leaving", shown[t] = Guest => p \in {"login", "site"}
      PROVE  OrderlyInv'
  <2>1. page' = [page EXCEPT ![t] = Admit(p)]
    BY <1>3 DEF Follow
  <2>2. ASSUME TabFits(t)
        PROVE  TabFits(t)'
    BY <1>1, <1>3, <2>1, <2>2, AdmittedFits DEF TabFits, SessionRest
  <2>3. ASSUME NEW u \in Tabs, u # t, TabFits(u)
        PROVE  TabFits(u)'
    BY <1>1, <1>3, <2>1, <2>3 DEF TabFits, SessionRest
  <2>4. ASSUME NEW c \in Flying, page[calls[c].tab] # "leaving"
        PROVE  page'[calls[c].tab] # "leaving"
    <3>1. calls[c].tab \in Tabs
      BY <2>4 DEF CallTable, Call, Flying
    <3>2. QED
      BY <2>1, <2>4, <3>1, AdmittedFits DEF SessionRest
  <2>5. OrderlyTabs => OrderlyTabs'
    BY <2>2, <2>3 DEF OrderlyTabs
  <2>6. UNCHANGED calls /\ Flying' = Flying
    BY <1>3 DEF Flying
  <2>7. OrderlyCalls => OrderlyCalls'
    BY <1>1, <2>4, <2>6 DEF OrderlyCalls, OrderlyCall
  <2>8. QED
    BY <1>1, <2>5, <2>7 DEF OrderlyInv, OrderlyToken
<1>4. CASE Land(t) \/ \E p \in Pages : Visit(t, p)
  BY <1>2, <1>4 DEF Land, Visit, Pages, Public
<1>5. CASE EnterSite(t)
  BY <1>3, <1>5 DEF EnterSite, Pages, Public
<1>6. ASSUME NEW p \in Pages, FollowLink(t, p)
      PROVE  OrderlyInv'
  <2>1. shown[t] = Guest => p \in {"login", "site"}
    BY <1>6 DEF FollowLink, Links, RoleShown
  <2>2. page[t] # "leaving"
    BY <1>6 DEF FollowLink, Pages, Public
  <2>3. QED
    BY <1>3, <1>6, <2>1, <2>2 DEF FollowLink
<1>7. QED
  BY <1>4, <1>5, <1>6

LEMMA OrderlyBegins ==
    ASSUME CallTable, SessionRest, OrderlyInv, NEW t \in Tabs, NEW c \in CallSlots,
           AskData(t, c) \/ Logout(t, c) \/ \E u \in People : Login(t, c, u)
    PROVE  OrderlyInv'
<1>1. PICK kind, u : /\ Begin(t, c, kind, u) /\ page[t] # "leaving" /\ UNCHANGED orderly
                     /\ kind = "data" => u = stored
  BY DEF AskData, Logout, Login, Pages, Public
<1>2. UNCHANGED <<stored, cookie, shown, page>>
      /\ calls' = [calls EXCEPT ![c] = [tab |-> t, kind |-> kind, as |-> u, phase |-> "sent"]]
  BY <1>1 DEF Begin
<1>3. ASSUME NEW d \in Flying'
      PROVE  \/ d \in Flying /\ calls'[d] = calls[d]
             \/ /\ calls'[d].tab = t /\ (calls'[d].kind = "data" => calls'[d].as = stored)
  BY <1>1, <1>2, <1>3 DEF Flying, CallTable
<1>4. OrderlyTabs => OrderlyTabs'
  BY <1>2 DEF OrderlyTabs, TabFits
<1>5. OrderlyToken /\ OrderlyCalls => OrderlyCalls'
  BY <1>1, <1>2, <1>3 DEF OrderlyToken, OrderlyCalls, OrderlyCall
<1>6. QED
  BY <1>1, <1>2, <1>4, <1>5 DEF OrderlyInv, OrderlyToken

LEMMA OrderlyAnswers ==
    ASSUME CallTable, SessionRest, OrderlyInv, NEW c \in CallSlots,
           Served(c) \/ Refused(c) \/ Renewed(c) \/ Lost(c)
    PROVE  OrderlyInv'
<1>1. c \in Flying /\ calls[c] \in Call /\ calls[c].kind = "data"
  BY DEF Served, Refused, Renewed, Lost, At, Flying, CallTable
<1>2. UNCHANGED <<cookie, shown, page, orderly>>
  BY DEF Served, Refused, Renewed, Lost
<1>3. ASSUME NEW d \in Flying'
      PROVE  /\ d \in Flying /\ calls'[d].tab = calls[d].tab /\ calls'[d].kind = calls[d].kind
             /\ calls'[d].as \in {calls[d].as, cookie}
  <2>1. CASE Served(c) \/ Lost(c)
    BY <1>1, <1>3, <2>1 DEF Served, Lost, Done, Flying, CallTable
  <2>2. CASE Refused(c)
    BY <1>1, <1>3, <2>2 DEF Refused, Flying, CallTable, Call
  <2>3. CASE Renewed(c)
    BY <1>1, <1>3, <2>3 DEF Renewed, Flying, CallTable, Call
  <2>4. QED
    BY <2>1, <2>2, <2>3
<1>4. orderly => \/ stored' = stored
                 \/ stored' = cookie /\ (stored # Guest => stored' = stored)
  <2>1. CASE Served(c) \/ Refused(c) \/ Lost(c)
    BY <2>1 DEF Served, Refused, Lost
  <2>2. CASE Renewed(c)
    <3>1. stored' = calls[c].as /\ calls[c].as # Guest
      BY <2>2 DEF Renewed, SetToken
    <3>2. orderly => calls[c].as = cookie /\ (stored # Guest => cookie = stored)
      BY <1>1, <3>1 DEF OrderlyInv, OrderlyToken, OrderlyCalls, OrderlyCall
    <3>3. QED
      BY <3>1, <3>2
  <2>3. QED
    BY <2>1, <2>2
<1>5. orderly /\ OrderlyTabs => OrderlyTabs'
  BY <1>2, <1>4 DEF OrderlyTabs, TabFits
<1>6. orderly /\ OrderlyToken => OrderlyToken'
  BY <1>2, <1>4 DEF OrderlyToken
<1>7. OrderlyCalls => OrderlyCalls'
  BY <1>2, <1>3 DEF OrderlyCalls, OrderlyCall
<1>8. QED
  BY <1>2, <1>5, <1>6, <1>7 DEF OrderlyInv

LEMMA OrderlyEnds ==
    ASSUME CallTable, SessionRest, OrderlyInv, NEW c \in CallSlots,
           GiveUp(c) \/ \E ok \in BOOLEAN : LoggedOut(c, ok)
    PROVE  OrderlyInv'
<1>1. c \in Flying /\ calls[c].tab \in Tabs
  BY DEF GiveUp, LoggedOut, At, Flying, CallTable, Call
<1> DEFINE t == calls[c].tab
<1>2. stored' = Guest /\ Done(c) /\ (orderly' => orderly /\ Alone(t, c))
  BY DEF GiveUp, LoggedOut, ClearToken
<1>3. orderly' => Flying' = {}
  BY <1>2 DEF Alone, Done, Flying, CallTable
<1>4. /\ \A u \in Tabs \ {t} : shown'[u] = shown[u] /\ page'[u] = page[u]
      /\ page'[t] = "leaving" \/ (shown'[t] = Guest /\ page'[t] = "login")
  <2>1. CASE GiveUp(c)
    BY <1>1, <2>1 DEF GiveUp, AfterGiveUp, SessionRest
  <2>2. ASSUME NEW ok \in BOOLEAN, LoggedOut(c, ok)
        PROVE  /\ \A u \in Tabs \ {t} : shown'[u] = shown[u] /\ page'[u] = page[u]
               /\ page'[t] = "leaving" \/ (shown'[t] = Guest /\ page'[t] = "login")
    BY <1>1, <2>2 DEF LoggedOut, SessionRest
  <2>3. QED
    BY <2>1, <2>2
<1>5. ASSUME orderly', NEW u \in Tabs
      PROVE  TabFits(u)'
  <2>1. CASE u = t
    BY <1>4, <2>1 DEF TabFits
  <2>2. CASE u # t
    <3>1. TabFits(u) /\ shown[u] = Guest
      BY <1>2, <1>5, <2>2 DEF Alone, OrderlyInv, OrderlyTabs
    <3>2. QED
      BY <1>4, <2>2, <3>1 DEF TabFits
  <2>3. QED
    BY <2>1, <2>2
<1>6. QED
  BY <1>2, <1>3, <1>5 DEF OrderlyInv, OrderlyTabs, OrderlyToken, OrderlyCalls

LEMMA OrderlyLogins ==
    ASSUME CallTable, SessionRest, OrderlyInv, NEW c \in CallSlots,
           LoginStored(c) \/ LoginShown(c) \/ LoginFails(c)
    PROVE  OrderlyInv'
<1>1. c \in Flying /\ calls[c] \in Call /\ calls[c].tab \in Tabs /\ calls[c].kind = "login"
  BY DEF LoginStored, LoginShown, LoginFails, At, Flying, CallTable, Call
<1>2. CASE LoginStored(c)
  <2>1. /\ cookie' = stored' /\ UNCHANGED <<shown, page>>
        /\ orderly' => orderly /\ Flying = {c} /\ \A t \in Tabs : shown[t] = Guest
    BY <1>2 DEF LoginStored, SetToken
  <2>2. \A d \in Flying' : d \in Flying /\ (d = c => calls'[d].kind = "login" /\ calls'[d].tab = calls[d].tab)
    BY <1>1, <1>2 DEF LoginStored, Flying, CallTable, Call
  <2>3. ASSUME orderly', NEW t \in Tabs
        PROVE  TabFits(t)'
    BY <2>1, <2>3 DEF OrderlyInv, OrderlyTabs, TabFits
  <2>4. orderly' => OrderlyCalls'
    BY <2>1, <2>2 DEF OrderlyInv, OrderlyCalls, OrderlyCall
  <2>5. QED
    BY <2>1, <2>3, <2>4 DEF OrderlyInv, OrderlyTabs, OrderlyToken
<1>3. \A d \in Flying' : (LoginShown(c) \/ LoginFails(c)) => d \in Flying /\ calls'[d] = calls[d]
  BY <1>1 DEF LoginShown, LoginFails, Done, Flying, CallTable
<1>4. CASE LoginShown(c)
  <2> PICK t \in Tabs : t = calls[c].tab
    BY <1>1
  <2>1. UNCHANGED <<stored, cookie, page, orderly>>
        /\ shown' = [shown EXCEPT ![t] = IF CurrentUser = Guest THEN @ ELSE CurrentUser]
    BY <1>4 DEF LoginShown
  <2>2. ASSUME orderly
        PROVE  TabFits(t)'
    <3>1. TabFits(t) /\ page[t] # "leaving"
      BY <1>1, <2>2 DEF OrderlyInv, OrderlyTabs, OrderlyCalls, OrderlyCall
    <3>2. shown'[t] = shown[t] \/ (shown'[t] = stored /\ stored # Guest)
      BY <1>1, <2>1 DEF CurrentUser, SessionRest
    <3>3. UNCHANGED <<stored, page>>
      BY <2>1
    <3>4. QED
      BY <3>1, <3>2, <3>3 DEF TabFits
  <2>3. ASSUME NEW u \in Tabs, u # t, TabFits(u)
        PROVE  TabFits(u)'
    BY <2>1, <2>3 DEF TabFits, SessionRest
  <2>4. orderly /\ OrderlyTabs => OrderlyTabs'
    BY <2>2, <2>3 DEF OrderlyTabs
  <2>5. OrderlyCalls => OrderlyCalls'
    BY <1>3, <1>4, <2>1 DEF OrderlyCalls, OrderlyCall
  <2>6. QED
    BY <2>1, <2>4, <2>5 DEF OrderlyInv, OrderlyToken
<1>5. CASE LoginFails(c)
  <2>1. UNCHANGED <<stored, shown, page>> /\ (orderly' => orderly /\ UNCHANGED cookie)
    BY <1>5 DEF LoginFails
  <2>2. QED
    BY <1>3, <1>5, <2>1 DEF OrderlyInv, OrderlyTabs, OrderlyToken, OrderlyCalls, OrderlyCall, TabFits
<1>6. QED
  BY <1>2, <1>4, <1>5

\* While no login or logout overlaps with another tab or request, a tab acts as
\* the user it shows, on pages that this user may see.
THEOREM TabsHold == SessionSpec => [](SessionTypeOK /\ TabsActAsShown)
<1>1. SessionInit => OrderlyInv
  BY DEF SessionInit, OrderlyInv, OrderlyTabs, OrderlyToken, OrderlyCalls, TabFits, Flying
<1>2. CallTable /\ SessionRest /\ OrderlyInv /\ [SessionNext]_sessionVars => OrderlyInv'
  <2> SUFFICES ASSUME CallTable, SessionRest, OrderlyInv, [SessionNext]_sessionVars
               PROVE  OrderlyInv'
    OBVIOUS
  <2>1. CASE Expire
    BY <2>1 DEF Expire, OrderlyInv, OrderlyTabs, OrderlyToken, OrderlyCalls, OrderlyCall, TabFits,
                Flying
  <2>2. CASE UNCHANGED sessionVars
    BY <2>2 DEF OrderlyInv, OrderlyTabs, OrderlyToken, OrderlyCalls, OrderlyCall, TabFits,
                Flying, sessionVars
  <2>3. QED
    BY <2>1, <2>2, OrderlyPages, OrderlyBegins, OrderlyAnswers, OrderlyEnds, OrderlyLogins
       DEF SessionNext
<1>3. CallTable /\ SessionRest /\ OrderlyInv => TabsActAsShown
  <2> SUFFICES ASSUME CallTable, SessionRest, OrderlyInv, orderly
               PROVE  /\ \A t \in Tabs : shown[t] # Guest /\ page[t] # "leaving" =>
                           /\ stored = shown[t]
                           /\ page[t] = "mp" => RoleOf[shown[t]] # "citizen"
                           /\ page[t] = "admin" => RoleOf[shown[t]] = "sysadmin"
                      /\ \A c \in Flying :
                           calls[c].kind = "data" /\ Guest \notin {calls[c].as, shown[calls[c].tab]}
                             => calls[c].as = shown[calls[c].tab]
    BY DEF TabsActAsShown
  <2>1. \A c \in Flying : calls[c].tab \in Tabs
    BY DEF Flying, CallTable, Call
  <2>2. \A t \in Tabs : TabFits(t)
    BY DEF OrderlyInv, OrderlyTabs
  <2>3. \A t \in Tabs : shown[t] # Guest /\ page[t] # "leaving" =>
           /\ stored = shown[t]
           /\ page[t] = "mp" => RoleOf[shown[t]] # "citizen"
           /\ page[t] = "admin" => RoleOf[shown[t]] = "sysadmin"
    BY <2>2 DEF TabFits
  <2>4. ASSUME NEW c \in Flying, calls[c].kind = "data", calls[c].as # Guest,
               shown[calls[c].tab] # Guest
        PROVE  calls[c].as = shown[calls[c].tab]
    <3>1. page[calls[c].tab] # "leaving" /\ calls[c].as = cookie
      BY <2>4 DEF OrderlyInv, OrderlyCalls, OrderlyCall
    <3>2. stored = shown[calls[c].tab] /\ cookie = stored
      BY <2>1, <2>3, <2>4, <3>1 DEF OrderlyInv, OrderlyToken
    <3>3. QED
      BY <3>1, <3>2
  <2>5. QED
    BY <2>3, <2>4
<1>4. CallTable /\ SessionRest /\ SessionFlags => SessionTypeOK
  BY DEF CallTable, SessionRest, SessionFlags, SessionTypeOK
<1>5. QED
  BY <1>1, <1>2, <1>3, <1>4, SessionShaped, PTL DEF SessionSpec

-----------------------------------------------------------------------------
(* The copy of an issue.                                                   *)

DeskWork == row \in Work /\ copy \in Work /\ form \in Work
DeskWrites == writes \in [WriteSlots -> Write \cup {Free}]
DeskFetches == fetches \in [FetchSlots -> Fetch \cup {Free}]
DeskFlags == deskRole \in {"mp", "citizen"} /\ drawer \in BOOLEAN /\ noted \in BOOLEAN
             /\ calm \in BOOLEAN

LEMMA OtherStatus ==
    ASSUME NEW k \in Work, NEW s \in Statuses
    PROVE  [k EXCEPT !.status = s] \in Work
  BY DEF Work

LEMMA OtherHandling ==
    ASSUME NEW k \in Work, NEW h \in Handlings
    PROVE  [k EXCEPT !.handling = h] \in Work
  BY DEF Work

LEMMA SameWork ==
    ASSUME NEW k \in Work, NEW l \in Work, k.status = l.status, k.handling = l.handling
    PROVE  k = l
  BY DEF Work

LEMMA OtherWrite ==
    ASSUME NEW k \in Write
    PROVE  /\ [k EXCEPT !.done = TRUE] \in Write
           /\ [k EXCEPT !.asks = "manage", !.done = FALSE] \in Write
           /\ [k EXCEPT !.asks = "reload"] \in Write
  BY DEF Write

LEMMA OtherFetch ==
    ASSUME NEW k \in Fetch, NEW w \in Work
    PROVE  /\ [k EXCEPT !.clean = FALSE] \in Fetch /\ ~[k EXCEPT !.clean = FALSE].clean
           /\ [k EXCEPT !.got = w] \in Fetch /\ [k EXCEPT !.got = w].got = w
           /\ [k EXCEPT !.got = w].clean = k.clean
  BY DEF Fetch

\* What the handlers of the drawer do to the table of writes.
LEMMA BegunWrites ==
    ASSUME DeskWrites, NEW w \in WriteSlots, NEW work \in Work,
           NEW what \in {"status", "manage", "comment", "verdict"}, BeginWrite(w, what, work)
    PROVE  /\ DeskWrites'
           /\ (DeskFetches => DeskFetches')
           /\ Writing' = Writing \cup {w}
           /\ \A v \in Writing' : \/ v \in Writing /\ writes'[v] = writes[v]
                                 \/ /\ v = w /\ writes'[v].asks = what
                                    /\ writes'[v].work = work /\ ~writes'[v].done
<1> DEFINE new == [asks |-> what, work |-> work, done |-> FALSE]
<1>1. new \in Write /\ new # Free
  <2>1. new \in Write
    BY DEF Write
  <2>2. QED
    BY <2>1, FreeAssumption
<1>2. writes' = [writes EXCEPT ![w] = new]
  BY DEF BeginWrite
<1>3. DeskFetches => DeskFetches'
  BY OtherFetch DEF BeginWrite, DeskFetches, Fetching
<1>4. new.asks = what /\ new.work = work /\ ~new.done
  OBVIOUS
<1> HIDE DEF new
<1>5. DeskWrites'
  BY <1>1, <1>2 DEF DeskWrites
<1>6. Writing' = Writing \cup {w}
  BY <1>1, <1>2 DEF Writing, DeskWrites
<1>7. \A v \in Writing' : \/ v \in Writing /\ writes'[v] = writes[v]
                       \/ /\ v = w /\ writes'[v].asks = what
                          /\ writes'[v].work = work /\ ~writes'[v].done
  BY <1>1, <1>2, <1>4 DEF Writing, DeskWrites
<1>8. QED
  BY <1>3, <1>5, <1>6, <1>7

LEMMA DeskWorkStep == ASSUME DeskWork, DeskWrites, DeskFetches, DeskNext PROVE DeskWork'
<1> USE DEF DeskWork, SetCopy
<1>1. CASE OpenDrawer \/ CloseDrawer \/ TouchCopy \/ WriteNote \/ OthersWrite
  BY <1>1 DEF OpenDrawer, CloseDrawer, TouchCopy, WriteNote, OthersWrite
<1>2. ASSUME NEW s \in Statuses, ChooseStatus(s)
      PROVE  DeskWork'
  BY <1>2, OtherStatus DEF ChooseStatus
<1>3. ASSUME NEW h \in Handlings, ChooseHandling(h)
      PROVE  DeskWork'
  BY <1>3, OtherHandling DEF ChooseHandling
<1>4. form.status \in Statuses /\ form.handling \in Handlings
  BY DEF Work
<1>5. ASSUME NEW w \in WriteSlots, SaveStatus(w) \/ SaveHandling(w) \/ PostComment(w)
      PROVE  DeskWork'
  BY <1>4, <1>5, OtherStatus, OtherHandling DEF SaveStatus, SaveHandling, PostComment
<1>6. ASSUME NEW w \in WriteSlots, NEW verdict \in Verdicts, Verify(w, verdict)
      PROVE  DeskWork'
  BY <1>6, OtherStatus, DeskAssumption DEF Verify
<1>7. ASSUME NEW w \in WriteSlots, w \in Writing
      PROVE  writes[w].work.status \in Statuses /\ writes[w].work.handling \in Handlings
  BY <1>7 DEF Writing, DeskWrites, Write, Work
<1>8. ASSUME NEW w \in WriteSlots, Perform(w)
      PROVE  DeskWork'
  BY <1>7, <1>8, OtherStatus, OtherHandling DEF Perform, Carried
<1>9. ASSUME NEW w \in WriteSlots, NEW ok \in BOOLEAN, StatusAnswered(w, ok) \/ ManageAnswered(w, ok)
      PROVE  DeskWork'
  BY <1>7, <1>9, OtherHandling DEF StatusAnswered, ManageAnswered, Answered
<1>10. ASSUME NEW w \in WriteSlots, NEW ok \in BOOLEAN,
              CommentAnswered(w, ok) \/ CommentsReloaded(w, ok) \/ VerdictAnswered(w, ok)
       PROVE  DeskWork'
  BY <1>10 DEF CommentAnswered, CommentsReloaded, VerdictAnswered
<1>11. ASSUME NEW f \in FetchSlots, Refresh(f) \/ ReadList(f) \/ ListAnswered(f) \/ ListFails(f)
       PROVE  DeskWork'
  <2>1. f \in Fetching /\ fetches[f].got # Free => fetches[f].got \in Work
    BY DEF DeskFetches, Fetch, Fetching
  <2>2. QED
    BY <1>11, <2>1 DEF Refresh, ReadList, ListAnswered, ListFails, Replaced
<1>12. QED
  BY <1>1, <1>2, <1>3, <1>5, <1>6, <1>8, <1>9, <1>10, <1>11 DEF DeskNext

LEMMA DeskWritesStep == ASSUME DeskWork, DeskWrites, DeskNext PROVE DeskWrites'
<1>1. CASE OpenDrawer \/ CloseDrawer \/ TouchCopy \/ WriteNote \/ OthersWrite
  BY <1>1 DEF OpenDrawer, CloseDrawer, TouchCopy, WriteNote, OthersWrite, DeskWrites
<1>2. CASE (\E s \in Statuses : ChooseStatus(s)) \/ \E h \in Handlings : ChooseHandling(h)
  BY <1>2 DEF ChooseStatus, ChooseHandling, DeskWrites
<1>3. ASSUME NEW w \in WriteSlots, SaveStatus(w) \/ SaveHandling(w) \/ PostComment(w)
      PROVE  DeskWrites'
  BY <1>3, BegunWrites DEF SaveStatus, SaveHandling, PostComment, DeskWork
<1>4. ASSUME NEW w \in WriteSlots, NEW verdict \in Verdicts, Verify(w, verdict)
      PROVE  DeskWrites'
  <2>1. [copy EXCEPT !.status = verdict] \in Work
    BY OtherStatus, DeskAssumption DEF DeskWork
  <2>2. QED
    BY <1>4, <2>1, BegunWrites DEF Verify
<1>5. ASSUME NEW w \in WriteSlots, NEW new \in Write \cup {Free}, writes' = [writes EXCEPT ![w] = new]
      PROVE  DeskWrites'
  BY <1>5 DEF DeskWrites
<1>6. \A w \in Writing : writes[w] \in Write
  BY DEF Writing, DeskWrites
<1>7. ASSUME NEW w \in WriteSlots, Perform(w)
      PROVE  DeskWrites'
  <2>1. w \in Writing /\ writes' = [writes EXCEPT ![w] = [writes[w] EXCEPT !.done = TRUE]]
    BY <1>7 DEF Perform
  <2>2. QED
    BY <1>5, <1>6, <2>1, OtherWrite
<1>8. ASSUME NEW w \in WriteSlots, NEW ok \in BOOLEAN,
             \/ StatusAnswered(w, ok) \/ ManageAnswered(w, ok) \/ CommentAnswered(w, ok)
             \/ CommentsReloaded(w, ok) \/ VerdictAnswered(w, ok)
      PROVE  DeskWrites'
  <2>1. w \in Writing
    BY <1>8 DEF StatusAnswered, ManageAnswered, CommentAnswered, CommentsReloaded, VerdictAnswered,
                Answered
  <2>2. \/ writes' = [writes EXCEPT ![w] = Free]
        \/ writes' = [writes EXCEPT ![w] = [writes[w] EXCEPT !.asks = "manage", !.done = FALSE]]
        \/ writes' = [writes EXCEPT ![w] = [writes[w] EXCEPT !.asks = "reload"]]
    BY <1>8 DEF StatusAnswered, ManageAnswered, CommentAnswered, CommentsReloaded, VerdictAnswered,
                EndWrite
  <2>3. QED
    BY <1>5, <1>6, <2>1, <2>2, OtherWrite
<1>9. CASE \E f \in FetchSlots : Refresh(f) \/ ReadList(f) \/ ListAnswered(f) \/ ListFails(f)
  BY <1>9 DEF Refresh, ReadList, ListAnswered, ListFails, DeskWrites
<1>10. QED
  BY <1>1, <1>2, <1>3, <1>4, <1>7, <1>8, <1>9 DEF DeskNext

LEMMA DeskFetchesStep == ASSUME DeskWork, DeskWrites, DeskFetches, DeskNext PROVE DeskFetches'
<1>1. CASE OpenDrawer \/ CloseDrawer \/ TouchCopy \/ WriteNote
  BY <1>1 DEF OpenDrawer, CloseDrawer, TouchCopy, WriteNote, DeskFetches
<1>2. CASE OthersWrite
  BY <1>2, OtherFetch DEF OthersWrite, DeskFetches, Fetching
<1>3. CASE (\E s \in Statuses : ChooseStatus(s)) \/ \E h \in Handlings : ChooseHandling(h)
  BY <1>3 DEF ChooseStatus, ChooseHandling, DeskFetches
<1>4. ASSUME NEW w \in WriteSlots, SaveStatus(w) \/ SaveHandling(w) \/ PostComment(w)
      PROVE  DeskFetches'
  BY <1>4, BegunWrites DEF SaveStatus, SaveHandling, PostComment, DeskWork
<1>5. ASSUME NEW w \in WriteSlots, NEW verdict \in Verdicts, Verify(w, verdict)
      PROVE  DeskFetches'
  <2>1. [copy EXCEPT !.status = verdict] \in Work
    BY OtherStatus, DeskAssumption DEF DeskWork
  <2>2. QED
    BY <1>5, <2>1, BegunWrites DEF Verify
<1>6. ASSUME NEW w \in WriteSlots, NEW ok \in BOOLEAN,
             \/ Perform(w) \/ StatusAnswered(w, ok) \/ ManageAnswered(w, ok)
             \/ CommentAnswered(w, ok) \/ CommentsReloaded(w, ok) \/ VerdictAnswered(w, ok)
      PROVE  DeskFetches'
  BY <1>6 DEF Perform, StatusAnswered, ManageAnswered, CommentAnswered, CommentsReloaded,
              VerdictAnswered, DeskFetches
<1>7. ASSUME NEW f \in FetchSlots, Refresh(f)
      PROVE  DeskFetches'
  <2>1. [got |-> Free, clean |-> Writing = {}] \in Fetch
    BY DEF Fetch
  <2>2. QED
    BY <1>7, <2>1 DEF Refresh, DeskFetches
<1>8. ASSUME NEW f \in FetchSlots, ReadList(f)
      PROVE  DeskFetches'
  <2>1. fetches[f] \in Fetch
    BY <1>8 DEF ReadList, Fetching, DeskFetches
  <2>2. [fetches[f] EXCEPT !.got = row] \in Fetch
    BY <2>1, OtherFetch DEF DeskWork
  <2>3. QED
    BY <1>8, <2>2 DEF ReadList, DeskFetches
<1>9. ASSUME NEW f \in FetchSlots, ListAnswered(f) \/ ListFails(f)
      PROVE  DeskFetches'
  BY <1>9 DEF ListAnswered, ListFails, DeskFetches
<1>10. QED
  BY <1>1, <1>2, <1>3, <1>4, <1>5, <1>6, <1>7, <1>8, <1>9 DEF DeskNext

LEMMA DeskFlagsStep == ASSUME DeskFlags, DeskFetches, DeskNext PROVE DeskFlags'
<1>1. CASE OpenDrawer \/ CloseDrawer \/ TouchCopy \/ WriteNote \/ OthersWrite
  BY <1>1 DEF OpenDrawer, CloseDrawer, TouchCopy, WriteNote, OthersWrite, DeskFlags
<1>2. CASE (\E s \in Statuses : ChooseStatus(s)) \/ \E h \in Handlings : ChooseHandling(h)
  BY <1>2 DEF ChooseStatus, ChooseHandling, DeskFlags
<1>3. ASSUME NEW w \in WriteSlots,
             \/ SaveStatus(w) \/ SaveHandling(w) \/ PostComment(w) \/ Perform(w)
             \/ \E verdict \in Verdicts : Verify(w, verdict)
      PROVE  DeskFlags'
  BY <1>3 DEF SaveStatus, SaveHandling, PostComment, Perform, Verify, BeginWrite, DeskFlags
<1>4. ASSUME NEW w \in WriteSlots, NEW ok \in BOOLEAN,
             \/ StatusAnswered(w, ok) \/ ManageAnswered(w, ok) \/ CommentAnswered(w, ok)
             \/ CommentsReloaded(w, ok) \/ VerdictAnswered(w, ok)
      PROVE  DeskFlags'
  BY <1>4 DEF StatusAnswered, ManageAnswered, CommentAnswered, CommentsReloaded, VerdictAnswered,
              Answered, DeskFlags
<1>5. ASSUME NEW f \in FetchSlots, Refresh(f) \/ ReadList(f) \/ ListFails(f)
      PROVE  DeskFlags'
  BY <1>5 DEF Refresh, ReadList, ListFails, DeskFlags
<1>6. ASSUME NEW f \in FetchSlots, ListAnswered(f)
      PROVE  DeskFlags'
  <2>1. fetches[f].clean \in BOOLEAN
    BY <1>6 DEF ListAnswered, DeskFetches, Fetching, Fetch
  <2>2. QED
    BY <1>6, <2>1 DEF ListAnswered, DeskFlags
<1>7. QED
  BY <1>1, <1>2, <1>3, <1>4, <1>5, <1>6 DEF DeskNext

LEMMA DeskShaped == DeskSpec => [](DeskWork /\ DeskWrites /\ DeskFetches /\ DeskFlags)
<1>1. DeskInit => DeskWork /\ DeskWrites /\ DeskFetches /\ DeskFlags
  BY DeskAssumption DEF DeskInit, DeskWork, DeskWrites, DeskFetches, DeskFlags, Work
<1>2. DeskWork /\ DeskWrites /\ DeskFetches /\ DeskFlags /\ [DeskNext]_deskVars
      => DeskWork' /\ DeskWrites' /\ DeskFetches' /\ DeskFlags'
  <2>1. ASSUME DeskWork, DeskWrites, DeskFetches, DeskFlags, UNCHANGED deskVars
        PROVE  DeskWork' /\ DeskWrites' /\ DeskFetches' /\ DeskFlags'
    BY <2>1 DEF DeskWork, DeskWrites, DeskFetches, DeskFlags, deskVars
  <2>2. QED
    BY <2>1, DeskWorkStep, DeskWritesStep, DeskFetchesStep, DeskFlagsStep
<1>3. QED
  BY <1>1, <1>2, PTL DEF DeskSpec

-----------------------------------------------------------------------------
\* A refresh that overlapped with no write brings what the API has.
CleanFetch(f) ==
    fetches[f].clean => /\ Writing = {}
                        /\ fetches[f].got # Free => fetches[f].got = row
FetchesFit == \A f \in Fetching : CleanFetch(f)

\* How the copy, the row and the work of handler w relate while it is the only
\* one and nothing failed.
WriteFits(w) ==
    /\ writes[w].asks \in {"status", "verdict"} =>
         /\ copy.status = writes[w].work.status /\ copy.handling = row.handling
         /\ writes[w].done => row.status = writes[w].work.status
    /\ writes[w].asks = "manage" =>
         /\ copy = writes[w].work /\ row.status = writes[w].work.status
         /\ writes[w].done => row = writes[w].work
    /\ writes[w].asks \in {"comment", "reload"} => copy = row

CalmFits ==
    /\ Writing = {} \/ Fetching = {}
    /\ Writing = {} => copy = row
    /\ \A w \in Writing : WriteFits(w) /\ Writing = {w}

CalmInv == FetchesFit /\ (calm => CalmFits)

\* A handler begins.
LEMMA CalmBegins ==
    ASSUME DeskWork, DeskWrites, DeskFetches, CalmInv, NEW w \in WriteSlots, NEW work \in Work,
           NEW what \in {"status", "manage", "comment", "verdict"}, BeginWrite(w, what, work),
           copy' \in Work, row' = row,
           what \in {"status", "verdict"} =>
             copy'.status = work.status /\ copy'.handling = copy.handling,
           what = "manage" => copy' = work /\ copy.status = work.status,
           what = "comment" => copy' = copy
    PROVE  CalmInv'
<1>1. ASSUME NEW f \in Fetching'
      PROVE  ~fetches'[f].clean
  BY <1>1, OtherFetch DEF BeginWrite, Fetching, DeskFetches
<1>2. FetchesFit'
  BY <1>1 DEF FetchesFit, CleanFetch
<1>3. ASSUME calm'
      PROVE  Writing = {} /\ Fetching = {} /\ copy = row /\ Fetching' = {}
  BY <1>3 DEF BeginWrite, CalmInv, CalmFits, Fetching
<1>4. ASSUME calm'
      PROVE  Writing' = {w} /\ writes'[w].asks = what /\ writes'[w].work = work /\ ~writes'[w].done
  BY <1>3, <1>4, BegunWrites
<1>5. ASSUME calm'
      PROVE  WriteFits(w)'
  BY <1>3, <1>4, <1>5 DEF WriteFits
<1>6. QED
  BY <1>2, <1>3, <1>4, <1>5 DEF CalmInv, CalmFits

\* The API does what a handler asks for.
LEMMA CalmPerforms ==
    ASSUME DeskWork, DeskWrites, DeskFetches, CalmInv, NEW w \in WriteSlots, Perform(w)
    PROVE  CalmInv'
<1>1. w \in Writing /\ writes[w] \in Write
  BY DEF Perform, Writing, DeskWrites
<1>2. /\ writes' = [writes EXCEPT ![w] = [writes[w] EXCEPT !.done = TRUE]]
      /\ UNCHANGED <<copy, fetches, calm>>
  BY DEF Perform
<1>3. [writes[w] EXCEPT !.done = TRUE] \in Write
  BY <1>1, OtherWrite
<1>4. Writing' = Writing
  BY <1>1, <1>2, <1>3, FreeAssumption DEF Writing, DeskWrites
<1>5. writes'[w].asks = writes[w].asks /\ writes'[w].work = writes[w].work
  BY <1>1, <1>2 DEF DeskWrites, Write
<1>6. FetchesFit'
  BY <1>1, <1>2, <1>4 DEF CalmInv, FetchesFit, CleanFetch, Fetching
<1>7. ASSUME calm
      PROVE  WriteFits(w)'
  <2>1. WriteFits(w)
    BY <1>1, <1>7 DEF CalmInv, CalmFits
  <2>2. CASE writes[w].asks \in {"status", "verdict"}
    <3>1. row' = [row EXCEPT !.status = writes[w].work.status]
      BY <2>2 DEF Perform
    <3>2. row'.status = writes[w].work.status /\ row'.handling = row.handling
      BY <3>1 DEF DeskWork, Work
    <3>3. QED
      BY <1>2, <1>5, <2>1, <2>2, <3>2 DEF WriteFits
  <2>3. CASE writes[w].asks = "manage"
    <3>1. row' = [row EXCEPT !.handling = writes[w].work.handling]
      BY <2>3 DEF Perform, Carried
    <3>2. row'.handling = writes[w].work.handling /\ row'.status = row.status /\ row' \in Work
      BY <1>1, <3>1 DEF DeskWork, Work, Write
    <3>3. row' = writes[w].work
      BY <1>1, <2>1, <2>3, <3>2, SameWork DEF WriteFits, Write
    <3>4. QED
      BY <1>2, <1>5, <2>1, <2>3, <3>3 DEF WriteFits
  <2>4. CASE writes[w].asks \in {"comment", "reload"}
    <3>1. row' = row
      BY <2>4 DEF Perform
    <3>2. QED
      BY <1>2, <1>5, <2>1, <2>4, <3>1 DEF WriteFits
  <2>5. QED
    BY <1>1, <2>2, <2>3, <2>4 DEF Write
<1>8. QED
  BY <1>1, <1>2, <1>4, <1>6, <1>7 DEF CalmInv, CalmFits, Fetching

\* A handler has its answer and ends, or goes on with its next request.
LEMMA CalmAnswers ==
    ASSUME DeskWork, DeskWrites, DeskFetches, CalmInv, NEW w \in WriteSlots, NEW ok \in BOOLEAN,
           \/ StatusAnswered(w, ok) \/ ManageAnswered(w, ok) \/ CommentAnswered(w, ok)
           \/ CommentsReloaded(w, ok) \/ VerdictAnswered(w, ok)
    PROVE  CalmInv'
<1>1. w \in Writing /\ writes[w] \in Write /\ UNCHANGED <<row, fetches>>
  BY DEF StatusAnswered, ManageAnswered, CommentAnswered, CommentsReloaded, VerdictAnswered,
         Answered, Writing, DeskWrites
<1>2. ASSUME NEW f \in Fetching
      PROVE  ~fetches[f].clean
  BY <1>1, <1>2 DEF CalmInv, FetchesFit, CleanFetch
<1>3. FetchesFit'
  BY <1>1, <1>2 DEF FetchesFit, CleanFetch, Fetching
<1>4. SUFFICES ASSUME calm'
               PROVE  CalmFits'
  BY <1>3 DEF CalmInv
<1>5. calm /\ ok
  BY <1>4 DEF StatusAnswered, ManageAnswered, CommentAnswered, CommentsReloaded, VerdictAnswered,
              Answered
<1>6. WriteFits(w) /\ Writing = {w} /\ Fetching' = {}
  BY <1>1, <1>5 DEF CalmInv, CalmFits, Fetching
<1>7. ASSUME writes' = [writes EXCEPT ![w] = Free], copy' = row
      PROVE  CalmFits'
  <2>1. Writing' = {}
    BY <1>6, <1>7 DEF Writing, DeskWrites
  <2>2. QED
    BY <1>1, <1>6, <1>7, <2>1 DEF CalmFits
<1>8. CASE StatusAnswered(w, ok)
  <2>1. /\ copy' = [copy EXCEPT !.handling = writes[w].work.handling]
        /\ writes' = [writes EXCEPT ![w] = [writes[w] EXCEPT !.asks = "manage", !.done = FALSE]]
        /\ writes[w].asks = "status" /\ writes[w].done
    BY <1>5, <1>8 DEF StatusAnswered, Answered, SetCopy
  <2>2. copy.status = writes[w].work.status /\ row.status = writes[w].work.status
    BY <1>6, <2>1 DEF WriteFits
  <2>3. copy' \in Work /\ copy'.status = copy.status /\ copy'.handling = writes[w].work.handling
        /\ writes[w].work \in Work
    BY <1>1, <2>1 DEF DeskWork, Work, Write
  <2>4. copy' = writes[w].work
    BY <2>2, <2>3, SameWork
  <2>5. /\ writes'[w].asks = "manage" /\ writes'[w].work = writes[w].work /\ ~writes'[w].done
        /\ writes'[w] \in Write
    BY <1>1, <2>1 DEF DeskWrites, Write
  <2>6. Writing' = {w}
    BY <1>6, <2>1, <2>5, FreeAssumption DEF Writing, DeskWrites
  <2>7. WriteFits(w)'
    BY <1>1, <2>2, <2>4, <2>5 DEF WriteFits
  <2>8. QED
    BY <1>6, <2>6, <2>7 DEF CalmFits
<1>9. CASE ManageAnswered(w, ok)
  <2>1. /\ copy' = [copy EXCEPT !.handling = writes[w].work.handling]
        /\ writes' = [writes EXCEPT ![w] = Free]
        /\ writes[w].asks = "manage" /\ writes[w].done
    BY <1>5, <1>9 DEF ManageAnswered, Answered, SetCopy, EndWrite
  <2>2. copy = writes[w].work /\ row = writes[w].work
    BY <1>6, <2>1 DEF WriteFits
  <2>3. copy' = copy
    BY <2>1, <2>2 DEF DeskWork, Work
  <2>4. QED
    BY <1>7, <2>1, <2>2, <2>3
<1>10. CASE CommentAnswered(w, ok)
  <2>1. /\ writes' = [writes EXCEPT ![w] = [writes[w] EXCEPT !.asks = "reload"]]
        /\ writes[w].asks = "comment" /\ copy' = copy
    BY <1>5, <1>10 DEF CommentAnswered, Answered
  <2>2. copy = row
    BY <1>6, <2>1 DEF WriteFits
  <2>3. writes'[w].asks = "reload" /\ writes'[w] \in Write
    BY <1>1, <2>1 DEF DeskWrites, Write
  <2>4. Writing' = {w}
    BY <1>6, <2>1, <2>3, FreeAssumption DEF Writing, DeskWrites
  <2>5. WriteFits(w)'
    BY <1>1, <2>1, <2>2, <2>3 DEF WriteFits
  <2>6. QED
    BY <1>6, <2>4, <2>5 DEF CalmFits
<1>11. CASE CommentsReloaded(w, ok)
  <2>1. writes' = [writes EXCEPT ![w] = Free] /\ writes[w].asks = "reload" /\ copy' = copy
    BY <1>5, <1>11 DEF CommentsReloaded, Answered, EndWrite, SetCopy
  <2>2. QED
    BY <1>6, <1>7, <2>1 DEF WriteFits
<1>12. CASE VerdictAnswered(w, ok)
  <2>1. /\ writes' = [writes EXCEPT ![w] = Free] /\ copy' = copy
        /\ writes[w].asks = "verdict" /\ writes[w].done
    BY <1>5, <1>12 DEF VerdictAnswered, Answered, EndWrite
  <2>2. copy.status = row.status /\ copy.handling = row.handling
    BY <1>6, <2>1 DEF WriteFits
  <2>3. copy = row
    BY <2>2, SameWork DEF DeskWork
  <2>4. QED
    BY <1>7, <2>1, <2>3
<1>13. QED
  BY <1>8, <1>9, <1>10, <1>11, <1>12

\* A refresh begins, reads, is shown, or fails.
LEMMA CalmRefreshes ==
    ASSUME DeskWork, DeskFetches, CalmInv, NEW f \in FetchSlots,
           Refresh(f) \/ ReadList(f) \/ ListAnswered(f) \/ ListFails(f)
    PROVE  CalmInv'
<1>1. UNCHANGED <<row, writes>> /\ Writing' = Writing
  BY DEF Refresh, ReadList, ListAnswered, ListFails, Writing
<1>2. CASE Refresh(f)
  <2>1. /\ fetches' = [fetches EXCEPT ![f] = [got |-> Free, clean |-> Writing = {}]]
        /\ copy' = copy /\ (calm' => calm /\ Writing = {})
    BY <1>2 DEF Refresh
  <2>2. ASSUME NEW g \in Fetching'
        PROVE  CleanFetch(g)'
    <3>1. CASE g = f
      BY <1>1, <2>1, <3>1 DEF CleanFetch, DeskFetches
    <3>2. CASE g # f
      BY <1>1, <2>1, <2>2, <3>2 DEF CleanFetch, DeskFetches, Fetching, CalmInv, FetchesFit
    <3>3. QED
      BY <3>1, <3>2
  <2>3. QED
    BY <1>1, <2>1, <2>2 DEF CalmInv, FetchesFit, CalmFits
<1>3. CASE ReadList(f)
  <2>1. /\ fetches' = [fetches EXCEPT ![f] = [fetches[f] EXCEPT !.got = row]]
        /\ UNCHANGED <<copy, calm>> /\ f \in Fetching /\ fetches[f] \in Fetch
    BY <1>3 DEF ReadList, DeskFetches, Fetching
  <2>2. fetches'[f].got = row /\ fetches'[f].clean = fetches[f].clean
    BY <2>1 DEF DeskFetches, Fetch
  <2>3. ASSUME NEW g \in Fetching'
        PROVE  CleanFetch(g)' /\ g \in Fetching
    <3>1. CASE g = f
      BY <1>1, <2>1, <2>2, <3>1 DEF CleanFetch, CalmInv, FetchesFit
    <3>2. CASE g # f
      BY <1>1, <2>1, <2>3, <3>2 DEF CleanFetch, DeskFetches, Fetching, CalmInv, FetchesFit
    <3>3. QED
      BY <3>1, <3>2
  <2>4. CalmFits => CalmFits'
    BY <1>1, <2>1, <2>3 DEF CalmFits, WriteFits
  <2>5. QED
    BY <2>1, <2>3, <2>4 DEF CalmInv, FetchesFit
<1>4. ASSUME ListAnswered(f) \/ ListFails(f), NEW g \in Fetching'
      PROVE  CleanFetch(g)' /\ g \in Fetching
  BY <1>1, <1>4 DEF ListAnswered, ListFails, CleanFetch, DeskFetches, Fetching, CalmInv, FetchesFit
<1>5. CASE ListAnswered(f)
  <2>1. calm' => Writing = {} /\ copy' = row
    BY <1>5 DEF ListAnswered, SetCopy, Replaced, CalmInv, FetchesFit, CleanFetch
  <2>2. QED
    BY <1>1, <1>4, <1>5, <2>1 DEF CalmInv, FetchesFit, CalmFits
<1>6. CASE ListFails(f)
  <2>1. UNCHANGED <<copy, calm>>
    BY <1>6 DEF ListFails
  <2>2. CalmFits => CalmFits'
    BY <1>1, <1>4, <1>6, <2>1 DEF CalmFits, WriteFits
  <2>3. QED
    BY <1>4, <1>6, <2>1, <2>2 DEF CalmInv, FetchesFit
<1>7. QED
  BY <1>2, <1>3, <1>5, <1>6

\* While nobody else writes, nothing fails and refreshes and writes do not
\* overlap, the copy is what the API has, and a save stores the form as it was.
THEOREM CalmDeskHolds == DeskSpec => [](DeskTypeOK /\ CalmDeskIsTrue)
<1>1. DeskInit => CalmInv
  BY DEF DeskInit, CalmInv, FetchesFit, CalmFits, Fetching, Writing
<1>2. DeskWork /\ DeskWrites /\ DeskFetches /\ CalmInv /\ [DeskNext]_deskVars => CalmInv'
  <2> SUFFICES ASSUME DeskWork, DeskWrites, DeskFetches, CalmInv, [DeskNext]_deskVars
               PROVE  CalmInv'
    OBVIOUS
  <2>1. ASSUME UNCHANGED <<row, copy, writes, fetches, calm>>
        PROVE  CalmInv'
    BY <2>1 DEF CalmInv, FetchesFit, CleanFetch, CalmFits, WriteFits, Fetching, Writing
  <2>2. CASE OpenDrawer \/ CloseDrawer \/ TouchCopy \/ WriteNote
    BY <2>1, <2>2 DEF OpenDrawer, CloseDrawer, TouchCopy, WriteNote, SetCopy
  <2>3. CASE (\E s \in Statuses : ChooseStatus(s)) \/ \E h \in Handlings : ChooseHandling(h)
    BY <2>1, <2>3 DEF ChooseStatus, ChooseHandling
  <2>4. CASE OthersWrite
    <3>1. \A f \in Fetching' : ~fetches'[f].clean
      BY <2>4, OtherFetch DEF OthersWrite, DeskFetches, Fetching
    <3>2. QED
      BY <2>4, <3>1 DEF OthersWrite, CalmInv, FetchesFit, CleanFetch
  <2>5. ASSUME NEW w \in WriteSlots, SaveStatus(w)
        PROVE  CalmInv'
    <3>1. copy' = [copy EXCEPT !.status = form.status] /\ row' = row /\ BeginWrite(w, "status", form)
      BY <2>5 DEF SaveStatus, SetCopy
    <3>2. copy' \in Work /\ copy'.status = form.status /\ copy'.handling = copy.handling
      BY <3>1 DEF DeskWork, Work
    <3>3. QED
      BY <3>1, <3>2, CalmBegins DEF DeskWork
  <2>6. ASSUME NEW w \in WriteSlots, SaveHandling(w)
        PROVE  CalmInv'
    <3>1. /\ copy' = [copy EXCEPT !.handling = form.handling] /\ copy.status = form.status
          /\ row' = row /\ BeginWrite(w, "manage", form)
      BY <2>6 DEF SaveHandling, SetCopy
    <3>2. copy' \in Work /\ copy' = form
      BY <3>1 DEF DeskWork, Work
    <3>3. QED
      BY <3>1, <3>2, CalmBegins DEF DeskWork
  <2>7. ASSUME NEW w \in WriteSlots, PostComment(w)
        PROVE  CalmInv'
    <3>1. copy' = copy /\ row' = row /\ BeginWrite(w, "comment", copy)
      BY <2>7 DEF PostComment, SetCopy
    <3>2. QED
      BY <3>1, CalmBegins DEF DeskWork
  <2>8. ASSUME NEW w \in WriteSlots, NEW verdict \in Verdicts, Verify(w, verdict)
        PROVE  CalmInv'
    <3>1. copy' = [copy EXCEPT !.status = verdict] /\ row' = row /\ BeginWrite(w, "verdict", copy')
      BY <2>8 DEF Verify, SetCopy
    <3>2. copy' \in Work /\ copy'.handling = copy.handling
      BY <3>1, DeskAssumption DEF DeskWork, Work
    <3>3. QED
      BY <3>1, <3>2, CalmBegins DEF DeskWork
  <2>9. CASE UNCHANGED deskVars
    BY <2>1, <2>9 DEF deskVars
  <2>10. QED
    BY <2>2, <2>3, <2>4, <2>5, <2>6, <2>7, <2>8, <2>9, CalmPerforms, CalmAnswers, CalmRefreshes
       DEF DeskNext
<1>3. CalmInv => CalmDeskIsTrue
  BY DEF CalmInv, CalmFits, WriteFits, CalmDeskIsTrue
<1>4. DeskWork /\ DeskWrites /\ DeskFetches /\ DeskFlags => DeskTypeOK
  BY DEF DeskWork, DeskWrites, DeskFetches, DeskFlags, DeskTypeOK
<1>5. QED
  BY <1>1, <1>2, <1>3, <1>4, DeskShaped, PTL DEF DeskSpec

-----------------------------------------------------------------------------
(* The intelligence desk.                                                  *)

\* A finite set that a comparison orders strictly has an element that comes
\* first: the one with the fewest before it.
LEMMA SomeFirst ==
    ASSUME NEW S, IsFiniteSet(S), S # {}, NEW R,
           \A s \in S : <<s, s>> \notin R,
           \A s, t, u \in S : <<s, t>> \in R /\ <<t, u>> \in R => <<s, u>> \in R
    PROVE  \E s \in S : \A t \in S : <<t, s>> \notin R
<1> DEFINE Before(s) == {t \in S : <<t, s>> \in R}
           T == {Cardinality(Before(s)) : s \in S}
<1>1. \A s \in S : IsFiniteSet(Before(s)) /\ Cardinality(Before(s)) \in Nat
  BY FS_Subset, FS_CardinalityType
<1> HIDE DEF Before
<1>2. T \subseteq Nat /\ T # {}
  <2>1. PICK s \in S : TRUE
    OBVIOUS
  <2>2. Cardinality(Before(s)) \in T
    OBVIOUS
  <2>3. QED
    BY <1>1, <2>2
<1>3. PICK m \in T : \A n \in T : ~(n < m)
  <2> DEFINE Less == OpToRel(<, Nat)
  <2>1. IsWellFoundedOn(Less, Nat)
    BY NatLessThanWellFounded
  <2>2. \A m, n \in Nat : <<n, m>> \in Less <=> n < m
    BY DEF OpToRel
  <2> HIDE DEF Less, T
  <2>3. \E m \in T : \A n \in T : ~(<<n, m>> \in Less)
    BY <1>2, <2>1, WFMin
  <2>4. QED
    BY <1>2, <2>2, <2>3
<1>4. PICK s \in S : m = Cardinality(Before(s))
  OBVIOUS
<1>5. ASSUME NEW t \in S, <<t, s>> \in R
      PROVE  FALSE
  <2>1. Before(t) \in SUBSET Before(s) /\ t \in Before(s) /\ t \notin Before(t)
    BY <1>5 DEF Before
  <2>2. Cardinality(Before(t)) <= Cardinality(Before(s))
        /\ Cardinality(Before(t)) # Cardinality(Before(s))
    BY <1>1, <2>1, FS_Subset
  <2>3. Cardinality(Before(t)) < m
    BY <1>1, <1>4, <2>2
  <2>4. Cardinality(Before(t)) \in T
    OBVIOUS
  <2>5. QED
    BY <1>3, <2>3, <2>4
<1>6. QED
  BY <1>5 DEF Before

\* Sets of issues are finite, and what the cards compare are numbers.
LEMMA CasesFinite ==
    ASSUME NEW S, S \subseteq Cases
    PROVE  IsFiniteSet(S) /\ Cardinality(S) \in Nat
<1>1. IsFiniteSet(S)
  BY InsightAssumption, FS_Subset
<1>2. QED
  BY <1>1, FS_CardinalityType

LEMMA ZoneNumbers ==
    ASSUME NEW z
    PROVE  Pressure(z) \in Nat /\ Cardinality(Unresolved(InZone(z))) \in Nat
<1>1. Unresolved(InZone(z)) \subseteq Cases /\ HighOf(InZone(z)) \subseteq Cases
  BY DEF Unresolved, HighOf, InZone, InScope
<1>2. Cardinality(Unresolved(InZone(z))) \in Nat /\ Cardinality(HighOf(InZone(z))) \in Nat
  BY <1>1, CasesFinite
<1>3. QED
  BY <1>2 DEF Pressure

LEMMA SectorNumbers ==
    ASSUME NEW s
    PROVE  CurrentCount(s) \in Nat /\ PctChange(s) \in Int
<1>1. Recent(InSector(s)) \subseteq Cases /\ Prior(InSector(s)) \subseteq Cases
  BY DEF Recent, Prior, InSector, InScope
<1>2. CurrentCount(s) \in Nat /\ PriorCount(s) \in Nat
  BY <1>1, CasesFinite DEF CurrentCount, PriorCount
<1>3. \A a \in Int, b \in Nat \ {0} : a \div b \in Int
  OBVIOUS
<1>4. (CurrentCount(s) - PriorCount(s)) * 100 \in Int
  BY <1>2
<1>5. PriorCount(s) # 0 => ((CurrentCount(s) - PriorCount(s)) * 100) \div PriorCount(s) \in Int
  BY <1>2, <1>3, <1>4
<1>6. QED
  BY <1>2, <1>5 DEF PctChange

LEMMA PairNumbers ==
    ASSUME NEW p
    PROVE  Cardinality(CasesOf(p)) \in Nat
<1>1. CasesOf(p) \subseteq Cases
  BY DEF CasesOf, InZone, InSector, InScope
<1>2. QED
  BY <1>1, CasesFinite

\* What the cards take from the top of a list is on the list.
LEMMA FirstZone ==
    ASSUME NEW S, S \subseteq Zones, S # {}
    PROVE  FirstBy(S, ZoneAhead) \in S
<1> DEFINE R == {p \in S \X S : ZoneAhead(p[1], p[2])}
<1>1. IsFiniteSet(S)
  BY InsightAssumption, FS_Subset
<1>2. \A s \in S : ~ZoneAhead(s, s)
  BY ZoneNumbers DEF ZoneAhead
<1>3. \A s, t, u \in S : ZoneAhead(s, t) /\ ZoneAhead(t, u) => ZoneAhead(s, u)
  BY ZoneNumbers DEF ZoneAhead
<1>4. \A s, t \in S : <<t, s>> \in R <=> ZoneAhead(t, s)
  OBVIOUS
<1> HIDE DEF R
<1>5. \A s \in S : <<s, s>> \notin R
  BY <1>2, <1>4
<1>6. \A s, t, u \in S : <<s, t>> \in R /\ <<t, u>> \in R => <<s, u>> \in R
  BY <1>3, <1>4
<1>7. \E s \in S : \A t \in S : <<t, s>> \notin R
  BY <1>1, <1>5, <1>6, SomeFirst
<1>8. \E s \in S : \A t \in S : ~ZoneAhead(t, s)
  BY <1>4, <1>7
<1>9. QED
  BY <1>8 DEF FirstBy

LEMMA FirstSector ==
    ASSUME NEW S, S \subseteq Sectors, S # {}
    PROVE  FirstBy(S, SectorAhead) \in S
<1> DEFINE R == {p \in S \X S : SectorAhead(p[1], p[2])}
<1>1. IsFiniteSet(S)
  BY InsightAssumption, FS_Subset
<1>2. \A s \in S : ~SectorAhead(s, s)
  BY SectorNumbers DEF SectorAhead
<1>3. \A s, t, u \in S : SectorAhead(s, t) /\ SectorAhead(t, u) => SectorAhead(s, u)
  BY SectorNumbers DEF SectorAhead
<1>4. \A s, t \in S : <<t, s>> \in R <=> SectorAhead(t, s)
  OBVIOUS
<1> HIDE DEF R
<1>5. \A s \in S : <<s, s>> \notin R
  BY <1>2, <1>4
<1>6. \A s, t, u \in S : <<s, t>> \in R /\ <<t, u>> \in R => <<s, u>> \in R
  BY <1>3, <1>4
<1>7. \E s \in S : \A t \in S : <<t, s>> \notin R
  BY <1>1, <1>5, <1>6, SomeFirst
<1>8. \E s \in S : \A t \in S : ~SectorAhead(t, s)
  BY <1>4, <1>7
<1>9. QED
  BY <1>8 DEF FirstBy

LEMMA FirstPair ==
    ASSUME NEW S, S \subseteq Pairs, S # {}
    PROVE  FirstBy(S, PairAhead) \in S
<1> DEFINE R == {p \in S \X S : PairAhead(p[1], p[2])}
<1>1. IsFiniteSet(S)
  <2>1. IsFiniteSet(Zones \X Sectors)
    BY InsightAssumption, FS_Product
  <2>2. [p \in S |-> <<p.zone, p.sector>>] \in Injection(S, Zones \X Sectors)
    BY DEF Pairs, Injection, IsInjective
  <2>3. QED
    BY <2>1, <2>2, FS_Injection
<1>2. \A s \in S : ~PairAhead(s, s)
  BY PairNumbers DEF PairAhead
<1>3. \A s, t, u \in S : PairAhead(s, t) /\ PairAhead(t, u) => PairAhead(s, u)
  BY PairNumbers DEF PairAhead
<1>4. \A s, t \in S : <<t, s>> \in R <=> PairAhead(t, s)
  OBVIOUS
<1> HIDE DEF R
<1>5. \A s \in S : <<s, s>> \notin R
  BY <1>2, <1>4
<1>6. \A s, t, u \in S : <<s, t>> \in R /\ <<t, u>> \in R => <<s, u>> \in R
  BY <1>3, <1>4
<1>7. \E s \in S : \A t \in S : <<t, s>> \notin R
  BY <1>1, <1>5, <1>6, SomeFirst
<1>8. \E s \in S : \A t \in S : ~PairAhead(t, s)
  BY <1>4, <1>7
<1>9. QED
  BY <1>8 DEF FirstBy

\* What is at the top of each card is one of the rows it is taken from.
LEMMA TopZoneIsZone ==
    /\ TopZone \in Zones \cup {Null}
    /\ InScope # {} => TopZone \in Zones
<1> DEFINE tops == {z \in Zones : InZone(z) # {}}
<1>1. tops # {} => FirstBy(tops, ZoneAhead) \in tops
  BY FirstZone
<1>2. TopZone = IF tops # {} THEN FirstBy(tops, ZoneAhead) ELSE Null
  BY DEF TopZone
<1>3. InScope # {} => tops # {}
  BY DEF InScope, InZone
<1>4. QED
  BY <1>1, <1>2, <1>3

LEMMA TopSectorIsSector ==
    /\ TopSector \in Sectors \cup {Null}
    /\ SectorRows # {} => TopSector \in Sectors
<1> DEFINE rising == {s \in SectorRows : CurrentCount(s) > PriorCount(s)}
<1>1. SectorRows \subseteq Sectors /\ rising \subseteq Sectors
  BY DEF SectorRows
<1>2. rising # {} => FirstBy(rising, SectorAhead) \in rising
  BY <1>1, FirstSector
<1>3. SectorRows # {} => FirstBy(SectorRows, SectorAhead) \in SectorRows
  BY <1>1, FirstSector
<1>4. TopSector = IF rising # {} THEN FirstBy(rising, SectorAhead)
                  ELSE IF SectorRows # {} THEN FirstBy(SectorRows, SectorAhead) ELSE Null
  BY DEF TopSector
<1>5. QED
  BY <1>1, <1>2, <1>3, <1>4

LEMMA TopRecurringIsRow ==
    ASSUME InsightTypeOK, RecurringRows # {}
    PROVE  TopRecurring \in RecurringRows /\ RecurringRows \subseteq Pairs
<1>1. recurring \subseteq Pairs /\ OwnRows \subseteq Pairs
  BY InsightAssumption DEF InsightTypeOK, Pairs, OwnRows
<1>2. CASE recurring # {}
  BY <1>1, <1>2 DEF RecurringRows, TopRecurring
<1>3. CASE recurring = {}
  <2>1. OwnRows # {} /\ FirstBy(OwnRows, PairAhead) \in OwnRows
    BY <1>1, <1>3, FirstPair DEF RecurringRows
  <2>2. TopRecurring = FirstBy(OwnRows, PairAhead)
    BY <1>3, <2>1 DEF TopRecurring
  <2>3. QED
    BY <1>1, <1>3, <2>1, <2>2 DEF RecurringRows
<1>4. QED
  BY <1>2, <1>3

LEMMA InsightTypeStep == ASSUME InsightTypeOK, InsightNext PROVE InsightTypeOK'
<1> USE DEF Foci, Counting
<1>1. /\ issues \in [Cases -> Details \cup {Foreign, Null}] /\ recurring \subseteq Patterns
      /\ focusParam \in Foci \cup {Null} /\ clicked \in Counting \cup {Null}
      /\ drillSector \in Sectors \cup {Null} /\ drillZone \in Zones \cup {Null}
  BY DEF InsightTypeOK
<1>2. ASSUME NEW f \in Foci, NEW s \in Sectors \cup {Null}, NEW z \in Zones \cup {Null},
             SetFocus(f, s, z), UNCHANGED <<issues, recurring>>, clicked' \in Counting \cup {Null}
      PROVE  InsightTypeOK'
  BY <1>1, <1>2 DEF SetFocus, InsightTypeOK
<1>3. CASE IssueChanges
  <2>1. PICK c \in Cases :
          \/ \E d \in Details \cup {Foreign} : issues' = [issues EXCEPT ![c] = d]
          \/ issues' = [issues EXCEPT ![c] = Null]
          \/ /\ c \in InScope
             /\ LET old == issues[c] IN
                \/ \E s \in Sectors : issues' = [issues EXCEPT ![c] = [old EXCEPT !.sector = s]]
                \/ issues' = [issues EXCEPT ![c] = [old EXCEPT !.high = ~old.high]]
                \/ issues' = [issues EXCEPT ![c] = [old EXCEPT !.resolved = ~old.resolved]]
    BY <1>3 DEF IssueChanges
  <2>2. c \in InScope => issues[c] \in Details
    BY <1>1, InsightAssumption DEF InScope, Foreign
  <2>3. issues[c] \in Details =>
          /\ \A s \in Sectors : [issues[c] EXCEPT !.sector = s] \in Details
          /\ [issues[c] EXCEPT !.high = ~issues[c].high] \in Details
          /\ [issues[c] EXCEPT !.resolved = ~issues[c].resolved] \in Details
    BY DEF Details
  <2>4. \E d \in Details \cup {Foreign, Null} : issues' = [issues EXCEPT ![c] = d]
    BY <2>1, <2>2, <2>3
  <2>5. issues' \in [Cases -> Details \cup {Foreign, Null}]
    BY <1>1, <2>4
  <2>6. QED
    BY <1>1, <1>3, <2>5 DEF IssueChanges, InsightTypeOK
<1>4. CASE PatternsArrive
  BY <1>1, <1>4 DEF PatternsArrive, InsightTypeOK
<1>5. CASE ClearDrills
  BY <1>1, <1>5 DEF ClearDrills, InsightTypeOK
<1>6. ASSUME NEW f \in Foci, ClickCard(f)
      PROVE  InsightTypeOK'
  <2>1. f = "recurring-patterns" => TopRecurring \in Pairs
    BY <1>6, TopRecurringIsRow DEF ClickCard, Shown, InsightTypeOK
  <2>2. CardSector(f, drillSector) \in Sectors \cup {Null}
    BY <1>1, <2>1, TopSectorIsSector DEF CardSector, Pairs
  <2>3. CardZone(f, drillZone) \in Zones \cup {Null}
    BY <1>1, <2>1, TopZoneIsZone DEF CardZone, Pairs
  <2>4. SetFocus(f, CardSector(f, drillSector), CardZone(f, drillZone))
        /\ UNCHANGED <<issues, recurring>> /\ clicked' \in Counting \cup {Null}
    BY <1>6 DEF ClickCard
  <2>5. QED
    BY <1>2, <2>2, <2>3, <2>4
<1>7. /\ ChartZones \subseteq Zones /\ SectorRows \subseteq Sectors
      /\ ActiveSector \in Sectors \cup {Null}
  BY <1>1, TopSectorIsSector DEF ChartZones, SectorRows, ActiveSector, Or
<1>8. CASE ClickOverview
  BY <1>1, <1>2, <1>7, <1>8 DEF ClickOverview, Drilled
<1>9. CASE ClickSectorLab
  BY <1>1, <1>2, <1>7, <1>9 DEF ClickSectorLab, Drilled
<1>10. CASE ClickPressureLab
  BY <1>1, <1>2, <1>7, <1>10 DEF ClickPressureLab, Drilled
<1>11. CASE ClickForecastLab
  BY <1>1, <1>2, <1>7, <1>11 DEF ClickForecastLab, Drilled
<1>12. CASE ClickRecurringLab
  <2>1. \A p \in RecurringRows : p.zone \in Zones /\ p.sector \in Sectors
    BY TopRecurringIsRow DEF Pairs
  <2>2. QED
    BY <1>1, <1>2, <1>7, <1>12, <2>1 DEF ClickRecurringLab, Drilled
<1>13. QED
  BY <1>3, <1>4, <1>5, <1>6, <1>8, <1>9, <1>10, <1>11, <1>12 DEF InsightNext

\* After a click on a card the address names it, and the filters it leads to are
\* set, or are what the page falls back to.
ClickedIsSet ==
    /\ clicked # Null => focusParam = clicked
    /\ clicked = "community-pressure" => InScope # {} /\ drillZone = TopZone
    /\ clicked = "recurring-patterns" =>
         /\ RecurringRows # {}
         /\ drillZone = TopRecurring.zone /\ drillSector = TopRecurring.sector
    /\ clicked = "sector-rise" => SectorRows # {} /\ drillSector = TopSector

LEMMA SameCards ==
    ASSUME UNCHANGED <<issues, recurring>>
    PROVE  /\ InScope' = InScope /\ RecurringRows' = RecurringRows
           /\ TopZone' = TopZone /\ TopRecurring' = TopRecurring
           /\ SectorRows' = SectorRows /\ TopSector' = TopSector
<1>1. /\ InScope' = InScope /\ RecurringRows' = RecurringRows
      /\ TopZone' = TopZone /\ TopRecurring' = TopRecurring
  BY DEF InScope, RecurringRows, TopZone, TopRecurring, FirstBy, ZoneAhead, PairAhead, OwnRows,
         CasesOf, InZone, InSector, Pressure, Unresolved, HighOf, Pairs
<1>2. SectorRows' = SectorRows /\ TopSector' = TopSector
  BY DEF InScope, SectorRows, TopSector, FirstBy, SectorAhead, CurrentCount, PriorCount,
         PctChange, Recent, Prior, Anchor, InSector
<1>3. QED
  BY <1>1, <1>2

LEMMA ClickedStep == ASSUME ClickedIsSet, InsightNext PROVE ClickedIsSet'
<1>1. ASSUME clicked' = Null
      PROVE  ClickedIsSet'
  BY <1>1, NullAssumption DEF ClickedIsSet, Foci
<1>2. CASE IssueChanges \/ PatternsArrive \/ ClearDrills
  BY <1>1, <1>2 DEF IssueChanges, PatternsArrive, ClearDrills
<1>3. CASE \/ ClickOverview \/ ClickSectorLab \/ ClickPressureLab \/ ClickForecastLab
           \/ ClickRecurringLab
  BY <1>1, <1>3 DEF ClickOverview, ClickSectorLab, ClickPressureLab, ClickForecastLab,
                    ClickRecurringLab, Drilled
<1>4. ASSUME NEW f \in Foci, ClickCard(f)
      PROVE  ClickedIsSet'
  <2>1. CASE f \notin Counting
    BY <1>1, <1>4, <2>1 DEF ClickCard
  <2>2. CASE f \in Counting
    <3>1. /\ InScope' = InScope /\ RecurringRows' = RecurringRows
          /\ TopZone' = TopZone /\ TopRecurring' = TopRecurring
          /\ SectorRows' = SectorRows /\ TopSector' = TopSector
      BY <1>4, SameCards DEF ClickCard
    <3>2. /\ Shown(f) /\ focusParam' = f /\ clicked' = f
          /\ drillSector' = CardSector(f, drillSector) /\ drillZone' = CardZone(f, drillZone)
      BY <1>4, <2>2 DEF ClickCard, SetFocus
    <3>3. CASE f = "community-pressure"
      BY <3>1, <3>2, <3>3 DEF Shown, CardZone, ClickedIsSet
    <3>4. CASE f = "recurring-patterns"
      BY <3>1, <3>2, <3>4 DEF Shown, CardZone, CardSector, ClickedIsSet
    <3>5. CASE f = "sector-rise"
      BY <3>1, <3>2, <3>5 DEF Shown, CardSector, ClickedIsSet
    <3>6. QED
      BY <2>2, <3>3, <3>4, <3>5 DEF Counting, Foci
  <2>3. QED
    BY <2>1, <2>2
<1>5. QED
  BY <1>2, <1>3, <1>4 DEF InsightNext

\* With the filters set, the list shows what the card counts.
LEMMA PressureIsTraced ==
    ASSUME ClickedIsSet, clicked = "community-pressure"
    PROVE  Evidence = Unresolved(InZone(TopZone)) \cup HighOf(InZone(TopZone))
<1>1. Focus = "community-pressure" /\ drillZone = TopZone /\ InScope # {}
  BY NullAssumption DEF ClickedIsSet, Focus, Foci
<1>2. ActiveZone = TopZone /\ TopZone # Null
  BY <1>1, TopZoneIsZone, NullAssumption DEF ActiveZone, Or
<1>3. AtActiveZone(InScope) = InZone(TopZone)
  BY <1>2 DEF AtActiveZone, InZone
<1>4. QED
  BY <1>1, <1>3 DEF Evidence

LEMMA PatternIsTraced ==
    ASSUME InsightTypeOK, ClickedIsSet, clicked = "recurring-patterns"
    PROVE  Evidence = CasesOf(TopRecurring)
<1> DEFINE top == TopRecurring
           drilled == {p \in RecurringRows : /\ p.zone = Or(drillZone, top.zone)
                                             /\ p.sector = Or(drillSector, top.sector)}
<1>1. /\ Focus = "recurring-patterns" /\ RecurringRows # {}
      /\ drillZone = top.zone /\ drillSector = top.sector
  BY NullAssumption DEF ClickedIsSet, Focus, Foci
<1>2. top \in RecurringRows /\ RecurringRows \subseteq Pairs /\ top # Null
  BY <1>1, TopRecurringIsRow, NullAssumption
<1>3. drilled = {top}
  <2>1. top \in drilled
    BY <1>1, <1>2 DEF Or
  <2>2. \A p \in drilled : p = top
    BY <1>1, <1>2 DEF Or, Pairs
  <2>3. QED
    BY <2>1, <2>2
<1>4. ActiveRecurring = IF top = Null THEN Null
                        ELSE IF drilled # {} THEN CHOOSE p \in drilled : TRUE ELSE top
  BY DEF ActiveRecurring
<1> HIDE DEF drilled
<1>5. ActiveRecurring = top
  BY <1>2, <1>3, <1>4
<1>6. QED
  BY <1>1, <1>2, <1>5 DEF Evidence

\* A sector with a recent or an earlier case has a case.
LEMMA SectorHasCases == SectorRows # {} => InScope # {}
<1> SUFFICES ASSUME InScope = {}
             PROVE  SectorRows = {}
  OBVIOUS
<1>1. ASSUME NEW s \in Sectors
      PROVE  Recent(InSector(s)) = {} /\ Prior(InSector(s)) = {}
  BY DEF Recent, Prior, InSector
<1>2. \A s \in Sectors : CurrentCount(s) = 0 /\ PriorCount(s) = 0
  BY <1>1, FS_EmptySet DEF CurrentCount, PriorCount
<1>3. QED
  BY <1>2 DEF SectorRows

LEMMA SectorIsTraced ==
    ASSUME ClickedIsSet, clicked = "sector-rise"
    PROVE  Evidence = InSector(TopSector) \cap InZone(Or(drillZone, TopZone))
<1> DEFINE zone == Or(drillZone, TopZone)
<1>1. Focus = "sector-rise" /\ drillSector = TopSector /\ SectorRows # {}
  BY NullAssumption DEF ClickedIsSet, Focus, Foci
<1>2. ActiveSector = TopSector /\ TopSector # Null
  BY <1>1, TopSectorIsSector, NullAssumption DEF ActiveSector, Or
<1>3. ActiveZone = zone /\ zone # Null
  BY <1>1, SectorHasCases, TopZoneIsZone, NullAssumption DEF ActiveZone, Or
<1>4. QED
  BY <1>1, <1>2, <1>3 DEF Evidence, AtActiveZone

\* After a click on a card that counts issues the list shows what InsightsAreTraced
\* says of that card, for every set of zones, sectors, issues and patterns: exactly
\* the issues of the zone under most pressure or of the pattern, and of the rising
\* sector those in one zone only.
THEOREM EvidenceIsTraced == InsightSpec => [](InsightTypeOK /\ InsightsAreTraced)
<1>1. InsightInit => InsightTypeOK /\ ClickedIsSet
  BY NullAssumption DEF InsightInit, InsightTypeOK, ClickedIsSet, Foci
<1>2. InsightTypeOK /\ ClickedIsSet /\ [InsightNext]_insightVars => InsightTypeOK' /\ ClickedIsSet'
  <2> SUFFICES ASSUME InsightTypeOK, ClickedIsSet, [InsightNext]_insightVars
               PROVE  InsightTypeOK' /\ ClickedIsSet'
    OBVIOUS
  <2>1. CASE InsightNext
    BY <2>1, InsightTypeStep, ClickedStep
  <2>2. CASE UNCHANGED insightVars
    <3>1. InsightTypeOK'
      BY <2>2 DEF insightVars, InsightTypeOK
    <3>2. ClickedIsSet'
      BY <2>2, SameCards DEF insightVars, ClickedIsSet
    <3>3. QED
      BY <3>1, <3>2
  <2>3. QED
    BY <2>1, <2>2
<1>3. InsightTypeOK /\ ClickedIsSet => InsightsAreTraced
  BY PressureIsTraced, PatternIsTraced, SectorIsTraced DEF InsightsAreTraced
<1>4. QED
  BY <1>1, <1>2, <1>3, PTL DEF InsightSpec

-----------------------------------------------------------------------------
(* The views together.                                                     *)

\* A step of the client is a step of the view that is open, and leaves what the
\* other views keep alone.
LEMMA BrowserStep ==
    ASSUME [BrowserNext]_browserVars
    PROVE  /\ [ReportNext]_reportVars
           /\ [RegistrationNext]_registrationVars
           /\ [AdminNext]_adminVars
           /\ [SessionNext]_sessionVars
           /\ [DeskNext]_deskVars
           /\ [BriefingNext]_briefingVars
           /\ [InsightNext]_insightVars
           /\ [SignalNext]_signalVars
           /\ [HotspotNext]_hotspotVars
           /\ [QueueNext]_queueVars
           /\ [WeeklyNext]_weeklyVars
<1>1. CASE InReport
  BY <1>1 DEF InReport
<1>2. CASE InRegistration
  BY <1>2 DEF InRegistration
<1>3. CASE InAdmin
  BY <1>3 DEF InAdmin
<1>4. CASE InSession
  BY <1>4 DEF InSession
<1>5. CASE InDesk
  BY <1>5 DEF InDesk
<1>6. CASE InBriefing
  BY <1>6 DEF InBriefing
<1>7. CASE InInsight
  BY <1>7 DEF InInsight
<1>8. CASE InSignal
  BY <1>8 DEF InSignal
<1>9. CASE InHotspot
  BY <1>9 DEF InHotspot
<1>10. CASE InQueue
  BY <1>10 DEF InQueue
<1>11. CASE InWeekly
  BY <1>11 DEF InWeekly
<1>12. CASE UNCHANGED browserVars
  BY <1>12 DEF browserVars
<1>13. QED
  BY <1>1, <1>2, <1>3, <1>4, <1>5, <1>6, <1>7, <1>8, <1>9, <1>10, <1>11, <1>12 DEF BrowserNext

\* By the form of BrowserNext, every behaviour of the client is a behaviour of each
\* view.
LEMMA ViewsMoveAlone ==
    BrowserSpec => /\ ReportSpec
                   /\ RegistrationSpec
                   /\ AdminSpec
                   /\ SessionSpec
                   /\ DeskSpec
                   /\ BriefingSpec
                   /\ InsightSpec
                   /\ SignalSpec
                   /\ HotspotSpec
                   /\ QueueSpec
                   /\ WeeklySpec
<1>1. BrowserInit => /\ ReportInit
                     /\ RegistrationInit
                     /\ AdminInit
                     /\ SessionInit
                     /\ DeskInit
                     /\ BriefingInit
                     /\ InsightInit
                     /\ SignalInit
                     /\ HotspotInit
                     /\ QueueInit
                     /\ WeeklyInit
  BY DEF BrowserInit
<1>2. [BrowserNext]_browserVars => /\ [ReportNext]_reportVars
                                   /\ [RegistrationNext]_registrationVars
                                   /\ [AdminNext]_adminVars
                                   /\ [SessionNext]_sessionVars
                                   /\ [DeskNext]_deskVars
                                   /\ [BriefingNext]_briefingVars
                                   /\ [InsightNext]_insightVars
                                   /\ [SignalNext]_signalVars
                                   /\ [HotspotNext]_hotspotVars
                                   /\ [QueueNext]_queueVars
                                   /\ [WeeklyNext]_weeklyVars
  BY BrowserStep
<1>3. QED
  BY <1>1, <1>2, PTL
     DEF BrowserSpec, ReportSpec, RegistrationSpec, AdminSpec, SessionSpec, DeskSpec,
         BriefingSpec, InsightSpec, SignalSpec, HotspotSpec, QueueSpec, WeeklySpec

\* The state of every view keeps its shape, whichever is open.
THEOREM BrowserTypeCorrect == BrowserSpec => []BrowserTypeOK
<1>1. BrowserSpec => [](open \in Views)
  <2>1. BrowserInit => open \in Views
    BY DEF BrowserInit
  <2>2. open \in Views /\ [BrowserNext]_browserVars => (open \in Views)'
    BY DEF browserVars, BrowserNext, InReport, InRegistration, InAdmin, InSession, InDesk,
           InBriefing, InInsight, InSignal, InHotspot, InQueue, InWeekly
  <2>3. QED
    BY <2>1, <2>2, PTL DEF BrowserSpec
<1>2. /\ open \in Views /\ ReportTypeOK /\ RegistrationTypeOK /\ AdminTypeOK
      /\ SessionTypeOK /\ DeskTypeOK /\ BriefingTypeOK /\ InsightTypeOK
      /\ SignalTypeOK /\ HotspotTypeOK /\ QueueTypeOK /\ WeeklyTypeOK
      => BrowserTypeOK
  BY DEF Views, BrowserTypeOK
<1>3. QED
  BY <1>1, <1>2, ViewsMoveAlone, ReportTypeCorrect, RegistrationTypeCorrect, AdminTypeCorrect,
     TabsHold, CalmDeskHolds, ReviewGateHolds, EvidenceIsTraced, FiguresStand, SelectionHolds,
     HandlersHold, WeekIsKept, PTL

\* And what each view promises holds in the client.
THEOREM ClientKeepsPromises ==
    BrowserSpec => []( /\ OverrideStands /\ SmoothReportIsFiled /\ ChoicesFit
                       /\ UntouchedFlagsStand /\ TabsActAsShown /\ LogoutSticks
                       /\ CalmDeskIsTrue /\ GateHoldsDrafts /\ InsightsAreTraced
                       /\ OwnFiguresStand /\ SelectionIsMeant /\ HandlersAreCurrent
                       /\ WeeklyListIsKept )
BY ViewsMoveAlone, OverrideHolds, SmoothReportHolds, ChoicesHold, FlagsStand, TabsHold,
   LogoutHolds, CalmDeskHolds, ReviewGateHolds, EvidenceIsTraced, FiguresStand,
   SelectionHolds, HandlersHold, WeekIsKept, PTL
=============================================================================
