----------------------------- MODULE QueueBoard -----------------------------
(***************************************************************************)
(* The MP's issue queue, app/mp/dashboard/page.tsx, and the charts of      *)
(* components/PlotlyClientChart.tsx that filter it.                        *)
(*                                                                         *)
(* Every render of the page hands its charts new data or a new handler, so *)
(* that the effect of each chart runs again: it takes the handler of the   *)
(* last run away, loads the library, draws, and attaches its own handler,  *)
(* which toggles a value of the filter *as it was in that render*.  Runs   *)
(* cannot be stopped while they wait; a flag tells them that they are      *)
(* over.  A filter changes by a click, and React renders and runs the      *)
(* effects of a click before the next event.                               *)
(*                                                                         *)
(* The issues are left out: which values of a facet occur, and which       *)
(* issues pass, depends on no earlier step.                                *)
(***************************************************************************)
CONSTANTS
    Facets,    \* what the queue is filtered by: status, sector, zone, severity
    Charts,    \* the facets that have a chart
    Marks,     \* the values of a facet
    RunSlots,  \* runs of a chart's effect in flight
    NoRun      \* an unused slot; no handler

ASSUME QueueAssumption == Charts \subseteq Facets /\ \A marks \in SUBSET Marks : marks # NoRun

VARIABLES
    filters,   \* filters[f]: the values of facet f that are let through; all if none
    picked,    \* an issue is open in the drawer
    runs,      \* runs[c][r]: a run of chart c's effect
    handlers,  \* handlers[c]: the filter that the handler of chart c toggles in
    ready,     \* isReady: chart c is shown
    broken     \* loadError: "Interactive chart unavailable in this session."

queueVars == <<filters, picked, runs, handlers, ready, broken>>

-----------------------------------------------------------------------------
\* A run waits for the library, then for the drawing; it holds the filter of
\* the render that it belongs to.
EffectRun == [waits : {"import", "react"}, filter : SUBSET Marks, cancelled : BOOLEAN]

Going(c) == {r \in RunSlots : runs[c][r] # NoRun}

\* Does a run go on after it has waited?
GoesOn_Always(run) == TRUE
GoesOn(run) == ~run.cancelled

\* toggleFilter
Toggle1(set, m) == IF m \in set THEN set \ {m} ELSE set \cup {m}

\* The page is rendered with these filters: every chart's effect is cleaned up
\* and runs again.
Render(fs) ==
    /\ filters' = fs
    /\ \E s \in [Charts -> RunSlots] :
         /\ \A c \in Charts : runs[c][s[c]] = NoRun
         /\ runs' = [c \in Charts |-> [r \in RunSlots |->
              IF r = s[c] THEN [waits |-> "import", filter |-> fs[c], cancelled |-> FALSE]
              ELSE IF runs[c][r] = NoRun THEN NoRun ELSE [runs[c][r] EXCEPT !.cancelled = TRUE]]]
    /\ handlers' = [c \in Charts |-> NoRun]
    /\ ready' = [c \in Charts |-> FALSE]
    /\ broken' = [c \in Charts |-> FALSE]

-----------------------------------------------------------------------------
QueueInit ==
    /\ filters = [f \in Facets |-> {}] /\ picked = FALSE
    /\ \E s \in RunSlots :
         runs = [c \in Charts |-> [r \in RunSlots |->
           IF r = s THEN [waits |-> "import", filter |-> {}, cancelled |-> FALSE] ELSE NoRun]]
    /\ handlers = [c \in Charts |-> NoRun]
    /\ ready = [c \in Charts |-> FALSE] /\ broken = [c \in Charts |-> FALSE]

\* A checkbox of the sidebar.
TickFilter(f, m) ==
    /\ Render([filters EXCEPT ![f] = Toggle1(@, m)])
    /\ UNCHANGED picked

\* A slice or a bar: onPointClick of the handler that is attached.
ClickPoint(c, m) ==
    /\ ready[c] /\ handlers[c] # NoRun
    /\ Render([filters EXCEPT ![c] = Toggle1(handlers[c], m)])
    /\ UNCHANGED picked

\* "Clear status", "Clear sector" and "Clear all filters".
ClearFacet(c) ==
    /\ filters[c] # {}
    /\ Render([filters EXCEPT ![c] = {}])
    /\ UNCHANGED picked

ClearAllFilters ==
    /\ Render([f \in Facets |-> {}])
    /\ UNCHANGED picked

\* A row is clicked, the drawer is closed, or the issues are refreshed and the
\* one in the drawer may be gone.
PickIssue ==
    /\ Render(filters)
    /\ picked' \in BOOLEAN

\* The library has been loaded: the run draws, unless it is over.
Imported(c, r) ==
    /\ r \in Going(c) /\ runs[c][r].waits = "import"
    /\ runs' = [runs EXCEPT ![c][r] = IF GoesOn(@) THEN [@ EXCEPT !.waits = "react"] ELSE NoRun]
    /\ UNCHANGED <<filters, picked, handlers, ready, broken>>

\* The chart has been drawn: the run attaches its handler, unless it is over.
Drawn(c, r) ==
    LET on == GoesOn(runs[c][r]) IN
    /\ r \in Going(c) /\ runs[c][r].waits = "react"
    /\ handlers' = [handlers EXCEPT ![c] = IF on THEN runs[c][r].filter ELSE @]
    /\ ready' = [ready EXCEPT ![c] = on \/ @]
    /\ runs' = [runs EXCEPT ![c][r] = NoRun]
    /\ UNCHANGED <<filters, picked, broken>>

\* Either of the two fails.
RunFails(c, r) ==
    LET on == GoesOn(runs[c][r]) IN
    /\ r \in Going(c)
    /\ broken' = [broken EXCEPT ![c] = on \/ @]
    /\ ready' = [ready EXCEPT ![c] = ~on /\ @]
    /\ runs' = [runs EXCEPT ![c][r] = NoRun]
    /\ UNCHANGED <<filters, picked, handlers>>

QueueNext ==
    \/ ClearAllFilters \/ PickIssue
    \/ \E f \in Facets, m \in Marks : TickFilter(f, m)
    \/ \E c \in Charts :
         \/ ClearFacet(c)
         \/ \E m \in Marks : ClickPoint(c, m)
         \/ \E r \in RunSlots : Imported(c, r) \/ Drawn(c, r) \/ RunFails(c, r)

QueueSpec == QueueInit /\ [][QueueNext]_queueVars

-----------------------------------------------------------------------------
\* The state of the page is well formed.
QueueTypeOK ==
    /\ filters \in [Facets -> SUBSET Marks] /\ picked \in BOOLEAN
    /\ runs \in [Charts -> [RunSlots -> EffectRun \cup {NoRun}]]
    /\ handlers \in [Charts -> {NoRun} \cup SUBSET Marks]
    /\ ready \in [Charts -> BOOLEAN] /\ broken \in [Charts -> BOOLEAN]

\* A chart that is shown answers clicks, and changes the filter as the page shows
\* it: no run of an earlier render leaves its handler behind, which would undo what
\* was filtered since, and none takes away the chart of a later one.
HandlersAreCurrent ==
    \A c \in Charts :
      /\ ready[c] <=> handlers[c] # NoRun
      /\ handlers[c] # NoRun => handlers[c] = filters[c]
      /\ ~(ready[c] /\ broken[c])
=============================================================================
