----------------------------- MODULE SignalLoads -----------------------------
(***************************************************************************)
(* The figures that app/mp/analytics/page.tsx loads from the ML service.   *)
(*                                                                         *)
(* Whenever the constituency of the user changes, and that is the case     *)
(* shortly after the page has loaded, the page asks for all figures anew   *)
(* and cancels the load before; the requests go on, but their answers are  *)
(* dropped.  A figure whose request fails keeps what it showed.            *)
(***************************************************************************)
CONSTANTS
    Figures,         \* insights, sentiment, sectors, recurring patterns, response trend
    Homes,  \* where the user may be from
    Nowhere,         \* no user, so the figures of the whole country
    Answers,         \* loads that may be in flight together
    NoLoad           \* the value of an unused slot; a figure that is not shown

ASSUME SignalAssumption == Nowhere \notin Homes /\ NoLoad \notin Homes

VARIABLES
    home,        \* user?.constituency
    signalLoads, \* signalLoads[a]: a load in flight, of which place, cancelled or not
    figures,     \* figures[f]: of which place the figure is
    mlLoading    \* "Refreshing ML signals..."

\* What the property remembers; no handler reads this.
VARIABLE
    answered     \* the figures that came since the constituency changed last

signalVars == <<home, signalLoads, figures, mlLoading, answered>>

-----------------------------------------------------------------------------
Places == Homes \cup {Nowhere}
SignalLoad == [of : Places, cancelled : BOOLEAN]

\* The cleanup of the effect: what becomes of a load that is in flight.
Cancelled_Never(l) == l
Cancelled(l) == IF l = NoLoad THEN l ELSE [l EXCEPT !.cancelled = TRUE]

\* The effect: cancel the load before, start the next one.
LoadFor(place, a) ==
    signalLoads' = [b \in Answers |-> IF b = a THEN [of |-> place, cancelled |-> FALSE]
                                      ELSE Cancelled(signalLoads[b])]

-----------------------------------------------------------------------------
\* The page is rendered before the context has read the token.
SignalInit ==
    /\ home = Nowhere
    /\ \E a \in Answers :
           signalLoads = [b \in Answers |-> IF b = a THEN [of |-> Nowhere, cancelled |-> FALSE]
                                            ELSE NoLoad]
    /\ figures = [f \in Figures |-> NoLoad] /\ mlLoading = TRUE /\ answered = {}

\* The context reads the token, or a login or logout changes the user.
HomeChanges(place) ==
    /\ place # home /\ home' = place
    /\ \E a \in Answers : signalLoads[a] = NoLoad /\ LoadFor(place, a)
    /\ mlLoading' = TRUE /\ answered' = {}
    /\ UNCHANGED figures

\* Promise.allSettled: all requests of a load have ended, those of ok well.
LoadSettles(a) ==
    /\ signalLoads[a] # NoLoad
    /\ signalLoads' = [signalLoads EXCEPT ![a] = NoLoad]
    /\ \/ signalLoads[a].cancelled /\ UNCHANGED <<figures, mlLoading, answered>>
       \/ /\ ~signalLoads[a].cancelled
          /\ mlLoading' = FALSE
          /\ \E ok \in SUBSET Figures :
                 /\ figures' = [f \in Figures |-> IF f \in ok THEN signalLoads[a].of ELSE figures[f]]
                 /\ answered' = IF signalLoads[a].of = home THEN answered \cup ok ELSE answered
    /\ UNCHANGED home

SignalNext ==
    \/ \E place \in Places : HomeChanges(place)
    \/ \E a \in Answers : LoadSettles(a)

SignalSpec == SignalInit /\ [][SignalNext]_signalVars

-----------------------------------------------------------------------------
\* The state of the page is well formed.
SignalTypeOK ==
    /\ home \in Places /\ signalLoads \in [Answers -> SignalLoad \cup {NoLoad}]
    /\ figures \in [Figures -> Places \cup {NoLoad}]
    /\ mlLoading \in BOOLEAN /\ answered \subseteq Figures

\* A figure that was loaded for the constituency shown is not replaced by one of
\* another place that was asked for earlier and comes later.
OwnFiguresStand == \A f \in answered : figures[f] = home
=============================================================================
