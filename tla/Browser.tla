------------------------------- MODULE Browser -------------------------------
(***************************************************************************)
(* The views of the web client, one at a time.  What a view keeps of its   *)
(* own, its form, filters, selections and requests, lives while it is      *)
(* mounted, and no other view reads it.  In the program the views share    *)
(* more than that: the data store with its issues, and the user who is     *)
(* signed in.  Here each view has its own copy of what it reads there,     *)
(* which the others do not change but which may change at any moment,      *)
(* whoever causes it (IssueChanges, ScopeChanges, HomeChanges,             *)
(* OthersWrite, IssuesChange).  So the view that is open moves and the     *)
(* others rest in an initial state, and what holds of all views together   *)
(* is no more than what holds of each.                                     *)
(***************************************************************************)
EXTENDS ReportForm, Registration, AdminPage, BrowserSession, IssueDesk,
        BriefingDesk, InsightDesk, SignalLoads, HotspotMap, QueueBoard, WeeklyList

VARIABLE open   \* the view that is open

browserVars == <<open, reportVars, registrationVars, adminVars, sessionVars, deskVars,
                 briefingVars, insightVars, signalVars, hotspotVars, queueVars, weeklyVars>>

Views == {"report", "registration", "admin", "session", "desk", "briefing", "insight",
          "signal", "hotspot", "queue", "weekly"}

-----------------------------------------------------------------------------
\* Of a view that is not open one initial state is enough.
Rests ==
    /\ open # "desk" => deskRole = "mp" /\ row = CHOOSE work \in Work : work.status \in OfficeStatuses
    /\ open # "briefing" => reports = [k \in Topics |-> 0]
    /\ open # "insight" => focusParam = Null
    /\ open # "signal" => signalLoads[CHOOSE a \in Answers : TRUE] # NoLoad
    /\ open # "queue" => \A c \in Charts : runs[c][CHOOSE r \in RunSlots : TRUE] # NoRun

BrowserInit ==
    /\ open \in Views
    /\ ReportInit /\ RegistrationInit /\ AdminInit /\ SessionInit /\ DeskInit
    /\ BriefingInit /\ InsightInit /\ SignalInit /\ HotspotInit /\ QueueInit /\ WeeklyInit
    /\ Rests

\* One step of the open view; the variables of the others stay.
InReport ==
    /\ open = "report" /\ ReportNext
    /\ UNCHANGED <<open, registrationVars, adminVars, sessionVars, deskVars, briefingVars,
                   insightVars, signalVars, hotspotVars, queueVars, weeklyVars>>
InRegistration ==
    /\ open = "registration" /\ RegistrationNext
    /\ UNCHANGED <<open, reportVars, adminVars, sessionVars, deskVars, briefingVars,
                   insightVars, signalVars, hotspotVars, queueVars, weeklyVars>>
InAdmin ==
    /\ open = "admin" /\ AdminNext
    /\ UNCHANGED <<open, reportVars, registrationVars, sessionVars, deskVars, briefingVars,
                   insightVars, signalVars, hotspotVars, queueVars, weeklyVars>>
InSession ==
    /\ open = "session" /\ SessionNext
    /\ UNCHANGED <<open, reportVars, registrationVars, adminVars, deskVars, briefingVars,
                   insightVars, signalVars, hotspotVars, queueVars, weeklyVars>>
InDesk ==
    /\ open = "desk" /\ DeskNext
    /\ UNCHANGED <<open, reportVars, registrationVars, adminVars, sessionVars, briefingVars,
                   insightVars, signalVars, hotspotVars, queueVars, weeklyVars>>
InBriefing ==
    /\ open = "briefing" /\ BriefingNext
    /\ UNCHANGED <<open, reportVars, registrationVars, adminVars, sessionVars, deskVars,
                   insightVars, signalVars, hotspotVars, queueVars, weeklyVars>>
InInsight ==
    /\ open = "insight" /\ InsightNext
    /\ UNCHANGED <<open, reportVars, registrationVars, adminVars, sessionVars, deskVars,
                   briefingVars, signalVars, hotspotVars, queueVars, weeklyVars>>
InSignal ==
    /\ open = "signal" /\ SignalNext
    /\ UNCHANGED <<open, reportVars, registrationVars, adminVars, sessionVars, deskVars,
                   briefingVars, insightVars, hotspotVars, queueVars, weeklyVars>>
InHotspot ==
    /\ open = "hotspot" /\ HotspotNext
    /\ UNCHANGED <<open, reportVars, registrationVars, adminVars, sessionVars, deskVars,
                   briefingVars, insightVars, signalVars, queueVars, weeklyVars>>
InQueue ==
    /\ open = "queue" /\ QueueNext
    /\ UNCHANGED <<open, reportVars, registrationVars, adminVars, sessionVars, deskVars,
                   briefingVars, insightVars, signalVars, hotspotVars, weeklyVars>>
InWeekly ==
    /\ open = "weekly" /\ WeeklyNext
    /\ UNCHANGED <<open, reportVars, registrationVars, adminVars, sessionVars, deskVars,
                   briefingVars, insightVars, signalVars, hotspotVars, queueVars>>

\* What can change: the state of the open view.
Seen ==
    CASE open = "report" -> <<open, reportVars>>
      [] open = "registration" -> <<open, registrationVars>>
      [] open = "admin" -> <<open, adminVars>>
      [] open = "session" -> <<open, sessionVars>>
      [] open = "desk" -> <<open, deskVars>>
      [] open = "briefing" -> <<open, briefingVars>>
      [] open = "insight" -> <<open, insightVars>>
      [] open = "signal" -> <<open, signalVars>>
      [] open = "hotspot" -> <<open, hotspotVars>>
      [] open = "queue" -> <<open, queueVars>>
      [] open = "weekly" -> <<open, weeklyVars>>

BrowserNext ==
    \/ InReport \/ InRegistration \/ InAdmin \/ InSession \/ InDesk
    \/ InBriefing \/ InInsight \/ InSignal \/ InHotspot \/ InQueue \/ InWeekly

BrowserSpec == BrowserInit /\ [][BrowserNext]_browserVars

-----------------------------------------------------------------------------
\* The state of the open view is well formed.
BrowserTypeOK ==
    CASE open = "report" -> ReportTypeOK
      [] open = "registration" -> RegistrationTypeOK
      [] open = "admin" -> AdminTypeOK
      [] open = "session" -> SessionTypeOK
      [] open = "desk" -> DeskTypeOK
      [] open = "briefing" -> BriefingTypeOK
      [] open = "insight" -> InsightTypeOK
      [] open = "signal" -> SignalTypeOK
      [] open = "hotspot" -> HotspotTypeOK
      [] open = "queue" -> QueueTypeOK
      [] open = "weekly" -> WeeklyTypeOK
=============================================================================
