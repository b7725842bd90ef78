----------------------------- MODULE WeeklyList -----------------------------
(***************************************************************************)
(* The MP's weekly list, components/WeeklyFocusList.tsx, on the MP's       *)
(* dashboard.  It lives in localStorage, under one key for all tabs        *)
(* and all users of the browser, and in React state while the page is      *)
(* open.  Two effects keep the two together: one loads the list when the   *)
(* component is mounted and whenever the constituency of the user changes, *)
(* the other saves it whenever the state changes.                          *)
(*                                                                         *)
(* A page that is loaded by its address is rendered before the user is     *)
(* known, so that the first list is that of a default constituency, and    *)
(* AuthProvider's own effect supplies the user right after it.  The        *)
(* effects of one render run in one go, those of the next render later;    *)
(* React runs them before the next event of the tab, not of another tab.   *)
(*                                                                         *)
(* Of a list the model keeps the constituency that its first task names,   *)
(* if that is there, and which other tasks it has; a task that is ticked   *)
(* is another task.  What is stored was written here and parses.           *)
(***************************************************************************)
CONSTANTS
    WeekTabs,  \* the tabs of the browser
    Chores,    \* tasks that may be added or ticked
    Seats,     \* the constituencies
    HomeSeat,  \* 'Ayawaso West Wuogon'
    NoSeat,    \* nobody logged in; a list that names no constituency
    NoList     \* nothing stored; a list that is not loaded; the page is not open

VARIABLES
    weekStored,  \* govlens_mp_weekly_tasks in localStorage
    weeks        \* weeks[t]: the component in tab t

\* What the property remembers; no handler reads these.
VARIABLES
    listOwner,   \* the constituency of the MP who opened the page first
    listKept,    \* the list as somebody has left it
    solitary     \* one tab at a time, one MP, and no tab was closed while effects waited

weeklyVars == <<weekStored, weeks, listOwner, listKept, solitary>>

-----------------------------------------------------------------------------
Agenda == [names : Seats \cup {NoSeat}, chores : SUBSET Chores]

\* user, constituency, tasks and isMounted of a tab, and the effects that are due.
FocusList == [user : Seats \cup {NoSeat}, seat : Seats, tasks : Agenda \cup {NoList},
              isMounted : BOOLEAN, due : SUBSET {"load", "save"}]

ASSUME WeeklyAssumption ==
    HomeSeat \in Seats /\ NoSeat \notin Seats /\ NoList \notin Agenda \cup FocusList

getDefaultTasks(seat) == [names |-> seat, chores |-> {}]
seatOf(user) == IF user = NoSeat THEN HomeSeat ELSE user

OpenWeeks == {t \in WeekTabs : weeks[t] # NoList}
AtRest(t) == weeks[t].due = {}

\* What the loading effect finds: it runs before the saving one.
Found_AfterSave(saved) == saved
Found(saved) == weekStored

-----------------------------------------------------------------------------
WeeklyInit ==
    /\ weekStored = NoList /\ weeks = [t \in WeekTabs |-> NoList]
    /\ listOwner = NoSeat /\ listKept = NoList /\ solitary = TRUE

\* The page is opened by an MP, or with a token that has expired; by its address
\* (direct) or by a link, when the user is known already.
OpenWeek(t, who, direct) ==
    /\ weeks[t] = NoList
    /\ weeks' = [weeks EXCEPT ![t] =
         [user |-> who, seat |-> IF direct THEN HomeSeat ELSE seatOf(who),
          tasks |-> NoList, isMounted |-> FALSE, due |-> {"load", "save"}]]
    /\ listOwner' = IF listOwner = NoSeat THEN who ELSE listOwner
    /\ solitary' = (solitary /\ OpenWeeks = {} /\ who # NoSeat /\ listOwner \in {NoSeat, who})
    /\ UNCHANGED <<weekStored, listKept>>

\* What is stored when the effects of a render of component w have run.
Saved(w) == IF "save" \in w.due /\ w.isMounted THEN w.tasks ELSE weekStored

\* The next render of it, and the effects that are due then.
AfterEffects(w) ==
    LET found == Found(Saved(w))
        seat == seatOf(w.user)
    IN  [user |-> w.user, seat |-> seat, isMounted |-> TRUE,
         tasks |-> IF "load" \notin w.due THEN w.tasks
                   ELSE IF found # NoList THEN found ELSE getDefaultTasks(w.seat),
         due |-> {e \in {"load", "save"} : IF e = "load" THEN seat # w.seat ELSE "load" \in w.due}]

RunEffects(t) ==
    /\ t \in OpenWeeks /\ weeks[t].due # {}
    /\ weekStored' = Saved(weeks[t])
    /\ weeks' = [weeks EXCEPT ![t] = AfterEffects(@)]
    /\ UNCHANGED <<listOwner, listKept, solitary>>

\* setTasks in a handler of tab t.
SetTasks(t, tasks) ==
    /\ weeks' = [weeks EXCEPT ![t].tasks = tasks, ![t].due = {"save"}]
    /\ listKept' = tasks
    /\ UNCHANGED <<weekStored, listOwner>>

\* addTask, toggleTask or deleteTask of one of the chores
TurnChore(t, chore) ==
    /\ t \in OpenWeeks /\ AtRest(t)
    /\ SetTasks(t, [weeks[t].tasks EXCEPT !.chores =
                      IF chore \in @ THEN @ \ {chore} ELSE @ \cup {chore}])
    /\ UNCHANGED solitary

\* deleteTask of the task that names the constituency
DeleteFirst(t) ==
    /\ t \in OpenWeeks /\ AtRest(t) /\ weeks[t].tasks.names # NoSeat
    /\ SetTasks(t, [weeks[t].tasks EXCEPT !.names = NoSeat])
    /\ UNCHANGED solitary

\* resetTasks, confirmed
ResetTasks(t) ==
    /\ t \in OpenWeeks /\ AtRest(t)
    /\ SetTasks(t, getDefaultTasks(weeks[t].seat))
    /\ solitary' = (solitary /\ weeks[t].user # NoSeat)

\* The user logs out; the page of the login has not come yet.
EndSession(t) ==
    /\ t \in OpenWeeks /\ AtRest(t) /\ weeks[t].user # NoSeat
    /\ weeks' = [weeks EXCEPT ![t].user = NoSeat, ![t].seat = HomeSeat,
                              ![t].due = {e \in {"load"} : weeks[t].seat # HomeSeat}]
    /\ UNCHANGED <<weekStored, listOwner, listKept, solitary>>

\* The page is left or the tab is closed.
CloseWeek(t) ==
    /\ t \in OpenWeeks
    /\ weeks' = [weeks EXCEPT ![t] = NoList]
    /\ solitary' = (solitary /\ AtRest(t))
    /\ UNCHANGED <<weekStored, listOwner, listKept>>

WeeklyNext ==
    \E t \in WeekTabs :
      \/ RunEffects(t) \/ DeleteFirst(t) \/ ResetTasks(t) \/ EndSession(t) \/ CloseWeek(t)
      \/ \E who \in Seats \cup {NoSeat}, direct \in BOOLEAN : OpenWeek(t, who, direct)
      \/ \E chore \in Chores : TurnChore(t, chore)

WeeklySpec == WeeklyInit /\ [][WeeklyNext]_weeklyVars

-----------------------------------------------------------------------------
\* The component and what it stores are well formed.
WeeklyTypeOK ==
    /\ weekStored \in Agenda \cup {NoList} /\ weeks \in [WeekTabs -> FocusList \cup {NoList}]
    /\ listOwner \in Seats \cup {NoSeat} /\ listKept \in Agenda \cup {NoList}
    /\ solitary \in BOOLEAN

\* An MP who has the page open in one tab at a time, in a browser of his own,
\* finds the list as he left it, on the page and in the store once the effects
\* have run, although the component is rendered for another constituency first
\* and saves and loads more than once until it knows the user; and the first task
\* names no constituency but his.
WeeklyListIsKept ==
    solitary /\ (\A t \in OpenWeeks : AtRest(t)) =>
      /\ \A t \in OpenWeeks : weeks[t].tasks = weekStored
      /\ weekStored # NoList => weekStored.names \in {listOwner, NoSeat}
      /\ listKept # NoList => weekStored = listKept
=============================================================================
