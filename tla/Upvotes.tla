------------------------------- MODULE Upvotes -------------------------------
(***************************************************************************)
(* The upvote button: the tabs that show a counter and an own vote and     *)
(* change both before the server has answered, the requests in flight, and *)
(* the statement ToggleUpvote, which decides by its snapshot whether to    *)
(* insert or to delete a row.  Statements of one user that overlap decide  *)
(* by the same snapshot; the unique index and the row lock then settle     *)
(* what each of them does.                                                 *)
(*                                                                         *)
(* A tab also fetches the list, when it opens and whenever it is focused,  *)
(* and replaces what it shows by the answer, in the order of arrival.      *)
(***************************************************************************)
EXTENDS Integers, FiniteSets

CONSTANTS
    Users,      \* user ids
    Issues,     \* issue ids
    Tabs,       \* browser tabs
    Owner,      \* Owner[b]: the user who is logged in in tab b
    Toggles,    \* POST /issues/{id}/upvote in flight
    Gets,       \* GET /issues in flight
    Nothing,    \* no request, nothing shown yet
    Surplus,    \* Surplus[i]: by how much seed.sql's counter exceeds its rows
    MaxClicks,  \* bound on clicks
    MaxFaults   \* bound on failed requests

ASSUME UpvotesAssumption ==
    /\ IsFiniteSet(Users)
    /\ Owner \in [Tabs -> Users] /\ Surplus \in [Issues -> Nat]
    /\ MaxClicks \in Nat /\ MaxFaults \in Nat

VARIABLES
    rows,     \* the table issue_upvotes: pairs <<i, u>>
    upvotes,  \* upvotes[i]: issues.upvotes
    toggle,   \* toggle[t]: an upvote request
    get,      \* get[g]: a request for the list
    shown,    \* shown[b]: what tab b displays
    clicks,   \* clicks so far
    faults,   \* failed requests
    \* What the properties remember; like get[g].alone, no handler reads these.
    calm,     \* tabs whose list and whose clicks since nothing has overlapped with
    had       \* had[b]: the issues that b's owner had voted for when b's list was read

ledger == <<rows, upvotes>>
tabs == <<shown, calm, had>>
vars == <<ledger, toggle, get, tabs, clicks, faults>>

-----------------------------------------------------------------------------
\* step: the request is under way, its statement has found a row in its
\* snapshot or none, the row it had found is gone, or the answer is under way.
Toggle == [tab : Tabs, issue : Issues,
           step : {"sent", "absent", "present", "gone", "ok", "failed"}]

\* The list as the server answers it: counters and own votes.  A request is
\* alone if no click was in flight when it was sent or has come since.
List == [votes : [Issues -> Nat], is_upvoted : SUBSET Issues]
Get == [tab : Tabs, alone : BOOLEAN, list : List \cup {Nothing}]

\* The list as a tab shows it.
View == [votes : [Issues -> Nat], upvotedIds : SUBSET Issues]

ASSUME NothingAssumption == Nothing \notin Toggle /\ Nothing \notin Get /\ Nothing \notin View

Voters(i) == {u \in Users : <<i, u>> \in rows}
VotesOf(u) == {i \in Issues : <<i, u>> \in rows}
TheRow(r) == <<r.issue, Owner[r.tab]>>
Idle == \A t \in Toggles : toggle[t] = Nothing

\* The optimistic update of toggleUpvote.
Flip_Swapped(view, i) ==
    IF i \in view.upvotedIds
    THEN [votes |-> [view.votes EXCEPT ![i] = @ + 1], upvotedIds |-> view.upvotedIds \cup {i}]
    ELSE [votes |-> [view.votes EXCEPT ![i] = @ - 1], upvotedIds |-> view.upvotedIds \ {i}]
Flip(view, i) ==
    IF i \in view.upvotedIds
    THEN [votes |-> [view.votes EXCEPT ![i] = @ - 1], upvotedIds |-> view.upvotedIds \ {i}]
    ELSE [votes |-> [view.votes EXCEPT ![i] = @ + 1], upvotedIds |-> view.upvotedIds \cup {i}]

\* Its revert after an error toggles what is shown by then.
Revert_Keeps(view, i) == view
Revert(view, i) == Flip(view, i)

\* What a tab makes of a list: it looks for a field has_upvoted, and the
\* server's is called is_upvoted.
has_upvoted(list) == {}
Mapped(list) == [votes |-> list.votes, upvotedIds |-> has_upvoted(list)]

\* The database as seed.sql leaves it, and tabs that are opening.
Init ==
    /\ rows \in SUBSET (Issues \X Users)
    /\ upvotes = [i \in Issues |-> Surplus[i] + Cardinality(Voters(i))]
    /\ toggle = [t \in Toggles |-> Nothing]
    /\ get = [g \in Gets |-> Nothing]
    /\ shown = [b \in Tabs |-> Nothing]
    /\ clicks = 0 /\ faults = 0
    /\ calm = {} /\ had = [b \in Tabs |-> {}]

Fault == faults < MaxFaults /\ faults' = faults + 1

-----------------------------------------------------------------------------
\* toggleUpvote: the tab changes what it shows and posts.
Click(b, i, t) ==
    /\ shown[b] # Nothing /\ toggle[t] = Nothing
    /\ clicks < MaxClicks /\ clicks' = clicks + 1
    /\ shown' = [shown EXCEPT ![b] = Flip(@, i)]
    /\ toggle' = [toggle EXCEPT ![t] = [tab |-> b, issue |-> i, step |-> "sent"]]
    /\ calm' = IF Idle THEN calm \cap {b} ELSE {}
    /\ get' = [g \in Gets |-> IF get[g] = Nothing THEN Nothing
                              ELSE [get[g] EXCEPT !.alone = FALSE]]
    /\ UNCHANGED <<ledger, had, faults>>

\* ToggleUpvote takes its snapshot.
Snapshot(t) ==
    /\ toggle[t] # Nothing /\ toggle[t].step = "sent"
    /\ toggle' = [toggle EXCEPT ![t].step = IF TheRow(toggle[t]) \in rows THEN "present"
                                            ELSE "absent"]
    /\ UNCHANGED <<ledger, get, tabs, clicks, faults>>

\* What the statement does to its row: a row that is already there breaks the
\* primary key, and one that has been deleted meanwhile is not deleted again,
\* although another may have been inserted.
Outcome_Upsert(r) ==
    CASE r.step = "absent" -> "inserted" [] r.step = "present" -> "deleted" [] OTHER -> "none"
Outcome(r) ==
    CASE r.step = "absent" -> (IF TheRow(r) \in rows THEN "conflict" ELSE "inserted")
      [] r.step = "present" -> "deleted"
      [] OTHER -> "none"

\* What it adds to the counter: the rows inserted less the rows deleted.  A
\* statement that waited for the issue's row adds to the newest counter.
Delta_BySnapshot(r) == IF r.step = "absent" THEN 1 ELSE -1
Delta(r) == CASE Outcome(r) = "inserted" -> 1 [] Outcome(r) = "deleted" -> -1 [] OTHER -> 0

\* The statement's effect; a deletion takes the row from the statements that
\* have it in their snapshots.
Effect(t, step) ==
    LET r == toggle[t]
        deleted == Outcome(r) = "deleted"
    IN
    /\ rows' = CASE Outcome(r) = "inserted" -> rows \cup {TheRow(r)}
                 [] deleted -> rows \ {TheRow(r)}
                 [] OTHER -> rows
    /\ upvotes' = [upvotes EXCEPT ![r.issue] = @ + Delta(r)]
    /\ toggle' = [x \in Toggles |->
                   IF x = t THEN [r EXCEPT !.step = step]
                   ELSE IF /\ deleted /\ toggle[x] # Nothing /\ toggle[x].step = "present"
                           /\ TheRow(toggle[x]) = TheRow(r)
                        THEN [toggle[x] EXCEPT !.step = "gone"] ELSE toggle[x]]

\* It executes and commits, or breaks the primary key, and the handler answers.
Execute(t) ==
    /\ toggle[t] # Nothing /\ toggle[t].step \in {"absent", "present", "gone"}
    /\ IF Outcome(toggle[t]) = "conflict"
       THEN toggle' = [toggle EXCEPT ![t].step = "failed"] /\ UNCHANGED ledger
       ELSE Effect(t, "ok")
    /\ UNCHANGED <<get, tabs, clicks, faults>>

\* The request fails: it or the statement never got through, or the statement
\* is committed and the answer lost.
FailToggle(t) ==
    /\ toggle[t] # Nothing /\ Fault
    /\ \/ /\ toggle[t].step \in {"sent", "absent", "present", "gone"}
          /\ toggle' = [toggle EXCEPT ![t].step = "failed"]
          /\ UNCHANGED <<ledger, calm>>
       \/ /\ toggle[t].step \in {"absent", "present", "gone"}
          /\ Outcome(toggle[t]) # "conflict"
          /\ Effect(t, "failed")
          /\ calm' = {}
    /\ UNCHANGED <<get, shown, had, clicks>>

\* The answer arrives; an error reverts.
Answer(t) ==
    LET r == toggle[t] IN
    /\ r # Nothing /\ r.step \in {"ok", "failed"}
    /\ toggle' = [toggle EXCEPT ![t] = Nothing]
    /\ shown' = IF r.step = "failed"
                THEN [shown EXCEPT ![r.tab] = Revert(@, r.issue)] ELSE shown
    /\ UNCHANGED <<ledger, get, calm, had, clicks, faults>>

-----------------------------------------------------------------------------
\* The tab opens, gets the focus or becomes visible: refreshIssues.
AskList(b, g) ==
    /\ get[g] = Nothing
    /\ get' = [get EXCEPT ![g] = [tab |-> b, alone |-> Idle, list |-> Nothing]]
    /\ UNCHANGED <<ledger, toggle, tabs, clicks, faults>>

\* ListIssuesWithUpvote reads counters and votes in one statement.
ReadList(g) ==
    /\ get[g] # Nothing /\ get[g].list = Nothing
    /\ get' = [get EXCEPT ![g].list =
                 [votes |-> upvotes, is_upvoted |-> VotesOf(Owner[get[g].tab])]]
    /\ UNCHANGED <<ledger, toggle, tabs, clicks, faults>>

\* The tab replaces what it shows.
ShowList(g) ==
    LET r == get[g] IN
    /\ r # Nothing /\ r.list # Nothing
    /\ get' = [get EXCEPT ![g] = Nothing]
    /\ shown' = [shown EXCEPT ![r.tab] = Mapped(r.list)]
    /\ calm' = IF r.alone THEN calm \cup {r.tab} ELSE calm \ {r.tab}
    /\ had' = [had EXCEPT ![r.tab] = r.list.is_upvoted]
    /\ UNCHANGED <<ledger, toggle, clicks, faults>>

\* The request fails, and the tab goes on showing what it did.
FailList(g) ==
    /\ get[g] # Nothing /\ Fault
    /\ get' = [get EXCEPT ![g] = Nothing]
    /\ UNCHANGED <<ledger, toggle, tabs, clicks>>

Next ==
    \/ \E b \in Tabs, i \in Issues, t \in Toggles : Click(b, i, t)
    \/ \E t \in Toggles : Snapshot(t) \/ Execute(t) \/ FailToggle(t) \/ Answer(t)
    \/ \E b \in Tabs, g \in Gets : AskList(b, g)
    \/ \E g \in Gets : ReadList(g) \/ ShowList(g) \/ FailList(g)

Spec == Init /\ [][Next]_vars

-----------------------------------------------------------------------------
\* Every variable keeps its shape; no counter, shown or stored, drops below 0.
TypeOK ==
    /\ rows \subseteq Issues \X Users
    /\ upvotes \in [Issues -> Nat]
    /\ toggle \in [Toggles -> Toggle \cup {Nothing}]
    /\ get \in [Gets -> Get \cup {Nothing}]
    /\ shown \in [Tabs -> View \cup {Nothing}]
    /\ clicks \in 0..MaxClicks /\ faults \in 0..MaxFaults
    /\ calm \subseteq Tabs /\ had \in [Tabs -> SUBSET Issues]

\* The counter of an issue is the number of its votes, over what seed.sql gave
\* it, however toggles of one user or of several overlap and fail.
CounterIsVotes ==
    \A i \in Issues : upvotes[i] = Surplus[i] + Cardinality(Voters(i))

\* Seen from the database, votes are cast and withdrawn one at a time.
OneVoteAtATime == INSTANCE UpvoteLedger WITH rows <- rows, upvotes <- upvotes
Ledger == OneVoteAtATime!Spec

\* A tab that loaded its list and since then made its clicks without meeting
\* any others ends up showing what the database holds, whether they succeeded
\* or failed, for the issues that its user had not voted for before.
QuietTabAgrees ==
    Idle =>
      \A b \in calm : \A i \in Issues \ had[b] :
        /\ shown[b].votes[i] = upvotes[i]
        /\ i \in shown[b].upvotedIds <=> i \in VotesOf(Owner[b])

=============================================================================
