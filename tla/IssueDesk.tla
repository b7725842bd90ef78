------------------------------ MODULE IssueDesk ------------------------------
(***************************************************************************)
(* One issue in the browser of somebody who works on it: the copy in       *)
(* context/DataStoreContext.tsx and the form of                            *)
(* components/IssueDetailDrawer.tsx, for the MP's office ("mp") and for    *)
(* the reporter ("citizen").                                               *)
(*                                                                         *)
(* A write changes the local copy first, sends its requests one after the  *)
(* other, and ignores their failure; only the next list that is fetched    *)
(* corrects the copy.  Every change of the copy puts the case controls of  *)
(* the form back to those of the copy.  The handlers keep the values of    *)
(* the form that they began with.                                          *)
(*                                                                         *)
(* Severity, assignee and internal note, which one request writes, are one *)
(* value, the handling.  The comments are payload, but every change of     *)
(* them is a change of the copy.  The messages of the drawer are left out. *)
(* What other people do at the API is OthersWrite; so is what the API does *)
(* later for a request that the browser has taken for failed.              *)
(***************************************************************************)
EXTENDS Naturals

CONSTANTS
    Statuses,       \* the statuses of an issue
    OfficeStatuses, \* those that the drawer offers besides the current one
    Verdicts,       \* those that a reporter's verdict leads to
    Handlings,      \* what severity, assignee and note may be
    WriteSlots,     \* handlers that may be in flight together
    FetchSlots,     \* refreshes that may be in flight together
    Free            \* the value of an unused slot

ASSUME DeskAssumption ==
    /\ OfficeStatuses \subseteq Statuses /\ Verdicts \subseteq Statuses
    /\ "Pending Verification" \in OfficeStatuses

VARIABLES
    deskRole,  \* useRole().role
    row,       \* the issue at the API
    copy,      \* the issue in the data store
    drawer,    \* the drawer shows the issue
    form,      \* what the drawer's case controls hold
    noted,     \* the resolution note is filled in
    writes,    \* writes[w]: a handler in flight
    fetches    \* fetches[f]: a refreshIssues in flight

\* What the properties remember; no handler reads this.
VARIABLE
    calm       \* since the copy was last known to be right nobody else wrote, nothing
               \* failed, no two writes overlapped, no refresh overlapped with a write
               \* and none brought a list that was older than one

deskVars == <<deskRole, row, copy, drawer, form, noted, writes, fetches, calm>>

-----------------------------------------------------------------------------
\* What both sides know of the issue.
Work == [status : Statuses, handling : Handlings]

\* A handler: which request it waits for ("status" and "manage" of a save, the
\* post of a comment and the reload after it, a verdict), the work that the form
\* or the verdict asked for, and whether the API has done the request.
Write == [asks : {"status", "manage", "comment", "reload", "verdict"},
          work : Work, done : BOOLEAN]

\* A refresh: the list the API has read for it, if it has, and whether no write
\* was under way since it began.
Fetch == [got : Work \cup {Free}, clean : BOOLEAN]

ASSUME FreeAssumption == Free \notin Write \cup Fetch

Writing == {w \in WriteSlots : writes[w] # Free}
Fetching == {f \in FetchSlots : fetches[f] # Free}

\* statusOptions
Options == OfficeStatuses \cup {copy.status}

\* The handling that the second request of a save carries: that of the form
\* when the save began.
Carried_Form(w) == form.handling
Carried(w) == writes[w].work.handling

\* setIssues with a fetched list: the fetched issue replaces the copy.
Replaced(got) == got

\* The copy becomes c; the drawer's effect puts the form back.
SetCopy(c) == copy' = c /\ form' = c

BeginWrite(w, asks, work) ==
    /\ writes[w] = Free
    /\ writes' = [writes EXCEPT ![w] = [asks |-> asks, work |-> work, done |-> FALSE]]
    /\ calm' = (calm /\ Writing = {} /\ Fetching = {})
    /\ fetches' = [f \in FetchSlots |->
                     IF f \in Fetching THEN [fetches[f] EXCEPT !.clean = FALSE] ELSE Free]

EndWrite(w) == writes' = [writes EXCEPT ![w] = Free]

-----------------------------------------------------------------------------
\* The page has fetched the list once; the drawer is closed.
DeskInit ==
    /\ deskRole \in {"mp", "citizen"}
    /\ row \in [status : OfficeStatuses, handling : Handlings]
    /\ copy = row /\ form = row
    /\ drawer = FALSE /\ noted = FALSE
    /\ writes = [w \in WriteSlots |-> Free] /\ fetches = [f \in FetchSlots |-> Free]
    /\ calm = TRUE

\* A card is clicked: the form starts from the copy.  The comments that are
\* fetched may come later and put the form back once more.
OpenDrawer ==
    /\ ~drawer /\ drawer' = TRUE
    /\ UNCHANGED <<deskRole, row, copy, form, noted, writes, fetches, calm>>

CloseDrawer ==
    /\ drawer /\ drawer' = FALSE
    /\ form' = copy /\ noted' = FALSE
    /\ UNCHANGED <<deskRole, row, copy, writes, fetches, calm>>

\* loadComments, toggleUpvote and appendLocalComment replace the copy by one
\* with the same work.
TouchCopy ==
    /\ drawer /\ SetCopy(copy)
    /\ UNCHANGED <<deskRole, row, drawer, noted, writes, fetches, calm>>

\* The case controls.
ChooseStatus(s) ==
    /\ drawer /\ deskRole = "mp" /\ s \in Options
    /\ form' = [form EXCEPT !.status = s]
    /\ UNCHANGED <<deskRole, row, copy, drawer, noted, writes, fetches, calm>>

ChooseHandling(h) ==
    /\ drawer /\ deskRole = "mp"
    /\ form' = [form EXCEPT !.handling = h]
    /\ UNCHANGED <<deskRole, row, copy, drawer, noted, writes, fetches, calm>>

WriteNote ==
    /\ drawer /\ deskRole = "mp" /\ form.status = "Pending Verification"
    /\ noted' = ~noted
    /\ UNCHANGED <<deskRole, row, copy, drawer, form, writes, fetches, calm>>

-----------------------------------------------------------------------------
\* saveActions: a claim of resolution needs a note.  A new status is applied
\* to the copy and sent first; without one the handling is.
NeedsNote == form.status = "Pending Verification" /\ copy.status # form.status

SaveStatus(w) ==
    /\ drawer /\ deskRole = "mp"
    /\ NeedsNote => noted
    /\ form.status # copy.status
    /\ SetCopy([copy EXCEPT !.status = form.status])
    /\ BeginWrite(w, "status", form)
    /\ UNCHANGED <<deskRole, row, drawer, noted>>

SaveHandling(w) ==
    /\ drawer /\ deskRole = "mp"
    /\ form.status = copy.status
    /\ SetCopy([copy EXCEPT !.handling = form.handling])
    /\ BeginWrite(w, "manage", form)
    /\ UNCHANGED <<deskRole, row, drawer, noted>>

\* postComment and publishOfficialResponse.
PostComment(w) ==
    /\ drawer
    /\ SetCopy(copy)
    /\ BeginWrite(w, "comment", copy)
    /\ UNCHANGED <<deskRole, row, drawer, noted>>

\* verifyIssue, which the drawer offers to the reporter while the copy awaits
\* verification: confirm or dispute.
Verify(w, verdict) ==
    /\ drawer /\ deskRole = "citizen"
    /\ copy.status = "Pending Verification"
    /\ SetCopy([copy EXCEPT !.status = verdict])
    /\ BeginWrite(w, "verdict", [copy EXCEPT !.status = verdict])
    /\ UNCHANGED <<deskRole, row, drawer, noted>>

-----------------------------------------------------------------------------
\* The API does what handler w asks for.  A verdict needs an issue that awaits
\* one; an office is granted only the statuses it is offered.
Perform(w) ==
    /\ w \in Writing /\ ~writes[w].done
    /\ \/ /\ writes[w].asks = "status" /\ writes[w].work.status \in OfficeStatuses
          /\ row' = [row EXCEPT !.status = writes[w].work.status]
       \/ /\ writes[w].asks = "verdict" /\ row.status = "Pending Verification"
          /\ row' = [row EXCEPT !.status = writes[w].work.status]
       \/ /\ writes[w].asks = "manage"
          /\ row' = [row EXCEPT !.handling = Carried(w)]
       \/ writes[w].asks = "comment" /\ UNCHANGED row
    /\ writes' = [writes EXCEPT ![w].done = TRUE]
    /\ UNCHANGED <<deskRole, copy, drawer, form, noted, fetches, calm>>

\* Handler w, waiting for one of these requests, has its answer; or (not ok) the
\* request or its answer failed, which is logged, and the handler goes on.
Answered(w, asks, ok) ==
    /\ w \in Writing /\ writes[w].asks = asks
    /\ ok => writes[w].done \/ asks = "reload"
    /\ calm' = (calm /\ ok)

\* changeIssueStatus is over; saveIssueManagement changes the copy and sends.
StatusAnswered(w, ok) ==
    /\ Answered(w, "status", ok)
    /\ SetCopy([copy EXCEPT !.handling = writes[w].work.handling])
    /\ writes' = [writes EXCEPT ![w].asks = "manage", ![w].done = FALSE]
    /\ UNCHANGED <<deskRole, row, drawer, noted, fetches>>

\* saveIssueManagement is over; the answer holds the handling it stored.
ManageAnswered(w, ok) ==
    /\ Answered(w, "manage", ok)
    /\ IF ok THEN SetCopy([copy EXCEPT !.handling = writes[w].work.handling])
       ELSE UNCHANGED <<copy, form>>
    /\ noted' = FALSE
    /\ EndWrite(w)
    /\ UNCHANGED <<deskRole, row, drawer, fetches>>

\* A comment was posted, and its thread is fetched; or it was not.
CommentAnswered(w, ok) ==
    /\ Answered(w, "comment", ok)
    /\ IF ok THEN writes' = [writes EXCEPT ![w].asks = "reload"] ELSE EndWrite(w)
    /\ UNCHANGED <<deskRole, row, copy, drawer, form, noted, fetches>>

CommentsReloaded(w, ok) ==
    /\ Answered(w, "reload", ok)
    /\ IF ok THEN SetCopy(copy) ELSE UNCHANGED <<copy, form>>
    /\ EndWrite(w)
    /\ UNCHANGED <<deskRole, row, drawer, noted, fetches>>

VerdictAnswered(w, ok) ==
    /\ Answered(w, "verdict", ok)
    /\ EndWrite(w)
    /\ UNCHANGED <<deskRole, row, copy, drawer, form, noted, fetches>>

-----------------------------------------------------------------------------
\* refreshIssues: on entering, and whenever the window gets the focus.
Refresh(f) ==
    /\ fetches[f] = Free
    /\ fetches' = [fetches EXCEPT ![f] = [got |-> Free, clean |-> Writing = {}]]
    /\ calm' = (calm /\ Writing = {})
    /\ UNCHANGED <<deskRole, row, copy, drawer, form, noted, writes>>

ReadList(f) ==
    /\ f \in Fetching /\ fetches[f].got = Free
    /\ fetches' = [fetches EXCEPT ![f].got = row]
    /\ UNCHANGED <<deskRole, row, copy, drawer, form, noted, writes, calm>>

ListAnswered(f) ==
    /\ f \in Fetching /\ fetches[f].got # Free
    /\ SetCopy(Replaced(fetches[f].got))
    /\ calm' = fetches[f].clean
    /\ fetches' = [fetches EXCEPT ![f] = Free]
    /\ UNCHANGED <<deskRole, row, drawer, noted, writes>>

ListFails(f) ==
    /\ f \in Fetching
    /\ fetches' = [fetches EXCEPT ![f] = Free]
    /\ UNCHANGED <<deskRole, row, copy, drawer, form, noted, writes, calm>>

\* Somebody else works on the issue, or a request that the browser has given up
\* on is committed after all.  Any work may be the result.
OthersWrite ==
    /\ row' \in Work
    /\ calm' = FALSE
    /\ fetches' = [f \in FetchSlots |->
                     IF f \in Fetching THEN [fetches[f] EXCEPT !.clean = FALSE] ELSE Free]
    /\ UNCHANGED <<deskRole, copy, drawer, form, noted, writes>>

DeskNext ==
    \/ OpenDrawer \/ CloseDrawer \/ TouchCopy \/ WriteNote \/ OthersWrite
    \/ \E s \in Statuses : ChooseStatus(s)
    \/ \E h \in Handlings : ChooseHandling(h)
    \/ \E w \in WriteSlots :
         \/ SaveStatus(w) \/ SaveHandling(w) \/ PostComment(w) \/ Perform(w)
         \/ \E verdict \in Verdicts : Verify(w, verdict)
         \/ \E ok \in BOOLEAN :
              \/ StatusAnswered(w, ok) \/ ManageAnswered(w, ok) \/ CommentAnswered(w, ok)
              \/ CommentsReloaded(w, ok) \/ VerdictAnswered(w, ok)
    \/ \E f \in FetchSlots : Refresh(f) \/ ReadList(f) \/ ListAnswered(f) \/ ListFails(f)

DeskSpec == DeskInit /\ [][DeskNext]_deskVars

-----------------------------------------------------------------------------
\* Every variable keeps its shape.
DeskTypeOK ==
    /\ deskRole \in {"mp", "citizen"} /\ row \in Work /\ copy \in Work /\ form \in Work
    /\ drawer \in BOOLEAN /\ noted \in BOOLEAN /\ calm \in BOOLEAN
    /\ writes \in [WriteSlots -> Write \cup {Free}]
    /\ fetches \in [FetchSlots -> Fetch \cup {Free}]

\* While nobody else writes, nothing fails and a refresh overlaps with no write,
\* the copy is what the API has once the requests are answered; and a save has
\* stored the form as it was when the user saved it, although the optimistic
\* changes put the form back in between.
CalmDeskIsTrue ==
    calm =>
      /\ Writing = {} => copy = row
      /\ \A w \in Writing : writes[w].asks = "manage" /\ writes[w].done => row = writes[w].work
=============================================================================
