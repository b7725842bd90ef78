--------------------------- MODULE IssueLifecycle ---------------------------
(***************************************************************************)
(* The life of an issue as the API's handlers drive it: handleCreateIssue, *)
(* handleUpdateStatus and handleVerifyIssue of internal/api/issues.go.     *)
(*                                                                         *)
(* Each HTTP request runs in a goroutine of its own (a slot here) and      *)
(* executes its SQL statements one by one, each in its own transaction, so *)
(* the statements of concurrent requests interleave freely.  The           *)
(* authorisation of a request is decided on the row it read first and is   *)
(* not repeated when the row is written.  The statements after the status  *)
(* write are best effort: their failure is logged and the request goes on. *)
(* A request may also end between two statements: its context is cancelled *)
(* when the client disconnects or after 60 seconds, or the process stops.  *)
(***************************************************************************)
EXTENDS Naturals

CONSTANTS
    Users,           \* user ids
    Issues,          \* issue ids
    Slots,           \* request goroutines that may be in flight together
    NoRequest,       \* the value of an unused slot
    Reporter,        \* Reporter[i]: issues.user_id of issue i
    TokenRoles,      \* TokenRoles[u]: role claims of the live access tokens of u
    InConstituency,  \* the pairs <<u, i>> with issue i visible to u's constituency
    MaxFaults        \* bound on failed statements and cancelled requests

ASSUME LifecycleAssumption ==
    /\ Reporter \in [Issues -> Users]
    /\ TokenRoles \in [Users -> SUBSET {"citizen", "mp", "sysadmin", "admin"}]
    /\ InConstituency \subseteq Users \X Issues
    /\ MaxFaults \in Nat

VARIABLES
    status,      \* status[i]: issues.status, "none" while the row does not exist
    resolvedAt,  \* resolvedAt[i]: issues.resolved_at IS NOT NULL
    pc,          \* pc[s]: the statement the request in slot s executes next
    req,         \* req[s]: the request in slot s
    faults       \* statements that failed and requests that were cancelled

\* What the properties remember; no handler reads these.
VARIABLES
    setBy,       \* setBy[i]: whose request wrote status[i] last, or filed the issue
    claimed,     \* issues that have been pending verification at some time
    verified,    \* issues that have been declared resolved at some time
    noted,       \* issues with a note or comment since their status was written
    alone,       \* slots whose request has met no other on its issue and no fault
    settled      \* issues whose last status was written by such a request, now done

rows == <<status, resolvedAt>>
history == <<setBy, claimed, verified, noted>>
vars == <<rows, pc, req, faults, history, alone, settled>>

-----------------------------------------------------------------------------
\* The statuses an MP's token may ask for, those an admin's may (which are all
\* that handlers write), and the two a verification can end in.
MPStatuses == {"acknowledged", "in-progress", "pending-verification"}
HandlerStatuses == MPStatuses \cup {"open", "verified-resolved", "reopened"}
Verdicts == {"verified-resolved", "reopened"}

\* All a row can hold: "resolved" comes from the seed data only.
Statuses == HandlerStatuses \cup {"resolved"}

\* The spellings of a status that a request body may carry.
StatusInputs == Statuses \cup {"reported"}

\* A request past its checks: who acts, in which capacity, on which issue, the
\* status to write and whether there is a note or comment to store.
Request == [actor : Users, capacity : {"mp", "admin", "reporter"},
            issue : Issues, target : HandlerStatuses, note : BOOLEAN]

\* The default of the column issues.status, given to every created issue.
InitialStatus_Reported == "reported"
InitialStatus == "open"

normalizeIssueStatusInput(input) ==
    CASE input = "reported" -> "open"
      [] input = "resolved" -> "verified-resolved"
      [] OTHER -> input

\* The statuses a role may ask for.  Roles other than these two are refused.
AllowedStatuses_MPCloses(role) ==
    IF role = "mp" THEN MPStatuses \cup {"verified-resolved"}
    ELSE IF role = "admin" THEN HandlerStatuses ELSE {}
AllowedStatuses(role) ==
    IF role = "mp" THEN MPStatuses ELSE IF role = "admin" THEN HandlerStatuses ELSE {}

\* The role decides which targets are allowed; the status the issue is in
\* plays no part.  A claim of resolution needs a note.
validateIssueStatusChange_NoNote(role, st, note) == st \in AllowedStatuses(role)
validateIssueStatusChange(role, st, note) ==
    /\ st \in AllowedStatuses(role)
    /\ st = "pending-verification" => note

\* Only the reporter verifies, and only while the issue awaits it.
validateIssueVerificationEligibility_AnyStatus(i, u) == Reporter[i] = u
validateIssueVerificationEligibility(i, u) ==
    /\ Reporter[i] = u
    /\ normalizeIssueStatusInput(status[i]) = "pending-verification"

\* An MP manages the issues of the constituency; an admin manages every issue.
\* The rows this reads (zone, reporter, constituencies) are never updated, so
\* reading them belongs to the same step as reading the issue.
authorizeIssueManagement_Anywhere(role, u, i) == role \in {"mp", "admin"}
authorizeIssueManagement(role, u, i) == role = "mp" => <<u, i>> \in InConstituency

-----------------------------------------------------------------------------
\* The slots with a request in flight on issue i.
InFlight(i) == {s \in Slots : pc[s] # "idle" /\ req[s].issue = i}

\* A free slot takes request r, whose first statement read issue r.issue and
\* passed every check.  Requests already in flight on the issue are no longer
\* alone, and neither is the new one if there are any.
Accept(s, r) ==
    /\ pc[s] = "idle"
    /\ pc' = [pc EXCEPT ![s] = "write"]
    /\ req' = [req EXCEPT ![s] = r]
    /\ alone' = IF InFlight(r.issue) = {} THEN alone \cup {s} ELSE alone \ InFlight(r.issue)
    /\ UNCHANGED <<rows, faults, history, settled>>

\* The request in slot s ends and the slot is free again.
Leave(s) ==
    /\ pc' = [pc EXCEPT ![s] = "idle"]
    /\ req' = [req EXCEPT ![s] = NoRequest]
    /\ alone' = alone \ {s}

\* The request in slot s has executed its statements up to `next`, or all of
\* them if next = "idle".
Proceed(s, next) ==
    IF next = "idle"
    THEN /\ Leave(s)
         /\ settled' = IF s \in alone THEN settled \cup {req[s].issue} ELSE settled
    ELSE /\ pc' = [pc EXCEPT ![s] = next]
         /\ UNCHANGED <<req, alone, settled>>

\* The order of the statements: a status change writes its note before the
\* timestamp, a verification its comment after it.
AfterWrite(r) == IF r.capacity # "reporter" /\ r.note THEN "note" ELSE "stamp"
AfterStamp_Again(r) == IF r.capacity = "reporter" /\ r.note THEN "note" ELSE "stamp"
AfterStamp(r) == IF r.capacity = "reporter" /\ r.note THEN "note" ELSE "idle"
AfterNote_Ends(r) == "idle"
AfterNote(r) == IF r.capacity = "reporter" THEN "idle" ELSE "stamp"

\* Whether resolved_at is set after the timestamp statement of a request with
\* the given target: set unless it was already, or cleared.
Stamp_OnClaim(target) == target \in {"verified-resolved", "pending-verification"}
Stamp(target) == target = "verified-resolved"

-----------------------------------------------------------------------------
\* The database of a fresh deployment, or one filled by seed.sql, where a
\* "resolved" row has a timestamp if migration 7 ran after it was inserted.
Init ==
    /\ status \in [Issues -> {"none", "open", "in-progress", "resolved"}]
    /\ resolvedAt \in [Issues -> BOOLEAN]
    /\ \A i \in Issues : resolvedAt[i] => status[i] = "resolved"
    /\ pc = [s \in Slots |-> "idle"]
    /\ req = [s \in Slots |-> NoRequest]
    /\ faults = 0
    /\ setBy = Reporter
    /\ claimed = {i \in Issues : status[i] = "resolved"}
    /\ verified = claimed
    /\ noted = {}
    /\ alone = {}
    /\ settled = {}

\* POST /issues: the single INSERT of handleCreateIssue.
CreateIssue(i) ==
    /\ status[i] = "none"
    /\ status' = [status EXCEPT ![i] = InitialStatus]
    /\ UNCHANGED <<resolvedAt, pc, req, faults, history, alone, settled>>

\* PATCH /issues/{id}/status, up to the point where it writes: u acts with a
\* token that claims role, the issue exists and is the actor's to manage.
AcceptStatusChange(s, u, role, i) ==
    /\ role \in TokenRoles[u] \cap {"mp", "admin"}
    /\ status[i] # "none"
    /\ authorizeIssueManagement(role, u, i)
    /\ \E st \in {normalizeIssueStatusInput(input) : input \in StatusInputs}, note \in BOOLEAN :
         /\ validateIssueStatusChange(role, st, note)
         /\ Accept(s, [actor |-> u, capacity |-> role, issue |-> i,
                       target |-> st, note |-> note])

\* POST /issues/{id}/verify, up to the point where it writes.  A dispute
\* without a comment gets a standard one.
AcceptVerification(s, u, i) ==
    /\ validateIssueVerificationEligibility(i, u)
    /\ \E action \in {"confirm", "dispute"}, comment \in BOOLEAN :
         Accept(s, [actor |-> u, capacity |-> "reporter", issue |-> i,
                    target |-> IF action = "dispute" THEN "reopened" ELSE "verified-resolved",
                    note |-> comment \/ action = "dispute"])

-----------------------------------------------------------------------------
\* The row of the request's issue gets the target status: UpdateIssueStatus,
\* whose WHERE clause names the id only.
SetStatus(r) ==
    /\ status' = [status EXCEPT ![r.issue] = r.target]
    /\ setBy' = [setBy EXCEPT ![r.issue] = r.actor]
    /\ claimed' = IF r.target = "pending-verification" THEN claimed \cup {r.issue} ELSE claimed
    /\ verified' = IF r.target = "verified-resolved" THEN verified \cup {r.issue} ELSE verified
    /\ noted' = noted \ {r.issue}
    /\ settled' = settled \ {r.issue}

WriteStatus(s) ==
    /\ pc[s] = "write"
    /\ SetStatus(req[s])
    /\ pc' = [pc EXCEPT ![s] = AfterWrite(req[s])]
    /\ UNCHANGED <<resolvedAt, req, faults, alone>>

\* CreateComment stores the note of a status change or verification.
InsertNote(s) ==
    /\ pc[s] = "note"
    /\ noted' = noted \cup {req[s].issue}
    /\ Proceed(s, AfterNote(req[s]))
    /\ UNCHANGED <<rows, faults, setBy, claimed, verified>>

\* UPDATE issues SET resolved_at ..., by the target of this request: the row's
\* status is not read again.
WriteStamp(s) ==
    /\ pc[s] = "stamp"
    /\ LET i == req[s].issue IN
         resolvedAt' = [resolvedAt EXCEPT ![i] = Stamp(req[s].target)]
    /\ Proceed(s, AfterStamp(req[s]))
    /\ UNCHANGED <<status, faults, history>>

-----------------------------------------------------------------------------
Fault(s) ==
    /\ faults < MaxFaults
    /\ pc[s] # "idle"
    /\ faults' = faults + 1

\* The status write reports an error and the handler answers 500.  When the
\* connection broke after the commit, the row has changed all the same.
FailWrite(s) ==
    /\ pc[s] = "write"
    /\ Fault(s)
    /\ Leave(s)
    /\ SetStatus(req[s]) \/ UNCHANGED <<status, history, settled>>
    /\ UNCHANGED resolvedAt

\* The note is not stored; the error is logged and the handler goes on.
FailNote(s) ==
    /\ pc[s] = "note"
    /\ Fault(s)
    /\ IF AfterNote(req[s]) = "idle" THEN Leave(s)
       ELSE /\ pc' = [pc EXCEPT ![s] = AfterNote(req[s])]
            /\ alone' = alone \ {s}
            /\ UNCHANGED req
    /\ UNCHANGED <<rows, history, settled>>

\* The timestamp is not written; the error is logged and the handler goes on.
FailStamp(s) ==
    /\ pc[s] = "stamp"
    /\ Fault(s)
    /\ IF AfterStamp(req[s]) = "idle" THEN Leave(s)
       ELSE /\ pc' = [pc EXCEPT ![s] = AfterStamp(req[s])]
            /\ alone' = alone \ {s}
            /\ UNCHANGED req
    /\ UNCHANGED <<rows, history, settled>>

\* The process stops, or the context is cancelled and every later statement
\* fails at once: the request ends between two statements.
Abandon(s) ==
    /\ Fault(s)
    /\ Leave(s)
    /\ UNCHANGED <<rows, history, settled>>

-----------------------------------------------------------------------------
Statement(s) == WriteStatus(s) \/ InsertNote(s) \/ WriteStamp(s)

Next ==
    \/ \E i \in Issues : CreateIssue(i)
    \/ \E s \in Slots, u \in Users, i \in Issues :
         \/ \E role \in {"mp", "admin"} : AcceptStatusChange(s, u, role, i)
         \/ AcceptVerification(s, u, i)
    \/ \E s \in Slots :
         Statement(s) \/ FailWrite(s) \/ FailNote(s) \/ FailStamp(s) \/ Abandon(s)

\* A request that was accepted is executed: its goroutine is scheduled and each
\* statement returns, with an error after 60 seconds at the latest.  Clients
\* owe nothing.
Fairness == \A s \in Slots : WF_vars(Statement(s))

Spec == Init /\ [][Next]_vars
FairSpec == Spec /\ Fairness

-----------------------------------------------------------------------------
\* Every variable keeps its shape, and a slot holds a request exactly while
\* that request is in flight.  No handler ever writes a status outside the
\* lifecycle's vocabulary.
TypeOK ==
    /\ status \in [Issues -> Statuses \cup {"none"}]
    /\ resolvedAt \in [Issues -> BOOLEAN]
    /\ pc \in [Slots -> {"idle", "write", "note", "stamp"}]
    /\ req \in [Slots -> Request \cup {NoRequest}]
    /\ \A s \in Slots : IF pc[s] = "idle" THEN req[s] = NoRequest ELSE req[s] \in Request
    /\ faults \in 0..MaxFaults
    /\ setBy \in [Issues -> Users]
    /\ claimed \subseteq Issues /\ verified \subseteq Issues /\ noted \subseteq Issues
    /\ alone \subseteq Slots /\ settled \subseteq Issues

\* The separation of duties of the lifecycle: a status becomes one of the two
\* verdicts only through an admin's token or by the issue's own reporter, and
\* by the reporter only after somebody has claimed a resolution.  It has to
\* survive that the check and the write are separate statements.
OnlyReporterOrAdminDecides ==
    [][\A i \in Issues :
         status'[i] \in Verdicts /\ status'[i] # status[i] =>
           \E s \in Slots :
             /\ pc[s] = "write" /\ req[s].issue = i
             /\ \/ "admin" \in TokenRoles[req[s].actor]
                \/ req[s].actor = Reporter[i] /\ i \in claimed]_vars

\* resolved_at, meant for the response-time analytics, is only ever set on an
\* issue that was declared resolved, whatever requests interleave and whichever
\* statements fail.
StampRestsOnVerification == \A i \in Issues : resolvedAt[i] => i \in verified

\* A request that ran without meeting another on its issue and without a
\* fault leaves the two columns in agreement, whatever disagreement an
\* earlier race or failure left behind, until the status is written again.
SettledStampAgrees ==
    \A i \in settled : resolvedAt[i] <=> status[i] = "verified-resolved"

\* After such a request an issue that awaits verification carries the note
\* that the claim of resolution requires.
SettledClaimHasNote ==
    \A i \in settled : status[i] = "pending-verification" => i \in noted

\* The handlers, statement by statement, implement the atomic promise: whoever
\* wrote a status was entitled to that write, however the row and the other
\* requests moved between the check and the write.
Promise == INSTANCE IssueAccountability
Accountability == Promise!Spec

\* Every accepted request is answered.
RequestsReturn == \A s \in Slots : pc[s] # "idle" ~> pc[s] = "idle"

-----------------------------------------------------------------------------
\* Statements of the documentation and the code that the handlers do not keep
\* when requests on one issue overlap.

\* handleUpdateStatus: "Write resolved_at timestamp only when citizens/admin
\* fully verify resolution": with nothing in flight and nothing failed, an
\* issue that handlers moved carries a timestamp exactly if it is verified.
StampAgreesAtRest ==
    faults = 0 /\ (\A s \in Slots : pc[s] = "idle") =>
      \A i \in Issues :
        status[i] # "resolved" => (resolvedAt[i] <=> status[i] = "verified-resolved")

\* "issue is not awaiting citizen verification" is the refusal a reporter
\* gets: a verification changes the status of a pending issue only.
VerdictEndsPending ==
    [][\A s \in Slots :
         /\ pc[s] = "write" /\ req[s].capacity = "reporter"
         /\ status' # status
         /\ pc'[s] # "write"
         => status[req[s].issue] = "pending-verification"]_vars

=============================================================================
