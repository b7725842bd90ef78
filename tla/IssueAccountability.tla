------------------------- MODULE IssueAccountability -------------------------
(***************************************************************************)
(* What the issue API promises about the public record of an issue,        *)
(* without saying how: every write of an issue's status is one atomic step *)
(* in the name of the person who asked for it, and that person is entitled *)
(* to it: an MP of the issue's constituency, its reporter or an admin.     *)
(* The resolution timestamp is only ever set on an issue that has been     *)
(* verified.                                                               *)
(*                                                                         *)
(* IssueLifecycle, which models the handlers of internal/api/issues.go one *)
(* SQL statement at a time, is shown to implement this specification for   *)
(* every interleaving of requests and every failed statement.              *)
(***************************************************************************)
CONSTANTS
    Users,           \* user ids
    Issues,          \* issue ids
    Reporter,        \* Reporter[i]: the user who files issue i
    TokenRoles,      \* TokenRoles[u]: the roles that u can act in
    InConstituency   \* the pairs <<u, i>> with issue i in the constituency of u

VARIABLES
    status,      \* status[i]: issues.status, or "none" while the row does not exist
    setBy,       \* setBy[i]: who wrote the status, the reporter when the issue is filed
    resolvedAt,  \* resolvedAt[i]: issues.resolved_at IS NOT NULL
    claimed,     \* issues for which somebody has claimed a resolution
    verified     \* issues that have been declared resolved at some time

vars == <<status, setBy, resolvedAt, claimed, verified>>

-----------------------------------------------------------------------------
\* The statuses a request with an MP's token may ask for.
MPStatuses == {"acknowledged", "in-progress", "pending-verification"}

\* The statuses the handlers write.  The seed data and rows older than
\* migration 7 also hold "resolved", which no handler writes any more.
HandlerStatuses == MPStatuses \cup {"open", "verified-resolved", "reopened"}

\* The two outcomes of the reporter's verification.
Verdicts == {"verified-resolved", "reopened"}

\* The rows a database may start with: none, or the rows of seed.sql, where
\* a "resolved" row carries a timestamp if migration 7 backfilled it.
Init ==
    /\ status \in [Issues -> {"none", "open", "in-progress", "resolved"}]
    /\ setBy = Reporter
    /\ resolvedAt \in [Issues -> BOOLEAN]
    /\ \A i \in Issues : resolvedAt[i] => status[i] = "resolved"
    /\ claimed = {i \in Issues : status[i] = "resolved"}
    /\ verified = claimed

\* User u gives an existing issue the status st; the record remembers that a
\* resolution was claimed or verified.
Record(i, u, st) ==
    /\ status[i] # "none"
    /\ status' = [status EXCEPT ![i] = st]
    /\ setBy' = [setBy EXCEPT ![i] = u]
    /\ claimed' = IF st = "pending-verification" THEN claimed \cup {i} ELSE claimed
    /\ verified' = IF st = "verified-resolved" THEN verified \cup {i} ELSE verified
    /\ UNCHANGED resolvedAt

-----------------------------------------------------------------------------
\* A citizen files the issue.
File(i) ==
    /\ status[i] = "none"
    /\ status' = [status EXCEPT ![i] = "open"]
    /\ UNCHANGED <<setBy, resolvedAt, claimed, verified>>

\* An MP moves an issue of the own constituency along, at most to the claim
\* that it is resolved.
Handle(i, u) ==
    /\ "mp" \in TokenRoles[u]
    /\ <<u, i>> \in InConstituency
    /\ \E st \in MPStatuses : Record(i, u, st)

\* The reporter confirms or disputes; there must have been a claim to judge.
Decide(i, u) ==
    /\ u = Reporter[i]
    /\ i \in claimed
    /\ \E st \in Verdicts : Record(i, u, st)

\* An admin sets any status.
Override(i, u) ==
    /\ "admin" \in TokenRoles[u]
    /\ \E st \in HandlerStatuses : Record(i, u, st)

\* The timestamp is set, on an issue that has been verified, or cleared.
Timestamp(i) ==
    /\ \/ i \in verified /\ resolvedAt' = [resolvedAt EXCEPT ![i] = TRUE]
       \/ resolvedAt' = [resolvedAt EXCEPT ![i] = FALSE]
    /\ UNCHANGED <<status, setBy, claimed, verified>>

Next ==
    \E i \in Issues :
        \/ File(i) \/ Timestamp(i)
        \/ \E u \in Users : Handle(i, u) \/ Decide(i, u) \/ Override(i, u)

Spec == Init /\ [][Next]_vars

=============================================================================
