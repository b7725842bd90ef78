--------------------------- MODULE OfficeRegister ---------------------------
(***************************************************************************)
(* What Accounts promises to whoever looks only at committed rows: users   *)
(* enrol, enter office and leave it in single steps that see the row they  *)
(* change.  There are no transactions, locks or reads of an earlier row.   *)
(*                                                                         *)
(* The one concession is to users on whom two role changes have met.  For  *)
(* them a move out of office need not archive the profile, and a move that *)
(* is none may.                                                            *)
(***************************************************************************)
CONSTANT Users

VARIABLES
    role,       \* role[u]: the role, "none" before the user enrols
    located,    \* users with a constituency
    profile,    \* profile[u]: "none", "active" (shown to the public), "archived"
    contested   \* users on whom two role changes have met

regVars == <<role, located, profile, contested>>

Init ==
    /\ role \in [Users -> {"none", "citizen", "mp", "admin"}]
    /\ located = {u \in Users : role[u] \in {"citizen", "mp"}}
    /\ profile = [u \in Users |-> IF role[u] = "mp" THEN "active" ELSE "none"]
    /\ contested = {}

-----------------------------------------------------------------------------
\* A person becomes a user once, and an MP only with a constituency.
Enroll(u, r, seat) ==
    /\ role[u] = "none"
    /\ r = "mp" => seat
    /\ role' = [role EXCEPT ![u] = r]
    /\ located' = IF seat THEN located \cup {u} ELSE located
    /\ profile' = IF r = "mp" THEN [profile EXCEPT ![u] = "active"] ELSE profile
    /\ UNCHANGED contested

\* A user with a constituency enters office: the profile is shown from then on.
Appoint(u) ==
    /\ role[u] # "none" /\ u \in located
    /\ role' = [role EXCEPT ![u] = "mp"]
    /\ profile' = [profile EXCEPT ![u] = "active"]
    /\ UNCHANGED <<located, contested>>

\* What becomes of the profile of a user who is moved to another role.
Outcomes(u) ==
    IF u \in contested THEN {profile[u]} \cup {p \in {"archived"} : profile[u] = "active"}
    ELSE IF role[u] = "mp" THEN {"archived"} ELSE {profile[u]}

Move(u, r) ==
    /\ role[u] # "none"
    /\ role' = [role EXCEPT ![u] = r]
    /\ \E p \in Outcomes(u) : profile' = [profile EXCEPT ![u] = p]
    /\ UNCHANGED <<located, contested>>

Contest(u) ==
    /\ contested' = contested \cup {u}
    /\ UNCHANGED <<role, located, profile>>

Next ==
    \E u \in Users :
      \/ \E r \in {"citizen", "mp", "sysadmin"}, seat \in BOOLEAN : Enroll(u, r, seat)
      \/ Appoint(u)
      \/ \E r \in {"citizen", "sysadmin"} : Move(u, r)
      \/ Contest(u)

Spec == Init /\ [][Next]_regVars

=============================================================================
