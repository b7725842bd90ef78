------------------------------ MODULE Accounts ------------------------------
(***************************************************************************)
(* User rows and the MP profiles that belong to them: registration, bulk   *)
(* import and the role change of an admin, as the transactions of          *)
(* internal/db/mp_profile_workflows.go execute them.                       *)
(*                                                                         *)
(* A transaction runs under READ COMMITTED.  It sees what others have      *)
(* committed and nobody sees it before it commits, so its writes are       *)
(* modelled as taking effect at the commit.  From its write of the users   *)
(* row on it holds that row's lock, and others who write the row wait.     *)
(* ChangeUserRoleWithLifecycle reads the row BEFORE it takes the lock, and *)
(* goes by what it read.  Any statement may fail, which rolls back.  The   *)
(* texts of a profile are payload.                                         *)
(***************************************************************************)
EXTENDS Naturals

CONSTANTS
    Users,      \* the people, one e-mail address each
    Slots,      \* transactions that may run together
    NoTx,       \* the value of an unused slot
    Whitelist,  \* users whose address is in MP_WHITELIST_EMAILS
    MaxFaults   \* bound on failed statements

ASSUME AccountsAssumption == Whitelist \subseteq Users /\ MaxFaults \in Nat

VARIABLES
    role,       \* role[u]: users.role, "none" while the row does not exist
    located,    \* users whose row has a constituency
    profile,    \* profile[u]: mp_profiles.profile_status, "none" without a row
    pc,         \* pc[s]: what the transaction in slot s executes next
    tx,         \* tx[s]: the transaction in slot s
    faults      \* statements that have failed

\* What the properties remember; no handler reads these.
VARIABLES
    unlogged,   \* slots whose role change is committed and not in audit_logs
    raced       \* users on whom two role changes have overlapped

rows == <<role, located, profile>>
vars == <<rows, pc, tx, faults, unlogged, raced>>

-----------------------------------------------------------------------------
\* The roles an admin may assign.  "admin" comes from the seed data only.
ManagedRoles == {"citizen", "mp", "sysadmin"}
Roles == ManagedRoles \cup {"admin"}
Kinds == {"register", "import", "change"}

\* A transaction: its kind, the user, the role to write, the role that it read
\* ("none" when it creates the row), whether it knows of a constituency, and
\* whether the request carried the invite code.
Transaction ==
    [kind : Kinds, user : Users, target : ManagedRoles,
     seen : Roles \cup {"none"}, seat : BOOLEAN, code : BOOLEAN]

\* Whoever asks to be an MP needs a whitelisted address or the invite code, or
\* is refused; every other wish makes a citizen.
resolveRegistrationRole_Open(u, wish, code) == {IF wish = "mp" THEN "mp" ELSE "citizen"}
resolveRegistrationRole(u, wish, code) ==
    IF wish # "mp" THEN {"citizen"} ELSE IF u \in Whitelist \/ code THEN {"mp"} ELSE {}

\* An MP needs a constituency: a new row its own, an existing one its column's
\* unless the row was read as an MP's already.
hasConstituency_Unchecked(t) == t.kind # "change" /\ t.target = "mp" => t.seat
hasConstituency(t) == t.seen # "mp" /\ t.target = "mp" => t.seat

\* The profile of the transaction's user afterwards: activated for an MP, and
\* archived if the row was read as an MP's.
ProfileAfter_Kept(t) == IF t.target = "mp" THEN "active" ELSE profile[t.user]
ProfileAfter(t) ==
    IF t.target = "mp" THEN "active"
    ELSE IF t.seen = "mp" /\ profile[t.user] = "active" THEN "archived"
    ELSE profile[t.user]

\* The step after the write of the users row.
AfterRole(t) == IF t.target = "mp" \/ t.seen = "mp" THEN "profile" ELSE "commit"

\* The step after a failure: the handler answers with an error.
AfterFailure_Logs(t) == IF t.kind = "change" THEN "audit" ELSE "idle"
AfterFailure(t) == "idle"

-----------------------------------------------------------------------------
\* The rows of seed.sql, any of which may be missing.
Init ==
    /\ role \in [Users -> {"none", "citizen", "mp", "admin"}]
    /\ located = {u \in Users : role[u] \in {"citizen", "mp"}}
    /\ profile = [u \in Users |-> IF role[u] = "mp" THEN "active" ELSE "none"]
    /\ pc = [s \in Slots |-> "idle"]
    /\ tx = [s \in Slots |-> NoTx]
    /\ faults = 0
    /\ unlogged = {}
    /\ raced = {}

\* The slots whose transaction changes the role of u and is not over.
Changing(u) ==
    {s \in Slots : /\ pc[s] \in {"role", "profile", "commit"}
                   /\ tx[s].user = u /\ tx[s].kind = "change"}

\* The slot whose transaction holds the lock of the users row of u.
Holders_None(u) == {}
Holders_Self(u) == {s \in Slots : pc[s] \in {"role", "profile", "commit"} /\ tx[s].user = u}
Holders(u) == {s \in Slots : pc[s] \in {"profile", "commit"} /\ tx[s].user = u}

Begin(s, t) ==
    /\ pc[s] = "idle"
    /\ hasConstituency(t)
    /\ pc' = [pc EXCEPT ![s] = "role"]
    /\ tx' = [tx EXCEPT ![s] = t]
    /\ raced' = IF t.kind = "change" /\ Changing(t.user) # {}
                THEN raced \cup {t.user} ELSE raced
    /\ unlogged' = unlogged \ {s}
    /\ UNCHANGED <<rows, faults>>

\* POST /auth/register: every registration names a constituency.
BeginRegister(s, u) ==
    \E wish \in {"citizen", "mp"}, code \in BOOLEAN :
      \E r \in resolveRegistrationRole(u, wish, code) :
        Begin(s, [kind |-> "register", user |-> u, target |-> r, seen |-> "none",
                  seat |-> TRUE, code |-> code])

\* One row of POST /admin/users/bulk-import.
BeginImport(s, u) ==
    \E r \in ManagedRoles, hasColumn \in BOOLEAN :
      Begin(s, [kind |-> "import", user |-> u, target |-> r, seen |-> "none",
                seat |-> hasColumn, code |-> FALSE])

\* PATCH /admin/users/{id}/role, up to the read of the user's row.
BeginChange(s, u) ==
    /\ role[u] # "none"
    /\ \E r \in ManagedRoles :
         Begin(s, [kind |-> "change", user |-> u, target |-> r, seen |-> role[u],
                   seat |-> u \in located, code |-> FALSE])

-----------------------------------------------------------------------------
\* The transaction in slot s is over; what remains, if anything, is the log.
Leave(s, next) ==
    /\ pc' = [pc EXCEPT ![s] = next]
    /\ tx' = IF next = "idle" THEN [tx EXCEPT ![s] = NoTx] ELSE tx

\* INSERT INTO users or UPDATE users SET role, once the row's lock is free.
WriteRole(s) ==
    /\ pc[s] = "role"
    /\ Holders(tx[s].user) = {}
    /\ tx[s].kind # "change" => role[tx[s].user] = "none"
    /\ pc' = [pc EXCEPT ![s] = AfterRole(tx[s])]
    /\ UNCHANGED <<rows, tx, faults, unlogged, raced>>

\* The insertion of a user whose e-mail address is taken fails.
RefuseDuplicate(s) ==
    /\ pc[s] = "role"
    /\ Holders(tx[s].user) = {}
    /\ tx[s].kind # "change" /\ role[tx[s].user] # "none"
    /\ Leave(s, "idle")
    /\ UNCHANGED <<rows, faults, unlogged, raced>>

\* ensureActiveMPProfile or archiveMPProfile, seen by nobody yet.
WriteProfile(s) ==
    /\ pc[s] = "profile"
    /\ pc' = [pc EXCEPT ![s] = "commit"]
    /\ UNCHANGED <<rows, tx, faults, unlogged, raced>>

\* The writes of the transaction in slot s become visible.
Apply(s) ==
    LET t == tx[s] IN
    /\ role' = [role EXCEPT ![t.user] = t.target]
    /\ located' = IF t.kind # "change" /\ t.seat THEN located \cup {t.user} ELSE located
    /\ profile' = [profile EXCEPT ![t.user] = ProfileAfter(t)]
    /\ unlogged' = IF t.kind = "change" THEN unlogged \cup {s} ELSE unlogged

Commit(s) ==
    /\ pc[s] = "commit"
    /\ Apply(s)
    /\ Leave(s, IF tx[s].kind = "change" THEN "audit" ELSE "idle")
    /\ UNCHANGED <<faults, raced>>

\* The handler logs the change in a statement of its own.
Audit(s) ==
    /\ pc[s] = "audit"
    /\ unlogged' = unlogged \ {s}
    /\ Leave(s, "idle")
    /\ UNCHANGED <<rows, faults, raced>>

-----------------------------------------------------------------------------
Fault(s) ==
    /\ faults < MaxFaults
    /\ faults' = faults + 1
    /\ UNCHANGED raced

\* A statement fails or the request is cancelled: the deferred rollback undoes
\* the transaction and frees the lock.
Rollback(s) ==
    /\ pc[s] \in {"role", "profile", "commit"}
    /\ Fault(s)
    /\ Leave(s, AfterFailure(tx[s]))
    /\ UNCHANGED <<rows, unlogged>>

\* The commit succeeds but its answer is lost: the handler sees an error.
LoseCommit(s) ==
    /\ pc[s] = "commit"
    /\ Fault(s)
    /\ Apply(s)
    /\ Leave(s, AfterFailure(tx[s]))

\* The log entry is not written; the error is ignored.
LoseAudit(s) ==
    /\ pc[s] = "audit"
    /\ Fault(s)
    /\ Leave(s, "idle")
    /\ UNCHANGED <<rows, unlogged>>

-----------------------------------------------------------------------------
Next ==
    \/ \E s \in Slots, u \in Users : BeginRegister(s, u) \/ BeginImport(s, u) \/ BeginChange(s, u)
    \/ \E s \in Slots :
         \/ WriteRole(s) \/ RefuseDuplicate(s) \/ WriteProfile(s) \/ Commit(s) \/ Audit(s)
         \/ Rollback(s) \/ LoseCommit(s) \/ LoseAudit(s)

\* Statements return, and the waiters for a row's lock are served in turn, so
\* none waits for ever while others come and go.
Fairness ==
    \A s \in Slots :
      /\ SF_vars(WriteRole(s) \/ RefuseDuplicate(s))
      /\ WF_vars(WriteProfile(s) \/ Commit(s) \/ Audit(s))

Spec == Init /\ [][Next]_vars
FairSpec == Spec /\ Fairness

-----------------------------------------------------------------------------
\* Every variable keeps its shape, and a slot holds a transaction exactly
\* while it is in flight.
TypeOK ==
    /\ role \in [Users -> Roles \cup {"none"}]
    /\ located \subseteq Users
    /\ profile \in [Users -> {"none", "active", "archived"}]
    /\ pc \in [Slots -> {"idle", "role", "profile", "commit", "audit"}]
    /\ tx \in [Slots -> Transaction \cup {NoTx}]
    /\ \A s \in Slots : IF pc[s] = "idle" THEN tx[s] = NoTx ELSE tx[s] \in Transaction
    /\ faults \in 0..MaxFaults
    /\ unlogged \subseteq Slots
    /\ raced \subseteq Users

\* An MP always has a constituency to stand for and a profile that the public
\* directory shows, although the transactions that see to both of them go by a
\* row that may have changed since they read it.
MPHasActiveProfile ==
    \A u \in Users : role[u] = "mp" => u \in located /\ profile[u] = "active"

\* The converse holds of users whose role changes never overlapped: whoever is
\* no MP any more has no active profile left.
ProfileFollowsRole ==
    \A u \in Users \ raced : profile[u] = "active" => role[u] = "mp"

\* "MP onboarding requires admin approval or whitelist": an account turns into
\* an MP's by the invite code, the whitelist, or a transaction of an admin's.
OnboardingIsGated ==
    [][\A u \in Users \ Whitelist :
         role'[u] = "mp" /\ role[u] # "mp" =>
           \E s \in Slots : /\ pc[s] = "commit" /\ tx[s].user = u
                           /\ (tx[s].kind = "register" => tx[s].code)]_vars

\* The audit log never reports a change that did not happen, and without
\* faults it misses none.
AuditIsTrue ==
    \A s \in Slots :
      /\ pc[s] = "audit" => s \in unlogged
      /\ faults = 0 /\ s \in unlogged => pc[s] = "audit"

-----------------------------------------------------------------------------
\* Transactions seen from outside, through the rows that are committed.
Register == INSTANCE OfficeRegister WITH contested <- raced

\* A registration, an import or a role change that met no other change of the
\* same user's role acts as if it had read and written the user and the profile
\* in one step; one that met another still leaves an MP with both.
ActsInOneStep == Register!Spec

\* Every transaction comes to an end: no waiting for a lock is for ever.
TransactionsEnd == \A s \in Slots : pc[s] # "idle" ~> pc[s] = "idle"

=============================================================================
