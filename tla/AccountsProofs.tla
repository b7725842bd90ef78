--------------------------- MODULE AccountsProofs ---------------------------
(***************************************************************************)
(* Proofs about Accounts, for every number of users and of concurrent      *)
(* transactions and every bound on faults.                                 *)
(***************************************************************************)
EXTENDS Accounts, TLAPS

-----------------------------------------------------------------------------
Open(s) == pc[s] \in {"role", "profile", "commit"}
Holding(s) == pc[s] \in {"profile", "commit"}

\* Row locks: two transactions that have written the users row of one user are
\* never open together, so a row that one is about to insert does not exist.
LocksExclude ==
    \A s \in Slots : Holding(s) =>
      /\ tx[s].kind # "change" => role[tx[s].user] = "none"
      /\ \A t \in Slots : t # s /\ Holding(t) => tx[t].user # tx[s].user

\* What a transaction read or was given suffices for the role it will write,
\* however the row has changed since.
ReadsSuffice ==
    \A s \in Slots : Open(s) =>
      IF tx[s].kind = "change"
      THEN /\ role[tx[s].user] # "none"
           /\ tx[s].target = "mp" => tx[s].user \in located
      ELSE /\ tx[s].seen = "none"
           /\ tx[s].target = "mp" => tx[s].seat

OfficeInv == LocksExclude /\ ReadsSuffice /\ MPHasActiveProfile

\* While the changes of a user's role have not overlapped, the one in flight
\* is the only one, and the role it read is still the user's.
ReadsAreFresh ==
    \A s \in Slots : Open(s) /\ tx[s].kind = "change" /\ tx[s].user \notin raced =>
      /\ tx[s].seen = role[tx[s].user]
      /\ \A t \in Slots : t # s /\ Open(t) /\ tx[t].kind = "change" => tx[t].user # tx[s].user

FollowInv == ReadsAreFresh /\ ProfileFollowsRole

-----------------------------------------------------------------------------
\* The role that a registration resolves to is one that may be stored.
LEMMA ResolvedRoles ==
    ASSUME NEW u, NEW wish, NEW code, NEW r \in resolveRegistrationRole(u, wish, code)
    PROVE  r \in ManagedRoles
  BY DEF resolveRegistrationRole, ManagedRoles

\* Whatever a handler begins is a transaction.  A registration or import reads
\* no role and names a constituency if it makes an MP; a role change reads the
\* role of a row that exists.
LEMMA BegunIsTransaction ==
    ASSUME TypeOK, NEW s \in Slots, NEW u \in Users,
           BeginRegister(s, u) \/ BeginImport(s, u) \/ BeginChange(s, u)
    PROVE  \E t \in Transaction :
             /\ Begin(s, t)
             /\ t.kind = "change" =>
                  role[t.user] # "none" /\ t.seen = role[t.user] /\ (t.seat => t.user \in located)
             /\ t.kind # "change" => t.seen = "none"
<1>1. CASE BeginRegister(s, u)
  <2>1. PICK wish \in {"citizen", "mp"}, code \in BOOLEAN :
          \E r \in resolveRegistrationRole(u, wish, code) :
            Begin(s, [kind |-> "register", user |-> u, target |-> r, seen |-> "none",
                      seat |-> TRUE, code |-> code])
    BY <1>1 DEF BeginRegister
  <2>2. PICK r \in resolveRegistrationRole(u, wish, code) :
          Begin(s, [kind |-> "register", user |-> u, target |-> r, seen |-> "none",
                    seat |-> TRUE, code |-> code])
    BY <2>1
  <2>3. r \in ManagedRoles
    BY ResolvedRoles
  <2> DEFINE t == [kind |-> "register", user |-> u, target |-> r, seen |-> "none",
                   seat |-> TRUE, code |-> code]
  <2>4. t \in Transaction /\ t.kind # "change" /\ t.seen = "none"
    BY <2>3 DEF Transaction, Kinds
  <2>5. Begin(s, t)
    BY <2>2
  <2> HIDE DEF t
  <2>6. QED
    BY <2>4, <2>5
<1>2. CASE BeginImport(s, u)
  <2>1. PICK r \in ManagedRoles, hasColumn \in BOOLEAN :
          Begin(s, [kind |-> "import", user |-> u, target |-> r, seen |-> "none",
                    seat |-> hasColumn, code |-> FALSE])
    BY <1>2 DEF BeginImport
  <2> DEFINE t == [kind |-> "import", user |-> u, target |-> r, seen |-> "none",
                   seat |-> hasColumn, code |-> FALSE]
  <2>2. t \in Transaction /\ t.kind # "change" /\ t.seen = "none"
    BY DEF Transaction, Kinds
  <2>3. Begin(s, t)
    BY <2>1
  <2> HIDE DEF t
  <2>4. QED
    BY <2>2, <2>3
<1>3. CASE BeginChange(s, u)
  <2>1. PICK r \in ManagedRoles :
          Begin(s, [kind |-> "change", user |-> u, target |-> r, seen |-> role[u],
                    seat |-> u \in located, code |-> FALSE])
    BY <1>3 DEF BeginChange
  <2> DEFINE t == [kind |-> "change", user |-> u, target |-> r, seen |-> role[u],
                   seat |-> u \in located, code |-> FALSE]
  <2>2. role[u] # "none" /\ role[u] \in Roles \cup {"none"}
    BY <1>3 DEF BeginChange, TypeOK
  <2>3. t \in Transaction
    BY <2>2 DEF Transaction, Kinds
  <2>4. /\ t.kind = "change" =>
             role[t.user] # "none" /\ t.seen = role[t.user] /\ (t.seat => t.user \in located)
        /\ t.kind # "change" => t.seen = "none"
    BY <2>2
  <2>5. Begin(s, t)
    BY <2>1
  <2> HIDE DEF t
  <2>6. QED
    BY <2>3, <2>4, <2>5
<1>4. QED
  BY <1>1, <1>2, <1>3

-----------------------------------------------------------------------------
\* The type invariant.
THEOREM TypeCorrect == Spec => []TypeOK
<1> USE AccountsAssumption
<1>1. Init => TypeOK
  BY DEF Init, TypeOK, Roles, ManagedRoles
<1>2. TypeOK /\ [Next]_vars => TypeOK'
  <2> SUFFICES ASSUME TypeOK, [Next]_vars
               PROVE  TypeOK'
    OBVIOUS
  <2> USE DEF TypeOK
  <2>1. ASSUME NEW s \in Slots, NEW u \in Users,
               BeginRegister(s, u) \/ BeginImport(s, u) \/ BeginChange(s, u)
        PROVE  TypeOK'
    <3>1. PICK t \in Transaction : Begin(s, t)
      BY <2>1, BegunIsTransaction
    <3>2. t.user \in Users
      BY DEF Transaction
    <3>3. QED
      BY <3>1, <3>2 DEF Begin, rows
  <2>2. ASSUME NEW s \in Slots, NEW next \in {"idle", "audit"}, pc[s] # "idle", Leave(s, next)
        PROVE  /\ pc' \in [Slots -> {"idle", "role", "profile", "commit", "audit"}]
               /\ tx' \in [Slots -> Transaction \cup {NoTx}]
               /\ \A t \in Slots : IF pc'[t] = "idle" THEN tx'[t] = NoTx
                                   ELSE tx'[t] \in Transaction
    BY <2>2 DEF Leave
  <2>3. ASSUME NEW s \in Slots, WriteRole(s) \/ WriteProfile(s)
        PROVE  TypeOK'
    BY <2>3 DEF WriteRole, WriteProfile, AfterRole, rows
  <2>4. ASSUME NEW s \in Slots, RefuseDuplicate(s) \/ Audit(s)
        PROVE  TypeOK'
    BY <2>2, <2>4 DEF RefuseDuplicate, Audit, rows
  <2>5. ASSUME NEW s \in Slots, pc[s] = "commit", Apply(s)
        PROVE  /\ role' \in [Users -> Roles \cup {"none"}]
               /\ located' \subseteq Users
               /\ profile' \in [Users -> {"none", "active", "archived"}]
               /\ unlogged' \subseteq Slots
    <3>1. tx[s].user \in Users /\ tx[s].target \in Roles
      BY <2>5 DEF Transaction, Roles
    <3>2. QED
      BY <2>5, <3>1 DEF Apply, ProfileAfter
  <2>6. ASSUME NEW s \in Slots, Commit(s)
        PROVE  TypeOK'
    BY <2>2, <2>5, <2>6 DEF Commit
  <2>7. ASSUME NEW s \in Slots, Rollback(s) \/ LoseCommit(s) \/ LoseAudit(s)
        PROVE  TypeOK'
    <3>1. faults' \in 0..MaxFaults /\ UNCHANGED raced /\ pc[s] # "idle" /\ Leave(s, "idle")
      BY <2>7 DEF Rollback, LoseCommit, LoseAudit, Fault, AfterFailure
    <3>2. \/ pc[s] = "commit" /\ Apply(s)
          \/ UNCHANGED <<rows, unlogged>>
      BY <2>7 DEF Rollback, LoseCommit, LoseAudit
    <3>3. QED
      BY <2>2, <2>5, <3>1, <3>2 DEF rows
  <2>8. CASE UNCHANGED vars
    BY <2>8 DEF vars, rows
  <2>9. QED
    BY <2>1, <2>3, <2>4, <2>6, <2>7, <2>8 DEF Next
<1>3. QED
  BY <1>1, <1>2, PTL DEF Spec

-----------------------------------------------------------------------------
\* Every step begins a transaction, moves one on, commits one or ends one.
LEMMA StepForms ==
    ASSUME TypeOK, [Next]_vars
    PROVE  \/ \E s \in Slots, u \in Users :
                BeginRegister(s, u) \/ BeginImport(s, u) \/ BeginChange(s, u)
           \/ \E s \in Slots : WriteRole(s)
           \/ \E s \in Slots : pc[s] = "profile" /\ pc' = [pc EXCEPT ![s] = "commit"]
                               /\ UNCHANGED <<rows, tx, raced>>
           \/ \E s \in Slots : \E n \in {"idle", "audit"} :
                pc[s] = "commit" /\ Apply(s) /\ Leave(s, n) /\ UNCHANGED raced
           \/ \E s \in Slots : Leave(s, "idle") /\ UNCHANGED <<rows, raced>>
           \/ UNCHANGED <<rows, pc, tx, raced>>
  BY DEF Next, WriteProfile, RefuseDuplicate, Commit, Audit, Rollback, LoseCommit, LoseAudit,
     Fault, AfterFailure, vars

\* An MP has a constituency and an active profile.  A transaction reads the
\* user's row before it locks it; that is enough because a constituency, once
\* there, stays, and because whoever writes the role writes the profile too.
LEMMA OfficeStep ==
    ASSUME TypeOK, OfficeInv, [Next]_vars
    PROVE  OfficeInv'
<1> USE DEF OfficeInv, Open, Holding
<1>1. ASSUME NEW s \in Slots, NEW u \in Users,
             BeginRegister(s, u) \/ BeginImport(s, u) \/ BeginChange(s, u)
      PROVE  OfficeInv'
  <2>1. PICK t \in Transaction :
          /\ Begin(s, t)
          /\ t.kind = "change" =>
               role[t.user] # "none" /\ t.seen = role[t.user] /\ (t.seat => t.user \in located)
          /\ t.kind # "change" => t.seen = "none"
    BY <1>1, BegunIsTransaction
  <2>2. t.user \in Users /\ UNCHANGED rows
    BY <2>1 DEF Transaction, Begin
  <2>3. /\ t.kind = "change" /\ t.target = "mp" => t.user \in located
        /\ t.kind # "change" /\ t.target = "mp" => t.seat
    BY <2>1, <2>2 DEF Begin, hasConstituency, MPHasActiveProfile
  <2>4. LocksExclude'
    BY <2>1 DEF Begin, LocksExclude, TypeOK, rows
  <2>5. ReadsSuffice'
    BY <2>1, <2>3 DEF Begin, ReadsSuffice, TypeOK, rows
  <2>6. QED
    BY <2>2, <2>4, <2>5 DEF MPHasActiveProfile, rows
<1>2. ASSUME NEW s \in Slots, WriteRole(s)
      PROVE  OfficeInv'
  <2>1. \A t \in Slots : Holding(t) => tx[t].user # tx[s].user
    BY <1>2 DEF WriteRole, Holders
  <2>2. LocksExclude'
    BY <1>2, <2>1 DEF WriteRole, AfterRole, LocksExclude, TypeOK, rows
  <2>3. ReadsSuffice'
    BY <1>2 DEF WriteRole, AfterRole, ReadsSuffice, TypeOK, rows
  <2>4. QED
    BY <1>2, <2>2, <2>3 DEF WriteRole, MPHasActiveProfile, rows
<1>3. ASSUME NEW s \in Slots, pc[s] = "profile", pc' = [pc EXCEPT ![s] = "commit"],
             UNCHANGED <<rows, tx>>
      PROVE  OfficeInv'
  BY <1>3 DEF LocksExclude, ReadsSuffice, MPHasActiveProfile, TypeOK, rows
<1>4. ASSUME NEW s \in Slots, NEW n \in {"idle", "audit"}, pc[s] = "commit", Apply(s), Leave(s, n)
      PROVE  OfficeInv'
  <2>1. tx[s] \in Transaction /\ tx[s].user \in Users
    BY <1>4 DEF TypeOK, Transaction
  <2>2. /\ \A t \in Slots : Open(t)' => t # s /\ Open(t) /\ tx'[t] = tx[t]
        /\ \A t \in Slots : Holding(t)' => t # s /\ Holding(t) /\ tx[t].user # tx[s].user
    BY <1>4 DEF Leave, TypeOK, LocksExclude
  <2>3. /\ \A u \in Users : u # tx[s].user => role'[u] = role[u] /\ profile'[u] = profile[u]
        /\ role'[tx[s].user] = tx[s].target /\ tx[s].target # "none"
        /\ located \subseteq located'
    BY <1>4, <2>1 DEF Apply, TypeOK, Transaction, ManagedRoles
  <2>4. LocksExclude'
    <3>1. \A t \in Slots : Holding(t)' => tx'[t] = tx[t] /\ tx[t].user \in Users
      BY <2>2 DEF TypeOK, Transaction
    <3>2. QED
      BY <2>2, <2>3, <3>1 DEF LocksExclude
  <2>5. ReadsSuffice'
    <3>1. \A t \in Slots : Open(t)' => tx[t].user \in Users
      BY <2>2 DEF TypeOK, Transaction
    <3>2. QED
      BY <2>2, <2>3, <3>1 DEF ReadsSuffice
  <2>6. MPHasActiveProfile'
    <3>1. tx[s].target = "mp" => tx[s].user \in located' /\ profile'[tx[s].user] = "active"
      BY <1>4, <2>1 DEF Apply, ProfileAfter, ReadsSuffice, TypeOK
    <3>2. QED
      BY <2>1, <2>3, <3>1 DEF MPHasActiveProfile
  <2>7. QED
    BY <2>4, <2>5, <2>6
<1>5. ASSUME NEW s \in Slots, Leave(s, "idle"), UNCHANGED rows
      PROVE  OfficeInv'
  BY <1>5 DEF Leave, LocksExclude, ReadsSuffice, MPHasActiveProfile, TypeOK, rows
<1>6. CASE UNCHANGED <<rows, pc, tx, raced>>
  BY <1>6 DEF LocksExclude, ReadsSuffice, MPHasActiveProfile, rows
<1>7. QED
  BY <1>1, <1>2, <1>3, <1>4, <1>5, <1>6, StepForms

THEOREM OfficeInvariant == Spec => []OfficeInv
<1>1. Init => OfficeInv
  BY DEF Init, OfficeInv, LocksExclude, ReadsSuffice, MPHasActiveProfile, Open, Holding
<1>2. QED
  BY <1>1, OfficeStep, TypeCorrect, PTL DEF Spec

\* No interleaving of role changes, registrations and imports, and no failure
\* between their statements, leaves an MP without profile or constituency.
THEOREM MPsHaveProfiles == Spec => []MPHasActiveProfile
  BY OfficeInvariant, PTL DEF OfficeInv

-----------------------------------------------------------------------------
\* A user whose role changes come one after the other never keeps an active
\* profile beyond the office.
LEMMA FollowStep ==
    ASSUME TypeOK, OfficeInv, FollowInv, [Next]_vars
    PROVE  FollowInv'
<1> USE DEF FollowInv, Open
<1>1. ASSUME NEW s \in Slots, NEW u \in Users,
             BeginRegister(s, u) \/ BeginImport(s, u) \/ BeginChange(s, u)
      PROVE  FollowInv'
  <2>1. PICK t \in Transaction :
          /\ Begin(s, t)
          /\ t.kind = "change" =>
               role[t.user] # "none" /\ t.seen = role[t.user] /\ (t.seat => t.user \in located)
          /\ t.kind # "change" => t.seen = "none"
    BY <1>1, BegunIsTransaction
  <2>2. /\ t.kind = "change" /\ t.user \notin raced' => Changing(t.user) = {}
        /\ raced \subseteq raced' /\ UNCHANGED rows
    BY <2>1 DEF Begin
  <2>3. ReadsAreFresh'
    BY <2>1, <2>2 DEF Begin, Changing, ReadsAreFresh, TypeOK, rows
  <2>4. QED
    BY <2>2, <2>3 DEF ProfileFollowsRole, rows
<1>2. ASSUME NEW s \in Slots, WriteRole(s)
      PROVE  FollowInv'
  BY <1>2 DEF WriteRole, ReadsAreFresh, ProfileFollowsRole, TypeOK, rows
<1>3. ASSUME NEW s \in Slots, pc[s] = "profile", pc' = [pc EXCEPT ![s] = "commit"],
             UNCHANGED <<rows, tx, raced>>
      PROVE  FollowInv'
  BY <1>3 DEF ReadsAreFresh, ProfileFollowsRole, TypeOK, rows
<1>4. ASSUME NEW s \in Slots, NEW n \in {"idle", "audit"}, pc[s] = "commit", Apply(s),
             Leave(s, n), UNCHANGED raced
      PROVE  FollowInv'
  <2>1. tx[s] \in Transaction /\ tx[s].user \in Users
    BY <1>4 DEF TypeOK, Transaction
  <2>2. \A u \in Users : u # tx[s].user => role'[u] = role[u] /\ profile'[u] = profile[u]
    BY <1>4, <2>1 DEF Apply, TypeOK
  <2>3. \A t \in Slots : Open(t)' => t # s /\ Open(t) /\ tx'[t] = tx[t] /\ tx[t].user \in Users
    BY <1>4 DEF Leave, TypeOK, Transaction
  <2>4. ASSUME NEW t \in Slots, Open(t)', tx'[t].kind = "change", tx'[t].user \notin raced'
        PROVE  tx[t].user # tx[s].user
    <3>1. role[tx[t].user] # "none"
      BY <2>3, <2>4 DEF OfficeInv, ReadsSuffice
    <3>2. CASE tx[s].kind = "change"
      BY <1>4, <2>3, <2>4, <3>2 DEF ReadsAreFresh
    <3>3. CASE tx[s].kind # "change"
      BY <1>4, <3>1, <3>3 DEF OfficeInv, LocksExclude, Holding
    <3>4. QED
      BY <3>2, <3>3
  <2>5. ReadsAreFresh'
    BY <1>4, <2>2, <2>3, <2>4 DEF ReadsAreFresh
  <2>6. ASSUME tx[s].user \notin raced, profile'[tx[s].user] = "active"
        PROVE  role'[tx[s].user] = "mp"
    <3>1. tx[s].seen = role[tx[s].user]
      BY <1>4, <2>1, <2>6 DEF ReadsAreFresh, OfficeInv, ReadsSuffice, LocksExclude, Holding
    <3>2. profile'[tx[s].user] = ProfileAfter(tx[s]) /\ role'[tx[s].user] = tx[s].target
      BY <1>4, <2>1 DEF Apply, TypeOK
    <3>3. profile[tx[s].user] = "active" => role[tx[s].user] = "mp"
      BY <2>1, <2>6 DEF ProfileFollowsRole
    <3>4. QED
      BY <2>6, <3>1, <3>2, <3>3 DEF ProfileAfter
  <2>7. ProfileFollowsRole'
    BY <1>4, <2>2, <2>6 DEF ProfileFollowsRole
  <2>8. QED
    BY <2>5, <2>7
<1>5. ASSUME NEW s \in Slots, Leave(s, "idle"), UNCHANGED <<rows, raced>>
      PROVE  FollowInv'
  BY <1>5 DEF Leave, ReadsAreFresh, ProfileFollowsRole, TypeOK, rows
<1>6. CASE UNCHANGED <<rows, pc, tx, raced>>
  BY <1>6 DEF ReadsAreFresh, ProfileFollowsRole, rows
<1>7. QED
  BY <1>1, <1>2, <1>3, <1>4, <1>5, <1>6, StepForms

\* Only overlapping role changes can leave an active profile behind.
THEOREM ProfilesFollowRoles == Spec => []ProfileFollowsRole
<1>1. Init => FollowInv
  BY DEF Init, FollowInv, ReadsAreFresh, ProfileFollowsRole, Open
<1>2. FollowInv => ProfileFollowsRole
  BY DEF FollowInv
<1>3. QED
  BY <1>1, <1>2, FollowStep, TypeCorrect, OfficeInvariant, PTL DEF Spec

-----------------------------------------------------------------------------
\* A transaction waits to be logged exactly while its handler is at the log, and
\* only a fault makes it miss.
LEMMA AuditStep ==
    ASSUME TypeOK, AuditIsTrue, [Next]_vars
    PROVE  AuditIsTrue'
<1> USE DEF TypeOK, AuditIsTrue
<1>1. ASSUME NEW s \in Slots, NEW u \in Users,
             BeginRegister(s, u) \/ BeginImport(s, u) \/ BeginChange(s, u)
      PROVE  AuditIsTrue'
  <2>1. PICK t \in Transaction : Begin(s, t)
    BY <1>1, BegunIsTransaction
  <2>2. QED
    BY <2>1 DEF Begin
<1>2. ASSUME NEW s \in Slots,
             WriteRole(s) \/ RefuseDuplicate(s) \/ WriteProfile(s)
      PROVE  AuditIsTrue'
  BY <1>2 DEF WriteRole, RefuseDuplicate, WriteProfile, Leave, AfterRole
<1>3. ASSUME NEW s \in Slots, Commit(s)
      PROVE  AuditIsTrue'
  BY <1>3 DEF Commit, Apply, Leave
<1>4. ASSUME NEW s \in Slots, Audit(s)
      PROVE  AuditIsTrue'
  BY <1>4 DEF Audit, Leave
<1>5. ASSUME NEW s \in Slots, Rollback(s) \/ LoseCommit(s) \/ LoseAudit(s)
      PROVE  AuditIsTrue'
  <2>1. faults' # 0
    BY <1>5 DEF Rollback, LoseCommit, LoseAudit, Fault
  <2>2. \A r \in Slots : pc'[r] = "audit" => pc[r] = "audit"
    BY <1>5 DEF Rollback, LoseCommit, LoseAudit, Leave, AfterFailure
  <2>3. unlogged \subseteq unlogged'
    BY <1>5 DEF Rollback, LoseCommit, LoseAudit, Apply
  <2>4. QED
    BY <2>1, <2>2, <2>3
<1>6. CASE UNCHANGED vars
  BY <1>6 DEF vars, rows
<1>7. QED
  BY <1>1, <1>2, <1>3, <1>4, <1>5, <1>6 DEF Next

\* The audit log reports no change that did not happen and, without faults,
\* misses none.
THEOREM AuditsAreTrue == Spec => []AuditIsTrue
<1>1. Init => AuditIsTrue
  BY DEF Init, AuditIsTrue
<1>2. QED
  BY <1>1, AuditStep, TypeCorrect, PTL DEF Spec

-----------------------------------------------------------------------------
\* A registration in progress makes an MP of the whitelisted or the invited only.
GateInv ==
    \A s \in Slots :
      pc[s] # "idle" /\ tx[s].kind = "register" /\ tx[s].target = "mp"
        => tx[s].user \in Whitelist \/ tx[s].code

LEMMA GateStep ==
    ASSUME TypeOK, GateInv, [Next]_vars
    PROVE  GateInv'
<1> USE DEF TypeOK, GateInv
<1>1. ASSUME NEW s \in Slots, NEW u \in Users, BeginRegister(s, u)
      PROVE  GateInv'
  <2>1. PICK wish \in {"citizen", "mp"}, code \in BOOLEAN :
          \E r \in resolveRegistrationRole(u, wish, code) :
            Begin(s, [kind |-> "register", user |-> u, target |-> r, seen |-> "none",
                      seat |-> TRUE, code |-> code])
    BY <1>1 DEF BeginRegister
  <2>2. PICK r \in resolveRegistrationRole(u, wish, code) :
          Begin(s, [kind |-> "register", user |-> u, target |-> r, seen |-> "none",
                    seat |-> TRUE, code |-> code])
    BY <2>1
  <2>3. r = "mp" => u \in Whitelist \/ code
    BY <2>2 DEF resolveRegistrationRole
  <2>4. QED
    BY <2>2, <2>3 DEF Begin
<1>2. ASSUME NEW s \in Slots, NEW u \in Users, BeginImport(s, u) \/ BeginChange(s, u)
      PROVE  GateInv'
  <2>1. PICK t : t.kind # "register" /\ Begin(s, t)
    BY <1>2 DEF BeginImport, BeginChange
  <2>2. QED
    BY <2>1 DEF Begin
<1>3. ASSUME NEW s \in Slots,
             WriteRole(s) \/ RefuseDuplicate(s) \/ WriteProfile(s) \/ Commit(s) \/ Audit(s)
      PROVE  GateInv'
  BY <1>3 DEF WriteRole, RefuseDuplicate, WriteProfile, Commit, Audit, Leave, AfterRole
<1>4. ASSUME NEW s \in Slots, Rollback(s) \/ LoseCommit(s) \/ LoseAudit(s)
      PROVE  GateInv'
  BY <1>4 DEF Rollback, LoseCommit, LoseAudit, Leave, AfterFailure
<1>5. CASE UNCHANGED vars
  BY <1>5 DEF vars, rows
<1>6. QED
  BY <1>1, <1>2, <1>3, <1>4, <1>5 DEF Next

\* Nobody becomes an MP but by the invite code, the whitelist or an admin.
THEOREM GateHolds == Spec => OnboardingIsGated
<1>1. ASSUME TypeOK, GateInv, [Next]_vars
      PROVE  \A u \in Users \ Whitelist :
               role'[u] = "mp" /\ role[u] # "mp" =>
                 \E s \in Slots : /\ pc[s] = "commit" /\ tx[s].user = u
                                 /\ (tx[s].kind = "register" => tx[s].code)
  <2> SUFFICES ASSUME NEW u \in Users \ Whitelist, role'[u] = "mp", role[u] # "mp"
               PROVE  \E s \in Slots : /\ pc[s] = "commit" /\ tx[s].user = u
                                       /\ (tx[s].kind = "register" => tx[s].code)
    OBVIOUS
  <2>1. PICK s \in Slots : pc[s] = "commit" /\ Apply(s)
    <3>1. ASSUME NEW s \in Slots, NEW v \in Users,
                 BeginRegister(s, v) \/ BeginImport(s, v) \/ BeginChange(s, v)
          PROVE  role' = role
      BY <3>1 DEF BeginRegister, BeginImport, BeginChange, Begin, rows
    <3>2. ASSUME NEW s \in Slots, WriteRole(s)
          PROVE  role' = role
      BY <3>2 DEF WriteRole, rows
    <3>3. ASSUME UNCHANGED rows
          PROVE  role' = role
      BY <3>3 DEF rows
    <3>4. QED
      BY <1>1, <3>1, <3>2, <3>3, StepForms
  <2>2. tx[s].user = u /\ tx[s].target = "mp"
    BY <1>1, <2>1 DEF Apply, TypeOK
  <2>3. QED
    BY <1>1, <2>1, <2>2 DEF GateInv
<1>2. Init => GateInv
  BY DEF Init, GateInv
<1>3. Spec => [](TypeOK /\ GateInv)
  BY <1>2, GateStep, TypeCorrect, PTL DEF Spec
<1>4. QED
  BY <1>1, <1>3, PTL DEF Spec, OnboardingIsGated

-----------------------------------------------------------------------------
\* A commit is an enrolment, an appointment or a move of the register: the row
\* that the transaction read long before tells it what the one of now would.
LEMMA CommitActsAtOnce ==
    ASSUME TypeOK, OfficeInv, FollowInv, NEW s \in Slots, pc[s] = "commit", Apply(s),
           UNCHANGED raced
    PROVE  Register!Next
<1> DEFINE t == tx[s]
<1> DEFINE u == t.user
<1>1. /\ t \in Transaction /\ u \in Users
      /\ t.target \in {"citizen", "mp", "sysadmin"} /\ t.seat \in BOOLEAN
  BY DEF TypeOK, Transaction, ManagedRoles
<1>2. /\ role' = [role EXCEPT ![u] = t.target]
      /\ located' = IF t.kind # "change" /\ t.seat THEN located \cup {u} ELSE located
      /\ profile' = [profile EXCEPT ![u] = ProfileAfter(t)]
  BY DEF Apply
<1>3. profile = [profile EXCEPT ![u] = profile[u]]
  BY DEF TypeOK
<1>4. Open(s) /\ Holding(s)
  BY DEF Open, Holding
<1>5. CASE t.kind # "change"
  <2>1. role[u] = "none" /\ t.seen = "none" /\ (t.target = "mp" => t.seat)
    BY <1>4, <1>5 DEF OfficeInv, LocksExclude, ReadsSuffice
  <2>2. ProfileAfter(t) = IF t.target = "mp" THEN "active" ELSE profile[u]
    BY <2>1 DEF ProfileAfter
  <2>3. Register!Enroll(u, t.target, t.seat)
    BY <1>2, <1>3, <1>5, <2>1, <2>2 DEF Register!Enroll
  <2> HIDE DEF t, u
  <2>4. QED
    BY <1>1, <2>3 DEF Register!Next
<1>6. CASE t.kind = "change" /\ t.target = "mp"
  <2>1. role[u] # "none" /\ u \in located
    BY <1>4, <1>6 DEF OfficeInv, ReadsSuffice
  <2>2. Register!Appoint(u)
    BY <1>2, <1>6, <2>1 DEF Register!Appoint, ProfileAfter
  <2> HIDE DEF t, u
  <2>3. QED
    BY <1>1, <2>2 DEF Register!Next
<1>7. CASE t.kind = "change" /\ t.target # "mp"
  <2>1. role[u] # "none"
    BY <1>4, <1>7 DEF OfficeInv, ReadsSuffice
  <2>2. ProfileAfter(t) \in Register!Outcomes(u)
    <3>1. CASE u \in raced
      BY <1>7, <3>1 DEF ProfileAfter, Register!Outcomes
    <3>2. CASE u \notin raced
      <4>1. t.seen = role[u]
        BY <1>4, <1>7, <3>2 DEF FollowInv, ReadsAreFresh
      <4>2. role[u] = "mp" => profile[u] = "active"
        BY <1>1 DEF OfficeInv, MPHasActiveProfile
      <4>3. QED
        BY <1>7, <3>2, <4>1, <4>2 DEF ProfileAfter, Register!Outcomes
    <3>3. QED
      BY <3>1, <3>2
  <2>3. Register!Move(u, t.target)
    BY <1>2, <1>7, <2>1, <2>2 DEF Register!Move
  <2>4. t.target \in {"citizen", "sysadmin"}
    BY <1>1, <1>7
  <2> HIDE DEF t, u
  <2>5. QED
    BY <1>1, <2>3, <2>4 DEF Register!Next
<1>8. QED
  BY <1>5, <1>6, <1>7

\* Interleaved, blocked, failing and half-answered transactions implement a
\* register in which users enrol, enter office and leave it in single steps.
THEOREM OfficesActInOneStep == Spec => ActsInOneStep
<1>1. Init => Register!Init
  BY DEF Init, Register!Init
<1>2. TypeOK /\ OfficeInv /\ FollowInv /\ [Next]_vars => [Register!Next]_(Register!regVars)
  <2> SUFFICES ASSUME TypeOK, OfficeInv, FollowInv, [Next]_vars
               PROVE  Register!Next \/ UNCHANGED Register!regVars
    OBVIOUS
  <2>1. ASSUME NEW s \in Slots, NEW u \in Users,
               BeginRegister(s, u) \/ BeginImport(s, u) \/ BeginChange(s, u)
        PROVE  Register!Next \/ UNCHANGED Register!regVars
    <3>1. PICK t \in Transaction : Begin(s, t)
      BY <2>1, BegunIsTransaction
    <3>2. t.user \in Users /\ UNCHANGED rows
      BY <3>1 DEF Transaction, Begin
    <3>3. CASE UNCHANGED raced
      BY <3>2, <3>3 DEF rows, Register!regVars
    <3>4. CASE raced' = raced \cup {t.user}
      <4>1. Register!Contest(t.user)
        BY <3>2, <3>4 DEF rows, Register!Contest
      <4>2. QED
        BY <3>2, <4>1 DEF Register!Next
    <3>5. QED
      BY <3>1, <3>3, <3>4 DEF Begin
  <2>2. ASSUME NEW s \in Slots, WriteRole(s)
        PROVE  UNCHANGED Register!regVars
    BY <2>2 DEF WriteRole, rows, Register!regVars
  <2>3. ASSUME NEW s \in Slots, NEW n \in {"idle", "audit"},
               pc[s] = "commit" /\ Apply(s) /\ Leave(s, n) /\ UNCHANGED raced
        PROVE  Register!Next
    BY <2>3, CommitActsAtOnce
  <2>4. CASE UNCHANGED <<rows, raced>>
    BY <2>4 DEF rows, Register!regVars
  <2>5. QED
    BY <2>1, <2>2, <2>3, <2>4, StepForms
<1>3. Init => FollowInv
  BY DEF Init, FollowInv, ReadsAreFresh, ProfileFollowsRole, Open
<1>4. QED
  BY <1>1, <1>2, <1>3, FollowStep, TypeCorrect, OfficeInvariant, PTL
  DEF Spec, ActsInOneStep, Register!Spec

=============================================================================
