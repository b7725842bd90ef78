------------------------ MODULE IssueLifecycleProofs ------------------------
(***************************************************************************)
(* Proofs about IssueLifecycle, for every number of users, issues and      *)
(* concurrent requests and every bound on faults.                          *)
(***************************************************************************)
EXTENDS IssueLifecycle, TLAPS

-----------------------------------------------------------------------------
\* What a request in flight carries along from its checks to its writes: the
\* right of its actor to write the target, and the note of a claim.
Entitled(r) ==
    /\ status[r.issue] # "none"
    /\ r.capacity = "mp" =>
         /\ r.target \in MPStatuses
         /\ "mp" \in TokenRoles[r.actor] /\ <<r.actor, r.issue>> \in InConstituency
    /\ r.capacity = "admin" => "admin" \in TokenRoles[r.actor]
    /\ r.capacity = "reporter" =>
         r.actor = Reporter[r.issue] /\ r.issue \in claimed /\ r.target \in Verdicts
    /\ r.target = "pending-verification" => r.note

\* Every request in flight is entitled, and one past its status write towards
\* "verified-resolved" left its mark on the issue.
RequestsEntitled ==
    \A s \in Slots : pc[s] # "idle" =>
      /\ Entitled(req[s])
      /\ pc[s] # "write" /\ req[s].target = "verified-resolved" => req[s].issue \in verified

\* A pending issue has been claimed, and a timestamp rests on a verification.
RecordJustified ==
    /\ \A i \in Issues : status[i] = "pending-verification" => i \in claimed
    /\ StampRestsOnVerification

EntitlementInv == RequestsEntitled /\ RecordJustified

\* A request that is alone on its issue has written the status the row holds.
\* Behind its timestamp statement the row agrees with it, and when its note
\* has come first the note is there.
AloneOwnsRow ==
    \A s \in alone :
      /\ pc[s] # "idle"
      /\ \A t \in Slots : t # s /\ pc[t] # "idle" => req[t].issue # req[s].issue
      /\ pc[s] # "write" => status[req[s].issue] = req[s].target
      /\ pc[s] = "note" /\ req[s].capacity = "reporter" =>
           (resolvedAt[req[s].issue] <=> req[s].target = "verified-resolved")
      /\ pc[s] = "stamp" /\ req[s].capacity # "reporter" /\ req[s].note =>
           req[s].issue \in noted

\* While an issue is settled, the requests in flight on it have not written.
SettledUntouched ==
    \A s \in Slots : pc[s] # "idle" /\ req[s].issue \in settled => pc[s] = "write"

SettledInv ==
    /\ AloneOwnsRow
    /\ SettledUntouched
    /\ SettledStampAgrees
    /\ SettledClaimHasNote

-----------------------------------------------------------------------------
\* Whatever a handler accepts is a request: the status asked for is one that
\* handlers write, in every spelling.
LEMMA AllowedAreHandled ==
    ASSUME NEW role, NEW st, NEW note, validateIssueStatusChange(role, st, note)
    PROVE  st \in HandlerStatuses
  BY DEF validateIssueStatusChange, AllowedStatuses, HandlerStatuses, MPStatuses

-----------------------------------------------------------------------------
\* The type invariant: no handler writes outside the vocabulary of statuses,
\* and a slot holds a request exactly while it is in flight.
THEOREM TypeCorrect == Spec => []TypeOK
<1> USE LifecycleAssumption
<1>1. Init => TypeOK
  BY DEF Init, TypeOK, Statuses, HandlerStatuses, MPStatuses
<1>2. TypeOK /\ [Next]_vars => TypeOK'
  <2> SUFFICES ASSUME TypeOK, [Next]_vars
               PROVE  TypeOK'
    OBVIOUS
  <2> USE DEF TypeOK
  <2>1. ASSUME NEW i \in Issues, CreateIssue(i)
        PROVE  TypeOK'
    BY <2>1 DEF CreateIssue, InitialStatus, Statuses, HandlerStatuses, history
  <2>2. ASSUME NEW s \in Slots, NEW r \in Request, Accept(s, r)
        PROVE  TypeOK'
    BY <2>2 DEF Accept, InFlight, rows, history
  <2>3. ASSUME NEW s \in Slots, NEW u \in Users, NEW role \in {"mp", "admin"}, NEW i \in Issues,
               AcceptStatusChange(s, u, role, i)
        PROVE  TypeOK'
    <3>1. PICK st \in {normalizeIssueStatusInput(input) : input \in StatusInputs}, note \in BOOLEAN :
            /\ validateIssueStatusChange(role, st, note)
            /\ Accept(s, [actor |-> u, capacity |-> role, issue |-> i,
                          target |-> st, note |-> note])
      BY <2>3 DEF AcceptStatusChange
    <3>2. st \in HandlerStatuses
      BY <3>1, AllowedAreHandled
    <3>3. QED
      BY <2>2, <3>1, <3>2 DEF Request
  <2>4. ASSUME NEW s \in Slots, NEW u \in Users, NEW i \in Issues, AcceptVerification(s, u, i)
        PROVE  TypeOK'
    <3>1. PICK action \in {"confirm", "dispute"}, comment \in BOOLEAN :
            Accept(s, [actor |-> u, capacity |-> "reporter", issue |-> i,
                       target |-> IF action = "dispute" THEN "reopened"
                                  ELSE "verified-resolved",
                       note |-> comment \/ action = "dispute"])
      BY <2>4 DEF AcceptVerification
    <3>2. QED
      BY <2>2, <3>1 DEF Request, HandlerStatuses
  <2>5. ASSUME NEW s \in Slots, pc[s] # "idle", Leave(s)
        PROVE  /\ pc' \in [Slots -> {"idle", "write", "note", "stamp"}]
               /\ req' \in [Slots -> Request \cup {NoRequest}]
               /\ \A t \in Slots : IF pc'[t] = "idle" THEN req'[t] = NoRequest
                                   ELSE req'[t] \in Request
               /\ alone' \subseteq Slots
    BY <2>5 DEF Leave
  <2>6. ASSUME NEW s \in Slots, WriteStatus(s)
        PROVE  TypeOK'
    BY <2>6 DEF WriteStatus, SetStatus, AfterWrite, Request, Statuses
  <2>7. ASSUME NEW s \in Slots, NEW next \in {"idle", "note", "stamp"}, pc[s] # "idle",
               Proceed(s, next)
        PROVE  /\ pc' \in [Slots -> {"idle", "write", "note", "stamp"}]
               /\ req' \in [Slots -> Request \cup {NoRequest}]
               /\ \A t \in Slots : IF pc'[t] = "idle" THEN req'[t] = NoRequest
                                   ELSE req'[t] \in Request
               /\ alone' \subseteq Slots /\ settled' \subseteq Issues
    BY <2>5, <2>7 DEF Proceed, Request
  <2>8. ASSUME NEW s \in Slots, InsertNote(s)
        PROVE  TypeOK'
    BY <2>7, <2>8 DEF InsertNote, AfterNote, rows, Request
  <2>9. ASSUME NEW s \in Slots, WriteStamp(s)
        PROVE  TypeOK'
    BY <2>7, <2>9 DEF WriteStamp, AfterStamp, Stamp, history, Request
  <2>10. ASSUME NEW s \in Slots, FailWrite(s)
         PROVE  TypeOK'
    BY <2>5, <2>10 DEF FailWrite, Fault, SetStatus, history, Request, Statuses
  <2>11. ASSUME NEW s \in Slots, FailNote(s)
         PROVE  TypeOK'
    BY <2>5, <2>11 DEF FailNote, Fault, AfterNote, rows, history, Request
  <2>12. ASSUME NEW s \in Slots, FailStamp(s)
         PROVE  TypeOK'
    BY <2>5, <2>12 DEF FailStamp, Fault, AfterStamp, rows, history, Request
  <2>13. ASSUME NEW s \in Slots, Abandon(s)
         PROVE  TypeOK'
    BY <2>5, <2>13 DEF Abandon, Fault, rows, history
  <2>14. CASE UNCHANGED vars
    BY <2>14 DEF vars, rows, history
  <2>15. QED
    BY <2>1, <2>3, <2>4, <2>6, <2>8, <2>9, <2>10, <2>11, <2>12, <2>13, <2>14
    DEF Next, Statement
<1>3. QED
  BY <1>1, <1>2, PTL DEF Spec

-----------------------------------------------------------------------------
\* What a request was entitled to when it was checked, it is still entitled to
\* when its statements run: reporters, tokens and constituencies do not change
\* under it and a claim, once made, stays made.  So a timestamp always rests
\* on a verification, whatever interleaves and whichever statement fails.
LEMMA EntitlementStep ==
    ASSUME TypeOK, EntitlementInv, [Next]_vars
    PROVE  EntitlementInv'
<1> USE LifecycleAssumption DEF EntitlementInv
\* Steps that change no row and only end, or move on, a request.
<1>1. ASSUME NEW s \in Slots, pc[s] # "idle", UNCHANGED <<rows, claimed, verified>>,
             \/ Leave(s)
             \/ pc[s] # "write" /\ UNCHANGED req /\ \E n : pc' = [pc EXCEPT ![s] = n]
      PROVE  EntitlementInv'
  BY <1>1 DEF TypeOK, RequestsEntitled, RecordJustified, Entitled, StampRestsOnVerification,
     Leave, rows
<1>2. ASSUME NEW i \in Issues, CreateIssue(i)
      PROVE  EntitlementInv'
  BY <1>2 DEF CreateIssue, InitialStatus, TypeOK, RequestsEntitled, RecordJustified, Entitled,
     StampRestsOnVerification, history, Request
<1>3. ASSUME NEW s \in Slots, NEW r \in Request, Accept(s, r), Entitled(r)
      PROVE  EntitlementInv'
  BY <1>3 DEF Accept, TypeOK, RequestsEntitled, RecordJustified, Entitled,
     StampRestsOnVerification, rows, history
<1>4. ASSUME NEW s \in Slots, NEW u \in Users, NEW role \in {"mp", "admin"}, NEW i \in Issues,
             AcceptStatusChange(s, u, role, i)
      PROVE  EntitlementInv'
  <2>1. PICK st \in {normalizeIssueStatusInput(input) : input \in StatusInputs}, note \in BOOLEAN :
          /\ validateIssueStatusChange(role, st, note)
          /\ Accept(s, [actor |-> u, capacity |-> role, issue |-> i,
                        target |-> st, note |-> note])
    BY <1>4 DEF AcceptStatusChange
  <2> DEFINE r == [actor |-> u, capacity |-> role, issue |-> i, target |-> st, note |-> note]
  <2>2. st \in HandlerStatuses
    BY <2>1, AllowedAreHandled
  <2>3. r \in Request
    BY <2>2 DEF Request
  <2>4. /\ status[i] # "none" /\ role \in TokenRoles[u]
        /\ role = "mp" => <<u, i>> \in InConstituency
    BY <1>4 DEF AcceptStatusChange, authorizeIssueManagement
  <2>5. Entitled(r)
    BY <2>1, <2>4 DEF Entitled, validateIssueStatusChange, AllowedStatuses
  <2>6. QED
    BY <1>3, <2>1, <2>3, <2>5
<1>5. ASSUME NEW s \in Slots, NEW u \in Users, NEW i \in Issues, AcceptVerification(s, u, i)
      PROVE  EntitlementInv'
  <2>1. PICK action \in {"confirm", "dispute"}, comment \in BOOLEAN :
          Accept(s, [actor |-> u, capacity |-> "reporter", issue |-> i,
                     target |-> IF action = "dispute" THEN "reopened" ELSE "verified-resolved",
                     note |-> comment \/ action = "dispute"])
    BY <1>5 DEF AcceptVerification
  <2> DEFINE r == [actor |-> u, capacity |-> "reporter", issue |-> i,
                   target |-> IF action = "dispute" THEN "reopened" ELSE "verified-resolved",
                   note |-> comment \/ action = "dispute"]
  <2>2. r \in Request
    BY DEF Request, HandlerStatuses
  <2>3. Reporter[i] = u /\ status[i] = "pending-verification"
    BY <1>5 DEF AcceptVerification, validateIssueVerificationEligibility,
       normalizeIssueStatusInput
  <2>4. Entitled(r)
    BY <2>3 DEF Entitled, RecordJustified, Verdicts
  <2>5. QED
    BY <1>3, <2>1, <2>2, <2>4
\* The status write, successful or not.
<1>6. ASSUME NEW s \in Slots, pc[s] = "write", SetStatus(req[s]), UNCHANGED resolvedAt,
             \/ Leave(s)
             \/ UNCHANGED req /\ \E n : pc' = [pc EXCEPT ![s] = n]
      PROVE  EntitlementInv'
  <2>1. req[s] \in Request
    BY <1>6 DEF TypeOK
  <2>2. RequestsEntitled'
    BY <1>6, <2>1 DEF SetStatus, TypeOK, RequestsEntitled, Entitled, Leave, Request,
       HandlerStatuses, MPStatuses
  <2>3. RecordJustified'
    BY <1>6, <2>1 DEF SetStatus, TypeOK, RecordJustified, StampRestsOnVerification, Request
  <2>4. QED
    BY <2>2, <2>3
<1>7. ASSUME NEW s \in Slots, WriteStatus(s)
      PROVE  EntitlementInv'
  BY <1>6, <1>7 DEF WriteStatus
<1>8. ASSUME NEW s \in Slots, InsertNote(s)
      PROVE  EntitlementInv'
  BY <1>1, <1>8 DEF InsertNote, Proceed
<1>9. ASSUME NEW s \in Slots, WriteStamp(s)
      PROVE  EntitlementInv'
  <2>1. req[s] \in Request
    BY <1>9 DEF WriteStamp, TypeOK
  <2>2. RequestsEntitled'
    BY <1>9 DEF WriteStamp, Proceed, Leave, TypeOK, RequestsEntitled, Entitled, history
  <2>3. RecordJustified'
    BY <1>9, <2>1 DEF WriteStamp, Stamp, TypeOK, RequestsEntitled, RecordJustified,
       StampRestsOnVerification, history, Request
  <2>4. QED
    BY <2>2, <2>3
<1>10. ASSUME NEW s \in Slots, FailWrite(s)
       PROVE  EntitlementInv'
  <2>1. pc[s] = "write" /\ Leave(s) /\ UNCHANGED resolvedAt
    BY <1>10 DEF FailWrite
  <2>2. CASE SetStatus(req[s])
    BY ONLY <1>6, <2>1, <2>2
  <2>3. CASE UNCHANGED <<status, history, settled>>
    BY <1>1, <2>1, <2>3 DEF rows, history
  <2>4. QED
    BY <1>10, <2>2, <2>3 DEF FailWrite
<1>11. ASSUME NEW s \in Slots, FailNote(s) \/ FailStamp(s) \/ Abandon(s)
       PROVE  EntitlementInv'
  BY <1>1, <1>11 DEF FailNote, FailStamp, Abandon, Fault, history
<1>12. CASE UNCHANGED vars
  BY <1>12 DEF vars, rows, history, RequestsEntitled, RecordJustified, Entitled,
     StampRestsOnVerification
<1>13. QED
  BY <1>2, <1>4, <1>5, <1>7, <1>8, <1>9, <1>10, <1>11, <1>12 DEF Next, Statement

THEOREM EntitlementInvariant == Spec => []EntitlementInv
<1>1. Init => EntitlementInv
  BY DEF Init, EntitlementInv, RequestsEntitled, RecordJustified, StampRestsOnVerification
<1>2. QED
  BY <1>1, EntitlementStep, TypeCorrect, PTL DEF Spec

\* No interleaving and no fault makes a timestamp appear on an issue that was
\* never declared resolved.
THEOREM StampRests == Spec => []StampRestsOnVerification
  BY EntitlementInvariant, PTL DEF EntitlementInv, RecordJustified

-----------------------------------------------------------------------------
\* Only three actions write a status, and the two that write a verdict do so
\* for a request that is entitled to it.
LEMMA DecisionStep ==
    ASSUME TypeOK, EntitlementInv, [Next]_vars, NEW i \in Issues,
           status'[i] \in Verdicts, status'[i] # status[i]
    PROVE  \E s \in Slots :
             /\ pc[s] = "write" /\ req[s].issue = i
             /\ \/ "admin" \in TokenRoles[req[s].actor]
                \/ req[s].actor = Reporter[i] /\ i \in claimed
<1>1. ASSUME NEW s \in Slots, pc[s] = "write", SetStatus(req[s])
      PROVE  /\ req[s].issue = i
             /\ \/ "admin" \in TokenRoles[req[s].actor]
                \/ req[s].actor = Reporter[i] /\ i \in claimed
  <2>1. req[s] \in Request /\ Entitled(req[s])
    BY <1>1 DEF TypeOK, EntitlementInv, RequestsEntitled
  <2>2. req[s].issue = i /\ req[s].target \in Verdicts
    BY <1>1, <2>1 DEF SetStatus, TypeOK, Request
  <2>3. req[s].capacity # "mp"
    BY <2>1, <2>2 DEF Entitled, MPStatuses, Verdicts
  <2>4. QED
    BY <2>1, <2>2, <2>3 DEF Entitled, Request
<1>2. ASSUME NEW j \in Issues, CreateIssue(j)
      PROVE  FALSE
  BY <1>2 DEF CreateIssue, InitialStatus, TypeOK, Verdicts
<1>3. ASSUME UNCHANGED status
      PROVE  FALSE
  BY <1>3
<1>4. PICK s \in Slots : pc[s] = "write" /\ SetStatus(req[s])
  BY <1>2, <1>3 DEF Next, Statement, AcceptStatusChange, AcceptVerification, Accept,
     WriteStatus, InsertNote, WriteStamp, FailWrite, FailNote, FailStamp, Abandon, rows, vars
<1>5. QED
  BY <1>1, <1>4

\* The separation of duties holds although the check and the write it guards
\* are separate statements of concurrent requests.
THEOREM SeparationOfDuties == Spec => OnlyReporterOrAdminDecides
<1>1. TypeOK /\ EntitlementInv /\ [Next]_vars =>
        [\A i \in Issues :
           status'[i] \in Verdicts /\ status'[i] # status[i] =>
             \E s \in Slots :
               /\ pc[s] = "write" /\ req[s].issue = i
               /\ \/ "admin" \in TokenRoles[req[s].actor]
                  \/ req[s].actor = Reporter[i] /\ i \in claimed]_vars
  BY DecisionStep
<1>2. QED
  BY <1>1, TypeCorrect, EntitlementInvariant, PTL DEF Spec, OnlyReporterOrAdminDecides

-----------------------------------------------------------------------------
\* A request that is alone on its issue finds every column as it left it, so
\* when it ends the row is as it intended; until the status is written again,
\* nobody touches the timestamp.
LEMMA SettledStep ==
    ASSUME TypeOK, EntitlementInv, SettledInv, [Next]_vars
    PROVE  SettledInv'
<1> USE DEF SettledInv
<1>1. ASSUME NEW i \in Issues, CreateIssue(i)
      PROVE  SettledInv'
  <2>1. \A s \in Slots : pc[s] # "idle" => req[s].issue # i
    BY <1>1 DEF CreateIssue, EntitlementInv, RequestsEntitled, Entitled
  <2>2. QED
    BY <1>1, <2>1 DEF CreateIssue, InitialStatus, TypeOK, AloneOwnsRow, SettledUntouched,
       SettledStampAgrees, SettledClaimHasNote, history
<1>2. ASSUME NEW s \in Slots, NEW r \in Request, Accept(s, r)
      PROVE  SettledInv'
  <2>1. AloneOwnsRow'
    BY <1>2 DEF Accept, InFlight, TypeOK, AloneOwnsRow, rows, history, Request
  <2>2. SettledUntouched'
    BY <1>2 DEF Accept, TypeOK, SettledUntouched
  <2>3. QED
    BY <1>2, <2>1, <2>2 DEF Accept, SettledStampAgrees, SettledClaimHasNote, rows, history
<1>3. ASSUME NEW s \in Slots, pc[s] = "write", SetStatus(req[s]), UNCHANGED resolvedAt,
             \/ Leave(s)
             \/ UNCHANGED <<req, alone>> /\ pc' = [pc EXCEPT ![s] = AfterWrite(req[s])]
      PROVE  SettledInv'
  <2>1. req[s] \in Request
    BY <1>3 DEF TypeOK
  <2>2. AloneOwnsRow'
    BY <1>3, <2>1 DEF SetStatus, Leave, AfterWrite, TypeOK, AloneOwnsRow, Request,
       EntitlementInv, RequestsEntitled, Entitled
  <2>3. SettledUntouched'
    BY <1>3, <2>1 DEF SetStatus, Leave, TypeOK, SettledUntouched
  <2>4. (SettledStampAgrees /\ SettledClaimHasNote)'
    BY <1>3, <2>1 DEF SetStatus, TypeOK, SettledStampAgrees, SettledClaimHasNote, Request
  <2>5. QED
    BY <2>2, <2>3, <2>4
\* A request that leaves without settling its issue.
<1>4. ASSUME NEW s \in Slots, Leave(s), UNCHANGED <<rows, history, settled>>
      PROVE  SettledInv'
  BY <1>4 DEF Leave, TypeOK, AloneOwnsRow, SettledUntouched, SettledStampAgrees,
     SettledClaimHasNote, rows, history
\* A request that goes on after a failed statement is no longer alone.
<1>5. ASSUME NEW s \in Slots, NEW next \in {"note", "stamp"}, pc[s] \in {"note", "stamp"},
             pc' = [pc EXCEPT ![s] = next], alone' = alone \ {s},
             UNCHANGED <<rows, history, settled, req>>
      PROVE  SettledInv'
  BY <1>5 DEF TypeOK, AloneOwnsRow, SettledUntouched, SettledStampAgrees,
     SettledClaimHasNote, rows, history
<1>6. ASSUME NEW s \in Slots, InsertNote(s)
      PROVE  SettledInv'
  <2>1. pc[s] = "note" /\ req[s] \in Request /\ req[s].issue \in Issues
    BY <1>6 DEF InsertNote, TypeOK, Request
  <2>2. CASE req[s].capacity # "reporter"
    BY <1>6, <2>1, <2>2 DEF InsertNote, AfterNote, Proceed, TypeOK, AloneOwnsRow,
       SettledUntouched, SettledStampAgrees, SettledClaimHasNote, rows
  <2>3. CASE req[s].capacity = "reporter"
    BY <1>6, <2>1, <2>3 DEF InsertNote, AfterNote, Proceed, Leave, TypeOK, AloneOwnsRow,
       SettledUntouched, SettledStampAgrees, SettledClaimHasNote, rows
  <2>4. QED
    BY <2>2, <2>3
<1>7. ASSUME NEW s \in Slots, WriteStamp(s)
      PROVE  SettledInv'
  <2>1. pc[s] = "stamp" /\ req[s] \in Request /\ req[s].issue \in Issues
    BY <1>7 DEF WriteStamp, TypeOK, Request
  <2>2. req[s].issue \notin settled
    BY <2>1 DEF SettledUntouched
  <2>3. resolvedAt' = [resolvedAt EXCEPT ![req[s].issue] = (req[s].target = "verified-resolved")]
    BY <1>7 DEF WriteStamp, Stamp
  <2>4. \A t \in alone : t # s => req[t] \in Request /\ req[t].issue # req[s].issue
    BY <2>1 DEF AloneOwnsRow, TypeOK
  <2>5. CASE req[s].capacity = "reporter" /\ req[s].note
    <3>1. /\ pc' = [pc EXCEPT ![s] = "note"]
          /\ UNCHANGED <<req, alone, settled, status, noted>>
      BY <1>7, <2>5 DEF WriteStamp, AfterStamp, Proceed, history
    <3>2. AloneOwnsRow'
      <4>1. \A t \in alone : t # s => /\ pc'[t] = pc[t]
                                      /\ resolvedAt'[req[t].issue] = resolvedAt[req[t].issue]
        BY <2>1, <2>3, <2>4, <3>1 DEF TypeOK, Request
      <4>2. /\ pc'[s] = "note"
            /\ resolvedAt'[req[s].issue] <=> req[s].target = "verified-resolved"
        BY <2>1, <2>3, <3>1 DEF TypeOK
      <4>3. \A t \in Slots : pc'[t] # "idle" => pc[t] # "idle"
        BY <2>1, <3>1 DEF TypeOK
      <4>4. ASSUME NEW t \in alone
            PROVE  /\ pc'[t] # "idle"
                   /\ \A u \in Slots : u # t /\ pc'[u] # "idle" => req[u].issue # req[t].issue
                   /\ status[req[t].issue] = req[t].target \/ pc'[t] = "write"
        BY <2>1, <4>1, <4>2, <4>3, <4>4 DEF AloneOwnsRow
      <4>5. ASSUME NEW t \in alone
            PROVE  /\ pc'[t] = "note" /\ req[t].capacity = "reporter" =>
                        (resolvedAt'[req[t].issue] <=> req[t].target = "verified-resolved")
                   /\ pc'[t] = "stamp" /\ req[t].capacity # "reporter" /\ req[t].note =>
                        req[t].issue \in noted
        BY <4>1, <4>2, <4>5 DEF AloneOwnsRow
      <4>6. QED
        BY <3>1, <4>4, <4>5 DEF AloneOwnsRow
    <3>3. SettledUntouched'
      BY <2>1, <2>2, <3>1 DEF TypeOK, SettledUntouched
    <3>4. (SettledStampAgrees /\ SettledClaimHasNote)'
      BY <2>1, <2>2, <2>3, <3>1 DEF TypeOK, SettledStampAgrees, SettledClaimHasNote
    <3>5. QED
      BY <3>2, <3>3, <3>4
  <2>6. CASE ~(req[s].capacity = "reporter" /\ req[s].note)
    <3>1. Leave(s) /\ settled' = IF s \in alone THEN settled \cup {req[s].issue} ELSE settled
      BY <1>7, <2>6 DEF WriteStamp, AfterStamp, Proceed
    <3>2. AloneOwnsRow'
      <4>1. UNCHANGED <<status, noted>>
        BY <1>7 DEF WriteStamp, history
      <4>2. \A t \in alone' : /\ t \in alone /\ t # s
                              /\ pc'[t] = pc[t] /\ req'[t] = req[t]
                              /\ resolvedAt'[req[t].issue] = resolvedAt[req[t].issue]
        BY <2>1, <2>3, <2>4, <3>1 DEF Leave, TypeOK, Request
      <4>3. \A t \in Slots : pc'[t] # "idle" => pc[t] # "idle" /\ req'[t] = req[t]
        BY <3>1 DEF Leave, TypeOK
      <4>4. QED
        BY <4>1, <4>2, <4>3 DEF AloneOwnsRow
    <3>3. SettledUntouched'
      BY <2>1, <3>1 DEF Leave, TypeOK, AloneOwnsRow, SettledUntouched
    <3>4. Entitled(req[s])
      BY <2>1 DEF EntitlementInv, RequestsEntitled
    <3>5. UNCHANGED <<status, noted>>
      BY <1>7 DEF WriteStamp, history
    <3>6. /\ \A i \in settled : i # req[s].issue /\ resolvedAt'[i] = resolvedAt[i]
          /\ resolvedAt'[req[s].issue] <=> req[s].target = "verified-resolved"
      BY <2>1, <2>2, <2>3 DEF TypeOK
    <3>7. s \in alone => status[req[s].issue] = req[s].target
      BY <2>1 DEF AloneOwnsRow
    <3>8. s \in alone /\ req[s].target = "pending-verification" => req[s].issue \in noted
      BY <2>1, <2>6, <3>4 DEF AloneOwnsRow, Entitled
    <3>9. SettledStampAgrees'
      BY <3>1, <3>5, <3>6, <3>7 DEF SettledStampAgrees
    <3>10. SettledClaimHasNote'
      BY <3>1, <3>5, <3>7, <3>8 DEF SettledClaimHasNote
    <3>11. QED
      BY <3>2, <3>3, <3>9, <3>10
  <2>7. QED
    BY <2>5, <2>6
<1>8. ASSUME NEW s \in Slots, FailWrite(s)
      PROVE  SettledInv'
  <2>1. pc[s] = "write" /\ Leave(s) /\ UNCHANGED resolvedAt
    BY <1>8 DEF FailWrite
  <2>2. CASE SetStatus(req[s])
    BY ONLY <1>3, <2>1, <2>2
  <2>3. CASE UNCHANGED <<status, history, settled>>
    BY <1>4, <2>1, <2>3 DEF rows
  <2>4. QED
    BY <1>8, <2>2, <2>3 DEF FailWrite
<1>9. ASSUME NEW s \in Slots, FailNote(s) \/ FailStamp(s) \/ Abandon(s)
      PROVE  SettledInv'
  BY <1>4, <1>5, <1>9 DEF FailNote, FailStamp, Abandon, AfterNote, AfterStamp
<1>10. CASE UNCHANGED vars
  BY <1>10 DEF vars, rows, history, AloneOwnsRow, SettledUntouched, SettledStampAgrees,
     SettledClaimHasNote
<1>11. ASSUME NEW s \in Slots, NEW u \in Users, NEW role \in {"mp", "admin"}, NEW i \in Issues,
              AcceptStatusChange(s, u, role, i)
       PROVE  SettledInv'
  <2>1. PICK st \in {normalizeIssueStatusInput(input) : input \in StatusInputs}, note \in BOOLEAN :
          /\ validateIssueStatusChange(role, st, note)
          /\ Accept(s, [actor |-> u, capacity |-> role, issue |-> i,
                        target |-> st, note |-> note])
    BY <1>11 DEF AcceptStatusChange
  <2>2. st \in HandlerStatuses
    BY <2>1, AllowedAreHandled
  <2>3. QED
    BY <1>2, <2>1, <2>2 DEF Request
<1>12. ASSUME NEW s \in Slots, NEW u \in Users, NEW i \in Issues, AcceptVerification(s, u, i)
       PROVE  SettledInv'
  BY <1>2, <1>12 DEF AcceptVerification, Request, HandlerStatuses
<1>13. ASSUME NEW s \in Slots, WriteStatus(s)
       PROVE  SettledInv'
  BY <1>3, <1>13 DEF WriteStatus
<1>14. QED
  BY <1>1, <1>6, <1>7, <1>8, <1>9, <1>10, <1>11, <1>12, <1>13 DEF Next, Statement

THEOREM SettledInvariant == Spec => []SettledInv
<1>1. Init => SettledInv
  BY DEF Init, SettledInv, AloneOwnsRow, SettledUntouched, SettledStampAgrees,
     SettledClaimHasNote
<1>2. QED
  BY <1>1, SettledStep, TypeCorrect, EntitlementInvariant, PTL DEF Spec

\* A request that met no other on its issue and no fault leaves status and
\* timestamp in agreement, however many requests run on other issues.
THEOREM SettledStamp == Spec => []SettledStampAgrees
  BY SettledInvariant, PTL DEF SettledInv

\* And if it claimed a resolution, the note is stored with the claim.
THEOREM SettledNote == Spec => []SettledClaimHasNote
  BY SettledInvariant, PTL DEF SettledInv

-----------------------------------------------------------------------------
AdminPresent == \E u \in Users : "admin" \in TokenRoles[u]

\* Without admins nothing has been declared resolved that was not claimed to
\* be: an MP cannot close an issue and a reporter cannot pre-empt the claim.
VerifiedRestsOnClaim == AdminPresent \/ verified \subseteq claimed

\* The separation of duties over the whole history: "MPs don't self-close".
THEOREM ClosingNeedsAClaim == Spec => []VerifiedRestsOnClaim
<1> USE LifecycleAssumption
<1>1. Init => VerifiedRestsOnClaim
  BY DEF Init, VerifiedRestsOnClaim
<1>2. TypeOK /\ EntitlementInv /\ VerifiedRestsOnClaim /\ [Next]_vars => VerifiedRestsOnClaim'
  <2> SUFFICES ASSUME TypeOK, EntitlementInv, VerifiedRestsOnClaim, [Next]_vars, ~AdminPresent
               PROVE  (verified \subseteq claimed)'
    BY DEF VerifiedRestsOnClaim, AdminPresent
  <2>1. ASSUME NEW s \in Slots, pc[s] = "write", SetStatus(req[s])
        PROVE  (verified \subseteq claimed)'
    <3>1. req[s] \in Request /\ Entitled(req[s])
      BY <2>1 DEF TypeOK, EntitlementInv, RequestsEntitled
    <3>2. req[s].target = "verified-resolved" => req[s].issue \in claimed
      BY <3>1 DEF Entitled, AdminPresent, Request, MPStatuses
    <3>3. QED
      BY <2>1, <3>2 DEF SetStatus, VerifiedRestsOnClaim
  <2>2. CASE UNCHANGED <<claimed, verified>>
    BY <2>2 DEF VerifiedRestsOnClaim
  <2>3. QED
    BY <2>1, <2>2 DEF Next, Statement, CreateIssue, AcceptStatusChange, AcceptVerification,
       Accept, WriteStatus, InsertNote, WriteStamp, FailWrite, FailNote, FailStamp, Abandon,
       rows, history, vars
<1>3. QED
  BY <1>1, <1>2, TypeCorrect, EntitlementInvariant, PTL DEF Spec

-----------------------------------------------------------------------------
\* A status write is one step of the promise, in the name of the request's
\* actor: by the entitlement it carries it is the step of an MP of the issue's
\* constituency, of the reporter or of an admin.
LEMMA StatusWriteKeepsPromise ==
    ASSUME TypeOK, EntitlementInv, NEW s \in Slots, pc[s] = "write", SetStatus(req[s]),
           UNCHANGED resolvedAt
    PROVE  Promise!Next
<1> USE LifecycleAssumption
<1> DEFINE r == req[s]
<1>1. r \in Request /\ Entitled(r)
  BY DEF TypeOK, EntitlementInv, RequestsEntitled
<1>2. /\ r.issue \in Issues /\ r.actor \in Users
      /\ Promise!Record(r.issue, r.actor, r.target)
  BY <1>1 DEF SetStatus, Promise!Record, Entitled, Request
<1>3. CASE r.capacity = "mp"
  <2>1. Promise!Handle(r.issue, r.actor)
    BY <1>1, <1>2, <1>3 DEF Entitled, Promise!Handle, Promise!MPStatuses, MPStatuses
  <2>2. QED
    BY <1>2, <2>1 DEF Promise!Next
<1>4. CASE r.capacity = "reporter"
  <2>1. Promise!Decide(r.issue, r.actor)
    BY <1>1, <1>2, <1>4 DEF Entitled, Promise!Decide, Promise!Verdicts, Verdicts
  <2>2. QED
    BY <1>2, <2>1 DEF Promise!Next
<1>5. CASE r.capacity = "admin"
  <2>1. r.target \in Promise!HandlerStatuses
    BY <1>1 DEF Request, HandlerStatuses, MPStatuses, Promise!HandlerStatuses, Promise!MPStatuses
  <2>2. Promise!Override(r.issue, r.actor)
    BY <1>1, <1>2, <1>5, <2>1 DEF Entitled, Promise!Override
  <2>3. QED
    BY <1>2, <2>2 DEF Promise!Next
<1>6. QED
  BY <1>1, <1>3, <1>4, <1>5 DEF Request

\* The handlers, whose statements interleave and fail, implement the promise
\* in which every write is one atomic step of a named person entitled to it.
THEOREM KeepsPromise == Spec => Accountability
<1> USE LifecycleAssumption
<1>1. Init => Promise!Init
  BY DEF Init, Promise!Init
<1>2. TypeOK /\ EntitlementInv /\ [Next]_vars => [Promise!Next]_(Promise!vars)
  <2> SUFFICES ASSUME TypeOK, EntitlementInv, [Next]_vars
               PROVE  Promise!Next \/ UNCHANGED Promise!vars
    OBVIOUS
  <2>1. ASSUME NEW i \in Issues, CreateIssue(i)
        PROVE  Promise!Next
    BY <2>1 DEF CreateIssue, InitialStatus, history, Promise!Next, Promise!File
  <2>2. ASSUME NEW s \in Slots, WriteStatus(s)
        PROVE  Promise!Next
    BY <2>2, StatusWriteKeepsPromise DEF WriteStatus
  <2>3. ASSUME NEW s \in Slots, WriteStamp(s)
        PROVE  Promise!Next
    <3> DEFINE i == req[s].issue
    <3>1. i \in Issues /\ (req[s].target = "verified-resolved" => i \in verified)
      BY <2>3 DEF WriteStamp, TypeOK, Request, EntitlementInv, RequestsEntitled
    <3>2. Promise!Timestamp(i)
      BY <2>3, <3>1 DEF WriteStamp, Stamp, history, Promise!Timestamp
    <3>3. QED
      BY <3>1, <3>2 DEF Promise!Next
  <2>4. ASSUME NEW s \in Slots, FailWrite(s)
        PROVE  Promise!Next \/ UNCHANGED Promise!vars
    BY <2>4, StatusWriteKeepsPromise DEF FailWrite, history, Promise!vars
  <2>5. CASE UNCHANGED <<rows, setBy, claimed, verified>>
    BY <2>5 DEF rows, Promise!vars
  <2>6. QED
    BY <2>1, <2>2, <2>3, <2>4, <2>5
    DEF Next, Statement, AcceptStatusChange, AcceptVerification, Accept, InsertNote, FailNote,
        FailStamp, Abandon, history, rows, vars
<1>3. QED
  BY <1>1, <1>2, TypeCorrect, EntitlementInvariant, PTL DEF Spec, Accountability, Promise!Spec

=============================================================================
