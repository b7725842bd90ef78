---------------------------- MODULE SessionsProofs ----------------------------
(***************************************************************************)
(* Proofs about Sessions, for every number of users, sessions and handlers *)
(* and every lifetime of the tokens.                                       *)
(***************************************************************************)
EXTENDS Sessions, TLAPS

-----------------------------------------------------------------------------
\* The type invariant.
THEOREM TypeCorrect == Spec => []TypeOK
<1> USE SessionsAssumption
<1>1. Init => TypeOK
  <2> SUFFICES ASSUME Init
               PROVE  TypeOK
    OBVIOUS
  <2>1. session \in [Keys -> Session]
    BY DEF Init, Session
  <2>2. heldAt \in [Users -> [Privileged -> 0..MaxTime]]
    BY DEF Init
  <2>3. QED
    BY <2>1, <2>2 DEF Init, TypeOK
<1>2. TypeOK /\ [Next]_vars => TypeOK'
  <2> SUFFICES ASSUME TypeOK, [Next]_vars
               PROVE  TypeOK'
    OBVIOUS
  <2> USE DEF TypeOK, Roles
  <2>1. ASSUME NEW h \in Handlers, NEW u \in Users, BeginLogin(h, u)
        PROVE  TypeOK'
    BY <2>1 DEF BeginLogin, Request
  <2>2. ASSUME NEW h \in Handlers, NEW k \in Keys, BeginRefresh(h, k)
        PROVE  TypeOK'
    BY <2>2 DEF BeginRefresh, Request, Session
  <2>3. ASSUME NEW h \in Handlers, MintLogin(h)
        PROVE  TypeOK'
    <3>1. req[h] \in Request
      BY <2>3 DEF MintLogin
    <3>2. PICK k \in Keys \cup {NoKey} :
            /\ session' = [x \in Keys |->
                            IF x = k THEN [state |-> "stored", user |-> req[h].user,
                                           end |-> now + RefreshTTL]
                            ELSE session[x]]
            /\ tokens' = tokens \cup {[user |-> req[h].user, role |-> req[h].role,
                                       key |-> k, exp |-> Expiry]}
      BY <2>3 DEF MintLogin
    <3>3. session' \in [Keys -> Session]
      BY <3>1, <3>2 DEF Session, Request
    <3>4. tokens' \subseteq Token
      BY <3>1, <3>2 DEF Token, Request, Expiry
    <3>5. QED
      BY <2>3, <3>3, <3>4 DEF MintLogin, Leave
  <2>4. ASSUME NEW h \in Handlers, LoadUser(h)
        PROVE  TypeOK'
    <3>1. req[h] \in Request
      BY <2>4 DEF LoadUser
    <3>2. PICK r \in RefreshedRole(req[h].user) : req' = [req EXCEPT ![h].role = r]
      BY <2>4 DEF LoadUser
    <3>3. r \in Roles
      BY <3>1, <3>2 DEF RefreshedRole, Request
    <3>4. [req[h] EXCEPT !.role = r] \in Request
      BY <3>1, <3>3 DEF Request
    <3>5. QED
      BY <2>4, <3>2, <3>4 DEF LoadUser
  <2>5. ASSUME NEW h \in Handlers, MintRefresh(h)
        PROVE  TypeOK'
    <3>1. req[h] \in Request
      BY <2>5 DEF MintRefresh
    <3>2. tokens' \subseteq Token
      BY <2>5, <3>1 DEF MintRefresh, Token, Request, Expiry
    <3>3. QED
      BY <2>5, <3>2 DEF MintRefresh, Leave
  <2>6. ASSUME NEW h \in Handlers, Fail(h)
        PROVE  TypeOK'
    BY <2>6 DEF Fail, Leave
  <2>7. ASSUME NEW k \in Keys, Logout(k)
        PROVE  TypeOK'
    <3>1. session[k] \in Session /\ now \in Nat
      BY <2>7
    <3>2. [session[k] EXCEPT !.state = "deleted", !.end = now] \in Session
      BY ONLY <3>1 DEF Session
    <3>3. session' \in [Keys -> Session]
      BY <2>7, <3>2 DEF Logout
    <3>4. QED
      BY <2>7, <3>3 DEF Logout
  <2>8. ASSUME NEW u \in Users, NEW r \in Roles, ChangeRole(u, r)
        PROVE  TypeOK'
    <3>1. heldAt' \in [Users -> [Privileged -> 0..MaxTime]]
      BY <2>8 DEF ChangeRole
    <3>2. QED
      BY <2>8, <3>1 DEF ChangeRole
  <2>9. ASSUME NEW u \in Users, SuspendUser(u)
        PROVE  TypeOK'
    BY <2>9 DEF SuspendUser
  <2>10. CASE Tick
    BY <2>10 DEF Tick
  <2>11. CASE UNCHANGED vars
    BY <2>11 DEF vars
  <2>12. QED
    BY <2>1, <2>2, <2>3, <2>4, <2>5, <2>6, <2>7, <2>8, <2>9, <2>10, <2>11 DEF Next
<1>3. QED
  BY <1>1, <1>2, PTL DEF Spec

-----------------------------------------------------------------------------
\* The invariant speaks of the clock n, the history H of the roles and the
\* sessions S, now and after a step.

\* A user has the present role now, and no role later than now.
HeldNow ==
    /\ \A u \in Users : role[u] \in Privileged => heldAt[u][role[u]] = now
    /\ \A u \in Users, r \in Privileged : heldAt[u][r] <= now

\* What a handler has read was true when it began, or has become so since, and
\* it began at most Grace ticks ago.
Recent(r, n, H, S) ==
    /\ r.began >= 1 /\ r.began <= n /\ n <= r.began + Grace
    /\ r.role \in Privileged => H[r.user][r.role] >= r.began
    /\ r.key # NoKey =>
         /\ S[r.key].state # "unused" /\ S[r.key].user = r.user
         /\ r.began <= S[r.key].end

HandlersRecent == \A h \in Handlers : pc[h] # "idle" => Recent(req[h], now, heldAt, session)

\* What a token grants ends a token's lifetime and a request's duration after
\* the role or the session does.
Bounded(t, n, H, S) ==
    /\ t.exp <= n + AccessTTL
    /\ t.role \in Privileged =>
         /\ H[t.user][t.role] >= 1
         /\ t.exp <= H[t.user][t.role] + AccessTTL + Grace
    /\ t.key # NoKey =>
         /\ S[t.key].state # "unused" /\ S[t.key].user = t.user
         /\ t.exp <= S[t.key].end + AccessTTL + Grace

TokensBounded == \A t \in tokens : Bounded(t, now, heldAt, session)

AuthorityInv == HeldNow /\ HandlersRecent /\ TokensBounded

-----------------------------------------------------------------------------
\* From the clock n, the history H and the sessions S to later ones nothing
\* that is remembered of the past is forgotten.
Onward(n, H, S, n1, H1, S1) ==
    /\ n1 >= n
    /\ \A u \in Users, r \in Privileged : H1[u][r] >= H[u][r]
    /\ \A k \in Keys : S[k].state # "unused" =>
         /\ S1[k].state # "unused" /\ S1[k].user = S[k].user
         /\ S1[k].end >= S[k].end \/ S1[k].end >= n

Times == [Users -> [Privileged -> Nat]]

\* A token stays bounded while time goes on.
LEMMA TokenStaysBounded ==
    ASSUME NEW n \in Nat, NEW n1 \in Nat, NEW H \in Times, NEW H1 \in Times,
           NEW S \in [Keys -> Session], NEW S1 \in [Keys -> Session],
           Onward(n, H, S, n1, H1, S1), NEW t \in Token, Bounded(t, n, H, S)
    PROVE  Bounded(t, n1, H1, S1)
<1> USE SessionsAssumption
<1>1. t.exp \in Nat /\ t.user \in Users /\ t.key \in Keys \cup {NoKey}
  BY DEF Token
<1>2. t.exp <= n1 + AccessTTL
  BY <1>1 DEF Bounded, Onward
<1>3. ASSUME t.role \in Privileged
      PROVE  /\ H1[t.user][t.role] >= 1
             /\ t.exp <= H1[t.user][t.role] + AccessTTL + Grace
  <2>1. H[t.user][t.role] \in Nat /\ H1[t.user][t.role] \in Nat
    BY <1>1, <1>3 DEF Times
  <2>2. H1[t.user][t.role] >= H[t.user][t.role]
    BY <1>1, <1>3 DEF Onward
  <2>3. QED
    BY <1>1, <1>3, <2>1, <2>2 DEF Bounded
<1>4. ASSUME t.key # NoKey
      PROVE  /\ S1[t.key].state # "unused" /\ S1[t.key].user = t.user
             /\ t.exp <= S1[t.key].end + AccessTTL + Grace
  <2>1. S[t.key].end \in Nat /\ S1[t.key].end \in Nat /\ t.key \in Keys
    BY <1>1, <1>4 DEF Session
  <2>2. S1[t.key].end >= S[t.key].end \/ S1[t.key].end >= n
    BY <1>4, <2>1 DEF Onward, Bounded
  <2>3. QED
    BY <1>1, <1>4, <2>1, <2>2 DEF Onward, Bounded
<1>5. QED
  BY <1>2, <1>3, <1>4 DEF Bounded

\* So does a handler, until it is too old.
LEMMA HandlerStaysRecent ==
    ASSUME NEW n \in Nat, NEW n1 \in Nat, NEW H \in Times, NEW H1 \in Times,
           NEW S \in [Keys -> Session], NEW S1 \in [Keys -> Session],
           Onward(n, H, S, n1, H1, S1), NEW r \in Request, Recent(r, n, H, S),
           n1 <= r.began + Grace
    PROVE  Recent(r, n1, H1, S1)
<1> USE SessionsAssumption
<1>1. r.began \in Nat /\ r.user \in Users /\ r.key \in Keys \cup {NoKey}
  BY DEF Request
<1>2. r.began >= 1 /\ r.began <= n1 /\ n1 <= r.began + Grace
  BY <1>1 DEF Recent, Onward
<1>3. ASSUME r.role \in Privileged
      PROVE  H1[r.user][r.role] >= r.began
  <2>1. H[r.user][r.role] \in Nat /\ H1[r.user][r.role] \in Nat
    BY <1>1, <1>3 DEF Times
  <2>2. H1[r.user][r.role] >= H[r.user][r.role]
    BY <1>1, <1>3 DEF Onward
  <2>3. QED
    BY <1>1, <1>3, <2>1, <2>2 DEF Recent
<1>4. ASSUME r.key # NoKey
      PROVE  /\ S1[r.key].state # "unused" /\ S1[r.key].user = r.user
             /\ r.began <= S1[r.key].end
  <2>1. S[r.key].end \in Nat /\ S1[r.key].end \in Nat /\ r.key \in Keys
    BY <1>1, <1>4 DEF Session
  <2>2. S1[r.key].end >= S[r.key].end \/ S1[r.key].end >= n
    BY <1>4, <2>1 DEF Onward, Recent
  <2>3. QED
    BY <1>1, <1>4, <2>1, <2>2 DEF Onward, Recent
<1>5. QED
  BY <1>2, <1>3, <1>4 DEF Recent

-----------------------------------------------------------------------------
\* A step that only goes on, and whose handlers and tokens are new or old ones,
\* keeps the invariant.
LEMMA AuthorityKept ==
    ASSUME TypeOK, TypeOK', AuthorityInv,
           Onward(now, heldAt, session, now', heldAt', session'), HeldNow',
           \A h \in Handlers :
             \/ pc'[h] = "idle"
             \/ Recent(req'[h], now', heldAt', session')
             \/ pc[h] # "idle" /\ req'[h] = req[h] /\ now' <= req[h].began + Grace,
           \A t \in tokens' : t \in tokens \/ Bounded(t, now', heldAt', session')
    PROVE  AuthorityInv'
<1> USE SessionsAssumption
<1>1. /\ now \in Nat /\ now' \in Nat /\ heldAt \in Times /\ heldAt' \in Times
      /\ session \in [Keys -> Session] /\ session' \in [Keys -> Session]
  BY DEF TypeOK, Times
<1>2. ASSUME NEW h \in Handlers, pc'[h] # "idle"
      PROVE  Recent(req'[h], now', heldAt', session')
  <2>1. CASE pc[h] # "idle" /\ req'[h] = req[h] /\ now' <= req[h].began + Grace
    <3>1. req[h] \in Request /\ Recent(req[h], now, heldAt, session)
      BY <2>1 DEF TypeOK, AuthorityInv, HandlersRecent
    <3>2. QED
      BY <1>1, <2>1, <3>1, HandlerStaysRecent
  <2>2. QED
    BY <1>2, <2>1
<1>3. ASSUME NEW t \in tokens'
      PROVE  Bounded(t, now', heldAt', session')
  <2>1. CASE t \in tokens
    <3>1. t \in Token /\ Bounded(t, now, heldAt, session)
      BY <2>1 DEF TypeOK, AuthorityInv, TokensBounded
    <3>2. QED
      BY <1>1, <3>1, TokenStaysBounded
  <2>2. QED
    BY <1>3, <2>1
<1>4. QED
  BY <1>2, <1>3 DEF AuthorityInv, HandlersRecent, TokensBounded

LEMMA AuthorityStep ==
    ASSUME TypeOK, TypeOK', AuthorityInv, [Next]_vars
    PROVE  AuthorityInv'
<1> USE SessionsAssumption
<1>1. /\ now \in Nat /\ now >= 1 /\ heldAt \in Times /\ session \in [Keys -> Session]
      /\ \A k \in Keys : session[k].end \in Nat
      /\ \A u \in Users, r \in Privileged : heldAt[u][r] \in Nat
  BY DEF TypeOK, Times, Session
<1>2. \A h \in Handlers : pc[h] # "idle" =>
        /\ req[h] \in Request /\ Recent(req[h], now, heldAt, session)
        /\ now <= req[h].began + Grace
  BY DEF TypeOK, AuthorityInv, HandlersRecent, Recent
<1>3. Onward(now, heldAt, session, now, heldAt, session)
  BY <1>1 DEF Onward
<1>4. ASSUME NEW h \in Handlers, NEW u \in Users, BeginLogin(h, u)
      PROVE  AuthorityInv'
  <2>1. UNCHANGED <<now, heldAt, session, role, tokens>>
    BY <1>4 DEF BeginLogin
  <2>2. req' = [req EXCEPT ![h] = [user |-> u, role |-> role[u], key |-> NoKey, began |-> now]]
    BY <1>4 DEF BeginLogin
  <2>3. Recent(req'[h], now', heldAt', session')
    BY <1>1, <1>4, <2>1, <2>2 DEF Recent, TypeOK, AuthorityInv, HeldNow
  <2>4. QED
    BY <1>2, <1>3, <1>4, <2>1, <2>3, AuthorityKept DEF BeginLogin, TypeOK, AuthorityInv, HeldNow
<1>5. ASSUME NEW h \in Handlers, NEW k \in Keys, BeginRefresh(h, k)
      PROVE  AuthorityInv'
  <2>1. UNCHANGED <<now, heldAt, session, role, tokens>>
    BY <1>5 DEF BeginRefresh
  <2>2. req' = [req EXCEPT ![h] = [user |-> session[k].user, role |-> "citizen",
                                   key |-> k, began |-> now]]
    BY <1>5 DEF BeginRefresh
  <2>3. session[k].state # "unused" /\ now < session[k].end
    BY <1>5 DEF BeginRefresh, Redeemable, Alive
  <2>4. Recent(req'[h], now', heldAt', session')
    BY <1>1, <1>5, <2>1, <2>2, <2>3 DEF Recent, TypeOK
  <2>5. QED
    BY <1>2, <1>3, <1>5, <2>1, <2>4, AuthorityKept DEF BeginRefresh, TypeOK, AuthorityInv, HeldNow
<1>6. ASSUME NEW h \in Handlers, MintLogin(h)
      PROVE  AuthorityInv'
  <2> DEFINE r == req[h]
  <2>1. UNCHANGED <<now, heldAt, role>>
    BY <1>6 DEF MintLogin
  <2>2. r \in Request /\ Recent(r, now, heldAt, session)
    BY <1>2, <1>6 DEF MintLogin
  <2>3. PICK k \in IF cache THEN {x \in Keys : session[x].state = "unused"} ELSE {NoKey} :
          /\ session' = [x \in Keys |->
                          IF x = k THEN [state |-> "stored", user |-> r.user,
                                         end |-> now + RefreshTTL]
                          ELSE session[x]]
          /\ tokens' = tokens \cup {[user |-> r.user, role |-> r.role, key |-> k, exp |-> Expiry]}
    BY <1>6 DEF MintLogin
  <2>4. k = NoKey \/ (k \in Keys /\ session[k].state = "unused")
    BY <2>3
  <2>5. Onward(now, heldAt, session, now', heldAt', session')
    BY <1>1, <2>1, <2>3, <2>4 DEF Onward
  <2>6. Bounded([user |-> r.user, role |-> r.role, key |-> k, exp |-> Expiry],
                now', heldAt', session')
    <3>1. r.user \in Users /\ r.began \in Nat /\ r.began >= 1 /\ now <= r.began + Grace
      BY <2>2 DEF Request, Recent
    <3>2. r.role \in Privileged => /\ heldAt[r.user][r.role] \in Nat
                                   /\ heldAt[r.user][r.role] >= r.began
      BY <1>1, <2>2, <3>1 DEF Recent
    <3>3. k # NoKey => /\ session'[k].state = "stored" /\ session'[k].user = r.user
                       /\ session'[k].end = now + RefreshTTL
      BY <2>3, <2>4
    <3>4. QED
      BY <1>1, <2>1, <3>1, <3>2, <3>3 DEF Bounded, Expiry
  <2>7. \A g \in Handlers : pc'[g] = "idle" \/
           (pc[g] # "idle" /\ req'[g] = req[g] /\ now' <= req[g].began + Grace)
    BY <1>2, <1>6, <2>1 DEF MintLogin, Leave, TypeOK
  <2>8. HeldNow'
    BY <2>1 DEF AuthorityInv, HeldNow
  <2>9. \A t \in tokens' : t \in tokens \/ Bounded(t, now', heldAt', session')
    BY <2>3, <2>6
  <2> HIDE DEF r
  <2>10. QED
    BY <2>5, <2>7, <2>8, <2>9, AuthorityKept
<1>7. ASSUME NEW h \in Handlers, LoadUser(h)
      PROVE  AuthorityInv'
  <2>1. UNCHANGED <<now, heldAt, session, role, tokens>>
    BY <1>7 DEF LoadUser
  <2>2. req[h] \in Request /\ Recent(req[h], now, heldAt, session)
    BY <1>2, <1>7 DEF LoadUser
  <2>3. PICK r \in RefreshedRole(req[h].user) : req' = [req EXCEPT ![h].role = r]
    BY <1>7 DEF LoadUser
  <2>4. /\ req'[h].user = req[h].user /\ req'[h].key = req[h].key
        /\ req'[h].began = req[h].began /\ req'[h].role = r
    BY <1>7, <2>2, <2>3 DEF TypeOK, Request
  <2>5. r \in Privileged => heldAt[req[h].user][r] >= req[h].began
    <3>1. req[h].user \in Users /\ req[h].began <= now
      BY <2>2 DEF Request, Recent
    <3>2. QED
      BY <1>1, <2>3, <3>1 DEF RefreshedRole, AuthorityInv, HeldNow
  <2>6. Recent(req'[h], now', heldAt', session')
    BY <2>1, <2>2, <2>4, <2>5 DEF Recent
  <2>7. \A g \in Handlers \ {h} : pc'[g] = pc[g] /\ req'[g] = req[g]
    BY <1>7, <2>3 DEF LoadUser, TypeOK
  <2>8. QED
    BY <1>2, <1>3, <2>1, <2>6, <2>7, AuthorityKept DEF AuthorityInv, HeldNow
<1>8. ASSUME NEW h \in Handlers, MintRefresh(h)
      PROVE  AuthorityInv'
  <2> DEFINE r == req[h]
             t == [user |-> r.user, role |-> r.role, key |-> r.key, exp |-> Expiry]
  <2>1. UNCHANGED <<now, heldAt, session, role>> /\ tokens' = tokens \cup {t}
    BY <1>8 DEF MintRefresh
  <2>2. r \in Request /\ Recent(r, now, heldAt, session)
    BY <1>2, <1>8 DEF MintRefresh
  <2>3. Bounded(t, now, heldAt, session)
    <3>1. /\ r.user \in Users /\ r.began \in Nat /\ r.began >= 1 /\ now <= r.began + Grace
          /\ r.key \in Keys \cup {NoKey}
      BY <2>2 DEF Request, Recent
    <3>2. r.role \in Privileged => /\ heldAt[r.user][r.role] \in Nat
                                   /\ heldAt[r.user][r.role] >= r.began
      BY <1>1, <2>2, <3>1 DEF Recent
    <3>3. r.key # NoKey => /\ session[r.key].state # "unused" /\ session[r.key].user = r.user
                           /\ session[r.key].end \in Nat /\ r.began <= session[r.key].end
      BY <1>1, <2>2, <3>1 DEF Recent
    <3>4. QED
      BY <1>1, <3>1, <3>2, <3>3 DEF Bounded, Expiry
  <2>4. \A g \in Handlers : pc'[g] = "idle" \/
           (pc[g] # "idle" /\ req'[g] = req[g] /\ now' <= req[g].began + Grace)
    BY <1>2, <1>8, <2>1 DEF MintRefresh, Leave, TypeOK
  <2> HIDE DEF t
  <2>5. QED
    BY <1>3, <2>1, <2>3, <2>4, AuthorityKept DEF AuthorityInv, HeldNow
<1>9. ASSUME NEW h \in Handlers, Fail(h)
      PROVE  AuthorityInv'
  <2>1. \A g \in Handlers : pc'[g] = "idle" \/
           (pc[g] # "idle" /\ req'[g] = req[g] /\ now' <= req[g].began + Grace)
    BY <1>2, <1>9 DEF Fail, Leave, TypeOK
  <2>2. QED
    BY <1>3, <1>9, <2>1, AuthorityKept DEF Fail, AuthorityInv, HeldNow
<1>10. ASSUME NEW k \in Keys, Logout(k)
       PROVE  AuthorityInv'
  <2>1. UNCHANGED <<now, heldAt, role, tokens, pc, req>>
    BY <1>10 DEF Logout
  <2>2. /\ \A x \in Keys \ {k} : session'[x] = session[x]
        /\ session'[k].state = "deleted" /\ session'[k].user = session[k].user
        /\ session'[k].end = now
    BY <1>1, <1>10 DEF Logout, Session
  <2>3. Onward(now, heldAt, session, now', heldAt', session')
    BY <1>1, <2>1, <2>2 DEF Onward
  <2>4. QED
    BY <1>2, <2>1, <2>3, AuthorityKept DEF AuthorityInv, HeldNow
<1>11. ASSUME NEW u \in Users, NEW r \in Roles, ChangeRole(u, r)
       PROVE  AuthorityInv'
  <2>1. UNCHANGED <<now, session, tokens, pc, req>>
    BY <1>11 DEF ChangeRole
  <2>2. \A v \in Users, x \in Privileged :
          heldAt'[v][x] = IF v = u /\ x = r THEN now ELSE heldAt[v][x]
    BY <1>1, <1>11 DEF ChangeRole, Times
  <2>3. \A v \in Users, x \in Privileged : heldAt[v][x] <= now
    BY DEF AuthorityInv, HeldNow
  <2>4. role' = [role EXCEPT ![u] = r]
    BY <1>11 DEF ChangeRole
  <2>5. HeldNow'
    <3>1. \A v \in Users, x \in Privileged : heldAt'[v][x] <= now'
      BY <1>1, <2>1, <2>2, <2>3
    <3>2. \A v \in Users : role'[v] \in Privileged => heldAt'[v][role'[v]] = now'
      BY <2>1, <2>2, <2>4 DEF TypeOK, AuthorityInv, HeldNow
    <3>3. QED
      BY <3>1, <3>2 DEF HeldNow
  <2>6. Onward(now, heldAt, session, now', heldAt', session')
    <3>1. \A v \in Users, x \in Privileged : heldAt'[v][x] >= heldAt[v][x]
      BY <1>1, <2>2, <2>3
    <3>2. QED
      BY <1>1, <2>1, <3>1 DEF Onward
  <2>7. QED
    BY <1>2, <2>1, <2>5, <2>6, AuthorityKept
<1>12. ASSUME NEW u \in Users, SuspendUser(u)
       PROVE  AuthorityInv'
  <2>1. UNCHANGED <<now, heldAt, session, role, tokens, pc, req>>
    BY <1>12 DEF SuspendUser
  <2>2. QED
    BY <1>2, <1>3, <2>1, AuthorityKept DEF AuthorityInv, HeldNow
<1>13. ASSUME Tick
       PROVE  AuthorityInv'
  <2>1. UNCHANGED <<session, role, pc, req>> /\ now' = now + 1 /\ tokens' \subseteq tokens
    BY <1>13 DEF Tick
  <2>2. \A u \in Users, r \in Privileged :
          heldAt'[u][r] = IF r = role[u] THEN now' ELSE heldAt[u][r]
    BY <1>13 DEF Tick
  <2>3. \A u \in Users, r \in Privileged : heldAt[u][r] <= now
    BY DEF AuthorityInv, HeldNow
  <2>4. HeldNow'
    BY <1>1, <2>1, <2>2, <2>3 DEF HeldNow
  <2>5. Onward(now, heldAt, session, now', heldAt', session')
    <3>1. \A u \in Users, r \in Privileged : heldAt'[u][r] >= heldAt[u][r]
      BY <1>1, <2>1, <2>2, <2>3
    <3>2. QED
      BY <1>1, <2>1, <3>1 DEF Onward
  <2>6. \A h \in Handlers : pc[h] # "idle" => now' <= req[h].began + Grace
    <3>1. \A h \in Handlers : pc[h] # "idle" => now < req[h].began + Grace /\ req[h].began \in Nat
      BY <1>2, <1>13 DEF Tick, Request
    <3>2. QED
      BY <1>1, <2>1, <3>1
  <2>7. QED
    BY <2>1, <2>4, <2>5, <2>6, AuthorityKept
<1>14. ASSUME UNCHANGED vars
       PROVE  AuthorityInv'
  <2>1. UNCHANGED <<now, heldAt, session, role, tokens, pc, req>>
    BY <1>14 DEF vars
  <2>2. QED
    BY <1>2, <1>3, <2>1, AuthorityKept DEF AuthorityInv, HeldNow
<1>15. QED
  BY <1>4, <1>5, <1>6, <1>7, <1>8, <1>9, <1>10, <1>11, <1>12, <1>13, <1>14 DEF Next

\* What handlers and tokens grant is bounded by when it was last true.
THEOREM AuthorityInvariant == Spec => []AuthorityInv
<1> USE SessionsAssumption
<1>1. Init => AuthorityInv
  BY DEF Init, AuthorityInv, HeldNow, HandlersRecent, TokensBounded
<1>2. TypeOK /\ TypeOK' /\ AuthorityInv /\ [Next]_vars => AuthorityInv'
  BY AuthorityStep
<1>3. QED
  BY <1>1, <1>2, TypeCorrect, PTL DEF Spec

\* Nobody is accepted as an MP or an admin for longer than a token's lifetime
\* and a request's duration after the role was taken away: authMiddleware's
\* trust in the role claim is bounded by the expiry handleRefresh gives it.
THEOREM PrivilegesExpire == Spec => []PrivilegeExpires
<1> USE SessionsAssumption
<1>1. TypeOK /\ AuthorityInv => PrivilegeExpires
  <2> SUFFICES ASSUME TypeOK, AuthorityInv,
                      NEW t \in tokens, Accepted(t), t.role \in Privileged
               PROVE  /\ heldAt[t.user][t.role] # 0
                      /\ now < heldAt[t.user][t.role] + AccessTTL + Grace
    BY DEF PrivilegeExpires
  <2>1. now \in Nat /\ t.exp \in Nat /\ heldAt[t.user][t.role] \in Nat
    BY DEF TypeOK, Token
  <2>2. Bounded(t, now, heldAt, session)
    BY DEF AuthorityInv, TokensBounded
  <2>3. QED
    BY <2>1, <2>2 DEF Bounded, Accepted
<1>2. QED
  BY <1>1, TypeCorrect, AuthorityInvariant, PTL

\* What a session hands out ends a token's lifetime and a request's duration
\* after handleLogout or the seven days end it, and is for its own user.
THEOREM SessionsEnd == Spec => []SessionEnds
<1> USE SessionsAssumption
<1>1. TypeOK /\ AuthorityInv => SessionEnds
  <2> SUFFICES ASSUME TypeOK, AuthorityInv,
                      NEW t \in tokens, Accepted(t), t.key # NoKey
               PROVE  /\ session[t.key].state # "unused" /\ session[t.key].user = t.user
                      /\ now < session[t.key].end + AccessTTL + Grace
    BY DEF SessionEnds
  <2>1. now \in Nat /\ t.exp \in Nat /\ session[t.key].end \in Nat
    BY DEF TypeOK, Token, Session
  <2>2. Bounded(t, now, heldAt, session)
    BY DEF AuthorityInv, TokensBounded
  <2>3. QED
    BY <2>1, <2>2 DEF Bounded, Accepted
<1>2. QED
  BY <1>1, TypeCorrect, AuthorityInvariant, PTL

=============================================================================
