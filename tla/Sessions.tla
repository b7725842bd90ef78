------------------------------- MODULE Sessions -------------------------------
(***************************************************************************)
(* Who may act as whom, and for how long: handleLogin, handleRefresh and   *)
(* handleLogout of internal/api/auth.go, which mint access tokens that     *)
(* carry the user's role and keep refresh tokens in Redis, together with   *)
(* the role changes and suspensions of the admin pages.                    *)
(*                                                                         *)
(* An access token is not stored anywhere: authMiddleware accepts it until *)
(* its expiry, with the role it was minted with.  A handler reads the user *)
(* first and mints afterwards, and others change the role, or log the      *)
(* session out, in between.  Time passes in ticks; a handler is done, or   *)
(* cut off by its timeout, within Grace ticks.                             *)
(***************************************************************************)
EXTENDS Naturals

CONSTANTS
    Users,       \* the users in the database
    Privileged,  \* the roles that are more than "citizen": "mp" and "sysadmin"
    Keys,        \* refresh tokens
    NoKey,       \* a login that had no Redis to keep its refresh token in
    Handlers,    \* request goroutines that may be in flight together
    NoRequest,   \* the value of an unused handler
    AccessTTL,   \* lifetime of an access token: one hour
    RefreshTTL,  \* lifetime of a refresh token: seven days
    Grace,       \* how long a handler may take
    MaxTime      \* bound on the clock

ASSUME SessionsAssumption ==
    /\ AccessTTL \in Nat \ {0} /\ RefreshTTL \in Nat \ {0}
    /\ Grace \in Nat /\ MaxTime \in Nat \ {0}
    /\ NoKey \notin Keys /\ "citizen" \notin Privileged

VARIABLES
    now,        \* the time, from 1 on
    cache,      \* the API has a connection to Redis
    role,       \* role[u]: users.role
    suspended,  \* users with users.login_suspended, which no handler reads
    session,    \* session[k]: the Redis key "refresh:k", or how it came to an end
    pc,         \* pc[h]: what handler h does next
    req,        \* req[h]: the request of handler h
    tokens      \* the access tokens handed out that have not expired

\* What the properties remember; no handler reads this.
VARIABLE
    heldAt      \* heldAt[u][r]: the last time when u had the privileged role r, 0 if never

vars == <<now, cache, role, suspended, session, pc, req, tokens, heldAt>>

-----------------------------------------------------------------------------
Roles == Privileged \cup {"citizen"}

\* A refresh token is unused, live from its login to its end, or was deleted
\* by a logout.  Redis drops a key whose end has come.
Session == [state : {"unused", "stored", "deleted"}, user : Users, end : Nat]
Alive(k) == session[k].state = "stored" /\ now < session[k].end

\* What a handler remembers: the user, the role it read, the refresh token that
\* it was sent and the time when it began.
Request == [user : Users, role : Roles, key : Keys \cup {NoKey}, began : Nat]

\* An access token; key is no claim of it but the session it was minted in.
Token == [user : Users, role : Roles, key : Keys \cup {NoKey}, exp : Nat]

\* authMiddleware: the signature is good and the expiry has not come.
Accepted(t) == now < t.exp

\* The expiry of a token that is minted now.
Expiry == now + AccessTTL

\* The roles a refresh may put into its token: the one in the database, or
\* "citizen" when the user cannot be read.
RefreshedRole_Empty(u) == {role[u], ""}
RefreshedRole_Kept(u) == {"citizen"} \cup {r \in Privileged : heldAt[u][r] # 0}
RefreshedRole(u) == {role[u], "citizen"}

\* Whether a refresh token that Redis returns for key k is good for a refresh.
Redeemable_Ever(k) == session[k].state # "unused"
Redeemable(k) == Alive(k)

-----------------------------------------------------------------------------
Init ==
    /\ now = 1
    /\ cache \in BOOLEAN
    /\ role \in [Users -> Roles]
    /\ suspended = {}
    /\ session \in [Keys -> [state : {"unused"}, user : Users, end : {0}]]
    /\ pc = [h \in Handlers |-> "idle"]
    /\ req = [h \in Handlers |-> NoRequest]
    /\ tokens = {}
    /\ heldAt = [u \in Users |-> [r \in Privileged |-> IF r = role[u] THEN 1 ELSE 0]]

Leave(h) ==
    /\ pc' = [pc EXCEPT ![h] = "idle"]
    /\ req' = [req EXCEPT ![h] = NoRequest]

\* handleLogin finds the user and the password is right.
BeginLogin(h, u) ==
    /\ pc[h] = "idle"
    /\ pc' = [pc EXCEPT ![h] = "mint-login"]
    /\ req' = [req EXCEPT ![h] =
                 [user |-> u, role |-> role[u], key |-> NoKey, began |-> now]]
    /\ UNCHANGED <<now, cache, role, suspended, session, tokens, heldAt>>

\* It mints both tokens, keeps the refresh token, which is random and new, in
\* Redis if there is one, and answers.
MintLogin(h) ==
    LET r == req[h] IN
    /\ pc[h] = "mint-login"
    /\ \E k \in IF cache THEN {x \in Keys : session[x].state = "unused"} ELSE {NoKey} :
         /\ session' = [x \in Keys |->
                         IF x = k THEN [state |-> "stored", user |-> r.user, end |-> now + RefreshTTL]
                         ELSE session[x]]
         /\ tokens' = tokens \cup {[user |-> r.user, role |-> r.role, key |-> k, exp |-> Expiry]}
    /\ Leave(h)
    /\ UNCHANGED <<now, cache, role, suspended, heldAt>>

\* handleRefresh finds the refresh token of the cookie in Redis.
BeginRefresh(h, k) ==
    /\ pc[h] = "idle"
    /\ cache
    /\ Redeemable(k)
    /\ pc' = [pc EXCEPT ![h] = "load"]
    /\ req' = [req EXCEPT ![h] = [user |-> session[k].user, role |-> "citizen", key |-> k,
                                  began |-> now]]
    /\ UNCHANGED <<now, cache, role, suspended, session, tokens, heldAt>>

\* It reads the user, or fails to and goes on with the fallback.
LoadUser(h) ==
    /\ pc[h] = "load"
    /\ pc' = [pc EXCEPT ![h] = "mint-refresh"]
    /\ \E r \in RefreshedRole(req[h].user) : req' = [req EXCEPT ![h].role = r]
    /\ UNCHANGED <<now, cache, role, suspended, session, tokens, heldAt>>

\* It mints an access token and hands it out.  The refresh token stays.
MintRefresh(h) ==
    LET r == req[h] IN
    /\ pc[h] = "mint-refresh"
    /\ tokens' = tokens \cup {[user |-> r.user, role |-> r.role, key |-> r.key, exp |-> Expiry]}
    /\ Leave(h)
    /\ UNCHANGED <<now, cache, role, suspended, session, heldAt>>

\* An error answer: the user is unknown, Redis or the database fails, or the
\* request is cut off.
Fail(h) ==
    /\ pc[h] # "idle"
    /\ Leave(h)
    /\ UNCHANGED <<now, cache, role, suspended, session, tokens, heldAt>>

\* handleLogout with the cookie of k.  A failing Redis leaves the session in
\* place and the answer is the same.
Logout(k) ==
    /\ cache
    /\ Alive(k)
    /\ session' = [session EXCEPT ![k].state = "deleted", ![k].end = now]
    /\ UNCHANGED <<now, cache, role, suspended, pc, req, tokens, heldAt>>

-----------------------------------------------------------------------------
\* An admin changes a role (the transaction is in Accounts).
ChangeRole(u, r) ==
    /\ r # role[u]
    /\ role' = [role EXCEPT ![u] = r]
    /\ heldAt' = [heldAt EXCEPT ![u] = [x \in Privileged |-> IF x = r THEN now ELSE @[x]]]
    /\ UNCHANGED <<now, cache, suspended, session, pc, req, tokens>>

\* An admin blocks or unblocks the login of a user.
SuspendUser(u) ==
    /\ suspended' \in {suspended \cup {u}, suspended \ {u}}
    /\ suspended' # suspended
    /\ UNCHANGED <<now, cache, role, session, pc, req, tokens, heldAt>>

\* Time passes, and no handler gets older than Grace.
Tick ==
    /\ now < MaxTime
    /\ \A h \in Handlers : pc[h] # "idle" => now < req[h].began + Grace
    /\ now' = now + 1
    /\ tokens' = {t \in tokens : now' < t.exp}
    /\ heldAt' = [u \in Users |->
                   [r \in Privileged |-> IF r = role[u] THEN now' ELSE heldAt[u][r]]]
    /\ UNCHANGED <<cache, role, suspended, session, pc, req>>

Next ==
    \/ \E h \in Handlers :
         \/ \E u \in Users : BeginLogin(h, u)
         \/ \E k \in Keys : BeginRefresh(h, k)
         \/ MintLogin(h) \/ LoadUser(h) \/ MintRefresh(h) \/ Fail(h)
    \/ \E k \in Keys : Logout(k)
    \/ \E u \in Users : SuspendUser(u) \/ \E r \in Roles : ChangeRole(u, r)
    \/ Tick

Spec == Init /\ [][Next]_vars

-----------------------------------------------------------------------------
\* Every variable keeps its shape.
TypeOK ==
    /\ now \in 1..MaxTime
    /\ cache \in BOOLEAN
    /\ role \in [Users -> Roles]
    /\ suspended \subseteq Users
    /\ session \in [Keys -> Session]
    /\ pc \in [Handlers -> {"idle", "mint-login", "load", "mint-refresh"}]
    /\ req \in [Handlers -> Request \cup {NoRequest}]
    /\ \A h \in Handlers : IF pc[h] = "idle" THEN req[h] = NoRequest ELSE req[h] \in Request
    /\ tokens \subseteq Token
    /\ heldAt \in [Users -> [Privileged -> 0..MaxTime]]

\* "changes take effect on next refresh": whoever is accepted as more than a
\* citizen has that role, or had it less than a token's lifetime and a
\* request's duration ago.
PrivilegeExpires ==
    \A t \in tokens :
      Accepted(t) /\ t.role \in Privileged =>
        /\ heldAt[t.user][t.role] # 0
        /\ now < heldAt[t.user][t.role] + AccessTTL + Grace

\* A session that was logged out, or whose seven days are over, is of no use
\* after a token's lifetime and a request's duration, and gives nobody else's
\* identity while it is.
SessionEnds ==
    \A t \in tokens :
      Accepted(t) /\ t.key # NoKey =>
        /\ session[t.key].state # "unused" /\ session[t.key].user = t.user
        /\ now < session[t.key].end + AccessTTL + Grace

=============================================================================
