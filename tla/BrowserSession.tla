--------------------------- MODULE BrowserSession ---------------------------
(***************************************************************************)
(* Who the tabs of one browser act as: frontend/src/lib/api.ts, auth.ts,   *)
(* context/RoleContext.tsx, middleware.ts, the login page and the bar with *)
(* the links.                                                              *)
(*                                                                         *)
(* All tabs share one access token, in localStorage and mirrored to a      *)
(* cookie for the middleware, and one refresh cookie that only the API     *)
(* sets.  Every tab keeps the user it shows in React state, read from the  *)
(* token when it loads, at a login and at no other time.  A request that   *)
(* is answered 401 asks for a new token and is sent once more; when that   *)
(* fails the tab forgets the token and reloads the login page.             *)
(*                                                                         *)
(* Roles do not change here (see Sessions); a session may be refused at    *)
(* any time, and every answer may be lost.                                 *)
(***************************************************************************)
EXTENDS Naturals

CONSTANTS
    Tabs,        \* the open tabs of the browser
    People,      \* the accounts that log in with it
    Guest,       \* no user
    RoleOf,      \* the role of each of them
    CallSlots,   \* requests that may be in flight together
    Unused       \* the value of an unused slot

ASSUME SessionAssumption ==
    /\ RoleOf \in [People -> {"citizen", "mp", "sysadmin"}]
    /\ Guest \notin People

VARIABLES
    stored,   \* whose access token the browser holds
    fresh,    \* it has not expired
    cookie,   \* whose refresh token the browser holds
    shown,    \* shown[t]: the user of tab t's AuthProvider
    page,     \* page[t]: what kind of page tab t shows
    busy,     \* busy[t]: the login form of tab t is submitting
    calls     \* calls[c]: a request in flight

\* What the properties remember; no handler reads these.
VARIABLES
    orderly,  \* no login or logout overlapped with another tab or request, no login broke off
    left      \* the last thing to happen to the session was a clean logout

sessionVars == <<stored, fresh, cookie, shown, page, busy, calls, orderly, left>>

-----------------------------------------------------------------------------
Visitors == People \cup {Guest}

\* /login, what every user may see, what is under /mp/, and /admin; a tab that is
\* to reload and has not done so yet is "leaving".  /register, the other public
\* page, is module Registration.
Public == {"login"}
Pages == Public \cup {"site", "mp", "admin"}

\* A request: whose token it carries, and where it is: sent, refused with 401
\* and asking for a new token, or sent again.  A login also waits between storing
\* its token and reading it; it carries who logs in, and a logout nobody, for it
\* needs no token.
Call == [tab : Tabs, kind : {"data", "login", "logout"}, as : Visitors,
         phase : {"sent", "refreshing", "again", "reading"}]

Flying == {c \in CallSlots : calls[c] # Unused}

\* getCurrentUser
CurrentUser == IF fresh THEN stored ELSE Guest

\* setToken and clearToken: localStorage and the cookie of the middleware change
\* together.
SetToken(u) == stored' = u /\ fresh' = TRUE
ClearToken == stored' = Guest /\ fresh' = FALSE

\* The role of the context, which is "citizen" for a guest.
RoleShown(u) == IF u = Guest THEN "citizen" ELSE RoleOf[u]

\* middleware: the page that is served for a page that is asked for.
Admit(p) ==
    CASE p \in Public -> p
      [] p \notin Public /\ CurrentUser = Guest -> "login"
      [] p = "admin" /\ CurrentUser # Guest /\ RoleOf[CurrentUser] # "sysadmin" ->
           IF RoleOf[CurrentUser] = "mp" THEN "mp" ELSE "site"
      [] p = "mp" /\ CurrentUser # Guest /\ RoleOf[CurrentUser] = "citizen" -> "site"
      [] OTHER -> p

\* The links of the bar, by the role that the tab shows.
Links(t) ==
    CASE RoleShown(shown[t]) = "sysadmin" -> {"admin", "site"}
      [] RoleShown(shown[t]) = "mp" -> {"mp", "site"}
      [] OTHER -> {"site"}

\* Nothing but call c of tab t is going on.
Alone(t, c) ==
    /\ Flying \subseteq {c}
    /\ \A u \in Tabs \ {t} : shown[u] = Guest

\* What a tab shows after it gave up its session, before it reloads.
AfterGiveUp_Stays(t) == page[t]
AfterGiveUp(t) == "leaving"

\* The refresh cookie once a logout was answered.
CookieAfterLogout_Kept == cookie
CookieAfterLogout == Guest

-----------------------------------------------------------------------------
\* A browser without a session; every tab is on the login page.
SessionInit ==
    /\ stored = Guest /\ fresh = FALSE /\ cookie = Guest
    /\ shown = [t \in Tabs |-> Guest]
    /\ page = [t \in Tabs |-> "login"]
    /\ busy = [t \in Tabs |-> FALSE]
    /\ calls = [c \in CallSlots |-> Unused]
    /\ orderly = TRUE /\ left = FALSE

\* A tab loads a page: an address is typed in, or the page is reloaded.  The
\* requests of the page it leaves are dropped.
Load(t, p) ==
    /\ page' = [page EXCEPT ![t] = Admit(p)]
    /\ shown' = [shown EXCEPT ![t] = CurrentUser]
    /\ busy' = [busy EXCEPT ![t] = FALSE]
    /\ calls' = [c \in CallSlots |->
                   IF c \in Flying /\ calls[c].tab = t THEN Unused ELSE calls[c]]
    /\ UNCHANGED <<stored, fresh, cookie, orderly, left>>

Visit(t, p) == page[t] # "leaving" /\ Load(t, p)
Land(t) == page[t] = "leaving" /\ Load(t, "login")

\* A link, or router.push: the providers of the layout stay.
Follow(t, p) ==
    /\ page' = [page EXCEPT ![t] = Admit(p)]
    /\ busy' = [busy EXCEPT ![t] = FALSE]

FollowLink(t, p) ==
    /\ page[t] \in Pages
    /\ p \in IF page[t] = "login" THEN {"site"} ELSE Links(t)
    /\ Follow(t, p)
    /\ UNCHANGED <<stored, fresh, cookie, shown, calls, orderly, left>>

\* The login page sends a user who is logged in where the role belongs, or
\* where the middleware came from.
EnterSite(t) ==
    /\ page[t] = "login" /\ shown[t] # Guest
    /\ \E p \in IF RoleOf[shown[t]] = "mp" THEN {"mp"} ELSE {"site", "admin", "mp"} :
         Follow(t, p)
    /\ UNCHANGED <<stored, fresh, cookie, shown, calls, orderly, left>>

\* An hour has passed.
Expire ==
    /\ stored # Guest /\ fresh
    /\ fresh' = FALSE
    /\ UNCHANGED <<stored, cookie, shown, page, busy, calls, orderly, left>>

-----------------------------------------------------------------------------
Begin(t, c, kind, as) ==
    /\ calls[c] = Unused
    /\ calls' = [calls EXCEPT ![c] =
                   [tab |-> t, kind |-> kind, as |-> as, phase |-> "sent"]]
    /\ UNCHANGED <<stored, fresh, cookie, shown, page>>

Done(c) == calls' = [calls EXCEPT ![c] = Unused]
At(c, kind, phases) == c \in Flying /\ calls[c].kind = kind /\ calls[c].phase \in phases

\* A page asks for something that needs a token, with the one that is stored.
AskData(t, c) ==
    /\ page[t] \in Pages \ Public
    /\ Begin(t, c, "data", stored)
    /\ UNCHANGED <<busy, orderly, left>>

\* The API serves it, as the user of the token, or answers with an error that is
\* not 401.  An expired token, or none, is 401.
Served(c) ==
    /\ At(c, "data", {"sent", "again"}) /\ calls[c].as # Guest
    /\ Done(c)
    /\ UNCHANGED <<stored, fresh, cookie, shown, page, busy, orderly, left>>

\* 401: tryRefresh sends the refresh cookie that the browser has now.
Refused(c) ==
    /\ At(c, "data", {"sent"})
    /\ calls' = [calls EXCEPT ![c].phase = "refreshing", ![c].as = cookie]
    /\ UNCHANGED <<stored, fresh, cookie, shown, page, busy, orderly, left>>

\* The session is good: its user's new token is stored, and the request sent
\* again with it.
Renewed(c) ==
    /\ At(c, "data", {"refreshing"}) /\ calls[c].as # Guest
    /\ SetToken(calls[c].as)
    /\ calls' = [calls EXCEPT ![c].phase = "again"]
    /\ UNCHANGED <<cookie, shown, page, busy, orderly, left>>

\* The refresh is refused or fails: the token is forgotten, and the tab loads
\* the login page.
GiveUp(c) ==
    LET t == calls[c].tab IN
    /\ At(c, "data", {"refreshing"})
    /\ ClearToken
    /\ page' = [page EXCEPT ![t] = AfterGiveUp(t)]
    /\ Done(c)
    /\ orderly' = (orderly /\ Alone(t, c))
    /\ UNCHANGED <<cookie, shown, busy, left>>

\* The request is lost, or refused for the second time.
Lost(c) ==
    /\ At(c, "data", {"sent", "again"})
    /\ Done(c)
    /\ UNCHANGED <<stored, fresh, cookie, shown, page, busy, orderly, left>>

-----------------------------------------------------------------------------
\* handleSubmit of the login form.
Login(t, c, u) ==
    /\ page[t] = "login" /\ ~busy[t]
    /\ busy' = [busy EXCEPT ![t] = TRUE]
    /\ Begin(t, c, "login", u)
    /\ UNCHANGED <<orderly, left>>

\* The login is answered with both tokens; its user is read back after an
\* import that another tab may come before.
LoginStored(c) ==
    /\ At(c, "login", {"sent"})
    /\ SetToken(calls[c].as) /\ cookie' = calls[c].as
    /\ calls' = [calls EXCEPT ![c].phase = "reading"]
    /\ orderly' = (orderly /\ Flying = {c} /\ \A t \in Tabs : shown[t] = Guest)
    /\ left' = FALSE
    /\ UNCHANGED <<shown, page, busy>>

LoginShown(c) ==
    LET t == calls[c].tab IN
    /\ At(c, "login", {"reading"})
    /\ shown' = [shown EXCEPT ![t] = IF CurrentUser = Guest THEN @ ELSE CurrentUser]
    /\ busy' = [busy EXCEPT ![t] = FALSE]
    /\ Done(c)
    /\ UNCHANGED <<stored, fresh, cookie, page, orderly, left>>

\* The login is refused or lost; or its answer breaks off after the headers,
\* which set the cookie.
LoginFails(c) ==
    /\ At(c, "login", {"sent"})
    /\ busy' = [busy EXCEPT ![calls[c].tab] = FALSE]
    /\ Done(c)
    /\ \/ UNCHANGED <<cookie, orderly, left>>
       \/ cookie' = calls[c].as /\ orderly' = FALSE /\ left' = FALSE
    /\ UNCHANGED <<stored, fresh, shown, page>>

\* handleLogout of the bar.
Logout(t, c) ==
    /\ page[t] \in Pages \ Public /\ shown[t] # Guest
    /\ Begin(t, c, "logout", Guest)
    /\ UNCHANGED <<busy, orderly, left>>

\* Whatever comes of the request, the token is forgotten and the login page is
\* shown; only an answer expires the refresh cookie.
LoggedOut(c, answered) ==
    LET t == calls[c].tab IN
    /\ At(c, "logout", {"sent"})
    /\ cookie' = IF answered THEN CookieAfterLogout ELSE cookie
    /\ ClearToken
    /\ shown' = [shown EXCEPT ![t] = Guest]
    /\ page' = [page EXCEPT ![t] = IF @ = "leaving" THEN @ ELSE "login"]
    /\ busy' = [busy EXCEPT ![t] = FALSE]
    /\ Done(c)
    /\ orderly' = (orderly /\ Alone(t, c))
    /\ left' = (answered /\ \A d \in Flying \ {c} :
                  calls[d].phase # "refreshing" /\ calls[d].kind # "login")

SessionNext ==
    \/ Expire
    \/ \E t \in Tabs : Land(t) \/ EnterSite(t) \/ \E p \in Pages : Visit(t, p) \/ FollowLink(t, p)
    \/ \E t \in Tabs, c \in CallSlots : AskData(t, c) \/ Logout(t, c) \/ \E u \in People : Login(t, c, u)
    \/ \E c \in CallSlots :
         \/ Served(c) \/ Refused(c) \/ Renewed(c) \/ GiveUp(c) \/ Lost(c)
         \/ LoginStored(c) \/ LoginShown(c) \/ LoginFails(c)
         \/ \E answered \in BOOLEAN : LoggedOut(c, answered)

SessionSpec == SessionInit /\ [][SessionNext]_sessionVars

-----------------------------------------------------------------------------
\* Every variable keeps its shape.
SessionTypeOK ==
    /\ stored \in Visitors /\ cookie \in Visitors /\ fresh \in BOOLEAN
    /\ shown \in [Tabs -> Visitors] /\ page \in [Tabs -> Pages \cup {"leaving"}]
    /\ busy \in [Tabs -> BOOLEAN] /\ calls \in [CallSlots -> Call \cup {Unused}]
    /\ orderly \in BOOLEAN /\ left \in BOOLEAN

\* While no login or logout overlaps with another tab or request, a tab that
\* shows a user has that user's token, so that what it asks for is done as that
\* user, also after a refresh, and it is never on a page that the
\* middleware would not serve to that user.
TabsActAsShown ==
    orderly =>
      /\ \A t \in Tabs : shown[t] # Guest /\ page[t] # "leaving" =>
           /\ stored = shown[t]
           /\ page[t] = "mp" => RoleOf[shown[t]] # "citizen"
           /\ page[t] = "admin" => RoleOf[shown[t]] = "sysadmin"
      /\ \A c \in Flying :
           calls[c].kind = "data" /\ Guest \notin {calls[c].as, shown[calls[c].tab]}
             => calls[c].as = shown[calls[c].tab]

\* After a logout that was answered, while no refresh and no login was in
\* flight, the browser holds no token until somebody logs in, whatever the other
\* tabs and earlier requests do.
LogoutSticks == left => stored = Guest /\ cookie = Guest

=============================================================================
