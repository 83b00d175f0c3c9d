----------------------------- MODULE WebSession -----------------------------
(***************************************************************************)
(* Who is logged in, as the web client sees it: the httpOnly cookie that   *)
(* all tabs of a browser share, the user each tab keeps in sessionStorage  *)
(* (lib/api.ts, hooks/useAuth.ts), and the requests whose late answers     *)
(* change either: verification on every mount, the navigation bar's poll,  *)
(* login, registration, logout and the profile form.                       *)
(***************************************************************************)
EXTENDS Naturals, FiniteSets

CONSTANTS
    Tabs,
    Users,
    NoUser,
    MaxSessions,  \* bound: logins, the session of each has its number
    MaxPending    \* bound: requests of a tab under way

SessionAssumption == NoUser \notin Users /\ MaxSessions \in Nat /\ MaxPending \in Nat

VARIABLES
    cookie,   \* the session in the cookie, 0: none
    owner,    \* the user of each session that was begun
    expired,  \* sessions whose token has run out
    banned,   \* users the gateway refuses
    ui,       \* getStoredUser of each tab
    page,     \* login, inside, or leaving: window.location.href is assigned, the page still runs
    pending,  \* answers on their way to each tab
    clears,   \* a request of clearAuthCookie is under way, which nobody waits for
    loads     \* loads of each tab that nobody asked for, since the user did something in it
              \* or the session was changed elsewhere

vars == <<cookie, owner, expired, banned, ui, page, pending, clears, loads>>
server == <<owner, expired, banned>>

Sessions == 1..MaxSessions

Init ==
    /\ cookie = 0
    /\ owner = [s \in Sessions |-> NoUser]
    /\ expired = {} /\ banned = {}
    /\ ui = [t \in Tabs |-> NoUser]
    /\ page = [t \in Tabs |-> "login"]
    /\ pending = [t \in Tabs |-> {}]
    /\ clears = FALSE
    /\ loads = [t \in Tabs |-> 0]

\* What requireUser makes of the cookie.
Valid(s) == s # 0 /\ s \notin expired
Answer == IF ~Valid(cookie) THEN "401"
          ELSE IF owner[cookie] \in banned THEN "403" ELSE "ok"
Whose == IF cookie = 0 THEN NoUser ELSE owner[cookie]

\* fetch with credentials: 'include'; the cookie is the one of the moment.
Request(kind) == [kind |-> kind, status |-> Answer, user |-> Whose]
Sends(t, kind) ==
    /\ page[t] # "leaving"
    /\ Cardinality(pending[t]) < MaxPending
    /\ ~\E r \in pending[t] : r.kind = kind
    /\ pending' = [pending EXCEPT ![t] = @ \cup {Request(kind)}]

\* window.location.href: the page goes on until it is replaced.
Leave(t) == page' = [page EXCEPT ![t] = "leaving"]
Show(t, user) == ui' = [ui EXCEPT ![t] = user]

\* AuthGate: a page behind it is shown once the session is confirmed.
Gate(t) == IF \E r \in pending[t] : r.kind = "verify" THEN "checking"
           ELSE IF ui[t] # NoUser THEN "page" ELSE "login first"

-----------------------------------------------------------------------------
\* A page is loaded: the requests of the old one are aborted, and useAuth verifies the
\* session on mount.
Load(t, to, count) ==
    /\ page' = [page EXCEPT ![t] = to]
    /\ pending' = [pending EXCEPT ![t] = {Request("verify")}]
    /\ loads' = [loads EXCEPT ![t] = count]
    /\ UNCHANGED <<cookie, server, ui, clears>>

\* A user opens or reloads a page.
Open(t) == page[t] # "leaving" /\ \E to \in {"login", "inside"} : Load(t, to, 0)

\* The page that location.href named.
Arrive(t) == page[t] = "leaving" /\ Load(t, "login", loads[t] + 1)

\* The client-side navigation of the router mounts another useAuth.
Mount(t) ==
    /\ page[t] = "inside" /\ Sends(t, "verify")
    /\ UNCHANGED <<cookie, server, ui, page, clears, loads>>

\* Mutated: a banned user is sent to the login page even from the login page.
VerifyAnswered_AlwaysRedirects(t, r) ==
    /\ r.kind = "verify"
    /\ Show(t, IF r.status = "ok" THEN r.user ELSE NoUser)
    /\ IF r.status = "403" /\ page[t] # "leaving" THEN Leave(t) ELSE UNCHANGED page
    /\ pending' = [pending EXCEPT ![t] = @ \ {r}]
    /\ UNCHANGED <<cookie, server, clears, loads>>

\* useAuth's effect: the user of the answer is stored, whatever has happened since it was
\* sent; 401 and 403 clear it, and 403 leads to the login page.
VerifyAnswered(t, r) ==
    /\ r.kind = "verify"
    /\ Show(t, IF r.status = "ok" THEN r.user ELSE NoUser)
    /\ IF r.status = "403" /\ page[t] = "inside" THEN Leave(t) ELSE UNCHANGED page
    /\ pending' = [pending EXCEPT ![t] = @ \ {r}]
    /\ UNCHANGED <<cookie, server, clears, loads>>

\* A verification without an answer changes nothing.
VerifyFails(t, r) ==
    /\ r.kind = "verify"
    /\ pending' = [pending EXCEPT ![t] = @ \ {r}]
    /\ UNCHANGED <<cookie, server, ui, page, clears, loads>>

\* The navigation bar asks for the unread notifications while there is a user ...
Poll(t) ==
    /\ ui[t] # NoUser /\ Sends(t, "poll")
    /\ UNCHANGED <<cookie, server, ui, page, clears, loads>>

\* ... and the profile form saves.
SaveProfile(t) ==
    /\ page[t] = "inside" /\ Gate(t) = "page" /\ Sends(t, "put")
    /\ UNCHANGED <<cookie, server, ui, page, clears, loads>>

\* Mutated: apiFetch leaves 401 to its callers, and the poll swallows it.
ApiAnswered_NoRedirect(t, r) ==
    /\ r.kind \in {"poll", "put"}
    /\ pending' = [pending EXCEPT ![t] = @ \ {r}]
    /\ IF r.kind = "put" /\ r.status = "ok" THEN Show(t, r.user) ELSE UNCHANGED ui
    /\ UNCHANGED <<cookie, server, page, clears, loads>>

\* apiFetch: 401 clears the user and, without waiting, the cookie, and leads to the login
\* page (handleUnauthorized); the profile form stores the user it gets.
ApiAnswered(t, r) ==
    /\ r.kind \in {"poll", "put"}
    /\ pending' = [pending EXCEPT ![t] = @ \ {r}]
    /\ IF r.status = "401" THEN Show(t, NoUser) /\ Leave(t) /\ clears' = TRUE
       ELSE /\ IF r.kind = "put" /\ r.status = "ok" THEN Show(t, r.user) ELSE UNCHANGED ui
            /\ UNCHANGED <<page, clears>>
    /\ UNCHANGED <<cookie, server, loads>>

\* The answer to clearAuthCookie, if the request was sent before the page was left.
CookieCleared ==
    /\ clears
    /\ clears' = FALSE /\ cookie' \in {0, cookie}
    /\ UNCHANGED <<server, ui, page, pending, loads>>

-----------------------------------------------------------------------------
(* The forms.                                                              *)

\* The loads of every tab are counted anew: all tabs have one cookie.
Asked == loads' = [t \in Tabs |-> 0]

\* The session of a new login, by number.
Begins(user) ==
    LET s == Cardinality({k \in Sessions : owner[k] # NoUser}) + 1 IN
    /\ s \in Sessions /\ user \notin banned
    /\ owner' = [owner EXCEPT ![s] = user]
    /\ cookie' = s

\* onSubmit of the login and registration pages until the gateway has answered 200: the
\* cookie is set, the user stored, and the router goes on without loading a page.
Login(t, user) ==
    /\ page[t] = "login" /\ Begins(user)
    /\ Show(t, user)
    /\ page' = [page EXCEPT ![t] = "inside"]
    /\ Asked
    /\ UNCHANGED <<expired, banned, pending, clears>>

\* The gateway refuses a banned user and clears whatever cookie there is.
LoginRefused(t, user) ==
    /\ page[t] = "login" /\ user \in banned
    /\ cookie' = 0
    /\ UNCHANGED <<server, ui, page, pending, clears, loads>>

\* handleLogout: the answer, or its failure, is awaited before the page is left.
Logout(t) ==
    /\ ui[t] # NoUser /\ page[t] # "leaving"
    /\ cookie' \in {0, cookie}
    /\ Show(t, NoUser)
    /\ Leave(t)
    /\ loads' = [loads EXCEPT ![t] = 0]
    /\ UNCHANGED <<server, pending, clears>>

-----------------------------------------------------------------------------
\* A tab outside Tabs logs in or out.
Elsewhere ==
    /\ \/ \E user \in Users : Begins(user)
       \/ cookie' = 0 /\ UNCHANGED owner
    /\ Asked
    /\ UNCHANGED <<expired, banned, ui, page, pending, clears>>

Expire == Valid(cookie) /\ expired' = expired \cup {cookie} /\ Asked
          /\ UNCHANGED <<cookie, owner, banned, ui, page, pending, clears>>

Ban(user) == banned = {} /\ banned' = {user} /\ Asked
             /\ UNCHANGED <<cookie, owner, expired, ui, page, pending, clears>>

Browser(t) ==
    \/ Arrive(t) \/ Poll(t)
    \/ \E r \in pending[t] : VerifyAnswered(t, r) \/ ApiAnswered(t, r)

Next ==
    \/ \E t \in Tabs :
          \/ Browser(t) \/ Open(t) \/ Mount(t) \/ SaveProfile(t) \/ Logout(t)
          \/ \E r \in pending[t] : VerifyFails(t, r)
          \/ \E user \in Users : Login(t, user) \/ LoginRefused(t, user)
    \/ CookieCleared \/ Elsewhere \/ Expire \/ \E user \in Users : Ban(user)

\* The interval of the navigation bar fires, and requests are answered.
SessionFairness ==
    \A t \in Tabs :
        /\ WF_vars(Arrive(t)) /\ SF_vars(Poll(t))
        /\ SF_vars(\E r \in pending[t] : ApiAnswered(t, r))

Spec == Init /\ [][Next]_vars /\ SessionFairness

-----------------------------------------------------------------------------
\* Every variable keeps its type.
TypeOK ==
    /\ cookie \in 0..MaxSessions
    /\ owner \in [Sessions -> Users \cup {NoUser}]
    /\ expired \subseteq Sessions /\ banned \subseteq Users
    /\ ui \in [Tabs -> Users \cup {NoUser}]
    /\ page \in [Tabs -> {"login", "inside", "leaving"}]
    /\ pending \in [Tabs -> SUBSET [kind : {"verify", "poll", "put"},
                                   status : {"ok", "401", "403"}, user : Users \cup {NoUser}]]
    /\ clears \in BOOLEAN /\ loads \in [Tabs -> Nat]

\* A tab that shows a user although the browser has no valid session any more (it was
\* ended in another tab, it ran out, or a late answer has brought the user back) finds
\* out by itself.
UiSettles ==
    \A t \in Tabs :
        (ui[t] # NoUser /\ ~Valid(cookie)) ~> (ui[t] = NoUser \/ Valid(cookie))

\* A refused user lands on the login page and stays there: the answers that were under
\* way when the session ended make a tab load it three times at most, and then none does.
RedirectsEnd == \A t \in Tabs : loads[t] <= 3
=============================================================================
