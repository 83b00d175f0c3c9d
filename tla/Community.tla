----------------------------- MODULE Community -----------------------------
(***************************************************************************)
(* What users show one another: profile pages whose modules their owner    *)
(* opens, keeps or hides, follows, favourites, message boards, solutions   *)
(* with their review and comments, shared submissions, announcements and   *)
(* the modules of the home page.  Most handlers are one statement.  Those  *)
(* that resolve a name, look at a permission and only then read or write   *)
(* are taken await by await (req); between two awaits anybody may rename   *)
(* himself, hide a module or have a submission judged again.               *)
(***************************************************************************)
EXTENDS Integers, Sequences

CONSTANTS
    Members, NoOne,  \* users; a reader without a valid token
    Solvers,         \* who has solved the problem at the start
    Names,           \* what a user can be called
    Bodies,          \* bodies of PUT /me/home-modules: a module to its visibility
    HomeBodies,      \* bodies of PUT /admin/home-modules
    MaxWrites        \* bound: changes, whoever makes them

Keys == {"heatmap", "solved", "messages", "social", "badges"}
Visibilities == {"public", "self", "hidden"}
HomeModules == {"hero", "daily", "features", "stats", "badges", "flow"}

CommunityAssumption ==
    /\ NoOne \notin Members /\ Solvers \subseteq Members
    /\ \A b \in Bodies : \A k \in DOMAIN b : k \in Keys /\ b[k] \in Visibilities
    /\ \A b \in HomeBodies : \A k \in DOMAIN b : b[k] \in BOOLEAN
    /\ MaxWrites \in Nat
    /\ \E f \in [Members -> Names] : \A m, n \in Members : m # n => f[m] # f[n]

VARIABLES
    name,       \* users.username
    vis,        \* user_profile_modules
    follows,
    favorites, solved,  \* who likes, who has solved the problem at hand
    board,      \* profile_messages: their authors
    solutions, comments,
    token,      \* share_token of each member's submission; 0: not shared
    news,       \* announcements
    home,       \* settings.homepage_modules
    req,        \* the request that is being served
    writes

tables == <<name, vis, follows, favorites, solved, board, solutions, comments, token, news, home>>
vars == <<tables, req, writes>>

Reading == {"profile", "followers", "following", "badges", "messages"}
Posting == {"message", "solution"}

NoReq == [who |-> NoOne, route |-> "none", name |-> "", of |-> NoOne, at |-> "idle", got |-> {}, could |-> {}]

\* moduleDefaults.
HomeDefaults == [k \in HomeModules |-> k \in {"hero", "daily", "features"}]

Init ==
    /\ name = CHOOSE f \in [Members -> Names] : \A m, n \in Members : m # n => f[m] # f[n]
    /\ vis = [m \in Members |-> [k \in Keys |-> "public"]]
    /\ follows = {} /\ favorites = {} /\ solved = Solvers
    /\ board = [m \in Members |-> <<>>]
    /\ solutions = <<>> /\ comments = <<>>
    /\ token = [m \in Members |-> 0]
    /\ news = <<>> /\ home = HomeDefaults
    /\ req = NoReq /\ writes = 0

-----------------------------------------------------------------------------
(* The requests in steps.  got is what the answer gives away, could what   *)
(* was open to the reader at some moment since the name was resolved.      *)

\* canViewProfileModule, and the filter of GET /:username.
MayView(v, who, of, k) == v[of][k] = "public" \/ (v[of][k] = "self" /\ who = of)

Open(v, s, who, of) ==
    {k \in Keys : MayView(v, who, of, k)} \cup (IF who \in s THEN {"solution"} ELSE {})

Served(next) == req' = next /\ UNCHANGED <<tables, writes>>

\* The path names a user.
Ask(who, route, n) ==
    /\ req.at \in {"idle", "done"}
    /\ who = NoOne => route \in Reading
    /\ Served([NoReq EXCEPT !.who = who, !.route = route, !.name = n, !.at = "find"])

\* SELECT id FROM users WHERE username = $1
Find ==
    /\ req.at = "find" /\ req.route # "solution"
    /\ IF \E m \in Members : name[m] = req.name
       THEN LET m == CHOOSE m \in Members : name[m] = req.name
            IN Served([req EXCEPT !.of = m, !.at = IF req.route = "profile" THEN "queries" ELSE "check",
                                  !.could = Open(vis, solved, req.who, m)])
       ELSE Served([req EXCEPT !.at = "done"])

\* GET /:username: statistics, solved problems, activity and followers are read
\* for every reader, before anything is known of the modules.
Queries == req.at = "queries" /\ Served([req EXCEPT !.at = "check"])

\* Mutated: the hidden modules are marked as hidden and their data sent along.
ProfileData_KeysOnly(who, of) == {"solved", "heatmap", "social"}

\* GET /:username: the data that go with the modules the reader may see.
ProfileData(who, of) == {k \in {"solved", "heatmap", "social"} : MayView(vis, who, of, k)}

Answer == req.at = "check" /\ req.route = "profile"
          /\ Served([req EXCEPT !.at = "done", !.got = ProfileData(req.who, req.of)])

ModuleOf(route) == CASE route \in {"followers", "following"} -> "social"
                     [] route = "badges" -> "badges"
                     [] route \in {"messages", "message"} -> "messages"

\* The other routes of a profile look at one module and answer with an empty
\* list, or with 403 to a message, when the reader may not see it.
Check ==
    /\ req.at = "check" /\ req.route \notin {"profile", "solution"}
    /\ Served([req EXCEPT !.at = IF MayView(vis, req.who, req.of, ModuleOf(req.route)) THEN "go" ELSE "done"])

Select == req.at = "go" /\ req.route \in Reading
          /\ Served([req EXCEPT !.at = "done", !.got = {ModuleOf(req.route)}])

\* POST /:username/messages: INSERT.
PostMessage ==
    /\ req.at = "go" /\ req.route = "message" /\ writes < MaxWrites
    /\ board' = [board EXCEPT ![req.of] = Append(@, req.who)]
    /\ req' = [req EXCEPT !.at = "done", !.got = {"messages"}]
    /\ writes' = writes + 1
    /\ UNCHANGED <<name, vis, follows, favorites, solved, solutions, comments, token, news, home>>

\* POST /solutions: only who has solved the problem.
CheckSolved ==
    /\ req.at = "find" /\ req.route = "solution"
    /\ Served([req EXCEPT !.of = req.who, !.could = Open(vis, solved, req.who, req.who),
                          !.at = IF req.who \in solved THEN "go" ELSE "done"])

PostSolution ==
    /\ req.at = "go" /\ req.route = "solution" /\ writes < MaxWrites
    /\ solutions' = Append(solutions, [by |-> req.who, status |-> "pending"])
    /\ req' = [req EXCEPT !.at = "done", !.got = {"solution"}]
    /\ writes' = writes + 1
    /\ UNCHANGED <<name, vis, follows, favorites, solved, board, comments, token, news, home>>

-----------------------------------------------------------------------------
(* Changes of one statement, by anybody at any moment.                     *)

Wrote == writes < MaxWrites /\ writes' = writes + 1

Watched(v, s) == req' = IF req.of = NoOne THEN req
                        ELSE [req EXCEPT !.could = @ \cup Open(v, s, req.who, req.of)]

\* PUT /me/home-modules: one transaction for all keys of the body.
PutModules(m, body) ==
    /\ Wrote
    /\ vis' = [vis EXCEPT ![m] = [k \in Keys |-> IF k \in DOMAIN body THEN body[k] ELSE @[k]]]
    /\ Watched(vis', solved)
    /\ UNCHANGED <<name, follows, favorites, solved, board, solutions, comments, token, news, home>>

\* A verdict, or a rejudge that takes it back.
Judged(m) ==
    /\ Wrote
    /\ solved' = IF m \in solved THEN solved \ {m} ELSE solved \cup {m}
    /\ Watched(vis, solved')
    /\ UNCHANGED <<name, vis, follows, favorites, board, solutions, comments, token, news, home>>

\* PUT /me/profile: refused with 409, or by the unique key, when the name is taken.
Rename(m, n) ==
    /\ Wrote
    /\ \A o \in Members : name[o] # n
    /\ name' = [name EXCEPT ![m] = n]
    /\ UNCHANGED <<vis, follows, favorites, solved, board, solutions, comments, token, news, home, req>>

\* PUT and DELETE /:id/follow, ON CONFLICT DO NOTHING.
Follow(m, n) ==
    /\ Wrote /\ m # n
    /\ follows' \in {follows \cup {<<m, n>>}, follows \ {<<m, n>>}}
    /\ UNCHANGED <<name, vis, favorites, solved, board, solutions, comments, token, news, home, req>>

\* PUT and DELETE /me/favorites/:problemId.
Favorite(m) ==
    /\ Wrote
    /\ favorites' \in {favorites \cup {m}, favorites \ {m}}
    /\ UNCHANGED <<name, vis, follows, solved, board, solutions, comments, token, news, home, req>>

\* PUT /admin/solutions/:id, whatever the status before.
Review(i, verdict) ==
    /\ Wrote /\ solutions[i].status # "deleted"
    /\ solutions' = [solutions EXCEPT ![i].status = verdict]
    /\ UNCHANGED <<name, vis, follows, favorites, solved, board, comments, token, news, home, req>>

\* DELETE /solutions/:id by its author; the comments go with it.
DeleteSolution(i) ==
    /\ Wrote /\ solutions[i].status # "deleted"
    /\ solutions' = [solutions EXCEPT ![i].status = "deleted"]
    /\ comments' = SelectSeq(comments, LAMBDA c : c.on # i)
    /\ UNCHANGED <<name, vis, follows, favorites, solved, board, token, news, home, req>>

\* POST /solutions/:id/comments.
Comment(m, i) ==
    /\ Wrote /\ solutions[i].status # "deleted"
    /\ comments' = Append(comments, [by |-> m, on |-> i])
    /\ UNCHANGED <<name, vis, follows, favorites, solved, board, solutions, token, news, home, req>>

\* PUT /submissions/:id/share: a new token each time, NULL to end it.
Share(m, enabled) ==
    /\ Wrote
    /\ token' = [token EXCEPT ![m] = IF enabled THEN writes + 1 ELSE 0]
    /\ UNCHANGED <<name, vis, follows, favorites, solved, board, solutions, comments, news, home, req>>

\* POST /admin/announcements
CreateNews(active, until) ==
    /\ Wrote
    /\ news' = Append(news, [active |-> active, until |-> until])
    /\ UNCHANGED <<name, vis, follows, favorites, solved, board, solutions, comments, token, home, req>>

\* PUT /admin/announcements/:id: what the body leaves out stays; an end of null clears it.
UpdateNews(i, active, until) ==
    /\ Wrote /\ news[i].until # "deleted"
    /\ news' = [news EXCEPT ![i] = [active |-> active,
                                    until |-> IF until = "kept" THEN news[i].until ELSE until]]
    /\ UNCHANGED <<name, vis, follows, favorites, solved, board, solutions, comments, token, home, req>>

\* DELETE /admin/announcements/:id, or the end of its time.
EndNews(i, how) ==
    /\ Wrote
    /\ news[i].until \in IF how = "past" THEN {"later"} ELSE {"never", "later", "past"}
    /\ news' = [news EXCEPT ![i].until = how]
    /\ UNCHANGED <<name, vis, follows, favorites, solved, board, solutions, comments, token, home, req>>

\* saveHomeModules: what the body leaves out goes back to the default.
PutHome(body) ==
    /\ Wrote
    /\ home' = [k \in HomeModules |-> IF k \in DOMAIN body THEN body[k] ELSE HomeDefaults[k]]
    /\ UNCHANGED <<name, vis, follows, favorites, solved, board, solutions, comments, token, news, req>>

-----------------------------------------------------------------------------
Serve == Find \/ Queries \/ Answer \/ Check \/ Select \/ PostMessage \/ CheckSolved \/ PostSolution

Change ==
    \/ \E m \in Members, body \in Bodies : PutModules(m, body)
    \/ \E m \in Members : Judged(m) \/ Favorite(m)
    \/ \E m \in Members, n \in Names : Rename(m, n)
    \/ \E m, n \in Members : Follow(m, n)
    \/ \E i \in DOMAIN solutions : \/ \E verdict \in {"approved", "rejected"} : Review(i, verdict)
                                  \/ DeleteSolution(i)
                                  \/ \E m \in Members : Comment(m, i)
    \/ \E m \in Members, b \in BOOLEAN : Share(m, b)
    \/ \E b \in BOOLEAN, until \in {"never", "later"} : CreateNews(b, until)
    \/ \E i \in DOMAIN news : \/ \E b \in BOOLEAN, until \in {"kept", "never", "later"} : UpdateNews(i, b, until)
                             \/ EndNews(i, "past") \/ EndNews(i, "deleted")
    \/ \E body \in HomeBodies : PutHome(body)

Next ==
    \/ \E who \in Members \cup {NoOne}, route \in Reading \cup Posting, n \in Names : Ask(who, route, n)
    \/ Serve
    \/ Change

Spec == Init /\ [][Next]_vars

-----------------------------------------------------------------------------
\* Every variable has its type.
TypeOK ==
    /\ name \in [Members -> Names] /\ vis \in [Members -> [Keys -> Visibilities]]
    /\ follows \subseteq Members \X Members /\ favorites \subseteq Members /\ solved \subseteq Members
    /\ board \in [Members -> Seq(Members)] /\ token \in [Members -> 0..MaxWrites]
    /\ home \in [HomeModules -> BOOLEAN] /\ writes \in 0..MaxWrites
    /\ req.got \subseteq Keys \cup {"solution"} /\ req.could \subseteq Keys \cup {"solution"}

\* An answer gives away the data of a module, and a message or a solution is
\* accepted, only if that was open to the one who asked at some moment while
\* the request was served, whatever is renamed, hidden or judged meanwhile
\* (users.ts, solutions.ts).
OnlyWhatIsOpen == req.at = "done" => req.got \subseteq req.could
=============================================================================
