--------------------------- MODULE MCVisitorsProofs ---------------------------
(***************************************************************************)
(* Theorems about the components of MCVisitors, for every value of their   *)
(* constants: the social functions, the pages of the web client and the    *)
(* types of all parts.  What is proved of a component holds in every       *)
(* behaviour of PartsSpec, in which it runs or stays where it starts.      *)
(***************************************************************************)
EXTENDS MCVisitors, AuthCacheProofs, SequenceTheorems, FiniteSetTheorems

-----------------------------------------------------------------------------
(* Social functions (Community)                                            *)

\* The steps of PartsSpec are steps of the social functions or leave them alone.
LEMMA SocialRuns == PartsSpec => Social!Init /\ [][Social!Next]_(Social!vars)
<1>1. PartsInit => Social!Init
  BY DEF PartsInit
<1>2. [PartsNext]_<<part, vars, communityVars, listVars, submitVars, copyVars>>
        => [Social!Next]_(Social!vars)
  BY DEF PartsNext, communityVars, Social!vars, Social!tables
<1> QED
  BY <1>1, <1>2, PTL DEF PartsSpec

\* What can be open to a reader: the modules of a profile and the solutions of a problem.
Openings == Social!Keys \cup {"solution"}
Routes == Social!Reading \cup Social!Posting

\* What a route gives away or accepts.
Gives(route) == IF route = "solution" THEN "solution" ELSE Social!ModuleOf(route)

ReqType ==
    req \in [who : Members \cup {NoOne}, route : Routes \cup {"none"}, name : Names \cup {""},
             of : Members \cup {NoOne}, at : {"idle", "find", "queries", "check", "go", "done"},
             got : SUBSET Openings, could : SUBSET Openings]

\* A request that has passed its check names the user it was made for, and only a
\* member posts.
ReqBound ==
    /\ req.route \in Social!Posting => req.who \in Members
    /\ req.at \in {"queries", "check", "go"} => req.of \in Members
    /\ req.at = "go" => req.route \in Routes \ {"profile"}
    /\ req.at # "idle" => req.route \in Routes

\* could keeps up with what is open now, and has what the check found open.
OpenIsWatched ==
    /\ req.of \in Members => Social!Open(vis, solved, req.who, req.of) \subseteq req.could
    /\ req.at = "go" => Gives(req.route) \in req.could
    /\ req.at # "done" => req.got = {}
    /\ req.got \subseteq req.could

SocialInv == Social!TypeOK /\ ReqType /\ ReqBound /\ OpenIsWatched

\* The module of every route but the profile itself is one a profile can have.
LEMMA GivesOpening ==
    ASSUME NEW r \in Routes \ {"profile"}
    PROVE  /\ Gives(r) \in Openings
           /\ r # "solution" => Social!ModuleOf(r) \in Social!Keys /\ Gives(r) = Social!ModuleOf(r)
  BY DEF Gives, Routes, Openings, Social!Reading, Social!Posting, Social!ModuleOf, Social!Keys

\* What is open is among the openings.
LEMMA OpenType ==
    ASSUME NEW v, NEW s, NEW who, NEW of
    PROVE  Social!Open(v, s, who, of) \subseteq Openings
  BY DEF Social!Open, Openings, Social!Keys

\* The default of every module of the home page is on or off.
LEMMA HomeDefaultsType == Social!HomeDefaults \in [Social!HomeModules -> BOOLEAN]
<1>1. \A k : (k \in {"hero", "daily", "features"}) \in BOOLEAN
  OBVIOUS
<1> QED
  BY <1>1 DEF Social!HomeDefaults

\* The first state has no request.
LEMMA SocialInit == Social!Init => SocialInv
<1> SUFFICES ASSUME Social!Init PROVE SocialInv
  OBVIOUS
<1>1. Social!TypeOK
  <2>1. name \in [Members -> Names]
    BY VisitorsAssumption DEF Social!Init, Social!CommunityAssumption
  <2>2. board \in [Members -> Seq(Members)] /\ token \in [Members -> 0..MaxWrites] /\ writes \in 0..MaxWrites
    BY VisitorsAssumption DEF Social!Init, Social!CommunityAssumption
  <2>3. vis \in [Members -> [Social!Keys -> Social!Visibilities]]
    BY DEF Social!Init, Social!Visibilities
  <2>4. home \in [Social!HomeModules -> BOOLEAN]
    BY HomeDefaultsType DEF Social!Init
  <2>5. follows \subseteq Members \X Members /\ favorites \subseteq Members /\ solved \subseteq Members
    BY VisitorsAssumption DEF Social!Init, Social!CommunityAssumption
  <2>6. req.got \subseteq Openings /\ req.could \subseteq Openings
    BY DEF Social!Init, Social!NoReq
  <2> QED
    BY <2>1, <2>2, <2>3, <2>4, <2>5, <2>6 DEF Social!TypeOK, Openings
<1>2. ReqType /\ ReqBound /\ OpenIsWatched
  BY VisitorsAssumption
  DEF Social!Init, Social!NoReq, ReqType, ReqBound, OpenIsWatched, Social!CommunityAssumption, Social!Posting
<1> QED
  BY <1>1, <1>2 DEF SocialInv

\* The steps that serve the request change nothing else.
LEMMA ServedStep ==
    ASSUME SocialInv,
           \/ \E who \in Members \cup {NoOne}, route \in Routes, n \in Names : Social!Ask(who, route, n)
           \/ Social!Find \/ Social!Queries \/ Social!Answer \/ Social!Check \/ Social!Select \/ Social!CheckSolved
    PROVE  SocialInv'
<1> USE DEF SocialInv
<1>0. UNCHANGED <<name, vis, follows, favorites, solved, board, solutions, comments, token, news, home, writes>>
  BY DEF Social!Ask, Social!Find, Social!Queries, Social!Answer, Social!Check, Social!Select, Social!CheckSolved,
     Social!Served, Social!tables
<1>t. ASSUME ReqType' PROVE Social!TypeOK'
  <2>1. req'.got \subseteq Openings /\ req'.could \subseteq Openings
    BY <1>t DEF ReqType
  <2> QED
    BY <1>0, <2>1 DEF Social!TypeOK, Openings
<1>1. ASSUME NEW who \in Members \cup {NoOne}, NEW route \in Routes, NEW n \in Names, Social!Ask(who, route, n)
      PROVE  SocialInv'
  <2>1. req' = [who |-> who, route |-> route, name |-> n, of |-> NoOne, at |-> "find", got |-> {}, could |-> {}]
    BY <1>1 DEF Social!Ask, Social!Served, Social!NoReq
  <2>2. ReqType'
    BY <2>1 DEF ReqType
  <2>3. ReqBound'
    BY <2>1, <1>1, VisitorsAssumption
    DEF ReqBound, Social!Ask, Social!CommunityAssumption, Routes, Social!Posting, Social!Reading
  <2>4. OpenIsWatched'
    BY <2>1, VisitorsAssumption DEF OpenIsWatched, Social!CommunityAssumption
  <2> QED
    BY <1>t, <2>2, <2>3, <2>4
<1>2. CASE Social!Find
  <2>1. CASE req' = [req EXCEPT !.at = "done"]
    <3>1. ReqType' /\ ReqBound'
      BY <1>2, <2>1 DEF ReqType, ReqBound, Social!Find
    <3>2. OpenIsWatched'
      BY <1>0, <1>2, <2>1 DEF OpenIsWatched, ReqType, Social!Find
    <3> QED
      BY <1>t, <3>1, <3>2
  <2>2. ASSUME NEW m \in Members,
               req' = [req EXCEPT !.of = m, !.at = IF req.route = "profile" THEN "queries" ELSE "check",
                                  !.could = Social!Open(vis, solved, req.who, m)]
        PROVE  SocialInv'
    <3>1. ReqType'
      BY <2>2, OpenType DEF ReqType
    <3>2. ReqBound'
      BY <1>2, <2>2 DEF ReqType, ReqBound, Social!Find
    <3>3. /\ req'.of = m /\ req'.who = req.who /\ req'.got = req.got
          /\ req'.could = Social!Open(vis, solved, req.who, m) /\ req'.at \notin {"go", "done"}
      BY <2>2 DEF ReqType
    <3>4. OpenIsWatched'
      BY <1>0, <1>2, <3>3 DEF OpenIsWatched, Social!Find
    <3> QED
      BY <1>t, <3>1, <3>2, <3>4
  <2>3. ASSUME \E m \in Members : name[m] = req.name
        PROVE  SocialInv'
    <3>1. PICK m \in Members :
            req' = [req EXCEPT !.of = m, !.at = IF req.route = "profile" THEN "queries" ELSE "check",
                                  !.could = Social!Open(vis, solved, req.who, m)]
      BY <1>2, <2>3 DEF Social!Find, Social!Served
    <3> QED
      BY <2>2, <3>1
  <2> QED
    BY <1>2, <2>1, <2>3 DEF Social!Find, Social!Served
<1>3. CASE Social!Queries
  <2>1. ReqType' /\ ReqBound'
    BY <1>3 DEF Social!Queries, Social!Served, ReqType, ReqBound
  <2>2. OpenIsWatched'
    BY <1>0, <1>3 DEF Social!Queries, Social!Served, ReqType, OpenIsWatched
  <2> QED
    BY <1>t, <2>1, <2>2
<1>4. CASE Social!Answer
  <2>1. Social!ProfileData(req.who, req.of) \subseteq Social!Open(vis, solved, req.who, req.of)
    BY DEF Social!ProfileData, Social!Open, Social!Keys
  <2>2. req' = [req EXCEPT !.at = "done", !.got = Social!ProfileData(req.who, req.of)]
    BY <1>4 DEF Social!Answer, Social!Served
  <2>3. req.of \in Members
    BY <1>4 DEF ReqBound, Social!Answer
  <2>4. Social!ProfileData(req.who, req.of) \subseteq req.could
    BY <2>1, <2>3 DEF OpenIsWatched
  <2>5. ReqType'
    BY <2>1, <2>2, OpenType DEF ReqType
  <2>6. ReqBound'
    BY <1>4, <2>2 DEF ReqType, ReqBound, Social!Answer
  <2>7. OpenIsWatched'
    BY <1>0, <2>2, <2>4 DEF OpenIsWatched, ReqType
  <2> QED
    BY <1>t, <2>5, <2>6, <2>7
<1>5. CASE Social!Check
  <2>1. /\ req.at = "check" /\ req.route \in Routes \ {"profile", "solution"} /\ req.of \in Members
        /\ req' = [req EXCEPT !.at = IF Social!MayView(vis, req.who, req.of, Social!ModuleOf(req.route))
                                     THEN "go" ELSE "done"]
    BY <1>5 DEF Social!Check, Social!Served, ReqBound
  <2>2. Social!MayView(vis, req.who, req.of, Social!ModuleOf(req.route)) => Gives(req.route) \in req.could
    BY <2>1, GivesOpening DEF Social!Open, OpenIsWatched
  <2>3. ReqType' /\ ReqBound'
    BY <2>1 DEF ReqType, ReqBound
  <2>4. OpenIsWatched'
    BY <1>0, <2>1, <2>2 DEF OpenIsWatched, ReqType
  <2> QED
    BY <1>t, <2>3, <2>4
<1>6. CASE Social!Select
  <2>1. /\ req.at = "go" /\ req.route \in Routes \ {"profile", "solution"}
        /\ req' = [req EXCEPT !.at = "done", !.got = {Social!ModuleOf(req.route)}]
    BY <1>6 DEF Social!Select, Social!Served, ReqBound, Social!Reading
  <2>2. Social!ModuleOf(req.route) \in req.could /\ Social!ModuleOf(req.route) \in Openings
    BY <2>1, GivesOpening DEF OpenIsWatched
  <2>3. ReqType' /\ ReqBound'
    BY <2>1, <2>2 DEF ReqType, ReqBound
  <2>4. OpenIsWatched'
    BY <1>0, <2>1, <2>2 DEF OpenIsWatched, ReqType
  <2> QED
    BY <1>t, <2>3, <2>4
<1>7. CASE Social!CheckSolved
  <2>1. /\ req.at = "find" /\ req.route = "solution" /\ req.who \in Members
        /\ req' = [req EXCEPT !.of = req.who, !.could = Social!Open(vis, solved, req.who, req.who),
                              !.at = IF req.who \in solved THEN "go" ELSE "done"]
    BY <1>7 DEF Social!CheckSolved, Social!Served, ReqBound, Social!Posting
  <2>2. req.who \in solved => "solution" \in Social!Open(vis, solved, req.who, req.who)
    BY DEF Social!Open
  <2>3. ReqType'
    BY <2>1, OpenType DEF ReqType
  <2>4. ReqBound'
    BY <2>1 DEF ReqType, ReqBound, Routes, Social!Posting
  <2>5. /\ req'.of = req.who /\ req'.who = req.who /\ req'.route = "solution" /\ req'.got = {}
        /\ req'.could = Social!Open(vis, solved, req.who, req.who)
        /\ req'.at = IF req.who \in solved THEN "go" ELSE "done"
    BY <2>1 DEF ReqType, OpenIsWatched
  <2>6. OpenIsWatched'
    BY <1>0, <2>2, <2>5 DEF OpenIsWatched, Gives
  <2> QED
    BY <1>t, <2>3, <2>4, <2>6
<1> QED
  BY <1>1, <1>2, <1>3, <1>4, <1>5, <1>6, <1>7

\* The posts write, after their check, what it found open.
LEMMA PostedStep ==
    ASSUME SocialInv, Social!PostMessage \/ Social!PostSolution
    PROVE  SocialInv'
<1> USE DEF SocialInv
<1>1. /\ req.at = "go" /\ req.route \in {"message", "solution"} /\ req.who \in Members /\ req.of \in Members
      /\ req' = [req EXCEPT !.at = "done", !.got = {Gives(req.route)}]
      /\ UNCHANGED <<name, vis, follows, favorites, solved, token, home>>
      /\ writes < MaxWrites /\ writes' = writes + 1
  BY DEF Social!PostMessage, Social!PostSolution, ReqBound, Social!Posting, Gives, Social!ModuleOf
<1>2. Gives(req.route) \in req.could /\ Gives(req.route) \in Openings
  BY <1>1 DEF OpenIsWatched, ReqType
<1>3. ReqType' /\ ReqBound'
  BY <1>1, <1>2 DEF ReqType, ReqBound
<1>4. OpenIsWatched'
  BY <1>1, <1>2 DEF OpenIsWatched, ReqType
<1>5. board' \in [Members -> Seq(Members)]
  <2>1. CASE board' = [board EXCEPT ![req.of] = Append(@, req.who)]
    BY <1>1, <2>1 DEF Social!TypeOK
  <2> QED
    BY <2>1 DEF Social!PostMessage, Social!PostSolution, Social!TypeOK
<1>6. req'.got \subseteq Openings /\ req'.could \subseteq Openings
  BY <1>3 DEF ReqType
<1>7. writes' \in 0..MaxWrites
  BY <1>1, VisitorsAssumption DEF Social!TypeOK, Social!CommunityAssumption
<1> QED
  BY <1>1, <1>3, <1>4, <1>5, <1>6, <1>7 DEF Social!TypeOK, Openings

\* A change of a visibility or of a verdict is watched by the request that is under way.
LEMMA WatchedStep ==
    ASSUME SocialInv, NEW m \in Members,
           (\E keys \in ModuleBodies : Social!PutModules(m, keys)) \/ Social!Judged(m)
    PROVE  SocialInv'
<1> USE DEF SocialInv
<1>1. /\ UNCHANGED <<name, follows, favorites, board, token, home>>
      /\ writes < MaxWrites /\ writes' = writes + 1
      /\ req' = IF req.of = NoOne THEN req
                ELSE [req EXCEPT !.could = @ \cup Social!Open(vis', solved', req.who, req.of)]
  BY DEF Social!PutModules, Social!Judged, Social!Wrote, Social!Watched
<1>2. vis' \in [Members -> [Social!Keys -> Social!Visibilities]] /\ solved' \subseteq Members
  <2>1. ASSUME NEW keys \in ModuleBodies, Social!PutModules(m, keys)
        PROVE  vis' \in [Members -> [Social!Keys -> Social!Visibilities]] /\ solved' \subseteq Members
    <3>1. [k \in Social!Keys |-> IF k \in DOMAIN keys THEN keys[k] ELSE vis[m][k]]
            \in [Social!Keys -> Social!Visibilities]
      BY VisitorsAssumption DEF Social!CommunityAssumption, Social!TypeOK
    <3> QED
      BY <2>1, <3>1 DEF Social!PutModules, Social!TypeOK
  <2>2. CASE Social!Judged(m)
    BY <2>2 DEF Social!Judged, Social!TypeOK
  <2> QED
    BY <2>1, <2>2
<1>3. \A who, of : Social!Open(vis', solved', who, of) \subseteq Openings
  BY DEF Social!Open, Openings, Social!Keys
<1>4. ReqType'
  BY <1>1, <1>3 DEF ReqType
<1>5. /\ req'.who = req.who /\ req'.of = req.of /\ req'.route = req.route /\ req'.at = req.at
      /\ req'.got = req.got /\ req.could \subseteq req'.could
      /\ req.of \in Members => Social!Open(vis', solved', req.who, req.of) \subseteq req'.could
  BY <1>1, VisitorsAssumption DEF ReqType, Social!CommunityAssumption
<1>6. ReqBound'
  BY <1>5 DEF ReqBound
<1>7. OpenIsWatched'
  BY <1>5 DEF OpenIsWatched
<1>8. writes' \in 0..MaxWrites
  BY <1>1, VisitorsAssumption DEF Social!TypeOK, Social!CommunityAssumption
<1>9. req'.got \subseteq Openings /\ req'.could \subseteq Openings
  BY <1>4 DEF ReqType
<1> QED
  BY <1>1, <1>2, <1>4, <1>6, <1>7, <1>8, <1>9 DEF Social!TypeOK, Openings

\* All other changes leave the request, the visibilities and the verdicts alone.
LEMMA UnwatchedStep ==
    ASSUME SocialInv, UNCHANGED <<req, vis, solved, board>>,
           writes' \in 0..MaxWrites, name' \in [Members -> Names],
           follows' \subseteq Members \X Members, favorites' \subseteq Members,
           token' \in [Members -> 0..MaxWrites], home' \in [Social!HomeModules -> BOOLEAN]
    PROVE  SocialInv'
<1>1. ReqType' /\ ReqBound' /\ OpenIsWatched'
  BY DEF SocialInv, ReqType, ReqBound, OpenIsWatched
<1> QED
  BY <1>1 DEF SocialInv, Social!TypeOK

\* Every step keeps the invariant of the social functions.
LEMMA SocialStep ==
    ASSUME SocialInv, [Social!Next]_(Social!vars)
    PROVE  SocialInv'
<1>0. MaxWrites \in Nat /\ writes \in 0..MaxWrites
  BY VisitorsAssumption DEF Social!CommunityAssumption, SocialInv, Social!TypeOK
<1>1. ASSUME NEW m \in Members,
             \/ Social!Favorite(m) \/ (\E b \in BOOLEAN : Social!Share(m, b))
             \/ (\E n \in Names : Social!Rename(m, n)) \/ (\E n \in Members : Social!Follow(m, n))
      PROVE  SocialInv'
  <2>1. UNCHANGED <<req, vis, solved, board, home>> /\ writes' \in 0..MaxWrites
    BY <1>0, <1>1 DEF Social!Favorite, Social!Rename, Social!Follow, Social!Share, Social!Wrote
  <2>2. name' \in [Members -> Names] /\ token' \in [Members -> 0..MaxWrites]
    <3>1. ASSUME NEW n \in Names, Social!Rename(m, n)
          PROVE  name' \in [Members -> Names] /\ token' \in [Members -> 0..MaxWrites]
      BY <3>1 DEF Social!Rename, SocialInv, Social!TypeOK
    <3>2. ASSUME NEW b \in BOOLEAN, Social!Share(m, b)
          PROVE  name' \in [Members -> Names] /\ token' \in [Members -> 0..MaxWrites]
      <4>1. (IF b THEN writes + 1 ELSE 0) \in 0..MaxWrites
        BY <1>0, <3>2 DEF Social!Share, Social!Wrote
      <4> QED
        BY <3>2, <4>1 DEF Social!Share, SocialInv, Social!TypeOK
    <3> QED
      BY <1>1, <3>1, <3>2 DEF Social!Favorite, Social!Follow, SocialInv, Social!TypeOK
  <2>3. follows' \subseteq Members \X Members /\ favorites' \subseteq Members
    <3>1. CASE Social!Favorite(m)
      BY <3>1 DEF Social!Favorite, SocialInv, Social!TypeOK
    <3>2. ASSUME NEW n \in Members, Social!Follow(m, n)
          PROVE  follows' \subseteq Members \X Members /\ favorites' \subseteq Members
      BY <3>2 DEF Social!Follow, SocialInv, Social!TypeOK
    <3> QED
      BY <1>1, <3>1, <3>2 DEF Social!Rename, Social!Share, SocialInv, Social!TypeOK
  <2> QED
    BY <2>1, <2>2, <2>3, UnwatchedStep DEF SocialInv, Social!TypeOK
<1>2. ASSUME NEW i, NEW v, NEW m, NEW u,
             \/ Social!Review(i, v) \/ Social!DeleteSolution(i) \/ Social!Comment(m, i)
             \/ Social!CreateNews(v, u) \/ Social!UpdateNews(i, v, u) \/ Social!EndNews(i, v)
      PROVE  SocialInv'
  <2>1. UNCHANGED <<req, vis, solved, board, home, name, token, follows, favorites>> /\ writes' \in 0..MaxWrites
    BY <1>0, <1>2 DEF Social!Review, Social!DeleteSolution, Social!Comment, Social!CreateNews, Social!UpdateNews,
       Social!EndNews, Social!Wrote
  <2> QED
    BY <2>1, UnwatchedStep DEF SocialInv, Social!TypeOK
<1>3. ASSUME NEW keys \in HomeBodies, Social!PutHome(keys)
      PROVE  SocialInv'
  <2>1. UNCHANGED <<req, vis, solved, board, name, token, follows, favorites>> /\ writes' \in 0..MaxWrites
    BY <1>0, <1>3 DEF Social!PutHome, Social!Wrote
  <2>2. home' \in [Social!HomeModules -> BOOLEAN]
    <3>1. \A k \in Social!HomeModules :
            (IF k \in DOMAIN keys THEN keys[k] ELSE Social!HomeDefaults[k]) \in BOOLEAN
      BY HomeDefaultsType, VisitorsAssumption DEF Social!CommunityAssumption
    <3> QED
      BY <1>3, <3>1 DEF Social!PutHome
  <2> QED
    BY <2>1, <2>2, UnwatchedStep DEF SocialInv, Social!TypeOK
<1>4. CASE Social!Change
  <2>1. CASE \E m \in Members, keys \in ModuleBodies : Social!PutModules(m, keys)
    BY <2>1, WatchedStep
  <2>2. CASE \E m \in Members : Social!Judged(m) \/ Social!Favorite(m)
    BY <1>1, <2>2, WatchedStep
  <2>3. CASE \/ \E m \in Members, n \in Names : Social!Rename(m, n)
             \/ \E m, n \in Members : Social!Follow(m, n)
             \/ \E m \in Members, b \in BOOLEAN : Social!Share(m, b)
    BY <1>1, <2>3
  <2>4. CASE \E i \in DOMAIN solutions :
               \/ \E verdict \in {"approved", "rejected"} : Social!Review(i, verdict)
               \/ Social!DeleteSolution(i)
               \/ \E m \in Members : Social!Comment(m, i)
    BY <1>2, <2>4
  <2>5. CASE \/ \E b \in BOOLEAN, until \in {"never", "later"} : Social!CreateNews(b, until)
             \/ \E i \in DOMAIN news :
                   \/ \E b \in BOOLEAN, until \in {"kept", "never", "later"} : Social!UpdateNews(i, b, until)
                   \/ Social!EndNews(i, "past") \/ Social!EndNews(i, "deleted")
    BY <1>2, <2>5
  <2>6. CASE \E keys \in HomeBodies : Social!PutHome(keys)
    BY <1>3, <2>6
  <2> QED
    BY <1>4, <2>1, <2>2, <2>3, <2>4, <2>5, <2>6 DEF Social!Change
<1>5. CASE UNCHANGED Social!vars
  BY <1>0, <1>5, UnwatchedStep DEF Social!vars, Social!tables, SocialInv, Social!TypeOK
<1> QED
  BY <1>4, <1>5, ServedStep, PostedStep DEF Social!Next, Social!Serve, Routes

\* The invariant of the social functions holds in every behaviour.
LEMMA SocialAlways == PartsSpec => []SocialInv
<1> QED
  BY SocialInit, SocialStep, SocialRuns, PTL

\* An answer gives away, and a post is accepted for, only what was open to the one who asked
\* while his request was served, whatever is renamed, hidden or judged between its awaits
\* (users.ts, solutions.ts).
THEOREM ClosedStaysClosed == PartsSpec => []OnlyWhatIsOpen
<1>1. SocialInv => OnlyWhatIsOpen
  BY DEF SocialInv, OpenIsWatched, OnlyWhatIsOpen, Social!OnlyWhatIsOpen
<1> QED
  BY <1>1, SocialAlways, PTL

-----------------------------------------------------------------------------
(* Submission page (SubmitPage)                                            *)

\* The steps of PartsSpec are steps of the submission page or leave it alone.
LEMMA SubmitRuns == PartsSpec => Submit!Init /\ [][Submit!Next]_(Submit!vars)
<1>1. PartsInit => Submit!Init
  BY DEF PartsInit
<1>2. [PartsNext]_<<part, vars, communityVars, listVars, submitVars, copyVars>>
        => [Submit!Next]_(Submit!vars)
  BY DEF PartsNext, submitVars, Submit!vars, Submit!hook
<1> QED
  BY <1>1, <1>2, PTL DEF PartsSpec

Poll == [of : DOMAIN subRow, status : Submit!Statuses \cup {"none"}, void : BOOLEAN]
Answer == [of : 0..id, status : Submit!Statuses \cup {"none"}]

\* What else is known of the types: a submission that is stored has a number, and only
\* a submission is polled for.
SubmitTypes ==
    /\ Submit!TypeOK
    /\ polls \subseteq Poll /\ item \in Answer
    /\ post = "sent" => Len(subRow) < MaxSubs
    /\ post = "stored" => Len(subRow) > 0
    /\ timer => id # 0

LivePolls == {g \in polls : ~g.void}

\* The hook waits for one thing at a time: a poll, or the timer of the next.
OneThread ==
    /\ \A g, h \in LivePolls : g = h
    /\ LivePolls # {} => id # 0 /\ ~timer /\ ~over
    /\ timer => ~over
    /\ id # 0 /\ ~over => timer \/ LivePolls # {}

\* What the hook knows of the newest submission.  A verdict is final.
HookKnows ==
    /\ \A g \in LivePolls : g.of = id
    /\ \A g \in polls : g.status \notin {"none", "PENDING"} => g.status = subRow[g.of]
    /\ item.status # "none" => id # 0 /\ item.of = id
    /\ item.status \notin {"none", "PENDING"} => item.status = subRow[id]
    /\ error => over
    /\ over /\ ~error => id # 0 /\ item.status # "none"
    /\ over /\ ~error /\ item.status = "PENDING" => attempts = MaxAttempts

\* The line that the message effect writes.
Line ==
    IF error THEN Submit!Says("poll failed")
    ELSE IF ~over THEN Submit!Says("queued")
    ELSE IF item.status = "PENDING" THEN Submit!Says("still judging")
    ELSE [kind |-> "judged", of |-> item.of, status |-> item.status]

SubmitInv ==
    /\ SubmitTypes
    /\ OneThread
    /\ HookKnows
    /\ id # 0 /\ ~covered => message = Line

\* The page opens without a submission.
LEMMA SubmitInit == Submit!Init => SubmitInv
<1> SUFFICES ASSUME Submit!Init PROVE SubmitInv
  OBVIOUS
<1>1. SubmitTypes
  <2>1. /\ subRow = <<>> /\ polls = {} /\ timer = FALSE /\ id = 0 /\ attempts = 0 /\ subTrouble = 0
        /\ load = "wait" /\ post = "none" /\ over = FALSE /\ error = FALSE /\ covered = FALSE
        /\ item = [of |-> 0, status |-> "none"]
    BY DEF Submit!Init, Submit!NoItem
  <2>2. MaxSubs \in Nat /\ MaxAttempts \in Nat /\ MaxTrouble \in Nat
    BY VisitorsAssumption DEF Submit!PageAssumption
  <2>3. subRow \in Seq(Submit!Statuses) /\ Len(subRow) = 0
    BY <2>1
  <2>4. item \in Answer
    BY <2>1 DEF Answer
  <2>5. Submit!TypeOK
    <3>1. Len(subRow) <= MaxSubs /\ id \in 0..Len(subRow) /\ attempts \in 0..MaxAttempts /\ subTrouble \in 0..MaxTrouble
      BY <2>1, <2>2, <2>3
    <3>2. timer \in BOOLEAN /\ over \in BOOLEAN /\ error \in BOOLEAN /\ covered \in BOOLEAN
      BY <2>1
    <3> QED
      BY <2>1, <2>3, <3>1, <3>2 DEF Submit!TypeOK
  <2> QED
    BY <2>1, <2>4, <2>5 DEF SubmitTypes
<1>2. OneThread /\ HookKnows /\ id = 0
  BY DEF Submit!Init, OneThread, HookKnows, LivePolls, Submit!NoItem
<1> QED
  BY <1>1, <1>2 DEF SubmitInv

\* The other writers of the line leave the hook and the submissions alone.
LEMMA CoveredStep ==
    ASSUME SubmitInv,
           \/ Submit!LoadAnswered \/ Submit!FavoriteFails \/ Submit!SubmitRefused \/ Submit!Submit
           \/ Submit!SubmitFails
    PROVE  SubmitInv'
<1>1. UNCHANGED <<subRow, id, polls, timer, attempts, item, over, error>> /\ covered' = TRUE
  BY DEF Submit!LoadAnswered, Submit!FavoriteFails, Submit!SubmitRefused, Submit!Submit, Submit!SubmitFails,
     Submit!Write, Submit!hook
<1>2. OneThread' /\ HookKnows'
  BY <1>1 DEF SubmitInv, OneThread, HookKnows, LivePolls
<1>3. /\ load' \in {"wait", "over"} /\ post' \in {"none", "sent", "stored"}
      /\ post' = "sent" => Len(subRow) < MaxSubs
      /\ post' = "stored" => post = "stored"
  BY DEF Submit!LoadAnswered, Submit!FavoriteFails, Submit!SubmitRefused, Submit!Submit, Submit!SubmitFails,
      SubmitInv, SubmitTypes, Submit!TypeOK
<1>t. subTrouble' \in 0..MaxTrouble
  <2>1. subTrouble \in 0..MaxTrouble /\ MaxTrouble \in Nat
    BY VisitorsAssumption DEF SubmitInv, SubmitTypes, Submit!TypeOK, Submit!PageAssumption
  <2>2. subTrouble' = subTrouble \/ (subTrouble < MaxTrouble /\ subTrouble' = subTrouble + 1)
    BY DEF Submit!LoadAnswered, Submit!FavoriteFails, Submit!SubmitRefused, Submit!Submit, Submit!SubmitFails
  <2> QED
    BY <2>1, <2>2
<1>4. SubmitTypes'
  BY <1>1, <1>3, <1>t DEF SubmitInv, SubmitTypes, Submit!TypeOK, Poll, Answer
<1> QED
  BY <1>1, <1>2, <1>4 DEF SubmitInv

\* The gateway stores a submission: one more row.
LEMMA StoredStep ==
    ASSUME SubmitInv, Submit!Stored
    PROVE  SubmitInv'
<1>1. /\ post = "sent" /\ post' = "stored" /\ subRow' = Append(subRow, "PENDING")
      /\ UNCHANGED <<load, id, polls, timer, attempts, item, over, error, message, covered, subTrouble>>
  BY DEF Submit!Stored, Submit!hook
<1>2. /\ subRow \in Seq(Submit!Statuses) /\ Len(subRow) < MaxSubs /\ "PENDING" \in Submit!Statuses
      /\ MaxSubs \in Nat /\ id \in 0..Len(subRow)
  BY <1>1, VisitorsAssumption
  DEF SubmitInv, SubmitTypes, Submit!TypeOK, Submit!Statuses, Submit!PageAssumption
<1>3. /\ subRow' \in Seq(Submit!Statuses) /\ Len(subRow') = Len(subRow) + 1
      /\ \A i \in DOMAIN subRow : i \in DOMAIN subRow' /\ subRow'[i] = subRow[i]
  BY <1>1, <1>2
<1>4. polls \subseteq Poll
  BY DEF SubmitInv, SubmitTypes
<1>5. polls' \subseteq Poll' /\ \A g \in polls : g.of \in DOMAIN subRow
  BY <1>1, <1>3, <1>4 DEF Poll
<1>6. SubmitTypes'
  BY <1>1, <1>2, <1>3, <1>5 DEF SubmitInv, SubmitTypes, Submit!TypeOK, Answer, Poll
<1>7. OneThread'
  BY <1>1 DEF SubmitInv, OneThread, LivePolls
<1>8. HookKnows'
  <2>1. id # 0 => id \in DOMAIN subRow
    BY <1>2
  <2> QED
    BY <1>1, <1>3, <1>5, <2>1 DEF SubmitInv, HookKnows, LivePolls, SubmitTypes, Answer
<1> QED
  BY <1>1, <1>6, <1>7, <1>8 DEF SubmitInv, Line

\* A verdict: what was polled before, or is on the page, was pending.
LEMMA JudgedStep ==
    ASSUME SubmitInv, NEW i \in DOMAIN subRow, Submit!Judge(i)
    PROVE  SubmitInv'
<1>1. PICK s \in {"AC", "WA"} : subRow' = [subRow EXCEPT ![i] = s]
  BY DEF Submit!Judge
<1>2. subRow[i] = "PENDING" /\ UNCHANGED <<load, post, id, polls, timer, attempts, item, over, error, message, covered, subTrouble>>
  BY DEF Submit!Judge, Submit!hook
<1>3. subRow \in Seq(Submit!Statuses) /\ s \in Submit!Statuses
  BY DEF SubmitInv, SubmitTypes, Submit!TypeOK, Submit!Statuses
<1>4. /\ subRow' \in Seq(Submit!Statuses) /\ Len(subRow') = Len(subRow) /\ DOMAIN subRow' = DOMAIN subRow
      /\ \A j \in DOMAIN subRow : subRow[j] # "PENDING" => subRow'[j] = subRow[j]
  BY <1>1, <1>2, <1>3
<1>5. SubmitTypes'
  BY <1>2, <1>4 DEF SubmitInv, SubmitTypes, Submit!TypeOK, Answer, Poll
<1>6. OneThread'
  BY <1>2 DEF SubmitInv, OneThread, LivePolls
<1>7. HookKnows'
  <2>1. \A g \in polls : g.of \in DOMAIN subRow
    BY DEF SubmitInv, SubmitTypes, Submit!TypeOK
  <2>2. item.status # "none" => item.of \in DOMAIN subRow
    BY <1>3 DEF SubmitInv, SubmitTypes, Submit!TypeOK, HookKnows, Answer
  <2> QED
    BY <1>2, <1>4, <2>1, <2>2 DEF SubmitInv, HookKnows, LivePolls
<1> QED
  BY <1>2, <1>5, <1>6, <1>7 DEF SubmitInv, Line

\* The new submission: the polling of the one before is void, and one GET leaves.
LEMMA SubmittedStep ==
    ASSUME SubmitInv, Submit!Submitted
    PROVE  SubmitInv'
<1> DEFINE first == [of |-> Len(subRow), status |-> "none", void |-> FALSE]
           old == {[g EXCEPT !.void = TRUE] : g \in polls}
<1>1. /\ post = "stored" /\ post' = "none" /\ id' = Len(subRow) /\ polls' = old \cup {first}
      /\ timer' = FALSE /\ attempts' = 0 /\ item' = Submit!NoItem /\ over' = FALSE /\ error' = FALSE
      /\ message' = Submit!Says("queued") /\ covered' = FALSE /\ UNCHANGED <<subRow, load, subTrouble>>
  BY DEF Submit!Submitted, Submit!Effect
<1>2. Len(subRow) \in Nat \ {0} /\ subRow \in Seq(Submit!Statuses)
  BY <1>1 DEF SubmitInv, SubmitTypes, Submit!TypeOK
<1>3. polls \subseteq Poll
  BY DEF SubmitInv, SubmitTypes
<1>4. \A g \in old : g \in Poll /\ g.void /\ \E h \in polls : g.of = h.of /\ g.status = h.status
  BY <1>3 DEF Poll
<1>5. first \in Poll
  BY <1>2 DEF Poll
<1>6. LivePolls' = {first}
  BY <1>1, <1>4 DEF LivePolls
<1>7. SubmitTypes'
  <2>1. polls' \subseteq Poll' /\ item' \in Answer'
    <3>1. Poll' = Poll
      BY <1>1 DEF Poll
    <3>2. item' = [of |-> 0, status |-> "none"] /\ 0 \in 0..id'
      BY <1>1, <1>2 DEF Submit!NoItem
    <3>3. item' \in Answer'
      BY <3>2 DEF Answer
    <3>4. polls' \subseteq Poll
      BY <1>1, <1>4, <1>5
    <3> QED
      BY <3>1, <3>3, <3>4
  <2>2. \A g \in polls' : g.of \in DOMAIN subRow /\ g.status \in Submit!Statuses \cup {"none"} /\ g.void \in BOOLEAN
    BY <1>1, <1>4, <1>5 DEF Poll
  <2>3. id' \in 0..Len(subRow) /\ id' # 0 /\ attempts' \in 0..MaxAttempts
    BY <1>1, <1>2, VisitorsAssumption DEF Submit!PageAssumption
  <2> QED
    BY <1>1, <2>1, <2>2, <2>3 DEF SubmitInv, SubmitTypes, Submit!TypeOK
<1>8. OneThread'
  BY <1>1, <1>2, <1>6 DEF OneThread
<1>9. HookKnows'
  <2>1. \A g \in polls' : g.status \notin {"none", "PENDING"} => g.status = subRow[g.of]
    BY <1>1, <1>4 DEF SubmitInv, HookKnows
  <2> QED
    BY <1>1, <1>6, <2>1 DEF HookKnows, Submit!NoItem
<1> QED
  BY <1>1, <1>7, <1>8, <1>9 DEF SubmitInv, Line

\* The server answers a poll with what the row says now.
LEMMA PollReadStep ==
    ASSUME SubmitInv, NEW g \in polls, Submit!Read(g)
    PROVE  SubmitInv'
<1> DEFINE read == [g EXCEPT !.status = subRow[g.of]]
<1>1. /\ g.status = "none" /\ polls' = (polls \ {g}) \cup {read}
      /\ UNCHANGED <<subRow, load, post, id, timer, attempts, item, over, error, message, covered, subTrouble>>
  BY DEF Submit!Read
<1>2. g \in Poll /\ subRow \in Seq(Submit!Statuses) /\ polls \subseteq Poll
  BY DEF SubmitInv, SubmitTypes, Submit!TypeOK
<1>3. /\ read \in Poll /\ read.of = g.of /\ read.void = g.void /\ read.status = subRow[g.of]
  BY <1>2 DEF Poll
<1>4. SubmitTypes'
  <2>1. polls' \subseteq Poll /\ Poll' = Poll /\ Answer' = Answer
    BY <1>1, <1>2, <1>3 DEF Poll, Answer
  <2>2. \A h \in Poll : h.of \in DOMAIN subRow /\ h.status \in Submit!Statuses \cup {"none"} /\ h.void \in BOOLEAN
    BY DEF Poll
  <2> QED
    BY <1>1, <2>1, <2>2 DEF SubmitInv, SubmitTypes, Submit!TypeOK
<1>5. /\ \A h \in LivePolls' : h \in LivePolls \/ (h = read /\ g \in LivePolls)
      /\ g \in LivePolls => read \in LivePolls'
      /\ \A h \in LivePolls : h = g \/ h \in LivePolls'
  BY <1>1, <1>3 DEF LivePolls
<1>6. g \in LivePolls => g \notin LivePolls' \/ read = g
  BY <1>1 DEF LivePolls
<1>7. OneThread'
  BY <1>1, <1>5, <1>6 DEF SubmitInv, OneThread
<1>8. HookKnows'
  BY <1>1, <1>3, <1>5 DEF SubmitInv, HookKnows, LivePolls
<1> QED
  BY <1>1, <1>4, <1>7, <1>8 DEF SubmitInv, Line

\* A poll that was cancelled ends without a trace.
LEMMA IgnoredStep ==
    ASSUME SubmitInv, NEW g \in polls, Submit!Ignored(g)
    PROVE  SubmitInv'
<1>1. /\ g.void /\ polls' = polls \ {g}
      /\ UNCHANGED <<subRow, load, post, id, timer, attempts, item, over, error, message, covered, subTrouble>>
  BY DEF Submit!Ignored
<1>2. LivePolls' = LivePolls
  BY <1>1 DEF LivePolls
<1>3. SubmitTypes' /\ OneThread'
  BY <1>1, <1>2 DEF SubmitInv, SubmitTypes, Submit!TypeOK, OneThread, Poll, Answer
<1>4. HookKnows'
  BY <1>1, <1>2 DEF SubmitInv, HookKnows
<1> QED
  BY <1>1, <1>3, <1>4 DEF SubmitInv, Line

\* The next poll leaves.
LEMMA NextPollStep ==
    ASSUME SubmitInv, Submit!TimerFires
    PROVE  SubmitInv'
<1> DEFINE next == [of |-> id, status |-> "none", void |-> FALSE]
<1>1. /\ timer /\ timer' = FALSE /\ polls' = polls \cup {next}
      /\ UNCHANGED <<subRow, load, post, id, attempts, item, over, error, message, covered, subTrouble>>
  BY DEF Submit!TimerFires
<1>2. id # 0 /\ ~over /\ LivePolls = {} /\ id \in DOMAIN subRow
  BY <1>1 DEF SubmitInv, OneThread, SubmitTypes, Submit!TypeOK
<1>3. LivePolls' = {next}
  BY <1>1, <1>2 DEF LivePolls
<1>4. SubmitTypes'
  <2>1. next \in Poll /\ Poll' = Poll /\ Answer' = Answer
    BY <1>1, <1>2 DEF Poll, Answer
  <2> QED
    BY <1>1, <2>1 DEF SubmitInv, SubmitTypes, Submit!TypeOK, Poll
<1>5. OneThread'
  BY <1>1, <1>2, <1>3 DEF OneThread
<1>6. HookKnows'
  BY <1>1, <1>3 DEF SubmitInv, HookKnows
<1> QED
  BY <1>1, <1>4, <1>5, <1>6 DEF SubmitInv, Line

\* An answer to the one poll that is live, or its failure: the line says what it brings.
LEMMA PolledStep ==
    ASSUME SubmitInv, NEW g \in polls, Submit!Polled(g) \/ Submit!PollFails(g)
    PROVE  SubmitInv'
<1>1. /\ g \in LivePolls /\ polls' = polls \ {g}
      /\ covered' = FALSE /\ UNCHANGED <<subRow, load, post, id>>
  BY DEF Submit!Polled, Submit!PollFails, Submit!Effect, LivePolls
<1>2. g.of = id /\ id # 0 /\ ~timer /\ ~over /\ ~error /\ LivePolls' = {}
  BY <1>1 DEF SubmitInv, OneThread, HookKnows, LivePolls
<1>3. g \in Poll /\ polls \subseteq Poll /\ id \in 0..Len(subRow) /\ attempts \in 0..MaxAttempts /\ MaxAttempts \in Nat
      /\ timer \in BOOLEAN /\ over \in BOOLEAN /\ subTrouble \in 0..MaxTrouble /\ MaxTrouble \in Nat
      /\ subRow \in Seq(Submit!Statuses)
  BY VisitorsAssumption DEF SubmitInv, SubmitTypes, Submit!TypeOK, Submit!PageAssumption
<1>4. \A h \in polls' : h.status \notin {"none", "PENDING"} => h.status = subRow'[h.of]
  BY <1>1 DEF SubmitInv, HookKnows
<1>t. ASSUME item' \in Answer, attempts' \in 0..MaxAttempts, timer' \in BOOLEAN, over' \in BOOLEAN,
             error' \in BOOLEAN, subTrouble' \in 0..MaxTrouble
      PROVE  SubmitTypes'
  <2>1. polls' \subseteq polls /\ Poll' = Poll /\ Answer' = Answer
    BY <1>1 DEF Poll, Answer
  <2> QED
    BY <1>1, <1>2, <1>t, <2>1 DEF SubmitInv, SubmitTypes, Submit!TypeOK
<1>5. CASE Submit!Polled(g)
  <2> DEFINE last == g.status # "PENDING" \/ attempts >= MaxAttempts
  <2>1. /\ g.status # "none" /\ item' = [of |-> g.of, status |-> g.status]
        /\ over' = (over \/ last) /\ timer' = (timer \/ ~last)
        /\ attempts' = IF last THEN attempts ELSE attempts + 1
        /\ UNCHANGED <<error, subTrouble>>
    BY <1>5 DEF Submit!Polled
  <2>2. item' \in Answer /\ item'.of = id /\ item'.status = g.status
    BY <1>2, <1>3, <2>1 DEF Poll, Answer
  <2>3. over' = last /\ timer' = ~last /\ last \in BOOLEAN /\ ~error'
    BY <1>2, <1>3, <2>1
  <2>4. attempts' \in 0..MaxAttempts /\ (last /\ g.status = "PENDING" => attempts' = MaxAttempts)
    BY <1>3, <2>1
  <2>5. SubmitTypes'
    <3>1. subTrouble' \in 0..MaxTrouble
      BY <1>3, <2>1
    <3>2. error' \in BOOLEAN
      BY <2>1 DEF SubmitInv, SubmitTypes, Submit!TypeOK
    <3>3. timer' \in BOOLEAN /\ over' \in BOOLEAN
      BY <2>3
    <3> QED
      BY <1>t, <2>2, <2>4, <3>1, <3>2, <3>3
  <2>6. OneThread'
    BY <1>1, <1>2, <2>3 DEF OneThread
  <2>7. g.status \notin {"none", "PENDING"} => g.status = subRow[id]
    BY <1>2 DEF SubmitInv, HookKnows
  <2>8. HookKnows'
    BY <1>1, <1>2, <1>4, <2>1, <2>2, <2>3, <2>4, <2>7 DEF HookKnows
  <2>9. message' = Line'
    BY <1>5 DEF Submit!Polled, Submit!Effect, Line
  <2> QED
    BY <2>5, <2>6, <2>8, <2>9 DEF SubmitInv
<1>6. CASE Submit!PollFails(g)
  <2>1. /\ error' = TRUE /\ over' = TRUE /\ UNCHANGED <<timer, attempts, item>>
        /\ subTrouble < MaxTrouble /\ subTrouble' = subTrouble + 1
    BY <1>6 DEF Submit!PollFails
  <2>2. SubmitTypes'
    <3>1. item \in Answer
      BY DEF SubmitInv, SubmitTypes
    <3> QED
      BY <1>3, <1>t, <2>1, <3>1
  <2>3. OneThread'
    BY <1>1, <1>2, <2>1 DEF OneThread
  <2>4. HookKnows'
    BY <1>1, <1>2, <1>4, <2>1 DEF SubmitInv, HookKnows
  <2>5. message' = Line'
    BY <1>6 DEF Submit!PollFails, Submit!Effect, Line
  <2> QED
    BY <2>2, <2>3, <2>4, <2>5 DEF SubmitInv
<1> QED
  BY <1>5, <1>6

\* Every step keeps the invariant of the submission page.
LEMMA SubmitStep ==
    ASSUME SubmitInv, [Submit!Next]_(Submit!vars)
    PROVE  SubmitInv'
<1>1. CASE UNCHANGED Submit!vars
  <2>1. SubmitTypes'
    BY <1>1 DEF SubmitInv, SubmitTypes, Submit!TypeOK, Poll, Answer, Submit!vars, Submit!hook
  <2>2. OneThread' /\ HookKnows' /\ Line' = Line
    BY <1>1 DEF SubmitInv, OneThread, HookKnows, LivePolls, Line, Submit!vars, Submit!hook
  <2> QED
    BY <1>1, <2>1, <2>2 DEF SubmitInv, Submit!vars
<1> QED
  BY <1>1, CoveredStep, StoredStep, JudgedStep, SubmittedStep, PollReadStep, IgnoredStep, NextPollStep, PolledStep
  DEF Submit!Next

\* The invariant of the submission page holds in every behaviour.
LEMMA SubmitAlways == PartsSpec => []SubmitInv
<1> QED
  BY SubmitInit, SubmitStep, SubmitRuns, PTL

\* When the polling of the newest submission is over, the line says its verdict, or that a
\* poll failed, or after maxAttempts further polls that it is still judged; never what a
\* poll for an older submission brings late (usePollSubmission, problems/[id]/page.tsx).
THEOREM TheVerdictIsShown == PartsSpec => []VerdictIsShown
<1>1. ASSUME SubmitInv PROVE Submit!VerdictIsShown
  <2> SUFFICES ASSUME Submit!PollingOver, id # 0, ~covered
               PROVE  \/ message = [kind |-> "judged", of |-> id, status |-> subRow[id]]
                      \/ message = Submit!Says("still judging") /\ item.of = id /\ attempts = MaxAttempts
                      \/ message = Submit!Says("poll failed") /\ error
    BY DEF Submit!VerdictIsShown
  <2>1. over /\ message = Line
    BY <1>1 DEF SubmitInv, OneThread, LivePolls, Submit!PollingOver
  <2> QED
    BY <1>1, <2>1 DEF SubmitInv, HookKnows, Line
<1> QED
  BY <1>1, SubmitAlways, PTL DEF VerdictIsShown


-----------------------------------------------------------------------------
(* Pages of the web client (ListPages)                                     *)

\* The steps of PartsSpec are steps of the page that is open or leave it alone.
LEMMA ListsRuns == PartsSpec => Lists!Init /\ [][Lists!Next]_(Lists!vars)
<1>1. PartsInit => Lists!Init
  BY DEF PartsInit
<1>2. [PartsNext]_<<part, vars, communityVars, listVars, submitVars, copyVars>>
        => [Lists!Next]_(Lists!vars)
  BY DEF PartsNext, listVars, Lists!vars
<1> QED
  BY <1>1, <1>2, PTL DEF PartsSpec

\* RemoveAt takes one element out and keeps the others in order.
LEMMA Removed ==
    ASSUME NEW S, NEW s \in Seq(S), NEW i \in DOMAIN s
    PROVE  /\ Lists!RemoveAt(s, i) \in Seq(S)
           /\ Len(Lists!RemoveAt(s, i)) = Len(s) - 1
           /\ \A k \in 1..(Len(s) - 1) : Lists!RemoveAt(s, i)[k] = s[IF k < i THEN k ELSE k + 1]
<1> DEFINE a == SubSeq(s, 1, i - 1)
           b == SubSeq(s, i + 1, Len(s))
<1>1. i \in 1..Len(s) /\ Len(s) \in Nat
  OBVIOUS
<1>2. a \in Seq(S) /\ Len(a) = i - 1 /\ \A k \in 1..(i - 1) : a[k] = s[k]
  BY <1>1, SubSeqProperties
<1>3. b \in Seq(S) /\ Len(b) = Len(s) - i /\ \A k \in 1..(Len(s) - i) : b[k] = s[i + k]
  BY <1>1, SubSeqProperties
<1>4. /\ a \o b \in Seq(S) /\ Len(a \o b) = Len(a) + Len(b)
      /\ \A k \in 1..(Len(a) + Len(b)) : (a \o b)[k] = IF k <= Len(a) THEN a[k] ELSE b[k - Len(a)]
  BY <1>2, <1>3, ConcatProperties
<1> HIDE DEF a, b
<1>5. ASSUME NEW k \in 1..(Len(s) - 1)
      PROVE  (a \o b)[k] = s[IF k < i THEN k ELSE k + 1]
  <2>1. CASE k < i
    <3>1. k \in 1..(i - 1) /\ k <= Len(a)
      BY <1>1, <1>2, <2>1
    <3>2. a[k] = s[k]
      BY <1>2, <3>1
    <3>3. k \in 1..(Len(a) + Len(b))
      BY <1>1, <1>2, <1>3
    <3>4. (a \o b)[k] = a[k]
      BY <1>4, <3>1, <3>3
    <3> QED
      BY <2>1, <3>2, <3>4
  <2>2. CASE ~(k < i)
    <3>1. k - Len(a) \in 1..(Len(s) - i) /\ i + (k - Len(a)) = k + 1 /\ ~(k <= Len(a))
      BY <1>1, <1>2, <2>2
    <3>2. b[k - Len(a)] = s[k + 1]
      BY <1>3, <3>1
    <3>3. k \in 1..(Len(a) + Len(b))
      BY <1>1, <1>2, <1>3
    <3> QED
      BY <1>4, <2>2, <3>1, <3>2, <3>3
  <2> QED
    BY <2>1, <2>2
<1>6. a \o b \in Seq(S) /\ Len(a \o b) = Len(s) - 1
  BY <1>1, <1>2, <1>3, <1>4
<1> QED
  BY <1>5, <1>6 DEF Lists!RemoveAt, a, b

Thens == {"reload", "patch", "nothing", "timer", "late"}

\* What the pages have in common, beyond the pattern: a change that is not followed by a
\* load is made only where no load can be missing.
Sound(p) ==
    /\ \A h \in DOMAIN p.handlers :
          /\ p.handlers[h].from \in {"row", "form"}
          /\ p.handlers[h].then \in Thens
          /\ p.handlers[h].then = "nothing" => "silent" \in p.has
          /\ "query" \in p.has /\ "cancels" \in p.has => p.handlers[h].then \in {"patch", "nothing"}
          /\ p.handlers[h].then = "patch" /\ "silent" \notin p.has =>
                /\ "query" \notin p.has /\ "ticks" \notin p.has
                /\ \A g \in DOMAIN p.handlers : p.handlers[g].from = "row" /\ p.handlers[g].then = "patch"
    /\ ~{"query", "cancels", "ticks"} \subseteq p.has

\* Each of the 28 pages is sound in this sense.
LEMMA PagesAreSound == ASSUME NEW s \in DOMAIN Lists!Screens PROVE Sound(Lists!Screens[s])
<1> USE DEF Thens
<1>1. Sound(Lists!AdminUsers) /\ Sound(Lists!AdminProblems) /\ Sound(Lists!AdminContests) /\ Sound(Lists!AdminAnnouncements)
  BY DEF Sound, Lists!Page, Lists!RowReload, Lists!FormReload, Lists!RowPatch,
     Lists!AdminUsers, Lists!AdminProblems, Lists!AdminContests, Lists!AdminAnnouncements
<1>2. Sound(Lists!AdminTestCases) /\ Sound(Lists!AdminSolutions) /\ Sound(Lists!AdminDaily) /\ Sound(Lists!AdminSubmissions)
  BY DEF Sound, Lists!Page, Lists!RowReload, Lists!FormReload, Lists!RowPatch,
     Lists!AdminTestCases, Lists!AdminSolutions, Lists!AdminDaily, Lists!AdminSubmissions
<1>3. Sound(Lists!AdminAudit) /\ Sound(Lists!AdminStats) /\ Sound(Lists!AdminHome) /\ Sound(Lists!ProblemList)
  BY DEF Sound, Lists!Page, Lists!RowReload, Lists!FormReload, Lists!RowPatch,
     Lists!AdminAudit, Lists!AdminStats, Lists!AdminHome, Lists!ProblemList
<1>4. Sound(Lists!SubmissionList) /\ Sound(Lists!Leaderboard) /\ Sound(Lists!AnnouncementList) /\ Sound(Lists!SubmissionDetail)
  BY DEF Sound, Lists!Page, Lists!RowReload, Lists!FormReload, Lists!RowPatch,
     Lists!SubmissionList, Lists!Leaderboard, Lists!AnnouncementList, Lists!SubmissionDetail
<1>5. Sound(Lists!SharedSubmission) /\ Sound(Lists!DailyHistory) /\ Sound(Lists!ContestList) /\ Sound(Lists!ContestDetail)
  BY DEF Sound, Lists!Page, Lists!RowReload, Lists!FormReload, Lists!RowPatch,
     Lists!SharedSubmission, Lists!DailyHistory, Lists!ContestList, Lists!ContestDetail
<1>6. Sound(Lists!ContestBoard) /\ Sound(Lists!SolutionsPanel) /\ Sound(Lists!SolutionComments) /\ Sound(Lists!ProfileSubmissions)
  BY DEF Sound, Lists!Page, Lists!RowReload, Lists!FormReload, Lists!RowPatch,
     Lists!ContestBoard, Lists!SolutionsPanel, Lists!SolutionComments, Lists!ProfileSubmissions
<1>7. Sound(Lists!Favorites) /\ Sound(Lists!PublicProfile) /\ Sound(Lists!ProfileMessages) /\ Sound(Lists!Settings)
  BY DEF Sound, Lists!Page, Lists!RowReload, Lists!FormReload, Lists!RowPatch,
     Lists!Favorites, Lists!PublicProfile, Lists!ProfileMessages, Lists!Settings
<1> QED
  BY <1>1, <1>2, <1>3, <1>4, <1>5, <1>6, <1>7 DEF Lists!Screens
Wire == [q : PageQueries, by : {"effect", "handler", "late", "tick"}, read : BOOLEAN, saw : SUBSET Nat, void : BOOLEAN]
Op == [id : Nat \ {0}, then : Thens, q : PageQueries, at : {"sent", "made", "timer"}]

\* What the page knows of: GETs and changes under way, and the list it shows.
ListTypes ==
    /\ Lists!TypeOK
    /\ wire \in Seq(Wire) /\ ops \subseteq Op
    /\ shown \in [q : PageQueries, saw : SUBSET Nat, any : BOOLEAN]
    /\ \A i \in DOMAIN wire : wire[i].saw \subseteq done

\* A change has a number of its own, and a handler of the page it was sent from.  One
\* that was made is among those the server has made.
OpsBound ==
    /\ \A o \in ops : o.id <= pressed /\ \E h \in DOMAIN Lists!Screens[screen].handlers :
                                         o.then = Lists!Screens[screen].handlers[h].then
    /\ \A o, p \in ops : o.id = p.id => o = p
    /\ \A o \in ops : o.at = "timer" => o.then = "timer"
    /\ \A o \in ops : IF o.then = "nothing" THEN o.id \notin done ELSE o.at # "sent" => o.id \in done

\* Where an effect cancels, and the query can change, only effects load.
EffectsOnly ==
    Lists!Has("query") /\ Lists!Has("cancels") => \A i \in DOMAIN wire : wire[i].by = "effect"

NoTimer == \A o \in ops : o.at # "timer"
UpToDate == shown.any /\ shown.q = query /\ own \subseteq shown.saw

\* As long as nothing has overtaken anything, one GET at most is live, and it will show
\* the query that is selected with the page's own changes; and when none is live, and
\* no timer is going to start one, the page shows that already, or its last GET failed.
InOrder ==
    ~overtook =>
        /\ \A i, j \in DOMAIN wire : ~wire[i].void /\ ~wire[j].void => i = j
        /\ \A i \in DOMAIN wire : ~wire[i].void =>
              /\ wire[i].q = query
              /\ wire[i].read /\ NoTimer => own \subseteq wire[i].saw
        /\ \A o \in ops : o.q = query
        /\ ~Lists!Live(wire) /\ NoTimer /\ ~unsaid /\ (note # "error" \/ Lists!Has("silent")) => UpToDate

\* A page that says that a GET has failed, and patches its list: it loads once.
PatchesAloud ==
    /\ ~Lists!Has("silent")
    /\ \E h \in DOMAIN Lists!Screens[screen].handlers : Lists!Screens[screen].handlers[h].then = "patch"

LoadsOnce ==
    PatchesAloud =>
        /\ Len(wire) <= 1
        /\ wire # <<>> => ~shown.any
        /\ ~shown.any => ops = {} /\ own = {}
        /\ query = FirstQuery /\ shown.q = FirstQuery /\ own \subseteq shown.saw
        /\ \A i \in DOMAIN wire : wire[i].q = FirstQuery
        /\ \A o \in ops : o.q = FirstQuery

ListsInv == ListTypes /\ OpsBound /\ EffectsOnly /\ InOrder /\ LoadsOnce

\* What a handler of the page that is open, or of a change under way, does after it.
LEMMA OpenPage ==
    ASSUME ListsInv
    PROVE  /\ screen \in DOMAIN Lists!Screens /\ Sound(Lists!Screens[screen])
           /\ Lists!Has("ticks") => ~PatchesAloud /\ ~(Lists!Has("query") /\ Lists!Has("cancels"))
           /\ Lists!Has("query") => ~PatchesAloud
           /\ \A o \in ops : o.then \notin {"patch", "nothing"} =>
                 ~PatchesAloud /\ ~(Lists!Has("query") /\ Lists!Has("cancels"))
           /\ \A o \in ops : o.then = "nothing" => Lists!Has("silent")
           /\ \A o \in ops : o.then = "patch" => Lists!Has("silent") \/ PatchesAloud
<1>1. screen \in DOMAIN Lists!Screens
  BY DEF ListsInv, ListTypes, Lists!TypeOK
<1>2. Sound(Lists!Screens[screen])
  BY <1>1, PagesAreSound
<1>3. \A o \in ops : \E h \in DOMAIN Lists!Screens[screen].handlers : o.then = Lists!Screens[screen].handlers[h].then
  BY DEF ListsInv, OpsBound
<1> HIDE DEF ListsInv
<1> QED
  BY <1>1, <1>2, <1>3 DEF Sound, PatchesAloud, Lists!Has

\* The page opens with its first GET under way.
LEMMA ListsInit == Lists!Init => ListsInv
<1> SUFFICES ASSUME Lists!Init PROVE ListsInv
  OBVIOUS
<1> DEFINE first == [q |-> FirstQuery, by |-> "effect", read |-> FALSE, saw |-> {}, void |-> FALSE]
<1>1. /\ screen \in DOMAIN Lists!Screens /\ query = FirstQuery /\ wire = <<first>>
      /\ shown = [q |-> FirstQuery, saw |-> {}, any |-> FALSE] /\ loading = TRUE /\ note = "none" /\ unsaid = FALSE
      /\ ops = {} /\ pressed = 0 /\ done = {} /\ own = {} /\ overtook = FALSE /\ moves = 0 /\ pageTrouble = 0
  BY DEF Lists!Init, Lists!Get, Lists!Nothing
<1>2. FirstQuery \in PageQueries /\ MaxOps \in Nat /\ MaxMoves \in Nat /\ MaxTrouble \in Nat
  BY VisitorsAssumption DEF Lists!PagesAssumption
<1>3. first \in Wire
  BY <1>2 DEF Wire
<1>4. wire \in Seq(Wire) /\ Len(wire) = 1 /\ DOMAIN wire = {1} /\ wire[1] = first
  BY <1>1, <1>3
<1>5. Lists!TypeOK
  <2>1. 0 \in 0..MaxOps /\ 0 \in 0..MaxMoves /\ 0 \in 0..MaxTrouble
    BY <1>2
  <2> QED
    BY <1>1, <1>2, <2>1 DEF Lists!TypeOK
<1>6. ListTypes
  BY <1>1, <1>2, <1>4, <1>5 DEF ListTypes
<1>7. OpsBound /\ EffectsOnly
  BY <1>1, <1>4 DEF OpsBound, EffectsOnly
<1>8. InOrder
  BY <1>1, <1>4 DEF InOrder, Lists!Live
<1>9. LoadsOnce
  BY <1>1, <1>4 DEF LoadsOnce
<1> QED
  BY <1>6, <1>7, <1>8, <1>9 DEF ListsInv

\* One more GET that nobody cancels: where it overtakes nothing it is the only one.
LEMMA SendStep ==
    ASSUME ListsInv, NEW q \in PageQueries, NEW by \in {"handler", "late", "tick"}, Lists!Send(q, by),
           ~PatchesAloud, ~(Lists!Has("query") /\ Lists!Has("cancels")),
           ~overtook => q = query,
           UNCHANGED <<screen, query, shown, unsaid, pressed, done>>,
           note' \in {"none", "ok", "error"}, own' \subseteq done, ops' \subseteq ops,
           moves' \in 0..MaxMoves, pageTrouble' \in 0..MaxTrouble
    PROVE  ListsInv'
<1> DEFINE next == [q |-> q, by |-> by, read |-> FALSE, saw |-> {}, void |-> FALSE]
<1>1. wire' = Append(wire, next) /\ overtook' = (overtook \/ Lists!Live(wire)) /\ loading' = (loading \/ by # "tick")
  BY DEF Lists!Send, Lists!Get
<1>2. wire \in Seq(Wire) /\ next \in Wire
  BY DEF ListsInv, ListTypes, Wire
<1>3. /\ wire' \in Seq(Wire) /\ DOMAIN wire' = 1..(Len(wire) + 1) /\ Len(wire) \in Nat /\ DOMAIN wire = 1..Len(wire)
      /\ wire'[Len(wire) + 1] = next /\ \A i \in DOMAIN wire : wire'[i] = wire[i]
  BY <1>1, <1>2
<1>4. loading' \in BOOLEAN /\ overtook' \in BOOLEAN
  BY <1>1
<1>5. ListTypes'
  <2>1. \A i \in DOMAIN wire' : wire'[i].saw \subseteq done
    BY <1>3 DEF ListsInv, ListTypes
  <2> QED
    BY <1>3, <1>4, <2>1 DEF ListsInv, ListTypes, Lists!TypeOK
<1>6. OpsBound'
  BY DEF ListsInv, OpsBound
<1>7. EffectsOnly' /\ LoadsOnce'
  BY DEF EffectsOnly, LoadsOnce, PatchesAloud, Lists!Has
<1>8. InOrder'
  <2> SUFFICES ASSUME ~overtook' PROVE InOrder'
    BY DEF InOrder
  <2>1. ~overtook /\ ~Lists!Live(wire) /\ q = query
    BY <1>1
  <2>2. \A i \in DOMAIN wire' : ~wire'[i].void => i = Len(wire) + 1
    BY <1>3, <2>1 DEF Lists!Live
  <2>3. Lists!Live(wire)'
    <3>1. Len(wire) + 1 \in DOMAIN wire' /\ ~wire'[Len(wire) + 1].void
      BY <1>3
    <3> QED
      BY <3>1 DEF Lists!Live
  <2>4. \A o \in ops' : o.q = query'
    BY <2>1 DEF ListsInv, InOrder
  <2> QED
    BY <1>3, <2>1, <2>2, <2>3, <2>4 DEF InOrder
<1> QED
  BY <1>5, <1>6, <1>7, <1>8 DEF ListsInv

\* An interval loads again.
LEMMA TickStep == ASSUME ListsInv, Lists!Tick PROVE ListsInv'
<1>1. moves' \in 0..MaxMoves
  BY VisitorsAssumption DEF ListsInv, ListTypes, Lists!TypeOK, Lists!Tick, Lists!PagesAssumption
<1>2. /\ query \in PageQueries /\ note \in {"none", "ok", "error"} /\ own \subseteq done /\ pageTrouble \in 0..MaxTrouble
  BY DEF ListsInv, ListTypes, Lists!TypeOK
<1>3. /\ Lists!Send(query, "tick")
      /\ UNCHANGED <<screen, query, shown, note, unsaid, ops, pressed, done, own, pageTrouble>>
  BY DEF Lists!Tick
<1>4. PICK q : q = query
  OBVIOUS
<1>5. ~PatchesAloud /\ ~(Lists!Has("query") /\ Lists!Has("cancels"))
  BY OpenPage DEF Lists!Tick
<1> QED
  BY <1>1, <1>2, <1>3, <1>4, <1>5, SendStep

\* The timer of a change that was made loads again.
LEMMA TimerStep == ASSUME ListsInv, NEW o \in ops, Lists!TimerFires(o) PROVE ListsInv'
<1>1. /\ o.at = "timer" /\ ops' = ops \ {o} /\ Lists!Send(o.q, "late")
      /\ UNCHANGED <<screen, query, shown, note, unsaid, pressed, done, own, moves, pageTrouble>>
  BY DEF Lists!TimerFires
<1>2. /\ o.q \in PageQueries /\ note \in {"none", "ok", "error"} /\ own \subseteq done
      /\ pageTrouble \in 0..MaxTrouble /\ moves \in 0..MaxMoves
  BY DEF ListsInv, ListTypes, Lists!TypeOK, Op
<1>3. ~PatchesAloud /\ ~(Lists!Has("query") /\ Lists!Has("cancels"))
  BY <1>1, OpenPage DEF ListsInv, OpsBound
<1>4. ~overtook => o.q = query
  BY DEF ListsInv, InOrder
<1> QED
  BY <1>1, <1>2, <1>3, <1>4, SendStep

\* Another query: the effect's own GETs are void, or the new one overtakes them.
LEMMA ChooseStep == ASSUME ListsInv, NEW q \in PageQueries, Lists!Choose(q) PROVE ListsInv'
<1> DEFINE next == [q |-> q, by |-> "effect", read |-> FALSE, saw |-> {}, void |-> FALSE]
           rest == IF Lists!Has("cancels")
                   THEN [i \in DOMAIN wire |-> [wire[i] EXCEPT !.void = @ \/ wire[i].by = "effect"]]
                   ELSE wire
<1>1. /\ Lists!Has("query") /\ moves < MaxMoves /\ query' = q /\ moves' = moves + 1
      /\ wire' = Append(rest, next) /\ loading' = TRUE
      /\ overtook' = (overtook \/ ops # {} \/ (Lists!Live(wire) /\ ~Lists!Has("cancels")))
      /\ note' = (IF Lists!Has("clears") THEN "none" ELSE note)
      /\ UNCHANGED <<screen, shown, unsaid, ops, pressed, done, own, pageTrouble>>
  BY DEF Lists!Choose, Lists!Effect, Lists!Get
<1>2. wire \in Seq(Wire) /\ next \in Wire /\ Len(wire) \in Nat /\ DOMAIN wire = 1..Len(wire)
  BY DEF ListsInv, ListTypes, Wire
<1>3. ASSUME NEW i \in DOMAIN wire
      PROVE  /\ rest[i] \in Wire /\ rest[i].by = wire[i].by /\ rest[i].saw = wire[i].saw
             /\ ~rest[i].void => ~wire[i].void /\ (Lists!Has("cancels") => wire[i].by # "effect")
  <2>1. wire[i] \in Wire
    BY <1>2
  <2> QED
    BY <2>1 DEF Wire
<1>4. rest \in Seq(Wire) /\ Len(rest) = Len(wire) /\ DOMAIN rest = DOMAIN wire
  <2>1. rest \in [1..Len(wire) -> Wire]
    BY <1>2, <1>3
  <2> QED
    BY <1>2, <2>1, SeqDef, LenProperties
<1> HIDE DEF rest
<1>5. /\ wire' \in Seq(Wire) /\ DOMAIN wire' = 1..(Len(wire) + 1)
      /\ wire'[Len(wire) + 1] = next /\ \A i \in DOMAIN wire : wire'[i] = rest[i]
  BY <1>1, <1>2, <1>4
<1>6. ListTypes'
  <2>1. \A i \in DOMAIN wire' : wire'[i].saw \subseteq done
    BY <1>2, <1>3, <1>5 DEF ListsInv, ListTypes
  <2>2. moves' \in 0..MaxMoves
    BY <1>1, VisitorsAssumption DEF ListsInv, ListTypes, Lists!TypeOK, Lists!PagesAssumption
  <2>3. overtook' \in BOOLEAN /\ loading' \in BOOLEAN /\ note' \in {"none", "ok", "error"}
    BY <1>1 DEF ListsInv, ListTypes, Lists!TypeOK
  <2> QED
    BY <1>1, <1>5, <2>1, <2>2, <2>3 DEF ListsInv, ListTypes, Lists!TypeOK
<1>7. OpsBound'
  BY <1>1 DEF ListsInv, OpsBound
<1>8. EffectsOnly'
  <2> SUFFICES ASSUME Lists!Has("cancels")', NEW i \in DOMAIN wire' PROVE wire'[i].by = "effect"
    BY DEF EffectsOnly
  <2>1. Lists!Has("cancels")
    BY <1>1 DEF Lists!Has
  <2> QED
    BY <1>1, <1>2, <1>3, <1>5, <2>1 DEF ListsInv, EffectsOnly
<1>9. LoadsOnce'
  BY <1>1, OpenPage DEF LoadsOnce, PatchesAloud, Lists!Has
<1>10. InOrder'
  <2> SUFFICES ASSUME ~overtook' PROVE InOrder'
    BY DEF InOrder
  <2>1. ~overtook /\ ops = {} /\ (Lists!Has("cancels") \/ ~Lists!Live(wire))
    BY <1>1
  <2>2. ASSUME NEW i \in DOMAIN wire' PROVE ~wire'[i].void => i = Len(wire) + 1
    <3>1. ASSUME i \in DOMAIN wire PROVE wire'[i].void
      BY <1>1, <1>3, <1>5, <2>1, <3>1 DEF Lists!Live, ListsInv, EffectsOnly
    <3> QED
      BY <1>2, <1>5, <3>1
  <2>3. Lists!Live(wire)'
    <3>1. Len(wire) + 1 \in DOMAIN wire' /\ ~wire'[Len(wire) + 1].void
      BY <1>2, <1>5
    <3> QED
      BY <3>1 DEF Lists!Live
  <2> QED
    BY <1>1, <1>5, <2>1, <2>2, <2>3 DEF InOrder
<1> QED
  BY <1>6, <1>7, <1>8, <1>9, <1>10 DEF ListsInv
\* The server reads for a GET: all changes it has made, the page's own among them.
LEMMA GetReadStep == ASSUME ListsInv, NEW i \in DOMAIN wire, Lists!Read(i) PROVE ListsInv'
<1>1. /\ wire' = [wire EXCEPT ![i].read = TRUE, ![i].saw = done]
      /\ UNCHANGED <<screen, query, shown, loading, note, unsaid, ops, pressed, done, own, overtook, moves, pageTrouble>>
  BY DEF Lists!Read
<1>2. wire \in Seq(Wire) /\ wire[i] \in Wire /\ done \subseteq Nat /\ own \subseteq done
  BY DEF ListsInv, ListTypes, Lists!TypeOK
<1>3. [wire[i] EXCEPT !.read = TRUE, !.saw = done] \in Wire
  BY <1>2 DEF Wire
<1>4. /\ wire' \in Seq(Wire) /\ DOMAIN wire' = DOMAIN wire /\ Len(wire') = Len(wire)
      /\ \A j \in DOMAIN wire : /\ wire'[j].q = wire[j].q /\ wire'[j].by = wire[j].by /\ wire'[j].void = wire[j].void
                               /\ IF j = i THEN wire'[j].saw = done ELSE wire'[j] = wire[j]
  <2>1. wire' = [wire EXCEPT ![i] = [wire[i] EXCEPT !.read = TRUE, !.saw = done]]
    BY <1>1
  <2>2. wire' \in Seq(Wire) /\ DOMAIN wire' = DOMAIN wire /\ Len(wire') = Len(wire)
    BY <1>2, <1>3, <2>1
  <2>3. \A j \in DOMAIN wire : wire'[j] = IF j = i THEN [wire[i] EXCEPT !.read = TRUE, !.saw = done] ELSE wire[j]
    BY <1>2, <2>1
  <2>4. /\ [wire[i] EXCEPT !.read = TRUE, !.saw = done].q = wire[i].q
        /\ [wire[i] EXCEPT !.read = TRUE, !.saw = done].by = wire[i].by
        /\ [wire[i] EXCEPT !.read = TRUE, !.saw = done].void = wire[i].void
        /\ [wire[i] EXCEPT !.read = TRUE, !.saw = done].saw = done
    BY <1>2 DEF Wire
  <2> QED
    BY <2>2, <2>3, <2>4
<1>5. ListTypes'
  BY <1>1, <1>4 DEF ListsInv, ListTypes, Lists!TypeOK
<1>6. OpsBound' /\ EffectsOnly'
  BY <1>1, <1>4 DEF ListsInv, OpsBound, EffectsOnly, Lists!Has
<1>7. Lists!Live(wire)' = Lists!Live(wire)
  BY <1>4 DEF Lists!Live
<1>8. InOrder'
  BY <1>1, <1>2, <1>4, <1>7 DEF ListsInv, InOrder, NoTimer, UpToDate, Lists!Has
<1>9. LoadsOnce'
  BY <1>1, <1>4 DEF ListsInv, LoadsOnce, PatchesAloud, Lists!Has
<1> QED
  BY <1>5, <1>6, <1>8, <1>9 DEF ListsInv

\* A GET ends, with a list or without: the others stay in order.
LEMMA GetEnds ==
    ASSUME ListsInv, NEW i \in DOMAIN wire, wire' = Lists!RemoveAt(wire, i)
    PROVE  /\ wire' \in Seq(Wire) /\ Len(wire') = Len(wire) - 1 /\ Len(wire) \in Nat \ {0}
           /\ \A k \in DOMAIN wire' : \E j \in DOMAIN wire \ {i} : wire'[k] = wire[j]
           /\ \A j \in DOMAIN wire \ {i} : \E k \in DOMAIN wire' : wire'[k] = wire[j]
           /\ (\A j, l \in DOMAIN wire : ~wire[j].void /\ ~wire[l].void => j = l) =>
              (\A k, l \in DOMAIN wire' : ~wire'[k].void /\ ~wire'[l].void => k = l)
<1>1. wire \in Seq(Wire) /\ Len(wire) \in Nat \ {0} /\ i \in 1..Len(wire) /\ DOMAIN wire = 1..Len(wire)
  BY DEF ListsInv, ListTypes
<1>2. /\ wire' \in Seq(Wire) /\ Len(wire') = Len(wire) - 1 /\ DOMAIN wire' = 1..(Len(wire) - 1)
      /\ \A k \in DOMAIN wire' : wire'[k] = wire[IF k < i THEN k ELSE k + 1]
  <2>1. PICK s : s = wire
    OBVIOUS
  <2>2. /\ Lists!RemoveAt(s, i) \in Seq(Wire) /\ Len(Lists!RemoveAt(s, i)) = Len(s) - 1
        /\ \A k \in 1..(Len(s) - 1) : Lists!RemoveAt(s, i)[k] = s[IF k < i THEN k ELSE k + 1]
    BY <1>1, <2>1, Removed
  <2>3. wire' = Lists!RemoveAt(s, i)
    BY <2>1
  <2>4. DOMAIN wire' = 1..(Len(wire) - 1)
    BY <1>1, <2>1, <2>2, <2>3
  <2> QED
    BY <2>1, <2>2, <2>3, <2>4
<1>3. \A k \in DOMAIN wire' : (IF k < i THEN k ELSE k + 1) \in DOMAIN wire \ {i}
  BY <1>1, <1>2
<1>4. ASSUME NEW j \in DOMAIN wire \ {i}
      PROVE  \E k \in DOMAIN wire' : wire'[k] = wire[j]
  <2>1. PICK k \in DOMAIN wire' : j = IF k < i THEN k ELSE k + 1
    <3>1. CASE j < i
      BY <1>1, <1>2, <3>1
    <3>2. CASE j > i
      <4>1. j - 1 \in DOMAIN wire' /\ ~(j - 1 < i) /\ j = (j - 1) + 1
        BY <1>1, <1>2, <3>2
      <4> QED
        BY <4>1
    <3> QED
      BY <1>1, <3>1, <3>2
  <2> QED
    BY <1>2, <2>1
<1>5. ASSUME \A j, l \in DOMAIN wire : ~wire[j].void /\ ~wire[l].void => j = l,
             NEW k \in DOMAIN wire', NEW l \in DOMAIN wire', ~wire'[k].void, ~wire'[l].void
      PROVE  k = l
  <2>1. (IF k < i THEN k ELSE k + 1) = (IF l < i THEN l ELSE l + 1)
    BY <1>2, <1>3, <1>5
  <2> QED
    BY <1>1, <1>2, <2>1
<1> QED
  BY <1>1, <1>2, <1>3, <1>4, <1>5

\* An answer, or a GET that fails: the page shows what the GET read, or says that it failed.
LEMMA GetEndsStep ==
    ASSUME ListsInv, NEW i \in DOMAIN wire, Lists!Loaded(i) \/ Lists!LoadFails(i)
    PROVE  ListsInv'
<1>1. /\ wire' = Lists!RemoveAt(wire, i)
      /\ UNCHANGED <<screen, query, ops, pressed, done, own, overtook, moves>>
  BY DEF Lists!Loaded, Lists!LoadFails
<1>2. /\ wire' \in Seq(Wire) /\ Len(wire') = Len(wire) - 1 /\ Len(wire) \in Nat \ {0}
      /\ \A k \in DOMAIN wire' : \E j \in DOMAIN wire \ {i} : wire'[k] = wire[j]
      /\ \A j \in DOMAIN wire \ {i} : \E k \in DOMAIN wire' : wire'[k] = wire[j]
      /\ (\A j, l \in DOMAIN wire : ~wire[j].void /\ ~wire[l].void => j = l) =>
         (\A k, l \in DOMAIN wire' : ~wire'[k].void /\ ~wire'[l].void => k = l)
  BY <1>1, GetEnds
<1>3. wire[i] \in Wire /\ wire[i].saw \subseteq done
  BY DEF ListsInv, ListTypes
<1>4. /\ shown' = shown \/ (shown' = [q |-> wire[i].q, saw |-> wire[i].saw, any |-> TRUE] /\ ~wire[i].void)
      /\ loading' \in BOOLEAN /\ note' \in {"none", "ok", "error"} /\ unsaid' \in BOOLEAN
  <2>1. loading \in BOOLEAN /\ note \in {"none", "ok", "error"} /\ unsaid \in BOOLEAN
    BY DEF ListsInv, ListTypes, Lists!TypeOK
  <2>2. loading' = loading \/ loading' = FALSE
    BY DEF Lists!Loaded, Lists!LoadFails
  <2>3. unsaid' = unsaid \/ unsaid' = FALSE \/ unsaid' = Lists!Has("silent")
    BY DEF Lists!Loaded, Lists!LoadFails
  <2>4. Lists!Has("silent") \in BOOLEAN
    BY DEF Lists!Has
  <2>5. note' \in {"none", "ok", "error"}
    BY <2>1 DEF Lists!Loaded, Lists!LoadFails
  <2>6. shown' = shown \/ (shown' = [q |-> wire[i].q, saw |-> wire[i].saw, any |-> TRUE] /\ ~wire[i].void)
    BY DEF Lists!Loaded, Lists!LoadFails
  <2> QED
    BY <2>1, <2>2, <2>3, <2>4, <2>5, <2>6
<1>5. pageTrouble' \in 0..MaxTrouble
  <2>1. pageTrouble \in 0..MaxTrouble /\ MaxTrouble \in Nat
    BY VisitorsAssumption DEF ListsInv, ListTypes, Lists!TypeOK, Lists!PagesAssumption
  <2>2. pageTrouble' = pageTrouble \/ (pageTrouble < MaxTrouble /\ pageTrouble' = pageTrouble + 1)
    BY DEF Lists!Loaded, Lists!LoadFails
  <2> QED
    BY <2>1, <2>2
<1>6. ListTypes'
  <2>1. shown' \in [q : PageQueries, saw : SUBSET Nat, any : BOOLEAN] /\ shown'.q \in PageQueries /\ shown'.saw \subseteq done
    <3>1. shown \in [q : PageQueries, saw : SUBSET Nat, any : BOOLEAN] /\ shown.q \in PageQueries /\ shown.saw \subseteq done
      BY DEF ListsInv, ListTypes, Lists!TypeOK
    <3>2. CASE shown' = [q |-> wire[i].q, saw |-> wire[i].saw, any |-> TRUE]
      BY <1>3, <3>2 DEF Wire
    <3> QED
      BY <1>4, <3>1, <3>2
  <2>2. \A k \in DOMAIN wire' : wire'[k].saw \subseteq done
    BY <1>2 DEF ListsInv, ListTypes
  <2> QED
    BY <1>1, <1>2, <1>4, <1>5, <2>1, <2>2 DEF ListsInv, ListTypes, Lists!TypeOK
<1>7. OpsBound' /\ EffectsOnly'
  BY <1>1, <1>2 DEF ListsInv, OpsBound, EffectsOnly, Lists!Has
<1>8. InOrder'
  <2> SUFFICES ASSUME ~overtook' PROVE InOrder'
    BY DEF InOrder
  <2>1. /\ \A j, l \in DOMAIN wire : ~wire[j].void /\ ~wire[l].void => j = l
        /\ \A j \in DOMAIN wire : ~wire[j].void =>
              /\ wire[j].q = query
              /\ wire[j].read /\ NoTimer => own \subseteq wire[j].saw
        /\ \A o \in ops : o.q = query
        /\ ~Lists!Live(wire) /\ NoTimer /\ ~unsaid /\ (note # "error" \/ Lists!Has("silent")) => UpToDate
    BY <1>1 DEF ListsInv, InOrder
  <2>2. /\ NoTimer' = NoTimer /\ Lists!Has("silent")' = Lists!Has("silent")
        /\ \A k \in DOMAIN wire' : ~wire'[k].void =>
              /\ wire'[k].q = query
              /\ wire'[k].read /\ NoTimer => own \subseteq wire'[k].saw
    BY <1>1, <1>2, <2>1 DEF NoTimer, Lists!Has
  <2>3. ~Lists!Live(wire)' /\ NoTimer /\ ~unsaid' /\ (note' # "error" \/ Lists!Has("silent")) => UpToDate'
    <3>1. CASE wire[i].void
      <4>1. Lists!Live(wire) => Lists!Live(wire)'
        BY <1>2, <3>1 DEF Lists!Live
      <4>2. UNCHANGED <<shown, note, unsaid>>
        BY <3>1 DEF Lists!Loaded, Lists!LoadFails
      <4> QED
        BY <1>1, <2>1, <4>1, <4>2 DEF UpToDate
    <3>2. CASE ~wire[i].void /\ Lists!Loaded(i)
      <4>1. wire[i].read /\ shown' = [q |-> wire[i].q, saw |-> wire[i].saw, any |-> TRUE]
        BY <3>2 DEF Lists!Loaded
      <4> QED
        BY <1>1, <2>1, <3>2, <4>1 DEF UpToDate
    <3>3. CASE ~wire[i].void /\ Lists!LoadFails(i)
      BY <3>3 DEF Lists!LoadFails
    <3> QED
      BY <3>1, <3>2, <3>3
  <2> QED
    BY <1>1, <1>2, <2>1, <2>2, <2>3 DEF InOrder
<1>9. LoadsOnce'
  <2> SUFFICES ASSUME PatchesAloud' PROVE LoadsOnce'
    BY DEF LoadsOnce
  <2>1. /\ Len(wire) <= 1 /\ (~shown.any => ops = {} /\ own = {}) /\ query = FirstQuery /\ shown.q = FirstQuery
        /\ own \subseteq shown.saw /\ wire[i].q = FirstQuery /\ (\A o \in ops : o.q = FirstQuery)
        /\ (wire # <<>> => ~shown.any)
    BY <1>1 DEF ListsInv, LoadsOnce, PatchesAloud, Lists!Has
  <2>2. Len(wire') = 0 /\ wire' = <<>>
    BY <1>2, <2>1
  <2>3. ops = {} /\ own = {}
    BY <1>2, <2>1
  <2> QED
    BY <1>1, <1>4, <2>1, <2>2, <2>3 DEF LoadsOnce
<1> QED
  BY <1>6, <1>7, <1>8, <1>9 DEF ListsInv
\* A handler sends a change.
LEMMA PressStep ==
    ASSUME ListsInv, NEW h \in DOMAIN Lists!Screens[screen].handlers, Lists!Press(h)
    PROVE  ListsInv'
<1> DEFINE handler == Lists!Screens[screen].handlers[h]
           o == [id |-> pressed + 1, then |-> handler.then, q |-> query, at |-> "sent"]
<1>1. /\ pressed < MaxOps /\ pressed' = pressed + 1 /\ ops' = ops \cup {o}
      /\ handler.from = "row" => shown.any /\ ~loading
      /\ UNCHANGED <<screen, query, wire, shown, loading, note, unsaid, done, own, overtook, moves, pageTrouble>>
  BY DEF Lists!Press
<1>2. /\ pressed \in Nat /\ MaxOps \in Nat /\ query \in PageQueries /\ done \subseteq 1..pressed /\ ops \subseteq Op
      /\ \A p \in ops : p.id <= pressed
  BY VisitorsAssumption DEF ListsInv, ListTypes, OpsBound, Lists!TypeOK, Lists!PagesAssumption
<1>3. handler.then \in Thens
  BY OpenPage DEF Sound
<1>4. o \in Op
  BY <1>2, <1>3 DEF Op
<1>5. ListTypes'
  <2>1. pressed' \in 0..MaxOps /\ done' \subseteq 1..pressed'
    BY <1>1, <1>2
  <2> QED
    BY <1>1, <1>4, <2>1 DEF ListsInv, ListTypes, Lists!TypeOK
<1>6. OpsBound'
  <2>1. \A p \in ops : p.id \in Nat /\ p.id # o.id
    BY <1>2 DEF Op
  <2>2. o.id \notin done
    BY <1>2
  <2>3. \A p \in ops' : p.id <= pressed'
    BY <1>1, <1>2, <2>1
  <2>4. \A p \in ops' : \E g \in DOMAIN Lists!Screens[screen].handlers : p.then = Lists!Screens[screen].handlers[g].then
    BY <1>1 DEF ListsInv, OpsBound
  <2>5. \A p, r \in ops' : p.id = r.id => p = r
    BY <1>1, <2>1 DEF ListsInv, OpsBound
  <2>6. \A p \in ops' : /\ p.at = "timer" => p.then = "timer"
                       /\ IF p.then = "nothing" THEN p.id \notin done ELSE p.at # "sent" => p.id \in done
    BY <1>1, <2>2 DEF ListsInv, OpsBound
  <2> QED
    BY <1>1, <2>3, <2>4, <2>5, <2>6 DEF OpsBound
<1>7. EffectsOnly'
  BY <1>1 DEF ListsInv, EffectsOnly, Lists!Has
<1>8. InOrder'
  <2>1. NoTimer' = NoTimer /\ UpToDate' = UpToDate /\ Lists!Live(wire)' = Lists!Live(wire)
        /\ Lists!Has("silent")' = Lists!Has("silent")
    BY <1>1 DEF NoTimer, UpToDate, Lists!Live, Lists!Has
  <2> QED
    BY <1>1, <2>1 DEF ListsInv, InOrder
<1>9. LoadsOnce'
  <2> SUFFICES ASSUME PatchesAloud' PROVE LoadsOnce'
    BY DEF LoadsOnce
  <2>1. PatchesAloud
    BY <1>1 DEF PatchesAloud, Lists!Has
  <2>2. shown.any
    BY <1>1, <2>1, OpenPage DEF Sound, PatchesAloud, Lists!Has
  <2> QED
    BY <1>1, <2>1, <2>2 DEF ListsInv, LoadsOnce
<1> QED
  BY <1>5, <1>6, <1>7, <1>8, <1>9 DEF ListsInv

\* A change that goes on keeps its number and its handler.
LEMMA OpMoves ==
    ASSUME ListsInv, NEW o \in ops, NEW n, n.id = o.id, n.then = o.then, ops' = (ops \ {o}) \cup {n}
    PROVE  /\ \A p \in ops' : p.id <= pressed /\ \E h \in DOMAIN Lists!Screens[screen].handlers :
                                             p.then = Lists!Screens[screen].handlers[h].then
           /\ \A p, r \in ops' : p.id = r.id => p = r
<1>1. /\ \A p \in ops : p.id <= pressed /\ \E h \in DOMAIN Lists!Screens[screen].handlers :
                                            p.then = Lists!Screens[screen].handlers[h].then
      /\ \A p, r \in ops : p.id = r.id => p = r
  BY DEF ListsInv, OpsBound
<1>2. \A p \in ops' : p = n \/ (p \in ops /\ p # o)
  OBVIOUS
<1>3. ASSUME NEW p \in ops'
      PROVE  p.id <= pressed /\ \E h \in DOMAIN Lists!Screens[screen].handlers :
                                   p.then = Lists!Screens[screen].handlers[h].then
  <2>1. PICK r \in ops : r.id = p.id /\ r.then = p.then
    BY <1>2
  <2> QED
    BY <1>1, <2>1
<1>4. ASSUME NEW p \in ops', NEW r \in ops', p.id = r.id PROVE p = r
  BY <1>1, <1>2, <1>4
<1> QED
  BY <1>3, <1>4

\* The server makes a change.
LEMMA CommitStep == ASSUME ListsInv, NEW o \in ops, Lists!Commit(o) PROVE ListsInv'
<1> DEFINE moved == [o EXCEPT !.at = "made"]
<1>1. /\ o.at = "sent" /\ ops' = (ops \ {o}) \cup {moved}
      /\ done' = (IF o.then = "nothing" THEN done ELSE done \cup {o.id})
      /\ UNCHANGED <<screen, query, wire, shown, loading, note, unsaid, pressed, own, overtook, moves, pageTrouble>>
  BY DEF Lists!Commit
<1>2. o \in Op /\ ops \subseteq Op /\ o.id <= pressed /\ done \subseteq 1..pressed /\ pressed \in Nat /\ own \subseteq done
  BY DEF ListsInv, ListTypes, OpsBound, Lists!TypeOK
<1>3. moved \in Op /\ moved.id = o.id /\ moved.then = o.then /\ moved.q = o.q /\ moved.at = "made"
  BY <1>2 DEF Op
<1>4. done \subseteq done' /\ done' \subseteq 1..pressed
  BY <1>1, <1>2 DEF Op
<1>5. ListTypes'
  <2>1. ops' \subseteq Op
    BY <1>1, <1>2, <1>3
  <2> QED
    BY <1>1, <1>2, <1>4, <2>1 DEF ListsInv, ListTypes, Lists!TypeOK
<1>6. OpsBound'
  <2>1. /\ \A p \in ops : p.id <= pressed /\ \E h \in DOMAIN Lists!Screens[screen].handlers :
                                              p.then = Lists!Screens[screen].handlers[h].then
        /\ \A p, r \in ops : p.id = r.id => p = r
        /\ \A p \in ops : p.at = "timer" => p.then = "timer"
        /\ \A p \in ops : IF p.then = "nothing" THEN p.id \notin done ELSE p.at # "sent" => p.id \in done
    BY DEF ListsInv, OpsBound
  <2>2. /\ \A p \in ops' : p.id <= pressed /\ \E h \in DOMAIN Lists!Screens[screen].handlers :
                                             p.then = Lists!Screens[screen].handlers[h].then
        /\ \A p, r \in ops' : p.id = r.id => p = r
    BY <1>1, <1>3, OpMoves
  <2>4. \A p \in ops' : p.at = "timer" => p.then = "timer"
    BY <1>1, <1>3, <2>1
  <2>5. \A p \in ops' : IF p.then = "nothing" THEN p.id \notin done' ELSE p.at # "sent" => p.id \in done'
    BY <1>1, <1>3, <2>1
  <2> QED
    BY <1>1, <2>2, <2>4, <2>5 DEF OpsBound
<1>7. EffectsOnly'
  BY <1>1 DEF ListsInv, EffectsOnly, Lists!Has
<1>8. NoTimer' = NoTimer /\ UpToDate' = UpToDate /\ Lists!Live(wire)' = Lists!Live(wire)
      /\ Lists!Has("silent")' = Lists!Has("silent")
  BY <1>1, <1>3 DEF NoTimer, UpToDate, Lists!Live, Lists!Has
<1>9. InOrder'
  BY <1>1, <1>3, <1>8 DEF ListsInv, InOrder
<1>10. LoadsOnce'
  <2>1. ops' = {} <=> ops = {}
    BY <1>1
  <2> QED
    BY <1>1, <1>3, <2>1 DEF ListsInv, LoadsOnce, PatchesAloud, Lists!Has
<1> QED
  BY <1>5, <1>6, <1>7, <1>9, <1>10 DEF ListsInv

\* A change fails.
LEMMA OpFailsStep == ASSUME ListsInv, NEW o \in ops, Lists!OpFails(o) PROVE ListsInv'
<1>1. /\ o.at \in {"sent", "made"} /\ ops' = ops \ {o}
      /\ pageTrouble < MaxTrouble /\ pageTrouble' = pageTrouble + 1
      /\ note' = (IF o.then = "late" THEN note ELSE "error")
      /\ UNCHANGED <<screen, query, wire, shown, loading, unsaid, pressed, done, own, overtook, moves>>
  BY DEF Lists!OpFails
<1>2. ListTypes'
  <2>1. pageTrouble' \in 0..MaxTrouble
    BY <1>1, VisitorsAssumption DEF ListsInv, ListTypes, Lists!TypeOK, Lists!PagesAssumption
  <2> QED
    BY <1>1, <2>1 DEF ListsInv, ListTypes, Lists!TypeOK
<1>3. OpsBound' /\ EffectsOnly'
  BY <1>1 DEF ListsInv, OpsBound, EffectsOnly, Lists!Has
<1>4. /\ NoTimer' => NoTimer
      /\ UpToDate' = UpToDate /\ Lists!Live(wire)' = Lists!Live(wire) /\ Lists!Has("silent")' = Lists!Has("silent")
  BY <1>1 DEF NoTimer, UpToDate, Lists!Live, Lists!Has
<1>5. InOrder'
  BY <1>1, <1>4 DEF ListsInv, InOrder
<1>6. LoadsOnce'
  BY <1>1 DEF ListsInv, LoadsOnce, PatchesAloud, Lists!Has
<1> QED
  BY <1>2, <1>3, <1>5, <1>6 DEF ListsInv

\* The success of a change: the page loads, will load, patches its entry, or has nothing to show.
LEMMA OpDoneStep == ASSUME ListsInv, NEW o \in ops, Lists!OpDone(o) PROVE ListsInv'
<1>1. /\ o.at = "made" /\ own' = own \cup ({o.id} \cap done)
      /\ note' = (IF o.then = "late" THEN note ELSE "ok")
      /\ UNCHANGED <<screen, query, unsaid, pressed, done, moves, pageTrouble>>
  BY DEF Lists!OpDone
<1>2. o \in Op /\ ops \subseteq Op /\ wire \in Seq(Wire) /\ own \subseteq done /\ note \in {"none", "ok", "error"}
  BY DEF ListsInv, ListTypes, Lists!TypeOK
<1>3. /\ own' \subseteq done /\ note' \in {"none", "ok", "error"} /\ own \subseteq own'
      /\ o.then \in Thens /\ o.q \in PageQueries /\ (~overtook => o.q = query)
      /\ moves \in 0..MaxMoves /\ pageTrouble \in 0..MaxTrouble
  BY <1>1, <1>2 DEF Op, ListsInv, ListTypes, Lists!TypeOK, InOrder
<1>4. /\ \A p \in ops : p.id <= pressed /\ \E h \in DOMAIN Lists!Screens[screen].handlers :
                                             p.then = Lists!Screens[screen].handlers[h].then
      /\ \A p, r \in ops : p.id = r.id => p = r
      /\ \A p \in ops : p.at = "timer" => p.then = "timer"
      /\ \A p \in ops : IF p.then = "nothing" THEN p.id \notin done ELSE p.at # "sent" => p.id \in done
  BY DEF ListsInv, OpsBound
<1>5. Lists!Has("silent")' = Lists!Has("silent") /\ PatchesAloud' = PatchesAloud
      /\ (Lists!Has("query") /\ Lists!Has("cancels"))' = (Lists!Has("query") /\ Lists!Has("cancels"))
  BY <1>1 DEF Lists!Has, PatchesAloud
<1>6. CASE o.then \in {"reload", "late"}
  <2>1. /\ Lists!Send(o.q, IF o.then = "reload" THEN "handler" ELSE "late") /\ ops' = ops \ {o} /\ UNCHANGED shown
    BY <1>6 DEF Lists!OpDone
  <2>2. ~PatchesAloud /\ ~(Lists!Has("query") /\ Lists!Has("cancels"))
    BY <1>6, OpenPage
  <2>3. PICK by \in {"handler", "late", "tick"} : by = IF o.then = "reload" THEN "handler" ELSE "late"
    OBVIOUS
  <2> QED
    BY <1>1, <1>3, <2>1, <2>2, <2>3, SendStep
<1>7. CASE o.then = "timer"
  <2> DEFINE later == [o EXCEPT !.at = "timer"]
  <2>1. ops' = (ops \ {o}) \cup {later} /\ UNCHANGED <<wire, overtook, loading, shown>>
    BY <1>7 DEF Lists!OpDone
  <2>2. later \in Op /\ later.id = o.id /\ later.then = "timer" /\ later.q = o.q /\ later.at = "timer"
    BY <1>2, <1>7 DEF Op
  <2>3. ListTypes'
    <3>1. ops' \subseteq Op
      BY <1>2, <2>1, <2>2
    <3> QED
      BY <1>1, <1>3, <2>1, <3>1 DEF ListsInv, ListTypes, Lists!TypeOK
  <2>4. OpsBound'
    <3>1. /\ \A p \in ops' : p.id <= pressed /\ \E h \in DOMAIN Lists!Screens[screen].handlers :
                                             p.then = Lists!Screens[screen].handlers[h].then
          /\ \A p, r \in ops' : p.id = r.id => p = r
      BY <1>7, <2>1, <2>2, OpMoves
    <3>2. o.id \in done
      BY <1>1, <1>4, <1>7
    <3>4. \A p \in ops' : /\ p.at = "timer" => p.then = "timer"
                         /\ IF p.then = "nothing" THEN p.id \notin done ELSE p.at # "sent" => p.id \in done
      BY <1>4, <2>1, <2>2, <3>2
    <3> QED
      BY <1>1, <3>1, <3>4 DEF OpsBound
  <2>5. EffectsOnly'
    BY <1>1, <2>1 DEF ListsInv, EffectsOnly, Lists!Has
  <2>6. InOrder'
    <3>1. ~NoTimer'
      BY <2>1, <2>2 DEF NoTimer
    <3> QED
      BY <1>1, <2>1, <2>2, <3>1 DEF ListsInv, InOrder
  <2>7. LoadsOnce'
    BY <1>5, <1>7, OpenPage DEF LoadsOnce
  <2> QED
    BY <2>3, <2>4, <2>5, <2>6, <2>7 DEF ListsInv
<1>8. CASE o.then = "patch"
  <2>1. /\ ops' = ops \ {o} /\ overtook' = (overtook \/ Lists!Live(wire)) /\ UNCHANGED <<wire, loading>>
        /\ shown' = (IF shown.q = o.q THEN [shown EXCEPT !.saw = @ \cup {o.id}] ELSE shown)
    BY <1>8 DEF Lists!OpDone
  <2>2. o.id \in done /\ o.id \in Nat
    BY <1>1, <1>2, <1>4, <1>8 DEF Op
  <2>3. /\ shown' \in [q : PageQueries, saw : SUBSET Nat, any : BOOLEAN] /\ shown'.saw \subseteq done
        /\ shown'.q = shown.q /\ shown'.any = shown.any /\ shown.saw \subseteq shown'.saw
        /\ shown.q = o.q => o.id \in shown'.saw
    <3>1. shown \in [q : PageQueries, saw : SUBSET Nat, any : BOOLEAN] /\ shown.saw \subseteq done
      BY DEF ListsInv, ListTypes, Lists!TypeOK
    <3> QED
      BY <2>1, <2>2, <3>1
  <2>4. ListTypes'
    <3>1. overtook' \in BOOLEAN /\ loading' \in BOOLEAN /\ shown'.q \in PageQueries
      BY <2>1, <2>3 DEF ListsInv, ListTypes, Lists!TypeOK
    <3> QED
      BY <1>1, <1>3, <2>1, <2>3, <3>1 DEF ListsInv, ListTypes, Lists!TypeOK
  <2>5. OpsBound' /\ EffectsOnly'
    BY <1>1, <1>4, <2>1 DEF ListsInv, OpsBound, EffectsOnly, Lists!Has
  <2>6. LoadsOnce'
    <3> SUFFICES ASSUME PatchesAloud PROVE LoadsOnce'
      BY <1>5 DEF LoadsOnce
    <3>1. /\ Len(wire) <= 1 /\ (wire # <<>> => ~shown.any) /\ (~shown.any => ops = {} /\ own = {})
          /\ query = FirstQuery /\ shown.q = FirstQuery /\ own \subseteq shown.saw
          /\ (\A i \in DOMAIN wire : wire[i].q = FirstQuery) /\ (\A p \in ops : p.q = FirstQuery)
      BY DEF ListsInv, LoadsOnce
    <3>2. shown.any /\ o.id \in shown'.saw
      BY <2>3, <3>1
    <3> QED
      BY <1>1, <2>1, <2>3, <3>1, <3>2 DEF LoadsOnce
  <2>7. InOrder'
    <3> SUFFICES ASSUME ~overtook' PROVE InOrder'
      BY DEF InOrder
    <3>1. /\ ~overtook /\ ~Lists!Live(wire) /\ o.q = query
          /\ \A p \in ops : p.q = query
          /\ NoTimer /\ ~unsaid /\ (note # "error" \/ Lists!Has("silent")) => UpToDate
      BY <1>3, <2>1 DEF ListsInv, InOrder
    <3>2. NoTimer' => NoTimer
      BY <1>1, <2>1 DEF NoTimer
    <3>3. NoTimer /\ ~unsaid => UpToDate
      <4>1. CASE Lists!Has("silent")
        BY <3>1, <4>1
      <4>2. CASE PatchesAloud
        BY <4>2 DEF ListsInv, LoadsOnce, UpToDate
      <4> QED
        BY <1>8, <4>1, <4>2, OpenPage
    <3>4. UpToDate => UpToDate'
      BY <1>1, <2>3, <3>1 DEF UpToDate
    <3>5. \A i \in DOMAIN wire : wire[i].void
      BY <3>1 DEF Lists!Live
    <3> QED
      BY <1>1, <2>1, <3>1, <3>2, <3>3, <3>4, <3>5 DEF InOrder
  <2> QED
    BY <2>4, <2>5, <2>6, <2>7 DEF ListsInv
<1>9. CASE o.then = "nothing"
  <2>1. ops' = ops \ {o} /\ UNCHANGED <<wire, overtook, loading, shown>>
    BY <1>9 DEF Lists!OpDone
  <2>2. own' = own
    BY <1>1, <1>4, <1>9
  <2>3. ListTypes'
    BY <1>1, <1>3, <2>1 DEF ListsInv, ListTypes, Lists!TypeOK
  <2>4. OpsBound' /\ EffectsOnly'
    BY <1>1, <1>4, <2>1 DEF ListsInv, OpsBound, EffectsOnly, Lists!Has
  <2>5. Lists!Has("silent")
    BY <1>9, OpenPage
  <2>6. /\ NoTimer' => NoTimer
        /\ UpToDate' = UpToDate /\ Lists!Live(wire)' = Lists!Live(wire)
    BY <1>1, <2>1, <2>2 DEF NoTimer, UpToDate, Lists!Live
  <2>7. InOrder'
    BY <1>1, <2>1, <2>2, <2>5, <2>6 DEF ListsInv, InOrder
  <2>8. LoadsOnce'
    BY <1>5, <2>5 DEF LoadsOnce, PatchesAloud
  <2> QED
    BY <2>3, <2>4, <2>7, <2>8 DEF ListsInv
<1> QED
  BY <1>3, <1>6, <1>7, <1>8, <1>9 DEF Thens

\* Every step keeps the invariant of the pages.
LEMMA ListsStep ==
    ASSUME ListsInv, [Lists!Next]_(Lists!vars)
    PROVE  ListsInv'
<1>1. CASE UNCHANGED Lists!vars
  <2>1. UNCHANGED <<screen, query, wire, shown, loading, note, unsaid, ops, pressed, done, own, overtook, moves, pageTrouble>>
    BY <1>1 DEF Lists!vars
  <2>2. ListTypes' /\ OpsBound' /\ EffectsOnly'
    BY <2>1 DEF ListsInv, ListTypes, Lists!TypeOK, OpsBound, EffectsOnly, Lists!Has
  <2>3. InOrder' /\ LoadsOnce'
    BY <2>1 DEF ListsInv, InOrder, LoadsOnce, NoTimer, UpToDate, PatchesAloud, Lists!Has, Lists!Live
  <2> QED
    BY <2>2, <2>3 DEF ListsInv
<1>2. CASE Lists!Next
  BY <1>2, ChooseStep, TickStep, GetReadStep, GetEndsStep, PressStep, CommitStep, OpFailsStep, OpDoneStep, TimerStep
  DEF Lists!Next
<1> QED
  BY <1>1, <1>2

\* The invariant of the pages holds in every behaviour.
LEMMA ListsAlways == PartsSpec => []ListsInv
<1> QED
  BY ListsInit, ListsStep, ListsRuns, PTL

\* On each of the 28 pages: when nothing is under way the page shows the answer to the query
\* that is selected, with every change it has made itself, or says that its last request
\* failed (or keeps that to itself where the code does); unless a load or a change was sent
\* while another was under way (load and the handlers of each page).
THEOREM PagesShowTheAnswer == PartsSpec => []ShownIsCurrent
<1>1. ListsInv => Lists!ShownIsCurrent
  BY DEF ListsInv, InOrder, NoTimer, UpToDate, Lists!ShownIsCurrent, Lists!AtRest
<1> QED
  BY <1>1, ListsAlways, PTL DEF ShownIsCurrent

-----------------------------------------------------------------------------
(* Copies that are changed without loading again (OptimisticPages)         *)

\* The steps of PartsSpec are steps of the page that is open or leave it alone.
LEMMA CopiedRuns == PartsSpec => Copied!Init /\ [][Copied!Next]_(Copied!vars)
<1>1. PartsInit => Copied!Init
  BY DEF PartsInit
<1>2. [PartsNext]_<<part, vars, communityVars, listVars, submitVars, copyVars>>
        => [Copied!Next]_(Copied!vars)
  BY DEF PartsNext, copyVars, Copied!vars
<1> QED
  BY <1>1, <1>2, PTL DEF PartsSpec

\* What a page can show, what a change can ask for, and what it is.
CopiesOf(s) == Copied!Rows(s) \cup {<<>>}
Patches(s) == IF s = "notices" THEN {<<>>} \cup {[m \in {n} |-> TRUE] : n \in Notices} ELSE Copied!Rows(s)
KindsOf(s) == CASE s = "notices" -> {"one", "all"} [] s = "modules" -> {"modules"} [] s = "star" -> {"star"}
ChangesOf(s) == [id : Nat, kind : KindsOf(s), set : Patches(s), was : CopiesOf(s), had : Nat,
                 made : BOOLEAN, beside : BOOLEAN]
Stages == {"sent", "list", "read", "over", "failed"}
GetsOf(s) == [at : Stages, list : CopiesOf(s), count : SUBSET Notices, known : SUBSET Notices]

\* The star is never without a value.
StarTypes ==
    place = "star" => /\ pageCopy \in Copied!Rows("star")
                      /\ get.at = "read" => get.list \in Copied!Rows("star")

CopyTypes ==
    /\ Copied!TypeOK /\ StarTypes
    /\ get \in GetsOf(place) /\ pageCopy \in CopiesOf(place) /\ changes \subseteq ChangesOf(place)
    /\ get.at = "list" => place = "notices"

\* A change that nothing overlaps is the only one.
Alone == \A o \in changes : ~o.beside => changes = {o}

\* The modules.  Before the answer there are no switches to press; then the copy is what the
\* newest change asks for, which the server has unless that change is still to be made; and
\* a change that was alone goes back to what the server has.
IsNewest(o) == o.id = presses - 1
ModulesInv ==
    place = "modules" /\ ~unsure =>
        /\ \A o \in changes : o.id < presses
        /\ get.at # "over" => changes = {} /\ pageCopy = <<>>
        /\ get.at = "read" => get.list = server
        /\ get.at = "over" =>
              /\ pageCopy \in Copied!Rows("modules")
              /\ pageCopy = server \/ \E o \in changes : IsNewest(o) /\ ~o.made
        /\ \A o \in changes : IsNewest(o) => pageCopy = o.set
        /\ \A o \in changes : ~o.beside /\ ~o.made => server = o.was

\* The star.  It is pressed after the answer and changes with the answer to the press.
StarInv ==
    place = "star" /\ ~unsure =>
        /\ \A o, p \in changes : o = p
        /\ get.at \in {"sent", "read"} => changes = {}
        /\ get.at = "read" => get.list = server
        /\ get.at = "over" => /\ changes = {} => pageCopy = server
                              /\ \A o \in changes : server = IF o.made THEN o.set ELSE pageCopy

\* A notice that a change will mark when it is made.
Covered(n) == \E o \in changes : ~o.made /\ (o.kind = "all" \/ n \in DOMAIN o.set)
Counted == {n \in Copied!Unread(server) \cap known : ~Covered(n)}
AllMarked == \A n \in DOMAIN pageCopy : pageCopy[n]

\* The notices, before the page has its list: nothing to press, and what was read is
\* still so, since notices only arrive.
NoticesBefore ==
    /\ get.at # "over" => changes = {} /\ pageCopy = <<>> /\ counter = 0
    /\ get.at \in {"list", "read"} =>
          \A n \in DOMAIN get.list : n \in DOMAIN server /\ get.list[n] = server[n]
    /\ get.at = "read" =>
          DOMAIN get.list \subseteq get.known /\ get.known \subseteq DOMAIN server
          /\ get.count = Copied!Unread(server) \cap get.known

\* Afterwards: the number counts what is unread and not about to be marked, an unmarked line
\* is one of these, and all lines are marked or those that are marked are read or about to be.
NoticesAfter ==
    get.at = "over" =>
        /\ DOMAIN pageCopy \subseteq known /\ known \subseteq DOMAIN server
        /\ counter = Cardinality(Counted)
        /\ \A n \in DOMAIN pageCopy : ~pageCopy[n] => n \in Counted
        /\ AllMarked \/ \A n \in DOMAIN pageCopy : pageCopy[n] => server[n] \/ Covered(n)
        /\ \A o \in changes : o.kind = "all" => AllMarked

\* What a change that may still be taken back goes back to.
NoticesBack ==
    \A o \in changes : ~o.beside /\ ~o.made =>
        /\ o.kind = "one" =>
              /\ DOMAIN o.was = DOMAIN pageCopy
              /\ \A n \in DOMAIN o.was : o.was[n] => server[n]
              /\ \A n \in DOMAIN o.was : ~o.was[n] => n \in Copied!Unread(server)
              /\ \E n \in Copied!Unread(server) \cap known : DOMAIN o.set = {n}
        /\ o.kind = "all" => o.had = Cardinality(Copied!Unread(server) \cap known)

NoticesInv == place = "notices" /\ ~unsure => NoticesBefore /\ NoticesAfter /\ NoticesBack

CopiesInv == CopyTypes /\ Alone /\ ModulesInv /\ StarInv /\ NoticesInv

\* There are finitely many notices; the instance's cardinalities are those of FiniteSets.
LEMMA NoticesFinite ==
    ASSUME NEW S \in SUBSET Notices
    PROVE  IsFiniteSet(S) /\ Cardinality(S) \in Nat /\ Copied!Cardinality(S) = Cardinality(S)
<1>1. IsFiniteSet(Notices)
  BY VisitorsAssumption DEF Copied!PagesAssumption, Copied!IsFiniteSet, IsFiniteSet
<1>2. IsFiniteSet(S)
  BY <1>1, FS_Subset
<1>3. Cardinality(S) \in Nat
  BY <1>2, FS_CardinalityType
<1>4. Copied!Cardinality(S) = Cardinality(S)
  BY DEF Copied!Cardinality, Cardinality
<1> QED
  BY <1>2, <1>3, <1>4

\* Rows of notices are read or unread.
LEMMA NoticeRows ==
    /\ \A f \in Copied!Rows("notices") : DOMAIN f \in SUBSET Notices /\ f \in [DOMAIN f -> BOOLEAN]
    /\ \A N \in SUBSET Notices : [N -> BOOLEAN] \subseteq Copied!Rows("notices")
    /\ \A f \in CopiesOf("notices") : DOMAIN f \in SUBSET Notices /\ f \in [DOMAIN f -> BOOLEAN]
<1>1. \A f \in Copied!Rows("notices") : DOMAIN f \in SUBSET Notices /\ f \in [DOMAIN f -> BOOLEAN]
  BY DEF Copied!Rows
<1>2. \A N \in SUBSET Notices : [N -> BOOLEAN] \subseteq Copied!Rows("notices")
  BY DEF Copied!Rows
<1>3. DOMAIN <<>> = {} /\ <<>> \in [DOMAIN <<>> -> BOOLEAN]
  OBVIOUS
<1> QED
  BY <1>1, <1>2, <1>3 DEF CopiesOf

\* What a copy becomes with the values of a change.
LEMMA PatchedType ==
    ASSUME place \in {"notices", "modules", "star"}, NEW f \in Copied!Rows(place), NEW set \in Patches(place)
    PROVE  Copied!Patched(f, set) \in Copied!Rows(place) /\ DOMAIN Copied!Patched(f, set) = DOMAIN f
<1>1. DOMAIN Copied!Patched(f, set) = DOMAIN f
  BY DEF Copied!Patched
<1>2. CASE place = "notices"
  <2>1. DOMAIN f \in SUBSET Notices /\ f \in [DOMAIN f -> BOOLEAN]
    BY <1>2, NoticeRows
  <2>2. \A k \in DOMAIN set : set[k] \in BOOLEAN
    <3>1. CASE set = <<>>
      BY <3>1
    <3>2. ASSUME NEW n \in Notices, set = [m \in {n} |-> TRUE]
          PROVE  \A k \in DOMAIN set : set[k] \in BOOLEAN
      BY <3>2
    <3> QED
      BY <1>2, <3>1, <3>2 DEF Patches
  <2>3. Copied!Patched(f, set) \in [DOMAIN f -> BOOLEAN]
    BY <2>1, <2>2 DEF Copied!Patched
  <2> QED
    BY <1>1, <1>2, <2>1, <2>3, NoticeRows
<1>3. CASE place = "modules"
  BY <1>1, <1>3 DEF Copied!Patched, Copied!Rows, Patches
<1>4. CASE place = "star"
  BY <1>1, <1>4 DEF Copied!Patched, Copied!Rows, Patches
<1> QED
  BY <1>2, <1>3, <1>4

\* The first state has the types.
LEMMA CopyTypesInit == Copied!Init => CopyTypes
<1> SUFFICES ASSUME Copied!Init PROVE CopyTypes
  OBVIOUS
<1>1. MaxPresses \in Nat /\ MaxTrouble \in Nat
  BY VisitorsAssumption DEF Copied!PagesAssumption
<1>2. Copied!TypeOK
  <2>1. place \in {"notices", "modules", "star"} /\ server \in Copied!Rows(place) /\ get.at = "sent"
    BY DEF Copied!Init
  <2>2. counter = 0 /\ known = {} /\ presses = 0 /\ changeTrouble = 0 /\ unsure = FALSE
    BY DEF Copied!Init
  <2>3. presses \in 0..MaxPresses /\ changeTrouble \in 0..MaxTrouble
    BY <1>1, <2>2
  <2>4. unsure \in BOOLEAN
    BY <2>2
  <2>5. counter \in Nat /\ known \subseteq Notices
    BY <2>2
  <2> QED
    BY <2>1, <2>3, <2>4, <2>5 DEF Copied!TypeOK
<1>3. pageCopy \in CopiesOf(place)
  BY DEF Copied!Init, CopiesOf, Copied!Empty, Copied!Rows
<1>4. get \in GetsOf(place) /\ get.at # "list"
  BY DEF Copied!Init, GetsOf, Stages, CopiesOf
<1>5. StarTypes
  BY DEF Copied!Init, StarTypes, Copied!Empty, Copied!Rows
<1> QED
  BY <1>2, <1>3, <1>4, <1>5 DEF Copied!Init, CopyTypes

\* Loading keeps the types.
LEMMA LoadTypes ==
    ASSUME CopyTypes,
           Copied!ReadList \/ Copied!CountUnread \/ Copied!Loaded \/ Copied!LoadFails
           \/ (\E n \in Notices : Copied!Arrives(n))
    PROVE  CopyTypes'
<1>1. UNCHANGED <<place, changes, presses, unsure>>
  BY DEF Copied!ReadList, Copied!CountUnread, Copied!Loaded, Copied!LoadFails, Copied!Arrives
<1>2. /\ place \in {"notices", "modules", "star"} /\ server \in Copied!Rows(place) /\ get \in GetsOf(place)
      /\ pageCopy \in CopiesOf(place) /\ counter \in Nat /\ known \subseteq Notices
      /\ changeTrouble \in 0..MaxTrouble /\ (get.at = "list" => place = "notices")
  BY DEF CopyTypes, Copied!TypeOK
<1>s. StarTypes'
  <2>1. ASSUME place = "star"
        PROVE  pageCopy' \in Copied!Rows("star") /\ (get'.at = "read" => get'.list \in Copied!Rows("star"))
    <3>1. StarTypes /\ server \in Copied!Rows("star") /\ get.at # "list"
      BY <1>2, <2>1 DEF CopyTypes
    <3>2. CASE Copied!ReadList
      BY <1>2, <2>1, <3>1, <3>2 DEF Copied!ReadList, StarTypes, GetsOf
    <3>3. CASE Copied!Loaded
      BY <1>2, <2>1, <3>1, <3>3 DEF Copied!Loaded, StarTypes, GetsOf
    <3>4. CASE Copied!LoadFails
      BY <1>2, <2>1, <3>1, <3>4 DEF Copied!LoadFails, StarTypes, GetsOf
    <3>5. ~Copied!CountUnread /\ \A n \in Notices : ~Copied!Arrives(n)
      BY <2>1, <3>1 DEF Copied!CountUnread, Copied!Arrives
    <3> QED
      BY <3>2, <3>3, <3>4, <3>5
  <2> QED
    BY <1>1, <2>1 DEF StarTypes
<1>t. ASSUME server' \in Copied!Rows(place), get' \in GetsOf(place), get'.at = "list" => place = "notices",
             pageCopy' \in CopiesOf(place), counter' \in Nat, known' \subseteq Notices, changeTrouble' \in 0..MaxTrouble
      PROVE  CopyTypes'
  <2>1. get'.at \in Stages
    BY <1>t DEF GetsOf
  <2> QED
    BY <1>1, <1>s, <1>t, <2>1 DEF CopyTypes, Copied!TypeOK, Stages
<1>3. ASSUME NEW n \in Notices, Copied!Arrives(n)
      PROVE  CopyTypes'
  <2>1. /\ place = "notices" /\ server' = [m \in DOMAIN server \cup {n} |-> IF m = n THEN FALSE ELSE server[m]]
        /\ UNCHANGED <<get, pageCopy, counter, known, changeTrouble>>
    BY <1>3 DEF Copied!Arrives
  <2>2. DOMAIN server \in SUBSET Notices /\ server \in [DOMAIN server -> BOOLEAN]
    BY <1>2, <2>1, NoticeRows
  <2>3. server' \in [DOMAIN server \cup {n} -> BOOLEAN] /\ DOMAIN server \cup {n} \in SUBSET Notices
    BY <2>1, <2>2
  <2>4. server' \in Copied!Rows(place)
    BY <2>1, <2>3, NoticeRows
  <2> QED
    BY <1>2, <1>t, <2>1, <2>4
<1>4. CASE Copied!ReadList
  <2>1. CASE place = "notices"
    <3>1. get' = [get EXCEPT !.at = "list", !.list = Copied!Restrict(server, Copied!Newest(server))]
      BY <1>4, <2>1 DEF Copied!ReadList
    <3>2. DOMAIN server \in SUBSET Notices /\ server \in [DOMAIN server -> BOOLEAN]
      BY <1>2, <2>1, NoticeRows
    <3>3. /\ Copied!Newest(server) \in SUBSET Notices
          /\ Copied!Restrict(server, Copied!Newest(server)) \in [Copied!Newest(server) -> BOOLEAN]
      BY <3>2 DEF Copied!Newest, Copied!Restrict
    <3>4. Copied!Restrict(server, Copied!Newest(server)) \in CopiesOf(place)
      BY <2>1, <3>3, NoticeRows DEF CopiesOf
    <3>5. get' \in GetsOf(place) /\ get'.at = "list"
      BY <1>2, <3>1, <3>4 DEF GetsOf, Stages
    <3> QED
      BY <1>2, <1>4, <1>t, <2>1, <3>5 DEF Copied!ReadList
  <2>2. CASE place # "notices"
    <3>1. get' = [get EXCEPT !.at = "read", !.list = server]
      BY <1>4, <2>2 DEF Copied!ReadList
    <3>2. get' \in GetsOf(place) /\ get'.at = "read"
      BY <1>2, <3>1 DEF GetsOf, Stages, CopiesOf
    <3> QED
      BY <1>2, <1>4, <1>t, <3>2 DEF Copied!ReadList
  <2> QED
    BY <2>1, <2>2
<1>5. CASE Copied!CountUnread
  <2>1. /\ place = "notices" /\ get' = [get EXCEPT !.at = "read", !.count = Copied!Unread(server), !.known = DOMAIN server]
    BY <1>2, <1>5 DEF Copied!CountUnread
  <2>2. DOMAIN server \in SUBSET Notices /\ Copied!Unread(server) \in SUBSET Notices
    BY <1>2, <2>1, NoticeRows DEF Copied!Unread
  <2>3. get' \in GetsOf(place) /\ get'.at = "read"
    BY <1>2, <2>1, <2>2 DEF GetsOf, Stages
  <2> QED
    BY <1>2, <1>5, <1>t, <2>3 DEF Copied!CountUnread
<1>6. CASE Copied!Loaded
  <2>1. /\ get' = [get EXCEPT !.at = "over"] /\ pageCopy' = get.list
        /\ counter' = Copied!Cardinality(get.count) /\ known' = get.known /\ UNCHANGED <<server, changeTrouble>>
    BY <1>6 DEF Copied!Loaded
  <2>2. get' \in GetsOf(place) /\ get'.at = "over"
    BY <1>2, <2>1 DEF GetsOf, Stages
  <2>3. get.list \in CopiesOf(place) /\ get.count \in SUBSET Notices /\ get.known \in SUBSET Notices
    BY <1>2 DEF GetsOf
  <2>4. counter' \in Nat
    <3>1. PICK S \in SUBSET Notices : S = get.count
      BY <2>3
    <3> QED
      BY <2>1, <3>1, NoticesFinite
  <2> QED
    BY <1>2, <1>t, <2>1, <2>2, <2>3, <2>4
<1>7. CASE Copied!LoadFails
  <2>1. /\ get' = [get EXCEPT !.at = "failed"] /\ changeTrouble < MaxTrouble /\ changeTrouble' = changeTrouble + 1
        /\ UNCHANGED <<server, pageCopy, counter, known>>
    BY <1>7 DEF Copied!LoadFails
  <2>2. get' \in GetsOf(place) /\ get'.at = "failed"
    BY <1>2, <2>1 DEF GetsOf, Stages
  <2>3. changeTrouble' \in 0..MaxTrouble
    BY <1>2, <2>1, VisitorsAssumption DEF Copied!PagesAssumption
  <2> QED
    BY <1>2, <1>t, <2>1, <2>2, <2>3
<1> QED
  BY <1>3, <1>4, <1>5, <1>6, <1>7

\* A press adds one change and marks the others as overlapped.
LEMMA PressTypes ==
    ASSUME CopyTypes, NEW kind \in KindsOf(place), NEW set \in Patches(place), Copied!Press(kind, set)
    PROVE  /\ presses' \in 0..MaxPresses /\ changes' \subseteq ChangesOf(place)
           /\ LET new == [id |-> presses, kind |-> kind, set |-> set, was |-> pageCopy, had |-> counter,
                         made |-> FALSE, beside |-> changes # {}] IN
              /\ new \in changes'
              /\ \A o \in changes' : o = new \/
                    /\ o.beside
                    /\ \E p \in changes : o.kind = p.kind /\ o.set = p.set /\ o.was = p.was /\ o.had = p.had /\ o.made = p.made
              /\ \A p \in changes : \E o \in changes' : o.kind = p.kind /\ o.set = p.set /\ o.made = p.made
<1> DEFINE new == [id |-> presses, kind |-> kind, set |-> set, was |-> pageCopy, had |-> counter,
                   made |-> FALSE, beside |-> changes # {}]
           old == {[o EXCEPT !.beside = TRUE] : o \in changes}
<1>1. /\ presses < MaxPresses /\ presses' = presses + 1 /\ changes' = old \cup {new}
  BY DEF Copied!Press
<1>2. /\ presses \in 0..MaxPresses /\ MaxPresses \in Nat /\ changes \subseteq ChangesOf(place)
      /\ pageCopy \in CopiesOf(place) /\ counter \in Nat
  BY VisitorsAssumption DEF CopyTypes, Copied!TypeOK, Copied!PagesAssumption
<1>3. (changes # {}) \in BOOLEAN
  OBVIOUS
<1>4. new \in ChangesOf(place)
  BY <1>2, <1>3 DEF ChangesOf
<1>5. ASSUME NEW o \in changes
      PROVE  /\ [o EXCEPT !.beside = TRUE] \in ChangesOf(place) /\ [o EXCEPT !.beside = TRUE].beside
             /\ [o EXCEPT !.beside = TRUE].kind = o.kind /\ [o EXCEPT !.beside = TRUE].set = o.set
             /\ [o EXCEPT !.beside = TRUE].was = o.was /\ [o EXCEPT !.beside = TRUE].had = o.had
             /\ [o EXCEPT !.beside = TRUE].made = o.made
  BY <1>2 DEF ChangesOf
<1>6. changes' \subseteq ChangesOf(place)
  BY <1>1, <1>4, <1>5
<1>7. presses' \in 0..MaxPresses
  BY <1>1, <1>2
<1>8. \A o \in changes' : o = new \/
         /\ o.beside
         /\ \E p \in changes : o.kind = p.kind /\ o.set = p.set /\ o.was = p.was /\ o.had = p.had /\ o.made = p.made
  <2>1. ASSUME NEW o \in old
        PROVE  /\ o.beside
               /\ \E p \in changes : o.kind = p.kind /\ o.set = p.set /\ o.was = p.was /\ o.had = p.had /\ o.made = p.made
    <3>1. PICK p \in changes : o = [p EXCEPT !.beside = TRUE]
      OBVIOUS
    <3> QED
      BY <1>5, <3>1
  <2> QED
    BY <1>1, <2>1
<1>9. \A p \in changes : \E o \in changes' : o.kind = p.kind /\ o.set = p.set /\ o.made = p.made
  BY <1>1, <1>5
<1> QED
  BY <1>1, <1>6, <1>7, <1>8, <1>9

\* A press keeps the types, whatever it does to the page.
LEMMA PressedTypes ==
    ASSUME CopyTypes, NEW kind \in KindsOf(place), NEW set \in Patches(place), Copied!Press(kind, set),
           UNCHANGED <<place, server, get, known, changeTrouble>>,
           pageCopy' \in CopiesOf(place), counter' \in Nat, unsure' \in BOOLEAN,
           place = "star" => pageCopy' = pageCopy
    PROVE  CopyTypes'
<1>1. presses' \in 0..MaxPresses /\ changes' \subseteq ChangesOf(place)
  BY PressTypes
<1>2. StarTypes'
  BY DEF CopyTypes, StarTypes
<1> QED
  BY <1>1, <1>2 DEF CopyTypes, Copied!TypeOK

\* The number is that of the code: it never falls below zero.
LEMMA MarkAsReadTypes ==
    ASSUME CopyTypes, NEW n \in Notices, Copied!MarkAsRead(n)
    PROVE  CopyTypes'
<1>1. /\ place = "notices" /\ Copied!Press("one", [m \in {n} |-> TRUE])
      /\ pageCopy' = Copied!Patched(pageCopy, [m \in {n} |-> TRUE])
      /\ counter' = (IF counter > 0 THEN counter - 1 ELSE 0)
      /\ UNCHANGED <<place, server, get, known, changeTrouble, unsure>>
  BY DEF Copied!MarkAsRead
<1>2. /\ counter \in Nat /\ unsure \in BOOLEAN /\ pageCopy \in CopiesOf(place)
  BY DEF CopyTypes, Copied!TypeOK
<1>3. "one" \in KindsOf(place) /\ [m \in {n} |-> TRUE] \in Patches(place)
  BY <1>1 DEF KindsOf, Patches
<1>4. DOMAIN pageCopy \in SUBSET Notices /\ pageCopy \in [DOMAIN pageCopy -> BOOLEAN]
  BY <1>1, <1>2, NoticeRows
<1>5. pageCopy' \in [DOMAIN pageCopy -> BOOLEAN]
  BY <1>1, <1>4 DEF Copied!Patched
<1>6. pageCopy' \in CopiesOf(place)
  BY <1>1, <1>4, <1>5, NoticeRows DEF CopiesOf
<1>7. counter' \in Nat
  BY <1>1, <1>2
<1>8. unsure' \in BOOLEAN
  BY <1>1, <1>2
<1> QED
  BY <1>1, <1>3, <1>6, <1>7, <1>8, PressedTypes

\* All lines are marked.
LEMMA MarkAllTypes == CopyTypes /\ Copied!MarkAllRead => CopyTypes'
<1> SUFFICES ASSUME CopyTypes, Copied!MarkAllRead PROVE CopyTypes'
  OBVIOUS
<1>1. /\ place = "notices" /\ Copied!Press("all", <<>>)
      /\ pageCopy' = [m \in DOMAIN pageCopy |-> TRUE] /\ counter' = 0
      /\ UNCHANGED <<place, server, get, known, changeTrouble, unsure>>
  BY DEF Copied!MarkAllRead
<1>2. unsure \in BOOLEAN /\ pageCopy \in CopiesOf(place)
  BY DEF CopyTypes, Copied!TypeOK
<1>3. "all" \in KindsOf(place) /\ <<>> \in Patches(place)
  BY <1>1 DEF KindsOf, Patches
<1>4. DOMAIN pageCopy \in SUBSET Notices
  BY <1>1, <1>2, NoticeRows
<1>5. pageCopy' \in CopiesOf(place)
  BY <1>1, <1>4, NoticeRows DEF CopiesOf
<1>6. unsure' \in BOOLEAN /\ counter' \in Nat
  BY <1>1, <1>2
<1> QED
  BY <1>1, <1>3, <1>5, <1>6, PressedTypes

\* The switches and the star are sent whole.
LEMMA SwitchTypes ==
    ASSUME CopyTypes,
           Copied!ToggleFavorite \/ (\E k \in Modules, v \in Switches : Copied!SaveModule(k, v))
    PROVE  CopyTypes'
<1>1. unsure \in BOOLEAN /\ counter \in Nat /\ pageCopy \in CopiesOf(place)
  BY DEF CopyTypes, Copied!TypeOK
<1>2. ASSUME NEW k \in Modules, NEW v \in Switches, Copied!SaveModule(k, v)
      PROVE  CopyTypes'
  <2>1. /\ place = "modules" /\ k \in DOMAIN pageCopy /\ Copied!Press("modules", [pageCopy EXCEPT ![k] = v])
        /\ pageCopy' = [pageCopy EXCEPT ![k] = v]
        /\ UNCHANGED <<place, server, get, counter, known, changeTrouble, unsure>>
    BY <1>2 DEF Copied!SaveModule
  <2>2. pageCopy \in [Modules -> Switches]
    <3>1. pageCopy # <<>>
      BY <2>1
    <3> QED
      BY <1>1, <2>1, <3>1 DEF CopiesOf, Copied!Rows
  <2>3. [pageCopy EXCEPT ![k] = v] \in [Modules -> Switches]
    BY <2>2
  <2>4. "modules" \in KindsOf(place) /\ [pageCopy EXCEPT ![k] = v] \in Patches(place) /\ pageCopy' \in CopiesOf(place)
    BY <2>1, <2>3 DEF KindsOf, Patches, CopiesOf, Copied!Rows
  <2>5. unsure' \in BOOLEAN
    BY <1>1, <2>1
  <2>6. counter' \in Nat
    BY <1>1, <2>1
  <2> QED
    BY <2>1, <2>4, <2>5, <2>6, PressedTypes
<1>3. CASE Copied!ToggleFavorite
  <2> DEFINE set == [pageCopy EXCEPT !["star"] = ~@]
  <2>1. /\ place = "star" /\ Copied!Press("star", set) /\ unsure' = (unsure \/ get.at \in {"sent", "read"})
        /\ UNCHANGED <<place, server, get, pageCopy, counter, known, changeTrouble>>
    BY <1>3 DEF Copied!ToggleFavorite
  <2>2. set \in Patches(place)
    BY <2>1 DEF CopyTypes, StarTypes, Copied!Rows, Patches
  <2>3. "star" \in KindsOf(place)
    BY <2>1 DEF KindsOf
  <2>4. unsure' \in BOOLEAN
    BY <2>1
  <2>5. counter' \in Nat /\ pageCopy' \in CopiesOf(place)
    BY <1>1, <2>1
  <2> HIDE DEF set
  <2> QED
    BY <2>1, <2>2, <2>3, <2>4, <2>5, PressedTypes
<1> QED
  BY <1>2, <1>3

\* So do what the server makes of a change, and its answer.
LEMMA AnswerTypes ==
    ASSUME CopyTypes, NEW o \in changes,
           Copied!Commit(o) \/ Copied!Answered(o) \/ Copied!Fails(o)
    PROVE  CopyTypes'
<1>1. UNCHANGED <<place, get, known, presses>>
  BY DEF Copied!Commit, Copied!Answered, Copied!Fails
<1>2. /\ place \in {"notices", "modules", "star"} /\ server \in Copied!Rows(place) /\ o \in ChangesOf(place)
      /\ pageCopy \in CopiesOf(place) /\ counter \in Nat /\ changes \subseteq ChangesOf(place)
      /\ changeTrouble \in 0..MaxTrouble /\ StarTypes
  BY DEF CopyTypes, Copied!TypeOK
<1>3. /\ o.set \in Patches(place) /\ o.was \in CopiesOf(place) /\ o.had \in Nat /\ o.made \in BOOLEAN
      /\ o.kind \in KindsOf(place)
  BY <1>2 DEF ChangesOf
<1>4. unsure \in BOOLEAN
  BY DEF CopyTypes, Copied!TypeOK
<1>t. ASSUME server' \in Copied!Rows(place), pageCopy' \in CopiesOf(place), counter' \in Nat,
             place = "star" => pageCopy' \in Copied!Rows("star"),
             changes' \subseteq ChangesOf(place), changeTrouble' \in 0..MaxTrouble, unsure' \in BOOLEAN
      PROVE  CopyTypes'
  <2>1. StarTypes'
    BY <1>1, <1>2, <1>t DEF StarTypes
  <2> QED
    BY <1>1, <1>t, <2>1 DEF CopyTypes, Copied!TypeOK
<1>s. place = "star" => pageCopy \in Copied!Rows("star")
  BY <1>2 DEF StarTypes
<1>5. CASE Copied!Commit(o)
  <2>1. /\ changes' = (changes \ {o}) \cup {[o EXCEPT !.made = TRUE]}
        /\ server' = (IF o.kind = "all" THEN [m \in DOMAIN server |-> TRUE] ELSE Copied!Patched(server, o.set))
        /\ unsure' = (unsure \/ Copied!Overtaken(o))
        /\ UNCHANGED <<pageCopy, counter, changeTrouble>>
    BY <1>5 DEF Copied!Commit
  <2>2. changes' \subseteq ChangesOf(place)
    BY <1>2, <2>1 DEF ChangesOf
  <2>3. server' \in Copied!Rows(place)
    <3>1. CASE o.kind = "all"
      <4>1. place = "notices"
        BY <1>2, <1>3, <3>1 DEF KindsOf
      <4>2. DOMAIN server \in SUBSET Notices
        BY <1>2, <4>1, NoticeRows
      <4>3. server' \in [DOMAIN server -> BOOLEAN]
        BY <2>1, <3>1
      <4> QED
        BY <4>1, <4>2, <4>3, NoticeRows
    <3>2. CASE o.kind # "all"
      BY <1>2, <1>3, <2>1, <3>2, PatchedType
    <3> QED
      BY <3>1, <3>2
  <2>4. unsure' \in BOOLEAN
    BY <1>4, <2>1 DEF Copied!Overtaken
  <2> QED
    BY <1>2, <1>s, <1>t, <2>1, <2>2, <2>3, <2>4
<1>6. CASE Copied!Answered(o)
  <2>1. /\ changes' = changes \ {o} /\ pageCopy' = (IF o.kind = "star" THEN o.set ELSE pageCopy)
        /\ UNCHANGED <<server, counter, changeTrouble, unsure>>
    BY <1>6 DEF Copied!Answered
  <2>2. o.kind = "star" => place = "star" /\ o.set \in Copied!Rows("star")
    BY <1>2, <1>3 DEF KindsOf, Patches
  <2>3. pageCopy' \in CopiesOf(place) /\ (place = "star" => pageCopy' \in Copied!Rows("star"))
    BY <1>2, <1>s, <2>1, <2>2 DEF CopiesOf
  <2>4. unsure' \in BOOLEAN
    BY <1>4, <2>1
  <2> QED
    BY <1>2, <1>t, <2>1, <2>3, <2>4
<1>7. CASE Copied!Fails(o)
  <2>1. /\ changes' = changes \ {o} /\ pageCopy' = (IF o.kind \in {"one", "modules"} THEN o.was ELSE pageCopy)
        /\ counter' = (CASE o.kind = "one" -> counter + 1 [] o.kind = "all" -> o.had [] OTHER -> counter)
        /\ changeTrouble < MaxTrouble /\ changeTrouble' = changeTrouble + 1 /\ UNCHANGED server
    BY <1>7 DEF Copied!Fails
  <2>2. unsure' = (o.made \/ Copied!Doubt(o))
    BY <1>7 DEF Copied!Fails
  <2>3. unsure' \in BOOLEAN
    BY <2>2
  <2>4. place = "star" => o.kind \notin {"one", "modules"}
    BY <1>3 DEF KindsOf
  <2>5. pageCopy' \in CopiesOf(place) /\ (place = "star" => pageCopy' \in Copied!Rows("star"))
    BY <1>2, <1>3, <1>s, <2>1, <2>4
  <2>6. counter' \in Nat
    BY <1>2, <1>3, <2>1
  <2>7. changeTrouble' \in 0..MaxTrouble
    BY <1>2, <2>1, VisitorsAssumption DEF Copied!PagesAssumption
  <2>8. changes' \subseteq ChangesOf(place) /\ server' \in Copied!Rows(place)
    BY <1>2, <2>1
  <2> QED
    BY <1>t, <2>3, <2>5, <2>6, <2>7, <2>8
<1> QED
  BY <1>5, <1>6, <1>7

\* A change that starts when none is under way is then the only one.
LEMMA LonePress ==
    ASSUME NEW kind, NEW set, Copied!Press(kind, set), changes = {}
    PROVE  changes' = {[id |-> presses, kind |-> kind, set |-> set, was |-> pageCopy, had |-> counter,
                        made |-> FALSE, beside |-> FALSE]}
  BY DEF Copied!Press

\* A change that is made replaces itself.
LEMMA MadeChange ==
    ASSUME CopyTypes, NEW o \in changes, Copied!Commit(o)
    PROVE  \E q \in ChangesOf(place) :
              /\ changes' = (changes \ {o}) \cup {q}
              /\ q.kind = o.kind /\ q.set = o.set /\ q.was = o.was /\ q.had = o.had /\ q.beside = o.beside /\ q.made
              /\ q.id = o.id
<1>1. changes' = (changes \ {o}) \cup {[o EXCEPT !.made = TRUE]} /\ o \in ChangesOf(place)
  BY DEF Copied!Commit, CopyTypes
<1>2. [o EXCEPT !.made = TRUE] \in ChangesOf(place)
  BY <1>1 DEF ChangesOf
<1>3. LET q == [o EXCEPT !.made = TRUE] IN
        /\ q.kind = o.kind /\ q.set = o.set /\ q.was = o.was /\ q.had = o.had /\ q.beside = o.beside /\ q.made
        /\ q.id = o.id
  BY <1>1 DEF ChangesOf
<1> QED
  BY <1>1, <1>2, <1>3

\* Whoever starts a change next to another one says so on both.
LEMMA AloneKept == CopyTypes /\ Alone /\ Copied!Next => Alone'
<1> SUFFICES ASSUME CopyTypes, Alone, Copied!Next PROVE Alone'
  OBVIOUS
<1>1. ASSUME NEW kind \in KindsOf(place), NEW set \in Patches(place), Copied!Press(kind, set)
      PROVE  Alone'
  <2> DEFINE new == [id |-> presses, kind |-> kind, set |-> set, was |-> pageCopy, had |-> counter,
                     made |-> FALSE, beside |-> changes # {}]
  <2>1. /\ new \in changes'
        /\ \A o \in changes' : o = new \/ (o.beside /\ \E q \in changes : o.kind = q.kind)
    BY <1>1, PressTypes
  <2>2. new.beside = (changes # {})
    OBVIOUS
  <2> HIDE DEF new
  <2> QED
    BY <2>1, <2>2 DEF Alone
<1>2. ASSUME NEW o \in changes, Copied!Commit(o)
      PROVE  Alone'
  <2>1. PICK q \in ChangesOf(place) : changes' = (changes \ {o}) \cup {q} /\ q.beside = o.beside
    BY <1>2, MadeChange
  <2> QED
    BY <2>1 DEF Alone
<1>3. ASSUME NEW o \in changes, Copied!Answered(o) \/ Copied!Fails(o)
      PROVE  Alone'
  <2>1. changes' = changes \ {o}
    BY <1>3 DEF Copied!Answered, Copied!Fails
  <2> QED
    BY <2>1 DEF Alone
<1>4. ASSUME UNCHANGED changes
      PROVE  Alone'
  BY <1>4 DEF Alone
<1>5. ASSUME NEW n \in Notices, Copied!MarkAsRead(n)
      PROVE  Alone'
  <2>1. place = "notices" /\ Copied!Press("one", [m \in {n} |-> TRUE])
    BY <1>5 DEF Copied!MarkAsRead
  <2>2. "one" \in KindsOf(place) /\ [m \in {n} |-> TRUE] \in Patches(place)
    BY <2>1 DEF KindsOf, Patches
  <2> QED
    BY <1>1, <2>1, <2>2
<1>6. CASE Copied!MarkAllRead
  <2>1. place = "notices" /\ Copied!Press("all", <<>>)
    BY <1>6 DEF Copied!MarkAllRead
  <2>2. "all" \in KindsOf(place) /\ <<>> \in Patches(place)
    BY <2>1 DEF KindsOf, Patches
  <2> QED
    BY <1>1, <2>1, <2>2
<1>7. ASSUME NEW k \in Modules, NEW v \in Switches, Copied!SaveModule(k, v)
      PROVE  Alone'
  <2>1. /\ place = "modules" /\ k \in DOMAIN pageCopy /\ Copied!Press("modules", [pageCopy EXCEPT ![k] = v])
    BY <1>7 DEF Copied!SaveModule
  <2>2. "modules" \in KindsOf(place) /\ [pageCopy EXCEPT ![k] = v] \in Patches(place)
    <3>1. pageCopy # <<>> /\ pageCopy \in CopiesOf(place)
      BY <2>1 DEF CopyTypes
    <3>2. pageCopy \in [Modules -> Switches]
      BY <2>1, <3>1 DEF CopiesOf, Copied!Rows
    <3> QED
      BY <2>1, <3>2 DEF KindsOf, Patches, Copied!Rows
  <2> QED
    BY <1>1, <2>1, <2>2
<1>8. CASE Copied!ToggleFavorite
  <2>1. changes = {} /\ Copied!Press("star", [pageCopy EXCEPT !["star"] = ~@])
    BY <1>8 DEF Copied!ToggleFavorite
  <2>2. \A p, q \in changes' : p = q
    BY <2>1 DEF Copied!Press
  <2> QED
    BY <2>2 DEF Alone
<1>9. CASE Copied!ReadList \/ Copied!CountUnread \/ Copied!Loaded \/ Copied!LoadFails
           \/ (\E n \in Notices : Copied!Arrives(n))
  BY <1>4, <1>9 DEF Copied!ReadList, Copied!CountUnread, Copied!Loaded, Copied!LoadFails, Copied!Arrives
<1> QED
  BY <1>2, <1>3, <1>5, <1>6, <1>7, <1>8, <1>9 DEF Copied!Next

\* A change that fails leaves no doubt only if it was not made and was alone.
LEMMA SureFailure ==
    ASSUME CopyTypes, Alone, NEW o \in changes, Copied!Fails(o), ~unsure'
    PROVE  ~unsure /\ ~o.made /\ ~o.beside /\ changes = {o} /\ changes' = {}
<1>1. ~(o.made \/ Copied!Doubt(o)) /\ changes' = changes \ {o}
  BY DEF Copied!Fails
<1>2. ~o.made /\ ~unsure /\ ~o.beside
  BY <1>1 DEF Copied!Doubt
<1>3. changes = {o}
  BY <1>2 DEF Alone
<1> QED
  BY <1>1, <1>2, <1>3

\* A step that leaves no doubt finds none.
LEMMA DoubtStays == Copied!Next /\ ~unsure' => ~unsure
  BY DEF Copied!Next, Copied!Arrives, Copied!MarkAsRead, Copied!ReadList, Copied!CountUnread, Copied!Loaded,
         Copied!LoadFails, Copied!MarkAllRead, Copied!ToggleFavorite, Copied!SaveModule, Copied!Commit,
         Copied!Answered, Copied!Fails, Copied!Doubt

\* A change of the whole copy replaces it.
LEMMA WholeChange ==
    ASSUME NEW s \in {"modules", "star"}, NEW f \in Copied!Rows(s), NEW g \in Copied!Rows(s)
    PROVE  Copied!Patched(f, g) = g
  BY DEF Copied!Rows, Copied!Patched

\* The switches of the public profile (saveModule).
LEMMA ModulesKept ==
    CopyTypes /\ Alone /\ ModulesInv /\ Copied!Next => ModulesInv'
<1> SUFFICES ASSUME CopyTypes, Alone, ModulesInv, Copied!Next, place' = "modules", ~unsure'
             PROVE  ModulesInv'
  BY DEF ModulesInv
<1>1. place = "modules" /\ ~unsure
  <2>1. UNCHANGED place
    BY DEF Copied!Next, Copied!Arrives, Copied!MarkAsRead, Copied!ReadList, Copied!CountUnread, Copied!Loaded,
           Copied!LoadFails, Copied!MarkAllRead, Copied!ToggleFavorite, Copied!SaveModule, Copied!Commit,
           Copied!Answered, Copied!Fails
  <2> QED
    BY <2>1, DoubtStays
<1>2. /\ \A o \in changes : o.id < presses
      /\ get.at # "over" => changes = {} /\ pageCopy = <<>>
      /\ get.at = "read" => get.list = server
      /\ get.at = "over" => pageCopy \in Copied!Rows("modules")
      /\ get.at = "over" => pageCopy = server \/ \E o \in changes : IsNewest(o) /\ ~o.made
      /\ \A o \in changes : IsNewest(o) => pageCopy = o.set
      /\ \A o \in changes : ~o.beside /\ ~o.made => server = o.was
  BY <1>1 DEF ModulesInv
<1>3. /\ server \in Copied!Rows("modules") /\ get \in GetsOf("modules") /\ get.at # "list"
      /\ changes \subseteq ChangesOf("modules") /\ pageCopy \in CopiesOf("modules") /\ presses \in Nat
  BY <1>1, VisitorsAssumption DEF CopyTypes, Copied!TypeOK, Copied!PagesAssumption
<1>4. \A o \in changes : o.set \in Copied!Rows("modules") /\ o.kind = "modules" /\ o.id \in Nat
  BY <1>3 DEF ChangesOf, Patches, KindsOf
<1>5. CASE Copied!ReadList
  <2>1. get' = [get EXCEPT !.at = "read", !.list = server] /\ get.at = "sent"
        /\ UNCHANGED <<server, pageCopy, changes>>
    BY <1>1, <1>5 DEF Copied!ReadList
  <2>2. get'.at = "read" /\ get'.list = server
    BY <1>3, <2>1 DEF GetsOf
  <2> QED
    BY <1>2, <2>1, <2>2 DEF ModulesInv
<1>6. CASE Copied!Loaded
  <2>1. get.at = "read" /\ get' = [get EXCEPT !.at = "over"] /\ pageCopy' = get.list /\ UNCHANGED <<server, changes>>
    BY <1>6 DEF Copied!Loaded
  <2>2. get'.at = "over" /\ pageCopy' = server /\ changes = {}
    BY <1>2, <1>3, <2>1 DEF GetsOf
  <2> QED
    BY <1>3, <2>1, <2>2 DEF ModulesInv
<1>7. CASE Copied!LoadFails
  <2>1. get.at # "over" /\ get' = [get EXCEPT !.at = "failed"] /\ UNCHANGED <<server, pageCopy, changes>>
    BY <1>7 DEF Copied!LoadFails
  <2>2. get'.at = "failed"
    BY <1>3, <2>1 DEF GetsOf
  <2> QED
    BY <1>2, <2>1, <2>2 DEF ModulesInv
<1>8. ASSUME NEW k \in Modules, NEW v \in Switches, Copied!SaveModule(k, v)
      PROVE  ModulesInv'
  <2> DEFINE new == [id |-> presses, kind |-> "modules", set |-> pageCopy', was |-> pageCopy, had |-> counter,
                     made |-> FALSE, beside |-> changes # {}]
  <2>1. /\ k \in DOMAIN pageCopy /\ Copied!Press("modules", pageCopy')
        /\ pageCopy' = [pageCopy EXCEPT ![k] = v] /\ UNCHANGED <<server, get>>
    BY <1>8 DEF Copied!SaveModule
  <2>2. pageCopy # <<>> /\ get.at = "over"
    <3>1. pageCopy # <<>>
      BY <2>1
    <3> QED
      BY <1>2, <3>1
  <2>3. pageCopy' \in Copied!Rows("modules")
    BY <1>2, <2>1, <2>2 DEF Copied!Rows
  <2>4. presses' = presses + 1 /\ changes' = {[o EXCEPT !.beside = TRUE] : o \in changes} \cup {new}
    BY <2>1 DEF Copied!Press
  <2>5. \A o \in changes' : o = new \/ (o.beside /\ o.id \in Nat /\ o.id < presses)
    <3> SUFFICES ASSUME NEW o \in changes', o # new
                 PROVE  o.beside /\ o.id \in Nat /\ o.id < presses
      OBVIOUS
    <3>1. PICK q \in changes : o = [q EXCEPT !.beside = TRUE]
      BY <2>4
    <3>2. q \in ChangesOf("modules") /\ q.id \in Nat /\ q.id < presses
      BY <1>2, <1>3, <1>4
    <3> QED
      BY <3>1, <3>2 DEF ChangesOf
  <2>6. /\ new \in changes' /\ new.id = presses /\ new.set = pageCopy' /\ new.was = pageCopy
        /\ ~new.made /\ new.beside = (changes # {})
    BY <2>4
  <2> HIDE DEF new
  <2>7. \A o \in changes' : o.id < presses'
    BY <1>3, <2>4, <2>5, <2>6
  <2>8. new.id = presses' - 1 /\ \A o \in changes' : o.id = presses' - 1 => o = new
    BY <1>3, <2>4, <2>5, <2>6 DEF IsNewest
  <2>9. \A o \in changes' : ~o.beside /\ ~o.made => server' = o.was
    <3> SUFFICES ASSUME NEW o \in changes', ~o.beside PROVE server' = o.was
      OBVIOUS
    <3>1. o = new /\ changes = {}
      BY <2>5, <2>6
    <3> QED
      BY <1>2, <2>1, <2>2, <2>6, <3>1
  <2>10. get'.at = "over"
    BY <2>1, <2>2
  <2> QED
    BY <2>3, <2>6, <2>7, <2>8, <2>9, <2>10 DEF ModulesInv, IsNewest
<1>9. ASSUME NEW o \in changes, Copied!Commit(o)
      PROVE  ModulesInv'
  <2>1. PICK q \in ChangesOf(place) :
           changes' = (changes \ {o}) \cup {q} /\ q.id = o.id /\ q.set = o.set /\ q.beside = o.beside /\ q.made
    BY <1>9, MadeChange
  <2>2. server' = Copied!Patched(server, o.set) /\ UNCHANGED <<get, pageCopy, presses>> /\ ~o.made
    BY <1>4, <1>9 DEF Copied!Commit
  <2>3. server' = o.set
    BY <1>3, <1>4, <2>2, WholeChange
  <2>4. get.at = "over"
    BY <1>2
  <2>5. pageCopy = server' \/ \E p \in changes' : IsNewest(p) /\ ~p.made
    <3>1. CASE IsNewest(o)
      BY <1>2, <2>3, <3>1
    <3>2. CASE ~IsNewest(o)
      <4>1. presses - 1 \in o.id + 1 .. presses - 1
        BY <1>2, <1>3, <1>4, <3>2 DEF IsNewest
      <4>2. ~Copied!Overtaken(o)
        <5>1. unsure' = (unsure \/ Copied!Overtaken(o))
          BY <1>9 DEF Copied!Commit
        <5> QED
          BY <5>1
      <4>3. PICK p \in changes : p.id = presses - 1 /\ ~p.made
        BY <1>4, <4>1, <4>2 DEF Copied!Overtaken
      <4> QED
        BY <2>1, <3>2, <4>3 DEF IsNewest
    <3> QED
      BY <3>1, <3>2
  <2>6. \A p \in changes' : p.id < presses' /\ (IsNewest(p)' => pageCopy' = p.set)
    BY <1>2, <2>1, <2>2 DEF IsNewest
  <2>7. \A p \in changes' : p.beside \/ p.made
    <3> SUFFICES ASSUME NEW p \in changes', p # q PROVE p.beside
      BY <2>1
    <3>1. p \in changes /\ p # o
      BY <2>1
    <3> QED
      BY <3>1 DEF Alone
  <2>8. (\E p \in changes' : IsNewest(p) /\ ~p.made) => \E p \in changes' : IsNewest(p)' /\ ~p.made
    BY <2>2 DEF IsNewest
  <2> QED
    BY <1>2, <2>2, <2>4, <2>5, <2>6, <2>7, <2>8 DEF ModulesInv
<1>10. ASSUME NEW o \in changes, Copied!Answered(o)
       PROVE  ModulesInv'
  <2>1. o.made /\ changes' = changes \ {o} /\ UNCHANGED <<get, server, pageCopy, presses>>
    BY <1>4, <1>10 DEF Copied!Answered
  <2> QED
    BY <1>2, <2>1 DEF ModulesInv, IsNewest
<1>11. ASSUME NEW o \in changes, Copied!Fails(o)
       PROVE  ModulesInv'
  <2>1. ~o.made /\ ~o.beside /\ changes' = {}
    BY <1>11, SureFailure
  <2>2. pageCopy' = o.was /\ UNCHANGED <<get, server>>
    BY <1>4, <1>11 DEF Copied!Fails
  <2> QED
    BY <1>2, <1>3, <2>1, <2>2 DEF ModulesInv
<1> QED
  BY <1>1, <1>3, <1>5, <1>6, <1>7, <1>8, <1>9, <1>10, <1>11
  DEF Copied!Next, Copied!Arrives, Copied!MarkAsRead, Copied!MarkAllRead, Copied!ToggleFavorite, Copied!CountUnread

\* The star of a problem (toggleFavorite).
LEMMA StarKept ==
    CopyTypes /\ Alone /\ StarInv /\ Copied!Next => StarInv'
<1> SUFFICES ASSUME CopyTypes, Alone, StarInv, Copied!Next, place' = "star", ~unsure'
             PROVE  StarInv'
  BY DEF StarInv
<1>1. place = "star" /\ ~unsure
  <2>1. UNCHANGED place
    BY DEF Copied!Next, Copied!Arrives, Copied!MarkAsRead, Copied!ReadList, Copied!CountUnread, Copied!Loaded,
           Copied!LoadFails, Copied!MarkAllRead, Copied!ToggleFavorite, Copied!SaveModule, Copied!Commit,
           Copied!Answered, Copied!Fails
  <2> QED
    BY <2>1, DoubtStays
<1>2. /\ \A o, p \in changes : o = p
      /\ get.at \in {"sent", "read"} => changes = {}
      /\ get.at = "read" => get.list = server
      /\ get.at = "over" => (changes = {} => pageCopy = server)
      /\ get.at = "over" => \A o \in changes : server = IF o.made THEN o.set ELSE pageCopy
  BY <1>1 DEF StarInv
<1>3. /\ server \in Copied!Rows("star") /\ get \in GetsOf("star") /\ get.at # "list"
      /\ changes \subseteq ChangesOf("star") /\ pageCopy \in Copied!Rows("star")
  BY <1>1 DEF CopyTypes, Copied!TypeOK, StarTypes
<1>4. \A o \in changes : o.set \in Copied!Rows("star") /\ o.kind = "star"
  BY <1>3 DEF ChangesOf, Patches, KindsOf
<1>5. CASE Copied!ReadList
  <2>1. get' = [get EXCEPT !.at = "read", !.list = server] /\ get.at = "sent"
        /\ UNCHANGED <<server, pageCopy, changes>>
    BY <1>1, <1>5 DEF Copied!ReadList
  <2>2. get'.at = "read" /\ get'.list = server
    BY <1>3, <2>1 DEF GetsOf
  <2> QED
    BY <1>2, <2>1, <2>2 DEF StarInv
<1>6. CASE Copied!Loaded
  <2>1. get.at = "read" /\ get' = [get EXCEPT !.at = "over"] /\ pageCopy' = get.list /\ UNCHANGED <<server, changes>>
    BY <1>6 DEF Copied!Loaded
  <2>2. get'.at = "over" /\ pageCopy' = server /\ changes = {}
    BY <1>2, <1>3, <2>1 DEF GetsOf
  <2> QED
    BY <1>3, <2>1, <2>2 DEF StarInv
<1>7. CASE Copied!LoadFails
  <2>1. get.at # "over" /\ get' = [get EXCEPT !.at = "failed"] /\ UNCHANGED <<server, pageCopy, changes>>
    BY <1>7 DEF Copied!LoadFails
  <2>2. get'.at = "failed"
    BY <1>3, <2>1 DEF GetsOf
  <2> QED
    BY <1>2, <2>1, <2>2 DEF StarInv
<1>8. CASE Copied!ToggleFavorite
  <2>1. /\ changes = {} /\ Copied!Press("star", [pageCopy EXCEPT !["star"] = ~@])
        /\ UNCHANGED <<server, get, pageCopy>>
    BY <1>8 DEF Copied!ToggleFavorite
  <2>2. get.at \notin {"sent", "read"}
    <3>1. unsure' = (unsure \/ get.at \in {"sent", "read"})
      BY <1>8 DEF Copied!ToggleFavorite
    <3> QED
      BY <3>1
  <2>3. changes' = {[id |-> presses, kind |-> "star", set |-> [pageCopy EXCEPT !["star"] = ~@], was |-> pageCopy,
                     had |-> counter, made |-> FALSE, beside |-> FALSE]}
    BY <2>1, LonePress
  <2>4. (\A o, p \in changes' : o = p) /\ (\A o \in changes' : ~o.made) /\ changes' # {}
    BY <2>3
  <2> QED
    BY <1>2, <2>1, <2>2, <2>4 DEF StarInv
<1>9. ASSUME NEW o \in changes, Copied!Commit(o)
      PROVE  StarInv'
  <2>1. PICK q \in ChangesOf(place) : changes' = (changes \ {o}) \cup {q} /\ q.set = o.set /\ q.made
    BY <1>9, MadeChange
  <2>2. changes' = {q}
    BY <1>2, <2>1
  <2>3. server' = Copied!Patched(server, o.set) /\ UNCHANGED <<get, pageCopy>>
    BY <1>4, <1>9 DEF Copied!Commit
  <2>4. server' = o.set
    BY <1>3, <1>4, <2>3, WholeChange
  <2> QED
    BY <1>2, <2>1, <2>2, <2>3, <2>4 DEF StarInv
<1>10. ASSUME NEW o \in changes, Copied!Answered(o)
       PROVE  StarInv'
  <2>1. o.made /\ changes' = {} /\ pageCopy' = o.set /\ UNCHANGED <<get, server>>
    BY <1>2, <1>4, <1>10 DEF Copied!Answered
  <2> QED
    BY <1>2, <2>1 DEF StarInv
<1>11. ASSUME NEW o \in changes, Copied!Fails(o)
       PROVE  StarInv'
  <2>1. ~o.made /\ changes' = {}
    BY <1>11, SureFailure
  <2>2. UNCHANGED <<get, server, pageCopy>>
    BY <1>4, <1>11 DEF Copied!Fails
  <2> QED
    BY <1>2, <1>3, <2>1, <2>2 DEF StarInv
<1> QED
  BY <1>1, <1>3, <1>5, <1>6, <1>7, <1>8, <1>9, <1>10, <1>11
  DEF Copied!Next, Copied!Arrives, Copied!MarkAsRead, Copied!MarkAllRead, Copied!SaveModule, Copied!CountUnread

\* What is known of the notices when there is no doubt.
LEMMA NoticesKnown ==
    ASSUME CopyTypes, NoticesInv, place = "notices", ~unsure
    PROVE  /\ NoticesBefore /\ NoticesAfter /\ NoticesBack
           /\ DOMAIN server \in SUBSET Notices /\ server \in [DOMAIN server -> BOOLEAN]
           /\ DOMAIN pageCopy \in SUBSET Notices /\ pageCopy \in [DOMAIN pageCopy -> BOOLEAN]
           /\ get \in GetsOf("notices") /\ changes \subseteq ChangesOf("notices")
           /\ counter \in Nat /\ known \in SUBSET Notices
           /\ Copied!Unread(server) \in SUBSET Notices /\ Counted \in SUBSET Notices
<1>1. /\ server \in Copied!Rows("notices") /\ pageCopy \in CopiesOf("notices") /\ get \in GetsOf("notices")
      /\ changes \subseteq ChangesOf("notices") /\ counter \in Nat /\ known \in SUBSET Notices
  BY DEF CopyTypes, Copied!TypeOK
<1>2. /\ DOMAIN server \in SUBSET Notices /\ server \in [DOMAIN server -> BOOLEAN]
      /\ DOMAIN pageCopy \in SUBSET Notices /\ pageCopy \in [DOMAIN pageCopy -> BOOLEAN]
  BY <1>1, NoticeRows
<1>3. Copied!Unread(server) \in SUBSET Notices /\ Counted \in SUBSET Notices
  BY <1>1, <1>2 DEF Copied!Unread, Counted
<1> QED
  BY <1>1, <1>2, <1>3 DEF NoticesInv

\* The page asks, the server reads and counts, the page takes it (the GET of notifications.ts).
LEMMA NoticesLoaded ==
    ASSUME CopyTypes, NoticesInv, place = "notices", ~unsure,
           Copied!ReadList \/ Copied!CountUnread \/ Copied!Loaded \/ Copied!LoadFails
    PROVE  NoticesInv'
<1>1. /\ NoticesBefore /\ NoticesAfter /\ NoticesBack
      /\ DOMAIN server \in SUBSET Notices /\ server \in [DOMAIN server -> BOOLEAN]
      /\ get \in GetsOf("notices") /\ Copied!Unread(server) \in SUBSET Notices
  BY NoticesKnown
<1>2. UNCHANGED <<place, server, changes, unsure>> /\ get.at # "over" /\ get.at \in Stages
  BY <1>1 DEF Copied!ReadList, Copied!CountUnread, Copied!Loaded, Copied!LoadFails, GetsOf
<1>3. changes = {} /\ pageCopy = <<>> /\ counter = 0
  BY <1>1, <1>2 DEF NoticesBefore
<1>4. NoticesBack'
  BY <1>2, <1>3 DEF NoticesBack
<1>b. ASSUME get'.at # "over", UNCHANGED <<pageCopy, counter>>,
             get'.at \in {"list", "read"} =>
                \A n \in DOMAIN get'.list : n \in DOMAIN server /\ get'.list[n] = server[n],
             get'.at = "read" =>
                DOMAIN get'.list \subseteq get'.known /\ get'.known \subseteq DOMAIN server
                /\ get'.count = Copied!Unread(server) \cap get'.known
      PROVE  NoticesInv'
  <2>1. NoticesAfter'
    BY <1>b DEF NoticesAfter
  <2>2. NoticesBefore'
    BY <1>b, <1>2, <1>3 DEF NoticesBefore, Copied!Unread
  <2> QED
    BY <1>4, <2>1, <2>2 DEF NoticesInv
<1>5. CASE Copied!ReadList
  <2>1. /\ get' = [get EXCEPT !.at = "list", !.list = Copied!Restrict(server, Copied!Newest(server))]
        /\ UNCHANGED <<pageCopy, counter>>
    BY <1>5 DEF Copied!ReadList
  <2>2. get'.at = "list" /\ get'.list = Copied!Restrict(server, Copied!Newest(server))
    BY <1>1, <2>1 DEF GetsOf
  <2>3. \A n \in DOMAIN get'.list : n \in DOMAIN server /\ get'.list[n] = server[n]
    BY <2>2 DEF Copied!Restrict, Copied!Newest
  <2> QED
    BY <1>b, <2>1, <2>2, <2>3
<1>6. CASE Copied!CountUnread
  <2>1. /\ get' = [get EXCEPT !.at = "read", !.count = Copied!Unread(server), !.known = DOMAIN server]
        /\ get.at = "list" /\ UNCHANGED <<pageCopy, counter>>
    BY <1>6 DEF Copied!CountUnread
  <2>2. /\ get'.at = "read" /\ get'.list = get.list /\ get'.count = Copied!Unread(server)
        /\ get'.known = DOMAIN server
    BY <1>1, <2>1 DEF GetsOf
  <2>3. \A n \in DOMAIN get'.list : n \in DOMAIN server /\ get'.list[n] = server[n]
    BY <1>1, <2>1, <2>2 DEF NoticesBefore
  <2>4. Copied!Unread(server) = Copied!Unread(server) \cap DOMAIN server
    BY DEF Copied!Unread
  <2> QED
    BY <1>b, <2>1, <2>2, <2>3, <2>4
<1>7. CASE Copied!LoadFails
  <2>1. get' = [get EXCEPT !.at = "failed"] /\ UNCHANGED <<pageCopy, counter>>
    BY <1>7 DEF Copied!LoadFails
  <2>2. get'.at = "failed"
    BY <1>1, <2>1 DEF GetsOf
  <2> QED
    BY <1>b, <2>1, <2>2
<1>8. CASE Copied!Loaded
  <2>1. /\ get.at = "read" /\ get' = [get EXCEPT !.at = "over"] /\ pageCopy' = get.list
        /\ counter' = Copied!Cardinality(get.count) /\ known' = get.known
    BY <1>8 DEF Copied!Loaded
  <2>2. get'.at = "over" /\ get.count \in SUBSET Notices
    BY <1>1, <2>1 DEF GetsOf
  <2>3. /\ \A n \in DOMAIN get.list : n \in DOMAIN server /\ get.list[n] = server[n]
        /\ DOMAIN get.list \subseteq get.known /\ get.known \subseteq DOMAIN server
        /\ get.count = Copied!Unread(server) \cap get.known
    BY <1>1, <2>1 DEF NoticesBefore
  <2>4. Counted' = get.count
    BY <1>2, <1>3, <2>1, <2>3 DEF Counted, Covered, Copied!Unread
  <2>5. counter' = Cardinality(Counted')
    <3>1. PICK S \in SUBSET Notices : S = get.count
      BY <2>2
    <3> QED
      BY <2>1, <2>4, <3>1, NoticesFinite
  <2>6. \A n \in DOMAIN pageCopy' : ~pageCopy'[n] => n \in Counted'
    BY <2>1, <2>3, <2>4 DEF Copied!Unread
  <2>7. \A n \in DOMAIN pageCopy' : pageCopy'[n] => server'[n]
    BY <1>2, <2>1, <2>3
  <2>8. NoticesAfter'
    BY <1>2, <1>3, <2>1, <2>3, <2>5, <2>6, <2>7 DEF NoticesAfter
  <2>9. NoticesBefore'
    BY <2>2 DEF NoticesBefore
  <2> QED
    BY <1>4, <2>8, <2>9 DEF NoticesInv
<1> QED
  BY <1>5, <1>6, <1>7, <1>8

\* A new notice is on no list and in no number yet (POST /api/admin/notifications).
LEMMA NoticesArrive ==
    ASSUME CopyTypes, NoticesInv, place = "notices", ~unsure, NEW n \in Notices, Copied!Arrives(n)
    PROVE  NoticesInv'
<1>1. /\ NoticesBefore /\ NoticesAfter /\ NoticesBack
      /\ DOMAIN server \in SUBSET Notices /\ server \in [DOMAIN server -> BOOLEAN]
      /\ get \in GetsOf("notices")
  BY NoticesKnown
<1>2. /\ \A m \in DOMAIN server : m < n
      /\ server' = [m \in DOMAIN server \cup {n} |-> IF m = n THEN FALSE ELSE server[m]]
      /\ UNCHANGED <<place, get, pageCopy, counter, known, changes, unsure>>
  BY DEF Copied!Arrives
<1>3. n \notin DOMAIN server
  <2>1. n \in Nat
    BY VisitorsAssumption DEF Copied!PagesAssumption
  <2> QED
    BY <1>2, <2>1
<1>4. /\ DOMAIN server' = DOMAIN server \cup {n} /\ \A m \in DOMAIN server : server'[m] = server[m]
      /\ Copied!Unread(server') = Copied!Unread(server) \cup {n}
  BY <1>2, <1>3 DEF Copied!Unread
<1>5. \A m : Covered(m)' <=> Covered(m)
  BY <1>2 DEF Covered
<1>6. NoticesBefore'
  <2>1. /\ get.at # "over" => changes = {} /\ pageCopy = <<>> /\ counter = 0
        /\ get.at \in {"list", "read"} =>
              \A m \in DOMAIN get.list : m \in DOMAIN server' /\ get.list[m] = server'[m]
    BY <1>1, <1>4 DEF NoticesBefore
  <2>2. get.at = "read" =>
          DOMAIN get.list \subseteq get.known /\ get.known \subseteq DOMAIN server'
          /\ get.count = Copied!Unread(server') \cap get.known
    BY <1>1, <1>3, <1>4 DEF NoticesBefore
  <2>3. Copied!Unread(server)' = Copied!Unread(server')
    BY DEF Copied!Unread
  <2> QED
    BY <1>2, <2>1, <2>2, <2>3 DEF NoticesBefore
<1>7. NoticesAfter'
  <2> SUFFICES ASSUME get.at = "over" PROVE NoticesAfter'
    BY <1>2 DEF NoticesAfter
  <2>1. /\ DOMAIN pageCopy \subseteq known /\ known \subseteq DOMAIN server
        /\ counter = Cardinality(Counted)
        /\ \A m \in DOMAIN pageCopy : ~pageCopy[m] => m \in Counted
        /\ AllMarked \/ \A m \in DOMAIN pageCopy : pageCopy[m] => server[m] \/ Covered(m)
        /\ \A o \in changes : o.kind = "all" => AllMarked
    BY <1>1 DEF NoticesAfter
  <2>2. Counted' = Counted
    BY <1>2, <1>3, <1>4, <1>5, <2>1 DEF Counted, Copied!Unread
  <2>3. AllMarked' <=> AllMarked
    BY <1>2 DEF AllMarked
  <2>4. AllMarked' \/ \A m \in DOMAIN pageCopy : pageCopy[m] => server'[m] \/ Covered(m)'
    BY <1>4, <1>5, <2>1, <2>3
  <2> QED
    BY <1>2, <1>4, <2>1, <2>2, <2>3, <2>4 DEF NoticesAfter
<1>8. NoticesBack'
  <2> SUFFICES ASSUME NEW o \in changes, ~o.beside, ~o.made
               PROVE  /\ o.kind = "one" =>
                            /\ DOMAIN o.was = DOMAIN pageCopy
                            /\ \A m \in DOMAIN o.was : o.was[m] => server'[m]
                            /\ \A m \in DOMAIN o.was : ~o.was[m] => m \in Copied!Unread(server')
                            /\ \E m \in Copied!Unread(server') \cap known : DOMAIN o.set = {m}
                      /\ o.kind = "all" => o.had = Cardinality(Copied!Unread(server') \cap known)
    BY <1>2 DEF NoticesBack, Copied!Unread
  <2>1. /\ o.kind = "one" =>
              /\ DOMAIN o.was = DOMAIN pageCopy
              /\ \A m \in DOMAIN o.was : o.was[m] => server[m]
              /\ \A m \in DOMAIN o.was : ~o.was[m] => m \in Copied!Unread(server)
              /\ \E m \in Copied!Unread(server) \cap known : DOMAIN o.set = {m}
        /\ o.kind = "all" => o.had = Cardinality(Copied!Unread(server) \cap known)
    BY <1>1 DEF NoticesBack
  <2>2. get.at = "over"
    BY <1>1 DEF NoticesBefore
  <2>3. DOMAIN pageCopy \subseteq known /\ known \subseteq DOMAIN server
    BY <1>1, <2>2 DEF NoticesAfter
  <2>4. Copied!Unread(server') \cap known = Copied!Unread(server) \cap known
    BY <1>3, <1>4, <2>3
  <2> QED
    BY <1>4, <2>1, <2>3, <2>4
<1> QED
  BY <1>6, <1>7, <1>8 DEF NoticesInv

\* A finite set loses a member, and is counted so.
LEMMA OneFewer ==
    ASSUME NEW S \in SUBSET Notices, NEW n \in S
    PROVE  Cardinality(S) = Cardinality(S \ {n}) + 1 /\ Cardinality(S) > 0
<1>1. IsFiniteSet(S) /\ Cardinality(S) \in Nat
  BY NoticesFinite
<1>2. S \ {n} \in SUBSET Notices
  OBVIOUS
<1>3. Cardinality(S \ {n}) \in Nat
  BY <1>2, NoticesFinite
<1>4. Cardinality(S \ {n}) = Cardinality(S) - 1
  BY <1>1, FS_RemoveElement
<1> QED
  BY <1>1, <1>3, <1>4

\* The change a press starts; the others are overlapped from then on.
LEMMA PressNew ==
    ASSUME CopyTypes, NEW kind \in KindsOf(place), NEW set \in Patches(place), Copied!Press(kind, set)
    PROVE  \E new \in changes' :
              /\ new.kind = kind /\ new.set = set /\ new.was = pageCopy /\ new.had = counter
              /\ ~new.made /\ (new.beside <=> changes # {})
              /\ \A o \in changes' : o = new \/ (o.beside /\ \E q \in changes : o.kind = q.kind)
<1> DEFINE new == [id |-> presses, kind |-> kind, set |-> set, was |-> pageCopy, had |-> counter,
                   made |-> FALSE, beside |-> changes # {}]
<1>1. /\ new \in changes'
      /\ \A o \in changes' : o = new \/ (o.beside /\ \E q \in changes : o.kind = q.kind)
  BY PressTypes
<1>2. /\ new.kind = kind /\ new.set = set /\ new.was = pageCopy /\ new.had = counter
      /\ ~new.made /\ (new.beside <=> changes # {})
  OBVIOUS
<1> HIDE DEF new
<1> QED
  BY <1>1, <1>2

\* What is covered after a press.
LEMMA PressCovers ==
    ASSUME CopyTypes, NEW kind \in KindsOf(place), NEW set \in Patches(place), Copied!Press(kind, set)
    PROVE  \A m : Covered(m)' <=> Covered(m) \/ kind = "all" \/ m \in DOMAIN set
<1> DEFINE new == [id |-> presses, kind |-> kind, set |-> set, was |-> pageCopy, had |-> counter,
                   made |-> FALSE, beside |-> changes # {}]
<1>1. /\ new \in changes'
      /\ \A o \in changes' : o = new \/
            \E q \in changes : o.kind = q.kind /\ o.set = q.set /\ o.made = q.made
      /\ \A q \in changes : \E o \in changes' : o.kind = q.kind /\ o.set = q.set /\ o.made = q.made
  BY PressTypes
<1>2. new.kind = kind /\ new.set = set /\ ~new.made
  OBVIOUS
<1> HIDE DEF new
<1>3. \A m : (\E o \in changes' : ~o.made /\ (o.kind = "all" \/ m \in DOMAIN o.set))
             <=> (\E o \in changes : ~o.made /\ (o.kind = "all" \/ m \in DOMAIN o.set))
                 \/ kind = "all" \/ m \in DOMAIN set
  BY <1>1, <1>2
<1> QED
  BY <1>3 DEF Covered

\* An unread line is marked at the press (markAsRead).
LEMMA NoticesMarked ==
    ASSUME CopyTypes, NoticesInv, place = "notices", ~unsure, NEW n \in Notices, Copied!MarkAsRead(n)
    PROVE  NoticesInv'
<1> DEFINE set == [m \in {n} |-> TRUE]
<1>1. /\ NoticesBefore /\ NoticesAfter /\ NoticesBack
      /\ DOMAIN pageCopy \in SUBSET Notices /\ pageCopy \in [DOMAIN pageCopy -> BOOLEAN]
      /\ counter \in Nat /\ Counted \in SUBSET Notices
  BY NoticesKnown
<1>2. /\ n \in DOMAIN pageCopy /\ ~pageCopy[n] /\ Copied!Press("one", set)
      /\ pageCopy' = Copied!Patched(pageCopy, set)
      /\ counter' = (IF counter > 0 THEN counter - 1 ELSE 0)
      /\ UNCHANGED <<place, server, get, known, unsure>>
  BY DEF Copied!MarkAsRead, Copied!Unread
<1>3. "one" \in KindsOf(place) /\ set \in Patches(place)
  BY DEF KindsOf, Patches
<1>4. get.at = "over"
  BY <1>1, <1>2 DEF NoticesBefore
<1>5. /\ DOMAIN pageCopy \subseteq known /\ known \subseteq DOMAIN server
      /\ counter = Cardinality(Counted)
      /\ \A m \in DOMAIN pageCopy : ~pageCopy[m] => m \in Counted
      /\ AllMarked \/ \A m \in DOMAIN pageCopy : pageCopy[m] => server[m] \/ Covered(m)
      /\ \A o \in changes : o.kind = "all" => AllMarked
  BY <1>1, <1>4 DEF NoticesAfter
<1>6. ~AllMarked
  BY <1>2 DEF AllMarked
<1>7. /\ DOMAIN pageCopy' = DOMAIN pageCopy /\ pageCopy'[n] = TRUE
      /\ \A m \in DOMAIN pageCopy : m # n => pageCopy'[m] = pageCopy[m]
  BY <1>2 DEF Copied!Patched
<1>8. \A m : Covered(m)' <=> Covered(m) \/ m = n
  <2>1. \A m : Covered(m)' <=> Covered(m) \/ "one" = "all" \/ m \in DOMAIN set
    BY <1>2, <1>3, PressCovers
  <2> QED
    BY <2>1
<1>9. Counted' = Counted \ {n} /\ n \in Counted
  <2>1. n \in Counted
    BY <1>2, <1>5
  <2>2. Counted' = {m \in Copied!Unread(server) \cap known : ~Covered(m)'}
    BY <1>2 DEF Counted, Copied!Unread
  <2> QED
    BY <1>8, <2>1, <2>2 DEF Counted
<1>10. counter' = Cardinality(Counted')
  <2>1. PICK S \in SUBSET Notices : S = Counted
    BY <1>1
  <2>2. Cardinality(S) = Cardinality(S \ {n}) + 1 /\ Cardinality(S) > 0
    BY <1>9, <2>1, OneFewer
  <2>3. Cardinality(S \ {n}) \in Nat
    BY NoticesFinite
  <2>4. counter = Cardinality(S) /\ Counted' = S \ {n}
    BY <1>5, <1>9, <2>1
  <2> QED
    BY <1>2, <2>2, <2>3, <2>4
<1>11. PICK new \in changes' :
          /\ new.kind = "one" /\ new.set = set /\ new.was = pageCopy /\ (new.beside <=> changes # {})
          /\ \A o \in changes' : o = new \/ (o.beside /\ \E q \in changes : o.kind = q.kind)
  <2> HIDE DEF set
  <2> QED
    BY <1>2, <1>3, PressNew
<1>13. \A o \in changes' : o.kind = "one"
  <2>1. \A q \in changes : q.kind = "one"
    <3>1. \A q \in changes : q.kind \in {"one", "all"}
      BY NoticesKnown DEF ChangesOf, KindsOf
    <3> QED
      BY <1>5, <1>6, <3>1
  <2> QED
    BY <1>11, <2>1
<1>14. NoticesAfter'
  <2>1. \A m \in DOMAIN pageCopy' : ~pageCopy'[m] => m \in Counted'
    BY <1>5, <1>7, <1>9
  <2>2. \A m \in DOMAIN pageCopy' : pageCopy'[m] => server'[m] \/ Covered(m)'
    BY <1>2, <1>5, <1>6, <1>7, <1>8
  <2>3. DOMAIN pageCopy' \subseteq known' /\ known' \subseteq DOMAIN server'
    BY <1>2, <1>5, <1>7
  <2>4. \A o \in changes' : o.kind = "all" => AllMarked'
    BY <1>13
  <2> QED
    BY <1>10, <2>1, <2>2, <2>3, <2>4 DEF NoticesAfter
<1>15. NoticesBack'
  <2> SUFFICES ASSUME NEW o \in changes', ~o.beside
               PROVE  /\ o.kind = "one"
                      /\ DOMAIN o.was = DOMAIN pageCopy'
                      /\ \A m \in DOMAIN o.was : o.was[m] => server'[m]
                      /\ \A m \in DOMAIN o.was : ~o.was[m] => m \in Copied!Unread(server)'
                      /\ \E m \in Copied!Unread(server)' \cap known' : DOMAIN o.set = {m}
    BY DEF NoticesBack
  <2>1. o = new /\ changes = {}
    BY <1>11
  <2>2. \A m : ~Covered(m)
    BY <2>1 DEF Covered
  <2>3. o.kind = "one" /\ o.was = pageCopy /\ DOMAIN o.set = {n}
    BY <1>11, <2>1
  <2>4. Copied!Unread(server)' = Copied!Unread(server)
    BY <1>2 DEF Copied!Unread
  <2>5. n \in Copied!Unread(server)' \cap known'
    BY <1>2, <1>9, <2>4 DEF Counted
  <2>6. \A m \in DOMAIN o.was : o.was[m] => server'[m]
    BY <1>2, <1>5, <1>6, <2>2, <2>3
  <2>7. \A m \in DOMAIN o.was : ~o.was[m] => m \in Copied!Unread(server)'
    BY <1>5, <2>3, <2>4 DEF Counted
  <2> QED
    BY <1>7, <2>3, <2>5, <2>6, <2>7
<1>16. NoticesBefore'
  BY <1>2, <1>4 DEF NoticesBefore
<1> QED
  BY <1>14, <1>15, <1>16 DEF NoticesInv

\* All lines are marked at the press, whatever the number was (markAllRead).
LEMMA NoticesAllMarked ==
    ASSUME CopyTypes, NoticesInv, place = "notices", ~unsure, Copied!MarkAllRead
    PROVE  NoticesInv'
<1>1. /\ NoticesBefore /\ NoticesAfter /\ NoticesBack
      /\ DOMAIN pageCopy \in SUBSET Notices /\ counter \in Nat
  BY NoticesKnown
<1>2. /\ counter > 0 /\ Copied!Press("all", <<>>)
      /\ pageCopy' = [m \in DOMAIN pageCopy |-> TRUE] /\ counter' = 0
      /\ UNCHANGED <<place, server, get, known, unsure>>
  BY DEF Copied!MarkAllRead
<1>3. "all" \in KindsOf(place) /\ <<>> \in Patches(place)
  BY DEF KindsOf, Patches
<1>4. get.at = "over"
  BY <1>1, <1>2 DEF NoticesBefore
<1>5. /\ DOMAIN pageCopy \subseteq known /\ known \subseteq DOMAIN server
      /\ counter = Cardinality(Counted)
  BY <1>1, <1>4 DEF NoticesAfter
<1>6. AllMarked'
  BY <1>2 DEF AllMarked
<1>7. \A m : Covered(m)'
  BY <1>2, <1>3, PressCovers
<1>8. Counted' = {}
  BY <1>7 DEF Counted
<1>9. counter' = Cardinality(Counted')
  BY <1>2, <1>8, FS_EmptySet
<1>10. PICK new \in changes' :
          /\ new.kind = "all" /\ new.had = counter /\ (new.beside <=> changes # {})
          /\ \A o \in changes' : o = new \/ (o.beside /\ \E q \in changes : o.kind = q.kind)
  BY <1>2, <1>3, PressNew
<1>12. NoticesAfter'
  <2>1. \A m \in DOMAIN pageCopy' : pageCopy'[m]
    BY <1>2
  <2>2. DOMAIN pageCopy' \subseteq known' /\ known' \subseteq DOMAIN server'
    BY <1>2, <1>5
  <2> QED
    BY <1>6, <1>9, <2>1, <2>2 DEF NoticesAfter
<1>13. NoticesBack'
  <2> SUFFICES ASSUME NEW o \in changes', ~o.beside
               PROVE  o.kind = "all" /\ o.had = Cardinality(Copied!Unread(server)' \cap known')
    BY DEF NoticesBack
  <2>1. o = new /\ changes = {}
    BY <1>10
  <2>2. Counted = Copied!Unread(server) \cap known
    BY <2>1 DEF Counted, Covered
  <2>3. Copied!Unread(server)' \cap known' = Copied!Unread(server) \cap known
    BY <1>2 DEF Copied!Unread
  <2> QED
    BY <1>5, <1>10, <2>1, <2>2, <2>3
<1>14. NoticesBefore'
  BY <1>2, <1>4 DEF NoticesBefore
<1> QED
  BY <1>12, <1>13, <1>14 DEF NoticesInv

\* What a change of the notices sets, it marks.
LEMMA MarksOnly ==
    ASSUME place = "notices", NEW set \in Patches(place)
    PROVE  \A m \in DOMAIN set : set[m] = TRUE
<1>1. CASE set = <<>>
  BY <1>1
<1>2. ASSUME NEW n \in Notices, set = [m \in {n} |-> TRUE]
      PROVE  \A m \in DOMAIN set : set[m] = TRUE
  BY <1>2
<1> QED
  BY <1>1, <1>2 DEF Patches

\* When the server makes the change, what was about to be marked is marked.
LEMMA NoticesMade ==
    ASSUME CopyTypes, Alone, NoticesInv, place = "notices", ~unsure, NEW o \in changes, Copied!Commit(o)
    PROVE  NoticesInv'
<1>1. /\ NoticesBefore /\ NoticesAfter /\ NoticesBack /\ o \in ChangesOf(place)
      /\ DOMAIN server \in SUBSET Notices /\ server \in [DOMAIN server -> BOOLEAN]
  BY NoticesKnown
<1>2. /\ ~o.made
      /\ server' = (IF o.kind = "all" THEN [m \in DOMAIN server |-> TRUE] ELSE Copied!Patched(server, o.set))
      /\ UNCHANGED <<place, get, pageCopy, counter, known>>
  BY DEF Copied!Commit
<1>3. PICK q \in ChangesOf(place) :
         changes' = (changes \ {o}) \cup {q} /\ q.kind = o.kind /\ q.beside = o.beside /\ q.made
  BY MadeChange
<1>4. get.at = "over"
  BY <1>1 DEF NoticesBefore
<1>5. /\ DOMAIN pageCopy \subseteq known /\ known \subseteq DOMAIN server
      /\ counter = Cardinality(Counted)
      /\ \A m \in DOMAIN pageCopy : ~pageCopy[m] => m \in Counted
      /\ AllMarked \/ \A m \in DOMAIN pageCopy : pageCopy[m] => server[m] \/ Covered(m)
      /\ \A p \in changes : p.kind = "all" => AllMarked
  BY <1>1, <1>4 DEF NoticesAfter
<1>6. \A m : Covered(m) <=> Covered(m)' \/ o.kind = "all" \/ m \in DOMAIN o.set
  BY <1>2, <1>3 DEF Covered
<1>7. \A m \in DOMAIN server : m \in DOMAIN server' /\
         server'[m] = (IF o.kind = "all" \/ m \in DOMAIN o.set THEN TRUE ELSE server[m])
  <2>1. \A m \in DOMAIN o.set : o.set[m] = TRUE
    <3>1. o.set \in Patches(place)
      BY <1>1 DEF ChangesOf
    <3> QED
      BY <3>1, MarksOnly
  <2> QED
    BY <1>2, <2>1 DEF Copied!Patched
<1>8. DOMAIN server' = DOMAIN server
  BY <1>2 DEF Copied!Patched
<1>9. Counted' = Counted
  <2>1. ASSUME NEW m
        PROVE  m \in Counted' <=> m \in Counted
    <3>1. m \in Counted' <=> m \in DOMAIN server' /\ ~server'[m] /\ m \in known' /\ ~Covered(m)'
      BY DEF Counted, Copied!Unread
    <3>2. m \in Counted <=> m \in DOMAIN server /\ ~server[m] /\ m \in known /\ ~Covered(m)
      BY DEF Counted, Copied!Unread
    <3> QED
      BY <1>2, <1>6, <1>7, <1>8, <3>1, <3>2
  <2> QED
    BY <2>1
<1>10. AllMarked' <=> AllMarked
  BY <1>2 DEF AllMarked
<1>11. NoticesAfter'
  <2>1. AllMarked' \/ \A m \in DOMAIN pageCopy : pageCopy[m] => server'[m] \/ Covered(m)'
    <3>1. CASE AllMarked
      BY <1>10, <3>1
    <3>2. CASE ~AllMarked
      <4>1. \A m \in DOMAIN pageCopy : pageCopy[m] => server[m] \/ Covered(m)
        BY <1>5, <3>2
      <4> QED
        BY <1>5, <1>6, <1>7, <4>1
    <3> QED
      BY <3>1, <3>2
  <2>2. \A p \in changes' : p.kind = "all" => AllMarked'
    BY <1>3, <1>5, <1>10
  <2> QED
    BY <1>2, <1>5, <1>8, <1>9, <2>1, <2>2 DEF NoticesAfter
<1>12. NoticesBack'
  <2>1. \A p \in changes' : p.beside \/ p.made
    BY <1>3 DEF Alone
  <2> QED
    BY <2>1 DEF NoticesBack
<1>13. NoticesBefore'
  BY <1>2, <1>4 DEF NoticesBefore
<1> QED
  BY <1>11, <1>12, <1>13 DEF NoticesInv

\* An answer changes nothing on the page.
LEMMA NoticesAnswered ==
    ASSUME CopyTypes, NoticesInv, place = "notices", ~unsure, NEW o \in changes, Copied!Answered(o)
    PROVE  NoticesInv'
<1>1. /\ NoticesBefore /\ NoticesAfter /\ NoticesBack /\ o \in ChangesOf(place)
  BY NoticesKnown
<1>2. /\ o.made /\ changes' = changes \ {o} /\ pageCopy' = (IF o.kind = "star" THEN o.set ELSE pageCopy)
      /\ UNCHANGED <<place, server, get, counter, known, unsure>>
  BY DEF Copied!Answered
<1>3. pageCopy' = pageCopy
  BY <1>1, <1>2 DEF ChangesOf, KindsOf
<1>4. \A m : Covered(m)' <=> Covered(m)
  BY <1>2 DEF Covered
<1>5. Counted' = Counted /\ Copied!Unread(server)' = Copied!Unread(server)
  BY <1>2, <1>4 DEF Counted, Copied!Unread
<1>6. AllMarked' <=> AllMarked
  BY <1>3 DEF AllMarked
<1>7. get.at = "over"
  BY <1>1 DEF NoticesBefore
<1>8. NoticesAfter'
  <2>1. /\ DOMAIN pageCopy \subseteq known /\ known \subseteq DOMAIN server
        /\ counter = Cardinality(Counted)
        /\ \A m \in DOMAIN pageCopy : ~pageCopy[m] => m \in Counted
        /\ AllMarked \/ \A m \in DOMAIN pageCopy : pageCopy[m] => server[m] \/ Covered(m)
        /\ \A p \in changes : p.kind = "all" => AllMarked
    BY <1>1, <1>7 DEF NoticesAfter
  <2> QED
    BY <1>2, <1>3, <1>4, <1>5, <1>6, <2>1 DEF NoticesAfter
<1>9. NoticesBack'
  BY <1>1, <1>2, <1>3, <1>5 DEF NoticesBack
<1>10. NoticesBefore'
  BY <1>2, <1>7 DEF NoticesBefore
<1> QED
  BY <1>8, <1>9, <1>10 DEF NoticesInv

\* The page goes back to what it was: the line and the number (markAsRead), the number
\* only (markAllRead).
LEMMA NoticesBackAgain ==
    ASSUME CopyTypes, Alone, NoticesInv, place = "notices", ~unsure, NEW o \in changes, Copied!Fails(o), ~unsure'
    PROVE  NoticesInv'
<1>1. /\ NoticesBefore /\ NoticesAfter /\ NoticesBack /\ o \in ChangesOf("notices")
      /\ Copied!Unread(server) \in SUBSET Notices /\ Counted \in SUBSET Notices
  BY NoticesKnown
<1>2. ~o.made /\ ~o.beside /\ changes = {o} /\ changes' = {}
  BY SureFailure
<1>3. /\ pageCopy' = (IF o.kind \in {"one", "modules"} THEN o.was ELSE pageCopy)
      /\ counter' = (CASE o.kind = "one" -> counter + 1 [] o.kind = "all" -> o.had [] OTHER -> counter)
      /\ UNCHANGED <<place, server, get, known>>
  BY DEF Copied!Fails
<1>4. get.at = "over"
  BY <1>1, <1>2 DEF NoticesBefore
<1>5. /\ DOMAIN pageCopy \subseteq known /\ known \subseteq DOMAIN server
      /\ counter = Cardinality(Counted)
      /\ \A p \in changes : p.kind = "all" => AllMarked
  BY <1>1, <1>4 DEF NoticesAfter
<1>6. Counted' = Copied!Unread(server) \cap known
  BY <1>2, <1>3 DEF Counted, Covered, Copied!Unread
<1>7. o.kind \in {"one", "all"}
  BY <1>1 DEF ChangesOf, KindsOf
<1>8. NoticesBefore' /\ NoticesBack'
  BY <1>2, <1>3, <1>4 DEF NoticesBefore, NoticesBack
<1>9. CASE o.kind = "one"
  <2>1. /\ DOMAIN o.was = DOMAIN pageCopy
        /\ \A m \in DOMAIN o.was : o.was[m] => server[m]
        /\ \A m \in DOMAIN o.was : ~o.was[m] => m \in Copied!Unread(server)
        /\ \E m \in Copied!Unread(server) \cap known : DOMAIN o.set = {m}
    BY <1>1, <1>2, <1>9 DEF NoticesBack
  <2>2. PICK n \in Copied!Unread(server) \cap known : DOMAIN o.set = {n}
    BY <2>1
  <2>3. Counted = (Copied!Unread(server) \cap known) \ {n}
    BY <1>2, <1>9, <2>2 DEF Counted, Covered
  <2>4. counter' = Cardinality(Counted')
    <3>1. PICK S \in SUBSET Notices : S = Copied!Unread(server) \cap known
      BY <1>1
    <3>2. Cardinality(S) = Cardinality(S \ {n}) + 1
      BY <2>2, <3>1, OneFewer
    <3> QED
      BY <1>3, <1>5, <1>6, <1>9, <2>3, <3>1, <3>2
  <2>5. pageCopy' = o.was
    BY <1>3, <1>9
  <2>6. \A m \in DOMAIN pageCopy' : ~pageCopy'[m] => m \in Counted'
    BY <1>5, <1>6, <2>1, <2>5
  <2>7. \A m \in DOMAIN pageCopy' : pageCopy'[m] => server'[m]
    BY <1>3, <2>1, <2>5
  <2>8. DOMAIN pageCopy' \subseteq known' /\ known' \subseteq DOMAIN server'
    BY <1>3, <1>5, <2>1, <2>5
  <2>9. NoticesAfter'
    BY <1>2, <2>4, <2>6, <2>7, <2>8 DEF NoticesAfter
  <2> QED
    BY <1>8, <2>9 DEF NoticesInv
<1>10. CASE o.kind = "all"
  <2>1. o.had = Cardinality(Copied!Unread(server) \cap known) /\ AllMarked
    BY <1>1, <1>2, <1>5, <1>10 DEF NoticesBack
  <2>2. pageCopy' = pageCopy /\ counter' = o.had
    BY <1>3, <1>10
  <2>3. counter' = Cardinality(Counted')
    BY <1>6, <2>1, <2>2
  <2>4. AllMarked' /\ \A m \in DOMAIN pageCopy' : pageCopy'[m]
    BY <2>1, <2>2 DEF AllMarked
  <2>5. NoticesAfter'
    BY <1>2, <1>3, <1>5, <2>2, <2>3, <2>4 DEF NoticesAfter
  <2> QED
    BY <1>8, <2>5 DEF NoticesInv
<1> QED
  BY <1>7, <1>9, <1>10

\* The notices, whatever happens.
LEMMA NoticesKept ==
    CopyTypes /\ Alone /\ NoticesInv /\ Copied!Next => NoticesInv'
<1> SUFFICES ASSUME CopyTypes, Alone, NoticesInv, Copied!Next, place' = "notices", ~unsure'
             PROVE  NoticesInv'
  BY DEF NoticesInv
<1>1. place = "notices" /\ ~unsure
  <2>1. UNCHANGED place
    BY DEF Copied!Next, Copied!Arrives, Copied!MarkAsRead, Copied!ReadList, Copied!CountUnread, Copied!Loaded,
           Copied!LoadFails, Copied!MarkAllRead, Copied!ToggleFavorite, Copied!SaveModule, Copied!Commit,
           Copied!Answered, Copied!Fails
  <2> QED
    BY <2>1, DoubtStays
<1>2. ~Copied!ToggleFavorite /\ \A k \in Modules, v \in Switches : ~Copied!SaveModule(k, v)
  BY <1>1 DEF Copied!ToggleFavorite, Copied!SaveModule
<1>3. CASE Copied!ReadList \/ Copied!CountUnread \/ Copied!Loaded \/ Copied!LoadFails
  BY <1>1, <1>3, NoticesLoaded
<1>4. ASSUME NEW n \in Notices, Copied!Arrives(n) \/ Copied!MarkAsRead(n)
      PROVE  NoticesInv'
  BY <1>1, <1>4, NoticesArrive, NoticesMarked
<1>5. CASE Copied!MarkAllRead
  BY <1>1, <1>5, NoticesAllMarked
<1>6. ASSUME NEW o \in changes, Copied!Commit(o) \/ Copied!Answered(o) \/ Copied!Fails(o)
      PROVE  NoticesInv'
  BY <1>1, <1>6, NoticesMade, NoticesAnswered, NoticesBackAgain
<1> QED
  BY <1>2, <1>3, <1>4, <1>5, <1>6 DEF Copied!Next

\* The first state: nothing is asked, shown or changed.
LEMMA CopiesInit == Copied!Init => CopiesInv
<1> SUFFICES ASSUME Copied!Init PROVE CopiesInv
  OBVIOUS
<1>1. CopyTypes
  BY CopyTypesInit
<1>2. changes = {} /\ get.at = "sent" /\ pageCopy = Copied!Empty(place) /\ counter = 0
  BY DEF Copied!Init
<1>3. place # "star" => pageCopy = <<>>
  BY <1>2 DEF Copied!Empty
<1> QED
  BY <1>1, <1>2, <1>3 DEF CopiesInv, Alone, ModulesInv, StarInv, NoticesInv, NoticesBefore, NoticesAfter, NoticesBack

\* Every step keeps the types.
LEMMA CopyTypesKept == CopyTypes /\ Copied!Next => CopyTypes'
  BY LoadTypes, MarkAsReadTypes, MarkAllTypes, SwitchTypes, AnswerTypes DEF Copied!Next

\* A step that is not one of the pages.
LEMMA CopiesStutter == CopiesInv /\ UNCHANGED Copied!vars => CopiesInv'
<1> SUFFICES ASSUME CopiesInv, UNCHANGED Copied!vars PROVE CopiesInv'
  OBVIOUS
<1>1. UNCHANGED <<place, server, get, pageCopy, counter, known, changes, presses, changeTrouble, unsure>>
  BY DEF Copied!vars
<1>2. CopyTypes'
  BY <1>1 DEF CopiesInv, CopyTypes, StarTypes, Copied!TypeOK
<1>3. Alone' /\ ModulesInv' /\ StarInv'
  BY <1>1 DEF CopiesInv, Alone, ModulesInv, IsNewest, StarInv
<1>4. /\ \A m : Covered(m)' <=> Covered(m)
      /\ AllMarked' <=> AllMarked
  BY <1>1 DEF Covered, AllMarked
<1>5. Counted' = Counted /\ Copied!Unread(server)' = Copied!Unread(server)
  BY <1>1, <1>4 DEF Counted, Copied!Unread
<1>6. NoticesBefore' <=> NoticesBefore
  BY <1>1, <1>5 DEF NoticesBefore
<1>7. NoticesBack' <=> NoticesBack
  BY <1>1, <1>5 DEF NoticesBack
<1>8. NoticesAfter' <=> NoticesAfter
  BY <1>1, <1>4, <1>5 DEF NoticesAfter
<1>9. NoticesInv'
  BY <1>1, <1>6, <1>7, <1>8 DEF CopiesInv, NoticesInv
<1> QED
  BY <1>2, <1>3, <1>9 DEF CopiesInv

\* The invariant holds in every state.
LEMMA CopiesAlways == PartsSpec => []CopiesInv
<1>1. CopiesInv /\ [Copied!Next]_(Copied!vars) => CopiesInv'
  <2>1. CopiesInv /\ Copied!Next => CopiesInv'
    BY CopyTypesKept, AloneKept, ModulesKept, StarKept, NoticesKept DEF CopiesInv
  <2> QED
    BY <2>1, CopiesStutter
<1> QED
  BY <1>1, CopiesInit, CopiedRuns, PTL

\* What the invariant says of a page where no change is under way.
LEMMA CopiesAreRight == CopiesInv => Copied!OptimismAgrees
<1> SUFFICES ASSUME CopiesInv, changes = {}, get.at = "over", ~unsure
             PROVE  IF place = "notices"
                    THEN /\ Copied!NumberRight
                         /\ \/ \A n \in DOMAIN pageCopy : pageCopy[n]
                            \/ \A n \in DOMAIN pageCopy : pageCopy[n] = server[n]
                    ELSE pageCopy = server
  BY DEF Copied!OptimismAgrees
<1>1. CopyTypes /\ NoticesInv /\ ModulesInv /\ StarInv /\ place \in {"notices", "modules", "star"}
  BY DEF CopiesInv, CopyTypes, Copied!TypeOK
<1>2. CASE place = "notices"
  <2>1. /\ NoticesAfter /\ Copied!Unread(server) \in SUBSET Notices
        /\ server \in [DOMAIN server -> BOOLEAN] /\ pageCopy \in [DOMAIN pageCopy -> BOOLEAN]
    BY <1>1, <1>2, NoticesKnown
  <2>2. \A m : ~Covered(m)
    BY DEF Covered
  <2>3. Counted = Copied!Unread(server) \cap known
    BY <2>2 DEF Counted
  <2>4. Copied!NumberRight
    <3>1. PICK S \in SUBSET Notices : S = Copied!Unread(server) \cap known
      BY <2>1
    <3>2. counter = Cardinality(S)
      BY <2>1, <2>3, <3>1 DEF NoticesAfter
    <3> QED
      BY <3>1, <3>2, NoticesFinite DEF Copied!NumberRight
  <2>5. CASE AllMarked
    BY <1>2, <2>4, <2>5 DEF AllMarked
  <2>6. CASE ~AllMarked
    <3>1. \A n \in DOMAIN pageCopy : pageCopy[n] => server[n]
      BY <2>1, <2>2, <2>6 DEF NoticesAfter
    <3>2. \A n \in DOMAIN pageCopy : ~pageCopy[n] => n \in DOMAIN server /\ ~server[n]
      BY <2>1 DEF NoticesAfter, Counted, Copied!Unread
    <3>3. DOMAIN pageCopy \subseteq DOMAIN server
      BY <2>1 DEF NoticesAfter
    <3>4. \A n \in DOMAIN pageCopy : pageCopy[n] \in BOOLEAN /\ server[n] \in BOOLEAN
      BY <2>1, <3>3
    <3>5. \A n \in DOMAIN pageCopy : pageCopy[n] = server[n]
      BY <3>1, <3>2, <3>4
    <3> QED
      BY <1>2, <2>4, <3>5
  <2> QED
    BY <2>5, <2>6
<1>3. CASE place = "modules"
  BY <1>1, <1>3 DEF ModulesInv
<1>4. CASE place = "star"
  BY <1>1, <1>4 DEF StarInv
<1> QED
  BY <1>1, <1>2, <1>3, <1>4

\* The page's own copy of the notices, of the module switches and of the star is the
\* server's when no change is under way, although the page never loads again and changes
\* may overlap; unless one that overlapped another failed, one that was made was answered
\* with an error or not at all, the server made an older set of switches after a newer one,
\* or the star was pressed before the GET had answered (markAsRead, markAllRead, saveModule,
\* toggleFavorite and their roll-backs).
THEOREM CopiesAgree == PartsSpec => []OptimismAgrees
<1>1. CopiesInv => OptimismAgrees
  BY CopiesAreRight DEF OptimismAgrees
<1> QED
  BY <1>1, CopiesAlways, PTL

-----------------------------------------------------------------------------
(* All the parts *)

\* The cache keeps its types also when it is not the part that runs.
LEMMA CacheAlways == PartsSpec => []TypeInv
<1>1. PartsInit => Init
  BY DEF PartsInit
<1>2. [PartsNext]_<<part, vars, communityVars, listVars, submitVars, copyVars>> => [Next]_vars
  BY DEF PartsNext
<1> QED
  BY <1>1, <1>2, InitTypeInv, NextType, PTL DEF PartsSpec

Chosen == part \in {"authentication", "community", "lists", "submit", "copies"}

\* The part is chosen once.
LEMMA PartChosen == PartsSpec => []Chosen
<1>1. PartsInit => Chosen
  BY DEF PartsInit, Chosen
<1>2. Chosen /\ [PartsNext]_<<part, vars, communityVars, listVars, submitVars, copyVars>> => Chosen'
  BY DEF PartsNext, Chosen
<1> QED
  BY <1>1, <1>2, PTL DEF PartsSpec

\* Whichever part runs keeps its types.
THEOREM VisitorsTypes == PartsSpec => []PartsTypeOK
<1>1. TypeInv /\ SocialInv /\ ListsInv /\ SubmitInv /\ CopiesInv /\ Chosen => PartsTypeOK
  BY DEF Chosen, TypeInv, SocialInv, ListsInv, ListTypes, SubmitInv, SubmitTypes, CopiesInv, CopyTypes, PartsTypeOK
<1> QED
  BY <1>1, CacheAlways, SocialAlways, ListsAlways, SubmitAlways, CopiesAlways, PartChosen, PTL

=============================================================================
