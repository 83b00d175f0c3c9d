------------------------------ MODULE MCVisitors ------------------------------
(***************************************************************************)
(* Who is let in and what he is shown, model-checked in one run: the       *)
(* authentication of MCAuthCache, the social functions and the pages of    *)
(* the web client.  They share no state here: PartsInit picks the one that *)
(* runs, the others stay where they start.  Where two modules have a       *)
(* variable of the same name, it is renamed.                               *)
(***************************************************************************)
EXTENDS MCAuthCache, Sequences

CONSTANTS
    Members, NoOne, Solvers, Names, ModuleBodies, HomeBodies, MaxWrites,   \* Community
    PageQueries, FirstQuery, MaxOps, MaxMoves,                             \* ListPages
    MaxSubs, MaxAttempts,                                                  \* SubmitPage
    Notices, Listed, Modules, Switches, MaxPresses,                        \* OptimisticPages
    MaxTrouble                                                             \* each of the pages

VARIABLES
    part,
    \* Community
    name, vis, follows, favorites, solved, board, solutions, comments, token, news, home, req, writes,
    \* ListPages
    screen, query, wire, shown, loading, note, unsaid, ops, pressed, done, own, overtook, moves, pageTrouble,
    \* SubmitPage
    subRow, load, post, id, polls, timer, attempts, item, over, error, message, covered, subTrouble,
    \* OptimisticPages
    place, server, get, pageCopy, counter, known, changes, presses, changeTrouble, unsure

communityVars == <<name, vis, follows, favorites, solved, board, solutions, comments, token, news, home, req, writes>>
listVars == <<screen, query, wire, shown, loading, note, unsaid, ops, pressed, done, own, overtook, moves, pageTrouble>>
submitVars == <<subRow, load, post, id, polls, timer, attempts, item, over, error, message, covered, subTrouble>>
copyVars == <<place, server, get, pageCopy, counter, known, changes, presses, changeTrouble, unsure>>

\* Two members who hide everything, keep it to themselves, or open the social module.
ThreeBodies ==
    LET All == {"heatmap", "solved", "messages", "social", "badges"} IN
    { [k \in All |-> "hidden"], [k \in All |-> "self"], [k \in {"social"} |-> "public"] }
StatsOn == {[k \in {"stats"} |-> TRUE]}

Social == INSTANCE Community WITH Bodies <- ModuleBodies

Lists == INSTANCE ListPages WITH
    Queries <- PageQueries, crossed <- overtook, trouble <- pageTrouble

\* One poll more than MaxAttempts for each submission.
Submit == INSTANCE SubmitPage WITH
    row <- subRow, gets <- polls, done <- over, trouble <- subTrouble

\* Fewer notices on the page than there can be.
Copied == INSTANCE OptimisticPages WITH
    Visibilities <- Switches, screen <- place, shown <- pageCopy, ops <- changes, trouble <- changeTrouble

ASSUME VisitorsAssumption ==
    /\ Social!CommunityAssumption /\ Lists!PagesAssumption
    /\ Submit!PageAssumption /\ Copied!PagesAssumption

-----------------------------------------------------------------------------
\* A part that does not run has one initial state only.
PartsInit ==
    /\ part \in {"authentication", "community", "lists", "submit", "copies"}
    /\ part # "lists" => screen = "problems"
    /\ part # "copies" => place = "star" /\ server = [s \in {"star"} |-> FALSE]
    /\ Init /\ Social!Init /\ Lists!Init /\ Submit!Init /\ Copied!Init

PartsNext ==
    /\ UNCHANGED part
    /\ \/ part = "authentication" /\ Next /\ UNCHANGED <<communityVars, listVars, submitVars, copyVars>>
       \/ part = "community" /\ Social!Next /\ UNCHANGED <<vars, listVars, submitVars, copyVars>>
       \/ part = "lists" /\ Lists!Next /\ UNCHANGED <<vars, communityVars, submitVars, copyVars>>
       \/ part = "submit" /\ Submit!Next /\ UNCHANGED <<vars, communityVars, listVars, copyVars>>
       \/ part = "copies" /\ Copied!Next /\ UNCHANGED <<vars, communityVars, listVars, submitVars>>

\* The fairness of AuthCache, when it runs.
PartsSpec ==
    /\ PartsInit /\ [][PartsNext]_<<part, vars, communityVars, listVars, submitVars, copyVars>>
    /\ WF_vars(part = "authentication" /\ Tick)

-----------------------------------------------------------------------------
\* The part that runs keeps its types.
PartsTypeOK ==
    CASE part = "authentication" -> TypeOK
      [] part = "community" -> Social!TypeOK
      [] part = "lists" -> Lists!TypeOK
      [] part = "submit" -> Submit!TypeOK
      [] part = "copies" -> Copied!TypeOK

\* Social functions: nobody reads what its owner has closed (Community).
OnlyWhatIsOpen == part = "community" => Social!OnlyWhatIsOpen

\* Lists of the web client: a page at rest shows the answer to its query (ListPages).
ShownIsCurrent == part = "lists" => Lists!ShownIsCurrent

\* Submission page: the verdict shown is that of the newest submission (SubmitPage).
VerdictIsShown == part = "submit" => Submit!VerdictIsShown

\* Notices, modules and favourites: the page's own copy is the server's (OptimisticPages).
OptimismAgrees == part = "copies" => Copied!OptimismAgrees
=============================================================================
