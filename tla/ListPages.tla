----------------------------- MODULE ListPages -----------------------------
(***************************************************************************)
(* The pages of the web client that show what a GET returned and change it *)
(* with requests of their own.  They are written after one pattern, a      *)
(* React component with load, an effect that runs it and handlers that     *)
(* send a change and load again; each page's own operator says which parts *)
(* of the pattern it has.  Nothing orders the answers: a GET may be read   *)
(* by the server before a change and answered after it, and a handler      *)
(* loads with the query of the moment it was pressed.                      *)
(* The text of forms, dialogs and messages is left out.                    *)
(***************************************************************************)
EXTENDS Integers, Sequences, FiniteSets
INSTANCE SequencesExt

CONSTANTS
    Queries,     \* what a page can be asked for: page number, filter and search text
    FirstQuery,
    MaxOps,      \* bound: changes sent from the page
    MaxMoves,    \* bound: other queries chosen, refreshes
    MaxTrouble   \* bound: requests that fail

PagesAssumption ==
    /\ FirstQuery \in Queries
    /\ MaxOps \in Nat /\ MaxMoves \in Nat /\ MaxTrouble \in Nat

VARIABLES
    screen,   \* the page that is open
    query,    \* the query that is selected
    wire,     \* GETs under way
    shown,    \* the last answer: to which query, and which changes it has seen
    loading,
    note,     \* message or error on the page
    unsaid,   \* for the property: the last GET failed, and the page does not say so
    ops,      \* changes under way
    pressed,  \* how many were sent
    done,     \* changes the server has made
    own,      \* those the page knows of
    crossed,  \* for the property: a GET or a change was sent while another was under way
    moves, trouble

vars == <<screen, query, wire, shown, loading, note, unsaid, ops, pressed, done, own, crossed, moves, trouble>>

-----------------------------------------------------------------------------
(* The pages.  A handler starts from a row of the list or from a form, and *)
(* after a success it reloads the list, at once or later, patches it with  *)
(* the answer, or leaves it.                                               *)
(*   query    the list depends on page number, filters or search           *)
(*   cancels  the effect's clean-up makes older GETs of its own void       *)
(*   wipes    a list that has come clears the message                      *)
(*   clears   a load clears the message before it starts                   *)
(*   alone    one change at a time                                         *)
(*   silent   a GET that fails leaves no message                           *)
(*   ticks    an interval loads again                                      *)

Page(has, handlers) == [has |-> has, handlers |-> handlers]
RowReload == [from |-> "row", then |-> "reload"]
FormReload == [from |-> "form", then |-> "reload"]
RowPatch == [from |-> "row", then |-> "patch"]

AdminUsers == Page({"query", "wipes"}, [updateUser |-> RowReload, submitBan |-> FormReload])

AdminProblems == Page({"query"},
    [onCreate |-> FormReload, onSaveEdit |-> FormReload, onDelete |-> RowReload, onBulkImport |-> FormReload])

AdminContests == Page({"wipes"}, [onCreate |-> FormReload, onSaveEdit |-> FormReload, onDelete |-> RowReload])

AdminAnnouncements == Page({"wipes"}, [onCreate |-> FormReload, onSaveEdit |-> FormReload, onDelete |-> RowReload])

AdminTestCases == Page({"query", "wipes"},
    [onCreate |-> FormReload, onBulkImport |-> FormReload, onSaveEdit |-> FormReload, onDelete |-> RowReload])

AdminSolutions == Page({"query", "wipes"}, [onReview |-> RowReload])

AdminDaily == Page({"wipes", "alone"}, [onSave |-> RowReload, onEnd |-> RowReload])

AdminSubmissions == Page({"query", "wipes"}, [rejudge |-> [from |-> "row", then |-> "timer"]])

AdminAudit == Page({"query", "wipes"}, <<>>)
AdminStats == Page({"cancels"}, <<>>)

AdminHome == Page({"silent", "alone"}, [save |-> [from |-> "row", then |-> "nothing"]])

ProblemList == Page({"query", "clears"}, <<>>)
SubmissionList == Page({"query", "clears"}, <<>>)
Leaderboard == Page({"query", "clears"}, <<>>)
AnnouncementList == Page({"query", "clears"}, <<>>)

SubmissionDetail == Page({"wipes", "alone"}, [toggleShare |-> RowPatch])
SharedSubmission == Page({"cancels"}, <<>>)
DailyHistory == Page({"cancels"}, <<>>)
ContestList == Page({"cancels"}, <<>>)
ContestDetail == Page({"cancels"}, <<>>)
ContestBoard == Page({"cancels", "silent", "ticks"}, <<>>)

SolutionsPanel == Page({"cancels", "silent"}, [onPublish |-> [from |-> "form", then |-> "nothing"]])
SolutionComments == Page({"query", "cancels", "silent", "alone"}, [postComment |-> [from |-> "form", then |-> "patch"]])

ProfileSubmissions == Page({"query", "cancels", "wipes"}, <<>>)
Favorites == Page({"cancels", "silent"}, [unFavorite |-> RowPatch])
PublicProfile == Page({"cancels", "alone"}, [toggleFollow |-> [from |-> "row", then |-> "late"]])
ProfileMessages == Page({"cancels", "silent", "alone"}, [postMessage |-> [from |-> "form", then |-> "patch"]])
Settings == Page({"silent", "alone"}, [saveModules |-> RowPatch])

Screens == [
    adminUsers |-> AdminUsers, adminProblems |-> AdminProblems, adminContests |-> AdminContests,
    adminAnnouncements |-> AdminAnnouncements, adminTestCases |-> AdminTestCases,
    adminSolutions |-> AdminSolutions, adminDaily |-> AdminDaily, adminSubmissions |-> AdminSubmissions,
    adminAudit |-> AdminAudit, adminStats |-> AdminStats, adminHome |-> AdminHome,
    problems |-> ProblemList, submissions |-> SubmissionList, leaderboard |-> Leaderboard,
    announcements |-> AnnouncementList, submission |-> SubmissionDetail, share |-> SharedSubmission,
    daily |-> DailyHistory, contests |-> ContestList, contest |-> ContestDetail, board |-> ContestBoard,
    solutions |-> SolutionsPanel, comments |-> SolutionComments, profile |-> ProfileSubmissions,
    favorites |-> Favorites, user |-> PublicProfile, messages |-> ProfileMessages, settings |-> Settings ]

Has(trait) == trait \in Screens[screen].has

-----------------------------------------------------------------------------
Nothing == [q |-> FirstQuery, saw |-> {}, any |-> FALSE]

Get(q, by) == [q |-> q, by |-> by, read |-> FALSE, saw |-> {}, void |-> FALSE]
Live(w) == \E i \in DOMAIN w : ~w[i].void

\* Mounted: the effect runs load.
Init ==
    /\ screen \in DOMAIN Screens
    /\ query = FirstQuery
    /\ wire = <<Get(FirstQuery, "effect")>>
    /\ shown = Nothing /\ loading = TRUE /\ note = "none" /\ unsaid = FALSE
    /\ ops = {} /\ pressed = 0 /\ done = {} /\ own = {}
    /\ crossed = FALSE /\ moves = 0 /\ trouble = 0

\* load of a handler or an interval, with the query it has closed over.
Send(q, by) ==
    /\ wire' = Append(wire, Get(q, by))
    /\ crossed' = (crossed \/ Live(wire))
    /\ loading' = (loading \/ by # "tick")

\* The effect: its clean-up, then load with the query that is selected now.
Effect(q) ==
    /\ wire' = Append(IF Has("cancels")
                      THEN [i \in DOMAIN wire |-> [wire[i] EXCEPT !.void = @ \/ wire[i].by = "effect"]]
                      ELSE wire, Get(q, "effect"))
    /\ crossed' = (crossed \/ ops # {} \/ (Live(wire) /\ ~Has("cancels")))
    /\ loading' = TRUE

\* Mutated: the effect does not depend on the query.
Choose_NoEffect(q) ==
    /\ Has("query") /\ q # query /\ moves < MaxMoves
    /\ query' = q /\ moves' = moves + 1
    /\ UNCHANGED <<screen, wire, shown, loading, note, unsaid, ops, pressed, done, own, crossed, trouble>>

\* Another page, filter or search.
Choose(q) ==
    /\ Has("query") /\ q # query /\ moves < MaxMoves
    /\ query' = q /\ moves' = moves + 1
    /\ Effect(q)
    /\ note' = IF Has("clears") THEN "none" ELSE note
    /\ UNCHANGED <<screen, shown, unsaid, ops, pressed, done, own, trouble>>

\* ContestBoard loads again every 30 s.
Tick ==
    /\ Has("ticks") /\ moves < MaxMoves
    /\ moves' = moves + 1
    /\ Send(query, "tick")
    /\ UNCHANGED <<screen, query, shown, note, unsaid, ops, pressed, done, own, trouble>>

\* The server reads what the GET asks for.
Read(i) ==
    /\ ~wire[i].read
    /\ wire' = [wire EXCEPT ![i].read = TRUE, ![i].saw = done]
    /\ UNCHANGED <<screen, query, shown, loading, note, unsaid, ops, pressed, done, own, crossed, moves, trouble>>

\* A list comes back, of a void GET for nobody.
Loaded(i) ==
    /\ wire[i].read
    /\ wire' = RemoveAt(wire, i)
    /\ IF wire[i].void THEN UNCHANGED <<shown, loading, note, unsaid>>
       ELSE /\ shown' = [q |-> wire[i].q, saw |-> wire[i].saw, any |-> TRUE]
            /\ loading' = FALSE
            /\ note' = IF Has("wipes") THEN "none" ELSE note
            /\ unsaid' = FALSE
    /\ UNCHANGED <<screen, query, ops, pressed, done, own, crossed, moves, trouble>>

\* A GET fails, before or after the server has read.  The lists of followers are emptied
\* then, which the property does not see: it leaves out what a page shows after a failure.
LoadFails(i) ==
    /\ trouble < MaxTrouble /\ trouble' = trouble + 1
    /\ wire' = RemoveAt(wire, i)
    /\ IF wire[i].void THEN UNCHANGED <<loading, note, unsaid>>
       ELSE /\ loading' = FALSE
            /\ note' = IF Has("silent") THEN note ELSE "error"
            /\ unsaid' = Has("silent")
    /\ UNCHANGED <<screen, query, shown, ops, pressed, done, own, crossed, moves>>

-----------------------------------------------------------------------------
\* What a page waits for before its buttons work again: with await load() the list, too.
Busy == ops # {} \/ \E i \in DOMAIN wire : wire[i].by = "handler"

\* A handler sends a change.  Rows are hidden while a list is loaded.
Press(h) ==
    /\ pressed < MaxOps
    /\ Has("alone") => ~Busy
    /\ LET handler == Screens[screen].handlers[h] IN
       /\ handler.from = "row" => shown.any /\ ~loading
       /\ ops' = ops \cup {[id |-> pressed + 1, then |-> handler.then, q |-> query, at |-> "sent"]}
    /\ pressed' = pressed + 1
    /\ UNCHANGED <<screen, query, wire, shown, loading, note, unsaid, done, own, crossed, moves, trouble>>

\* The server makes the change; one that leaves the list alone is not in done.
Commit(o) ==
    /\ o.at = "sent"
    /\ ops' = (ops \ {o}) \cup {[o EXCEPT !.at = "made"]}
    /\ done' = IF o.then = "nothing" THEN done ELSE done \cup {o.id}
    /\ UNCHANGED <<screen, query, wire, shown, loading, note, unsaid, pressed, own, crossed, moves, trouble>>

\* The change is refused, or the answer does not come.
OpFails(o) ==
    /\ trouble < MaxTrouble /\ trouble' = trouble + 1
    /\ o.at \in {"sent", "made"}
    /\ ops' = ops \ {o}
    /\ note' = IF o.then = "late" THEN note ELSE "error"
    /\ UNCHANGED <<screen, query, wire, shown, loading, unsaid, pressed, done, own, crossed, moves>>

\* Mutated: a handler forgets to load again.
OpDone_NoReload(o) ==
    /\ o.at = "made"
    /\ ops' = ops \ {o}
    /\ own' = own \cup ({o.id} \cap done)
    /\ note' = "ok"
    /\ UNCHANGED <<screen, query, wire, shown, loading, unsaid, pressed, done, crossed, moves, trouble>>

\* The success of a change comes back.  A patch changes the entry it is for, or adds one: if
\* a load that crossed the change has brought it already, the page shows it twice.
OpDone(o) ==
    /\ o.at = "made"
    /\ own' = own \cup ({o.id} \cap done)
    /\ note' = IF o.then = "late" THEN note ELSE "ok"
    /\ CASE o.then \in {"reload", "late"} ->
              /\ Send(o.q, IF o.then = "reload" THEN "handler" ELSE "late")
              /\ ops' = ops \ {o} /\ UNCHANGED shown
         [] o.then = "timer" ->
              /\ ops' = (ops \ {o}) \cup {[o EXCEPT !.at = "timer"]}
              /\ UNCHANGED <<wire, crossed, loading, shown>>
         [] o.then = "patch" ->
              /\ ops' = ops \ {o}
              /\ shown' = IF shown.q = o.q THEN [shown EXCEPT !.saw = @ \cup {o.id}] ELSE shown
              /\ crossed' = (crossed \/ Live(wire))
              /\ UNCHANGED <<wire, loading>>
         [] o.then = "nothing" ->
              /\ ops' = ops \ {o} /\ UNCHANGED <<wire, crossed, loading, shown>>
    /\ UNCHANGED <<screen, query, unsaid, pressed, done, moves, trouble>>

\* rejudge: setTimeout(() => void load(), 1500).
TimerFires(o) ==
    /\ o.at = "timer"
    /\ ops' = ops \ {o}
    /\ Send(o.q, "late")
    /\ UNCHANGED <<screen, query, shown, note, unsaid, pressed, done, own, moves, trouble>>

Next ==
    \/ \E q \in Queries : Choose(q)
    \/ Tick
    \/ \E i \in DOMAIN wire : Read(i) \/ Loaded(i) \/ LoadFails(i)
    \/ \E h \in DOMAIN Screens[screen].handlers : Press(h)
    \/ \E o \in ops : Commit(o) \/ OpFails(o) \/ OpDone(o) \/ TimerFires(o)

Spec == Init /\ [][Next]_vars

-----------------------------------------------------------------------------
\* Every variable has its type.
TypeOK ==
    /\ screen \in DOMAIN Screens /\ query \in Queries /\ loading \in BOOLEAN /\ crossed \in BOOLEAN
    /\ note \in {"none", "ok", "error"} /\ unsaid \in BOOLEAN
    /\ shown.q \in Queries /\ shown.saw \subseteq done
    /\ done \subseteq 1..pressed /\ own \subseteq done
    /\ pressed \in 0..MaxOps /\ moves \in 0..MaxMoves /\ trouble \in 0..MaxTrouble

AtRest == ops = {} /\ ~Live(wire)

\* A page on which nothing is under way shows the answer to the query that is
\* selected, with every change it has made itself, or an error (or, on the pages
\* that keep a failed GET to themselves, what it showed before or an empty list),
\* unless a load or a change was sent while another was under way (load and the
\* handlers of each page).
ShownIsCurrent ==
    AtRest /\ ~crossed /\ note # "error" /\ ~unsaid => shown.any /\ shown.q = query /\ own \subseteq shown.saw
=============================================================================
