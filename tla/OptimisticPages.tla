-------------------------- MODULE OptimisticPages --------------------------
(***************************************************************************)
(* The three places where the web client does not load again after a       *)
(* change but keeps its own copy: the notices of the profile page and the  *)
(* module switches of the public profile, which change at the press and    *)
(* roll back on failure, and the favourite star of a problem, which        *)
(* changes with the answer.  The server's side is notifications.ts, the    *)
(* PUT of home-modules and the favourites of users.ts.                     *)
(***************************************************************************)
EXTENDS Integers, FiniteSets
INSTANCE Functions

CONSTANTS
    Notices,      \* the notices that can be sent, as numbers in the order of time
    Listed,       \* how many the page lists, 10 in the code
    Modules, Visibilities,
    MaxPresses,   \* bound: changes
    MaxTrouble    \* bound: requests that fail

PagesAssumption ==
    /\ Notices \subseteq Nat /\ IsFiniteSet(Notices) /\ Listed \in Nat \ {0}
    /\ MaxPresses \in Nat /\ MaxTrouble \in Nat

VARIABLES
    screen,
    server,    \* the rows: notice -> read?, module -> visibility, "star" -> favoured?
    get,       \* the GET of the page: [at, list, count]
    shown,     \* the page's copy
    counter,   \* its number of unread notices
    known,     \* the notices there were when they were counted
    ops,       \* changes under way
    presses, trouble,
    unsure     \* for the property: see Doubt

vars == <<screen, server, get, shown, counter, known, ops, presses, trouble, unsure>>

Newest(rows) == {n \in DOMAIN rows : Cardinality({m \in DOMAIN rows : m > n}) < Listed}
Unread(rows) == {n \in DOMAIN rows : ~rows[n]}

Rows(s) ==
    CASE s = "notices" -> UNION {[N -> BOOLEAN] : N \in SUBSET Notices}
      [] s = "modules" -> [Modules -> Visibilities]
      [] s = "star" -> [{"star"} -> BOOLEAN]

\* The star starts empty, the other two are not shown before the GET has answered.
Empty(s) == IF s = "star" THEN [x \in {"star"} |-> FALSE] ELSE <<>>

Init ==
    /\ screen \in {"notices", "modules", "star"}
    /\ server \in Rows(screen)
    /\ get = [at |-> "sent", list |-> <<>>, count |-> {}, known |-> {}]
    /\ shown = Empty(screen) /\ counter = 0 /\ known = {}
    /\ ops = {} /\ presses = 0 /\ trouble = 0 /\ unsure = FALSE

\* An administrator sends a notice (POST /api/admin/notifications).
Arrives(n) ==
    /\ screen = "notices" /\ \A m \in DOMAIN server : m < n
    /\ server' = [m \in DOMAIN server \cup {n} |-> IF m = n THEN FALSE ELSE server[m]]
    /\ UNCHANGED <<screen, get, shown, counter, known, ops, presses, trouble, unsure>>

\* The server reads the list.
ReadList ==
    /\ get.at = "sent"
    /\ get' = [get EXCEPT !.at = IF screen = "notices" THEN "list" ELSE "read",
                          !.list = IF screen = "notices" THEN Restrict(server, Newest(server)) ELSE server]
    /\ UNCHANGED <<screen, server, shown, counter, known, ops, presses, trouble, unsure>>

\* For notices, a query of its own counts the unread ones of all pages.
CountUnread ==
    /\ get.at = "list"
    /\ get' = [get EXCEPT !.at = "read", !.count = Unread(server), !.known = DOMAIN server]
    /\ UNCHANGED <<screen, server, shown, counter, known, ops, presses, trouble, unsure>>

\* The GET answers: the page takes what it brings.
Loaded ==
    /\ get.at = "read" /\ get' = [get EXCEPT !.at = "over"]
    /\ shown' = get.list /\ counter' = Cardinality(get.count) /\ known' = get.known
    /\ UNCHANGED <<screen, server, ops, presses, trouble, unsure>>

\* The GET fails; nothing is said, and the star stays empty.
LoadFails ==
    /\ get.at \notin {"over", "failed"} /\ trouble < MaxTrouble
    /\ get' = [get EXCEPT !.at = "failed"] /\ trouble' = trouble + 1
    /\ UNCHANGED <<screen, server, shown, counter, known, ops, presses, unsure>>

-----------------------------------------------------------------------------
(* A change remembers what the page showed.  The page may be wrong when a  *)
(* change that overlaps another one fails, when one that was made is       *)
(* answered with an error or not at all, when the server makes an older    *)
(* set of switches after a newer one, and when the star is pressed before  *)
(* the page's GET has answered.                                            *)

\* The server has made a newer set of switches already.
Overtaken(o) ==
    o.kind = "modules" /\ \E later \in o.id + 1 .. presses - 1 : \A q \in ops : q.id = later => q.made

Doubt(o) == unsure \/ o.beside \/ \E other \in ops : other.id # o.id

Press(kind, set) ==
    /\ presses < MaxPresses /\ presses' = presses + 1
    /\ ops' = { [o EXCEPT !.beside = TRUE] : o \in ops }
         \cup {[id |-> presses, kind |-> kind, set |-> set, was |-> shown, had |-> counter,
                made |-> FALSE, beside |-> ops # {}]}

\* The copy with the values of set, for the keys it has.
Patched(copy, set) == [k \in DOMAIN copy |-> IF k \in DOMAIN set THEN set[k] ELSE copy[k]]

MarkAsRead(n) ==
    /\ screen = "notices" /\ n \in Unread(shown)
    /\ Press("one", [m \in {n} |-> TRUE])
    /\ shown' = Patched(shown, [m \in {n} |-> TRUE])
    /\ counter' = IF counter > 0 THEN counter - 1 ELSE 0
    /\ UNCHANGED <<screen, server, get, known, trouble, unsure>>

\* Marks what the server has by the time it is made, which the page cannot know.
MarkAllRead ==
    /\ screen = "notices" /\ counter > 0
    /\ Press("all", <<>>)
    /\ shown' = [m \in DOMAIN shown |-> TRUE]
    /\ counter' = 0
    /\ UNCHANGED <<screen, server, get, known, trouble, unsure>>

\* The whole set of switches is sent; the buttons stay enabled while it is under way.
SaveModule(k, v) ==
    /\ screen = "modules" /\ k \in DOMAIN shown /\ v # shown[k]
    /\ Press("modules", [shown EXCEPT ![k] = v])
    /\ shown' = [shown EXCEPT ![k] = v]
    /\ UNCHANGED <<screen, server, get, counter, known, trouble, unsure>>

\* One at a time; the star changes when the answer comes.
ToggleFavorite ==
    /\ screen = "star" /\ ops = {}
    /\ Press("star", [shown EXCEPT !["star"] = ~@])
    /\ unsure' = (unsure \/ get.at \in {"sent", "read"})
    /\ UNCHANGED <<screen, server, get, shown, counter, known, trouble>>

\* The server makes the change.
Commit(o) ==
    /\ ~o.made
    /\ ops' = (ops \ {o}) \cup {[o EXCEPT !.made = TRUE]}
    /\ server' = IF o.kind = "all" THEN [m \in DOMAIN server |-> TRUE] ELSE Patched(server, o.set)
    /\ unsure' = (unsure \/ Overtaken(o))
    /\ UNCHANGED <<screen, get, shown, counter, known, presses, trouble>>

Answered(o) ==
    /\ o.made
    /\ ops' = ops \ {o}
    /\ shown' = IF o.kind = "star" THEN o.set ELSE shown
    /\ UNCHANGED <<screen, server, get, counter, known, presses, trouble, unsure>>

\* Mutated: the number is not rolled back.
Fails_NumberKept(o) ==
    /\ trouble < MaxTrouble /\ trouble' = trouble + 1
    /\ ops' = ops \ {o}
    /\ shown' = IF o.kind \in {"one", "modules"} THEN o.was ELSE shown
    /\ UNCHANGED counter
    /\ unsure' = (o.made \/ Doubt(o))
    /\ UNCHANGED <<screen, server, get, known, presses>>

\* The change is refused, or its answer is lost: the page goes back.
Fails(o) ==
    /\ trouble < MaxTrouble /\ trouble' = trouble + 1
    /\ ops' = ops \ {o}
    /\ shown' = IF o.kind \in {"one", "modules"} THEN o.was ELSE shown
    /\ counter' = CASE o.kind = "one" -> counter + 1
                    [] o.kind = "all" -> o.had
                    [] OTHER -> counter
    /\ unsure' = (o.made \/ Doubt(o))
    /\ UNCHANGED <<screen, server, get, known, presses>>

Next ==
    \/ \E n \in Notices : Arrives(n) \/ MarkAsRead(n)
    \/ ReadList \/ CountUnread \/ Loaded \/ LoadFails
    \/ MarkAllRead \/ ToggleFavorite
    \/ \E k \in Modules, v \in Visibilities : SaveModule(k, v)
    \/ \E o \in ops : Commit(o) \/ Answered(o) \/ Fails(o)

Spec == Init /\ [][Next]_vars

-----------------------------------------------------------------------------
\* Every variable has its type.
TypeOK ==
    /\ screen \in {"notices", "modules", "star"} /\ server \in Rows(screen)
    /\ get.at \in {"sent", "list", "read", "over", "failed"}
    /\ counter \in Nat /\ known \subseteq Notices
    /\ presses \in 0..MaxPresses /\ trouble \in 0..MaxTrouble /\ unsure \in BOOLEAN

NumberRight == counter = Cardinality(Unread(server) \cap known)

\* When no change is under way the page's copy is what the server has, and the
\* number is that of the unread notices among those it has counted, although it
\* never loads again and several changes may be under way at a time; unless one
\* that overlapped another failed, a reply was lost, the server made an older
\* set of switches last, or the star was pressed before the GET had answered.
\* A markAllRead that failed leaves every line marked (markAsRead, markAllRead,
\* saveModule, toggleFavorite and their roll-backs).
OptimismAgrees ==
    ops = {} /\ get.at = "over" /\ ~unsure =>
        IF screen = "notices"
        THEN /\ NumberRight
             /\ \/ \A n \in DOMAIN shown : shown[n]
                \/ \A n \in DOMAIN shown : shown[n] = server[n]
        ELSE shown = server
=============================================================================
