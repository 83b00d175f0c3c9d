----------------------------- MODULE UserAdmin -----------------------------
(***************************************************************************)
(* The guards of PUT /admin/users/:id over the whole users table: who may  *)
(* be demoted or banned, and by whom.  The handler reads the row of the    *)
(* target, counts the administrators and then updates, in three queries    *)
(* outside any transaction.  What the handler does to the caches of the    *)
(* target is in AuthCache; here it only means that requireAdmin may let a  *)
(* former administrator through for a while.                               *)
(***************************************************************************)
EXTENDS Naturals, FiniteSets

CONSTANTS
    Users,
    Puts,      \* PUT requests
    Roles,     \* the roles a body may name: "user", "teacher", "admin"
    Overlap    \* requests may be served at the same time

\* What the constants must satisfy.
UserAdminAssumption ==
    /\ IsFiniteSet(Users)
    /\ Roles \subseteq {"user", "teacher", "admin"}
    /\ Overlap \in BOOLEAN

VARIABLES
    role,      \* users.role
    banned,    \* users.banned
    trusted,   \* users that requireAdmin takes for administrators, from a cache or the row
    pc,        \* program counter of a request
    ask        \* what a request asks for: actor, target, role and banned

vars == <<role, banned, trusted, pc, ask>>

Keep == "keep"
Asks == [actor : Users, target : Users, role : Roles \cup {Keep}, ban : {"set", "lift", Keep}]

ActiveAdmin(u) == role[u] = "admin" /\ ~banned[u]
Admins == {u \in Users : ActiveAdmin(u)}

\* One request at a time, when Overlap is FALSE.
MayRun(p) == Overlap \/ \A o \in Puts \ {p} : pc[o] \in {"new", "done"}

Init ==
    /\ role \in [Users -> {"user", "admin"}]
    /\ banned = [u \in Users |-> FALSE]
    /\ Admins # {}
    /\ trusted = Admins
    /\ pc = [p \in Puts |-> "new"]
    /\ ask \in [Puts -> Asks]

Goto(p, label) == pc' = [pc EXCEPT ![p] = label]

\* requireAdmin, then the guard on the actor itself. Only a demotion to "user" or a ban
\* has the other guards.
Begin(p) ==
    LET a == ask[p] IN
    /\ pc[p] = "new"
    /\ MayRun(p)
    /\ a.actor \in trusted
    /\ Goto(p, IF a.target = a.actor /\ (a.role = "user" \/ a.ban = "set") THEN "done"
               ELSE IF a.role = "user" \/ a.ban = "set" THEN "target"
               ELSE "update")
    /\ UNCHANGED <<role, banned, trusted, ask>>

\* SELECT role of the target: an administrator cannot be banned.
ReadTarget(p) ==
    LET a == ask[p] IN
    /\ pc[p] = "target"
    /\ Goto(p, IF role[a.target] # "admin" THEN "update"
               ELSE IF a.ban = "set" THEN "done"
               ELSE "count")
    /\ UNCHANGED <<role, banned, trusted, ask>>

\* Mutated: the count is compared with 0.
CountAdmins_OffByOne(p) ==
    /\ pc[p] = "count"
    /\ Goto(p, IF Cardinality(Admins) <= 0 THEN "done" ELSE "update")
    /\ UNCHANGED <<role, banned, trusted, ask>>

\* COUNT(*) of the active administrators: the last one is not demoted.
CountAdmins(p) ==
    /\ pc[p] = "count"
    /\ Goto(p, IF Cardinality(Admins) <= 1 THEN "done" ELSE "update")
    /\ UNCHANGED <<role, banned, trusted, ask>>

\* Mutated: an absent role is written as NULL.
UpdateUser_NoCoalesce(p) ==
    LET a == ask[p] IN
    /\ pc[p] = "update"
    /\ role' = [role EXCEPT ![a.target] = a.role]
    /\ banned' = [banned EXCEPT ![a.target] = IF a.ban = Keep THEN @ ELSE a.ban = "set"]
    /\ trusted' = trusted \cup Admins'
    /\ Goto(p, "done")
    /\ UNCHANGED ask

\* The UPDATE, with COALESCE for what the body leaves out. A user made administrator is
\* trusted from then on.
UpdateUser(p) ==
    LET a == ask[p] IN
    /\ pc[p] = "update"
    /\ role' = [role EXCEPT ![a.target] = IF a.role = Keep THEN @ ELSE a.role]
    /\ banned' = [banned EXCEPT ![a.target] = IF a.ban = Keep THEN @ ELSE a.ban = "set"]
    /\ trusted' = trusted \cup Admins'
    /\ Goto(p, "done")
    /\ UNCHANGED ask

\* The gateway notices that u is no administrator any more, at once or at the latest when
\* the cache entry has run out.
Notice(u) ==
    /\ u \in trusted
    /\ ~ActiveAdmin(u)
    /\ trusted' = trusted \ {u}
    /\ UNCHANGED <<role, banned, pc, ask>>

Next ==
    \/ \E p \in Puts : Begin(p) \/ ReadTarget(p) \/ CountAdmins(p) \/ UpdateUser(p)
    \/ \E u \in Users : Notice(u)

Spec == Init /\ [][Next]_vars

-----------------------------------------------------------------------------
\* Every variable keeps its type.
TypeOK ==
    /\ role \in [Users -> {"user", "teacher", "admin"}]
    /\ banned \in [Users -> BOOLEAN]
    /\ trusted \subseteq Users
    /\ pc \in [Puts -> {"new", "target", "count", "update", "done"}]
    /\ ask \in [Puts -> Asks]

\* The system is never locked: an administrator that is not banned is left, whoever asks
\* for what, and even while a former administrator is still let through.
NeverLocked == Admins # {}
=============================================================================
