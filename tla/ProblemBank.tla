---------------------------- MODULE ProblemBank ----------------------------
(***************************************************************************)
(* What teachers and administrators write: problems, test cases, imports   *)
(* of many at once, contests and their lists of problems (routes/admin.ts, *)
(* contests.ts, problems.ts, init.sql).  The handlers with several         *)
(* statements run them in a transaction, one statement a step; those with  *)
(* one are one step, the check of the owner included, who never changes.   *)
(* A row that a transaction has written holds back the statements of       *)
(* others that would collide with it (PostgreSQL, READ COMMITTED).         *)
(***************************************************************************)
EXTENDS Integers, Sequences
INSTANCE FiniteSets
INSTANCE Functions

CONSTANTS
    Teacher, Other, Admin,
    Requests,     \* requests with several statements
    Jobs,         \* what they may ask for
    Titles, Inputs,
    NoOne,
    MaxEdits      \* bound: requests with one statement

Actors == {Teacher, Other, Admin}
IsSequence(s) == DOMAIN s = 1..Len(s) /\ Len(s) \in Nat /\ s = [n \in DOMAIN s |-> s[n]]

\* A job has an actor and, by kind: an import of problems its items (title and inputs), an
\* import of cases its problem and the inputs, a contest its number, the problems of its
\* list (<<>>: not given) and its times (0: not given).
BankAssumption ==
    /\ \A j \in Jobs :
          /\ j.kind \in {"problems", "cases", "new contest", "contest"} /\ j.actor \in Actors
          /\ IsSequence(j.items)
          /\ j.kind = "problems" =>
                \A k \in DOMAIN j.items : /\ IsSequence(j.items[k].inputs)
                                          /\ \A n \in DOMAIN j.items[k].inputs : j.items[k].inputs[n] \in Inputs
          /\ j.kind = "cases" => \A k \in DOMAIN j.items : j.items[k] \in Inputs
          /\ j.kind \in {"new contest", "contest"} => j.from \in Nat /\ j.to \in Nat
    /\ Jobs # {} /\ Inputs # {} /\ MaxEdits \in Nat
    /\ NoOne \notin Requests \cup Actors /\ Requests \cap Actors = {}

VARIABLES
    problems,   \* by id: title and created_by
    cases,      \* test_cases, with the request that has inserted the row
    contests,   \* by id: created_by, times, contest_problems by their sort_order
    at,         \* each request: where it stands, its job, the places of its loops that are done
    listed,     \* for the property: the list last committed for each contest
    edits

vars == <<problems, cases, contests, at, listed, edits>>
tables == <<problems, cases, contests, listed>>

\* BIGSERIAL: an id is named by the request that has drawn it, and a number.
Seed(n) == <<NoOne, n>>

\* Problem 1 and the contest are the teacher's, problem 2 another's.
Init ==
    /\ problems = [p \in {Seed(1), Seed(2)} |-> IF p = Seed(1) THEN [title |-> "one", owner |-> Teacher]
                                                ELSE [title |-> "two", owner |-> Other]]
    /\ cases = {[problem |-> Seed(1), input |-> CHOOSE i \in Inputs : TRUE, by |-> NoOne]}
    /\ contests = [c \in {Seed(1)} |-> [owner |-> Teacher, from |-> 1, to |-> 2, list |-> <<Seed(1)>>]]
    /\ at = [r \in Requests |-> [pc |-> "idle", job |-> CHOOSE j \in Jobs : TRUE, rows |-> {}]]
    /\ listed = [c \in {Seed(1)} |-> <<Seed(1)>>]
    /\ edits = 0

Exists(p) == p \in DOMAIN problems
WithoutKey(f, k) == [i \in DOMAIN f \ {k} |-> f[i]]
WithKey(f, k, v) == [i \in DOMAIN f \cup {k} |-> IF i = k THEN v ELSE f[i]]
ListOf(c) == contests[c].list

\* The entries of a list that name some problems; the others leave their numbers free.
Keeping(list, ids) == [n \in {k \in DOMAIN list : list[k] \in ids} |-> list[n]]

\* assertCanEditProblem, assertCanEditContest: 404 before 403, and no check for an
\* administrator.
MayEdit(actor, table, id) == actor = Admin \/ (id \in DOMAIN table /\ table[id].owner = actor)

-----------------------------------------------------------------------------
(* Transactions.                                                           *)

\* The loops of a job: <<k, 0>> is its k-th item, <<k, n>> the n-th input of a problem.
Places(job) ==
    UNION {{k} \X (0..(IF job.kind = "problems" THEN Len(job.items[k].inputs) ELSE 0)) : k \in DOMAIN job.items}
Before(x, y) == x[1] < y[1] \/ (x[1] = y[1] /\ x[2] < y[2])

\* The row that is inserted there.
Row(r, x) ==
    LET job == at[r].job
        item == job.items[x[1]]
    IN  CASE job.kind = "problems" /\ x[2] = 0 -> [table |-> "problems", problem |-> <<r, x[1]>>, value |-> item.title]
          [] job.kind = "problems" /\ x[2] # 0 -> [table |-> "cases", problem |-> <<r, x[1]>>, value |-> item.inputs[x[2]]]
          [] job.kind = "cases" -> [table |-> "cases", problem |-> job.id, value |-> item]
          [] OTHER -> [table |-> "entries", problem |-> item, value |-> job.id]
RowsOf(r) == {Row(r, x) : x \in Places(at[r].job)}

Open == {r \in Requests : at[r].pc = "open"}
Written(r) == IF r \in Open THEN {Row(r, x) : x \in at[r].rows} ELSE {}
Ahead(r) == Places(at[r].job) \ at[r].rows

\* UNIQUE and FOREIGN KEY, against what is committed and what the transaction itself wrote.
Violates(r, row) ==
    \/ row.table = "problems" /\ \/ \E p \in DOMAIN problems : problems[p].title = row.value
                                 \/ \E w \in Written(r) : w.table = "problems" /\ w.value = row.value
    \/ row.table # "problems" /\ ~Exists(row.problem)
                              /\ ~\E w \in Written(r) : w.table = "problems" /\ w.problem = row.problem
    \/ row.table = "cases" /\ \/ \E c \in cases : c.problem = row.problem /\ c.input = row.value
                              \/ row \in Written(r)

\* The transactions a row has to wait for.
Holders(r, row) ==
    {q \in Open \ {r} : \E w \in Written(q) :
        w.table = row.table /\ w.value = row.value /\ (row.table = "cases" => w.problem = row.problem)
        /\ row.table # "entries"}
Referrers(p) == {q \in Open : \E w \in Written(q) : w.table # "problems" /\ w.problem = p}
ContestHolders(c) == {q \in Open : at[q].job.kind = "contest" /\ at[q].job.id = c}

Goto(r, label) == at' = [at EXCEPT ![r].pc = label]

\* The guards of the four handlers: time order, the owner, and 404 for the problem.
Begin(r) ==
    /\ at[r].pc = "idle"
    /\ \E job \in Jobs :
          LET wrong == CASE job.kind = "problems" -> FALSE
                         [] job.kind = "cases" -> ~Exists(job.id) \/ ~MayEdit(job.actor, problems, job.id)
                         [] job.kind = "new contest" -> job.to <= job.from
                         [] job.kind = "contest" ->
                               \/ ~MayEdit(job.actor, contests, job.id)
                               \/ job.from # 0 /\ job.to # 0 /\ job.to <= job.from
          IN  at' = [at EXCEPT ![r] = [pc |-> IF wrong THEN "failed" ELSE "check", job |-> job, rows |-> {}]]
    /\ UNCHANGED <<tables, edits>>

\* The problems named for a contest must exist; a problem named twice does not pass.
CheckProblems(r) ==
    /\ at[r].pc = "check"
    /\ LET items == at[r].job.items IN
       Goto(r, IF at[r].job.kind \in {"new contest", "contest"}
                  /\ Cardinality({items[n] : n \in {k \in DOMAIN items : Exists(items[k])}}) # Len(items)
               THEN "failed" ELSE "begin")
    /\ UNCHANGED <<tables, edits>>

\* BEGIN; a contest's row is updated first, which waits for other writers of the row.
OpenTransaction(r) ==
    LET job == at[r].job IN
    /\ at[r].pc = "begin"
    /\ job.kind = "contest" => ContestHolders(job.id) = {}
    /\ Goto(r, IF job.kind = "contest" /\ job.id \notin DOMAIN contests THEN "failed" ELSE "open")
    /\ UNCHANGED <<tables, edits>>

\* Mutated: the entries of a contest go through the pool, outside of the transaction.
InsertRow_Pool(r) ==
    /\ at[r].pc = "open"
    /\ \E x \in Ahead(r) :
          /\ \A y \in Ahead(r) : ~Before(y, x)
          /\ Holders(r, Row(r, x)) = {}
          /\ IF Violates(r, Row(r, x)) THEN Goto(r, "failed") /\ UNCHANGED contests
             ELSE /\ at' = [at EXCEPT ![r].rows = @ \cup {x}]
                  /\ contests' = IF at[r].job.kind # "contest" THEN contests
                                 ELSE [contests EXCEPT ![at[r].job.id].list =
                                          [k \in 1..x[1] |-> at[r].job.items[k]]]
    /\ UNCHANGED <<problems, cases, listed, edits>>

\* The next INSERT of the loops; an error leads to ROLLBACK.
InsertRow(r) ==
    /\ at[r].pc = "open"
    /\ \E x \in Ahead(r) :
          /\ \A y \in Ahead(r) : ~Before(y, x)
          /\ Holders(r, Row(r, x)) = {}
          /\ IF Violates(r, Row(r, x)) THEN Goto(r, "failed")
             ELSE at' = [at EXCEPT ![r].rows = @ \cup {x}]
    /\ UNCHANGED <<tables, edits>>

\* A lost connection, or PostgreSQL ends one of two transactions that wait for each other.
Rollback(r) ==
    /\ at[r].pc = "open"
    /\ Goto(r, "failed")
    /\ UNCHANGED <<tables, edits>>

\* The contest that a POST or a PUT leaves behind: COALESCE for what is not given.
NewContest(job) == [owner |-> job.actor, from |-> job.from, to |-> job.to, list |-> job.items]
ChangedContest(job) ==
    [contests[job.id] EXCEPT !.from = IF job.from = 0 THEN @ ELSE job.from,
                             !.to = IF job.to = 0 THEN @ ELSE job.to,
                             !.list = IF job.items = <<>> THEN @ ELSE job.items]

Commit(r) ==
    LET job == at[r].job IN
    /\ at[r].pc = "open" /\ Ahead(r) = {}
    /\ problems' = [p \in DOMAIN problems \cup {w.problem : w \in {x \in Written(r) : x.table = "problems"}} |->
                      IF Exists(p) THEN problems[p]
                      ELSE [title |-> (CHOOSE w \in Written(r) : w.problem = p /\ w.table = "problems").value,
                            owner |-> job.actor]]
    /\ cases' = cases \cup {[problem |-> w.problem, input |-> w.value, by |-> r] :
                              w \in {x \in Written(r) : x.table = "cases"}}
    /\ contests' = CASE job.kind = "new contest" -> WithKey(contests, <<r, 1>>, NewContest(job))
                     [] job.kind = "contest" -> [contests EXCEPT ![job.id] = ChangedContest(job)]
                     [] OTHER -> contests
    /\ listed' = CASE job.kind = "new contest" -> WithKey(listed, <<r, 1>>, job.items)
                   [] job.kind = "contest" /\ job.items # <<>> -> [listed EXCEPT ![job.id] = job.items]
                   [] OTHER -> listed
    /\ Goto(r, "ok")
    /\ UNCHANGED edits

-----------------------------------------------------------------------------
(* Requests with one statement, by anybody who may.                        *)

Edit == edits < MaxEdits /\ edits' = edits + 1 /\ UNCHANGED <<at, listed>>
TitleFree(title) == /\ \A p \in DOMAIN problems : problems[p].title # title
                    /\ \A r \in Open : \A w \in Written(r) : w.table = "problems" => w.value # title

CreateProblem(actor, title) ==
    /\ TitleFree(title) /\ Edit
    /\ problems' = WithKey(problems, <<actor, edits>>, [title |-> title, owner |-> actor])
    /\ UNCHANGED <<cases, contests>>

UpdateProblem(actor, p, title) ==
    /\ Exists(p) /\ MayEdit(actor, problems, p) /\ TitleFree(title) /\ Edit
    /\ problems' = [problems EXCEPT ![p].title = title]
    /\ UNCHANGED <<cases, contests>>

\* The row waits for transactions that refer to it, and takes its test cases and its
\* places in contests with it.
DeleteProblem(actor, p) ==
    /\ Exists(p) /\ MayEdit(actor, problems, p) /\ Referrers(p) = {} /\ Edit
    /\ problems' = WithoutKey(problems, p)
    /\ cases' = {c \in cases : c.problem # p}
    /\ contests' = [c \in DOMAIN contests |-> [contests[c] EXCEPT !.list = Keeping(@, Range(@) \ {p})]]

CaseFree(p, input) == /\ ~\E c \in cases : c.problem = p /\ c.input = input
                      /\ \A r \in Open : \A w \in Written(r) :
                            w.table = "cases" => ~(w.problem = p /\ w.value = input)

CreateCase(actor, p, input) ==
    /\ Exists(p) /\ MayEdit(actor, problems, p) /\ CaseFree(p, input) /\ Edit
    /\ cases' = cases \cup {[problem |-> p, input |-> input, by |-> NoOne]}
    /\ UNCHANGED <<problems, contests>>

\* A test case's owner is its problem's.
UpdateCase(actor, c, input) ==
    /\ MayEdit(actor, problems, c.problem) /\ CaseFree(c.problem, input) /\ Edit
    /\ cases' = (cases \ {c}) \cup {[c EXCEPT !.input = input]}
    /\ UNCHANGED <<problems, contests>>

DeleteCase(actor, c) ==
    /\ MayEdit(actor, problems, c.problem) /\ Edit
    /\ cases' = cases \ {c}
    /\ UNCHANGED <<problems, contests>>

DeleteContest(actor, c) ==
    /\ c \in DOMAIN contests /\ MayEdit(actor, contests, c) /\ ContestHolders(c) = {} /\ Edit
    /\ contests' = WithoutKey(contests, c)
    /\ UNCHANGED <<problems, cases>>

Next ==
    \/ \E r \in Requests :
          Begin(r) \/ CheckProblems(r) \/ OpenTransaction(r) \/ InsertRow(r) \/ Rollback(r) \/ Commit(r)
    \/ \E actor \in Actors :
          \/ \E title \in Titles : CreateProblem(actor, title)
          \/ \E p \in DOMAIN problems : \/ DeleteProblem(actor, p)
                                        \/ \E title \in Titles : UpdateProblem(actor, p, title)
                                        \/ \E input \in Inputs : CreateCase(actor, p, input)
          \/ \E c \in {x \in cases : x.by = NoOne} :
                DeleteCase(actor, c) \/ \E input \in Inputs : UpdateCase(actor, c, input)
          \/ \E c \in DOMAIN contests : DeleteContest(actor, c)

Spec == Init /\ [][Next]_vars

-----------------------------------------------------------------------------
\* Every variable keeps its type.
TypeOK ==
    /\ \A p \in DOMAIN problems : problems[p].owner \in Actors
    /\ \A c \in cases : c.input \in Inputs /\ c.by \in Requests \cup {NoOne}
    /\ \A c \in DOMAIN contests : Range(ListOf(c)) \subseteq DOMAIN problems /\ contests[c].from \in Nat
    /\ \A r \in Requests : at[r].pc \in {"idle", "check", "begin", "open", "ok", "failed"}
    /\ edits \in 0..MaxEdits

\* GET /contests/:id, and the count GET /contests shows for it.
ContestDetail(c) == Keeping(ListOf(c), DOMAIN problems)
ProblemCount(c) == Cardinality(Range(ListOf(c)))

\* An import is there as a whole once it was answered, and not at all before or after an
\* error; a contest has exactly the list of its last successful request, in that order,
\* without the problems deleted since; whatever else is written or deleted meanwhile.
ImportIsWhole ==
    /\ \A r \in Requests : \A row \in RowsOf(r) :
          LET present == {c \in cases : c.by = r /\ c.problem = row.problem /\ c.input = row.value} IN
          /\ at[r].pc # "ok" /\ row.table = "cases" => present = {}
          /\ at[r].pc = "ok" /\ row.table = "cases" /\ Exists(row.problem) => present # {}
          /\ at[r].pc # "ok" /\ row.table = "problems" => ~Exists(row.problem)
    /\ \A c \in DOMAIN contests :
          /\ ContestDetail(c) = Keeping(listed[c], DOMAIN problems)
          /\ ProblemCount(c) = Cardinality(DOMAIN ContestDetail(c))
=============================================================================
