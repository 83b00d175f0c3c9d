--------------------------- MODULE DailyProblem ----------------------------
(***************************************************************************)
(* The daily problem: the table daily_problems with one row per day, the   *)
(* setting daily_problem_id, PUT and POST end of the staff, the public     *)
(* GET, and the settlement that a timer and every GET run.  Each query is  *)
(* a step, and the day may change between two of them.                     *)
(***************************************************************************)
EXTENDS Integers, FiniteSets

CONSTANTS
    LastDay,     \* BOUND: the days are 0..LastDay
    Problems,
    NoProblem,
    Puts,        \* PUT /admin/daily-problem requests
    Asked,       \* the problem each of them names
    Ends,        \* POST /admin/daily-problem/end requests
    Gets,        \* GET requests for today's problem
    Timers       \* the timer of each gateway process

\* What the constants must satisfy.
DailyAssumption ==
    /\ LastDay \in Nat
    /\ NoProblem \notin Problems
    /\ Asked \in [Puts -> Problems]

Days == 0..LastDay
Settlers == Gets \cup Timers

VARIABLES
    today,     \* bjDateNow()
    exists,    \* the problems that are not deleted
    row,       \* daily_problems, by date
    setting,   \* settings.daily_problem_id
    pc,        \* program counter of every request and timer
    date,      \* the day a request works on
    overdue,   \* the rows a settlement has selected, and then those whose day is over
    got,       \* the setting a GET has read
    answer     \* [status, problem] of a GET

vars == <<today, exists, row, setting, pc, date, overdue, got, answer>>
table == <<today, exists, row, setting>>
locals == <<date, overdue, got, answer>>

Requests == Puts \cup Ends \cup Gets
Processes == Requests \cup Timers

NoRow == [status |-> "none", problem |-> NoProblem, endType |-> "none"]
Rows == [status : {"none", "pending", "finished"}, problem : Problems \cup {NoProblem},
         endType : {"none", "auto", "manual"}]

Init ==
    /\ today = 0
    /\ exists = Problems
    /\ row = [d \in Days |-> NoRow]
    /\ setting = NoProblem
    /\ pc = [x \in Processes |-> "idle"]
    /\ date = [x \in Requests |-> 0]
    /\ overdue = [x \in Settlers |-> {}]
    /\ got = [g \in Gets |-> NoProblem]
    /\ answer = [g \in Gets |-> [status |-> "none", problem |-> NoProblem]]

Goto(x, label) == pc' = [pc EXCEPT ![x] = label]

\* INSERT ... ON CONFLICT (date) DO NOTHING.
Pending(p) == [status |-> "pending", problem |-> p, endType |-> "none"]

-----------------------------------------------------------------------------
(* PUT /admin/daily-problem *)

\* 404 for a problem that does not exist; the row of settings is written at once.
PutSetting(u) ==
    /\ pc[u] = "idle"
    /\ Asked[u] \in exists
    /\ setting' = Asked[u]
    /\ Goto(u, "date")
    /\ UNCHANGED <<today, exists, row, locals>>

\* The date is computed in the process, before a query is sent.
ReadDate(x, next) ==
    /\ date' = [date EXCEPT ![x] = today]
    /\ Goto(x, next)
    /\ UNCHANGED <<table, overdue, got, answer>>

PutDate(u) == pc[u] = "date" /\ ReadDate(u, "check")

\* SELECT status of that day's row: 409 when it has been ended.
PutCheck(u) ==
    /\ pc[u] = "check"
    /\ Goto(u, IF row[date[u]].status = "finished" THEN "done" ELSE "upsert")
    /\ UNCHANGED <<table, locals>>

\* The upsert sets status to 'pending' again and keeps end_type. 500 when the problem
\* has been deleted meanwhile (foreign key).
PutUpsert(u) ==
    LET d == date[u]
        p == Asked[u]
    IN  /\ pc[u] = "upsert"
        /\ row' = [row EXCEPT ![d] =
              IF p \notin exists THEN @
              ELSE IF @.status = "none" THEN Pending(p)
              ELSE [@ EXCEPT !.problem = p, !.status = "pending"]]
        /\ Goto(u, "done")
        /\ UNCHANGED <<today, exists, setting, locals>>

\* POST /admin/daily-problem/end: a single UPDATE of a pending row.
EndDate(e) == pc[e] = "idle" /\ ReadDate(e, "end")

EndToday(e) ==
    LET d == date[e] IN
    /\ pc[e] = "end"
    /\ row' = [row EXCEPT ![d] =
          IF @.status = "pending" THEN [@ EXCEPT !.status = "finished", !.endType = "manual"]
          ELSE @]
    /\ Goto(e, "done")
    /\ UNCHANGED <<today, exists, setting, locals>>

-----------------------------------------------------------------------------
(* settleOverdueDailyProblems *)

\* SELECT the pending rows.
SettleSelect(x, next) ==
    /\ overdue' = [overdue EXCEPT ![x] = {d \in Days : row[d].status = "pending"}]
    /\ Goto(x, next)
    /\ UNCHANGED <<table, date, got, answer>>

\* Mutated: a day is over when it begins.
SettleFilter_DayStart(x, next, none) ==
    LET over == {d \in overdue[x] : d <= today} IN
    /\ overdue' = [overdue EXCEPT ![x] = over]
    /\ Goto(x, IF over = {} THEN none ELSE next)
    /\ UNCHANGED <<table, date, got, answer>>

\* Keep those whose day is over; without any the settlement ends.
SettleFilter(x, next, none) ==
    LET over == {d \in overdue[x] : d < today} IN
    /\ overdue' = [overdue EXCEPT ![x] = over]
    /\ Goto(x, IF over = {} THEN none ELSE next)
    /\ UNCHANGED <<table, date, got, answer>>

\* Mutated: the UPDATE does not look at the status again.
SettleUpdate_AnyStatus(x, next) ==
    /\ row' = [d \in Days |->
           IF d \in overdue[x] /\ row[d].status # "none"
           THEN [row[d] EXCEPT !.status = "finished", !.endType = "auto"] ELSE row[d]]
    /\ overdue' = [overdue EXCEPT ![x] = {}]
    /\ Goto(x, next)
    /\ UNCHANGED <<today, exists, setting, date, got, answer>>

\* Mutated: the UPDATE names today's row.
SettleUpdate_TodayOnly(x, next) ==
    /\ row' = [d \in Days |->
           IF d \in overdue[x] /\ d = today /\ row[d].status = "pending"
           THEN [row[d] EXCEPT !.status = "finished", !.endType = "auto"] ELSE row[d]]
    /\ overdue' = [overdue EXCEPT ![x] = {}]
    /\ Goto(x, next)
    /\ UNCHANGED <<today, exists, setting, date, got, answer>>

\* UPDATE those that are still pending.
SettleUpdate(x, next) ==
    /\ row' = [d \in Days |->
           IF d \in overdue[x] /\ row[d].status = "pending"
           THEN [row[d] EXCEPT !.status = "finished", !.endType = "auto"] ELSE row[d]]
    /\ overdue' = [overdue EXCEPT ![x] = {}]
    /\ Goto(x, next)
    /\ UNCHANGED <<today, exists, setting, date, got, answer>>

TimerSelect(t) == pc[t] = "idle" /\ SettleSelect(t, "filter")
TimerFilter(t) == pc[t] = "filter" /\ SettleFilter(t, "update", "idle")
TimerUpdate(t) == pc[t] = "update" /\ SettleUpdate(t, "idle")

-----------------------------------------------------------------------------
(* GET: getOrCreateTodayDaily and buildTodayResponse *)

GetDate(g) == pc[g] = "idle" /\ ReadDate(g, "select")

GetSettle(g) ==
    \/ pc[g] = "select" /\ SettleSelect(g, "filter")
    \/ pc[g] = "filter" /\ SettleFilter(g, "update", "setting")
    \/ pc[g] = "update" /\ SettleUpdate(g, "setting")
    \/ pc[g] = "select2" /\ SettleSelect(g, "filter2")
    \/ pc[g] = "filter2" /\ SettleFilter(g, "update2", "record")
    \/ pc[g] = "update2" /\ SettleUpdate(g, "record")

GetSetting(g) ==
    /\ pc[g] = "setting"
    /\ got' = [got EXCEPT ![g] = setting]
    /\ Goto(g, IF setting = NoProblem THEN "done" ELSE "insert")
    /\ UNCHANGED <<table, date, overdue, answer>>

\* INSERT ... ON CONFLICT DO NOTHING; 500 when the problem of the setting is gone.
GetInsert(g) ==
    LET d == date[g] IN
    /\ pc[g] = "insert"
    /\ row' = [row EXCEPT ![d] =
          IF got[g] \in exists /\ @.status = "none" THEN Pending(got[g]) ELSE @]
    /\ Goto(g, IF got[g] \in exists \/ row[d].status # "none" THEN "select2" ELSE "done")
    /\ UNCHANGED <<today, exists, setting, locals>>

\* The status is that of the row ...
GetRecord(g) ==
    LET r == row[date[g]] IN
    /\ pc[g] = "record"
    /\ answer' = [answer EXCEPT ![g].status = IF r.status = "none" THEN "pending" ELSE r.status]
    /\ Goto(g, "problem")
    /\ UNCHANGED <<table, date, overdue, got>>

\* ... and the problem that of the setting.
GetProblem(g) ==
    /\ pc[g] = "problem"
    /\ answer' = [answer EXCEPT ![g].problem = IF got[g] \in exists THEN got[g] ELSE NoProblem]
    /\ Goto(g, "done")
    /\ UNCHANGED <<table, date, overdue, got>>

-----------------------------------------------------------------------------
Midnight ==
    /\ today < LastDay
    /\ today' = today + 1
    /\ UNCHANGED <<exists, row, setting, pc, locals>>

\* DELETE FROM problems cascades to daily_problems; the setting keeps the number. A row
\* that is inserted again for the same day has a new id, which no settlement has selected.
DeleteProblem(p) ==
    LET gone == {d \in Days : row[d].problem = p} IN
    /\ p \in exists
    /\ exists' = exists \ {p}
    /\ row' = [d \in Days |-> IF d \in gone THEN NoRow ELSE row[d]]
    /\ overdue' = [x \in Settlers |-> overdue[x] \ gone]
    /\ UNCHANGED <<today, setting, pc, date, got, answer>>

TimerStep(t) == TimerSelect(t) \/ TimerFilter(t) \/ TimerUpdate(t)
GetStep(g) ==
    \/ GetDate(g) \/ GetSettle(g) \/ GetSetting(g) \/ GetInsert(g)
    \/ GetRecord(g) \/ GetProblem(g)
PutStep(u) == PutSetting(u) \/ PutDate(u) \/ PutCheck(u) \/ PutUpsert(u)

Next ==
    \/ \E u \in Puts : PutStep(u)
    \/ \E g \in Gets : GetStep(g)
    \/ \E t \in Timers : TimerStep(t)
    \/ \E e \in Ends : EndDate(e) \/ EndToday(e)
    \/ Midnight
    \/ \E p \in Problems : DeleteProblem(p)

Spec == Init /\ [][Next]_vars

\* setInterval runs the settlement again and again.
FairSpec == Spec /\ \A t \in Timers : WF_vars(TimerStep(t))

-----------------------------------------------------------------------------
(* Properties *)

\* Every variable keeps its type.
TypeOK ==
    /\ today \in Days
    /\ exists \subseteq Problems
    /\ row \in [Days -> Rows]
    /\ setting \in Problems \cup {NoProblem}
    /\ pc \in [Processes -> {"idle", "date", "check", "upsert", "end", "select", "filter", "update",
                             "setting", "insert", "select2", "filter2", "update2", "record",
                             "problem", "done"}]
    /\ date \in [Requests -> Days]
    /\ overdue \in [Settlers -> SUBSET Days]
    /\ got \in [Gets -> Problems \cup {NoProblem}]
    /\ answer \in [Gets -> [status : {"none", "pending", "finished"},
                            problem : Problems \cup {NoProblem}]]

\* Settling twice, or after a teacher has ended the day, changes nothing: how a finished
\* day was ended is never rewritten ("settlement is idempotent").
EndingIsFinal ==
    [][\A d \in Days : row[d].status = "finished" /\ row'[d].status = "finished" =>
          row'[d].endType = row[d].endType]_vars

\* The settlement never ends a day that is still running.
AutoOnlyWhenOver ==
    \A d \in Days : row[d].status = "finished" /\ row[d].endType = "auto" => d < today

\* A day that is over does not stay pending, even when a late PUT or GET writes a row for
\* it after midnight.
OverdueIsSettled ==
    \A d \in Days :
        (row[d].status = "pending" /\ d < today) ~> ~(row[d].status = "pending" /\ d < today)

\* A finished day is not revived: PUT answers 409.
FinishedStaysFinished ==
    [][\A d \in Days : row[d].status = "finished" => row'[d].status # "pending"]_vars
=============================================================================
