---------------------------- MODULE PeriodBoards ----------------------------
(***************************************************************************)
(* The three leaderboards of a user in Redis: all time, week and month.    *)
(* The worker adds to the keys of the moment it judges in (redis.py), a    *)
(* rejudge deducts from those of the submission (admin.ts), the page reads *)
(* those of the moment it is asked (constants.ts, leaderboard.ts): three   *)
(* computations of the same keys.  The race of a rejudge with the worker   *)
(* is JudgePipeline's subject; here the calendar runs, and any single      *)
(* call to Redis may fail.                                                 *)
(***************************************************************************)
EXTENDS Integers, Sequences, FiniteSets

CONSTANTS
    Subs,
    FirstDay, LastDay,   \* bound: the calendar, as day numbers since Thursday 1970-01-01 (UTC)
    MonthStarts,         \* the day numbers on which a month begins
    MaxTrouble,          \* bound: calls to Redis that fail
    MaxRejudges          \* bound

BoardsAssumption ==
    /\ FirstDay \in Nat /\ LastDay \in Nat /\ FirstDay <= LastDay
    /\ MonthStarts \subseteq Nat /\ \E d \in MonthStarts : d <= FirstDay
    /\ IsFiniteSet(Subs) /\ MaxTrouble \in Nat /\ MaxRejudges \in Nat

VARIABLES
    day,      \* today
    made,     \* created_at of each submission, 0: not yet
    status,   \* submissions.status
    job,      \* what is still to be applied for a submission: keys in order, and by how much
    score,    \* the sorted sets, for one user; a key that was never written is absent
    failed,   \* for the property: keys that a failing call has missed
    crossed,  \* for the property: keys of judgings that were in another period than the submission
    trouble, rejudges

vars == <<day, made, status, job, score, failed, crossed, trouble, rejudges>>

Days == FirstDay..LastDay
Key(kind, start) == <<kind, start>>

-----------------------------------------------------------------------------
(* The calendar, three times.                                              *)

MonthOf(d) == CHOOSE m \in MonthStarts : m <= d /\ \A n \in MonthStarts : n <= d => n <= m

\* getUTCDay: 0 is Sunday.  tm_wday: 0 is Monday.
UTCDay(d) == (d + 4) % 7
WDay(d) == (d + 3) % 7

\* period_keys of the worker.
PeriodKeys(d) == <<Key("all", 0), Key("week", d - WDay(d)), Key("month", MonthOf(d))>>

\* Mutated: getWeekKey as it was before it was corrected, with the week starting on Sunday.
GetWeekKey_FromSunday(d) == Key("week", d - UTCDay(d))

\* getWeekKey of the gateway, for the submission's day.
GetWeekKey(d) == Key("week", d - (IF UTCDay(d) = 0 THEN 6 ELSE UTCDay(d) - 1))

\* getMonthKey.
GetMonthKey(d) == Key("month", MonthOf(d))

\* weeklyKey and monthlyKey, for the page.
WeeklyKey == LET diff == IF UTCDay(day) = 0 THEN 6 ELSE UTCDay(day) - 1 IN Key("week", day - diff)
MonthlyKey == Key("month", MonthOf(day))

-----------------------------------------------------------------------------
NotCounting == [keys |-> <<>>, by |-> 0]

Init ==
    /\ day = FirstDay
    /\ made = [s \in Subs |-> 0]
    /\ status = [s \in Subs |-> "none"]
    /\ job = [s \in Subs |-> NotCounting]
    /\ score = <<>>
    /\ failed = {} /\ crossed = {} /\ trouble = 0 /\ rejudges = 0

\* ZINCRBY creates what is not there.
Score(k) == IF k \in DOMAIN score THEN score[k] ELSE 0
ZIncrBy(k, by) == score' = [q \in DOMAIN score \cup {k} |-> Score(q) + (IF q = k THEN by ELSE 0)]

Submit(s) ==
    /\ status[s] = "none"
    /\ status' = [status EXCEPT ![s] = "PENDING"]
    /\ made' = [made EXCEPT ![s] = day]
    /\ UNCHANGED <<day, job, score, failed, crossed, trouble, rejudges>>

\* save_verdict.
Judge(s) ==
    /\ status[s] = "PENDING" /\ job[s] = NotCounting
    /\ \/ status' = [status EXCEPT ![s] = "WA"] /\ UNCHANGED job
       \/ /\ status' = [status EXCEPT ![s] = "AC"]
          /\ job' = [job EXCEPT ![s] = [keys |-> <<>>, by |-> 1]]
    /\ UNCHANGED <<day, made, score, failed, crossed, trouble, rejudges>>

\* increment_ac: the keys are computed when it begins, maybe after midnight.
BeginIncrement(s) ==
    /\ job[s] = [keys |-> <<>>, by |-> 1]
    /\ job' = [job EXCEPT ![s].keys = PeriodKeys(day)]
    /\ LET own == PeriodKeys(made[s]) IN
       crossed' = crossed \cup {PeriodKeys(day)[i] : i \in {k \in 1..3 : PeriodKeys(day)[k] # own[k]}}
                          \cup {own[i] : i \in {k \in 1..3 : PeriodKeys(day)[k] # own[k]}}
    /\ UNCHANGED <<day, made, status, score, failed, trouble, rejudges>>

\* The loop over the keys goes on, or is over.
NextKey(j) == IF Len(j.keys) = 1 THEN NotCounting ELSE [j EXCEPT !.keys = Tail(@)]

\* The next key of increment_ac or of a rejudge.
Apply(s) ==
    /\ job[s].keys # <<>>
    /\ ZIncrBy(Head(job[s].keys), job[s].by)
    /\ job' = [job EXCEPT ![s] = NextKey(@)]
    /\ UNCHANGED <<day, made, status, failed, crossed, trouble, rejudges>>

\* increment_ac has one try block around its loop: the keys that follow are missed too.
IncrementFails(s) ==
    /\ job[s].keys # <<>> /\ job[s].by = 1
    /\ trouble < MaxTrouble /\ trouble' = trouble + 1
    /\ failed' = failed \cup {job[s].keys[i] : i \in DOMAIN job[s].keys}
    /\ job' = [job EXCEPT ![s] = NotCounting]
    /\ UNCHANGED <<day, made, status, score, crossed, rejudges>>

\* Mutated: the rejudge has one try block around its loop.
DeductFails_Aborts(s) ==
    /\ job[s].keys # <<>> /\ job[s].by = -1
    /\ trouble < MaxTrouble /\ trouble' = trouble + 1
    /\ failed' = failed \cup {Head(job[s].keys)}
    /\ job' = [job EXCEPT ![s] = NotCounting]
    /\ UNCHANGED <<day, made, status, score, crossed, rejudges>>

\* The rejudge catches the error of each key by itself.
DeductFails(s) ==
    /\ job[s].keys # <<>> /\ job[s].by = -1
    /\ trouble < MaxTrouble /\ trouble' = trouble + 1
    /\ failed' = failed \cup {Head(job[s].keys)}
    /\ job' = [job EXCEPT ![s] = NextKey(@)]
    /\ UNCHANGED <<day, made, status, score, crossed, rejudges>>

\* POST /submissions/:id/rejudge: an accepted row that has been counted is deducted from the
\* periods of its created_at, any other only set back.
Rejudge(s) ==
    /\ status[s] \in {"AC", "WA"} /\ job[s] = NotCounting
    /\ status' = [status EXCEPT ![s] = "PENDING"]
    /\ job' = IF status[s] = "WA" THEN job
              ELSE [job EXCEPT ![s] = [by |-> -1,
                       keys |-> <<Key("all", 0), GetWeekKey(made[s]), GetMonthKey(made[s])>>]]
    /\ rejudges < MaxRejudges /\ rejudges' = rejudges + 1
    /\ UNCHANGED <<day, made, score, failed, crossed, trouble>>

Midnight == day < LastDay /\ day' = day + 1
            /\ UNCHANGED <<made, status, job, score, failed, crossed, trouble, rejudges>>

Next ==
    \/ Midnight
    \/ \E s \in Subs :
          \/ Submit(s) \/ Judge(s) \/ BeginIncrement(s) \/ Apply(s)
          \/ IncrementFails(s) \/ DeductFails(s) \/ Rejudge(s)

Spec == Init /\ [][Next]_vars

-----------------------------------------------------------------------------
\* GET /leaderboard?period=...: ZRANGE of the current key.
Shown(period) ==
    Score(CASE period = "all" -> Key("all", 0) [] period = "weekly" -> WeeklyKey
            [] period = "monthly" -> MonthlyKey)

\* ... or, without Redis, the accepted rows of all time whatever the period.
Fallback == Cardinality({s \in Subs : status[s] = "AC"})

\* Every variable keeps its type.
TypeOK ==
    /\ day \in Days /\ made \in [Subs -> Days \cup {0}]
    /\ status \in [Subs -> {"none", "PENDING", "WA", "AC"}]
    /\ \A s \in Subs : Len(job[s].keys) <= 3 /\ job[s].by \in {-1, 0, 1}
    /\ \A k \in DOMAIN score : score[k] \in -MaxRejudges - 1..Cardinality(Subs) + MaxRejudges
    /\ trouble \in 0..MaxTrouble /\ rejudges \in 0..MaxRejudges

\* Once nothing is under way, a board shows exactly the accepted submissions of its period:
\* unless a call to Redis for that very key has failed, or a submission was judged in
\* another period than it was made in.
BoardsExact ==
    (\A s \in Subs : job[s] = NotCounting) =>
        LET spoilt == failed \cup crossed
            accepted == {s \in Subs : status[s] = "AC"}
        IN  /\ Key("all", 0) \notin spoilt => Shown("all") = Fallback
            /\ WeeklyKey \notin spoilt =>
                  Shown("weekly") = Cardinality({s \in accepted : PeriodKeys(made[s])[2] = PeriodKeys(day)[2]})
            /\ MonthlyKey \notin spoilt =>
                  Shown("monthly") = Cardinality({s \in accepted : MonthOf(made[s]) = MonthOf(day)})
=============================================================================
