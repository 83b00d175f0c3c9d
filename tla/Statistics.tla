----------------------------- MODULE Statistics -----------------------------
(***************************************************************************)
(* What the platform counts.  The table submissions changes while users    *)
(* submit, the worker judges, administrators rejudge and problems are      *)
(* deleted; every page computes its own figures from it with queries of    *)
(* its own (services/daily.ts, routes/users.ts, problems.ts, contests.ts,  *)
(* leaderboard.ts, submissions.ts, admin.ts).  The figures that mean the   *)
(* same must be the same.                                                  *)
(***************************************************************************)
EXTENDS Integers, Sequences
INSTANCE FiniteSets
INSTANCE FiniteSetsExt

CONSTANTS
    Users, Problems,
    Difficulty,       \* of each problem
    NameOrder,        \* the position of each user's name; two users never have the same (UNIQUE)
    SolvedSteps, SubmissionSteps, StreakSteps,   \* thresholds of the badges
    MaxSubs,          \* bound: submissions
    LastTime,         \* bound: the clock runs from 0 to LastTime
    DayLength,        \* ticks of a Beijing day
    FirstContests,    \* the contests at the start, by id: from, to, problems
    ContestForms,     \* what administrators make of a contest
    MaxChanges,       \* bound: requests that create, change or delete a contest
    Runtimes,         \* runtime_ms of accepted programs
    DailyTop, BoardTop,   \* LIMIT 10 of the daily ranking, TOP_N of the leaderboard
    NoOne

Contest == [from : Nat, to : Nat, problems : SUBSET Problems]

StatisticsAssumption ==
    /\ IsFiniteSet(Users) /\ IsFiniteSet(Problems)
    /\ \A u, v \in Users : NameOrder[u] \in Nat /\ (NameOrder[u] = NameOrder[v] => u = v)
    /\ MaxSubs \in Nat /\ LastTime \in Nat /\ DayLength \in Nat \ {0}
    /\ DOMAIN FirstContests = 1..Len(FirstContests) /\ Len(FirstContests) \in Nat
    /\ \A c \in DOMAIN FirstContests : FirstContests[c] \in Contest
    /\ ContestForms \subseteq Contest /\ MaxChanges \in Nat
    /\ Runtimes \subseteq Nat \ {0} /\ DailyTop \in Nat \ {0} /\ BoardTop \in Nat \ {0}
    /\ NoOne \notin Users

VARIABLES
    now,
    problems,   \* the problems that are not deleted
    contests,   \* by id
    changes,    \* requests of administrators about contests
    asking,     \* by user: POST /submit between its two statements (one at a time, a bound)
    subs        \* submissions, ordered by id and so by created_at

vars == <<now, problems, contests, changes, asking, subs>>

NoContest == 0    \* contest_id IS NULL
NoRequest == [problem |-> NoOne]

Init ==
    /\ now = 0 /\ problems = Problems /\ contests = FirstContests /\ changes = 0
    /\ asking = [u \in Users |-> NoRequest] /\ subs = <<>>

\* ORDER BY: each element of S at the place that the number of those before it gives.
Sorted(S, Less(_, _)) == [k \in 1..Cardinality(S) |-> CHOOSE x \in S : Cardinality({y \in S : Less(y, x)}) = k - 1]
Earlier(i, j) == i < j

-----------------------------------------------------------------------------
(* How the table changes.                                                  *)

\* contestStatus: both ends belong to the contest.
ContestStatus(contest, time) ==
    IF time < contest.from THEN "upcoming" ELSE IF time > contest.to THEN "finished" ELSE "ongoing"

\* The contests of a problem that GET /contests/:id shows as running.
Ongoing(p) == {c \in DOMAIN contests : p \in contests[c].problems /\ ContestStatus(contests[c], now) = "ongoing"}

\* Mutated: the contest is open on its left end only.
Running_HalfOpen(p) ==
    {c \in DOMAIN contests : p \in contests[c].problems /\ now >= contests[c].from /\ now < contests[c].to}

\* The contests a new submission may be tied to: NOW() BETWEEN start_time AND end_time.
Running(p) ==
    {c \in DOMAIN contests : p \in contests[c].problems /\ now >= contests[c].from /\ now <= contests[c].to}

\* POST /submit, the SELECTs: of several contests the one with the least id.  (The problem
\* is looked up just before; if it goes in between, the INSERT fails all the same.)  What
\* the pages showed at that moment is kept for the properties.
SubmitSelect(u, p) ==
    /\ asking[u] = NoRequest /\ p \in problems
    /\ Len(subs) + Cardinality({v \in Users : asking[v] # NoRequest}) < MaxSubs
    /\ asking' = [asking EXCEPT ![u] = [problem |-> p, contest |-> IF Running(p) = {} THEN NoContest ELSE Min(Running(p)),
                                        seen |-> Ongoing(p)]]
    /\ UNCHANGED <<now, problems, contests, changes, subs>>

\* The INSERT, at a NOW() of its own; the foreign keys refuse a problem or a contest that
\* was deleted since.
SubmitInsert(u) ==
    LET request == asking[u] IN
    /\ request # NoRequest
    /\ asking' = [asking EXCEPT ![u] = NoRequest]
    /\ subs' = IF request.problem \in problems /\ request.contest \in DOMAIN contests \cup {NoContest}
               THEN Append(subs, [user |-> u, problem |-> request.problem, time |-> now, status |-> "PENDING",
                                  runtime |-> 0, contest |-> request.contest, seen |-> request.seen])
               ELSE subs
    /\ UNCHANGED <<now, problems, contests, changes>>

\* The worker saves a verdict; the runtime matters when it is AC.
Judge(i) ==
    /\ subs[i].status = "PENDING"
    /\ \E v \in {[s |-> "WA", r |-> 0]} \cup {[s |-> "AC", r |-> r] : r \in Runtimes} :
          subs' = [subs EXCEPT ![i].status = v.s, ![i].runtime = v.r]
    /\ UNCHANGED <<now, problems, contests, changes, asking>>

\* Mutated: a status that the column does not know.
Rejudge_UnknownStatus(i) ==
    /\ subs[i].status # "PENDING"
    /\ subs' = [subs EXCEPT ![i].status = "REJUDGED", ![i].runtime = 0]
    /\ UNCHANGED <<now, problems, contests, changes, asking>>

\* A rejudge sets status and runtime_ms back.
Rejudge(i) ==
    /\ subs[i].status # "PENDING"
    /\ subs' = [subs EXCEPT ![i].status = "PENDING", ![i].runtime = 0]
    /\ UNCHANGED <<now, problems, contests, changes, asking>>

\* DELETE /problems/:id takes the submissions with it.
DeleteProblem(p) ==
    /\ p \in problems
    /\ problems' = problems \ {p}
    /\ LET left == Sorted({i \in DOMAIN subs : subs[i].problem # p}, Earlier) IN
       subs' = [k \in DOMAIN left |-> subs[left[k]]]
    /\ contests' = [c \in DOMAIN contests |-> [contests[c] EXCEPT !.problems = @ \ {p}]]
    /\ UNCHANGED <<now, changes, asking>>

\* An administrator creates a contest or gives one other times and problems (committed at
\* once: ProblemBank has the statements one by one); an id is drawn once.  A change of one
\* end only does not look at the other one.
NextContest == Len(FirstContests) + changes + 1
PutContest(c, form) ==
    /\ changes < MaxChanges /\ changes' = changes + 1
    /\ c \notin DOMAIN contests => form.from < form.to
    /\ form.problems \subseteq problems
    /\ contests' = [d \in DOMAIN contests \cup {c} |-> IF d = c THEN form ELSE contests[d]]
    /\ UNCHANGED <<now, problems, asking, subs>>

\* DELETE /contests/:id: its submissions stay (ON DELETE SET NULL).
DeleteContest(c) ==
    /\ changes < MaxChanges /\ changes' = changes + 1
    /\ contests' = [d \in DOMAIN contests \ {c} |-> contests[d]]
    /\ subs' = [i \in DOMAIN subs |-> [subs[i] EXCEPT !.contest = IF @ = c THEN NoContest ELSE @]]
    /\ UNCHANGED <<now, problems, asking>>

Tick == now < LastTime /\ now' = now + 1 /\ UNCHANGED <<problems, contests, changes, asking, subs>>

Next ==
    \/ Tick
    \/ \E u \in Users : SubmitInsert(u) \/ \E p \in Problems : SubmitSelect(u, p)
    \/ \E i \in DOMAIN subs : Judge(i) \/ Rejudge(i)
    \/ \E p \in Problems : DeleteProblem(p)
    \/ \E c \in DOMAIN contests \cup {NextContest}, form \in ContestForms : PutContest(c, form)
    \/ \E c \in DOMAIN contests : DeleteContest(c)

Spec == Init /\ [][Next]_vars

-----------------------------------------------------------------------------
(* SQL: sets of rows by id.                                                *)

Rows == DOMAIN subs
Where(Test(_)) == {i \in Rows : Test(subs[i])}
AC(R) == {i \in R : subs[i].status = "AC"}
UsersOf(R) == {subs[i].user : i \in R}
ProblemsOf(R) == {subs[i].problem : i \in R}
ByUser(u) == Where(LAMBDA s : s.user = u)
ByProblem(p) == Where(LAMBDA s : s.problem = p)

\* Math.round(part / total * 100), and 0 without any.
Percent(part, total) == IF total = 0 THEN 0 ELSE (200 * part + total) \div (2 * total)

\* LIMIT.
Limit(seq, n) == SubSeq(seq, 1, IF Len(seq) < n THEN Len(seq) ELSE n)

\* SUM.
Total(figure) == MapThenSumSet(LAMBDA x : figure[x], DOMAIN figure)

-----------------------------------------------------------------------------
(* services/daily.ts                                                       *)

Today == now \div DayLength
Days == 0..Today
DayStart(d) == d * DayLength

\* Mutated: the minute at which the next day starts belongs to both.
Within_Closed(s, d) == s.time >= DayStart(d) /\ s.time <= DayStart(d) + DayLength

\* bjDayStartUtc, bjDayEndUtc: the end is excluded.
Within(s, d) == s.time >= DayStart(d) /\ s.time < DayStart(d) + DayLength

\* ORDER BY runtime_ms; of two equal runtimes the earlier one, or either (here the later one).
Faster(i, j) == subs[i].runtime < subs[j].runtime \/ (subs[i].runtime = subs[j].runtime /\ i < j)
FasterOrLater(i, j) == subs[i].runtime < subs[j].runtime \/ (subs[i].runtime = subs[j].runtime /\ i > j)

Fastest(R, Less(_, _)) ==
    IF R = {} THEN [user |-> NoOne, runtime |-> 0]
    ELSE LET i == Head(Sorted(R, Less)) IN [user |-> subs[i].user, runtime |-> subs[i].runtime]

\* computeDailyResult: four queries, each with its own window clause.
ComputeDailyResult(d, p) ==
    LET window == {i \in ByProblem(p) : Within(subs[i], d)}
        firsts == {i \in AC(window) : \A j \in AC(window) : subs[j].user = subs[i].user => i <= j}
        ranking == Limit(Sorted(firsts, Earlier), DailyTop)
    IN  [ submissions |-> Cardinality(window),
          ac_submissions |-> Cardinality(AC(window)),
          ac_users |-> Cardinality(UsersOf(AC(window))),
          pass_rate |-> Percent(Cardinality(AC(window)), Cardinality(window)),
          fastest |-> Fastest({i \in AC(window) : subs[i].runtime # 0}, Faster),
          leaderboard |-> [k \in DOMAIN ranking |-> subs[ranking[k]].user] ]

\* computeHistorySummaries: two queries over all days at once.
ComputeHistorySummary(d, p) ==
    LET joined == {i \in Rows : subs[i].problem = p /\ Within(subs[i], d)}
    IN  [ submissions |-> Cardinality(joined),
          ac_submissions |-> Cardinality(AC(joined)),
          ac_users |-> Cardinality({u \in Users : \E i \in AC(joined) : subs[i].user = u}),
          fastest |-> Fastest({i \in AC(joined) : subs[i].runtime # 0}, FasterOrLater) ]

\* buildHistory: the rate is computed from the summary.
HistoryItem(d, p) ==
    LET summary == ComputeHistorySummary(d, p) IN
    [ submissions |-> summary.submissions, ac_users |-> summary.ac_users,
      pass_rate |-> Percent(summary.ac_submissions, summary.submissions),
      fastest |-> summary.fastest ]

-----------------------------------------------------------------------------
(* routes/users.ts                                                         *)

\* GET /me/stats.
MyStats(u) ==
    [ total |-> Cardinality(ByUser(u)), accepted |-> Cardinality(AC(ByUser(u))),
      solved |-> Cardinality(ProblemsOf(AC(ByUser(u)))),
      last |-> IF ByUser(u) = {} THEN 0 ELSE Max({subs[i].time : i \in ByUser(u)}) ]

\* GET /me/solved: DISTINCT problems, by id.
MySolved(u) == {p \in problems : \E i \in Rows : subs[i].problem = p /\ subs[i].user = u /\ subs[i].status = "AC"}

\* A DATE comes back from the driver as a Date object, whose String() is not the ISO text
\* that the cursor is compared as.
DateText(d) == [form |-> "toString", day |-> d]
IsoText(d) == [form |-> "ISO", day |-> d]

\* The days in a row, up to today, on which something was accepted.
Streak(u) ==
    LET daySet == {DateText(subs[i].time \div DayLength) : i \in AC(ByUser(u))} IN
    Max({n \in 0..Today + 1 : \A k \in 0..n - 1 : IsoText(Today - k) \in daySet})

\* The badges of GET /me/badges: the rows come grouped by status, the sum of the groups is
\* the number of submissions.
MyBadges(u) ==
    LET groups == {subs[i].status : i \in ByUser(u)}
        counted(status) == Cardinality({i \in ByUser(u) : subs[i].status = status})
        total == Total([status \in groups |-> counted(status)])
        solved == IF "AC" \in groups THEN Cardinality(ProblemsOf(AC(ByUser(u)))) ELSE 0
        acCount == IF "AC" \in groups THEN counted("AC") ELSE 0
        diffCount == Cardinality({Difficulty[p] : p \in MySolved(u)})
    IN  [ first_blood |-> acCount >= 1,
          earned_at |-> IF acCount = 0 THEN LastTime + 1 ELSE Min({subs[i].time : i \in AC(ByUser(u))}),
          solved_at |-> {n \in SolvedSteps : solved >= n},
          sub_at |-> {n \in SubmissionSteps : total >= n},
          streak_at |-> {n \in StreakSteps : Streak(u) >= n},
          all_rounder |-> diffCount >= Cardinality({Difficulty[p] : p \in Problems}),
          solved |-> solved, submissions |-> total, streak |-> Streak(u) ]

\* Mutated: WHERE status = 'AC' is on the groups as well.
BadgeRows_Accepted(u) ==
    {[status |-> "AC", cnt |-> Cardinality(AC(ByUser(u))), solved |-> Cardinality(ProblemsOf(AC(ByUser(u))))]
        : i \in AC(ByUser(u))}

\* GET /:username/badges is a handler of its own: the row of each status has its count, and
\* the problems of its accepted submissions (FILTER).
BadgeRows(u) ==
    {[status |-> s, cnt |-> Cardinality({j \in ByUser(u) : subs[j].status = s}),
      solved |-> Cardinality({subs[j].problem : j \in {k \in AC(ByUser(u)) : subs[k].status = s}})]
        : s \in {subs[i].status : i \in ByUser(u)}}

BadgesOf(u) ==
    LET acRows == {row \in BadgeRows(u) : row.status = "AC"}
        acRow == IF acRows = {} THEN [cnt |-> 0, solved |-> 0] ELSE CHOOSE row \in acRows : TRUE
        total == Total([row \in BadgeRows(u) |-> row.cnt])
        difficulties == {Difficulty[subs[i].problem] : i \in AC(ByUser(u))}
    IN  [ first_blood |-> acRow.cnt >= 1,
          solved_at |-> {n \in SolvedSteps : acRow.solved >= n},
          sub_at |-> {n \in SubmissionSteps : total >= n},
          streak_at |-> {n \in StreakSteps : Streak(u) >= n},
          all_rounder |-> Cardinality(difficulties) >= Cardinality({Difficulty[p] : p \in Problems}),
          solved |-> acRow.solved, submissions |-> total, streak |-> Streak(u) ]

\* GET /:username, when the module is shown: three queries.
ProfileStats(u) ==
    [ submissions |-> Cardinality(ByUser(u)),
      solved_count |-> Cardinality(ProblemsOf(AC(ByUser(u)))),
      ac_count |-> Cardinality(AC(ByUser(u))),
      solved |-> {subs[i].problem : i \in AC(ByUser(u))},
      activity |-> [d \in {subs[i].time \div DayLength : i \in AC(ByUser(u))} |->
                      Cardinality({i \in AC(ByUser(u)) : subs[i].time \div DayLength = d})] ]

-----------------------------------------------------------------------------
(* routes/problems.ts, routes/contests.ts                                  *)

\* GET /problems: LEFT JOIN submissions, one row per problem.
ProblemList ==
    [p \in problems |->
        [ ac_count |-> Cardinality(AC(ByProblem(p))), submission_count |-> Cardinality(ByProblem(p)),
          ac_rate |-> Percent(Cardinality(AC(ByProblem(p))), Cardinality(ByProblem(p))) ]]

\* GET /problems/:id.
ProblemDetail(p) ==
    LET joined == {i \in Rows : subs[i].problem = p}
        accepted == {i \in joined : subs[i].status = "AC"}
    IN  [ ac_count |-> Cardinality(accepted), submission_count |-> Cardinality(joined),
          ac_rate |-> Percent(Cardinality(accepted), Cardinality(joined)) ]

\* GET /contests/:id/leaderboard: the first AC of each user on each problem; a penalty of a
\* submission made before the start (which may have been moved) counts as 0.
Tied(c, u) == {i \in AC(ByUser(u)) : subs[i].contest = c}
ContestScore(c, u) ==
    LET firstAc(p) == Min({subs[i].time : i \in {j \in Tied(c, u) : subs[j].problem = p}})
    IN  [ ac_count |-> Cardinality(ProblemsOf(Tied(c, u))),
          penalty |-> Total([p \in ProblemsOf(Tied(c, u)) |-> Max({firstAc(p) - contests[c].from, 0})]) ]

\* ORDER BY ac_count DESC, penalty_sec ASC, username ASC.
Ahead(c, u, v) ==
    LET score == ContestScore(c, u)
        other == ContestScore(c, v)
    IN  \/ score.ac_count > other.ac_count
        \/ /\ score.ac_count = other.ac_count
           /\ \/ score.penalty < other.penalty
              \/ score.penalty = other.penalty /\ NameOrder[u] < NameOrder[v]
ContestBoard(c) == Sorted({u \in Users : Tied(c, u) # {}}, LAMBDA u, v : Ahead(c, u, v))

-----------------------------------------------------------------------------
(* routes/leaderboard.ts, submissions.ts, admin.ts                         *)

\* fillStats, for the users who have a row, and decorateItems, which gives the others 0.
FillStats(users) ==
    [u \in {v \in users : ByUser(v) # {}} |->
        [ submission_count |-> Cardinality(ByUser(u)),
          pass_rate |-> Percent(Cardinality(AC(ByUser(u))), Cardinality(ByUser(u))) ]]
DecorateItem(u, users) ==
    IF u \in DOMAIN FillStats(users) THEN FillStats(users)[u] ELSE [submission_count |-> 0, pass_rate |-> 0]

\* GET /leaderboard when Redis does not answer: all AC rows, whatever the period asked for.
More(u, v) ==
    \/ Cardinality(AC(ByUser(u))) > Cardinality(AC(ByUser(v)))
    \/ Cardinality(AC(ByUser(u))) = Cardinality(AC(ByUser(v))) /\ NameOrder[u] < NameOrder[v]
FallbackBoard ==
    LET top == Limit(Sorted({u \in Users : AC(ByUser(u)) # {}}, More), BoardTop)
    IN  [k \in DOMAIN top |-> [user |-> top[k], ac_count |-> Cardinality(AC(ByUser(top[k])))]]

\* GET /admin/stats.
AdminStats ==
    LET statuses == {subs[i].status : i \in Rows} IN
    [ problems |-> Cardinality(problems), users |-> Cardinality(Users), submissions |-> Len(subs),
      distribution |-> [s \in statuses |-> Cardinality({i \in Rows : subs[i].status = s})] ]

\* GET /admin/users: LEFT JOIN submissions.
AdminUser(u) ==
    [submission_count |-> Cardinality(ByUser(u)), ac_count |-> Cardinality(AC(ByUser(u)))]

\* A list with a filter: COUNT(*), then the page LIMIT limit OFFSET (page - 1) * limit of
\* the rows in the order of their ids.
Listing(R, Less(_, _), page, limit) ==
    LET all == Sorted(R, Less) IN
    [ total |-> Cardinality(R),
      items |-> SubSeq(all, (page - 1) * limit + 1,
                       IF Len(all) < page * limit THEN Len(all) ELSE page * limit) ]
Newest(i, j) == i > j

\* GET /submissions: one's own, by status and problem (language is a third filter).
SubmissionList(u, status, p, page, limit) ==
    Listing(Where(LAMBDA s : s.user = u /\ s.status \in status /\ s.problem \in p), Newest, page, limit)

\* GET /admin/submissions: everybody's, by status, user and problem.
AdminSubmissions(status, users, ps, page, limit) ==
    Listing({i \in Rows : subs[i].status \in status /\ subs[i].user \in users /\ subs[i].problem \in ps},
            Newest, page, limit)

-----------------------------------------------------------------------------
\* Every variable keeps its type.
TypeOK ==
    /\ now \in 0..LastTime /\ problems \subseteq Problems /\ changes \in 0..MaxChanges
    /\ \A c \in DOMAIN contests : c \in 1..NextContest - 1 /\ contests[c] \in Contest
                                 /\ contests[c].problems \subseteq problems
    /\ \A u \in Users : asking[u] # NoRequest => asking[u].problem \in Problems /\ asking[u].contest \in 0..NextContest - 1
    /\ \A i \in Rows :
          subs[i] \in [user : Users, problem : Problems, time : 0..LastTime,
                       status : {"PENDING", "WA", "AC"}, runtime : Runtimes \cup {0},
                       contest : DOMAIN contests \cup {NoContest}, seen : SUBSET (1..NextContest - 1)]

\* The page of a finished day and its line in the history; the days together.
DailyAgrees ==
    /\ \A d \in Days, p \in problems :
          LET result == ComputeDailyResult(d, p)
              item == HistoryItem(d, p)
          IN  /\ result.submissions = item.submissions /\ result.ac_users = item.ac_users
              /\ result.pass_rate = item.pass_rate /\ result.pass_rate \in 0..100
              /\ result.fastest.runtime = item.fastest.runtime
              /\ (result.fastest.user = NoOne) = (result.leaderboard = <<>>)
              /\ Len(result.leaderboard) = Min({result.ac_users, DailyTop})
    /\ \A p \in problems :
          Total([d \in Days |-> ComputeDailyResult(d, p).submissions]) = ProblemDetail(p).submission_count

\* A user's own pages, the public profile, the leaderboard and the list of users.
PersonAgrees ==
    \A u \in Users :
        LET mine == MyStats(u)
            badges == MyBadges(u)
            shown == BadgesOf(u)
            public == ProfileStats(u)
        IN  /\ mine.solved = Cardinality(MySolved(u)) /\ public.solved = MySolved(u)
            /\ badges.solved = mine.solved /\ public.solved_count = mine.solved
            /\ badges.submissions = mine.total /\ public.submissions = mine.total
            /\ Total(public.activity) = mine.accepted
            /\ badges.first_blood = (mine.solved > 0)
            /\ shown.first_blood = (public.ac_count > 0) /\ shown.solved_at = badges.solved_at
            /\ shown.sub_at = badges.sub_at /\ shown.all_rounder = badges.all_rounder
            /\ shown.solved = public.solved_count /\ shown.submissions = public.submissions
            /\ AdminUser(u).ac_count = mine.accepted /\ public.ac_count = mine.accepted
            /\ DecorateItem(u, Users).submission_count = AdminUser(u).submission_count
            /\ DecorateItem(u, Users).pass_rate = Percent(mine.accepted, mine.total)

\* The platform's totals: by problem, by user, by status and in the lists.
TotalsAgree ==
    LET ofUser(u) == AdminUser(u).ac_count
        accepted == IF "AC" \in DOMAIN AdminStats.distribution THEN AdminStats.distribution["AC"] ELSE 0
        every == {"PENDING", "WA", "AC"}
    IN  /\ Total([p \in problems |-> ProblemList[p].ac_count]) = accepted
        /\ Total([u \in Users |-> ofUser(u)]) = accepted
        /\ \A p \in problems : ProblemList[p] = ProblemDetail(p)
        /\ Len(FallbackBoard) = Min({BoardTop, Cardinality({u \in Users : ofUser(u) > 0})})
        /\ AdminSubmissions(every, Users, Problems, 1, 1).total = AdminStats.submissions
        /\ \A u \in Users : SubmissionList(u, {"AC"}, Problems, 1, 1).total = ofUser(u)

\* A submission is tied to the first of the contests with its problem that were shown as
\* running when its request looked (it may be made later, after the end), as long as that
\* contest exists.  The ranking of a contest has everyone who solved one of its problems
\* so, once, the better one first, and counts a problem once however often it was solved.
ContestAgrees ==
    /\ \A i \in Rows :
          LET first == IF subs[i].seen = {} THEN NoContest ELSE Min(subs[i].seen)
          IN  subs[i].contest = IF first \in DOMAIN contests THEN first ELSE NoContest
    /\ \A c \in DOMAIN contests :
          /\ Len(ContestBoard(c)) = Cardinality({u \in Users : Tied(c, u) # {}})
          /\ \A k \in DOMAIN ContestBoard(c) :
                LET u == ContestBoard(c)[k]
                    score == ContestScore(c, u)
                    last == Max({subs[i].time : i \in Tied(c, u)})
                IN  /\ score.ac_count \in 1..MyStats(u).solved
                    /\ score.penalty <= score.ac_count * Max({last - contests[c].from, 0})
                    /\ k > 1 => ContestScore(c, ContestBoard(c)[k - 1]).ac_count >= score.ac_count

\* Two pages that show one figure show one value, whatever was submitted, judged, rejudged
\* or deleted, at the boundaries of days and of contests too.
AnswersAgree == DailyAgrees /\ PersonAgrees /\ TotalsAgree /\ ContestAgrees
=============================================================================
