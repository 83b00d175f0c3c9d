# PolyCodeHub, verified

TLA+ models of PolyCodeHub, an online judge: what its services do to the state
they share, checked with TLC on small instances, with nearly all of their safety
properties proved with TLAPS for all instances. Paths below are relative to the repository.

## 1. The system

| part | where | state it keeps | operations |
|---|---|---|---|
| gateway (Express) | `gateway/nest-gateway/src` | none of its own but the MQ channel; everything else is in Postgres and Redis | all HTTP endpoints |
| judge worker | `services/judge-service-python/app` | the job it holds | consume, judge, write back, count |
| auth service | `services/auth-service-java` | users (register), nothing for verify | register, login, verify |
| web client | `apps/web/app` | what a page shows | polling, pagination, sign-in state |
| Postgres | `infra/sql/init.sql` | users, problems, submissions, runs, contests, daily problems, ... | |
| Redis | | leaderboards, cached users, ban keys, versions, login failures, rate limits | |
| RabbitMQ | `mq/index.ts`, `amqp.py` | `judge.submissions`, `judge.dlq` | durable, prefetch 1, dead-letter |

How they meet:

* **Judging.** `POST /judge/submit` inserts a PENDING row and publishes a message.
  A worker takes it, judges, writes the verdict under a row lock, and then changes
  the leaderboard in Redis according to (old status, new status). It acknowledges
  last. `POST /admin/submissions/:id/rejudge` resets the row, takes the point back
  and publishes again. Nothing spans Postgres, Redis and the broker, so every gap
  between two calls is a place where another handler, another worker, a lost
  connection or a crash can come in.
* **Authentication.** Every request passes `getAuthUser`: a cached user in Redis,
  accepted when the token is not expired, no ban key stands in front, and the stored
  version is the current one; otherwise the auth service and the users row decide and
  the result is cached for 300 s. `PUT /admin/users/:id` updates the row, then the
  ban key, then increments the version.
* **Daily problem.** One row per Beijing day, written by PUT and lazily by GET, ended
  by POST end or by a settlement that a timer and every GET run.
* **Runs.** `POST /judge/run` takes the same queue and the same worker, without the
  leaderboard; the web page's run panel polls for the result.
* **Links.** The gateway keeps one connection to RabbitMQ, made again after a loss, and
  one client of Redis. Handlers take the channel of the moment.
* **Everything else** (statistics, contests, problems, solutions, profiles, messages,
  notifications, announcements) is queries and small transactions over the same
  database, and pages that load, change and load again.

What makes each part correct:

| part | must hold |
|---|---|
| judging pipeline | a solved submission counts once on the leaderboard, one that is not solved does not, whatever is redelivered, rejudged or lost; every submission gets a verdict |
| judge engine | the verdict is that of the first case that did not go well; limits are enforced; nothing of a program survives its judging |
| authentication cache | after an update was answered, nobody acts with the older role or ban; what is stale ends |
| account administration | an active administrator is always left |
| daily problem | a day is ended once, not before it is over, and in the end always |
| gateway's links | one chain of reconnections; a gateway that has lost its queue gets one again |
| POST /run and its panel | a run that was accepted is answered, with the result of its program, and the panel ends with the run asked for last |
| leaderboards by period | the three keys equal the accepted submissions of their period |
| login, registration | guesses are bounded although requests run in parallel, no lock is for ever, an address and a name belong to one user |
| problems, contests, imports | a request of several statements is applied whole or not at all |
| statistics | every list, ranking and profile counts the same submissions, at the boundaries of days and contests, too |
| profiles and sharing | nobody is sent what its owner has closed |
| web client | a page at rest shows the answer to its query, the verdict of the newest submission, the server's state; a session that ended is noticed; redirections end |

Hard to test, and therefore what the properties are about: counters written behind
the table, at-least-once delivery with an error path that writes the row, check and
act in separate queries, cached state compared with a version read at another moment,
days that change between two queries. `PROJECT.json` lists each at its line.

## 2. Modules

| module | what it is | code |
|---|---|---|
| `JudgePipeline` | submit, rejudge, broker, workers, table, counter | `routes/judge.ts`, `routes/admin.ts`, `worker.py`, `repository.py`, `redis.py`, `amqp.py` |
| `ScoreLedger` | the abstract counter: each change of a row is booked once and applied once | what `worker.py:47-56` promises |
| `JudgePipelineProofs` | type correctness, that no point is lost and none counted twice, flag and verdict, pending rows, the refinement of `ScoreLedger`, the exact counter | |
| `AuthCache` | one user: getAuthUser, logout, PUT /users/:id | `middleware/auth.ts`, `routes/auth.ts`, `routes/admin.ts` |
| `AuthCacheProofs` | type correctness, the version check, expired tokens, the first ban | |
| `UserAdmin` | the guards of PUT /users/:id over all users | `routes/admin.ts` |
| `UserAdminProofs` | that requests served one by one never lock the system | |
| `DailyProblem` | PUT, end, GET, timer, midnight | `services/daily.ts`, `routes/admin.ts`, `main.ts` |
| `JudgeEngine` | one worker process judging: cases, subprocesses, helper, cgroup | `engine.py`, `sandbox_helper.py`, `cgroup.py` |
| `GatewayLinks` | the gateway's connections, timers and shutdown | `mq/index.ts`, `redis/index.ts`, `main.ts` |
| `RunPipeline` | POST /run, worker, polling of the run panel | `routes/judge.ts`, `worker.py`, `repository.py`, `RunPanel.tsx` |
| `LoginGuard` | limiter, failure counter, login, registration | `routes/auth.ts`, `rateLimit.ts`, `AuthService.java` |
| `WebSession` | a tab, its stored user, the cookie and the server | `useAuth.ts`, `lib/api.ts`, `AuthGate.tsx`, `NavBar.tsx`, `login/page.tsx` |
| `Statistics` | every query that counts submissions | `services/daily.ts`, `routes/users.ts`, `problems.ts`, `contests.ts`, `leaderboard.ts`, `submissions.ts`, `admin.ts` |
| `PeriodBoards` | the three keys of a leaderboard, over days | `redis.py`, `worker.py`, `routes/admin.ts`, `routes/leaderboard.ts`, `constants.ts` |
| `ProblemBank` | problems, test cases and contests with their transactions | `routes/admin.ts`, `routes/contests.ts` |
| `Community` | profiles, visibility, follows, favourites, messages, solutions, sharing, announcements | `routes/users.ts`, `solutions.ts`, `submissions.ts`, `info.ts`, `services/home.ts` |
| `ListPages` | 28 screens that load and change a list | `hooks/useData.ts`, the pages under `apps/web/app` |
| `SubmitPage` | the page of a problem while it submits and polls | `problems/[id]/page.tsx`, `usePollSubmission.ts` |
| `OptimisticPages` | copies that are changed without loading again | `profile/page.tsx`, `users/[username]/page.tsx`, `notifications.ts` |
| `MCRecords`, `MCProgress`, `MCVisitors`, `MCParts` | several components that share no state in one run | |
| `MCProgressProofs` | login, links, runs and session of `MCProgress` | |
| `MCPartsProofs` | accounts, daily problem and judge engine of `MCParts` | |
| `MCVisitorsProofs` | social functions and web pages of `MCVisitors` | |
| `MCRecordsProofs` | period boards and problem bank of `MCRecords` | |
| `MCStatisticsProofs` | statistics of `MCRecords`, and the types of all its parts | |
| other `MC*` | constants and symmetry for TLC | |

Names follow the source. Operators named `X_Y` after an action `X` and commented
"Mutated" are deliberately wrong variants of `X`; no specification uses them. Each
property of a passing run is violated when one of them takes the place of its
original, which shows that the property depends on that line of the code.

### JudgePipeline

A message is named after the handler that publishes it (a submit publishes one, a
rejudge publishes one). `gw` is where a handler stands: `new`, `update` (the row is
read), `undo` (the point is to be deducted), `send`, `mark` (the catch block), `done`.
`wpc` is where a worker stands: `load`, `judge`, `inc`/`dec` (verdict committed, the
counter not yet changed), `ack`, `mark`/`undo`/`nack` (the error path). `conn` says
whether the broker still holds the connection: when it drops, the message is ready
again while the worker goes on, because `BlockingConnection` serves no heartbeat
during a callback. `credit` is what a submission has added to its author's score in
`leaderboard:ac`; verdicts other than AC are one value, `WA`, since nothing tells them
apart. Faults are named and counted: `crash`, `conn`, `redis`, `db`, `gateway`,
`publish`.

`RejudgeOnlyCounted` restricts the administrators, not the code: with TRUE they only
rejudge a submission that they read as AC and counted, the branch with the conditional
UPDATE. The other branch has the race of `judge_rejudge_race`.

### AuthCache and UserAdmin

PUT /users/:id touches two things that are modelled apart, because they do not
interact: the rows of *other* users (guards, `UserAdmin`), and the keys of the *one*
user it names (`AuthCache`). In `AuthCache` a guard that refuses is the action
`Refuse`. In `UserAdmin` the cache is the set `trusted`: a user who was an
administrator may stay in it until `Notice`.

A slot of `Requests` serves requests one after the other, so two slots stand for any
number of requests with two in flight. Durations are counted down by `Tick`, and need
no bound. `epoch`, `floor`, `since`, `made` and `raced` are history variables: they
number the UPDATEs and say which of them a request must have seen.

### DailyProblem

Days are numbers; `today` moves at `Midnight`, between any two queries. `SettleSelect`, `SettleFilter`
and `SettleUpdate` are one procedure, run by a timer and twice by each GET.

### JudgeEngine

What `JudgePipeline` takes as one step of a worker (judge, then a status) is opened up
here. `pc` follows one submission: `create` (cgroup), `spawn`, `reading`
(`_communicate_capped`), `kill` and `destroy` (the `finally` of `_run_subprocess` and of
its callers), `judge` (one turn of the loop over the cases), `done`. A compiled language
goes through `create` .. `destroy` twice, with `phase` `compile` and then `run`. `held`
is what a `finally` still has to remove. Beside the engine run the program (`prog`,
what it did in `beh`), `sandbox_helper` (`helper`: waiting in `wait4`, reaped, gone) and
a background process of the program (`stray`), in its process group or in a session of
its own, with or without the pipes: the engine reads until nobody holds the pipes, or
until the deadline.

Standard error is a sequence of lines: a line of the program, a last line without
newline (`part`), the helper's two markers (`cg`, `ru`), or a marker that has been
written behind an open line (`glued`), which the parser does not recognise. `full` says
that the output limit is reached and the rest dropped. `cum` is `RUSAGE_CHILDREN` of the
worker, the peak of all its children so far, which the engine falls back on.

The memory of a run has three sizes (`Sizes`), because two figures are compared with
`MEMORY_LIMIT_KB` = 524288: the program's own peak, in kilobytes, and `memory.peak` of the
cgroup, which the helper passes on in bytes. `tiny` is at most 524288 bytes by the cgroup
(page cache included), `high` is more than 524288 KB by the program itself, `usual` is what
lies between. The cgroup's number is above the limit for every size but `tiny`
(`CgroupPeakIsHigh`); the program deserves MLE only when it is `high` (`Deserved`).

`fact` and `truths` are history variables: what each case deserved, from what the
program did, and whether its memory was misread (`Misread`). There are three ways: the
peak of an earlier child behind a lost marker, the cgroup's bytes taken for kilobytes, and
the 0 that stands for an unknown peak; each has a run that shows it. `leaked`
remembers a cgroup directory that stayed. Abstracted: an output is right or wrong; exit code 24 counts as SIGXCPU; exceptions
before the subprocess have the effect of `SpawnRaises`; inputs of test cases fit into a
pipe, so that writing them does not block; removing a temporary directory does not
fail. A worker that crashes in the middle of a judging leaves its directories; what it
does to the submission is in `JudgePipeline`. `SimulatedJudgeEngine` (a test double) and
`run_code` (the engine's side of POST /run) are not modelled; what the worker does with
`run_code` is in `RunPipeline`.

### RunPipeline

`gw` is the handler of a run, `msg` its message, `work` what a worker holds, `panel`
what the page shows and polls, `gets` its GETs under way. `onRun` clears the interval of
the run before; GETs are not cancelled, and any number of them may be under way (`gets`).
`late` remembers that an answer came which the panel was not polling for any more: one of
an older run, or a PENDING of the newest run after its final status. `PanelShowsNewest`
excludes those answers, which the code shows: see section 3. `Quiet` is a run with which
nobody is concerned any more, acknowledged, dead-lettered or never queued.

### GatewayLinks

`conn` holds the state of every connection ever made, `current` the one the module
variable names, `channel` the channel handlers take, `timers` the reconnections that are
scheduled. `Fault` is what the network may do to each of them.

### LoginGuard

One e-mail address and one IP address: those share a counter. `Counted` is the Lua
script of both counters, `Tick` Redis's clock. `told` are the registrations that were
answered with a success.

### WebSession

A tab has a page, a stored user (`ui`) and requests under way; the cookie is shared by
all tabs, and other tabs (`Elsewhere`), time (`Expire`) and administrators (`Ban`) change
it and the session behind it. `NavBar`'s poll is the only request that is sure to come.
`loads` counts the loads of a tab that nobody asked for; a login in any tab counts them
anew in all of them, since all tabs have the one cookie it has set.

### Statistics

`subs` is the table of submissions; every query is an operator on it, written the way
the SQL groups and filters, and `AnswersAgree` states which of them must give the same
numbers: a day's result, its history and its top list; a person's profile, badges,
solved list and leaderboard rank; problem list, problem detail and the totals of the
administrators; a contest's ranking and the submissions tied to it. Times are ticks;
the boundaries of days and contests are ticks, too, at which submissions fall.
`POST /submit` has two steps: `SubmitSelect` picks the contest (of several that are running
the one with the least id), `SubmitInsert` makes the row with the time of its own. In
between the clock may pass the end of the contest, so that its ranking counts a submission
made after it, and administrators may change or delete the contest or the
problem; the foreign keys refuse what refers to a row that is gone. `seen` in a row is a
history variable: the contests that `GET /contests/:id` showed as running when the request
looked. One user has one such request under way at a time, and gateway and PostgreSQL share
a clock. Penalties are the differences to a start that may have been moved (`GREATEST(.., 0)`).
`MyBadges` and `BadgesOf` are two handlers with one body between them, translated separately.
`routes/leaderboard.ts:63-82` has no order among equal counts: `NameOrder` is one of
those that PostgreSQL may produce. The difference of 8 hours between the UTC dates of
the activity map and Beijing days is left out. `Sorted` gives each element the place that the
number of those before it names, the orders are definitions of their own, and `Total` is a
fold of the community modules: forms that TLC evaluates and a proof can reason about.

### PeriodBoards

Days in a row, with their weekday and month. `job` is a worker that is applying the
three increments, one `ZINCRBY` a step. `GetWeekKey`, `WeeklyKey` and `PeriodKeys` are
the three places that compute a week's key, each in its own way. `NextKey` is the step
from one key to the next, after an increment that worked as after one that failed.

### ProblemBank

A request of several rows holds a transaction: the rows it has written are visible to
others from `Commit` on, and a row with the same key waits for the transaction that has
it (`Holders`). `Jobs` are the requests, as their bodies say. `tables` change in one
step for handlers of one statement. The entries of a contest are a function of their
`sort_order`: the loop that writes them counts places (`Places`, `Row`), and deleting a
problem leaves a gap (`Keeping`); `Before` is the order in which a loop writes its rows.

### Community

`req` is one request, served query by query, while `tables` change under it: what an
answer contains may be of several moments, but must have been open to the reader
(`OnlyWhatIsOpen`) at some moment since the name in the path was resolved: `could` collects
what has been open since. An owner who closes a module while a request is under way may
still find it in that answer.

### ListPages, SubmitPage, OptimisticPages

`ListPages` is one pattern with traits, and `Screens` says which page has which: does
its effect depend on a query, does its clean-up cancel, do its handlers reload, patch
or do nothing, does a button wait. `crossed` remembers that a load or a change was sent
while another was under way. What a page shows is the query it was asked for and the
changes it contains, so that two things are not seen: the lists of followers are emptied by
a failed load (which the property leaves out, like every page after a failure), and a
message that a load and the patch of its own handler both bring is shown twice
(`users/[username]/page.tsx` line 137, after loads that crossed). `SubmitPage` has the
message line that four parts of a page
write; `OptimisticPages` has the three places that keep their own copy. Several changes of
a copy may be under way at a time, and the server may make them in any order: an answer's
roll-back undoes what others changed since, and of two sets of switches the older one may be
made last (`Overtaken`). `unsure` remembers those cases.

### Composition

Parts that share no variable are checked together, one chosen by `Init`, the others
staying in one initial state, so that the state space is the sum of theirs, not the
product. A property of an `MC` module is that of its part, under the same name. The
constants of the parts are constants of the `MC` module, given values in its .cfg, with
the assumptions of the parts as its own: a theorem about `PartsSpec` therefore speaks of
every value of them. The
pipeline's state is shared where components interact: gateway handlers, broker, workers,
table and counter are one module, and so are panel, handler and worker of a run, tab and
session, request and tables.

## 3. Runs

| run | property | shows |
|---|---|---|
| `judge_exact` | `PartsTypeOK`, `ExactCredit`, `LedgerKept` | two rejudges of an AC, two workers, a lost connection or publish: the counter is exact, and the pipeline implements `ScoreLedger`, liveness included |
| `judge_exact` | `AnswersAgree` | any two submissions, rejudged, deleted, at any tick, two contests that overlap and one change of them: all queries agree, and a submission is tied to the contest it was shown |
| `judge_exact` | `BoardsExact` | a week and a month that end: the keys are exact unless a call failed or a rejudge crossed the boundary, and the page shows them |
| `judge_exact` | `ImportIsWhole` | two imports or contest changes at a time, with shared titles: all rows or none |
| `judge_faults` | `CountedIffAC`, `NeverUnderCounted`, `NeverOverCounted`, `PendingIsUnderway`, `PendingIsJudged` | rejudges of any row and two faults of any kind: each property names the faults that break it, and nothing else does |
| `judge_faults` | `QuietRunIsRight`, `RunIsAnswered`, `PanelShowsNewest` | two runs of a panel, two workers, two faults: a run that nobody is concerned with any more, dead-lettered or not, has its result or RE, and is PENDING only if a message or an UPDATE was lost; the panel shows the newest run unless an answer came late |
| `judge_faults` | `SingleChain`, `Reconnects` | any loss, at any moment of `initMq`: one chain, and a queue in the end |
| `judge_faults` | `RegisteredOnce`, `GuessesBounded`, `LockEnds` | two clients in parallel, Redis absent once |
| `judge_faults` | `UiSettles`, `RedirectsEnd` | a tab with a stored user whose cookie is not valid any more, because the session ran out or was ended in another tab, notices it (a ban is not part of it: its cookie stays valid), and login page and page do not send each other round |
| `auth_cache` | `StaleOnlyIfRaced`, `BanIsPrompt`, `ExpiredIsRefused`, `EventuallyFresh` | a PUT, time and a failing Redis call: the version is exact unless a fill overlaps the UPDATE, the ban key holds even when a stale user is cached, an expired token opens nothing, staleness ends with the entry |
| `auth_cache` | `PartsTypeOK`, `OnlyWhatIsOpen` | an answer contains nothing its owner had closed |
| `auth_cache` | `ShownIsCurrent`, `VerdictIsShown`, `OptimismAgrees` | the pages, with answers in any order and one failure; a copy agrees with the server after any overlapping changes that succeed, but for those listed below |
| `parts` | `TypeOK`, `NeverLocked` | requests one by one, stale administrators included: one is left |
| `parts` | `AutoOnlyWhenOver`, `EndingIsFinal`, `OverdueIsSettled` | settlement across midnight: never too early, never twice, never forgotten |
| `parts` | `FairVerdict`, `MarkersStayInside`, `CleanAfterwards`, `JudgingEnds` | the verdict is that of the first case that failed unless the memory of a case was misread, the helper's lines stay inside, nothing is left running, every judging ends |

Runs that find a disagreement (expected to fail; `findings` quotes the text they
contradict):

| run | what happens |
|---|---|
| `judge_rejudge_race` | a rejudge read PENDING, the worker then wrote AC and counted, the UPDATE by id resets the row without a deduction: the point counts twice |
| `judge_worker_crash` | a crash between `save_verdict` and `increment_ac`: AC, and never counted |
| `auth_stale_role` | row read, PUT complete, version read: the old role is cached as current for 300 s |
| `auth_role_bans` | changing only the role of a user whose timed ban is over bans them for good |
| `users_overlap` | two administrators demote each other |
| `daily_revived` | a PUT past its check reopens a day that has just been ended |
| `engine_marker` | a program leaves its last error line open, the marker is lost behind it, and a compiler or an earlier program that passed the limit makes this one MLE |
| `engine_bytes` | a cgroup on a kernel with `memory.peak`: the helper writes bytes where a number of kilobytes is expected, and a program that took more than 512 KiB is MLE |

### What the properties leave out

Disagreements and limits that the models show as well, or that were met while writing
them. No run is kept for them; where a property excludes one, it says so.

Counters and settings:

* `routes/admin.ts:425` says that a deduction Redis refuses is evened out when the
  submission is judged again; it is not, since the row is no longer counted by then
  (`NeverUnderCounted` excludes `redis` only because the fault also hits increments).
* `redis.py:34` logs an increment that fails and goes on: the row stays counted, the point is
  lost, and the three boards of `redis.py:32` differ when only one of their calls failed.
* A ban and an unban that cross (`routes/admin.ts:340`), or a request that still has
  the row of a ban that is over (`middleware/auth.ts:110`), delete the key of a new
  ban. That is why `BanIsPrompt` speaks of a first ban.
* `routes/admin.ts:294` looks only at demotions to "user": with "teacher" among the
  `Roles` of `parts`, `NeverLocked` is violated; the theorem of section 6 needs
  `GuardedRoles` for the same reason.
* `routes/admin.ts:563` writes the setting before it answers 409, so that a finished
  day shows a problem it was not played with.
* On a kernel with `memory.events` but without `memory.peak` the helper writes a peak of 0
  (`sandbox_helper.py:201`), which the engine prefers to the program's own figure: a
  program above the limit is accepted when the cgroup did not kill it. It is one of the
  three ways of `Misread`.
* `engine.py:501` destroys the cgroup so that nothing leaks. A directory stays when a
  limit cannot be written (`cgroup.py:115` has made it by then) and when `rmdir` meets a
  process that is still dying (`cgroup.py:188`); `leaked` becomes TRUE.

* `increment_ac` books on the week of the judging, a rejudge deducts from the week of
  `created_at`: `BoardsExact` excludes a rejudge or a judging across a boundary
  (`crossed`). Weekly and monthly keys never expire, and the fall-back of
  `routes/leaderboard.ts:63` shows all-time counts whatever period is asked for.
* The streak of a profile compares `String(r.d)` of a `DATE`, which node-postgres turns
  into a `Date`, with `YYYY-MM-DD` (`routes/users.ts:170-182` and `414-426`): it is always
  0. `Statistics` has this (`DateText`), and `MyBadges` and `BadgesOf` agree on it.
* `services/home.ts:38` says that the switches are merged into the stored ones; they are
  merged into the defaults. The home page of the administrators keeps a failed load to
  itself, and saving then resets every module.
* PUT /contests/:id with only one of start and end does not look at the other one.
* `routes/users.ts`: follow and unfollow return the number of followers, and the badges
  the number of solved problems, whatever the visibility says; comments of a solution
  that is not approved can be read by its id.

Runs, links and login:

* A late answer of an older run shows in the panel, and a final one ends the polling of the
  new run. Of two GETs of one run the older may be answered last: the panel then shows
  PENDING for good although it has stopped. Both are `late` in `PanelShowsNewest`. The
  polling of a run that stays PENDING never ends.
* With two workers, a connection lost during a run lets the first one's error path
  overwrite the OK of the second; `mark_run_error` keeps the older standard output.
* A connection whose channel or assertions fail stays open without an owner; an error of
  the channel alone is not healed; node-redis gives up after ten attempts and nobody
  calls `connectRedis` again.
* The limiter of login and registration refuses without Redis, the login lock lets
  through; a registration that outlasts the gateway's timeout answers 500 although the
  account exists.

Web client:

* Verifications that cross a login or a logout overwrite the stored user until the next
  poll, and `handleUnauthorized` clears a cookie without waiting, that of a new login
  included. Another user's login in a second tab is noticed with the next verification.
* `usePaginatedList` and most of the administrators' pages do not cancel: the last answer
  to arrive shows, whatever was asked last; a handler reloads with the query it has
  closed over; the reload clears the message of success. `ShownIsCurrent` excludes loads
  that cross.
* On the page of a problem, whatever writes the message last wins: the problem that
  comes late wipes the verdict (`covered` in `VerdictIsShown`).
* `markAsRead` that fails goes back to a copy that undoes another one's success;
  `markAllRead` that fails restores the number only (`unsure` in `OptimismAgrees`). A change
  that was made but whose answer is lost is rolled back on the page.
* The buttons of `saveModule` stay enabled while a PUT of all switches is under way: of two
  that both succeed the server may make the older one last, and then has other switches than
  the page shows.
* The star of a problem that is pressed before the GET of the favourites has answered is
  overwritten by that answer.

## 4. Bounds, and why they are enough

* Judging: one submission, because submissions share only workers; two rejudges (for
  the race between them) and two workers (for duplicate processing). `judge_exact` has one fault, a lost connection or
  publish; `judge_faults` has two of all six kinds (a lost connection *and* something else)
  and one rejudge. `CounterIsExact` holds for any number of each. Faults are counted *and* remembered
  by kind, so that a property can say which kinds it does not survive; the states
  without those kinds are where it is checked.
* Statistics: two submissions of two members to two problems, so that ties, repeated
  and failed attempts occur; three ticks, which are the first, the inner and the last of
  a day or contest; two contests of which the one with the greater id begins first, and
  one request that creates, changes or deletes a contest. Boards: two submissions from a
  Saturday to a Monday whose Sunday begins a month, one rejudge, one failing call. Bank: two requests at a time out of
  seven, with titles and inputs that collide, and one change by a third.
* Runs: two of one panel, two faults of different kinds and an error path that fails too.
  One GET at a time is enough for the row and its message, which a GET only reads; what
  several GETs do to the panel is covered by `PanelIsUpToDate`, for any number of them. Links: two connections, which is all that can be alive at a time, three faults.
  Login: two clients, a lock after two failures for two ticks, longer than the limiter's
  window as in the code. Session: one tab, two sessions of one user, two requests under
  way.
* Community: two members with three names (so that names can be exchanged), one of whom has
  solved the problem, three bodies of visibilities, two writes (a solution and what becomes
  of it). Lists: two queries, two changes, one
  failure. Submission page: two submissions, two further polls each. Copies: three notices
  of which two are listed, two modules, three presses.
* Authentication: one user and one token (two requests with two tokens share less
  than with one), two requests in flight, one PUT with time, bans and a fault;
  durations of one or two ticks. One role is enough, because the properties compare the
  numbers of the updates (`epoch`). That several PUTs may cross is covered by the
  theorem `StaleOnlyByOverlap`, which holds for any number of them.
* Users: two users, two requests, the roles "user" and "admin". A lock-out needs the
  last two administrators; the theorem `SerialNeverLocked` covers more of each.
* Daily problem: two days, two problems, one PUT, one end, one GET, one timer; the
  theorems of section 6 hold for any number of each, and `daily_revived` has two PUTs.
* Engine: one submission of up to two cases in an interpreted or a compiled language
  (a compiler and a program for each case, so that each child may meet the peak of one
  before it), one background process per program, three hosts: no cgroup; cgroups where
  they work, on a kernel with neither `memory.peak` nor `cgroup.kill`; cgroups required, on
  one with both, with a jail. `engine_marker` uses two submissions of one case,
  `engine_bytes` one.
* The passing runs, `users_overlap` and the engine runs may deadlock: their requests are
  used up.

## 5. Fairness

A worker that has a job finishes it, a handler that has begun ends, timers tick: weak
fairness on those steps (of the workers, the runs `judge_exact` and `judge_faults` ask only
that one of those that can go on does). Node runs every pending continuation, and a call
that fails throws, so that the next step is always taken. No fairness on requests, faults,
deletions or updates. `PendingIsJudged` holds until a fault `gateway`, `publish` or
`db` happens: a gateway that dies between INSERT and publish, a message lost by an
unconfirmed publish and an UPDATE that fails in the error path do leave a row PENDING;
nothing in the code looks for such rows. Crashes and lost connections do not.

For the authentication it is time only (`Tick`): `EventuallyFresh` holds although a request
or an update that has begun may never go on.

For the engine it is weak fairness on `EngineStep`: the worker keeps running and the
clock reaches the deadline. Nothing is assumed of the program, its background process,
the helper or the kernel: `JudgingEnds` holds although none of them ever ends.

The other components: a worker and a handler of a run go on as above (`RunIsAnswered`,
until a message is lost, an UPDATE fails or the gateway dies). Connecting, timers and
shutdown go on (`Links!Work`), and a stopped gateway is started again by its container;
nothing is assumed of the network but that it fails at most `MaxTrouble` times, so that
`Reconnects` is about what follows the last loss. Time passes in Redis (`Tick`):
`LockEnds` assumes nothing of the clients. In a tab, the interval of `NavBar` comes again
and again, and its answer is not delayed for ever: strong fairness on `Poll` and on the
answers, since leaving the page disables them in between. `UiSettles` holds with it.

## 6. Proofs

Every theorem holds for all values of the constants that satisfy the assumption of the
module, which the runs evaluate. What a theorem assumes beyond that is said with it. A
safety property is rarely inductive; the invariant named with it is what a step needs.

### Judging

* `JudgePipelineProofs!TypeCorrect`: `Spec => []TypeOK`.
* `JudgePipelineProofs!NeverLosesAPoint`: `Spec => []NeverUnderCounted`, that is
  `credit + owed >= counted` for every submission until a fault `redis` or `crash`
  happens, whatever rejudges, duplicate deliveries and error paths do. The
  inductive invariant `CountInv` adds to it that a worker that is not idle has a job
  (`JobOK`) and that an AC row is counted (`AcIsCounted`). `Owed` is a difference of
  cardinalities of sets of workers and handlers; the lemmas `OwedByWorker`,
  `OwedByHandler` and `OwedNothing` say how one step of one process changes it, and
  `CoveredByGateway` and `CoveredByWorker` go through the actions. The two faults
  excluded do lose points: see `judge_worker_crash` and section 3. `FaultsGrow` says
  that the faults only accumulate, so that a state without them has only predecessors
  without them.
* `JudgePipelineProofs!NeverCountsTwice`: `Spec => []NeverOverCounted`, the bound from the
  other side: `credit + owed <= counted +` the number of `Unpaid` rejudges, until a fault
  `redis`, `crash` or `db` happens (each drops a deduction that is decided). `Unpaid` are the
  rejudges that reset the row without a deduction (`routes/admin.ts:432`, the race of
  `judge_rejudge_race`) and those that owed one and died before it; redeliveries, workers
  whose connection is gone, lost publishes and everything else count nothing twice. The
  bound is not inductive: the catch block of submit overwrites whatever the row holds, an
  AC included, and deducts nothing, so the counter rises by one against the verdict. An AC
  is there before a submit has published only if a rejudge brought it to a worker, and only
  one that reset the row; `OverInv` keeps that as "nobody else has touched the row
  (`Fresh`), or the bound has a point in hand". It is stated for the verdict, which
  `AcIsCounted` puts below the flag: an AC overwritten by the catch block stays flagged.
  `PaidByGateway` and `ExcessByWorker` do the bookkeeping step by step, `FreshStep` says
  which step ends freshness, and `UndoneWasThere` that no worker forgets a deduction of a
  row that is there. (`OverInv` was checked with TLC before it was proved, for two rejudges
  and three faults.)
* `JudgePipelineProofs!FlagAndVerdictAgree`: `Spec => []CountedIffAC`. What makes it
  inductive (`FlagInv`): the catch block of submit is entered only after a failed publish,
  and no row is there before its submit inserts it.
* `JudgePipelineProofs!NobodyIsForgotten`: `Spec => []PendingIsUnderway`. "Somebody is on
  the way" is not inductive: a worker that has lost its connection may crash and take a
  row's only hope with it, as far as that formula knows. `PendingInv` therefore asks for
  somebody whom no crash silences (`SafelyUnderway`: a handler that will publish, a message
  that is ready, or a worker that is still connected), and for the broker's side of it
  (`HeldByOne`: a delivered message belongs to one connected worker).
* `JudgePipelineProofs!LedgerIsKept`: under `ExactSetting`, `Spec` implies the safety part of
  `ScoreLedger`: the initial state maps to its initial state and every step to a step or a
  stutter. `ExactSetting` is the setting of the run `judge_exact`: administrators rejudge
  only what they read as AC and counted, and of the faults only lost connections and lost
  publishes happen. Each of the others loses a booking; the unrestricted rejudge has the
  race of `judge_rejudge_race`. `ExactInv` adds that a row is known to nobody but its
  request until that has published it (`PrivateOK`), without which the catch block could
  overwrite a verdict.
* `JudgePipelineProofs!CounterIsExact`: `Spec => []ExactCredit` under `ExactSetting`, through
  the refinement: `Balanced` is an invariant of `ScoreLedger`, and `ExactCredit` is its image.

### Authentication and accounts

* `AuthCacheProofs!CacheTypeCorrect`: `Spec => []TypeOK`, with the strengthening that
  an update on its way to the ban key has asked for a ban (`BanAsked`).
* `AuthCacheProofs!StaleOnlyByOverlap`: `Spec => StaleOnlyIfRaced`. The property
  speaks of the step that grants a user; the inductive invariant `FreshInv` says why
  it is right: every user in the cache or in the hands of a request is `Exact` (read
  with an overlap, or of an older version, or as recent as every answered update); a
  request between its two reads holds the current row or is marked as overtaken; and
  the numbers of updates are ordered (`Ordered`). The UPDATE marks the readers it
  overtakes, and the INCR makes everything cached before it older.
* `AuthCacheProofs!ExpiredOpensNothing`: `Spec => ExpiredIsRefused`. A request that began
  late is on one of the three paths to a 401 (`LateIsRefused`).
* `AuthCacheProofs!FirstBanIsPrompt`: `Spec => BanIsPrompt`. Before the first UPDATE there
  is no ban anywhere (`NoBanYet`); after it, and until the second, the ban key stands as
  long as the ban of the row does, and a request that began after the answer has met it
  (`KeyGuardsBan`).
* `UserAdminProofs!SerialNeverLocked`: `Spec => []NeverLocked` when requests do not
  overlap and name the roles the guards know. The inductive invariant adds that one
  request is under way at most (`OneAtATime`) and what the guards have established when
  a request reaches its UPDATE (`UpdateIsHarmless`): it takes nothing away, or not from
  an administrator, or there is another one. `AnotherOne` is the step from the COUNT to
  that other one. Both assumptions are needed: see `users_overlap` and section 3.
  `MCPartsProofs!AnAdministratorIsLeft` is the same for the run `parts`, where requests do
  not overlap by construction; it takes the theorem in as an instance and assumes
  `Roles \subseteq {"user", "admin"}`.

### Daily problem and judge engine (`MCPartsProofs`)

* `RunningDaysGoOn`: `FairSpec => []AutoOnlyWhenOver`. Between the SELECT of a settlement
  and its UPDATE a day may begin, but the days it has collected stay in the past
  (`SettlesThePast`), because `today` only grows.
* `EndingsAreKept`: `FairSpec => EndingIsFinal`, an action property, from the condition
  `status = 'pending'` of both UPDATEs.
* `MarkersAreHidden`: `FairSpec => []MarkersStayInside`. While a program that is `Tame` is
  read, its output is whole lines, and ends with the helper's once that is gone
  (`TameOutput`), so that the parser recognises all of them (`ShownIsClean`).
* `NothingIsLeft`: `FairSpec => CleanAfterwards`. `Upkeep` says for every point of a case
  what is still to be removed and what may still run.
* `VerdictsAreFair`: `FairSpec => []FairVerdict`, for any hosts. `FairInv` follows the loop:
  as long as it goes on, every case so far went well or was misread. `MeasuredIsDeserved`
  compares what is measured with what the program deserves: where the figure is not the
  program's own, the verdict is right all the same when the program ran into the CPU limit,
  when the kernel killed it for memory, or when the figure is on the same side of the limit.
* `PartsKeepTypes`: `FairSpec => []TypeOK`.

### Login, links, runs, session (`MCProgressProofs`)

* `AccountsAreUnique`: `PartsSpec => []RegisteredOnce`. The property is inductive as it
  stands: it rests on the INSERT, not on the two checks before it.
* `GuessesAreBounded`: `PartsSpec => []GuessesBounded`. `GuessInv` counts the failures there
  will be when everybody who is guessing has failed.
* `OneChain`: `PartsSpec => []SingleChain`, inductive with the types: an event takes its
  connection out of the chain before it sets a timer, and a timer is used up by its attempt.
* `ResultsAreTrue`, `PanelIsUpToDate`: `PartsSpec => []QuietRunIsRight` and
  `[]PanelShowsNewest`, from one invariant `RunInv`: whatever fails, what was acknowledged
  or dead-lettered was written first, or the UPDATE failed (`Settled`); a message has one
  holder until a connection is lost, and what that holder has written stays (`OneHolder`);
  the panel polls the run it was asked for last and shows what it heard of it, until an
  answer comes late (`OneQuestion`, for any number of GETs under way).
* `TabsComeToRest`: `PartsSpec => []RedirectsEnd`. The bound 3 is not inductive; `Settling`
  says what is left to cause a load after one, two and three of them.
* `PartsTypes`: `PartsSpec => []PartsTypeOK`.

### Social functions and web pages (`MCVisitorsProofs`)

* `ClosedStaysClosed`: `PartsSpec => []OnlyWhatIsOpen`. `OpenIsWatched` relates a request
  that waits between two queries to the visibilities of the moment.
* `TheVerdictIsShown`: `PartsSpec => []VerdictIsShown`. The hook waits for one thing at a
  time (`OneThread`), what it holds is about the newest submission and true (`HookKnows`),
  and the message is the line the effect makes of it.
* `PagesShowTheAnswer`: `PartsSpec => []ShownIsCurrent`, for all 28 screens. As long as
  nothing has overtaken anything, one GET at most is live, and it brings the selected query
  with the page's own changes (`InOrder`). The screens that patch their list and announce a
  failed GET are right for another reason: they load once (`LoadsOnce`).
* `CopiesAgree`: `PartsSpec => []OptimismAgrees`. One invariant for each of the three
  copies (`ModulesInv`, `StarInv`, `NoticesInv`): what the server has, and what the copy will
  fall back to if the change under way fails. With several saves of the switches under way
  the page shows the newest, and the server has that or is still to make it (`IsNewest`).
* `VisitorsTypes`: `PartsSpec => []PartsTypeOK`.

### Period boards and problem bank (`MCRecordsProofs`)

* `BoardsAreExact`: `PartsSpec => []BoardsExact`. A key that nothing has spoilt holds the
  number of the submissions it counts at this moment, among them those whose increments or
  deductions are half done (`ScoreInv`, `Counts`); and a worker's keys differ from the
  submission's own only where both were marked as crossed (`KeysInv`).
* `BoardsTypeOK`: a lemma for `RecordsTypes` below. That a counter stays between bounds is
  not inductive; `BoundsInv` adds to the counter what is still to be added to it (`ToAdd`:
  submissions without a verdict, or whose worker has not reached the key) and takes from it
  what is still to be deducted (`ToTake`). Both sums are bounded by the submissions and the
  rejudges so far, and each step of one submission moves them by one at most (`BoundStep`).
* `ImportsAreWhole`: `PartsSpec => []ImportIsWhole`. An id that was deleted does not come
  back (`KnownInv`), rows of an import were written by its commit (`RowsInv`), a contest has
  what is left of the list it was given last (`ListInv`), and a list that was checked names
  nothing twice (`EntriesInv`). `NamedOnce` is why the count of the handler's check suffices.
* `BankTypeOK`: a lemma for `RecordsTypes`, from `ValuesInv`: a transaction inserts only rows
  of places of its job, and so only inputs and owners that are some.

### Statistics (`MCStatisticsProofs`)

* `FiguresAgree`: `PartsSpec => []AnswersAgree`, for any users, problems, contests and
  changes of them, runtimes and limits of the pages. The inductive part is small (`TableInv`, `TableAlways`):
  a row was made by now, for a problem that is still there; an accepted one has a runtime;
  one is tied to the first contest that was shown as running when its request looked, as
  long as that contest exists, and a request between its two statements holds that contest.
  That this survives a deleted problem rests on `RowsDeleted`, since the rows are numbered
  anew. Everything else is about one table at rest:
  + a sum over a set is the value of a recursive function. `OneSum` and `SomeSum` show that
    there is exactly one such function on a finite set, `TotalCounts` that figures which
    count the rows by some key add up to all the rows, `TotalBounded` that figures below a
    bound stay below its multiple. These are inductions over finite sets; they are made by
    taking a least counterexample (`LeastSet`, `LeastNumber`, from the library's `WFMin`),
    because the library's induction theorems cannot be instantiated;
  + a ranking is a list of its elements in order, without gaps and repetitions
    (`PlacesList`, for any strict total order on a finite set), applied to the order of each
    page (`SortedById`, `SortedByRuntime`, `SortedByScore`, `SortedByContest`);
  + the four parts of the property: `DailyFigures` (the fastest of a day is the same with
    either order among equal runtimes, `DayAgrees`; the days so far hold all submissions to a
    problem, each once, `DaysTogether`), `PersonFigures` (`OneAgrees`), `TotalFigures`,
    `ContestFigures` (`ScoreType`: nobody's penalty exceeds his solved problems times the
    time from the start to his last accepted submission).
* `RecordsTypes`: `PartsSpec => []PartsTypeOK`, from `TypeStep` of `JudgePipelineProofs` for the
  part judging, `TableInv`, `BoardsTypeOK` and `BankTypeOK`.

### Only model-checked

* Liveness: `PendingIsJudged`, `RunIsAnswered`, `Reconnects`, `LockEnds`, `UiSettles`,
  `EventuallyFresh`, `OverdueIsSettled`, `JudgingEnds`, and the fairness of `ScoreLedger` in
  `LedgerKept`. TLAPS does not reason about fairness and ENABLED.

Every invariant and every safety action property of the passing runs is proved.

## 7. Not modelled

* The seccomp filter and the sandbox's C code, and what the kernel does with limits: out
  of TLC's reach; they appear as ways in which a program ends.
* Cryptography (JWT signatures, password hashes), PUT /me/password.
* `run_code` of the engine, which is `judge` for one input without comparison.
* The audit log (append-only, nobody acts on it), health checks, configuration and the
  schemas that validate bodies.
* Of the web client: layout, wording and forms, `UserPicker` (which shows the matches of
  the text before until its debounce fires), the read marks of announcements and the
  dismissed banner in the browser's storage, the home page, the page that sends
  notifications. Theirs is one request or none.
* The general rate limiter, the same function as the modelled one with the other answer
  to a missing Redis.

## 8. What is left

1. `WebSession`, `Community`: what a page at rest says of the session, without fairness.
2. `Statistics`: the days of the activity map, which are UTC days, next to Beijing days.
