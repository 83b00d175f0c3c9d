------------------------------- MODULE MCParts -------------------------------
(***************************************************************************)
(* The components that share no state with any other, model-checked in one *)
(* run: Init picks the part that runs, the others stay where they start.   *)
(***************************************************************************)
EXTENDS Integers, Sequences, FiniteSets

CONSTANTS Users, Puts, Roles,                                              \* UserAdmin
          Problems, NoProblem, LastDay, Sets, Asked, Ends, Gets, Timers,   \* DailyProblem
          Hosts, MaxCases, MaxJobs, ErrKinds,                              \* JudgeEngine
          x, y, u1

VARIABLES part,
          role, banned, trusted, asking, ask,
          today, exists, row, setting, stage, date, overdue, got, answer,
          host, jobs, job, pc, phase, held, prog, beh, helper, stray, err, full,
          cum, res, verdict, fact, truths, leaked

usersVars == <<role, banned, trusted, asking, ask>>
dailyVars == <<today, exists, row, setting, stage, date, overdue, got, answer>>
engineVars == <<host, jobs, job, pc, phase, held, prog, beh, helper, stray, err,
                full, cum, res, verdict, fact, truths, leaked>>
vars == <<part, usersVars, dailyVars, engineVars>>

\* Requests served one at a time.
Accounts == INSTANCE UserAdmin WITH Overlap <- FALSE, pc <- asking

\* The PUT requests of DailyProblem are Sets; the first of two names another problem.
Daily == INSTANCE DailyProblem WITH Puts <- Sets, pc <- stage

AskedXY == [u \in Sets |-> IF u = u1 THEN x ELSE y]

\* Without cgroups (the default), and with them on a kernel that has neither
\* memory.peak nor cgroup.kill and on one that has both.
ThreeHosts ==
    { [cgroup |-> "off", ns |-> FALSE, peak |-> TRUE, kill |-> TRUE],
      [cgroup |-> "auto", ns |-> FALSE, peak |-> FALSE, kill |-> FALSE],
      [cgroup |-> "require", ns |-> TRUE, peak |-> TRUE, kill |-> TRUE] }

Engine == INSTANCE JudgeEngine

ASSUME AccountsAssumption == Accounts!UserAdminAssumption
ASSUME DailyProblemAssumption == Daily!DailyAssumption
ASSUME JudgeEngineAssumption == Engine!EngineAssumption

\* A part that does not run has one initial state only.
Init ==
    /\ part \in {"accounts", "daily", "engine"}
    /\ part # "accounts" => ask = [p \in Puts |-> CHOOSE a \in Accounts!Asks : TRUE]
    /\ part # "accounts" => role = [u \in Users |-> "admin"]
    /\ part # "engine" => host = CHOOSE h \in Hosts : TRUE
    /\ Accounts!Init /\ Daily!Init /\ Engine!Init

Next ==
    \/ part = "accounts" /\ Accounts!Next /\ UNCHANGED <<part, dailyVars, engineVars>>
    \/ part = "daily" /\ Daily!Next /\ UNCHANGED <<part, usersVars, engineVars>>
    \/ part = "engine" /\ Engine!Next /\ UNCHANGED <<part, usersVars, dailyVars>>

\* The fairness of each part, for the part that runs.
FairSpec ==
    /\ Init /\ [][Next]_vars
    /\ \A t \in Timers : WF_dailyVars(part = "daily" /\ Daily!TimerStep(t))
    /\ WF_engineVars(part = "engine" /\ Engine!EngineStep)

-----------------------------------------------------------------------------
\* Every part keeps its types.
TypeOK == Accounts!TypeOK /\ Daily!TypeOK /\ Engine!TypeOK

\* Account administration: an active administrator is always left (UserAdmin).
NeverLocked == Accounts!NeverLocked

\* Daily problem: the settlement never ends a running day (DailyProblem).
AutoOnlyWhenOver == Daily!AutoOnlyWhenOver

\* Daily problem: how a finished day was ended is not rewritten (DailyProblem).
EndingIsFinal == Daily!EndingIsFinal

\* Daily problem: a day that is over is settled (DailyProblem).
OverdueIsSettled == Daily!OverdueIsSettled

\* Judge engine: the verdict is the first failing case's own (JudgeEngine).
FairVerdict == Engine!FairVerdict

\* Judge engine: the helper's lines are not shown to users (JudgeEngine).
MarkersStayInside == Engine!MarkersStayInside

\* Judge engine: no directory and no process is left (JudgeEngine).
CleanAfterwards == Engine!CleanAfterwards

\* Judge engine: every judging ends (JudgeEngine).
JudgingEnds == Engine!JudgingEnds
=============================================================================
