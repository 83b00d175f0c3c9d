------------------------------- MODULE MCRecords -------------------------------
(***************************************************************************)
(* What the tables and the counters say, model-checked in one run: the     *)
(* judging pipeline of MCJudgePipeline, the statistics, the leaderboards   *)
(* of a period, the problems and the contests.  They share no state here:  *)
(* PartsInit picks the one that runs, the others stay where they start.    *)
(* Where two modules have a variable of the same name, it is renamed.      *)
(***************************************************************************)
EXTENDS MCJudgePipeline, Sequences

CONSTANTS
    Members, Tasks, Difficulty, NameOrder, SolvedSteps, SubmissionSteps, StreakSteps,  \* Statistics
    MaxSubs, LastTime, DayLength, FirstContests, ContestForms, MaxChanges, Runtimes,
    DailyTop, BoardTop,
    Entries, FirstDay, LastDay, MonthStarts, MaxTrouble, MaxRejudges,               \* PeriodBoards
    Teacher, Other, Admin, Imports, Jobs, Titles, Inputs, NoOne, MaxEdits            \* ProblemBank

VARIABLES
    part,
    \* Statistics
    now, listedProblems, listedContests, changes, asking, subs,
    \* PeriodBoards
    day, made, judged, counting, score, failed, crossed, boardTrouble, rejudges,
    \* ProblemBank
    problems, cases, contests, request, listed, edits

statisticsVars == <<now, listedProblems, listedContests, changes, asking, subs>>
boardsVars == <<day, made, judged, counting, score, failed, crossed, boardTrouble, rejudges>>
bankVars == <<problems, cases, contests, request, listed, edits>>

Statistic == INSTANCE Statistics WITH
    Users <- Members, Problems <- Tasks, problems <- listedProblems, contests <- listedContests

\* Two contests with the easy problem, of which the one that begins first has the greater
\* id; a contest may be given the first tick and both problems.
Calendar == <<[from |-> 1, to |-> 2, problems |-> {"easy"}], [from |-> 0, to |-> 1, problems |-> {"easy"}]>>
OtherTimes == {[from |-> 0, to |-> 1, problems |-> {"easy", "hard"}]}

\* Two members, an easy problem and a hard one.
MemberOrder == [u \in {"ann", "bob"} |-> IF u = "ann" THEN 1 ELSE 2]
TaskDifficulty == [p \in {"easy", "hard"} |-> IF p = "easy" THEN "EASY" ELSE "HARD"]

Boards == INSTANCE PeriodBoards WITH
    Subs <- Entries, status <- judged, job <- counting, trouble <- boardTrouble

\* Imports and contests of a teacher, a colleague and an administrator.
BankSeed(n) == <<NoOne, n>>
BankJobs ==
    { [kind |-> "problems", actor |-> Teacher,
       items |-> <<[title |-> "new", inputs |-> <<"i1", "i2">>], [title |-> "newer", inputs |-> <<"i1">>]>>],
      [kind |-> "problems", actor |-> Admin,
       items |-> <<[title |-> "newer", inputs |-> <<"i1">>], [title |-> "new", inputs |-> <<"i2">>]>>],
      [kind |-> "cases", actor |-> Teacher, id |-> BankSeed(1), items |-> <<"i2", "i1">>],
      [kind |-> "cases", actor |-> Other, id |-> BankSeed(2), items |-> <<"i1", "i2">>],
      [kind |-> "new contest", actor |-> Teacher, id |-> BankSeed(0), from |-> 1, to |-> 2,
       items |-> <<BankSeed(2), BankSeed(1)>>],
      [kind |-> "contest", actor |-> Teacher, id |-> BankSeed(1), from |-> 3, to |-> 0,
       items |-> <<BankSeed(2), BankSeed(1)>>],
      [kind |-> "contest", actor |-> Admin, id |-> BankSeed(1), from |-> 0, to |-> 0,
       items |-> <<BankSeed(1), BankSeed(2)>>] }

Bank == INSTANCE ProblemBank WITH Requests <- Imports, at <- request

ASSUME RecordsAssumption ==
    Statistic!StatisticsAssumption /\ Boards!BoardsAssumption /\ Bank!BankAssumption

-----------------------------------------------------------------------------
PartsInit ==
    /\ part \in {"judging", "statistics", "boards", "bank"}
    /\ Init /\ Statistic!Init /\ Boards!Init /\ Bank!Init

PartsNext ==
    /\ UNCHANGED part
    /\ \/ part = "judging" /\ Next /\ UNCHANGED <<statisticsVars, boardsVars, bankVars>>
       \/ part = "statistics" /\ Statistic!Next /\ UNCHANGED <<vars, boardsVars, bankVars>>
       \/ part = "boards" /\ Boards!Next /\ UNCHANGED <<vars, statisticsVars, bankVars>>
       \/ part = "bank" /\ Bank!Next /\ UNCHANGED <<vars, statisticsVars, boardsVars>>

\* The fairness of JudgePipeline, when it runs: of a handler as one process, and of the
\* workers together, which is less than what JudgePipeline has for each of them.
PartsSpec ==
    /\ PartsInit
    /\ [][PartsNext]_<<part, vars, statisticsVars, boardsVars, bankVars>>
    /\ \A s \in Subs : WF_vars(part = "judging" /\ (Send(s) \/ SubmitMarkRE(s)))
    /\ \A r \in Rejudges :
          WF_vars(part = "judging" /\ (RejudgeFlip(r) \/ RejudgeReset(r) \/ RejudgeUndo(r) \/ Send(r)))
    /\ WF_vars(part = "judging" /\ \E w \in Workers : WorkerStep(w))

-----------------------------------------------------------------------------
\* The part that runs keeps its types.
PartsTypeOK ==
    CASE part = "judging" -> TypeOK
      [] part = "statistics" -> Statistic!TypeOK
      [] part = "boards" -> Boards!TypeOK
      [] part = "bank" -> Bank!TypeOK

\* Statistics: every page's numbers agree with the submissions and with each other (Statistics).
AnswersAgree == part = "statistics" => Statistic!AnswersAgree

\* Leaderboards: weekly and monthly counters equal the accepted submissions (PeriodBoards).
BoardsExact == part = "boards" => Boards!BoardsExact

\* Problems and contests: several statements are applied all or none (ProblemBank).
ImportIsWhole == part = "bank" => Bank!ImportIsWhole
=============================================================================
