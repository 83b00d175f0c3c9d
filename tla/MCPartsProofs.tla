---------------------------- MODULE MCPartsProofs ----------------------------
(***************************************************************************)
(* The safety of account administration, the daily problem and the judge   *)
(* engine, for any number of users, requests, days, problems, timers, test *)
(* cases and submissions.  The proof about account administration is that  *)
(* of UserAdminProofs, taken in as an instance.                            *)
(***************************************************************************)
EXTENDS MCParts, SequenceTheorems, TLAPS

AP == INSTANCE UserAdminProofs WITH Overlap <- FALSE, pc <- asking

-----------------------------------------------------------------------------
(* Account administration.                                                 *)

\* Whichever part runs, the users table does what UserAdmin lets it do.
LEMMA AccountsRun ==
    FairSpec => AP!Init /\ [][AP!Next]_(AP!vars)
<1>1. Init => AP!Init
  <2>1. Init => Accounts!Init
    BY DEF Init
  <2>2. Accounts!Init => AP!Init
    BY DEF Accounts!Init, AP!Init, Accounts!Admins, AP!Admins, Accounts!ActiveAdmin,
           AP!ActiveAdmin, Accounts!Asks, AP!Asks, Accounts!Keep, AP!Keep
  <2> QED
    BY <2>1, <2>2
<1>2. [Next]_vars => [AP!Next]_(AP!vars)
  <2>1. ASSUME Accounts!Next PROVE AP!Next
    BY <2>1 DEF AP!Next, Accounts!Next, AP!Begin, Accounts!Begin, AP!ReadTarget,
       Accounts!ReadTarget, AP!CountAdmins, Accounts!CountAdmins, AP!UpdateUser,
       Accounts!UpdateUser, AP!Notice, Accounts!Notice, AP!Admins, Accounts!Admins,
       AP!ActiveAdmin, Accounts!ActiveAdmin, AP!Goto, Accounts!Goto, AP!MayRun,
       Accounts!MayRun, AP!Cardinality, Accounts!Cardinality, AP!Keep, Accounts!Keep
  <2>2. ASSUME UNCHANGED usersVars PROVE UNCHANGED AP!vars
    BY <2>2 DEF usersVars, AP!vars
  <2> QED
    BY <2>1, <2>2 DEF Next, vars
<1> QED
  BY <1>1, <1>2, PTL DEF FairSpec

\* What UserAdmin asks of its constants.
LEMMA AccountsConstants == AP!UserAdminAssumption
BY AccountsAssumption
   DEF AP!UserAdminAssumption, Accounts!UserAdminAssumption, AP!IsFiniteSet,
       Accounts!IsFiniteSet

\* Every variable of the users table keeps its type.
LEMMA AccountsTypes == FairSpec => []Accounts!TypeOK
<1>1. AP!Init => AP!TypeOK
  BY AccountsConstants, AP!Initially DEF AP!IInv
<1>2. AP!TypeOK /\ [AP!Next]_(AP!vars) => AP!TypeOK'
  BY AccountsConstants, AP!TypeStep
<1>3. AP!TypeOK => Accounts!TypeOK
  BY DEF AP!TypeOK, Accounts!TypeOK, AP!Asks, Accounts!Asks, AP!Keep, Accounts!Keep
<1> QED
  BY <1>1, <1>2, <1>3, AccountsRun, PTL

\* The system is never locked: as long as the bodies name no role but "user" and "admin",
\* an administrator that is not banned is left, whoever asks for what, with any number of
\* users and requests that are served one after the other.
THEOREM AnAdministratorIsLeft ==
    ASSUME Roles \subseteq {"user", "admin"}
    PROVE  FairSpec => []NeverLocked
<1>1. AP!Spec => []AP!NeverLocked
  <2>1. AP!GuardedRoles
    BY DEF AP!GuardedRoles
  <2> QED
    BY <2>1, AccountsConstants, AP!SerialNeverLocked
<1>2. AP!NeverLocked => NeverLocked
  BY DEF AP!NeverLocked, NeverLocked, Accounts!NeverLocked, AP!Admins, Accounts!Admins,
         AP!ActiveAdmin, Accounts!ActiveAdmin
<1> QED
  BY <1>1, <1>2, AccountsRun, PTL DEF AP!Spec

-----------------------------------------------------------------------------
(* The daily problem.                                                      *)

\* Whichever part runs, the daily problem does what DailyProblem lets it do.
LEMMA DailyRuns ==
    FairSpec => Daily!Init /\ [][Daily!Next]_(Daily!vars)
<1>1. Init => Daily!Init
  BY DEF Init
<1>2. [Next]_vars => [Daily!Next]_(Daily!vars)
  BY DEF Next, vars, dailyVars, Daily!vars
<1> QED
  BY <1>1, <1>2, PTL DEF FairSpec

DailyLabels == {"idle", "date", "check", "upsert", "end", "select", "filter", "update",
                "setting", "insert", "select2", "filter2", "update2", "record",
                "problem", "done"}

\* A row of a type that is given another status, problem or end is one of that type.
LEMMA RowKeepsType ==
    ASSUME NEW r \in Daily!Rows, NEW p \in Problems
    PROVE  /\ Daily!Pending(p) \in Daily!Rows
           /\ Daily!NoRow \in Daily!Rows
           /\ [r EXCEPT !.problem = p, !.status = "pending"] \in Daily!Rows
           /\ [r EXCEPT !.status = "finished", !.endType = "manual"] \in Daily!Rows
           /\ [r EXCEPT !.status = "finished", !.endType = "auto"] \in Daily!Rows
BY DEF Daily!Rows, Daily!Pending, Daily!NoRow

\* A settlement keeps the types.
LEMMA SettleTypes ==
    ASSUME Daily!TypeOK, NEW s \in Daily!Settlers, NEW l \in DailyLabels,
           NEW m \in DailyLabels,
           Daily!SettleSelect(s, l) \/ Daily!SettleFilter(s, l, m) \/ Daily!SettleUpdate(s, l)
    PROVE  Daily!TypeOK'
<1> USE DEF Daily!TypeOK, DailyLabels, Daily!Goto
<1>1. s \in Daily!Processes
  BY DEF Daily!Settlers, Daily!Processes, Daily!Requests
<1>2. CASE Daily!SettleSelect(s, l)
  <2>1. overdue' \in [Daily!Settlers -> SUBSET Daily!Days]
    BY <1>2 DEF Daily!SettleSelect
  <2> QED
    BY <1>1, <1>2, <2>1 DEF Daily!SettleSelect, Daily!table
<1>3. CASE Daily!SettleFilter(s, l, m)
  <2>1. overdue' \in [Daily!Settlers -> SUBSET Daily!Days]
    BY <1>3 DEF Daily!SettleFilter
  <2> QED
    BY <1>1, <1>3, <2>1 DEF Daily!SettleFilter, Daily!table
<1>4. CASE Daily!SettleUpdate(s, l)
  <2>1. overdue' \in [Daily!Settlers -> SUBSET Daily!Days]
    BY <1>4 DEF Daily!SettleUpdate
  <2>2. row' \in [Daily!Days -> Daily!Rows]
    <3>1. \A r \in Daily!Rows : [r EXCEPT !.status = "finished", !.endType = "auto"]
                                  \in Daily!Rows
      BY DEF Daily!Rows
    <3> QED
      BY <1>4, <3>1 DEF Daily!SettleUpdate
  <2> QED
    BY <1>1, <1>4, <2>1, <2>2 DEF Daily!SettleUpdate
<1> QED
  BY <1>2, <1>3, <1>4

\* Every variable of the daily problem keeps its type.
LEMMA DailyTypeStep ==
    ASSUME Daily!TypeOK, [Daily!Next]_(Daily!vars)
    PROVE  Daily!TypeOK'
<1> USE DailyProblemAssumption
    DEF Daily!TypeOK, Daily!DailyAssumption, Daily!Goto, Daily!table, Daily!locals
<1>p. /\ Sets \subseteq Daily!Requests /\ Ends \subseteq Daily!Requests
      /\ Gets \subseteq Daily!Requests /\ Daily!Requests \subseteq Daily!Processes
      /\ Gets \subseteq Daily!Settlers /\ Timers \subseteq Daily!Settlers
      /\ Timers \subseteq Daily!Processes
  BY DEF Daily!Requests, Daily!Processes, Daily!Settlers
<1>r. \A r \in Daily!Rows, p \in Problems :
         /\ Daily!Pending(p) \in Daily!Rows
         /\ Daily!NoRow \in Daily!Rows
         /\ [r EXCEPT !.problem = p, !.status = "pending"] \in Daily!Rows
         /\ [r EXCEPT !.status = "finished", !.endType = "manual"] \in Daily!Rows
  BY RowKeepsType
<1>1. ASSUME NEW u \in Sets, Daily!PutStep(u) PROVE Daily!TypeOK'
  <2>1. CASE Daily!PutSetting(u)
    BY <1>p, <2>1 DEF Daily!PutSetting
  <2>2. CASE Daily!PutDate(u)
    BY <1>p, <2>2 DEF Daily!PutDate, Daily!ReadDate
  <2>3. CASE Daily!PutCheck(u)
    BY <1>p, <2>3 DEF Daily!PutCheck
  <2>4. CASE Daily!PutUpsert(u)
    <3>1. date[u] \in Daily!Days /\ Asked[u] \in Problems
      BY <1>p
    <3>2. row' \in [Daily!Days -> Daily!Rows]
      BY <1>r, <2>4, <3>1 DEF Daily!PutUpsert
    <3> QED
      BY <1>p, <2>4, <3>2 DEF Daily!PutUpsert
  <2> QED
    BY <1>1, <2>1, <2>2, <2>3, <2>4 DEF Daily!PutStep
<1>2. ASSUME NEW e \in Ends, Daily!EndDate(e) \/ Daily!EndToday(e) PROVE Daily!TypeOK'
  <2>1. CASE Daily!EndDate(e)
    BY <1>p, <2>1 DEF Daily!EndDate, Daily!ReadDate
  <2>2. CASE Daily!EndToday(e)
    <3>1. date[e] \in Daily!Days
      BY <1>p
    <3>2. \A r \in Daily!Rows : [r EXCEPT !.status = "finished", !.endType = "manual"]
                                  \in Daily!Rows
      BY DEF Daily!Rows
    <3>3. row' \in [Daily!Days -> Daily!Rows]
      BY <2>2, <3>1, <3>2 DEF Daily!EndToday
    <3> QED
      BY <1>p, <2>2, <3>3 DEF Daily!EndToday
  <2> QED
    BY <1>2, <2>1, <2>2
<1>3. ASSUME NEW t \in Timers, Daily!TimerStep(t) PROVE Daily!TypeOK'
  BY <1>p, <1>3, SettleTypes
     DEF Daily!TimerStep, Daily!TimerSelect, Daily!TimerFilter, Daily!TimerUpdate, DailyLabels
<1>4. ASSUME NEW g \in Gets, Daily!GetStep(g) PROVE Daily!TypeOK'
  <2>1. CASE Daily!GetDate(g)
    BY <1>p, <2>1 DEF Daily!GetDate, Daily!ReadDate
  <2>2. CASE Daily!GetSettle(g)
    BY <1>p, <2>2, SettleTypes DEF Daily!GetSettle, DailyLabels
  <2>3. CASE Daily!GetSetting(g)
    BY <1>p, <2>3 DEF Daily!GetSetting
  <2>4. CASE Daily!GetInsert(g)
    <3>1. date[g] \in Daily!Days /\ (got[g] \in exists => got[g] \in Problems)
      BY <1>p
    <3>2. \A p \in Problems : Daily!Pending(p) \in Daily!Rows
      BY DEF Daily!Rows, Daily!Pending
    <3>3. row' \in [Daily!Days -> Daily!Rows]
      BY <2>4, <3>1, <3>2 DEF Daily!GetInsert
    <3> QED
      BY <1>p, <2>4, <3>3 DEF Daily!GetInsert
  <2>5. CASE Daily!GetRecord(g)
    <3>1. row[date[g]] \in Daily!Rows
      BY <1>p
    <3>2. row[date[g]].status \in {"none", "pending", "finished"}
      BY <3>1 DEF Daily!Rows
    <3>3. answer' \in [Gets -> [status : {"none", "pending", "finished"},
                                problem : Problems \cup {NoProblem}]]
      BY <2>5, <3>2 DEF Daily!GetRecord
    <3> QED
      BY <1>p, <2>5, <3>3 DEF Daily!GetRecord
  <2>6. CASE Daily!GetProblem(g)
    <3>1. answer' \in [Gets -> [status : {"none", "pending", "finished"},
                                problem : Problems \cup {NoProblem}]]
      BY <2>6 DEF Daily!GetProblem
    <3> QED
      BY <1>p, <2>6, <3>1 DEF Daily!GetProblem
  <2> QED
    BY <1>4, <2>1, <2>2, <2>3, <2>4, <2>5, <2>6 DEF Daily!GetStep
<1>5. CASE Daily!Midnight
  BY <1>5 DEF Daily!Midnight, Daily!Days
<1>6. ASSUME NEW p \in Problems, Daily!DeleteProblem(p) PROVE Daily!TypeOK'
  <2>1. Daily!NoRow \in Daily!Rows
    BY DEF Daily!NoRow, Daily!Rows
  <2>2. row' \in [Daily!Days -> Daily!Rows]
    BY <1>6, <2>1 DEF Daily!DeleteProblem
  <2>3. overdue' \in [Daily!Settlers -> SUBSET Daily!Days]
    BY <1>6 DEF Daily!DeleteProblem
  <2> QED
    BY <1>6, <2>2, <2>3 DEF Daily!DeleteProblem
<1>7. CASE UNCHANGED Daily!vars
  BY <1>7 DEF Daily!vars
<1> QED
  BY <1>1, <1>2, <1>3, <1>4, <1>5, <1>6, <1>7 DEF Daily!Next

\* How a row becomes a finished one: by POST end, or by a settlement that has selected
\* it, and only from a pending one.
LEMMA RowStep ==
    ASSUME Daily!TypeOK, [Daily!Next]_(Daily!vars), NEW d \in Daily!Days
    PROVE  \/ row'[d] = row[d]
           \/ row'[d].status # "finished"
           \/ row[d].status = "pending" /\ row'[d].endType = "manual"
           \/ /\ row[d].status = "pending"
              /\ \E s \in Daily!Settlers : stage[s] \in {"update", "update2"} /\ d \in overdue[s]
<1> DEFINE Goal == \/ row'[d] = row[d]
                   \/ row'[d].status # "finished"
                   \/ row[d].status = "pending" /\ row'[d].endType = "manual"
                   \/ /\ row[d].status = "pending"
                      /\ \E s \in Daily!Settlers :
                            stage[s] \in {"update", "update2"} /\ d \in overdue[s]
<1>t. row \in [Daily!Days -> Daily!Rows] /\ row[d] \in Daily!Rows
  BY DEF Daily!TypeOK
<1>s. ASSUME NEW s \in Daily!Settlers, NEW l, stage[s] \in {"update", "update2"},
             Daily!SettleUpdate(s, l)
      PROVE  Goal
  <2>1. CASE d \in overdue[s] /\ row[d].status = "pending"
    BY <2>1, <1>s
  <2>2. CASE ~(d \in overdue[s] /\ row[d].status = "pending")
    BY <2>2, <1>s DEF Daily!SettleUpdate
  <2> QED
    BY <2>1, <2>2
<1>1. ASSUME NEW u \in Sets, Daily!PutStep(u) PROVE Goal
  <2>1. CASE Daily!PutUpsert(u)
    <3>1. CASE d # date[u]
      BY <2>1, <3>1, <1>t DEF Daily!PutUpsert
    <3>2. CASE d = date[u]
      <4>1. row'[d] = IF Asked[u] \notin exists THEN row[d]
                      ELSE IF row[d].status = "none" THEN Daily!Pending(Asked[u])
                      ELSE [row[d] EXCEPT !.problem = Asked[u], !.status = "pending"]
        BY <2>1, <3>2, <1>t DEF Daily!PutUpsert
      <4>2. [row[d] EXCEPT !.problem = Asked[u], !.status = "pending"].status = "pending"
        BY <1>t DEF Daily!Rows
      <4> QED
        BY <4>1, <4>2 DEF Daily!Pending
    <3> QED
      BY <3>1, <3>2
  <2>2. CASE Daily!PutSetting(u) \/ Daily!PutDate(u) \/ Daily!PutCheck(u)
    BY <2>2 DEF Daily!PutSetting, Daily!PutDate, Daily!PutCheck, Daily!ReadDate, Daily!table
  <2> QED
    BY <1>1, <2>1, <2>2 DEF Daily!PutStep
<1>2. ASSUME NEW e \in Ends, Daily!EndDate(e) \/ Daily!EndToday(e) PROVE Goal
  <2>1. CASE Daily!EndDate(e)
    BY <2>1 DEF Daily!EndDate, Daily!ReadDate, Daily!table
  <2>2. CASE Daily!EndToday(e)
    <3>1. CASE d # date[e]
      BY <2>2, <3>1, <1>t DEF Daily!EndToday
    <3>2. CASE d = date[e]
      <4>1. row'[d] = IF row[d].status = "pending"
                      THEN [row[d] EXCEPT !.status = "finished", !.endType = "manual"]
                      ELSE row[d]
        BY <2>2, <3>2, <1>t DEF Daily!EndToday
      <4>2. [row[d] EXCEPT !.status = "finished", !.endType = "manual"].endType = "manual"
        BY <1>t DEF Daily!Rows
      <4> QED
        BY <4>1, <4>2
    <3> QED
      BY <3>1, <3>2
  <2> QED
    BY <1>2, <2>1, <2>2
<1>3. ASSUME NEW t \in Timers, Daily!TimerStep(t) PROVE Goal
  <2>1. CASE Daily!TimerSelect(t) \/ Daily!TimerFilter(t)
    BY <2>1 DEF Daily!TimerSelect, Daily!TimerFilter, Daily!SettleSelect,
                Daily!SettleFilter, Daily!table
  <2>2. CASE Daily!TimerUpdate(t)
    BY <2>2, <1>s DEF Daily!TimerUpdate, Daily!Settlers
  <2> QED
    BY <1>3, <2>1, <2>2 DEF Daily!TimerStep
<1>4. ASSUME NEW g \in Gets, Daily!GetStep(g) PROVE Goal
  <2>1. CASE Daily!GetDate(g) \/ Daily!GetSetting(g) \/ Daily!GetRecord(g)
             \/ Daily!GetProblem(g)
    BY <2>1 DEF Daily!GetDate, Daily!ReadDate, Daily!GetSetting, Daily!GetRecord,
                Daily!GetProblem, Daily!table
  <2>2. CASE Daily!GetInsert(g)
    <3>1. CASE d # date[g]
      BY <2>2, <3>1, <1>t DEF Daily!GetInsert
    <3>2. CASE d = date[g]
      <4>1. row'[d] = row[d] \/ row'[d] = Daily!Pending(got[g])
        BY <2>2, <3>2, <1>t DEF Daily!GetInsert
      <4> QED
        BY <4>1 DEF Daily!Pending
    <3> QED
      BY <3>1, <3>2
  <2>3. CASE Daily!GetSettle(g)
    <3>1. g \in Daily!Settlers
      BY DEF Daily!Settlers
    <3>2. \/ \E l, m : Daily!SettleSelect(g, l) \/ Daily!SettleFilter(g, l, m)
          \/ stage[g] \in {"update", "update2"} /\ \E l : Daily!SettleUpdate(g, l)
      BY <2>3 DEF Daily!GetSettle
    <3>3. ASSUME NEW l, NEW m, Daily!SettleSelect(g, l) \/ Daily!SettleFilter(g, l, m)
          PROVE  Goal
      BY <3>3 DEF Daily!SettleSelect, Daily!SettleFilter, Daily!table
    <3> QED
      BY <3>1, <3>2, <3>3, <1>s
  <2> QED
    BY <1>4, <2>1, <2>2, <2>3 DEF Daily!GetStep
<1>5. CASE Daily!Midnight
  BY <1>5 DEF Daily!Midnight
<1>6. ASSUME NEW p \in Problems, Daily!DeleteProblem(p) PROVE Goal
  BY <1>6 DEF Daily!DeleteProblem, Daily!NoRow
<1>7. CASE UNCHANGED Daily!vars
  BY <1>7 DEF Daily!vars
<1> QED
  BY <1>1, <1>2, <1>3, <1>4, <1>5, <1>6, <1>7 DEF Daily!Next

\* What a settlement is about to end is over.
SettlesThePast ==
    \A s \in Daily!Settlers :
        stage[s] \in {"update", "update2"} => \A d \in overdue[s] : d < today

DailyInv == Daily!TypeOK /\ AutoOnlyWhenOver /\ SettlesThePast

\* The day only moves forward.
LEMMA DayStep ==
    ASSUME Daily!TypeOK, [Daily!Next]_(Daily!vars)
    PROVE  today \in Nat /\ today' \in Nat /\ today' >= today
<1>1. today \in Nat
  BY DailyProblemAssumption DEF Daily!TypeOK, Daily!Days, Daily!DailyAssumption
<1>2. today' = today \/ today' = today + 1
  BY DEF Daily!Next, Daily!vars, Daily!PutStep, Daily!GetStep, Daily!TimerStep,
         Daily!PutSetting, Daily!PutDate, Daily!PutCheck, Daily!PutUpsert, Daily!ReadDate,
         Daily!EndDate, Daily!EndToday, Daily!SettleSelect, Daily!SettleFilter,
         Daily!SettleUpdate, Daily!TimerSelect, Daily!TimerFilter, Daily!TimerUpdate,
         Daily!GetDate, Daily!GetSettle, Daily!GetSetting, Daily!GetInsert,
         Daily!GetRecord, Daily!GetProblem, Daily!Midnight, Daily!DeleteProblem, Daily!table
<1> QED
  BY <1>1, <1>2

\* A settlement goes on to its UPDATE with the days that are over and no others.
LEMMA SettleStep ==
    ASSUME Daily!TypeOK, SettlesThePast, [Daily!Next]_(Daily!vars)
    PROVE  SettlesThePast'
<1> DEFINE Over(s) == \A d \in overdue[s] : d < today
<1>t. /\ stage \in [Daily!Processes -> DailyLabels]
      /\ overdue \in [Daily!Settlers -> SUBSET Daily!Days]
      /\ \A s \in Daily!Settlers : s \in Daily!Processes /\ overdue[s] \subseteq Nat
      /\ today \in Nat /\ today' \in Nat /\ today' >= today
  BY DayStep, DailyProblemAssumption
     DEF Daily!TypeOK, DailyLabels, Daily!Settlers, Daily!Processes, Daily!Requests,
         Daily!Days, Daily!DailyAssumption
<1>k. ASSUME NEW s \in Daily!Settlers, overdue'[s] \subseteq overdue[s],
             stage'[s] = stage[s] \/ stage'[s] \notin {"update", "update2"},
             stage'[s] \in {"update", "update2"}
      PROVE  Over(s)'
  BY <1>k, <1>t DEF SettlesThePast
<1>g. ASSUME NEW q, NEW l \in DailyLabels \ {"update", "update2"}, Daily!Goto(q, l),
             UNCHANGED overdue
      PROVE  SettlesThePast'
  BY <1>g, <1>k, <1>t DEF Daily!Goto, SettlesThePast
<1>s. ASSUME NEW q \in Daily!Settlers, NEW l, NEW m \in DailyLabels \ {"update", "update2"},
             Daily!SettleFilter(q, l, m)
      PROVE  SettlesThePast'
  <2>1. ASSUME NEW s \in Daily!Settlers, s # q PROVE overdue'[s] = overdue[s] /\ stage'[s] = stage[s]
    BY <1>s, <2>1, <1>t DEF Daily!SettleFilter, Daily!Goto
  <2>2. \A d \in overdue'[q] : d < today /\ d \in overdue[q]
    BY <1>s, <1>t DEF Daily!SettleFilter
  <2>3. Over(q)'
    BY <2>2, <1>t
  <2> QED
    BY <2>1, <2>3, <1>k DEF SettlesThePast
<1>1. ASSUME NEW u \in Sets, Daily!PutStep(u) PROVE SettlesThePast'
  BY <1>1, <1>g DEF Daily!PutStep, Daily!PutSetting, Daily!PutDate, Daily!PutCheck,
                    Daily!PutUpsert, Daily!ReadDate, Daily!locals, DailyLabels
<1>2. ASSUME NEW e \in Ends, Daily!EndDate(e) \/ Daily!EndToday(e) PROVE SettlesThePast'
  BY <1>2, <1>g DEF Daily!EndDate, Daily!EndToday, Daily!ReadDate, Daily!locals, DailyLabels
<1>a. ASSUME NEW q \in Daily!Settlers, NEW l \in DailyLabels \ {"update", "update2"},
             Daily!SettleSelect(q, l) \/ Daily!SettleUpdate(q, l)
      PROVE  SettlesThePast'
  <2>1. ASSUME NEW s \in Daily!Settlers, s # q PROVE overdue'[s] = overdue[s] /\ stage'[s] = stage[s]
    BY <1>a, <2>1, <1>t DEF Daily!SettleSelect, Daily!SettleUpdate, Daily!Goto
  <2>2. stage'[q] = l
    BY <1>a, <1>t DEF Daily!SettleSelect, Daily!SettleUpdate, Daily!Goto
  <2> QED
    BY <2>1, <2>2, <1>k DEF SettlesThePast
<1>3. ASSUME NEW t \in Timers, Daily!TimerStep(t) PROVE SettlesThePast'
  BY <1>3, <1>a, <1>s DEF Daily!TimerStep, Daily!TimerSelect, Daily!TimerFilter,
                          Daily!TimerUpdate, Daily!Settlers, DailyLabels
<1>4. ASSUME NEW g \in Gets, Daily!GetStep(g) PROVE SettlesThePast'
  <2>1. CASE Daily!GetSettle(g)
    BY <2>1, <1>a, <1>s DEF Daily!GetSettle, Daily!Settlers, DailyLabels
  <2>2. CASE ~Daily!GetSettle(g)
    BY <2>2, <1>4, <1>g DEF Daily!GetStep, Daily!GetDate, Daily!ReadDate, Daily!GetSetting,
                            Daily!GetInsert, Daily!GetRecord, Daily!GetProblem, Daily!locals,
                            DailyLabels
  <2> QED
    BY <2>1, <2>2
<1>5. CASE Daily!Midnight
  BY <1>5, <1>k DEF Daily!Midnight, Daily!locals, SettlesThePast
<1>6. ASSUME NEW p \in Problems, Daily!DeleteProblem(p) PROVE SettlesThePast'
  <2>1. \A s \in Daily!Settlers : overdue'[s] \subseteq overdue[s] /\ stage'[s] = stage[s]
    BY <1>6 DEF Daily!DeleteProblem
  <2> QED
    BY <2>1, <1>k DEF SettlesThePast
<1>7. CASE UNCHANGED Daily!vars
  BY <1>7, <1>k DEF Daily!vars, SettlesThePast
<1> QED
  BY <1>1, <1>2, <1>3, <1>4, <1>5, <1>6, <1>7 DEF Daily!Next

\* Initially there is no row and no settlement.
LEMMA DailyInitially == Daily!Init => DailyInv
<1> SUFFICES ASSUME Daily!Init PROVE DailyInv
  OBVIOUS
<1> USE DailyProblemAssumption DEF Daily!DailyAssumption, Daily!Init
<1>1. Daily!TypeOK
  BY DEF Daily!TypeOK, Daily!Days, Daily!NoRow, Daily!Rows
<1>2. AutoOnlyWhenOver
  BY DEF AutoOnlyWhenOver, Daily!AutoOnlyWhenOver, Daily!NoRow
<1>3. SettlesThePast
  BY DEF SettlesThePast
<1> QED
  BY <1>1, <1>2, <1>3 DEF DailyInv

\* The invariant is inductive.
LEMMA DailyInductive ==
    ASSUME DailyInv, [Daily!Next]_(Daily!vars)
    PROVE  DailyInv'
<1> USE DEF DailyInv
<1>1. Daily!TypeOK'
  BY DailyTypeStep
<1>2. SettlesThePast'
  BY SettleStep
<1>3. ASSUME NEW d \in Daily!Days, row'[d].status = "finished", row'[d].endType = "auto"
      PROVE  d < today'
  <2>1. today \in Nat /\ today' \in Nat /\ today' >= today /\ d \in Nat
    BY DayStep, DailyProblemAssumption DEF Daily!Days, Daily!DailyAssumption
  <2>2. CASE row'[d] = row[d]
    BY <1>3, <2>1, <2>2 DEF AutoOnlyWhenOver, Daily!AutoOnlyWhenOver
  <2>3. CASE \E s \in Daily!Settlers : stage[s] \in {"update", "update2"} /\ d \in overdue[s]
    BY <2>1, <2>3 DEF SettlesThePast
  <2> QED
    BY <1>3, <2>2, <2>3, RowStep
<1>4. AutoOnlyWhenOver'
  BY <1>3 DEF AutoOnlyWhenOver, Daily!AutoOnlyWhenOver, Daily!Days
<1> QED
  BY <1>1, <1>2, <1>4

\* The settlement never ends a day that is still running, with any number of timers, GETs
\* and staff requests, whatever midnight falls between.
THEOREM RunningDaysGoOn == FairSpec => []AutoOnlyWhenOver
<1>1. DailyInv => AutoOnlyWhenOver
  BY DEF DailyInv
<1> QED
  BY <1>1, DailyInitially, DailyInductive, DailyRuns, PTL

\* How a finished day was ended is not rewritten, however often it is settled, and whether
\* or not a teacher ends it in between.
THEOREM EndingsAreKept == FairSpec => EndingIsFinal
<1>1. ASSUME DailyInv, [Daily!Next]_(Daily!vars)
      PROVE  \A d \in Daily!Days : row[d].status = "finished" /\ row'[d].status = "finished"
                => row'[d].endType = row[d].endType
  BY <1>1, RowStep DEF DailyInv
<1>2. DailyInv /\ [Daily!Next]_(Daily!vars)
      => [\A d \in Daily!Days : row[d].status = "finished" /\ row'[d].status = "finished"
                => row'[d].endType = row[d].endType]_(Daily!vars)
  BY <1>1
<1> QED
  BY <1>2, DailyInitially, DailyInductive, DailyRuns, PTL
     DEF EndingIsFinal, Daily!EndingIsFinal

-----------------------------------------------------------------------------
(* The judge engine.                                                       *)

\* Whichever part runs, the engine does what JudgeEngine lets it do.
LEMMA EngineRuns ==
    FairSpec => Engine!Init /\ [][Engine!Next]_(Engine!vars)
<1>1. Init => Engine!Init
  BY DEF Init
<1>2. [Next]_vars => [Engine!Next]_(Engine!vars)
  BY DEF Next, vars, engineVars, Engine!vars
<1> QED
  BY <1>1, <1>2, PTL DEF FairSpec

\* Between two subprocesses nothing of the last one is left in the engine.
Resting ==
    pc \in {"idle", "create", "spawn", "judge", "done"} =>
        /\ prog = "none" /\ beh = Engine!NoBehaviour /\ helper = "none"
        /\ stray = Engine!NoStray /\ err = <<>> /\ full = FALSE

\* What is still to be removed, and what still runs, at each point of a case.
Upkeep ==
    /\ pc \in {"idle", "judge", "done"} => held = {}
    /\ pc \in {"create", "spawn", "reading", "kill", "destroy"} /\ phase = "compile"
       => "tmp" \in held
    /\ pc \in {"kill", "destroy"} => helper \in {"none", "gone"}
    /\ pc = "destroy" /\ "cgroup" \in held /\ host.kill => ~Engine!StrayRuns

\* A program that leaves its last line open, prints too much or leaves a process at the
\* pipes may blur the helper's lines; others are tame.
Tame == beh.err \notin {"part", "full"} /\ ~beh.pipes

\* While a tame program is read its output is whole lines, and ends with the helper's.
TameOutput ==
    pc = "reading" /\ Tame =>
        /\ ~stray.pipes /\ ~full
        /\ \A i \in 1..Len(err) : err[i] \in {"line", "cg", "ru"}
        /\ helper = "gone" => Engine!Believed(err)

\* A compilation has no result while it goes on.
NoResultYet ==
    pc \in {"create", "spawn", "reading"} /\ phase = "compile" => res = Engine!NoResult

\* A tame program's user sees none of the helper's lines, from the moment the output is
\* collected.
ShownIsClean ==
    pc \in {"kill", "destroy"} /\ res.shown \intersect {"cg", "ru", "glued"} # {} => ~Tame

EngineInv ==
    Engine!TypeOK /\ Resting /\ Upkeep /\ TameOutput /\ NoResultYet /\ ShownIsClean

\* The kernel kills for memory only what has passed the limit.
Kills == beh.exit = "oom" => beh.mem = "high"

\* What judge makes of the result of a case.
Judged(r) == IF r.status = "OK" /\ r.out = "wrong" THEN "WA" ELSE r.status

\* From the collection on, the result of a case is the one its program deserves.
CaseIsFair ==
    /\ pc \in {"kill", "destroy"} => \/ fact.misread \/ fact.status = Judged(res)
                                     \/ phase = "compile" /\ res.status = "none"
    /\ pc = "judge" => fact.misread \/ fact.status = Judged(res)

\* While the loop of judge goes on, all cases so far went well, and one is left.
LoopGoesOn ==
    pc \notin {"idle", "done"} =>
        /\ \A i \in 1..Len(truths) : truths[i].misread \/ truths[i].status = "OK"
        /\ Len(truths) < job.cases

FairInv == Kills /\ CaseIsFair /\ LoopGoesOn /\ FairVerdict

-----------------------------------------------------------------------------
(* Types of the judge engine.                                              *)

\* A write to standard error leaves a sequence of tokens.
LEMMA WriteKeepsType ==
    ASSUME NEW e \in Seq(Engine!Tokens), NEW t \in Engine!Tokens
    PROVE  Engine!Write(e, t) \in Seq(Engine!Tokens)
<1>1. Append(e, t) \in Seq(Engine!Tokens)
  OBVIOUS
<1>2. ASSUME e # <<>>, NEW v \in Engine!Tokens
      PROVE  [e EXCEPT ![Len(e)] = v] \in Seq(Engine!Tokens)
  BY <1>2, ExceptSeq, Len(e) \in 1..Len(e)
<1> QED
  BY <1>1, <1>2 DEF Engine!Write, Engine!Tokens

\* What is shown of an output are tokens of it.
LEMMA ShownAreTokens ==
    ASSUME NEW e \in Seq(Engine!Tokens)
    PROVE  Engine!Cleaned(e) \subseteq Engine!Tokens
<1>1. \A i \in DOMAIN e : e[i] \in Engine!Tokens
  OBVIOUS
<1> QED
  BY <1>1 DEF Engine!Cleaned, Engine!TokensOf

\* A case that begins, and one that ends by an exception, keep the types.
LEMMA CaseTypes ==
    /\ Engine!NoResult \in [status : Engine!Statuses, out : Engine!Outputs,
                            shown : SUBSET Engine!Tokens]
    /\ \A s \in Engine!Statuses :
         /\ [Engine!NoResult EXCEPT !.status = s] \in
                [status : Engine!Statuses, out : Engine!Outputs, shown : SUBSET Engine!Tokens]
         /\ Engine!Fact(s) \in Engine!FactType
    /\ {"none", "CE", "RE", "TLE"} \subseteq Engine!Statuses
BY DEF Engine!NoResult, Engine!Statuses, Engine!Outputs, Engine!Fact, Engine!FactType

\* The part of the type invariant that is about the case in hand.
CaseTyped ==
    /\ pc \in {"idle", "create", "spawn", "reading", "kill", "destroy", "judge", "done"}
    /\ phase \in {"compile", "run"}
    /\ held \subseteq {"cgroup", "jail", "workdir", "tmp"}
    /\ res \in [status : Engine!Statuses, out : Engine!Outputs, shown : SUBSET Engine!Tokens]
    /\ fact \in Engine!FactType

\* Every variable of the engine keeps its type.
LEMMA EngineTypeStep ==
    ASSUME Engine!TypeOK, [Engine!Next]_(Engine!vars)
    PROVE  Engine!TypeOK'
<1> USE JudgeEngineAssumption
    DEF Engine!TypeOK, Engine!EngineAssumption, Engine!world
<1>1. CASE Engine!Take
  <2>1. jobs' \in 0..MaxJobs /\ jobs \in Nat
    BY <1>1 DEF Engine!Take
  <2>2. truths' \in Seq(Engine!FactType)
    BY <1>1 DEF Engine!Take
  <2>3. PICK j \in [lang : Engine!Langs, cases : 0..MaxCases] :
           /\ job' = j
           /\ \/ pc' = "done" /\ verdict' = "RE" /\ UNCHANGED <<phase, held, res, fact>>
              \/ Engine!StartCase(j) /\ verdict' = "none"
    BY <1>1 DEF Engine!Take
  <2>4. verdict' \in Engine!Statuses
    BY <2>3 DEF Engine!Statuses
  <2>5. CASE Engine!StartCase(j)
    <3>1. CaseTyped'
      BY <2>5, CaseTypes DEF CaseTyped, Engine!StartCase
    <3>2. UNCHANGED <<host, Engine!world, cum, leaked>>
      BY <1>1 DEF Engine!Take
    <3> QED
      BY <2>1, <2>2, <2>3, <2>4, <3>1, <3>2 DEF CaseTyped
  <2>6. CASE pc' = "done" /\ UNCHANGED <<phase, held, res, fact>>
    BY <1>1, <2>1, <2>2, <2>3, <2>4, <2>6 DEF Engine!Take
  <2> QED
    BY <2>3, <2>5, <2>6
<1>2. CASE Engine!CreateCgroup
  <2>1. leaked' \in BOOLEAN
    BY <1>2 DEF Engine!CreateCgroup
  <2>2. held' \subseteq {"cgroup", "jail", "workdir", "tmp"}
    BY <1>2 DEF Engine!CreateCgroup
  <2>3. CaseTyped'
    <3>1. \/ pc' = "kill" /\ res' = [Engine!NoResult EXCEPT !.status = "RE"]
             /\ fact' = Engine!Fact("RE")
          \/ pc' = "spawn" /\ UNCHANGED <<res, fact>>
      BY <1>2 DEF Engine!CreateCgroup, Engine!Raise
    <3>2. phase' = phase
      BY <1>2 DEF Engine!CreateCgroup
    <3>3. res' \in [status : Engine!Statuses, out : Engine!Outputs, shown : SUBSET Engine!Tokens]
      BY <3>1, CaseTypes
    <3>4. fact' \in Engine!FactType
      BY <3>1, CaseTypes
    <3>5. pc' \in {"kill", "spawn"}
      BY <3>1
    <3> QED
      BY <2>2, <3>2, <3>3, <3>4, <3>5 DEF CaseTyped
  <2>4. UNCHANGED <<host, jobs, job, Engine!world, cum, verdict, truths>>
    BY <1>2 DEF Engine!CreateCgroup
  <2> QED
    BY <2>1, <2>3, <2>4 DEF CaseTyped
<1>3. CASE Engine!Spawn
  BY <1>3 DEF Engine!Spawn, Engine!Dirs
<1>4. CASE Engine!SpawnRaises
  <2>1. held' \subseteq {"cgroup", "jail", "workdir", "tmp"}
    BY <1>4 DEF Engine!SpawnRaises, Engine!Dirs
  <2>2. PICK status \in {"CE", "RE"} : Engine!Raise(status)
    BY <1>4 DEF Engine!SpawnRaises
  <2>3. status \in Engine!Statuses
    BY CaseTypes
  <2>4. /\ res' \in [status : Engine!Statuses, out : Engine!Outputs, shown : SUBSET Engine!Tokens]
        /\ fact' \in Engine!FactType /\ pc' = "kill"
    BY <2>2, <2>3, CaseTypes DEF Engine!Raise
  <2>5. UNCHANGED <<host, jobs, job, phase, Engine!world, cum, verdict, truths, leaked>>
    BY <1>4 DEF Engine!SpawnRaises
  <2> QED
    BY <2>1, <2>4, <2>5
<1>5. CASE Engine!ProgramEnds
  <2>1. PICK b \in Engine!Behaviours :
           /\ beh' = b
           /\ err' = IF b.err = "none" THEN <<>>
                     ELSE IF b.err = "full" THEN <<"line">> ELSE <<b.err>>
           /\ full' = (b.err = "full")
           /\ stray' = IF b.bg = "none" THEN Engine!NoStray
                       ELSE [state |-> "alive", pipes |-> b.pipes, group |-> b.bg = "group"]
    BY <1>5 DEF Engine!ProgramEnds, Engine!CompilerBehaviours
  <2>2. b \in [exit : {"zero", "nonzero", "xcpu", "oom"}, mem : Engine!Sizes,
               out : Engine!Outputs, err : Engine!AllErrKinds,
               bg : {"none", "group", "session"}, pipes : BOOLEAN]
    BY DEF Engine!Behaviours
  <2>3. b.err \in {"none", "line", "part", "full"} /\ b.pipes \in BOOLEAN
    BY <2>2 DEF Engine!AllErrKinds
  <2>4. err' \in Seq(Engine!Tokens)
    <3>1. CASE b.err = "none"
      BY <2>1, <3>1
    <3>2. CASE b.err = "full" \/ b.err = "line"
      <4>1. err' = <<"line">> /\ "line" \in Engine!Tokens
        BY <2>1, <3>2 DEF Engine!Tokens
      <4> QED
        BY <4>1
    <3>3. CASE b.err = "part"
      <4>1. err' = <<"part">> /\ "part" \in Engine!Tokens
        BY <2>1, <3>3 DEF Engine!Tokens
      <4> QED
        BY <4>1
    <3> QED
      BY <2>3, <3>1, <3>2, <3>3
  <2>5. full' \in BOOLEAN
    BY <2>1
  <2>6. stray' \in [state : {"none", "alive", "wrote", "dying"}, pipes : BOOLEAN,
                    group : BOOLEAN]
    BY <2>1, <2>3 DEF Engine!NoStray
  <2> QED
    BY <1>5, <2>1, <2>2, <2>4, <2>5, <2>6 DEF Engine!ProgramEnds
<1>6. CASE Engine!HelperReaps
  <2>1. err' \in Seq(Engine!Tokens)
    BY <1>6, WriteKeepsType DEF Engine!HelperReaps, Engine!Tokens
  <2> QED
    BY <1>6, <2>1 DEF Engine!HelperReaps
<1>7. CASE Engine!HelperExits
  <2>1. err' \in Seq(Engine!Tokens)
    BY <1>7, WriteKeepsType DEF Engine!HelperExits, Engine!Tokens
  <2> QED
    BY <1>7, <2>1 DEF Engine!HelperExits
<1>8. CASE Engine!StrayWrites
  <2>1. err' \in Seq(Engine!Tokens)
    BY <1>8, WriteKeepsType DEF Engine!StrayWrites, Engine!Tokens
  <2> QED
    <3>1. stray' \in [state : {"none", "alive", "wrote", "dying"}, pipes : BOOLEAN,
                      group : BOOLEAN]
      BY <1>8 DEF Engine!StrayWrites
    <3>2. UNCHANGED <<host, jobs, job, pc, phase, held, prog, beh, helper, full, cum,
                      res, verdict, fact, truths, leaked>>
      BY <1>8 DEF Engine!StrayWrites
    <3> QED
      BY <2>1, <3>1, <3>2
<1>9. CASE Engine!StrayEnds
  BY <1>9 DEF Engine!StrayEnds, Engine!NoStray
<1>10. CASE Engine!Dies
  <2>1. stray' \in [state : {"none", "alive", "wrote", "dying"}, pipes : BOOLEAN,
                    group : BOOLEAN]
    <3>1. stray' = stray \/ stray' = Engine!NoStray
      BY <1>10 DEF Engine!Dies
    <3>2. Engine!NoStray \in [state : {"none", "alive", "wrote", "dying"}, pipes : BOOLEAN,
                              group : BOOLEAN]
      BY DEF Engine!NoStray
    <3> QED
      BY <3>1, <3>2
  <2>2. prog' \in {"none", "running", "dying", "ended"}
    BY <1>10 DEF Engine!Dies
  <2>3. UNCHANGED <<host, jobs, job, pc, phase, held, beh, helper, err, full, cum,
                    res, verdict, fact, truths, leaked>>
    BY <1>10 DEF Engine!Dies
  <2> QED
    BY <2>1, <2>2, <2>3
<1>11. CASE Engine!CollectRun
  <2>1. cum' \in BOOLEAN
    BY <1>11 DEF Engine!CollectRun
  <2>2. /\ res'.status \in Engine!Statuses
        /\ res'.shown \subseteq Engine!Tokens
        /\ res' = [status |-> res'.status, out |-> beh.out, shown |-> res'.shown]
    BY <1>11, ShownAreTokens DEF Engine!CollectRun, Engine!Measured, Engine!Statuses
  <2>3. fact' \in Engine!FactType
    <3>1. Engine!Deserved \in Engine!Statuses
      BY DEF Engine!Deserved, Engine!Statuses
    <3>2. Engine!Misread \in BOOLEAN
      BY DEF Engine!Misread
    <3> QED
      BY <1>11, <3>1, <3>2 DEF Engine!CollectRun, Engine!FactType
  <2> QED
    BY <1>11, <2>1, <2>2, <2>3 DEF Engine!CollectRun
<1>12. CASE Engine!CollectCompile
  <2>1. cum' \in BOOLEAN
    BY <1>12 DEF Engine!CollectCompile
  <2>2. [status |-> "CE", out |-> "wrong", shown |-> Engine!Cleaned(err)]
           \in [status : Engine!Statuses, out : Engine!Outputs, shown : SUBSET Engine!Tokens]
    BY ShownAreTokens DEF Engine!Statuses, Engine!Outputs
  <2>3. CaseTyped'
    <3>1. \/ UNCHANGED <<res, fact>>
          \/ /\ res' = [status |-> "CE", out |-> "wrong", shown |-> Engine!Cleaned(err)]
             /\ fact' = Engine!Fact("CE")
      BY <1>12 DEF Engine!CollectCompile
    <3>2. pc' = "kill" /\ UNCHANGED <<phase, held>>
      BY <1>12 DEF Engine!CollectCompile
    <3>3. res' \in [status : Engine!Statuses, out : Engine!Outputs, shown : SUBSET Engine!Tokens]
      BY <2>2, <3>1
    <3>4. fact' \in Engine!FactType
      <4>1. "CE" \in Engine!Statuses
        BY CaseTypes
      <4>2. Engine!Fact("CE") \in Engine!FactType
        BY <4>1, CaseTypes
      <4> QED
        BY <3>1, <4>2
    <3> QED
      BY <3>2, <3>3, <3>4 DEF CaseTyped
  <2>4. UNCHANGED <<host, jobs, job, Engine!world, verdict, truths, leaked>>
    BY <1>12 DEF Engine!CollectCompile
  <2> QED
    BY <2>1, <2>3, <2>4 DEF CaseTyped
<1>13. CASE Engine!Deadline
  <2>1. cum' \in BOOLEAN
    BY <1>13 DEF Engine!Deadline
  <2>2. stray' \in [state : {"none", "alive", "wrote", "dying"}, pipes : BOOLEAN,
                    group : BOOLEAN]
    BY <1>13 DEF Engine!Deadline
  <2> QED
    BY <1>13, <2>1, <2>2, CaseTypes DEF Engine!Deadline
<1>14. CASE Engine!KillGroup
  <2>1. stray' \in [state : {"none", "alive", "wrote", "dying"}, pipes : BOOLEAN,
                    group : BOOLEAN]
    BY <1>14 DEF Engine!KillGroup
  <2> QED
    BY <1>14, <2>1 DEF Engine!KillGroup
<1>15. CASE Engine!Destroy
  <2>1. leaked' \in BOOLEAN
    BY <1>15 DEF Engine!Destroy
  <2>2. /\ prog' = "none" /\ helper' = "none" /\ err' = <<>>
        /\ stray' \in [state : {"none", "alive", "wrote", "dying"}, pipes : BOOLEAN,
                       group : BOOLEAN]
        /\ beh' \in [exit : {"zero", "nonzero", "xcpu", "oom"}, mem : Engine!Sizes,
                     out : Engine!Outputs, err : Engine!AllErrKinds,
                     bg : {"none", "group", "session"}, pipes : BOOLEAN]
    BY <1>15 DEF Engine!Destroy, Engine!Forget, Engine!NoStray, Engine!NoBehaviour,
                 Engine!Outputs, Engine!AllErrKinds, Engine!Sizes
  <2>3. full' \in BOOLEAN
    BY <1>15 DEF Engine!Destroy, Engine!Forget
  <2>4. CaseTyped'
    <3>1. \/ held' = held \ {"cgroup", "jail", "workdir"} /\ phase' = "run" /\ pc' = "create"
          \/ held' = {} /\ pc' = "judge" /\ phase' = phase
      BY <1>15 DEF Engine!Destroy
    <3>2. UNCHANGED <<res, fact>>
      BY <1>15 DEF Engine!Destroy
    <3> QED
      BY <3>1, <3>2 DEF CaseTyped
  <2>5. UNCHANGED <<host, jobs, job, cum, verdict, truths>>
    BY <1>15 DEF Engine!Destroy
  <2> QED
    BY <2>1, <2>2, <2>3, <2>4, <2>5 DEF CaseTyped
<1>16. CASE Engine!JudgeCase
  <2>1. truths' \in Seq(Engine!FactType)
    BY <1>16 DEF Engine!JudgeCase
  <2>2. verdict' \in Engine!Statuses
    BY <1>16 DEF Engine!JudgeCase, Engine!Statuses
  <2>3. CaseTyped'
    <3>1. CASE Engine!StartCase(job)
      BY <3>1, CaseTypes DEF CaseTyped, Engine!StartCase
    <3>2. CASE ~Engine!StartCase(job)
      <4>1. /\ pc' = "done" /\ res' = Engine!NoResult /\ fact' = Engine!Fact("none")
            /\ UNCHANGED <<phase, held>>
        BY <1>16, <3>2 DEF Engine!JudgeCase
      <4> QED
        BY <4>1, CaseTypes DEF CaseTyped
    <3> QED
      BY <3>1, <3>2
  <2>4. UNCHANGED <<host, jobs, job, Engine!world, cum, leaked>>
    BY <1>16 DEF Engine!JudgeCase
  <2> QED
    BY <2>1, <2>2, <2>3, <2>4 DEF CaseTyped
<1>17. CASE Engine!Hand
  BY <1>17 DEF Engine!Hand
<1>18. CASE UNCHANGED Engine!vars
  BY <1>18 DEF Engine!vars
<1> QED
  BY <1>1, <1>2, <1>3, <1>4, <1>5, <1>6, <1>7, <1>8, <1>9, <1>10, <1>11, <1>12, <1>13,
     <1>14, <1>15, <1>16, <1>17, <1>18 DEF Engine!Next, Engine!EngineStep

-----------------------------------------------------------------------------
(* What an engine step leaves behind.                                      *)

\* Nothing of a subprocess runs before it is started and after it is forgotten.
LEMMA RestingStep ==
    ASSUME Engine!TypeOK, Resting, Upkeep, [Engine!Next]_(Engine!vars)
    PROVE  Resting'
<1> USE DEF Resting, Engine!world
<1>1. CASE Engine!Take \/ Engine!CreateCgroup \/ Engine!SpawnRaises \/ Engine!JudgeCase
           \/ Engine!Hand
  <2>1. pc \in {"idle", "create", "spawn", "judge", "done"}
    BY <1>1 DEF Engine!Take, Engine!CreateCgroup, Engine!SpawnRaises, Engine!JudgeCase,
                Engine!Hand
  <2>2. UNCHANGED <<prog, beh, helper, stray, err, full>>
    BY <1>1 DEF Engine!Take, Engine!CreateCgroup, Engine!SpawnRaises, Engine!JudgeCase,
                Engine!Hand
  <2> QED
    BY <2>1, <2>2
<1>2. CASE Engine!Spawn \/ Engine!CollectRun \/ Engine!CollectCompile \/ Engine!Deadline
           \/ Engine!KillGroup
  <2>1. pc' \in {"reading", "kill", "destroy"}
    BY <1>2 DEF Engine!Spawn, Engine!CollectRun, Engine!CollectCompile, Engine!Deadline,
                Engine!KillGroup
  <2> QED
    BY <2>1
<1>3. CASE Engine!ProgramEnds \/ Engine!HelperReaps \/ Engine!HelperExits
           \/ Engine!StrayWrites \/ Engine!StrayEnds \/ Engine!Dies
  <2>1. \/ prog \in {"running", "dying"} \/ helper \in {"waiting", "reaped"}
        \/ stray.state \in {"alive", "wrote", "dying"}
    BY <1>3 DEF Engine!ProgramEnds, Engine!HelperReaps, Engine!HelperExits,
                Engine!StrayWrites, Engine!StrayEnds, Engine!Dies
  <2>2. pc' = pc
    BY <1>3 DEF Engine!ProgramEnds, Engine!HelperReaps, Engine!HelperExits,
                Engine!StrayWrites, Engine!StrayEnds, Engine!Dies
  <2> QED
    BY <2>1, <2>2 DEF Engine!NoStray
<1>4. CASE Engine!Destroy
  BY <1>4 DEF Engine!Destroy, Engine!Forget
<1>5. CASE UNCHANGED Engine!vars
  BY <1>5 DEF Engine!vars
<1> QED
  BY <1>1, <1>2, <1>3, <1>4, <1>5 DEF Engine!Next, Engine!EngineStep

\* What still has to be removed is removed.
LEMMA UpkeepStep ==
    ASSUME Engine!TypeOK, Resting, Upkeep, [Engine!Next]_(Engine!vars)
    PROVE  Upkeep'
<1> USE DEF Upkeep, Engine!world
<1>1. CASE Engine!Take
  BY <1>1 DEF Engine!Take, Engine!StartCase
<1>2. CASE Engine!CreateCgroup
  <2>1. helper = "none" /\ helper' = "none"
    BY <1>2 DEF Engine!CreateCgroup, Resting
  <2>2. held \subseteq held' /\ phase' = phase /\ pc' \in {"spawn", "kill"} /\ pc = "create"
    BY <1>2 DEF Engine!CreateCgroup, Engine!Raise
  <2> QED
    BY <2>1, <2>2
<1>3. CASE Engine!Spawn
  BY <1>3 DEF Engine!Spawn
<1>4. CASE Engine!SpawnRaises
  <2>1. helper = "none" /\ helper' = "none"
    BY <1>4 DEF Engine!SpawnRaises, Resting
  <2>2. held \subseteq held' /\ phase' = phase /\ pc' = "kill" /\ pc = "spawn"
    BY <1>4 DEF Engine!SpawnRaises, Engine!Raise
  <2> QED
    BY <2>1, <2>2
<1>5. CASE Engine!ProgramEnds \/ Engine!HelperReaps \/ Engine!HelperExits
           \/ Engine!StrayWrites
  <2>1. UNCHANGED <<host, pc, phase, held>>
    BY <1>5 DEF Engine!ProgramEnds, Engine!HelperReaps, Engine!HelperExits,
                Engine!StrayWrites
  <2>2. helper \in {"waiting", "reaped"} \/ pc = "reading"
    BY <1>5 DEF Engine!ProgramEnds, Engine!HelperReaps, Engine!HelperExits,
                Engine!StrayWrites
  <2> QED
    BY <2>1, <2>2
<1>6. CASE Engine!StrayEnds \/ Engine!Dies
  <2>1. UNCHANGED <<host, pc, phase, held, helper>>
    BY <1>6 DEF Engine!StrayEnds, Engine!Dies
  <2>2. stray' = stray \/ stray' = Engine!NoStray
    BY <1>6 DEF Engine!StrayEnds, Engine!Dies
  <2>3. Engine!StrayRuns' => Engine!StrayRuns
    BY <2>2 DEF Engine!StrayRuns, Engine!NoStray
  <2> QED
    BY <2>1, <2>3
<1>7. CASE Engine!CollectRun \/ Engine!CollectCompile \/ Engine!Deadline
  <2>1. pc = "reading" /\ pc' = "kill" /\ helper' = "gone" /\ UNCHANGED <<phase, held>>
    BY <1>7 DEF Engine!CollectRun, Engine!CollectCompile, Engine!Deadline, Engine!Eof
  <2> QED
    BY <2>1
<1>8. CASE Engine!KillGroup
  <2>1. /\ pc = "kill" /\ pc' = "destroy" /\ UNCHANGED <<host, phase, held, helper>>
    BY <1>8 DEF Engine!KillGroup
  <2>2. "cgroup" \in held /\ host.kill => ~Engine!StrayRuns'
    <3>1. CASE Engine!StrayRuns
      <4>1. "cgroup" \in held /\ host.kill => stray' = [stray EXCEPT !.state = "dying"]
        BY <1>8, <3>1 DEF Engine!KillGroup
      <4> QED
        BY <4>1 DEF Engine!StrayRuns, Engine!TypeOK
    <3>2. CASE ~Engine!StrayRuns
      BY <1>8, <3>2 DEF Engine!KillGroup, Engine!StrayRuns
    <3> QED
      BY <3>1, <3>2
  <2> QED
    BY <2>1, <2>2
<1>9. CASE Engine!Destroy
  BY <1>9 DEF Engine!Destroy
<1>10. CASE Engine!JudgeCase
  <2>1. CASE Engine!StartCase(job)
    BY <2>1 DEF Engine!StartCase
  <2>2. CASE ~Engine!StartCase(job)
    <3>1. pc = "judge" /\ pc' = "done" /\ held' = held
      BY <1>10, <2>2 DEF Engine!JudgeCase
    <3> QED
      BY <3>1
  <2> QED
    BY <2>1, <2>2
<1>11. CASE Engine!Hand
  BY <1>11 DEF Engine!Hand
<1>12. CASE UNCHANGED Engine!vars
  BY <1>12 DEF Engine!vars, Engine!StrayRuns
<1> QED
  BY <1>1, <1>2, <1>3, <1>4, <1>5, <1>6, <1>7, <1>8, <1>9, <1>10, <1>11, <1>12
     DEF Engine!Next, Engine!EngineStep

-----------------------------------------------------------------------------
(* What users are shown.                                                   *)

\* A tame program's standard error stays a sequence of whole lines.
LEMMA AppendKeepsLines ==
    ASSUME NEW e \in Seq(Engine!Tokens), ~full,
           \A i \in 1..Len(e) : e[i] \in {"line", "cg", "ru"},
           NEW t \in {"line", "cg", "ru"}
    PROVE  /\ Engine!Write(e, t) \in Seq(Engine!Tokens)
           /\ \A i \in 1..Len(Engine!Write(e, t)) :
                 Engine!Write(e, t)[i] \in {"line", "cg", "ru"}
           /\ Engine!Write(e, t) # <<>>
           /\ Engine!Write(e, t)[Len(Engine!Write(e, t))] = t
<1>1. t \in Engine!Tokens
  BY DEF Engine!Tokens
<1>2. Engine!Write(e, t) = Append(e, t)
  <2>1. e # <<>> => Len(e) \in 1..Len(e)
    OBVIOUS
  <2>2. e # <<>> => e[Len(e)] # "part"
    BY <2>1
  <2> QED
    BY <2>2 DEF Engine!Write
<1>3. PICK w : w = Append(e, t)
  OBVIOUS
<1>4. /\ w \in Seq(Engine!Tokens) /\ w # <<>> /\ Len(w) = Len(e) + 1
      /\ \A i \in 1..Len(e) : w[i] = e[i]
      /\ w[Len(e) + 1] = t
  BY <1>1, <1>3, AppendProperties
<1>5. \A i \in 1..Len(w) : w[i] \in {"line", "cg", "ru"}
  <2>1. \A i \in 1..Len(w) : i \in 1..Len(e) \/ i = Len(e) + 1
    BY <1>4
  <2> QED
    BY <1>4, <2>1
<1> QED
  BY <1>2, <1>3, <1>4, <1>5

\* While a tame program is read its output is whole lines, and ends with the helper's.
LEMMA TameStep ==
    ASSUME Engine!TypeOK, Resting, TameOutput, [Engine!Next]_(Engine!vars)
    PROVE  TameOutput'
<1> SUFFICES ASSUME pc' = "reading", Tame'
             PROVE  /\ ~stray'.pipes /\ ~full'
                    /\ \A i \in 1..Len(err') : err'[i] \in {"line", "cg", "ru"}
                    /\ helper' = "gone" => Engine!Believed(err)'
  BY DEF TameOutput
<1> USE DEF Engine!world
<1>t. /\ err \in Seq(Engine!Tokens) /\ full \in BOOLEAN
      /\ stray \in [state : {"none", "alive", "wrote", "dying"}, pipes : BOOLEAN,
                    group : BOOLEAN]
  BY DEF Engine!TypeOK
<1>w. ASSUME NEW t \in {"line", "cg", "ru"}, pc = "reading", Tame, UNCHANGED full,
             err' = Engine!Write(err, t)
      PROVE  /\ ~full' /\ \A i \in 1..Len(err') : err'[i] \in {"line", "cg", "ru"}
             /\ t = "ru" => Engine!Believed(err)'
  <2>1. ~full /\ \A i \in 1..Len(err) : err[i] \in {"line", "cg", "ru"}
    BY <1>w DEF TameOutput
  <2>2. PICK w : w = Engine!Write(err, t)
    OBVIOUS
  <2>3. /\ \A i \in 1..Len(w) : w[i] \in {"line", "cg", "ru"}
        /\ w # <<>> /\ w[Len(w)] = t
    BY <1>t, <2>1, <2>2, AppendKeepsLines
  <2>4. err' = w /\ ~full'
    BY <1>w, <2>1, <2>2
  <2> QED
    BY <2>3, <2>4 DEF Engine!Believed
<1>1. CASE Engine!Take \/ Engine!CreateCgroup \/ Engine!SpawnRaises \/ Engine!CollectRun
           \/ Engine!CollectCompile \/ Engine!Deadline \/ Engine!KillGroup \/ Engine!Destroy
           \/ Engine!JudgeCase \/ Engine!Hand
  <2>1. pc' # "reading"
    BY <1>1 DEF Engine!Take, Engine!CreateCgroup, Engine!SpawnRaises, Engine!CollectRun,
       Engine!CollectCompile, Engine!Deadline, Engine!KillGroup, Engine!Destroy,
       Engine!JudgeCase, Engine!Hand, Engine!StartCase, Engine!Raise
  <2> QED
    BY <2>1
<1>2. CASE Engine!Spawn
  <2>1. stray' = Engine!NoStray /\ err' = <<>> /\ full' = FALSE /\ helper' = "waiting"
    BY <1>2 DEF Engine!Spawn, Resting
  <2> QED
    BY <2>1 DEF Engine!NoStray
<1>3. CASE Engine!ProgramEnds
  <2>1. PICK b \in Engine!Behaviours :
           /\ beh' = b
           /\ err' = IF b.err = "none" THEN <<>>
                     ELSE IF b.err = "full" THEN <<"line">> ELSE <<b.err>>
           /\ full' = (b.err = "full")
           /\ stray' = IF b.bg = "none" THEN Engine!NoStray
                       ELSE [state |-> "alive", pipes |-> b.pipes, group |-> b.bg = "group"]
    BY <1>3 DEF Engine!ProgramEnds, Engine!CompilerBehaviours
  <2>2. b.err \notin {"part", "full"} /\ ~b.pipes
    BY <2>1 DEF Tame
  <2>3. b.err \in {"none", "line"}
    BY <2>2, JudgeEngineAssumption
       DEF Engine!Behaviours, Engine!EngineAssumption, Engine!AllErrKinds
  <2>4. err' = <<>> \/ err' = <<"line">>
    BY <2>1, <2>3
  <2>5. ~full' /\ ~stray'.pipes
    BY <2>1, <2>2 DEF Engine!NoStray
  <2>6. helper' # "gone"
    BY <1>3 DEF Engine!ProgramEnds
  <2> QED
    BY <2>4, <2>5, <2>6
<1>4. CASE Engine!HelperReaps
  <2>1. pc = "reading" /\ Tame /\ helper' = "reaped" /\ UNCHANGED <<stray, full>>
    BY <1>4 DEF Engine!HelperReaps, Tame
  <2>2. err' = err \/ err' = Engine!Write(err, "cg")
    BY <1>4 DEF Engine!HelperReaps
  <2> QED
    BY <2>1, <2>2, <1>w DEF TameOutput
<1>5. CASE Engine!HelperExits
  <2>1. pc = "reading" /\ Tame /\ UNCHANGED <<stray, full>>
    BY <1>5 DEF Engine!HelperExits, Tame
  <2>2. err' = Engine!Write(err, "ru")
    BY <1>5 DEF Engine!HelperExits
  <2> QED
    BY <2>1, <2>2, <1>w DEF TameOutput
<1>6. CASE Engine!StrayWrites
  <2>1. pc = "reading" /\ Tame /\ stray.pipes
    BY <1>6 DEF Engine!StrayWrites, Tame
  <2> QED
    BY <2>1 DEF TameOutput
<1>7. CASE Engine!StrayEnds \/ Engine!Dies
  <2>1. /\ pc = "reading" /\ Tame /\ UNCHANGED <<helper, err, full>>
        /\ stray' = stray \/ stray' = Engine!NoStray
    BY <1>7 DEF Engine!StrayEnds, Engine!Dies, Tame
  <2> QED
    BY <2>1 DEF TameOutput, Engine!NoStray, Engine!Believed
<1>8. CASE UNCHANGED Engine!vars
  BY <1>8 DEF Engine!vars, TameOutput, Tame, Engine!Believed
<1> QED
  BY <1>1, <1>2, <1>3, <1>4, <1>5, <1>6, <1>7, <1>8 DEF Engine!Next, Engine!EngineStep

\* A compilation has no result while it goes on.
LEMMA NoResultStep ==
    ASSUME Engine!TypeOK, NoResultYet, [Engine!Next]_(Engine!vars)
    PROVE  NoResultYet'
<1> USE DEF NoResultYet, Engine!world
<1>1. CASE Engine!Take
  BY <1>1 DEF Engine!Take, Engine!StartCase
<1>2. CASE Engine!JudgeCase
  BY <1>2 DEF Engine!JudgeCase, Engine!StartCase
<1>3. CASE Engine!CreateCgroup
  BY <1>3 DEF Engine!CreateCgroup, Engine!Raise
<1>4. CASE Engine!SpawnRaises \/ Engine!CollectRun \/ Engine!CollectCompile
           \/ Engine!Deadline \/ Engine!KillGroup \/ Engine!Hand
  BY <1>4 DEF Engine!SpawnRaises, Engine!Raise, Engine!CollectRun, Engine!CollectCompile,
              Engine!Deadline, Engine!KillGroup, Engine!Hand
<1>5. CASE Engine!Spawn
  BY <1>5 DEF Engine!Spawn
<1>6. CASE Engine!Destroy
  BY <1>6 DEF Engine!Destroy
<1>7. CASE Engine!ProgramEnds \/ Engine!HelperReaps \/ Engine!HelperExits
           \/ Engine!StrayWrites \/ Engine!StrayEnds \/ Engine!Dies
           \/ UNCHANGED Engine!vars
  <2>1. UNCHANGED <<pc, phase, res>>
    BY <1>7 DEF Engine!ProgramEnds, Engine!HelperReaps, Engine!HelperExits,
       Engine!StrayWrites, Engine!StrayEnds, Engine!Dies, Engine!vars
  <2> QED
    BY <2>1
<1> QED
  BY <1>1, <1>2, <1>3, <1>4, <1>5, <1>6, <1>7 DEF Engine!Next, Engine!EngineStep

\* The helper's lines are taken out of what a tame program's user is shown.
LEMMA ShownStep ==
    ASSUME EngineInv, [Engine!Next]_(Engine!vars)
    PROVE  ShownIsClean'
<1> USE DEF EngineInv, Engine!world
<1>c. ASSUME pc = "reading", helper = "gone", Tame
      PROVE  Engine!Cleaned(err) \intersect {"cg", "ru", "glued"} = {}
  <2>1. /\ Engine!Believed(err) /\ err \in Seq(Engine!Tokens)
        /\ \A i \in 1..Len(err) : err[i] \in {"line", "cg", "ru"}
    BY <1>c DEF TameOutput, Engine!TypeOK
  <2>2. \A t \in Engine!TokensOf(err) : t \in {"line", "cg", "ru"}
    BY <2>1 DEF Engine!TokensOf
  <2> QED
    BY <2>1, <2>2 DEF Engine!Cleaned, Engine!IsMarker
<1>n. Engine!NoResult.shown = {} /\ \A s : [Engine!NoResult EXCEPT !.status = s].shown = {}
  BY DEF Engine!NoResult
<1>1. CASE Engine!Take \/ Engine!Spawn \/ Engine!Destroy \/ Engine!JudgeCase \/ Engine!Hand
  <2>1. pc' \notin {"kill", "destroy"}
    BY <1>1 DEF Engine!Take, Engine!Spawn, Engine!Destroy, Engine!JudgeCase, Engine!Hand,
       Engine!StartCase
  <2> QED
    BY <2>1 DEF ShownIsClean
<1>2. CASE Engine!CreateCgroup \/ Engine!SpawnRaises \/ Engine!Deadline
  <2>1. pc' \in {"kill", "destroy"} => \E s : res' = [Engine!NoResult EXCEPT !.status = s]
    BY <1>2 DEF Engine!CreateCgroup, Engine!SpawnRaises, Engine!Raise, Engine!Deadline
  <2> QED
    BY <2>1, <1>n DEF ShownIsClean
<1>3. CASE Engine!CollectRun
  <2>1. pc = "reading" /\ helper = "gone" /\ UNCHANGED beh
    BY <1>3 DEF Engine!CollectRun, Engine!Eof
  <2>2. res'.shown = Engine!Cleaned(err) \/ res'.shown = {}
    BY <1>3 DEF Engine!CollectRun
  <2> QED
    BY <2>1, <2>2, <1>c DEF ShownIsClean, Tame
<1>4. CASE Engine!CollectCompile
  <2>1. pc = "reading" /\ helper = "gone" /\ phase = "compile" /\ UNCHANGED beh
    BY <1>4 DEF Engine!CollectCompile, Engine!Eof
  <2>2. res'.shown = Engine!Cleaned(err) \/ res' = Engine!NoResult
    BY <1>4, <2>1 DEF Engine!CollectCompile, NoResultYet
  <2> QED
    BY <2>1, <2>2, <1>c, <1>n DEF ShownIsClean, Tame
<1>5. CASE Engine!KillGroup
  <2>1. pc = "kill" /\ UNCHANGED <<res, beh>>
    BY <1>5 DEF Engine!KillGroup
  <2> QED
    BY <2>1 DEF ShownIsClean, Tame
<1>6. CASE Engine!ProgramEnds
  <2>1. helper = "waiting" /\ pc' = pc
    BY <1>6 DEF Engine!ProgramEnds
  <2> QED
    BY <2>1 DEF Upkeep, ShownIsClean
<1>7. CASE Engine!HelperReaps \/ Engine!HelperExits \/ Engine!StrayWrites
           \/ Engine!StrayEnds \/ Engine!Dies \/ UNCHANGED Engine!vars
  <2>1. UNCHANGED <<pc, res, beh>>
    BY <1>7 DEF Engine!HelperReaps, Engine!HelperExits, Engine!StrayWrites,
       Engine!StrayEnds, Engine!Dies, Engine!vars
  <2> QED
    BY <2>1 DEF ShownIsClean, Tame
<1> QED
  BY <1>1, <1>2, <1>3, <1>4, <1>5, <1>6, <1>7 DEF Engine!Next, Engine!EngineStep

\* Initially the engine is idle.
LEMMA EngineInitially == Engine!Init => EngineInv
<1> SUFFICES ASSUME Engine!Init PROVE EngineInv
  OBVIOUS
<1> USE DEF Engine!Init
<1>1. Engine!TypeOK
  <2>1. 0 \in 0..MaxJobs /\ 0 \in 0..MaxCases
    BY JudgeEngineAssumption DEF Engine!EngineAssumption
  <2>2. /\ job \in [lang : Engine!Langs, cases : 0..MaxCases]
        /\ beh \in [exit : {"zero", "nonzero", "xcpu", "oom"}, mem : Engine!Sizes,
                    out : Engine!Outputs, err : Engine!AllErrKinds,
                    bg : {"none", "group", "session"}, pipes : BOOLEAN]
        /\ stray \in [state : {"none", "alive", "wrote", "dying"}, pipes : BOOLEAN,
                      group : BOOLEAN]
    BY <2>1 DEF Engine!Langs, Engine!NoBehaviour, Engine!NoStray, Engine!Outputs,
                Engine!AllErrKinds, Engine!Sizes
  <2>3. err \in Seq(Engine!Tokens) /\ truths \in Seq(Engine!FactType)
    OBVIOUS
  <2>4. fact \in Engine!FactType /\ verdict \in Engine!Statuses
    BY DEF Engine!Fact, Engine!FactType, Engine!Statuses
  <2>5. full \in BOOLEAN /\ cum \in BOOLEAN /\ leaked \in BOOLEAN
    OBVIOUS
  <2> QED
    BY <2>1, <2>2, <2>3, <2>4, <2>5, CaseTypes DEF Engine!TypeOK
<1>2. Resting /\ Upkeep /\ TameOutput /\ NoResultYet /\ ShownIsClean
  BY DEF Resting, Upkeep, TameOutput, NoResultYet, ShownIsClean
<1> QED
  BY <1>1, <1>2 DEF EngineInv

\* The invariant is inductive.
LEMMA EngineInductive ==
    ASSUME EngineInv, [Engine!Next]_(Engine!vars)
    PROVE  EngineInv'
BY EngineTypeStep, RestingStep, UpkeepStep, TameStep, NoResultStep, ShownStep DEF EngineInv

\* The helper's lines are for the engine: what a user is shown as an error has none of
\* them, in any mix of submissions, unless the program left its last line open, printed
\* too much, or left a process at the pipes.
THEOREM MarkersAreHidden == FairSpec => []MarkersStayInside
<1>1. EngineInv => MarkersStayInside
  BY DEF EngineInv, ShownIsClean, Tame, MarkersStayInside, Engine!MarkersStayInside
<1> QED
  BY <1>1, EngineInitially, EngineInductive, EngineRuns, PTL

\* When a subprocess is done with, nothing of it is left: no directory, and, where it was
\* put into a cgroup that can be killed at once, no running process.
THEOREM NothingIsLeft == FairSpec => CleanAfterwards
<1> DEFINE Clean == /\ (pc = "destroy" /\ pc' = "create") => held' = {"tmp"}
                    /\ pc' \in {"judge", "done"} => held' = {}
                    /\ (pc = "destroy" /\ "cgroup" \in held /\ host.kill) => ~Engine!StrayRuns
<1>1. ASSUME EngineInv, [Engine!Next]_(Engine!vars)
      PROVE  Clean
  <2>1. pc' \in {"judge", "done"} => held' = {}
    BY <1>1, EngineInductive DEF EngineInv, Upkeep
  <2>2. ASSUME pc = "destroy", pc' = "create" PROVE held' = {"tmp"}
    <3>1. Engine!Destroy
      BY <1>1, <2>2 DEF Engine!Next, Engine!EngineStep, Engine!vars, Engine!Take,
         Engine!CreateCgroup, Engine!Spawn, Engine!SpawnRaises, Engine!CollectRun,
         Engine!CollectCompile, Engine!Eof, Engine!Deadline, Engine!KillGroup,
         Engine!JudgeCase, Engine!Hand, Engine!ProgramEnds, Engine!HelperReaps,
         Engine!HelperExits, Engine!StrayWrites, Engine!StrayEnds, Engine!Dies
    <3>2. phase = "compile" /\ held' = held \ {"cgroup", "jail", "workdir"}
      BY <2>2, <3>1 DEF Engine!Destroy
    <3> QED
      BY <1>1, <2>2, <3>2 DEF EngineInv, Upkeep, Engine!TypeOK
  <2>3. (pc = "destroy" /\ "cgroup" \in held /\ host.kill) => ~Engine!StrayRuns
    BY <1>1 DEF EngineInv, Upkeep
  <2> QED
    BY <2>1, <2>2, <2>3
<1>2. EngineInv /\ [Engine!Next]_(Engine!vars) => [Clean]_(Engine!vars)
  BY <1>1
<1> HIDE DEF Clean
<1>3. FairSpec => [][Clean]_(Engine!vars)
  BY <1>2, EngineInitially, EngineInductive, EngineRuns, PTL
<1> QED
  BY <1>3 DEF Clean, CleanAfterwards, Engine!CleanAfterwards

-----------------------------------------------------------------------------
(* The verdict.                                                            *)

\* The kernel kills for memory only what has passed the limit.
LEMMA KillsStep ==
    ASSUME Kills, [Engine!Next]_(Engine!vars)
    PROVE  Kills'
<1>1. CASE Engine!ProgramEnds
  <2>1. PICK b \in Engine!Behaviours : beh' = b
    BY <1>1 DEF Engine!ProgramEnds, Engine!CompilerBehaviours
  <2> QED
    BY <2>1 DEF Kills, Engine!Behaviours
<1>2. CASE Engine!Destroy
  BY <1>2 DEF Kills, Engine!Destroy, Engine!Forget, Engine!NoBehaviour
<1>3. CASE ~Engine!ProgramEnds /\ ~Engine!Destroy
  <2>1. UNCHANGED beh
    BY <1>3 DEF Engine!Next, Engine!EngineStep, Engine!vars, Engine!Take, Engine!world,
       Engine!CreateCgroup, Engine!Spawn, Engine!SpawnRaises, Engine!CollectRun,
       Engine!CollectCompile, Engine!Deadline, Engine!KillGroup, Engine!JudgeCase,
       Engine!Hand, Engine!HelperReaps, Engine!HelperExits, Engine!StrayWrites,
       Engine!StrayEnds, Engine!Dies
  <2> QED
    BY <2>1 DEF Kills
<1> QED
  BY <1>1, <1>2, <1>3

\* Where the memory was not misread, the status that is measured is the one the program
\* deserves.
LEMMA MeasuredIsDeserved ==
    ASSUME Engine!TypeOK, Kills, Engine!CollectRun
    PROVE  fact'.misread \/ fact'.status = Judged(res')
<1> DEFINE high == beh.mem = "high"
           seen == IF Engine!CgroupBelieved(err) THEN Engine!CgroupPeakIsHigh
                   ELSE IF Engine!Believed(err) THEN high ELSE cum'
           oom == Engine!CgroupBelieved(err) /\ beh.exit = "oom"
<1>1. /\ res'.status = Engine!Measured(seen, oom) /\ res'.out = beh.out
      /\ fact'.status = Engine!Deserved /\ fact'.misread = Engine!Misread
      /\ cum' = (cum \/ high)
  BY DEF Engine!CollectRun
<1>2. /\ beh.exit \in {"zero", "nonzero", "xcpu", "oom"} /\ beh.out \in {"right", "wrong"}
      /\ beh.mem \in {"tiny", "usual", "high"} /\ host.peak \in BOOLEAN
  BY JudgeEngineAssumption
  DEF Engine!TypeOK, Engine!Outputs, Engine!Sizes, Engine!EngineAssumption, Engine!HostType
<1>3. beh.exit = "oom" => high
  BY DEF Kills
<1>4. Engine!CgroupBelieved(err) => Engine!Believed(err)
  BY DEF Engine!CgroupBelieved
<1>5. ~Engine!Misread => \/ seen <=> high
                         \/ beh.exit = "xcpu"
                         \/ (oom /\ ~seen)
  BY <1>1, <1>2, <1>3, <1>4 DEF Engine!Misread, Engine!CgroupPeakIsHigh
<1>6. (seen <=> high) \/ beh.exit = "xcpu" \/ (oom /\ ~seen) => Engine!Deserved = Judged(res')
  BY <1>1, <1>2, <1>3 DEF Engine!Measured, Engine!Deserved, Judged
<1> QED
  BY <1>1, <1>5, <1>6

\* From the collection on, the result of a case is the one its program deserves.
LEMMA CaseStep ==
    ASSUME EngineInv, Kills, CaseIsFair, [Engine!Next]_(Engine!vars)
    PROVE  CaseIsFair'
<1> USE DEF CaseIsFair
<1>r. \A s \in {"CE", "RE", "TLE"} :
         Engine!Fact(s).status = Judged([Engine!NoResult EXCEPT !.status = s])
  BY DEF Engine!Fact, Engine!NoResult, Judged
<1>1. CASE Engine!Take \/ Engine!JudgeCase
  <2>1. \/ pc' \in {"create", "done"}
        \/ /\ pc' = "judge" /\ fact' = Engine!Fact("CE")
           /\ res' = [Engine!NoResult EXCEPT !.status = "CE"]
    BY <1>1 DEF Engine!Take, Engine!JudgeCase, Engine!StartCase
  <2> QED
    BY <2>1, <1>r
<1>2. CASE Engine!CreateCgroup \/ Engine!SpawnRaises \/ Engine!Deadline
  <2>1. \/ pc' = "spawn"
        \/ pc' = "kill" /\ \E s \in {"CE", "RE", "TLE"} :
              fact' = Engine!Fact(s) /\ res' = [Engine!NoResult EXCEPT !.status = s]
    BY <1>2 DEF Engine!CreateCgroup, Engine!SpawnRaises, Engine!Raise, Engine!Deadline
  <2> QED
    BY <2>1, <1>r
<1>3. CASE Engine!Spawn \/ Engine!Hand
  BY <1>3 DEF Engine!Spawn, Engine!Hand
<1>4. CASE Engine!CollectRun
  <2>1. pc' = "kill"
    BY <1>4 DEF Engine!CollectRun
  <2> QED
    BY <1>4, <2>1, MeasuredIsDeserved DEF EngineInv
<1>5. CASE Engine!CollectCompile
  <2>1. pc' = "kill" /\ phase' = "compile" /\ pc = "reading" /\ phase = "compile"
    BY <1>5 DEF Engine!CollectCompile, Engine!Eof
  <2>2. CASE beh.exit = "zero"
    <3>1. res' = Engine!NoResult
      BY <1>5, <2>1, <2>2 DEF Engine!CollectCompile, EngineInv, NoResultYet
    <3> QED
      BY <2>1, <3>1 DEF Engine!NoResult
  <2>3. CASE beh.exit # "zero"
    <3>1. res'.status = "CE" /\ fact' = Engine!Fact("CE")
      BY <1>5, <2>3 DEF Engine!CollectCompile
    <3> QED
      BY <2>1, <3>1 DEF Engine!Fact, Judged
  <2> QED
    BY <2>2, <2>3
<1>6. CASE Engine!KillGroup
  BY <1>6 DEF Engine!KillGroup
<1>7. CASE Engine!Destroy
  BY <1>7 DEF Engine!Destroy
<1>8. CASE Engine!ProgramEnds \/ Engine!HelperReaps \/ Engine!HelperExits
           \/ Engine!StrayWrites \/ Engine!StrayEnds \/ Engine!Dies
           \/ UNCHANGED Engine!vars
  <2>1. UNCHANGED <<pc, phase, res, fact>>
    BY <1>8 DEF Engine!ProgramEnds, Engine!HelperReaps, Engine!HelperExits,
       Engine!StrayWrites, Engine!StrayEnds, Engine!Dies, Engine!vars
  <2> QED
    BY <2>1
<1> QED
  BY <1>1, <1>2, <1>3, <1>4, <1>5, <1>6, <1>7, <1>8 DEF Engine!Next, Engine!EngineStep

\* One turn of the loop of judge: it goes on after a case that went well, or ends with the
\* verdict of this case.
LEMMA TurnStep ==
    ASSUME Engine!TypeOK, CaseIsFair, LoopGoesOn, Engine!JudgeCase
    PROVE  LoopGoesOn' /\ FairVerdict'
<1> DEFINE n == Len(truths)
           wrong == res.status = "OK" /\ res.out = "wrong"
<1>1. /\ pc = "judge" /\ job' = job /\ truths' = Append(truths, fact)
      /\ \/ /\ res.status # "OK" \/ wrong \/ n + 1 = job.cases
            /\ verdict' = IF res.status # "OK" THEN res.status
                          ELSE IF wrong THEN "WA" ELSE "AC"
            /\ pc' = "done"
         \/ /\ ~(res.status # "OK" \/ wrong \/ n + 1 = job.cases)
            /\ pc' # "done"
  BY DEF Engine!JudgeCase, Engine!StartCase
<1>2. /\ truths \in Seq(Engine!FactType) /\ fact \in Engine!FactType /\ n \in Nat
      /\ job.cases \in Nat /\ n < job.cases
  BY <1>1, JudgeEngineAssumption DEF Engine!TypeOK, Engine!EngineAssumption, LoopGoesOn
<1>3. /\ Len(truths') = n + 1 /\ truths' \in Seq(Engine!FactType)
      /\ \A i \in 1..n : truths'[i] = truths[i]
      /\ truths'[n + 1] = fact
  BY <1>1, <1>2, AppendProperties
<1>4. \A i \in 1..n : truths'[i].misread \/ truths'[i].status = "OK"
  BY <1>1, <1>3 DEF LoopGoesOn
<1>5. fact.misread \/ fact.status = Judged(res)
  BY <1>1 DEF CaseIsFair
<1>6. CASE pc' = "done"
  <2>1. LoopGoesOn'
    BY <1>6 DEF LoopGoesOn
  <2>2. ASSUME \A i \in DOMAIN truths' : ~truths'[i].misread
        PROVE  /\ \A i \in 1..((n + 1) - 1) : truths'[i].status = "OK"
               /\ IF truths'[n + 1].status = "OK"
                  THEN n + 1 = job.cases /\ verdict' = "AC"
                  ELSE verdict' = truths'[n + 1].status
    <3>1. DOMAIN truths' = 1..(n + 1) /\ (n + 1) - 1 = n
      BY <1>2, <1>3
    <3>2. \A i \in 1..n : truths'[i].status = "OK"
      BY <1>2, <1>4, <2>2, <3>1
    <3>3. fact.status = Judged(res)
      <4>1. n + 1 \in DOMAIN truths'
        BY <1>2, <3>1
      <4> QED
        BY <1>3, <1>5, <2>2, <4>1
    <3>4. IF fact.status = "OK" THEN n + 1 = job.cases /\ verdict' = "AC"
          ELSE verdict' = fact.status
      BY <1>1, <1>6, <3>3 DEF Judged
    <3> QED
      BY <1>3, <3>1, <3>2, <3>4
  <2>3. job'.cases # 0 /\ Len(truths') > 0 /\ job'.cases = job.cases
    BY <1>1, <1>2, <1>3
  <2>4. FairVerdict'
    BY <1>3, <2>2, <2>3 DEF FairVerdict, Engine!FairVerdict
  <2> QED
    BY <2>1, <2>4
<1>7. CASE pc' # "done"
  <2>1. FairVerdict'
    BY <1>7 DEF FairVerdict, Engine!FairVerdict
  <2>2. res.status = "OK" /\ ~wrong /\ n + 1 # job.cases
    BY <1>1, <1>7
  <2>3. fact.misread \/ fact.status = "OK"
    BY <1>5, <2>2 DEF Judged
  <2>4. \A i \in 1..(n + 1) : truths'[i].misread \/ truths'[i].status = "OK"
    <3>1. \A i \in 1..(n + 1) : i \in 1..n \/ i = n + 1
      BY <1>2
    <3> QED
      BY <1>3, <1>4, <2>3, <3>1
  <2>5. n + 1 < job.cases
    BY <1>2, <2>2
  <2> QED
    BY <1>1, <1>3, <2>1, <2>4, <2>5 DEF LoopGoesOn
<1> QED
  BY <1>6, <1>7

\* The loop goes on with good cases only, and its verdict is fair.
LEMMA FairStep ==
    ASSUME EngineInv, FairInv, [Engine!Next]_(Engine!vars)
    PROVE  FairInv'
<1> USE DEF FairInv
<1>1. Kills' /\ CaseIsFair'
  BY KillsStep, CaseStep
<1>2. CASE Engine!Take
  <2>1. PICK j \in [lang : Engine!Langs, cases : 0..MaxCases] :
           /\ job' = j
           /\ \/ j.cases = 0 /\ pc' = "done" /\ verdict' = "RE"
              \/ j.cases # 0 /\ pc' \in {"judge", "create"}
    BY <1>2 DEF Engine!Take, Engine!StartCase
  <2>2. truths' = <<>>
    BY <1>2 DEF Engine!Take
  <2>3. j.cases \in Nat
    BY JudgeEngineAssumption DEF Engine!EngineAssumption
  <2> QED
    BY <1>1, <2>1, <2>2, <2>3 DEF LoopGoesOn, FairVerdict, Engine!FairVerdict
<1>3. CASE Engine!JudgeCase
  BY <1>1, <1>3, TurnStep DEF EngineInv
<1>4. CASE Engine!Hand
  <2>1. pc' = "idle"
    BY <1>4 DEF Engine!Hand
  <2> QED
    BY <1>1, <2>1 DEF LoopGoesOn, FairVerdict, Engine!FairVerdict
<1>5. CASE Engine!CreateCgroup \/ Engine!Spawn \/ Engine!SpawnRaises \/ Engine!CollectRun
           \/ Engine!CollectCompile \/ Engine!Deadline \/ Engine!KillGroup \/ Engine!Destroy
  <2>1. pc \notin {"idle", "done"} /\ pc' \notin {"idle", "done"} /\ UNCHANGED <<job, truths>>
    BY <1>5 DEF Engine!CreateCgroup, Engine!Spawn, Engine!SpawnRaises, Engine!Raise,
       Engine!CollectRun, Engine!CollectCompile, Engine!Deadline, Engine!Eof,
       Engine!KillGroup, Engine!Destroy
  <2> QED
    BY <1>1, <2>1 DEF LoopGoesOn, FairVerdict, Engine!FairVerdict
<1>6. CASE Engine!ProgramEnds \/ Engine!HelperReaps \/ Engine!HelperExits
           \/ Engine!StrayWrites \/ Engine!StrayEnds \/ Engine!Dies
           \/ UNCHANGED Engine!vars
  <2>1. UNCHANGED <<pc, job, verdict, truths>>
    BY <1>6 DEF Engine!ProgramEnds, Engine!HelperReaps, Engine!HelperExits,
       Engine!StrayWrites, Engine!StrayEnds, Engine!Dies, Engine!vars
  <2> QED
    BY <1>1, <2>1 DEF LoopGoesOn, FairVerdict, Engine!FairVerdict
<1> QED
  BY <1>2, <1>3, <1>4, <1>5, <1>6 DEF Engine!Next, Engine!EngineStep

\* The verdict of a submission is that of its first case that did not go well, and AC only
\* when every case did, with any number of cases and submissions, whatever the programs
\* leave behind, whenever they are read and whatever the kernel offers, unless the memory
\* of a case was misread (Misread).
THEOREM VerdictsAreFair == FairSpec => []FairVerdict
<1>1. Engine!Init => FairInv
  BY DEF Engine!Init, FairInv, Kills, CaseIsFair, LoopGoesOn, FairVerdict,
         Engine!FairVerdict, Engine!NoBehaviour
<1>2. EngineInv /\ FairInv /\ [Engine!Next]_(Engine!vars) => FairInv'
  BY FairStep
<1>3. FairInv => FairVerdict
  BY DEF FairInv
<1> QED
  BY <1>1, <1>2, <1>3, EngineInitially, EngineInductive, EngineRuns, PTL

\* Every variable of the three components keeps its type.
THEOREM PartsKeepTypes == FairSpec => []TypeOK
<1>1. DailyInv => Daily!TypeOK
  BY DEF DailyInv
<1>2. EngineInv => Engine!TypeOK
  BY DEF EngineInv
<1>3. Accounts!TypeOK /\ Daily!TypeOK /\ Engine!TypeOK => TypeOK
  BY DEF TypeOK
<1> QED
  BY <1>1, <1>2, <1>3, AccountsTypes, DailyInitially, DailyInductive, DailyRuns,
     EngineInitially, EngineInductive, EngineRuns, PTL
=============================================================================
