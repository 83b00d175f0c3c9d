------------------------ MODULE JudgePipelineProofs ------------------------
(***************************************************************************)
(* Theorems about JudgePipeline, for every set of submissions, every       *)
(* finite set of workers and rejudge requests and every number of faults:  *)
(* no point is lost and none is counted twice, the flag and the verdict    *)
(* agree, no submission is forgotten, and, when administrators rejudge     *)
(* only what they read as counted, the pipeline implements ScoreLedger and *)
(* the counter is exact.                                                   *)
(***************************************************************************)
EXTENDS JudgePipeline, FiniteSetTheorems, TLAPS

USE PipelineAssumption

-----------------------------------------------------------------------------
(* Types *)

\* Every message belongs to a submission.
LEMMA SubOfType == \A h \in Handlers : SubOf(h) \in Subs
BY DEF SubOf, Handlers

\* The initial state is well typed.
LEMMA InitType == Init => TypeOK
BY DEF Init, TypeOK, Statuses

\* A fault is counted, and its kind remembered.
LEMMA FaultType ==
    ASSUME TypeOK, NEW kind, Fault(kind)
    PROVE  /\ faults' \in [count : 0..MaxFaults, kinds : SUBSET Faults]
           /\ kind \in faults'.kinds
BY DEF TypeOK, Fault

\* The steps of the gateway keep the types.
LEMMA GatewayType ==
    ASSUME TypeOK,
           \/ \E s \in Subs : SubmitStep(s) \/ DeleteProblem(s)
           \/ \E r \in Rejudges : RejudgeStep(r)
           \/ \E h \in Handlers :
                 Reject(h) \/ Send(h) \/ SendLost(h) \/ SendThrows(h) \/ HandlerDies(h)
    PROVE  TypeOK'
<1> USE DEF TypeOK, Statuses, Verdicts, Handlers, wkVars, dbVars, gwVars, GwGoto
<1>1. CASE \E s \in Subs : SubmitInsert(s)
  BY <1>1 DEF SubmitInsert
<1>2. CASE \E s \in Subs : SubmitMarkRE(s)
  BY <1>2 DEF SubmitMarkRE
<1>3. CASE \E s \in Subs : DeleteProblem(s)
  BY <1>3 DEF DeleteProblem
<1>4. CASE \E r \in Rejudges : RejudgeRead(r)
  BY <1>4 DEF RejudgeRead
<1>5. CASE \E r \in Rejudges : RejudgeFlip(r)
  <2> PICK r \in Rejudges : RejudgeFlip(r)
    BY <1>5
  <2>1. CASE status[Target[r]] = "AC" /\ acCounted[Target[r]]
    <3>1. /\ status' = [status EXCEPT ![Target[r]] = "PENDING"]
          /\ acCounted' = [acCounted EXCEPT ![Target[r]] = FALSE]
          /\ gw' = [gw EXCEPT ![r] = "undo"]
      BY <2>1 DEF RejudgeFlip, ResetRow
    <3> QED
      BY <3>1 DEF RejudgeFlip
  <2>2. CASE ~(status[Target[r]] = "AC" /\ acCounted[Target[r]])
    BY <2>2 DEF RejudgeFlip
  <2> QED
    BY <2>1, <2>2
<1>6. CASE \E r \in Rejudges : RejudgeReset(r)
  <2> PICK r \in Rejudges : RejudgeReset(r)
    BY <1>6
  <2>1. CASE RowExists(Target[r])
    <3>1. /\ status' = [status EXCEPT ![Target[r]] = "PENDING"]
          /\ acCounted' = [acCounted EXCEPT ![Target[r]] = FALSE]
          /\ gw' = [gw EXCEPT ![r] = "send"]
      BY <2>1 DEF RejudgeReset, ResetRow
    <3> QED
      BY <3>1 DEF RejudgeReset
  <2>2. CASE ~RowExists(Target[r])
    BY <2>2 DEF RejudgeReset
  <2> QED
    BY <2>1, <2>2
<1>7. CASE \E r \in Rejudges : RejudgeUndo(r)
  BY <1>7, FaultType DEF RejudgeUndo
<1>8. CASE \E h \in Handlers : Reject(h)
  BY <1>8 DEF Reject
<1>9. CASE \E h \in Handlers : Send(h)
  BY <1>9 DEF Send
<1>10. CASE \E h \in Handlers : SendLost(h)
  BY <1>10, FaultType DEF SendLost
<1>11. CASE \E h \in Handlers : SendThrows(h)
  BY <1>11, FaultType DEF SendThrows
<1>12. CASE \E h \in Handlers : HandlerDies(h)
  BY <1>12, FaultType DEF HandlerDies
<1> QED
  BY <1>1, <1>2, <1>3, <1>4, <1>5, <1>6, <1>7, <1>8, <1>9, <1>10, <1>11, <1>12
  DEF SubmitStep, RejudgeStep

\* The steps of a worker keep the types.
LEMMA WorkerType ==
    ASSUME TypeOK, NEW w \in Workers, WorkerStep(w) \/ ConnDrop(w) \/ WorkerCrash(w)
    PROVE  TypeOK'
<1> USE DEF TypeOK, gwVars, dbVars, WGoto, WIdle
<1>a. wpc[w] # "idle" => job[w] \in Handlers \cup {NoJob}
  OBVIOUS
<1>1. CASE \E h \in Handlers : Deliver(w, h)
  BY <1>1 DEF Deliver
<1>2. CASE Load(w)
  BY <1>2 DEF Load
<1>3. CASE SaveVerdict(w)
  <2>1. CASE RowExists(SubOf(job[w]))
    <3>1. PICK v \in Verdicts :
            /\ status' = [status EXCEPT ![SubOf(job[w])] = v]
            /\ acCounted' = [acCounted EXCEPT ![SubOf(job[w])] = v = "AC"]
            /\ wpc' = [wpc EXCEPT ![w] =
                  CASE v = "AC" /\ status[SubOf(job[w])] # "AC" -> "inc"
                    [] v # "AC" /\ status[SubOf(job[w])] = "AC" -> "dec"
                    [] OTHER -> "ack"]
      BY <1>3, <2>1 DEF SaveVerdict
    <3>2. status' \in [Subs -> Statuses]
      BY <3>1 DEF Statuses
    <3>3. acCounted' \in [Subs -> BOOLEAN]
      BY <3>1
    <3>4. wpc' \in [Workers -> {"idle", "load", "judge", "inc", "dec", "ack", "mark", "undo", "nack"}]
      BY <3>1
    <3> QED
      BY <3>2, <3>3, <3>4, <1>3 DEF SaveVerdict
  <2>2. CASE ~RowExists(SubOf(job[w]))
    BY <1>3, <2>2 DEF SaveVerdict
  <2> QED
    BY <2>1, <2>2
<1>4. CASE JudgeRaises(w)
  BY <1>4 DEF JudgeRaises
<1>5. CASE IncrementAc(w)
  BY <1>5, FaultType DEF IncrementAc, Adjust
<1>6. CASE DecrementAc(w)
  BY <1>6, FaultType DEF DecrementAc, Adjust
<1>7. CASE UndoAc(w) \/ UndoGone(w)
  BY <1>7, FaultType DEF UndoAc, UndoGone, Adjust
<1>8. CASE Ack(w)
  BY <1>8 DEF Ack
<1>9. CASE AckRaises(w)
  BY <1>9 DEF AckRaises
<1>10. CASE AckUnheard(w)
  BY <1>10 DEF AckUnheard
<1>11. CASE MarkError(w)
  BY <1>11 DEF MarkError, Statuses
<1>12. CASE MarkFails(w)
  BY <1>12, FaultType DEF MarkFails
<1>13. CASE Nack(w)
  BY <1>13 DEF Nack
<1>14. CASE ConnDrop(w)
  BY <1>14, FaultType DEF ConnDrop
<1>15. CASE WorkerCrash(w)
  BY <1>15, FaultType DEF WorkerCrash
<1> QED
  BY <1>1, <1>2, <1>3, <1>4, <1>5, <1>6, <1>7, <1>8, <1>9, <1>10, <1>11, <1>12,
     <1>13, <1>14, <1>15 DEF WorkerStep

\* Every step keeps the types.
LEMMA TypeStep ==
    ASSUME TypeOK, [Next]_vars
    PROVE  TypeOK'
<1>1. CASE UNCHANGED vars
  BY <1>1 DEF vars, TypeOK
<1>2. CASE Next
  BY <1>2, GatewayType, WorkerType DEF Next
<1> QED
  BY <1>1, <1>2

\* Type correctness of the pipeline.
THEOREM TypeCorrect == Spec => []TypeOK
BY InitType, TypeStep, PTL DEF Spec

-----------------------------------------------------------------------------
(* What a step does to the changes of the counter that are still owed *)

\* The change a worker owes at label l.
Due(l) == IF l = "inc" THEN 1 ELSE IF l \in {"dec", "undo"} THEN -1 ELSE 0

\* The sets Owed counts are finite, so that the arithmetic below makes sense.
LEMMA FiniteParts ==
    ASSUME NEW s
    PROVE  /\ IsFiniteSet(Adding(s)) /\ Cardinality(Adding(s)) \in Nat
           /\ IsFiniteSet(Deducting(s)) /\ Cardinality(Deducting(s)) \in Nat
           /\ IsFiniteSet(RollingBack(s)) /\ Cardinality(RollingBack(s)) \in Nat
           /\ Owed(s) \in Int
<1>1. Adding(s) \subseteq Workers /\ Deducting(s) \subseteq Workers
      /\ RollingBack(s) \subseteq Rejudges
  BY DEF Adding, Deducting, RollingBack
<1>2. IsFiniteSet(Adding(s)) /\ IsFiniteSet(Deducting(s)) /\ IsFiniteSet(RollingBack(s))
  BY <1>1, FS_Subset
<1> QED
  BY <1>2, FS_CardinalityType DEF Owed

\* Putting one element in a finite set, or taking it out, as a change of the cardinality.
LEMMA CardOfUpdate ==
    ASSUME NEW S, IsFiniteSet(S), NEW x
    PROVE  /\ Cardinality(S \cup {x}) = Cardinality(S) + 1 - (IF x \in S THEN 1 ELSE 0)
           /\ Cardinality(S \ {x}) = Cardinality(S) - (IF x \in S THEN 1 ELSE 0)
<1>1. Cardinality(S) \in Nat
  BY FS_CardinalityType
<1>2. Cardinality(S \cup {x}) = IF x \in S THEN Cardinality(S) ELSE Cardinality(S) + 1
  BY FS_AddElement
<1>3. Cardinality(S \ {x}) = IF x \in S THEN Cardinality(S) - 1 ELSE Cardinality(S)
  BY FS_RemoveElement
<1> QED
  BY <1>1, <1>2, <1>3

\* What a worker at label l owes as an addition, and as a deduction.
Plus(l) == IF l = "inc" THEN 1 ELSE 0
Minus(l) == IF l \in {"dec", "undo"} THEN 1 ELSE 0

\* A worker that moves from one label to another with the same job: the additions and the
\* deductions that are booked with workers.
LEMMA BooksByWorker ==
    ASSUME TypeOK, NEW w \in Workers, NEW l, NEW s \in Subs,
           wpc' = [wpc EXCEPT ![w] = l], UNCHANGED <<job, gw>>
    PROVE  /\ Cardinality(Adding(s)') = Cardinality(Adding(s))
                 + (IF SubOf(job[w]) = s THEN Plus(l) - Plus(wpc[w]) ELSE 0)
           /\ Cardinality(Deducting(s)') = Cardinality(Deducting(s))
                 + (IF SubOf(job[w]) = s THEN Minus(l) - Minus(wpc[w]) ELSE 0)
           /\ RollingBack(s)' = RollingBack(s)
<1>1. /\ wpc'[w] = l
      /\ \A v \in Workers \ {w} : wpc'[v] = wpc[v]
  BY DEF TypeOK
<1>2. RollingBack(s)' = RollingBack(s)
  BY DEF RollingBack
<1>3. CASE SubOf(job[w]) # s
  <2>1. Adding(s)' = Adding(s) /\ Deducting(s)' = Deducting(s)
    BY <1>1, <1>3 DEF Adding, Deducting, SubOf
  <2> QED
    BY <1>2, <1>3, <2>1, FiniteParts
<1>4. CASE SubOf(job[w]) = s
  <2>1. Adding(s)' = IF l = "inc" THEN Adding(s) \cup {w} ELSE Adding(s) \ {w}
    BY <1>1, <1>4 DEF Adding, SubOf
  <2>2. Deducting(s)' =
          IF l \in {"dec", "undo"} THEN Deducting(s) \cup {w} ELSE Deducting(s) \ {w}
    BY <1>1, <1>4 DEF Deducting, SubOf
  <2>3. /\ w \in Adding(s) <=> wpc[w] = "inc"
        /\ w \in Deducting(s) <=> wpc[w] \in {"dec", "undo"}
    BY <1>4 DEF Adding, Deducting
  <2>4. Cardinality(Adding(s)') = Cardinality(Adding(s)) + Plus(l) - Plus(wpc[w])
    <3>1. /\ Cardinality(Adding(s) \cup {w}) =
               Cardinality(Adding(s)) + 1 - (IF w \in Adding(s) THEN 1 ELSE 0)
          /\ Cardinality(Adding(s) \ {w}) =
               Cardinality(Adding(s)) - (IF w \in Adding(s) THEN 1 ELSE 0)
      BY FiniteParts, CardOfUpdate
    <3>2. Cardinality(Adding(s)) \in Nat
      BY FiniteParts
    <3> QED
      BY <2>1, <2>3, <3>1, <3>2 DEF Plus
  <2>5. Cardinality(Deducting(s)') = Cardinality(Deducting(s)) + Minus(l) - Minus(wpc[w])
    <3>1. /\ Cardinality(Deducting(s) \cup {w}) =
               Cardinality(Deducting(s)) + 1 - (IF w \in Deducting(s) THEN 1 ELSE 0)
          /\ Cardinality(Deducting(s) \ {w}) =
               Cardinality(Deducting(s)) - (IF w \in Deducting(s) THEN 1 ELSE 0)
      BY FiniteParts, CardOfUpdate
    <3>2. Cardinality(Deducting(s)) \in Nat
      BY FiniteParts
    <3> QED
      BY <2>2, <2>3, <3>1, <3>2 DEF Minus
  <2> QED
    BY <1>2, <1>4, <2>4, <2>5, FiniteParts DEF Plus, Minus
<1> QED
  BY <1>3, <1>4

\* The same for what it owes in all.
LEMMA OwedByWorker ==
    ASSUME TypeOK, NEW w \in Workers, NEW l, NEW s \in Subs,
           wpc' = [wpc EXCEPT ![w] = l], UNCHANGED <<job, gw>>
    PROVE  Owed(s)' = Owed(s) + (IF SubOf(job[w]) = s THEN Due(l) - Due(wpc[w]) ELSE 0)
<1>1. /\ Cardinality(Adding(s)') = Cardinality(Adding(s))
            + (IF SubOf(job[w]) = s THEN Plus(l) - Plus(wpc[w]) ELSE 0)
      /\ Cardinality(Deducting(s)') = Cardinality(Deducting(s))
            + (IF SubOf(job[w]) = s THEN Minus(l) - Minus(wpc[w]) ELSE 0)
      /\ RollingBack(s)' = RollingBack(s)
  BY BooksByWorker
<1> QED
  BY <1>1, FiniteParts DEF Owed, Due, Plus, Minus

\* A worker between two labels that owe nothing, whatever happens to its job.
LEMMA BooksUntouched ==
    ASSUME TypeOK, NEW w \in Workers, NEW l, NEW j, NEW s \in Subs,
           wpc' = [wpc EXCEPT ![w] = l], job' = [job EXCEPT ![w] = j], UNCHANGED gw,
           l \notin {"inc", "dec", "undo"}, wpc[w] \notin {"inc", "dec", "undo"}
    PROVE  /\ Adding(s)' = Adding(s)
           /\ Deducting(s)' = Deducting(s)
           /\ RollingBack(s)' = RollingBack(s)
<1>1. /\ wpc'[w] = l
      /\ \A v \in Workers \ {w} : wpc'[v] = wpc[v] /\ job'[v] = job[v]
  BY DEF TypeOK
<1>2. Adding(s)' = Adding(s)
  BY <1>1 DEF Adding, SubOf
<1>3. Deducting(s)' = Deducting(s)
  BY <1>1 DEF Deducting, SubOf
<1>4. RollingBack(s)' = RollingBack(s)
  BY DEF RollingBack
<1> QED
  BY <1>2, <1>3, <1>4

\* A worker that moves between labels at which it owes the counter nothing changes no debt.
LEMMA OwedNothing ==
    ASSUME TypeOK, NEW w \in Workers, NEW l, NEW j, NEW s \in Subs,
           wpc' = [wpc EXCEPT ![w] = l], job' = [job EXCEPT ![w] = j], UNCHANGED gw,
           l \notin {"inc", "dec", "undo"}, wpc[w] \notin {"inc", "dec", "undo"}
    PROVE  Owed(s)' = Owed(s)
BY BooksUntouched DEF Owed

\* A handler that moves: only a rejudge at "undo" has a deduction booked.
LEMMA BooksByHandler ==
    ASSUME TypeOK, NEW h \in Handlers, NEW l, NEW s \in Subs,
           gw' = [gw EXCEPT ![h] = l], UNCHANGED <<wpc, job>>
    PROVE  /\ Adding(s)' = Adding(s)
           /\ Deducting(s)' = Deducting(s)
           /\ Cardinality(RollingBack(s)') = Cardinality(RollingBack(s)) +
                 (IF h \in Rejudges /\ Target[h] = s
                     THEN (IF l = "undo" THEN 1 ELSE 0) - (IF gw[h] = "undo" THEN 1 ELSE 0)
                     ELSE 0)
<1>1. /\ gw'[h] = l
      /\ \A g \in Handlers \ {h} : gw'[g] = gw[g]
      /\ Rejudges \subseteq Handlers
  BY DEF TypeOK, Handlers
<1>2. Adding(s)' = Adding(s) /\ Deducting(s)' = Deducting(s)
  BY DEF Adding, Deducting, SubOf
<1>3. CASE ~(h \in Rejudges /\ Target[h] = s)
  <2>1. RollingBack(s)' = RollingBack(s)
    BY <1>1, <1>3 DEF RollingBack
  <2> QED
    BY <1>2, <1>3, <2>1, FiniteParts
<1>4. CASE h \in Rejudges /\ Target[h] = s
  <2>1. RollingBack(s)' =
          IF l = "undo" THEN RollingBack(s) \cup {h} ELSE RollingBack(s) \ {h}
    BY <1>1, <1>4 DEF RollingBack
  <2>2. h \in RollingBack(s) <=> gw[h] = "undo"
    BY <1>4 DEF RollingBack
  <2>3. /\ Cardinality(RollingBack(s) \cup {h}) =
             Cardinality(RollingBack(s)) + 1 - (IF h \in RollingBack(s) THEN 1 ELSE 0)
        /\ Cardinality(RollingBack(s) \ {h}) =
             Cardinality(RollingBack(s)) - (IF h \in RollingBack(s) THEN 1 ELSE 0)
    BY FiniteParts, CardOfUpdate
  <2>4. Cardinality(RollingBack(s)) \in Nat
    BY FiniteParts
  <2>5. Cardinality(RollingBack(s)') =
          Cardinality(RollingBack(s)) + (IF l = "undo" THEN 1 ELSE 0)
                                      - (IF gw[h] = "undo" THEN 1 ELSE 0)
    BY <2>1, <2>2, <2>3, <2>4
  <2> QED
    BY <1>2, <1>4, <2>4, <2>5
<1> QED
  BY <1>3, <1>4

\* What such a move changes in the sum of what is owed for a submission.
LEMMA OwedByHandler ==
    ASSUME TypeOK, NEW h \in Handlers, NEW l, NEW s \in Subs,
           gw' = [gw EXCEPT ![h] = l], UNCHANGED <<wpc, job>>
    PROVE  Owed(s)' = Owed(s) +
              (IF h \in Rejudges /\ Target[h] = s
                  THEN (IF gw[h] = "undo" THEN 1 ELSE 0) - (IF l = "undo" THEN 1 ELSE 0)
                  ELSE 0)
<1>1. /\ Adding(s)' = Adding(s)
      /\ Deducting(s)' = Deducting(s)
      /\ Cardinality(RollingBack(s)') = Cardinality(RollingBack(s)) +
            (IF h \in Rejudges /\ Target[h] = s
                THEN (IF l = "undo" THEN 1 ELSE 0) - (IF gw[h] = "undo" THEN 1 ELSE 0)
                ELSE 0)
  BY BooksByHandler
<1> QED
  BY <1>1, FiniteParts DEF Owed

-----------------------------------------------------------------------------
(* The counter is never too low *)

\* A busy worker has a job.
JobOK == \A w \in Workers : wpc[w] # "idle" => job[w] \in Handlers

\* Half of CountedIffAC; the other half fails when submit's catch block overwrites a row.
AcIsCounted == \A s \in Subs : status[s] = "AC" => acCounted[s]

\* The inductive invariant: NeverUnderCounted needs to know that a row that leaves AC
\* loses its flag in the same step, and that a deduction is owed to a real row.
CountInv == TypeOK /\ JobOK /\ AcIsCounted /\ NeverUnderCounted

\* A worker takes a job when it leaves "idle", and keeps it until it is idle again.
LEMMA JobStep ==
    ASSUME TypeOK, JobOK, [Next]_vars
    PROVE  JobOK'
<1> USE DEF TypeOK, JobOK, wkVars, WGoto, WIdle
<1>1. CASE UNCHANGED <<wpc, job>>
  BY <1>1
<1>2. CASE \E w \in Workers, h \in Handlers : Deliver(w, h)
  BY <1>2 DEF Deliver
<1>3. CASE \E w \in Workers : WIdle(w)
  BY <1>3
<1>4. CASE \E w \in Workers : \E l : wpc[w] # "idle" /\ wpc' = [wpc EXCEPT ![w] = l] /\ UNCHANGED job
  BY <1>4
<1>5. ASSUME NEW w \in Workers, WorkerStep(w) \/ ConnDrop(w) \/ WorkerCrash(w)
      PROVE  JobOK'
  <2>1. CASE WorkerStep(w)
    <3>1. CASE SaveVerdict(w)
      <4>1. wpc[w] # "idle" /\ \E l : wpc' = [wpc EXCEPT ![w] = l] /\ UNCHANGED job
        BY <3>1 DEF SaveVerdict
      <4> QED
        BY <4>1, <1>4
    <3>2. CASE ~SaveVerdict(w)
      BY <2>1, <3>2, <1>2, <1>3, <1>4 DEF WorkerStep, Load, JudgeRaises, IncrementAc,
         DecrementAc, UndoAc, UndoGone, Adjust, Ack, AckRaises, AckUnheard, MarkError,
         MarkFails, Nack
    <3> QED
      BY <3>1, <3>2
  <2>2. CASE ConnDrop(w)
    BY <2>2, <1>1 DEF ConnDrop
  <2>3. CASE WorkerCrash(w)
    BY <2>3, <1>3 DEF WorkerCrash
  <2> QED
    BY <1>5, <2>1, <2>2, <2>3
<1>6. CASE UNCHANGED vars
  BY <1>6, <1>1 DEF vars
<1> QED
  BY <1>1, <1>5, <1>6 DEF Next, SubmitStep, DeleteProblem, RejudgeStep, SubmitInsert,
     SubmitMarkRE, RejudgeRead, RejudgeFlip, RejudgeReset, RejudgeUndo, Reject, Send,
     SendLost, SendThrows, HandlerDies

\* Every statement that writes status AC writes ac_counted with it.
LEMMA AcIsCountedStep ==
    ASSUME TypeOK, AcIsCounted, [Next]_vars
    PROVE  AcIsCounted'
<1> USE DEF TypeOK, AcIsCounted, dbVars
<1>1. CASE UNCHANGED dbVars
  BY <1>1
<1>2. ASSUME NEW s \in Subs, SubmitStep(s) \/ DeleteProblem(s)
      PROVE  AcIsCounted'
  BY <1>2 DEF SubmitStep, SubmitInsert, SubmitMarkRE, DeleteProblem
<1>3. ASSUME NEW r \in Rejudges, RejudgeStep(r)
      PROVE  AcIsCounted'
  BY <1>3, <1>1 DEF RejudgeStep, RejudgeRead, RejudgeFlip, RejudgeReset, RejudgeUndo, ResetRow
<1>4. ASSUME NEW w \in Workers, WorkerStep(w) \/ ConnDrop(w) \/ WorkerCrash(w)
      PROVE  AcIsCounted'
  <2>1. CASE SaveVerdict(w)
    BY <2>1, <1>1 DEF SaveVerdict
  <2>2. CASE MarkError(w)
    BY <2>2, <1>1 DEF MarkError
  <2>3. CASE ~SaveVerdict(w) /\ ~MarkError(w)
    BY <1>4, <2>3, <1>1 DEF WorkerStep, Deliver, Load, JudgeRaises, IncrementAc,
       DecrementAc, UndoAc, UndoGone, Adjust, Ack, AckRaises, AckUnheard,
       MarkFails, Nack, ConnDrop, WorkerCrash
  <2> QED
    BY <2>1, <2>2, <2>3
<1>5. CASE UNCHANGED vars
  BY <1>5, <1>1 DEF vars
<1> QED
  BY <1>1, <1>2, <1>3, <1>4, <1>5 DEF Next, Reject, Send, SendLost, SendThrows, HandlerDies

\* One submission's part of NeverUnderCounted.
Covered(s) == credit[s] + Owed(s) >= Counted(s)

\* No step of the gateway uncovers a submission, unless a ZINCRBY fails in it.
LEMMA CoveredByGateway ==
    ASSUME TypeOK, NEW s \in Subs, Covered(s), "redis" \notin faults'.kinds,
           \/ \E t \in Subs : SubmitStep(t) \/ DeleteProblem(t)
           \/ \E r \in Rejudges : RejudgeStep(r)
           \/ \E h \in Handlers :
                 Reject(h) \/ Send(h) \/ SendLost(h) \/ SendThrows(h) \/ HandlerDies(h)
    PROVE  Covered(s)'
<1>a. Covered(s) /\ TypeOK /\ Owed(s) \in Int /\ credit[s] \in Int /\ Subs \subseteq Handlers
      /\ Rejudges \subseteq Handlers /\ Subs \cap Rejudges = {}
  BY FiniteParts DEF Covered, TypeOK, Handlers
<1> USE DEF GwGoto, wkVars, dbVars, gwVars
<1>1. ASSUME NEW h \in Handlers, NEW l, l # "undo", gw' = [gw EXCEPT ![h] = l],
             UNCHANGED <<wpc, job, credit>>, acCounted'[s] = acCounted[s] \/ ~acCounted'[s]
      PROVE  Covered(s)'
  <2>1. Owed(s)' = Owed(s) +
          (IF h \in Rejudges /\ Target[h] = s
              THEN (IF gw[h] = "undo" THEN 1 ELSE 0) - (IF l = "undo" THEN 1 ELSE 0)
              ELSE 0)
    <3>1. UNCHANGED <<wpc, job>>
      BY <1>1
    <3> QED
      BY <1>a, <1>1, <3>1, OwedByHandler
  <2>2. Owed(s)' >= Owed(s) /\ Owed(s)' \in Int
    BY <1>a, <1>1, <2>1
  <2> QED
    BY <1>a, <1>1, <2>2 DEF Covered, Counted
<1>2. ASSUME NEW t \in Subs, SubmitStep(t)
      PROVE  Covered(s)'
  BY <1>a, <1>1, <1>2 DEF SubmitStep, SubmitInsert, SubmitMarkRE
<1>3. ASSUME NEW t \in Subs, DeleteProblem(t)
      PROVE  Covered(s)'
  <2>1. Owed(s)' = Owed(s)
    BY <1>3 DEF DeleteProblem, Owed, Adding, Deducting, RollingBack, SubOf
  <2>2. credit' = credit /\ (acCounted'[s] = acCounted[s] \/ ~acCounted'[s])
    BY <1>3, <1>a DEF DeleteProblem, TypeOK
  <2> QED
    BY <1>a, <2>1, <2>2 DEF Covered, Counted
<1>4. ASSUME NEW h \in Handlers,
             Reject(h) \/ Send(h) \/ SendLost(h) \/ SendThrows(h) \/ HandlerDies(h)
      PROVE  Covered(s)'
  BY <1>a, <1>1, <1>4 DEF Reject, Send, SendLost, SendThrows, HandlerDies
<1>5. ASSUME NEW r \in Rejudges, RejudgeRead(r)
      PROVE  Covered(s)'
  BY <1>a, <1>1, <1>5 DEF RejudgeRead
<1>6. ASSUME NEW r \in Rejudges, RejudgeReset(r)
      PROVE  Covered(s)'
  <2>1. acCounted'[s] = acCounted[s] \/ ~acCounted'[s]
    BY <1>6, <1>a DEF RejudgeReset, ResetRow, TypeOK
  <2> QED
    BY <1>a, <1>1, <1>6, <2>1 DEF RejudgeReset
<1>7. ASSUME NEW r \in Rejudges, RejudgeFlip(r)
      PROVE  Covered(s)'
  <2>1. CASE status[Target[r]] = "AC" /\ acCounted[Target[r]]
    <3>1. /\ gw[r] = "update" /\ gw' = [gw EXCEPT ![r] = "undo"]
          /\ UNCHANGED <<wpc, job, credit>>
          /\ acCounted' = [acCounted EXCEPT ![Target[r]] = FALSE]
      BY <1>7, <2>1 DEF RejudgeFlip, ResetRow
    <3>2. Owed(s)' = Owed(s) - (IF Target[r] = s THEN 1 ELSE 0)
      <4>1. UNCHANGED <<wpc, job>> /\ r \in Handlers
        BY <1>a, <3>1
      <4>2. Owed(s)' = Owed(s) +
              (IF r \in Rejudges /\ Target[r] = s
                  THEN (IF gw[r] = "undo" THEN 1 ELSE 0) - (IF "undo" = "undo" THEN 1 ELSE 0)
                  ELSE 0)
        BY <1>a, <3>1, <4>1, OwedByHandler
      <4> QED
        BY <1>a, <3>1, <4>2
    <3>3. Counted(s)' = Counted(s) - (IF Target[r] = s THEN 1 ELSE 0)
      BY <1>a, <2>1, <3>1 DEF Counted, TypeOK
    <3>4. Counted(s) \in Int
      BY DEF Counted
    <3> QED
      BY <1>a, <3>1, <3>2, <3>3, <3>4 DEF Covered
  <2>2. CASE ~(status[Target[r]] = "AC" /\ acCounted[Target[r]])
    BY <1>a, <1>1, <1>7, <2>2 DEF RejudgeFlip
  <2> QED
    BY <2>1, <2>2
<1>8. ASSUME NEW r \in Rejudges, RejudgeUndo(r)
      PROVE  Covered(s)'
  <2>1. /\ gw[r] = "undo" /\ gw' = [gw EXCEPT ![r] = "send"]
        /\ UNCHANGED <<wpc, job, acCounted>>
        /\ credit' = [credit EXCEPT ![Target[r]] = @ - 1]
    BY <1>8, FaultType DEF RejudgeUndo
  <2>2. Owed(s)' = Owed(s) + (IF Target[r] = s THEN 1 ELSE 0)
    <3>1. UNCHANGED <<wpc, job>> /\ r \in Handlers
      BY <1>a, <2>1
    <3>2. Owed(s)' = Owed(s) +
            (IF r \in Rejudges /\ Target[r] = s
                THEN (IF gw[r] = "undo" THEN 1 ELSE 0) - (IF "send" = "undo" THEN 1 ELSE 0)
                ELSE 0)
      BY <1>a, <2>1, <3>1, OwedByHandler
    <3> QED
      BY <1>a, <2>1, <3>2
  <2>3. credit'[s] = credit[s] - (IF Target[r] = s THEN 1 ELSE 0)
    BY <1>a, <2>1 DEF TypeOK
  <2> QED
    BY <1>a, <2>1, <2>2, <2>3 DEF Covered, Counted
<1> QED
  BY <1>2, <1>3, <1>4, <1>5, <1>6, <1>7, <1>8 DEF RejudgeStep

\* No step of a worker uncovers a submission, unless a ZINCRBY fails or the worker dies.
LEMMA CoveredByWorker ==
    ASSUME TypeOK, JobOK, AcIsCounted, NEW s \in Subs, Covered(s),
           "redis" \notin faults'.kinds, "crash" \notin faults'.kinds,
           NEW w \in Workers, WorkerStep(w) \/ ConnDrop(w) \/ WorkerCrash(w)
    PROVE  Covered(s)'
<1> DEFINE mine == SubOf(job[w]) = s
<1>a. Covered(s) /\ TypeOK /\ Owed(s) \in Int /\ credit[s] \in Int /\ Counted(s) \in Int
      /\ AcIsCounted
  BY FiniteParts DEF Covered, TypeOK, Counted
<1>b. wpc[w] # "idle" => SubOf(job[w]) \in Subs
  BY SubOfType DEF JobOK
<1> USE DEF WGoto, WIdle, wkVars, dbVars, gwVars
\* The rules of bookkeeping: a step that moves w along, and one that takes or ends a job.
<1>1. ASSUME NEW l, wpc' = [wpc EXCEPT ![w] = l], UNCHANGED <<job, gw>>,
             credit'[s] - credit[s] + (IF mine THEN Due(l) - Due(wpc[w]) ELSE 0)
               >= Counted(s)' - Counted(s),
             credit'[s] \in Int
      PROVE  Covered(s)'
  <2>1. Owed(s)' = Owed(s) + (IF mine THEN Due(l) - Due(wpc[w]) ELSE 0)
    BY <1>a, <1>1, OwedByWorker
  <2>2. Counted(s)' \in Int /\ Due(l) \in Int /\ Due(wpc[w]) \in Int
    BY DEF Counted, Due
  <2> QED
    BY <1>a, <1>1, <2>1, <2>2 DEF Covered
<1>2. ASSUME NEW l, NEW j, wpc' = [wpc EXCEPT ![w] = l], job' = [job EXCEPT ![w] = j],
             l \notin {"inc", "dec", "undo"}, wpc[w] \notin {"inc", "dec", "undo"},
             UNCHANGED gw, UNCHANGED credit, UNCHANGED acCounted
      PROVE  Covered(s)'
  <2>1. Owed(s)' = Owed(s)
    BY <1>a, <1>2, OwedNothing
  <2> QED
    BY <1>a, <1>2, <2>1 DEF Covered, Counted
<1>3. CASE \E h \in Handlers : Deliver(w, h)
  BY <1>3, <1>2 DEF Deliver
<1>4. CASE Ack(w) \/ AckUnheard(w) \/ Nack(w)
  BY <1>4, <1>2 DEF Ack, AckUnheard, Nack
<1>5. CASE Load(w) \/ JudgeRaises(w) \/ AckRaises(w) \/ UndoGone(w) \/ MarkFails(w)
  <2>1. PICK l : l \in {"judge", "ack", "mark", "nack"} /\ wpc' = [wpc EXCEPT ![w] = l]
    BY <1>5 DEF Load, JudgeRaises, AckRaises, UndoGone, MarkFails
  <2>2. UNCHANGED <<job, gw>> /\ credit' = credit /\ acCounted' = acCounted
        /\ wpc[w] # "inc"
    BY <1>5 DEF Load, JudgeRaises, AckRaises, UndoGone, MarkFails
  <2>3. Due(l) - Due(wpc[w]) >= 0
    BY <2>1, <2>2 DEF Due
  <2>4. credit'[s] - credit[s] + (IF mine THEN Due(l) - Due(wpc[w]) ELSE 0)
          >= Counted(s)' - Counted(s)
    <3>1. Counted(s)' = Counted(s) /\ Due(l) \in Int /\ Due(wpc[w]) \in Int
      BY <2>2 DEF Counted, Due
    <3> QED
      BY <1>a, <2>2, <2>3, <3>1
  <2> QED
    BY <1>a, <1>1, <2>1, <2>2, <2>4
<1>6. CASE SaveVerdict(w)
  <2> DEFINE t == SubOf(job[w])
  <2>0. t \in Subs /\ wpc[w] = "judge" /\ UNCHANGED <<job, gw>> /\ credit' = credit
    BY <1>6, <1>b DEF SaveVerdict
  <2>1. CASE RowExists(t)
    <3>1. PICK v \in Verdicts :
            /\ acCounted' = [acCounted EXCEPT ![t] = v = "AC"]
            /\ wpc' = [wpc EXCEPT ![w] =
                  CASE v = "AC" /\ status[t] # "AC" -> "inc"
                    [] v # "AC" /\ status[t] = "AC" -> "dec"
                    [] OTHER -> "ack"]
      BY <1>6, <2>1 DEF SaveVerdict
    <3>2. acCounted'[s] = IF t = s THEN v = "AC" ELSE acCounted[s]
      BY <1>a, <2>0, <3>1 DEF TypeOK
    <3>3. status[t] = "AC" => acCounted[t]
      BY <1>a, <2>0 DEF AcIsCounted
    <3>4. CASE v = "AC" /\ status[t] # "AC"
      <4>1. wpc' = [wpc EXCEPT ![w] = "inc"]
        BY <3>1, <3>4
      <4>2. credit'[s] - credit[s] + (IF mine THEN Due("inc") - Due(wpc[w]) ELSE 0)
              >= Counted(s)' - Counted(s)
        BY <1>a, <2>0, <3>2, <3>4 DEF Counted, Due
      <4> QED
        BY <1>a, <1>1, <2>0, <4>1, <4>2
    <3>5. CASE v # "AC" /\ status[t] = "AC"
      <4>1. wpc' = [wpc EXCEPT ![w] = "dec"]
        BY <3>1, <3>5
      <4>2. credit'[s] - credit[s] + (IF mine THEN Due("dec") - Due(wpc[w]) ELSE 0)
              >= Counted(s)' - Counted(s)
        <5>1. CASE mine
          <6>1. acCounted[s] /\ ~acCounted'[s]
            BY <3>2, <3>3, <3>5, <5>1
          <6>2. Counted(s) = 1 /\ Counted(s)' = 0
            BY <6>1 DEF Counted
          <6> QED
            BY <1>a, <2>0, <5>1, <6>2 DEF Due
        <5>2. CASE ~mine
          BY <1>a, <2>0, <3>2, <5>2 DEF Counted
        <5> QED
          BY <5>1, <5>2
      <4> QED
        BY <1>a, <1>1, <2>0, <4>1, <4>2
    <3>6. CASE (v = "AC") <=> (status[t] = "AC")
      <4>1. wpc' = [wpc EXCEPT ![w] = "ack"]
        BY <3>1, <3>6
      <4>2. credit'[s] - credit[s] + (IF mine THEN Due("ack") - Due(wpc[w]) ELSE 0)
              >= Counted(s)' - Counted(s)
        <5>1. acCounted'[s] => acCounted[s]
          BY <3>2, <3>3, <3>6
        <5>2. Counted(s)' <= Counted(s) /\ Counted(s)' \in Int
          BY <5>1 DEF Counted
        <5> QED
          BY <1>a, <2>0, <5>2 DEF Due
      <4> QED
        BY <1>a, <1>1, <2>0, <4>1, <4>2
    <3> QED
      BY <3>4, <3>5, <3>6
  <2>2. CASE ~RowExists(t)
    <3>1. acCounted' = acCounted /\ wpc' = [wpc EXCEPT ![w] = "ack"]
      BY <1>6, <2>2 DEF SaveVerdict
    <3>2. credit'[s] - credit[s] + (IF mine THEN Due("ack") - Due(wpc[w]) ELSE 0)
            >= Counted(s)' - Counted(s)
      BY <1>a, <2>0, <3>1 DEF Counted, Due
    <3> QED
      BY <1>a, <1>1, <2>0, <3>1, <3>2
  <2> QED
    BY <2>1, <2>2
<1>7. ASSUME NEW d \in {1, -1}, NEW l, d = Due(wpc[w]), Due(l) = 0, wpc[w] # "idle",
             Adjust(w, d, l), UNCHANGED gw
      PROVE  Covered(s)'
  <2>1. /\ wpc' = [wpc EXCEPT ![w] = l] /\ UNCHANGED <<job, gw>> /\ acCounted' = acCounted
        /\ credit' = [credit EXCEPT ![SubOf(job[w])] = @ + d]
    BY <1>7, FaultType DEF Adjust
  <2>2. credit'[s] = credit[s] + (IF mine THEN d ELSE 0)
    BY <1>a, <1>b, <1>7, <2>1 DEF TypeOK
  <2>3. credit'[s] - credit[s] + (IF mine THEN Due(l) - Due(wpc[w]) ELSE 0)
          >= Counted(s)' - Counted(s)
    BY <1>a, <1>7, <2>1, <2>2 DEF Counted
  <2>4. credit'[s] \in Int
    BY <1>a, <2>2
  <2> QED
    BY <1>a, <1>1, <2>1, <2>3, <2>4
<1>8. CASE IncrementAc(w)
  BY <1>7, <1>8 DEF IncrementAc, Due, Adjust
<1>9. CASE DecrementAc(w)
  BY <1>7, <1>9 DEF DecrementAc, Due, Adjust
<1>10. CASE UndoAc(w)
  BY <1>7, <1>10 DEF UndoAc, Due, Adjust
<1>11. CASE MarkError(w)
  <2> DEFINE t == SubOf(job[w])
  <2>0. t \in Subs /\ wpc[w] = "mark" /\ UNCHANGED <<job, gw>> /\ credit' = credit
    BY <1>11, <1>b DEF MarkError
  <2>1. CASE RowExists(t)
    <3>1. /\ acCounted' = [acCounted EXCEPT ![t] = FALSE]
          /\ wpc' = [wpc EXCEPT ![w] = IF status[t] = "AC" THEN "undo" ELSE "nack"]
      BY <1>11, <2>1 DEF MarkError
    <3>2. acCounted'[s] = IF t = s THEN FALSE ELSE acCounted[s]
      BY <1>a, <2>0, <3>1 DEF TypeOK
    <3>3. status[t] = "AC" => acCounted[t]
      BY <1>a, <2>0 DEF AcIsCounted
    <3>4. CASE status[t] = "AC"
      <4>1. wpc' = [wpc EXCEPT ![w] = "undo"]
        BY <3>1, <3>4
      <4>2. credit'[s] - credit[s] + (IF mine THEN Due("undo") - Due(wpc[w]) ELSE 0)
              >= Counted(s)' - Counted(s)
        BY <1>a, <2>0, <3>2, <3>3, <3>4 DEF Counted, Due
      <4> QED
        BY <1>a, <1>1, <2>0, <4>1, <4>2
    <3>5. CASE status[t] # "AC"
      <4>1. wpc' = [wpc EXCEPT ![w] = "nack"]
        BY <3>1, <3>5
      <4>2. credit'[s] - credit[s] + (IF mine THEN Due("nack") - Due(wpc[w]) ELSE 0)
              >= Counted(s)' - Counted(s)
        BY <1>a, <2>0, <3>2, <3>5 DEF Counted, Due
      <4> QED
        BY <1>a, <1>1, <2>0, <4>1, <4>2
    <3> QED
      BY <3>4, <3>5
  <2>2. CASE ~RowExists(t)
    <3>1. acCounted' = acCounted /\ wpc' = [wpc EXCEPT ![w] = "nack"]
      BY <1>11, <2>2 DEF MarkError
    <3>2. credit'[s] - credit[s] + (IF mine THEN Due("nack") - Due(wpc[w]) ELSE 0)
            >= Counted(s)' - Counted(s)
      BY <1>a, <2>0, <3>1 DEF Counted, Due
    <3> QED
      BY <1>a, <1>1, <2>0, <3>1, <3>2
  <2> QED
    BY <2>1, <2>2
<1>12. CASE ConnDrop(w)
  BY <1>a, <1>12 DEF ConnDrop, Covered, Counted, Owed, Adding, Deducting, RollingBack, SubOf
<1>13. CASE WorkerCrash(w)
  BY <1>13, FaultType DEF WorkerCrash
<1> QED
  BY <1>3, <1>4, <1>5, <1>6, <1>8, <1>9, <1>10, <1>11, <1>12, <1>13 DEF WorkerStep

\* The faults only accumulate.
LEMMA FaultsGrow ==
    ASSUME TypeOK, [Next]_vars
    PROVE  faults.kinds \subseteq faults'.kinds
<1>1. CASE UNCHANGED faults
  BY <1>1
<1>2. CASE \E kind \in FaultKinds : Fault(kind)
  BY <1>2 DEF Fault
<1>3. ASSUME NEW w \in Workers, WorkerStep(w)
      PROVE  UNCHANGED faults \/ \E kind \in FaultKinds : Fault(kind)
  <2>1. CASE MarkFails(w)
    BY <2>1 DEF MarkFails, FaultKinds
  <2>2. CASE IncrementAc(w) \/ DecrementAc(w) \/ UndoAc(w)
    BY <2>2 DEF IncrementAc, DecrementAc, UndoAc, Adjust, FaultKinds
  <2>3. CASE ~MarkFails(w) /\ ~(IncrementAc(w) \/ DecrementAc(w) \/ UndoAc(w))
    BY <1>3, <2>3 DEF WorkerStep, Deliver, Load, SaveVerdict, JudgeRaises, UndoGone, Ack,
       AckRaises, AckUnheard, MarkError, Nack
  <2> QED
    BY <2>1, <2>2, <2>3
<1>4. ASSUME NEW r \in Rejudges, RejudgeStep(r)
      PROVE  UNCHANGED faults \/ \E kind \in FaultKinds : Fault(kind)
  BY <1>4 DEF RejudgeStep, RejudgeRead, RejudgeFlip, RejudgeReset, RejudgeUndo, FaultKinds
<1>5. ASSUME NEW h \in Handlers,
             Reject(h) \/ Send(h) \/ SendLost(h) \/ SendThrows(h) \/ HandlerDies(h)
      PROVE  UNCHANGED faults \/ \E kind \in FaultKinds : Fault(kind)
  BY <1>5 DEF Reject, Send, SendLost, SendThrows, HandlerDies, FaultKinds
<1>6. ASSUME NEW w \in Workers, ConnDrop(w) \/ WorkerCrash(w)
      PROVE  UNCHANGED faults \/ \E kind \in FaultKinds : Fault(kind)
  BY <1>6 DEF ConnDrop, WorkerCrash, FaultKinds
<1>7. ASSUME NEW s \in Subs, SubmitStep(s) \/ DeleteProblem(s)
      PROVE  UNCHANGED faults
  BY <1>7 DEF SubmitStep, SubmitInsert, SubmitMarkRE, DeleteProblem
<1>8. CASE UNCHANGED vars
  BY <1>1, <1>8 DEF vars
<1> QED
  BY <1>1, <1>2, <1>3, <1>4, <1>5, <1>6, <1>7, <1>8 DEF Next

\* The inductive invariant holds initially: nothing is owed and nothing is counted.
LEMMA CountInit == Init => CountInv
<1> SUFFICES ASSUME Init PROVE CountInv
  OBVIOUS
<1>1. TypeOK /\ JobOK /\ AcIsCounted
  BY InitType DEF Init, JobOK, AcIsCounted
<1>2. ASSUME NEW s \in Subs
      PROVE  credit[s] + Owed(s) >= Counted(s)
  <2>1. Adding(s) = {} /\ Deducting(s) = {} /\ RollingBack(s) = {}
    BY DEF Init, Adding, Deducting, RollingBack, Handlers
  <2>2. Owed(s) = 0
    BY <2>1, FS_EmptySet DEF Owed
  <2> QED
    BY <2>2 DEF Init, Counted
<1> QED
  BY <1>1, <1>2 DEF CountInv, NeverUnderCounted

\* Every step keeps the inductive invariant.
LEMMA CountInvStep ==
    ASSUME CountInv, [Next]_vars
    PROVE  CountInv'
<1>1. TypeOK'
  BY TypeStep DEF CountInv
<1>2. JobOK' /\ AcIsCounted'
  BY JobStep, AcIsCountedStep DEF CountInv
<1>3. CASE faults'.kinds \cap {"redis", "crash"} # {}
  BY <1>1, <1>2, <1>3 DEF CountInv, NeverUnderCounted
<1>4. CASE faults'.kinds \cap {"redis", "crash"} = {}
  <2>1. "redis" \notin faults'.kinds /\ "crash" \notin faults'.kinds
    BY <1>4
  <2>2. faults.kinds \cap {"redis", "crash"} = {}
    BY <1>4, FaultsGrow DEF CountInv
  <2>3. ASSUME NEW s \in Subs
        PROVE  Covered(s)'
    <3>1. TypeOK /\ JobOK /\ AcIsCounted /\ Covered(s)
      BY <2>2 DEF CountInv, NeverUnderCounted, Covered
    <3>2. CASE UNCHANGED vars
      BY <3>1, <3>2 DEF vars, Covered, Counted, Owed, Adding, Deducting, RollingBack, SubOf
    <3>3. CASE Next
      BY <2>1, <3>1, <3>3, CoveredByGateway, CoveredByWorker DEF Next
    <3> QED
      BY <3>2, <3>3
  <2> QED
    BY <1>1, <1>2, <2>3 DEF CountInv, NeverUnderCounted, Covered
<1> QED
  BY <1>3, <1>4

\* While no worker has crashed and Redis has not failed, no interleaving of submits,
\* rejudges, redeliveries, dropped connections and failing handlers loses a point.
THEOREM NeverLosesAPoint == Spec => []NeverUnderCounted
<1>1. CountInv /\ [Next]_vars => CountInv'
  BY CountInvStep
<1>2. CountInv => NeverUnderCounted
  BY DEF CountInv
<1> QED
  BY CountInit, <1>1, <1>2, PTL DEF Spec

-----------------------------------------------------------------------------
(* The flag and the verdict *)

\* A row is there only when its submit has inserted it.
NewIsNone == \A s \in Subs : gw[s] = "new" => status[s] = "none"

FlagIsVerdict == \A s \in Subs : acCounted[s] <=> status[s] = "AC"

\* No handler of a submit is on its way to its catch block.
NoneToMark == \A h \in Handlers : gw[h] # "mark"

\* The inductive invariant: only a publish that failed leads to the catch block, which
\* writes the status and not the flag.
FlagInv ==
    /\ TypeOK
    /\ NewIsNone
    /\ "publish" \in faults.kinds \/ (FlagIsVerdict /\ NoneToMark)

\* A worker's step moves at most one row, to AC or away from it together with the flag.
LEMMA RowsByWorker ==
    ASSUME TypeOK, NEW w \in Workers, WorkerStep(w) \/ ConnDrop(w) \/ WorkerCrash(w)
    PROVE  \/ UNCHANGED dbVars
           \/ /\ wpc[w] \in {"judge", "mark"} /\ RowExists(SubOf(job[w]))
              /\ \E v \in {"AC", "WA", "RE"} :
                    /\ status' = [status EXCEPT ![SubOf(job[w])] = v]
                    /\ acCounted' = [acCounted EXCEPT ![SubOf(job[w])] = v = "AC"]
<1>1. CASE SaveVerdict(w)
  BY <1>1 DEF SaveVerdict, Verdicts
<1>2. CASE MarkError(w)
  <2>1. CASE RowExists(SubOf(job[w]))
    <3>1. /\ status' = [status EXCEPT ![SubOf(job[w])] = "RE"]
          /\ acCounted' = [acCounted EXCEPT ![SubOf(job[w])] = FALSE]
          /\ wpc[w] = "mark"
      BY <1>2, <2>1 DEF MarkError
    <3>2. ("RE" = "AC") = FALSE
      OBVIOUS
    <3> QED
      BY <2>1, <3>1, <3>2
  <2>2. CASE ~RowExists(SubOf(job[w]))
    BY <1>2, <2>2 DEF MarkError
  <2> QED
    BY <2>1, <2>2
<1>3. CASE ~SaveVerdict(w) /\ ~MarkError(w)
  BY <1>3 DEF WorkerStep, Deliver, Load, JudgeRaises, IncrementAc, DecrementAc, UndoAc,
     UndoGone, Adjust, Ack, AckRaises, AckUnheard, MarkFails, Nack, ConnDrop, WorkerCrash,
     dbVars
<1> QED
  BY <1>1, <1>2, <1>3

\* A worker's step moves no handler of the gateway.
LEMMA GatewayRests ==
    ASSUME NEW w \in Workers, WorkerStep(w) \/ ConnDrop(w) \/ WorkerCrash(w)
    PROVE  UNCHANGED gwVars
<1>1. CASE SaveVerdict(w)
  BY <1>1 DEF SaveVerdict
<1>2. CASE ~SaveVerdict(w)
  BY <1>2 DEF WorkerStep, Deliver, Load, JudgeRaises, IncrementAc, DecrementAc, UndoAc,
     UndoGone, Adjust, Ack, AckRaises, AckUnheard, MarkError, MarkFails, Nack, ConnDrop,
     WorkerCrash
<1> QED
  BY <1>1, <1>2

\* A rejudge writes PENDING with the flag, into a row that exists.
LEMMA RowsByRejudge ==
    ASSUME TypeOK, NEW r \in Rejudges, RejudgeStep(r)
    PROVE  \/ UNCHANGED dbVars
           \/ RowExists(Target[r]) /\ ResetRow(Target[r])
<1>1. CASE RejudgeFlip(r)
  BY <1>1 DEF RejudgeFlip, RowExists, dbVars
<1>2. CASE RejudgeReset(r)
  BY <1>2 DEF RejudgeReset, dbVars
<1>3. CASE RejudgeRead(r) \/ RejudgeUndo(r)
  BY <1>3 DEF RejudgeRead, RejudgeUndo, dbVars
<1> QED
  BY <1>1, <1>2, <1>3 DEF RejudgeStep

\* Nobody writes a row that is not there yet, and no handler starts twice.
LEMMA NewStep ==
    ASSUME TypeOK, NewIsNone, [Next]_vars
    PROVE  NewIsNone'
<1> USE DEF TypeOK, NewIsNone, Handlers, GwGoto
<1>1. ASSUME NEW s \in Subs, SubmitStep(s)
      PROVE  NewIsNone'
  BY <1>1 DEF SubmitStep, SubmitInsert, SubmitMarkRE, RowExists
<1>2. ASSUME NEW s \in Subs, DeleteProblem(s)
      PROVE  NewIsNone'
  BY <1>2 DEF DeleteProblem, RowExists, gwVars
<1>3. ASSUME NEW h \in Handlers,
             Reject(h) \/ Send(h) \/ SendLost(h) \/ SendThrows(h) \/ HandlerDies(h)
      PROVE  NewIsNone'
  BY <1>3 DEF Reject, Send, SendLost, SendThrows, HandlerDies, dbVars
<1>4. ASSUME NEW r \in Rejudges, RejudgeStep(r)
      PROVE  NewIsNone'
  <2>1. \A s \in Subs : gw'[s] = gw[s]
    BY <1>4 DEF RejudgeStep, RejudgeRead, RejudgeFlip, RejudgeReset, RejudgeUndo
  <2> QED
    BY <1>4, <2>1, RowsByRejudge DEF ResetRow, RowExists, dbVars
<1>5. ASSUME NEW w \in Workers, WorkerStep(w) \/ ConnDrop(w) \/ WorkerCrash(w)
      PROVE  NewIsNone'
  <2>1. gw' = gw
    BY <1>5, GatewayRests DEF gwVars
  <2> QED
    BY <1>5, <2>1, RowsByWorker DEF RowExists, dbVars
<1>6. CASE UNCHANGED vars
  BY <1>6 DEF vars
<1> QED
  BY <1>1, <1>2, <1>3, <1>4, <1>5, <1>6 DEF Next

\* Every statement that writes one of the two writes the other, the catch block excepted
\* when it overwrites an AC.
LEMMA FlagStep ==
    ASSUME TypeOK, NewIsNone, FlagIsVerdict, [Next]_vars,
           \A s \in Subs : gw[s] = "mark" => status[s] # "AC"
    PROVE  FlagIsVerdict'
<1> USE DEF TypeOK, NewIsNone, FlagIsVerdict, dbVars
<1>1. CASE UNCHANGED dbVars
  BY <1>1
<1>2. ASSUME NEW s \in Subs, SubmitStep(s) \/ DeleteProblem(s)
      PROVE  FlagIsVerdict'
  BY <1>2 DEF SubmitStep, SubmitInsert, SubmitMarkRE, DeleteProblem
<1>3. ASSUME NEW r \in Rejudges, RejudgeStep(r)
      PROVE  FlagIsVerdict'
  BY <1>3, RowsByRejudge DEF ResetRow
<1>4. ASSUME NEW w \in Workers, WorkerStep(w) \/ ConnDrop(w) \/ WorkerCrash(w)
      PROVE  FlagIsVerdict'
  <2> DEFINE t == SubOf(job[w])
  <2>1. ASSUME NEW v \in {"AC", "WA", "RE"},
               status' = [status EXCEPT ![t] = v],
               acCounted' = [acCounted EXCEPT ![t] = v = "AC"]
        PROVE  FlagIsVerdict'
    <3> SUFFICES ASSUME NEW s \in Subs PROVE acCounted'[s] <=> status'[s] = "AC"
      OBVIOUS
    <3>1. CASE s = t
      <4>1. status'[s] = v /\ acCounted'[s] = (v = "AC")
        BY <2>1, <3>1
      <4> QED
        BY <4>1
    <3>2. CASE s # t
      BY <2>1, <3>2
    <3> QED
      BY <3>1, <3>2
  <2> QED
    BY <1>1, <1>4, <2>1, RowsByWorker
<1>5. CASE UNCHANGED vars
  BY <1>5 DEF vars
<1> QED
  BY <1>1, <1>2, <1>3, <1>4, <1>5 DEF Next, Reject, Send, SendLost, SendThrows, HandlerDies

\* A handler reaches its catch block by a publish that throws.
LEMMA MarkStep ==
    ASSUME TypeOK, NoneToMark, [Next]_vars, "publish" \notin faults'.kinds
    PROVE  NoneToMark'
<1> USE DEF TypeOK, NoneToMark, GwGoto
<1>1. CASE UNCHANGED gw
  BY <1>1
<1>2. ASSUME NEW h \in Handlers, NEW l, l # "mark", gw' = [gw EXCEPT ![h] = l]
      PROVE  NoneToMark'
  BY <1>2
<1>3. ASSUME NEW s \in Subs, SubmitStep(s) \/ DeleteProblem(s)
      PROVE  NoneToMark'
  BY <1>1, <1>2, <1>3 DEF SubmitStep, SubmitInsert, SubmitMarkRE, DeleteProblem, gwVars,
     Handlers
<1>4. ASSUME NEW r \in Rejudges, RejudgeStep(r)
      PROVE  NoneToMark'
  <2>1. \E l \in {"update", "undo", "send"} : gw' = [gw EXCEPT ![r] = l]
    BY <1>4 DEF RejudgeStep, RejudgeRead, RejudgeFlip, RejudgeReset, RejudgeUndo
  <2> QED
    BY <1>2, <2>1 DEF Handlers
<1>5. ASSUME NEW h \in Handlers,
             Reject(h) \/ Send(h) \/ SendLost(h) \/ SendThrows(h) \/ HandlerDies(h)
      PROVE  NoneToMark'
  BY <1>2, <1>5, FaultType DEF Reject, Send, SendLost, SendThrows, HandlerDies
<1>6. ASSUME NEW w \in Workers, WorkerStep(w) \/ ConnDrop(w) \/ WorkerCrash(w)
      PROVE  NoneToMark'
  BY <1>1, <1>6, GatewayRests DEF gwVars
<1>7. CASE UNCHANGED vars
  BY <1>1, <1>7 DEF vars
<1> QED
  BY <1>3, <1>4, <1>5, <1>6, <1>7 DEF Next

\* Nothing is judged or counted in the beginning.
LEMMA FlagInit == Init => FlagInv
BY InitType DEF Init, FlagInv, NewIsNone, FlagIsVerdict, NoneToMark, Handlers

\* Every step keeps the inductive invariant.
LEMMA FlagInvStep ==
    ASSUME FlagInv, [Next]_vars
    PROVE  FlagInv'
<1>1. TypeOK'
  BY TypeStep DEF FlagInv
<1>2. NewIsNone'
  BY NewStep DEF FlagInv
<1>3. CASE "publish" \in faults'.kinds
  BY <1>1, <1>2, <1>3 DEF FlagInv
<1>4. CASE "publish" \notin faults'.kinds
  <2>1. FlagIsVerdict /\ NoneToMark
    BY <1>4, FaultsGrow DEF FlagInv
  <2>2. \A s \in Subs : gw[s] # "mark"
    BY <2>1 DEF NoneToMark, Handlers
  <2> QED
    BY <1>1, <1>2, <1>4, <2>1, <2>2, FlagStep, MarkStep DEF FlagInv
<1> QED
  BY <1>3, <1>4

\* The flag ac_counted and the verdict agree as long as no publish has failed, whoever
\* writes the row last and whatever else fails (worker.py, repository.py, admin.ts).
THEOREM FlagAndVerdictAgree == Spec => []CountedIffAC
<1>1. FlagInv => CountedIffAC
  BY DEF FlagInv, FlagIsVerdict, CountedIffAC
<1> QED
  BY FlagInit, FlagInvStep, <1>1, PTL DEF Spec

-----------------------------------------------------------------------------
(* Nobody is forgotten *)

ConnectedBusy(w) == wpc[w] # "idle" /\ conn[w]

\* A message that the broker has delivered belongs to one worker, until it is answered or
\* the connection is lost; nobody has the message of a handler that has not published.
HeldByOne ==
    /\ \A w \in Workers : ConnectedBusy(w) => msg[job[w]] = "unacked"
    /\ \A v, w \in Workers :
          v # w /\ ConnectedBusy(v) /\ ConnectedBusy(w) => job[v] # job[w]
    /\ \A w \in Workers : wpc[w] = "idle" => conn[w]
    /\ \A h \in Handlers : gw[h] # "done" => msg[h] = "none"

\* Underway, by somebody whom a crash or a lost connection does not silence: a worker that
\* has lost its connection has given its message back.
SafelyUnderway(s) ==
    \/ \E h \in Handlers : SubOf(h) = s /\ (WillPublish(h) \/ msg[h] = "ready")
    \/ \E w \in Workers : /\ wpc[w] \in {"load", "judge", "mark"} /\ conn[w]
                          /\ SubOf(job[w]) = s

PendingSafe == \A s \in Subs : status[s] = "PENDING" => SafelyUnderway(s)

PendingInv ==
    /\ TypeOK /\ JobOK /\ HeldByOne
    /\ faults.kinds \cap Abandoning # {} \/ PendingSafe

\* What a step of the gateway does to the handlers and the messages: one handler moves on,
\* and a message appears only when it leaves "send".
LEMMA GatewayMoves ==
    ASSUME TypeOK,
           \/ \E s \in Subs : SubmitStep(s)
           \/ \E r \in Rejudges : RejudgeStep(r)
           \/ \E h \in Handlers :
                 Reject(h) \/ Send(h) \/ SendLost(h) \/ SendThrows(h) \/ HandlerDies(h)
    PROVE  /\ UNCHANGED wkVars
           /\ \E h \in Handlers, l \in {"update", "undo", "send", "mark", "done"} :
                 /\ gw[h] # "done" /\ gw' = [gw EXCEPT ![h] = l]
                 /\ \/ UNCHANGED msg
                    \/ /\ gw[h] = "send" /\ l = "done"
                       /\ \E x \in {"ready", "lost"} : msg' = [msg EXCEPT ![h] = x]
<1> USE DEF GwGoto, Handlers
<1>1. CASE \E s \in Subs : SubmitStep(s)
  BY <1>1 DEF SubmitStep, SubmitInsert, SubmitMarkRE
<1>2. CASE \E r \in Rejudges : RejudgeStep(r)
  BY <1>2 DEF RejudgeStep, RejudgeRead, RejudgeFlip, RejudgeReset, RejudgeUndo
<1>3. CASE \E h \in Handlers : Reject(h) \/ Send(h) \/ SendLost(h) \/ SendThrows(h) \/ HandlerDies(h)
  BY <1>3 DEF Reject, Send, SendLost, SendThrows, HandlerDies
<1> QED
  BY <1>1, <1>2, <1>3

\* What a step of a worker does to jobs, connections and messages: it takes a message, goes
\* on, ends its job, or loses its connection and its message with it.
LEMMA WorkerMoves ==
    ASSUME TypeOK, JobOK, NEW w \in Workers,
           WorkerStep(w) \/ ConnDrop(w) \/ WorkerCrash(w)
    PROVE  \/ \E h \in Handlers : Deliver(w, h)
           \/ /\ UNCHANGED <<msg, job, conn>>
              /\ wpc[w] # "idle" /\ \E l : l # "idle" /\ wpc' = [wpc EXCEPT ![w] = l]
           \/ /\ wpc[w] # "idle" /\ WIdle(w)
              /\ \/ UNCHANGED msg
                 \/ conn[w] /\ \E x : msg' = [msg EXCEPT ![job[w]] = x]
           \/ /\ ConnectedBusy(w) /\ UNCHANGED <<wpc, job>>
              /\ conn' = [conn EXCEPT ![w] = FALSE]
              /\ msg' = [msg EXCEPT ![job[w]] = "ready"]
<1> USE DEF WGoto
<1>1. CASE SaveVerdict(w)
  BY <1>1 DEF SaveVerdict
<1>2. CASE Ack(w) \/ AckUnheard(w) \/ Nack(w) \/ WorkerCrash(w)
  BY <1>2 DEF Ack, AckUnheard, Nack, WorkerCrash
<1>3. CASE ConnDrop(w)
  BY <1>3 DEF ConnDrop, ConnectedBusy
<1>4. CASE Load(w) \/ JudgeRaises(w) \/ IncrementAc(w) \/ DecrementAc(w) \/ UndoAc(w)
           \/ UndoGone(w) \/ AckRaises(w) \/ MarkError(w) \/ MarkFails(w)
  BY <1>4 DEF Load, JudgeRaises, IncrementAc, DecrementAc, UndoAc, UndoGone, Adjust,
     AckRaises, MarkError, MarkFails
<1> QED
  BY <1>1, <1>2, <1>3, <1>4 DEF WorkerStep

\* Every step keeps the messages apart.
LEMMA HeldStep ==
    ASSUME TypeOK, JobOK, HeldByOne, [Next]_vars
    PROVE  HeldByOne'
<1> USE DEF TypeOK, JobOK, HeldByOne, ConnectedBusy
<1>1. CASE UNCHANGED <<msg, gw, wpc, job, conn>>
  BY <1>1
<1>2. ASSUME UNCHANGED wkVars,
             NEW h \in Handlers, NEW l, gw[h] # "done", gw' = [gw EXCEPT ![h] = l],
             \/ UNCHANGED msg
             \/ gw[h] = "send" /\ l = "done" /\ \E x : msg' = [msg EXCEPT ![h] = x]
      PROVE  HeldByOne'
  <2>1. CASE UNCHANGED msg
    BY <1>2, <2>1 DEF wkVars
  <2>2. CASE gw[h] = "send" /\ l = "done" /\ \E x : msg' = [msg EXCEPT ![h] = x]
    <3>1. msg[h] = "none"
      BY <2>2
    <3>2. \A w \in Workers : ConnectedBusy(w) => job[w] # h
      BY <3>1
    <3> QED
      BY <1>2, <2>2, <3>2 DEF wkVars
  <2> QED
    BY <1>2, <2>1, <2>2
<1>3. ASSUME NEW w \in Workers, WorkerStep(w) \/ ConnDrop(w) \/ WorkerCrash(w)
      PROVE  HeldByOne'
  <2>0. UNCHANGED gw /\ (wpc[w] # "idle" => job[w] \in Handlers)
    BY <1>3, GatewayRests DEF gwVars
  <2>1. ASSUME NEW h \in Handlers, Deliver(w, h) PROVE HeldByOne'
    <3>1. /\ wpc[w] = "idle" /\ msg[h] = "ready" /\ conn' = conn
          /\ msg' = [msg EXCEPT ![h] = "unacked"]
          /\ job' = [job EXCEPT ![w] = h]
          /\ wpc' = [wpc EXCEPT ![w] = "load"]
      BY <2>1 DEF Deliver, WGoto
    <3>2. \A v \in Workers : ConnectedBusy(v) => job[v] # h
      BY <3>1
    <3>3. gw[h] = "done"
      BY <3>1
    <3> QED
      BY <2>0, <3>1, <3>2, <3>3
  <2>2. CASE /\ UNCHANGED <<msg, job, conn>>
             /\ wpc[w] # "idle" /\ \E l : l # "idle" /\ wpc' = [wpc EXCEPT ![w] = l]
    BY <2>0, <2>2
  <2>3. CASE /\ wpc[w] # "idle" /\ WIdle(w)
             /\ UNCHANGED msg
    BY <2>0, <2>3 DEF WIdle
  <2>4. ASSUME wpc[w] # "idle", WIdle(w), conn[w], NEW x, msg' = [msg EXCEPT ![job[w]] = x]
        PROVE  HeldByOne'
    <3>1. msg[job[w]] = "unacked" /\ gw[job[w]] = "done"
      BY <2>0, <2>4
    <3>2. \A v \in Workers \ {w} : ConnectedBusy(v) => job[v] # job[w]
      BY <2>4
    <3>3. \A v \in Workers \ {w} : wpc'[v] = wpc[v] /\ job'[v] = job[v] /\ conn'[v] = conn[v]
      BY <2>4 DEF WIdle
    <3>4. wpc'[w] = "idle" /\ conn'[w]
      BY <2>4 DEF WIdle
    <3>5. \A h \in Handlers : msg'[h] = IF h = job[w] THEN x ELSE msg[h]
      BY <2>4
    <3>6. \A v \in Workers : v # w /\ wpc[v] # "idle" => job[v] \in Handlers
      OBVIOUS
    <3> QED
      BY <2>0, <3>1, <3>2, <3>3, <3>4, <3>5, <3>6
  <2>5. CASE /\ ConnectedBusy(w) /\ UNCHANGED <<wpc, job>>
             /\ conn' = [conn EXCEPT ![w] = FALSE]
             /\ msg' = [msg EXCEPT ![job[w]] = "ready"]
    <3>1. \A v \in Workers \ {w} : ConnectedBusy(v) => job[v] # job[w]
      BY <2>5
    <3>2. gw[job[w]] = "done"
      BY <2>0, <2>5
    <3> QED
      BY <2>0, <2>5, <3>1, <3>2
  <2> QED
    BY <1>3, <2>1, <2>2, <2>3, <2>4, <2>5, WorkerMoves
<1>4. ASSUME NEW s \in Subs, DeleteProblem(s)
      PROVE  HeldByOne'
  BY <1>1, <1>4 DEF DeleteProblem, gwVars, wkVars
<1>5. CASE UNCHANGED vars
  BY <1>1, <1>5 DEF vars
<1>6. CASE \/ \E s \in Subs : SubmitStep(s)
           \/ \E r \in Rejudges : RejudgeStep(r)
           \/ \E h \in Handlers :
                 Reject(h) \/ Send(h) \/ SendLost(h) \/ SendThrows(h) \/ HandlerDies(h)
  BY <1>2, <1>6, GatewayMoves
<1> QED
  BY <1>3, <1>4, <1>5, <1>6 DEF Next

\* A handler that is about to publish, or whose message is queued, keeps its submission
\* underway through every step of the gateway.
LEMMA PendingByGateway ==
    ASSUME TypeOK, PendingSafe,
           "publish" \notin faults'.kinds, "gateway" \notin faults'.kinds,
           \/ \E s \in Subs : SubmitStep(s) \/ DeleteProblem(s)
           \/ \E r \in Rejudges : RejudgeStep(r)
           \/ \E h \in Handlers :
                 Reject(h) \/ Send(h) \/ SendLost(h) \/ SendThrows(h) \/ HandlerDies(h)
    PROVE  PendingSafe'
<1> USE DEF TypeOK, PendingSafe, SafelyUnderway, GwGoto, WillPublish, Handlers, wkVars, SubOf
<1>1. CASE \E s \in Subs : SubmitInsert(s)
  BY <1>1 DEF SubmitInsert
<1>2. CASE \E s \in Subs : SubmitMarkRE(s)
  BY <1>2 DEF SubmitMarkRE, RowExists
<1>3. CASE \E s \in Subs : DeleteProblem(s)
  BY <1>3 DEF DeleteProblem, gwVars
<1>4. CASE \E r \in Rejudges : RejudgeRead(r)
  BY <1>4 DEF RejudgeRead, dbVars
<1>5. CASE \E r \in Rejudges : RejudgeFlip(r)
  BY <1>5 DEF RejudgeFlip, ResetRow, dbVars
<1>6. CASE \E r \in Rejudges : RejudgeReset(r)
  BY <1>6 DEF RejudgeReset, ResetRow, dbVars
<1>7. CASE \E r \in Rejudges : RejudgeUndo(r)
  BY <1>7 DEF RejudgeUndo, dbVars
<1>8. CASE \E h \in Handlers : Reject(h)
  BY <1>8 DEF Reject
<1>9. CASE \E h \in Handlers : Send(h)
  BY <1>9 DEF Send, dbVars
<1>10. CASE \E h \in Handlers : SendLost(h) \/ SendThrows(h) \/ HandlerDies(h)
  BY <1>10, FaultType DEF SendLost, SendThrows, HandlerDies
<1> QED
  BY <1>1, <1>2, <1>3, <1>4, <1>5, <1>6, <1>7, <1>8, <1>9, <1>10 DEF SubmitStep, RejudgeStep

\* A worker that will still write the verdict keeps its submission underway, until it has
\* written it or has given its message back.
LEMMA PendingByWorker ==
    ASSUME TypeOK, JobOK, HeldByOne, PendingSafe, "db" \notin faults'.kinds,
           NEW w \in Workers, WorkerStep(w) \/ ConnDrop(w) \/ WorkerCrash(w)
    PROVE  PendingSafe'
<1> USE DEF TypeOK, JobOK, HeldByOne, ConnectedBusy, PendingSafe
<1> SUFFICES ASSUME NEW s \in Subs, status'[s] = "PENDING" PROVE SafelyUnderway(s)'
  OBVIOUS
<1>1. status[s] = "PENDING" /\ SafelyUnderway(s)
  BY RowsByWorker DEF dbVars
<1>2. UNCHANGED gwVars
  BY GatewayRests
<1>3. ASSUME NEW h \in Handlers, SubOf(h) = s, WillPublish(h)
      PROVE  SafelyUnderway(s)'
  BY <1>2, <1>3 DEF SafelyUnderway, WillPublish, gwVars, SubOf
<1>4. ASSUME NEW h \in Handlers, SubOf(h) = s, msg[h] = "ready"
      PROVE  SafelyUnderway(s)'
  <2>1. CASE Deliver(w, h)
    <3>1. conn[w] /\ conn'[w] /\ wpc'[w] = "load" /\ job'[w] = h
      BY <2>1 DEF Deliver, WGoto
    <3> QED
      BY <1>4, <3>1 DEF SafelyUnderway, SubOf
  <2>2. CASE ~Deliver(w, h)
    <3>1. msg'[h] = "ready"
      BY <1>4, <2>2, WorkerMoves DEF Deliver
    <3> QED
      BY <1>4, <3>1 DEF SafelyUnderway, SubOf
  <2> QED
    BY <2>1, <2>2
<1>5. ASSUME NEW v \in Workers, wpc[v] \in {"load", "judge", "mark"}, conn[v],
             SubOf(job[v]) = s
      PROVE  SafelyUnderway(s)'
  <2>1. job[v] \in Handlers /\ msg[job[v]] = "unacked"
    BY <1>5
  <2>2. CASE v # w
    <3>1. wpc'[v] = wpc[v] /\ job'[v] = job[v] /\ conn'[v] = conn[v]
      BY <2>2, WorkerMoves DEF Deliver, WGoto, WIdle
    <3> QED
      BY <1>5, <3>1 DEF SafelyUnderway, SubOf
  <2>3. CASE v = w
    <3>1. CASE WorkerCrash(w) \/ ConnDrop(w)
      <4>1. msg'[job[w]] = "ready"
        BY <1>5, <2>1, <2>3, <3>1 DEF WorkerCrash, ConnDrop
      <4> QED
        BY <1>5, <2>1, <2>3, <4>1 DEF SafelyUnderway, SubOf
    <3>2. CASE Load(w) \/ JudgeRaises(w)
      <4>1. /\ wpc'[w] \in {"judge", "mark"}
            /\ job' = job /\ conn' = conn
        BY <1>1, <1>5, <2>3, <3>2 DEF Load, JudgeRaises, RowExists, WGoto
      <4> QED
        BY <1>5, <2>3, <4>1 DEF SafelyUnderway, SubOf
    <3>3. CASE SaveVerdict(w)
      <4>1. RowExists(s) /\ status'[s] \in Verdicts
        BY <1>1, <1>5, <2>3, <3>3 DEF SaveVerdict, RowExists
      <4> QED
        BY <4>1 DEF Verdicts
    <3>4. CASE MarkError(w)
      <4>1. RowExists(s) /\ status'[s] = "RE"
        BY <1>1, <1>5, <2>3, <3>4 DEF MarkError, RowExists
      <4> QED
        BY <4>1
    <3>5. CASE MarkFails(w)
      BY <3>5, FaultType DEF MarkFails
    <3> QED
      BY <1>5, <2>3, <3>1, <3>2, <3>3, <3>4, <3>5 DEF WorkerStep, Deliver, IncrementAc,
         DecrementAc, UndoAc, UndoGone, Ack, AckRaises, AckUnheard, Nack
  <2> QED
    BY <2>2, <2>3
<1> QED
  BY <1>1, <1>3, <1>4, <1>5 DEF SafelyUnderway

\* The inductive invariant holds initially.
LEMMA PendingInit == Init => PendingInv
<1> SUFFICES ASSUME Init PROVE PendingInv
  OBVIOUS
<1>1. TypeOK
  BY InitType
<1> QED
  BY <1>1 DEF Init, PendingInv, JobOK, HeldByOne, ConnectedBusy, PendingSafe

\* Every step keeps the inductive invariant.
LEMMA PendingStep ==
    ASSUME PendingInv, [Next]_vars
    PROVE  PendingInv'
<1>1. TypeOK' /\ JobOK' /\ HeldByOne'
  BY TypeStep, JobStep, HeldStep DEF PendingInv
<1>2. CASE faults'.kinds \cap Abandoning # {}
  BY <1>1, <1>2 DEF PendingInv
<1>3. CASE faults'.kinds \cap Abandoning = {}
  <2>1. /\ "publish" \notin faults'.kinds /\ "gateway" \notin faults'.kinds
        /\ "db" \notin faults'.kinds
    BY <1>3 DEF Abandoning
  <2>2. PendingSafe
    BY <1>3, FaultsGrow DEF PendingInv
  <2>3. ASSUME UNCHANGED vars PROVE PendingSafe'
    BY <2>2, <2>3 DEF vars, PendingSafe, SafelyUnderway, WillPublish, SubOf
  <2>4. ASSUME Next PROVE PendingSafe'
    BY <2>1, <2>2, <2>4, PendingByGateway, PendingByWorker DEF PendingInv, Next
  <2> QED
    BY <1>1, <1>3, <2>3, <2>4 DEF PendingInv
<1> QED
  BY <1>2, <1>3

\* While no publish is lost, no handler dies before it publishes and no error path fails,
\* a PENDING row always has somebody who will still judge it, whatever workers crash and
\* connections drop (worker.py, judge.ts, admin.ts).
THEOREM NobodyIsForgotten == Spec => []PendingIsUnderway
<1>1. PendingInv => PendingIsUnderway
  BY DEF PendingInv, PendingSafe, SafelyUnderway, PendingIsUnderway, Underway
<1> QED
  BY PendingInit, PendingStep, <1>1, PTL DEF Spec

-----------------------------------------------------------------------------
(* The counter is never too high *)

VerdictWorth(s) == IF status[s] = "AC" THEN 1 ELSE 0

\* What s is worth once the changes on their way are applied, beyond its verdict.
Excess(s) == credit[s] + Owed(s) - VerdictWorth(s)

\* The request that inserts s has not yet published it or given up.
NotYet(s) == gw[s] \in {"new", "send", "mark"}

\* Nobody else has judged s, is about to, or has reset it.
Fresh(s) ==
    /\ status[s] # "AC"
    /\ \A r \in Rejudges : Target[r] = s =>
          gw[r] \notin {"undo", "send"} /\ (gw[r] = "update" => ~saw[r])
    /\ \A h \in Handlers : SubOf(h) = s => msg[h] = "none"
    /\ \A w \in Workers : wpc[w] # "idle" => SubOf(job[w]) # s

\* One submission's part of the bound.  The catch block of submit, which takes an AC away
\* without a deduction, has a point in hand: an AC that it can meet comes from a rejudge.
InBound(s) ==
    /\ Excess(s) <= Cardinality(Unpaid(s))
    /\ NotYet(s) => Fresh(s) \/ Excess(s) + 1 <= Cardinality(Unpaid(s))

\* The error path takes a point back only from a row that was there.
UndoneWasThere == \A w \in Workers : wpc[w] = "undo" => status[SubOf(job[w])] # "none"

\* The inductive invariant: the bound is kept for the verdict, which is at most the flag.
OverInv ==
    /\ TypeOK /\ JobOK /\ AcIsCounted /\ NewIsNone /\ UndoneWasThere
    /\ \/ faults.kinds \cap {"redis", "crash", "db"} # {}
       \/ \A s \in Subs : status[s] # "deleted" => InBound(s)

\* The rejudges of a submission that may have left a point behind are finitely many, and a
\* step only adds to them.
LEMMA UnpaidGrow ==
    ASSUME TypeOK, [Next]_vars, NEW s \in Subs
    PROVE  /\ IsFiniteSet(Unpaid(s)) /\ IsFiniteSet(Unpaid(s)')
           /\ Cardinality(Unpaid(s)) \in Nat /\ Cardinality(Unpaid(s)') \in Nat
           /\ Unpaid(s) \subseteq Unpaid(s)'
           /\ Cardinality(Unpaid(s)) <= Cardinality(Unpaid(s)')
<1>1. Unpaid(s) \subseteq Rejudges /\ Unpaid(s)' \subseteq Rejudges
  BY DEF Unpaid
<1>2. IsFiniteSet(Unpaid(s)) /\ IsFiniteSet(Unpaid(s)')
  BY <1>1, FS_Subset
<1>3. ASSUME NEW r \in Unpaid(s)
      PROVE  r \in Unpaid(s)'
  <2>1. /\ r \in Rejudges /\ Target[r] = s /\ r \in Handlers
        /\ IF saw[r] THEN gw[r] = "done" /\ "gateway" \in faults.kinds
                     ELSE gw[r] \in {"send", "done"}
    BY DEF Unpaid, Handlers
  <2>2. saw'[r] = saw[r]
    <3>1. CASE UNCHANGED saw
      BY <3>1
    <3>2. CASE \E q \in Rejudges : RejudgeRead(q)
      BY <2>1, <3>2 DEF RejudgeRead, TypeOK
    <3>3. ASSUME NEW w \in Workers, WorkerStep(w) \/ ConnDrop(w) \/ WorkerCrash(w)
          PROVE  UNCHANGED saw
      BY <3>3, GatewayRests DEF gwVars
    <3>4. CASE UNCHANGED vars
      BY <3>1, <3>4 DEF vars
    <3> QED
      BY <3>1, <3>2, <3>3, <3>4 DEF Next, SubmitStep, SubmitInsert, SubmitMarkRE,
         DeleteProblem, RejudgeStep, RejudgeFlip, RejudgeReset, RejudgeUndo, Reject, Send,
         SendLost, SendThrows, HandlerDies, gwVars
  <2>3. gw[r] = "done" => gw'[r] = "done"
    <3>1. CASE UNCHANGED gw
      BY <3>1
    <3>2. ASSUME NEW h \in Handlers, NEW l, gw[h] # "done", gw' = [gw EXCEPT ![h] = l]
          PROVE  gw[r] = "done" => gw'[r] = "done"
      BY <2>1, <3>2 DEF TypeOK
    <3>3. ASSUME NEW w \in Workers, WorkerStep(w) \/ ConnDrop(w) \/ WorkerCrash(w)
          PROVE  UNCHANGED gw
      BY <3>3, GatewayRests DEF gwVars
    <3>4. CASE (\E t \in Subs : DeleteProblem(t)) \/ UNCHANGED vars
      BY <3>1, <3>4 DEF DeleteProblem, gwVars, vars
    <3> QED
      BY <3>1, <3>2, <3>3, <3>4, GatewayMoves DEF Next
  <2>4. gw[r] = "send" => gw'[r] \in {"send", "done"}
    <3>1. CASE UNCHANGED gw
      BY <3>1
    <3>2. ASSUME NEW h \in Handlers, NEW l, gw[h] # "send" \/ l = "done",
                 gw' = [gw EXCEPT ![h] = l]
          PROVE  gw[r] = "send" => gw'[r] \in {"send", "done"}
      BY <2>1, <3>2 DEF TypeOK
    <3>3. ASSUME NEW w \in Workers, WorkerStep(w) \/ ConnDrop(w) \/ WorkerCrash(w)
          PROVE  UNCHANGED gw
      BY <3>3, GatewayRests DEF gwVars
    <3>4. ASSUME NEW t \in Subs, SubmitStep(t) \/ DeleteProblem(t)
          PROVE  gw[r] = "send" => gw'[r] \in {"send", "done"}
      BY <3>1, <3>2, <3>4 DEF SubmitStep, SubmitInsert, SubmitMarkRE, DeleteProblem, GwGoto,
         gwVars, Handlers
    <3>5. ASSUME NEW q \in Rejudges, RejudgeStep(q)
          PROVE  gw[r] = "send" => gw'[r] \in {"send", "done"}
      <4>1. gw[q] # "send" /\ q \in Handlers /\ \E l : gw' = [gw EXCEPT ![q] = l]
        BY <3>5 DEF RejudgeStep, RejudgeRead, RejudgeFlip, RejudgeReset, RejudgeUndo, GwGoto,
           Handlers
      <4> QED
        BY <3>2, <4>1
    <3>6. ASSUME NEW h \in Handlers,
                 Reject(h) \/ Send(h) \/ SendLost(h) \/ SendThrows(h) \/ HandlerDies(h)
          PROVE  gw[r] = "send" => gw'[r] \in {"send", "done"}
      <4>1. CASE SendThrows(h)
        <5>1. CASE h = r
          <6>1. r \notin Subs
            BY <2>1
          <6>2. gw' = [gw EXCEPT ![r] = "done"]
            BY <4>1, <5>1, <6>1 DEF SendThrows, GwGoto
          <6> QED
            BY <3>2, <2>1, <6>2
        <5>2. CASE h # r
          BY <2>1, <4>1, <5>2 DEF SendThrows, GwGoto, TypeOK
        <5> QED
          BY <5>1, <5>2
      <4>2. CASE ~SendThrows(h)
        BY <3>2, <3>6, <4>2 DEF Reject, Send, SendLost, HandlerDies, GwGoto
      <4> QED
        BY <4>1, <4>2
    <3>7. CASE UNCHANGED vars
      BY <3>1, <3>7 DEF vars
    <3> QED
      BY <3>3, <3>1, <3>4, <3>5, <3>6, <3>7 DEF Next
  <2>5. faults.kinds \subseteq faults'.kinds
    BY FaultsGrow
  <2> QED
    BY <2>1, <2>2, <2>3, <2>4, <2>5 DEF Unpaid
<1>4. Unpaid(s) \subseteq Unpaid(s)'
  BY <1>3
<1> QED
  BY <1>2, <1>4, FS_Subset, FS_CardinalityType

\* A rejudge that enters the set makes it one larger.
LEMMA UnpaidGain ==
    ASSUME TypeOK, [Next]_vars, NEW s \in Subs, NEW r \in Rejudges,
           r \notin Unpaid(s), r \in Unpaid(s)'
    PROVE  Cardinality(Unpaid(s)) + 1 <= Cardinality(Unpaid(s)')
<1>1. /\ IsFiniteSet(Unpaid(s)) /\ IsFiniteSet(Unpaid(s)')
      /\ Cardinality(Unpaid(s)) \in Nat /\ Cardinality(Unpaid(s)') \in Nat
      /\ Unpaid(s) \cup {r} \subseteq Unpaid(s)'
  BY UnpaidGrow
<1>2. Cardinality(Unpaid(s) \cup {r}) = Cardinality(Unpaid(s)) + 1
  BY <1>1, FS_AddElement
<1>3. Cardinality(Unpaid(s) \cup {r}) <= Cardinality(Unpaid(s)')
  BY <1>1, FS_Subset
<1> QED
  BY <1>2, <1>3

\* What a step may do to the excess of s: a point more only with one more rejudge that may
\* have left it.
Paid(s) == Excess(s)' + Cardinality(Unpaid(s)) <= Excess(s) + Cardinality(Unpaid(s)')

\* The steps of the gateway but two: the catch block and the deletion.
LEMMA PaidByGateway ==
    ASSUME TypeOK, NewIsNone, [Next]_vars, NEW s \in Subs, "redis" \notin faults'.kinds,
           \/ \E t \in Subs : SubmitInsert(t)
           \/ \E r \in Rejudges : RejudgeStep(r)
           \/ \E h \in Handlers :
                 Reject(h) \/ Send(h) \/ SendLost(h) \/ SendThrows(h) \/ HandlerDies(h)
    PROVE  Paid(s)
<1>a. /\ TypeOK /\ NewIsNone /\ [Next]_vars /\ Owed(s) \in Int /\ credit[s] \in Int
      /\ VerdictWorth(s) \in Int /\ VerdictWorth(s)' \in Int
      /\ Subs \subseteq Handlers /\ Rejudges \subseteq Handlers /\ Subs \cap Rejudges = {}
      /\ Cardinality(Unpaid(s)) \in Nat /\ Cardinality(Unpaid(s)') \in Nat
      /\ Cardinality(Unpaid(s)) <= Cardinality(Unpaid(s)')
  BY FiniteParts, UnpaidGrow DEF TypeOK, Handlers, VerdictWorth
<1> USE DEF GwGoto, wkVars, dbVars, gwVars
\* The rules of bookkeeping: a handler books a deduction, drops it, or does neither.
<1>b. ASSUME NEW h \in Handlers, NEW l, gw' = [gw EXCEPT ![h] = l], wpc' = wpc, job' = job
      PROVE  Owed(s)' = Owed(s) +
               (IF h \in Rejudges /\ Target[h] = s
                   THEN (IF gw[h] = "undo" THEN 1 ELSE 0) - (IF l = "undo" THEN 1 ELSE 0)
                   ELSE 0)
  <2>1. UNCHANGED <<wpc, job>>
    BY <1>b
  <2> QED
    BY <1>a, <1>b, <2>1, OwedByHandler
<1>c. ASSUME NEW h \in Handlers, NEW l, gw' = [gw EXCEPT ![h] = l], wpc' = wpc, job' = job,
             h \in Rejudges, Target[h] = s, gw[h] # "undo", l = "undo"
      PROVE  Owed(s)' = Owed(s) - 1
  <2>0. gw' = [gw EXCEPT ![h] = l] /\ wpc' = wpc /\ job' = job
    BY <1>c
  <2>1. Owed(s)' = Owed(s) +
          (IF h \in Rejudges /\ Target[h] = s
              THEN (IF gw[h] = "undo" THEN 1 ELSE 0) - (IF l = "undo" THEN 1 ELSE 0)
              ELSE 0)
    BY <1>b, <2>0, Zenon
  <2> QED
    BY <1>a, <1>c, <2>1
<1>d. ASSUME NEW h \in Handlers, NEW l, gw' = [gw EXCEPT ![h] = l], wpc' = wpc, job' = job,
             h \in Rejudges, Target[h] = s, gw[h] = "undo", l # "undo"
      PROVE  Owed(s)' = Owed(s) + 1
  <2>0. gw' = [gw EXCEPT ![h] = l] /\ wpc' = wpc /\ job' = job
    BY <1>d
  <2>1. Owed(s)' = Owed(s) +
          (IF h \in Rejudges /\ Target[h] = s
              THEN (IF gw[h] = "undo" THEN 1 ELSE 0) - (IF l = "undo" THEN 1 ELSE 0)
              ELSE 0)
    BY <1>b, <2>0, Zenon
  <2> QED
    BY <1>a, <1>d, <2>1
<1>e. ASSUME NEW h \in Handlers, NEW l, gw' = [gw EXCEPT ![h] = l], wpc' = wpc, job' = job,
             ~(h \in Rejudges /\ Target[h] = s) \/ (gw[h] # "undo" /\ l # "undo")
      PROVE  Owed(s)' = Owed(s)
  <2>0. gw' = [gw EXCEPT ![h] = l] /\ wpc' = wpc /\ job' = job
    BY <1>e
  <2>1. Owed(s)' = Owed(s) +
          (IF h \in Rejudges /\ Target[h] = s
              THEN (IF gw[h] = "undo" THEN 1 ELSE 0) - (IF l = "undo" THEN 1 ELSE 0)
              ELSE 0)
    BY <1>b, <2>0, Zenon
  <2> QED
    BY <1>a, <1>e, <2>1
<1>2. ASSUME NEW h \in Handlers, NEW l, gw' = [gw EXCEPT ![h] = l], l # "undo",
             gw[h] # "undo", wpc' = wpc, job' = job, credit' = credit,
             VerdictWorth(s)' = VerdictWorth(s)
      PROVE  Paid(s)
  <2>1. Owed(s)' = Owed(s)
    BY <1>2, <1>e
  <2> QED
    BY <1>a, <1>2, <2>1 DEF Paid, Excess
<1>3. ASSUME NEW t \in Subs, SubmitInsert(t)
      PROVE  Paid(s)
  <2>1. VerdictWorth(s)' = VerdictWorth(s)
    BY <1>a, <1>3 DEF SubmitInsert, NewIsNone, TypeOK, VerdictWorth
  <2> QED
    BY <1>a, <1>2, <1>3, <2>1 DEF SubmitInsert
<1>4. ASSUME NEW h \in Handlers, Reject(h) \/ Send(h) \/ SendLost(h) \/ SendThrows(h)
      PROVE  Paid(s)
  <2>1. /\ status' = status /\ wpc' = wpc /\ job' = job /\ credit' = credit /\ gw[h] # "undo"
        /\ \E l : l # "undo" /\ gw' = [gw EXCEPT ![h] = l]
    BY <1>4 DEF Reject, Send, SendLost, SendThrows
  <2>2. VerdictWorth(s)' = VerdictWorth(s)
    BY <2>1 DEF VerdictWorth
  <2> QED
    BY <1>2, <2>1, <2>2
<1>5. ASSUME NEW h \in Handlers, HandlerDies(h)
      PROVE  Paid(s)
  <2>1. /\ status' = status /\ saw' = saw /\ wpc' = wpc /\ job' = job /\ credit' = credit
        /\ gw' = [gw EXCEPT ![h] = "done"] /\ "gateway" \in faults'.kinds
    BY <1>5, FaultType DEF HandlerDies
  <2>2. VerdictWorth(s)' = VerdictWorth(s)
    BY <2>1 DEF VerdictWorth
  <2>3. CASE h \in Rejudges /\ Target[h] = s /\ gw[h] = "undo"
    <3>1. h \notin Unpaid(s)
      BY <2>3 DEF Unpaid
    <3>2. gw'[h] = "done"
      BY <1>a, <2>1 DEF TypeOK
    <3>3. h \in Unpaid(s)'
      BY <2>1, <2>3, <3>2 DEF Unpaid
    <3>4. Cardinality(Unpaid(s)) + 1 <= Cardinality(Unpaid(s)')
      BY <1>a, <2>3, <3>1, <3>3, UnpaidGain
    <3>5. Owed(s)' = Owed(s) + 1
      BY <2>1, <2>3, <1>d
    <3> QED
      BY <1>a, <2>1, <2>2, <3>4, <3>5 DEF Paid, Excess
  <2>4. CASE ~(h \in Rejudges /\ Target[h] = s /\ gw[h] = "undo")
    <3>1. Owed(s)' = Owed(s)
      BY <2>1, <2>4, <1>e
    <3> QED
      BY <1>a, <2>1, <2>2, <3>1 DEF Paid, Excess
  <2> QED
    BY <2>3, <2>4
<1>6. ASSUME NEW r \in Rejudges, RejudgeRead(r)
      PROVE  Paid(s)
  <2>1. VerdictWorth(s)' = VerdictWorth(s)
    BY <1>6 DEF RejudgeRead, VerdictWorth
  <2> QED
    BY <1>a, <1>2, <1>6, <2>1 DEF RejudgeRead
<1>7. ASSUME NEW r \in Rejudges, RejudgeFlip(r)
      PROVE  Paid(s)
  <2>1. CASE status[Target[r]] = "AC" /\ acCounted[Target[r]]
    <3>1. /\ gw[r] = "update" /\ gw' = [gw EXCEPT ![r] = "undo"]
          /\ wpc' = wpc /\ job' = job /\ credit' = credit
          /\ status' = [status EXCEPT ![Target[r]] = "PENDING"]
      BY <1>7, <2>1 DEF RejudgeFlip, ResetRow
    <3>2. VerdictWorth(s)' = VerdictWorth(s) - (IF Target[r] = s THEN 1 ELSE 0)
      BY <1>a, <2>1, <3>1 DEF VerdictWorth, TypeOK
    <3>3. CASE Target[r] = s
      <4>1. Owed(s)' = Owed(s) - 1
        BY <3>1, <3>3, <1>a, <1>c
      <4> QED
        BY <1>a, <3>1, <3>2, <3>3, <4>1 DEF Paid, Excess
    <3>4. CASE Target[r] # s
      <4>1. Owed(s)' = Owed(s)
        BY <3>1, <3>4, <1>a, <1>e
      <4> QED
        BY <1>a, <3>1, <3>2, <3>4, <4>1 DEF Paid, Excess
    <3> QED
      BY <3>3, <3>4
  <2>2. CASE ~(status[Target[r]] = "AC" /\ acCounted[Target[r]])
    <3>1. /\ gw[r] = "update" /\ gw' = [gw EXCEPT ![r] = "send"]
          /\ wpc' = wpc /\ job' = job /\ credit' = credit /\ status' = status
      BY <1>7, <2>2 DEF RejudgeFlip
    <3>2. VerdictWorth(s)' = VerdictWorth(s)
      BY <3>1 DEF VerdictWorth
    <3> QED
      BY <1>a, <1>2, <3>1, <3>2
  <2> QED
    BY <2>1, <2>2
<1>8. ASSUME NEW r \in Rejudges, RejudgeReset(r)
      PROVE  Paid(s)
  <2>1. /\ gw[r] = "update" /\ gw' = [gw EXCEPT ![r] = "send"] /\ ~saw[r] /\ saw' = saw
        /\ wpc' = wpc /\ job' = job /\ credit' = credit
        /\ status' = status \/ status' = [status EXCEPT ![Target[r]] = "PENDING"]
    BY <1>8 DEF RejudgeReset, ResetRow
  <2>2. CASE Target[r] = s
    <3>1. r \notin Unpaid(s)
      BY <2>1 DEF Unpaid
    <3>2. r \in Unpaid(s)'
      BY <1>a, <2>1, <2>2 DEF Unpaid, TypeOK
    <3>3. Cardinality(Unpaid(s)) + 1 <= Cardinality(Unpaid(s)')
      BY <1>a, <3>1, <3>2, UnpaidGain
    <3>4. VerdictWorth(s) - VerdictWorth(s)' <= 1
      BY DEF VerdictWorth
    <3>5. Owed(s)' = Owed(s)
      BY <2>1, <1>a, <1>e
    <3> QED
      BY <1>a, <2>1, <3>3, <3>4, <3>5 DEF Paid, Excess
  <2>3. CASE Target[r] # s
    <3>1. VerdictWorth(s)' = VerdictWorth(s)
      BY <1>a, <2>1, <2>3 DEF VerdictWorth, TypeOK
    <3> QED
      BY <1>a, <1>2, <2>1, <3>1
  <2> QED
    BY <2>2, <2>3
<1>9. ASSUME NEW r \in Rejudges, RejudgeUndo(r)
      PROVE  Paid(s)
  <2>1. /\ gw[r] = "undo" /\ gw' = [gw EXCEPT ![r] = "send"]
        /\ wpc' = wpc /\ job' = job /\ status' = status
        /\ credit' = [credit EXCEPT ![Target[r]] = @ - 1]
    BY <1>9, FaultType DEF RejudgeUndo
  <2>2. credit'[s] = credit[s] - (IF Target[r] = s THEN 1 ELSE 0)
    BY <1>a, <2>1 DEF TypeOK
  <2>3. VerdictWorth(s)' = VerdictWorth(s)
    BY <2>1 DEF VerdictWorth
  <2>4. CASE Target[r] = s
    <3>1. Owed(s)' = Owed(s) + 1
      BY <2>1, <2>4, <1>a, <1>d
    <3> QED
      BY <1>a, <2>2, <2>3, <2>4, <3>1 DEF Paid, Excess
  <2>5. CASE Target[r] # s
    <3>1. Owed(s)' = Owed(s)
      BY <2>1, <2>5, <1>a, <1>e
    <3> QED
      BY <1>a, <2>2, <2>3, <2>5, <3>1 DEF Paid, Excess
  <2> QED
    BY <2>4, <2>5
<1> QED
  BY <1>3, <1>4, <1>5, <1>6, <1>7, <1>8, <1>9 DEF RejudgeStep

\* The steps of a worker, while Redis, the workers and the error paths do not fail, keep the
\* excess of a submission that is not deleted.
LEMMA ExcessByWorker ==
    ASSUME TypeOK, JobOK, UndoneWasThere, NEW s \in Subs, status'[s] # "deleted",
           faults'.kinds \cap {"redis", "crash", "db"} = {},
           NEW w \in Workers, WorkerStep(w) \/ ConnDrop(w) \/ WorkerCrash(w)
    PROVE  Excess(s)' = Excess(s)
<1> DEFINE mine == SubOf(job[w]) = s
           t == SubOf(job[w])
<1>a. /\ TypeOK /\ Owed(s) \in Int /\ credit[s] \in Int
      /\ VerdictWorth(s) \in Int /\ VerdictWorth(s)' \in Int
  BY FiniteParts DEF TypeOK, VerdictWorth
<1>b. wpc[w] # "idle" => t \in Subs
  BY SubOfType DEF JobOK
<1> USE DEF WGoto, WIdle, wkVars, dbVars, gwVars
\* The rules of bookkeeping: a step that moves w along, and one that takes or ends a job.
<1>1. ASSUME NEW l, wpc' = [wpc EXCEPT ![w] = l], UNCHANGED <<job, gw>>,
             credit'[s] \in Int,
             credit'[s] - credit[s] + (IF mine THEN Due(l) - Due(wpc[w]) ELSE 0)
               = VerdictWorth(s)' - VerdictWorth(s)
      PROVE  Excess(s)' = Excess(s)
  <2>1. Owed(s)' = Owed(s) + (IF mine THEN Due(l) - Due(wpc[w]) ELSE 0)
    BY <1>a, <1>1, OwedByWorker
  <2>2. Due(l) \in Int /\ Due(wpc[w]) \in Int
    BY DEF Due
  <2> QED
    BY <1>a, <1>1, <2>1, <2>2 DEF Excess
<1>2. ASSUME NEW l, NEW j, wpc' = [wpc EXCEPT ![w] = l], job' = [job EXCEPT ![w] = j],
             l \notin {"inc", "dec", "undo"}, wpc[w] \notin {"inc", "dec", "undo"},
             UNCHANGED gw, UNCHANGED credit, UNCHANGED status
      PROVE  Excess(s)' = Excess(s)
  <2>1. Owed(s)' = Owed(s)
    BY <1>a, <1>2, OwedNothing
  <2> QED
    BY <1>a, <1>2, <2>1 DEF Excess, VerdictWorth
<1>3. CASE \E h \in Handlers : Deliver(w, h)
  BY <1>3, <1>2 DEF Deliver
<1>4. CASE Ack(w) \/ AckUnheard(w) \/ Nack(w)
  BY <1>4, <1>2 DEF Ack, AckUnheard, Nack
<1>5. CASE Load(w) \/ JudgeRaises(w) \/ AckRaises(w)
  <2>1. PICK l : l \in {"judge", "ack", "mark"} /\ wpc' = [wpc EXCEPT ![w] = l]
    BY <1>5 DEF Load, JudgeRaises, AckRaises
  <2>2. UNCHANGED <<job, gw>> /\ credit' = credit /\ status' = status
        /\ wpc[w] \in {"load", "judge", "ack"}
    BY <1>5 DEF Load, JudgeRaises, AckRaises
  <2>3. Due(l) = 0 /\ Due(wpc[w]) = 0 /\ VerdictWorth(s)' = VerdictWorth(s)
    BY <2>1, <2>2 DEF Due, VerdictWorth
  <2>4. credit'[s] - credit[s] + (IF mine THEN Due(l) - Due(wpc[w]) ELSE 0)
          = VerdictWorth(s)' - VerdictWorth(s)
    BY <1>a, <2>2, <2>3
  <2> QED
    BY <1>a, <1>1, <2>1, <2>2, <2>4
<1>6. CASE UndoGone(w)
  <2>1. /\ wpc[w] = "undo" /\ wpc' = [wpc EXCEPT ![w] = "nack"] /\ UNCHANGED <<job, gw>>
        /\ credit' = credit /\ status' = status /\ ~RowExists(t)
    BY <1>6 DEF UndoGone
  <2>2. ~mine
    BY <2>1 DEF UndoneWasThere, RowExists
  <2>3. credit'[s] - credit[s] + (IF mine THEN Due("nack") - Due(wpc[w]) ELSE 0)
          = VerdictWorth(s)' - VerdictWorth(s)
    BY <1>a, <2>1, <2>2 DEF VerdictWorth
  <2> QED
    BY <1>a, <1>1, <2>1, <2>3
<1>7. CASE SaveVerdict(w)
  <2>0. t \in Subs /\ wpc[w] = "judge" /\ UNCHANGED <<job, gw>> /\ credit' = credit
    BY <1>7, <1>b DEF SaveVerdict
  <2>1. CASE RowExists(t)
    <3>1. PICK v \in Verdicts :
            /\ status' = [status EXCEPT ![t] = v]
            /\ wpc' = [wpc EXCEPT ![w] =
                  CASE v = "AC" /\ status[t] # "AC" -> "inc"
                    [] v # "AC" /\ status[t] = "AC" -> "dec"
                    [] OTHER -> "ack"]
      BY <1>7, <2>1 DEF SaveVerdict
    <3>2. status'[s] = IF t = s THEN v ELSE status[s]
      BY <1>a, <2>0, <3>1 DEF TypeOK
    <3>4. CASE v = "AC" /\ status[t] # "AC"
      <4>1. wpc' = [wpc EXCEPT ![w] = "inc"]
        BY <3>1, <3>4
      <4>2. credit'[s] - credit[s] + (IF mine THEN Due("inc") - Due(wpc[w]) ELSE 0)
              = VerdictWorth(s)' - VerdictWorth(s)
        BY <1>a, <2>0, <3>2, <3>4 DEF VerdictWorth, Due
      <4> QED
        BY <1>a, <1>1, <2>0, <4>1, <4>2
    <3>5. CASE v # "AC" /\ status[t] = "AC"
      <4>1. wpc' = [wpc EXCEPT ![w] = "dec"]
        BY <3>1, <3>5
      <4>2. credit'[s] - credit[s] + (IF mine THEN Due("dec") - Due(wpc[w]) ELSE 0)
              = VerdictWorth(s)' - VerdictWorth(s)
        BY <1>a, <2>0, <3>2, <3>5 DEF VerdictWorth, Due
      <4> QED
        BY <1>a, <1>1, <2>0, <4>1, <4>2
    <3>6. CASE (v = "AC") <=> (status[t] = "AC")
      <4>1. wpc' = [wpc EXCEPT ![w] = "ack"]
        BY <3>1, <3>6
      <4>2. credit'[s] - credit[s] + (IF mine THEN Due("ack") - Due(wpc[w]) ELSE 0)
              = VerdictWorth(s)' - VerdictWorth(s)
        BY <1>a, <2>0, <3>2, <3>6 DEF VerdictWorth, Due
      <4> QED
        BY <1>a, <1>1, <2>0, <4>1, <4>2
    <3> QED
      BY <3>4, <3>5, <3>6
  <2>2. CASE ~RowExists(t)
    <3>1. status' = status /\ wpc' = [wpc EXCEPT ![w] = "ack"]
      BY <1>7, <2>2 DEF SaveVerdict
    <3>2. credit'[s] - credit[s] + (IF mine THEN Due("ack") - Due(wpc[w]) ELSE 0)
            = VerdictWorth(s)' - VerdictWorth(s)
      BY <1>a, <2>0, <3>1 DEF VerdictWorth, Due
    <3> QED
      BY <1>a, <1>1, <2>0, <3>1, <3>2
  <2> QED
    BY <2>1, <2>2
<1>8. ASSUME NEW d \in {1, -1}, NEW l, d = Due(wpc[w]), Due(l) = 0, wpc[w] # "idle",
             Adjust(w, d, l), UNCHANGED gw
      PROVE  Excess(s)' = Excess(s)
  <2>1. /\ wpc' = [wpc EXCEPT ![w] = l] /\ UNCHANGED <<job, gw>> /\ status' = status
        /\ credit' = [credit EXCEPT ![SubOf(job[w])] = @ + d]
    BY <1>8, FaultType DEF Adjust
  <2>2. credit'[s] = credit[s] + (IF mine THEN d ELSE 0)
    BY <1>a, <1>b, <1>8, <2>1 DEF TypeOK
  <2>3. credit'[s] - credit[s] + (IF mine THEN Due(l) - Due(wpc[w]) ELSE 0)
          = VerdictWorth(s)' - VerdictWorth(s)
    BY <1>a, <1>8, <2>1, <2>2 DEF VerdictWorth
  <2>4. credit'[s] \in Int
    BY <1>a, <2>2
  <2> QED
    BY <1>a, <1>1, <2>1, <2>3, <2>4
<1>9. CASE IncrementAc(w) \/ DecrementAc(w) \/ UndoAc(w)
  BY <1>8, <1>9 DEF IncrementAc, DecrementAc, UndoAc, Due, Adjust
<1>10. CASE MarkError(w)
  <2>0. t \in Subs /\ wpc[w] = "mark" /\ UNCHANGED <<job, gw>> /\ credit' = credit
    BY <1>10, <1>b DEF MarkError
  <2>1. CASE RowExists(t)
    <3>1. /\ status' = [status EXCEPT ![t] = "RE"]
          /\ wpc' = [wpc EXCEPT ![w] = IF status[t] = "AC" THEN "undo" ELSE "nack"]
      BY <1>10, <2>1 DEF MarkError
    <3>2. status'[s] = IF t = s THEN "RE" ELSE status[s]
      BY <1>a, <2>0, <3>1 DEF TypeOK
    <3>3. CASE status[t] = "AC"
      <4>1. wpc' = [wpc EXCEPT ![w] = "undo"]
        BY <3>1, <3>3
      <4>2. credit'[s] - credit[s] + (IF mine THEN Due("undo") - Due(wpc[w]) ELSE 0)
              = VerdictWorth(s)' - VerdictWorth(s)
        BY <1>a, <2>0, <3>2, <3>3 DEF VerdictWorth, Due
      <4> QED
        BY <1>a, <1>1, <2>0, <4>1, <4>2
    <3>4. CASE status[t] # "AC"
      <4>1. wpc' = [wpc EXCEPT ![w] = "nack"]
        BY <3>1, <3>4
      <4>2. credit'[s] - credit[s] + (IF mine THEN Due("nack") - Due(wpc[w]) ELSE 0)
              = VerdictWorth(s)' - VerdictWorth(s)
        BY <1>a, <2>0, <3>2, <3>4 DEF VerdictWorth, Due
      <4> QED
        BY <1>a, <1>1, <2>0, <4>1, <4>2
    <3> QED
      BY <3>3, <3>4
  <2>2. CASE ~RowExists(t)
    <3>1. status' = status /\ wpc' = [wpc EXCEPT ![w] = "nack"]
      BY <1>10, <2>2 DEF MarkError
    <3>2. credit'[s] - credit[s] + (IF mine THEN Due("nack") - Due(wpc[w]) ELSE 0)
            = VerdictWorth(s)' - VerdictWorth(s)
      BY <1>a, <2>0, <3>1 DEF VerdictWorth, Due
    <3> QED
      BY <1>a, <1>1, <2>0, <3>1, <3>2
  <2> QED
    BY <2>1, <2>2
<1>11. CASE ConnDrop(w)
  BY <1>a, <1>11 DEF ConnDrop, Excess, VerdictWorth, Owed, Adding, Deducting, RollingBack, SubOf
<1>12. CASE WorkerCrash(w) \/ MarkFails(w)
  BY <1>12, FaultType DEF WorkerCrash, MarkFails
<1> QED
  BY <1>3, <1>4, <1>5, <1>6, <1>7, <1>9, <1>10, <1>11, <1>12 DEF WorkerStep

\* A request that has not yet published has never done so.
LEMMA NotYetStep ==
    ASSUME TypeOK, [Next]_vars, NEW s \in Subs, NotYet(s)'
    PROVE  NotYet(s)
<1> USE DEF TypeOK, NotYet, GwGoto, Handlers
<1>1. CASE UNCHANGED gw
  BY <1>1
<1>2. ASSUME NEW t \in Subs, SubmitStep(t)
      PROVE  NotYet(s)
  BY <1>2 DEF SubmitStep, SubmitInsert, SubmitMarkRE
<1>3. ASSUME NEW r \in Rejudges, RejudgeStep(r)
      PROVE  NotYet(s)
  <2>1. gw'[s] = gw[s]
    BY <1>3 DEF RejudgeStep, RejudgeRead, RejudgeFlip, RejudgeReset, RejudgeUndo
  <2> QED
    BY <2>1
<1>4. ASSUME NEW h \in Handlers,
             Reject(h) \/ Send(h) \/ SendLost(h) \/ SendThrows(h) \/ HandlerDies(h)
      PROVE  NotYet(s)
  BY <1>4 DEF Reject, Send, SendLost, SendThrows, HandlerDies
<1>5. ASSUME NEW w \in Workers, WorkerStep(w) \/ ConnDrop(w) \/ WorkerCrash(w)
      PROVE  NotYet(s)
  BY <1>1, <1>5, GatewayRests DEF gwVars
<1>6. CASE (\E t \in Subs : DeleteProblem(t)) \/ UNCHANGED vars
  BY <1>1, <1>6 DEF DeleteProblem, gwVars, vars
<1> QED
  BY <1>2, <1>3, <1>4, <1>5, <1>6 DEF Next

\* Until its request has published, only a rejudge brings a submission to a worker.
LEMMA FreshStep ==
    ASSUME TypeOK, JobOK, NewIsNone, [Next]_vars, NEW s \in Subs,
           NotYet(s)', Fresh(s),
           ~ \E r \in Rejudges : RejudgeReset(r) /\ Target[r] = s
    PROVE  Fresh(s)'
<1> USE DEF TypeOK, JobOK, NewIsNone, NotYet, Fresh, GwGoto, Handlers, SubOf
<1>1. CASE \E t \in Subs : SubmitInsert(t)
  BY <1>1 DEF SubmitInsert, wkVars
<1>2. CASE \E t \in Subs : SubmitMarkRE(t)
  BY <1>2 DEF SubmitMarkRE, wkVars, RowExists
<1>3. CASE \E t \in Subs : DeleteProblem(t)
  BY <1>3 DEF DeleteProblem, gwVars, wkVars, RowExists
<1>4. CASE \E r \in Rejudges : RejudgeRead(r)
  BY <1>4 DEF RejudgeRead, dbVars, wkVars
<1>5. CASE \E r \in Rejudges : RejudgeFlip(r)
  BY <1>5 DEF RejudgeFlip, ResetRow, dbVars, wkVars
<1>6. ASSUME NEW r \in Rejudges, RejudgeReset(r)
      PROVE  Fresh(s)'
  <2>1. Target[r] # s
    BY <1>6
  <2>2. /\ gw' = [gw EXCEPT ![r] = "send"] /\ UNCHANGED <<msg, saw, wpc, job>>
        /\ status' = status \/ status' = [status EXCEPT ![Target[r]] = "PENDING"]
    BY <1>6 DEF RejudgeReset, ResetRow, dbVars, wkVars
  <2>3. status'[s] = status[s]
    BY <2>1, <2>2
  <2> QED
    BY <2>1, <2>2, <2>3
<1>7. CASE \E r \in Rejudges : RejudgeUndo(r)
  BY <1>7 DEF RejudgeUndo, dbVars, wkVars
<1>8. CASE \E h \in Handlers :
              Reject(h) \/ Send(h) \/ SendLost(h) \/ SendThrows(h) \/ HandlerDies(h)
  BY <1>8 DEF Reject, Send, SendLost, SendThrows, HandlerDies, dbVars, wkVars
<1>9. ASSUME NEW w \in Workers, WorkerStep(w) \/ ConnDrop(w) \/ WorkerCrash(w)
      PROVE  Fresh(s)'
  <2>1. UNCHANGED <<gw, saw>> /\ (wpc[w] # "idle" => SubOf(job[w]) # s)
    BY <1>9, GatewayRests DEF gwVars
  <2>2. status'[s] = status[s]
    BY <1>9, <2>1, RowsByWorker DEF dbVars
  <2>3. ASSUME NEW h \in Handlers, SubOf(h) = s PROVE msg'[h] = "none" /\ ~Deliver(w, h)
    <3>1. msg[h] = "none" /\ (wpc[w] # "idle" => job[w] # h)
      BY <2>1, <2>3
    <3> QED
      BY <1>9, <3>1, WorkerMoves DEF Deliver, ConnectedBusy
  <2>4. ASSUME NEW v \in Workers, wpc'[v] # "idle" PROVE SubOf(job'[v]) # s
    BY <1>9, <2>1, <2>3, <2>4, WorkerMoves DEF Deliver, WGoto, WIdle
  <2> QED
    BY <2>1, <2>2, <2>3, <2>4
<1>10. CASE UNCHANGED vars
  BY <1>10 DEF vars
<1> QED
  BY <1>1, <1>2, <1>3, <1>4, <1>5, <1>6, <1>7, <1>8, <1>9, <1>10
  DEF Next, SubmitStep, RejudgeStep

\* A row that was there is not forgotten: it is at most marked as deleted.
LEMMA UndoneStep ==
    ASSUME TypeOK, JobOK, NewIsNone, UndoneWasThere, [Next]_vars
    PROVE  UndoneWasThere'
<1> USE DEF TypeOK, JobOK, UndoneWasThere, NewIsNone
<1>1. \A s \in Subs : status[s] # "none" => status'[s] # "none"
  <2>1. CASE UNCHANGED status
    BY <2>1
  <2>2. ASSUME NEW t \in Subs, SubmitStep(t) \/ DeleteProblem(t)
        PROVE  \A s \in Subs : status[s] # "none" => status'[s] # "none"
    BY <2>2 DEF SubmitStep, SubmitInsert, SubmitMarkRE, DeleteProblem
  <2>3. ASSUME NEW r \in Rejudges, RejudgeStep(r)
        PROVE  \A s \in Subs : status[s] # "none" => status'[s] # "none"
    BY <2>3, RowsByRejudge DEF ResetRow, dbVars
  <2>4. ASSUME NEW h \in Handlers,
               Reject(h) \/ Send(h) \/ SendLost(h) \/ SendThrows(h) \/ HandlerDies(h)
        PROVE  UNCHANGED status
    BY <2>4 DEF Reject, Send, SendLost, SendThrows, HandlerDies, dbVars
  <2>5. ASSUME NEW w \in Workers, WorkerStep(w) \/ ConnDrop(w) \/ WorkerCrash(w)
        PROVE  \A s \in Subs : status[s] # "none" => status'[s] # "none"
    BY <2>5, RowsByWorker DEF dbVars
  <2>6. CASE UNCHANGED vars
    BY <2>1, <2>6 DEF vars
  <2> QED
    BY <2>1, <2>2, <2>3, <2>4, <2>5, <2>6 DEF Next
<1>2. CASE UNCHANGED <<wpc, job>>
  BY <1>1, <1>2, SubOfType DEF SubOf
<1>3. ASSUME NEW w \in Workers, NEW l, NEW j, wpc' = [wpc EXCEPT ![w] = l],
             job' = [job EXCEPT ![w] = j], l # "undo"
      PROVE  UndoneWasThere'
  <2> SUFFICES ASSUME NEW v \in Workers, wpc'[v] = "undo"
               PROVE  status'[SubOf(job'[v])] # "none"
    BY DEF SubOf
  <2>1. v # w
    BY <1>3
  <2>2. wpc[v] = "undo" /\ job'[v] = job[v] /\ SubOf(job[v]) \in Subs
    BY <1>3, <2>1, SubOfType
  <2> QED
    BY <1>1, <2>2
<1>4. ASSUME NEW w \in Workers, MarkError(w)
      PROVE  UndoneWasThere'
  <2> SUFFICES ASSUME NEW v \in Workers, wpc'[v] = "undo"
               PROVE  status'[SubOf(job'[v])] # "none"
    BY DEF SubOf
  <2>1. /\ job' = job /\ wpc[w] = "mark"
        /\ wpc' = [wpc EXCEPT ![w] = wpc'[w]]
        /\ wpc'[w] = "undo" => RowExists(SubOf(job[w]))
    BY <1>4 DEF MarkError, WGoto
  <2>2. SubOf(job[v]) \in Subs
    <3>1. wpc[v] # "idle"
      BY <2>1
    <3> QED
      BY <3>1, SubOfType
  <2>3. status[SubOf(job[v])] # "none"
    BY <2>1 DEF RowExists
  <2> QED
    BY <1>1, <2>1, <2>2, <2>3
<1>5. ASSUME NEW w \in Workers, WorkerStep(w) \/ ConnDrop(w) \/ WorkerCrash(w)
      PROVE  UndoneWasThere'
  <2>1. CASE SaveVerdict(w)
    <3>1. \E l : l # "undo" /\ wpc' = [wpc EXCEPT ![w] = l] /\ job' = [job EXCEPT ![w] = job[w]]
      BY <2>1 DEF SaveVerdict, WGoto
    <3> QED
      BY <1>3, <3>1
  <2>2. CASE MarkError(w)
    BY <1>4, <2>2
  <2>3. CASE ConnDrop(w)
    BY <1>2, <2>3 DEF ConnDrop
  <2>4. CASE ~SaveVerdict(w) /\ ~MarkError(w) /\ ~ConnDrop(w)
    <3>1. \E l, j : l # "undo" /\ wpc' = [wpc EXCEPT ![w] = l] /\ job' = [job EXCEPT ![w] = j]
      <4>1. job = [job EXCEPT ![w] = job[w]]
        OBVIOUS
      <4> QED
        BY <1>5, <2>4, <4>1 DEF WorkerStep, Deliver, Load, JudgeRaises, IncrementAc, DecrementAc,
           UndoAc, UndoGone, Adjust, Ack, AckRaises, AckUnheard, MarkFails, Nack, WorkerCrash,
           WGoto, WIdle
    <3> QED
      BY <1>3, <3>1
  <2> QED
    BY <2>1, <2>2, <2>3, <2>4
<1>6. CASE UNCHANGED vars
  BY <1>2, <1>6 DEF vars
<1> QED
  BY <1>2, <1>5, <1>6 DEF Next, SubmitStep, DeleteProblem, RejudgeStep, SubmitInsert,
     SubmitMarkRE, RejudgeRead, RejudgeFlip, RejudgeReset, RejudgeUndo, Reject, Send,
     SendLost, SendThrows, HandlerDies, wkVars

\* A paid step keeps the bound; one that ends a fresh submission leaves the point in hand.
LEMMA BoundByPaid ==
    ASSUME TypeOK, JobOK, NewIsNone, [Next]_vars, NEW s \in Subs, InBound(s), Paid(s),
           credit'[s] \in Int
    PROVE  InBound(s)'
<1>1. /\ Excess(s) \in Int /\ Excess(s)' \in Int
      /\ Cardinality(Unpaid(s)) \in Nat /\ Cardinality(Unpaid(s)') \in Nat
  <2>1. /\ Adding(s)' \subseteq Workers /\ Deducting(s)' \subseteq Workers
        /\ RollingBack(s)' \subseteq Rejudges
    BY DEF Adding, Deducting, RollingBack
  <2>2. /\ IsFiniteSet(Adding(s)') /\ IsFiniteSet(Deducting(s)')
        /\ IsFiniteSet(RollingBack(s)')
    BY <2>1, FS_Subset
  <2>3. Owed(s) \in Int /\ Owed(s)' \in Int
    BY <2>2, FS_CardinalityType, FiniteParts DEF Owed
  <2> QED
    BY <2>3, UnpaidGrow DEF Excess, VerdictWorth, TypeOK
<1>2. Excess(s)' <= Cardinality(Unpaid(s)')
  BY <1>1 DEF InBound, Paid
<1>3. ASSUME NotYet(s)', ~Fresh(s)'
      PROVE  Excess(s)' + 1 <= Cardinality(Unpaid(s)')
  <2>1. NotYet(s)
    BY <1>3, NotYetStep
  <2>2. CASE Excess(s) + 1 <= Cardinality(Unpaid(s))
    BY <1>1, <2>2 DEF Paid
  <2>3. CASE Fresh(s)
    <3>1. PICK r \in Rejudges : RejudgeReset(r) /\ Target[r] = s
      BY <1>3, <2>3, FreshStep
    <3>2. /\ ~saw[r] /\ saw' = saw /\ gw[r] = "update" /\ gw'[r] = "send"
          /\ status[s] # "AC" /\ status'[s] # "AC" /\ UNCHANGED <<wpc, job, credit>>
          /\ gw' = [gw EXCEPT ![r] = "send"] /\ r \in Handlers
      BY <2>3, <3>1 DEF RejudgeReset, ResetRow, Fresh, TypeOK, GwGoto, Handlers, dbVars, wkVars
    <3>3. Cardinality(Unpaid(s)) + 1 <= Cardinality(Unpaid(s)')
      <4>1. r \notin Unpaid(s) /\ r \in Unpaid(s)'
        BY <3>1, <3>2 DEF Unpaid
      <4> QED
        BY <4>1, UnpaidGain
    <3>4. Excess(s)' = Excess(s)
      <4>1. RollingBack(s)' = RollingBack(s)
        BY <3>2 DEF RollingBack, TypeOK, Handlers
      <4>2. Adding(s)' = Adding(s) /\ Deducting(s)' = Deducting(s)
        BY <3>2 DEF Adding, Deducting, SubOf
      <4>3. Owed(s)' = Owed(s)
        BY <4>1, <4>2 DEF Owed
      <4> QED
        BY <3>2, <4>3 DEF Excess, VerdictWorth
    <3> QED
      BY <1>1, <3>3, <3>4 DEF InBound
  <2> QED
    BY <2>1, <2>2, <2>3 DEF InBound
<1> QED
  BY <1>2, <1>3 DEF InBound

\* Every step keeps the bound of a submission that is not deleted.
LEMMA InBoundStep ==
    ASSUME TypeOK, JobOK, NewIsNone, UndoneWasThere, [Next]_vars, NEW s \in Subs,
           InBound(s), status'[s] # "deleted",
           faults'.kinds \cap {"redis", "crash", "db"} = {}
    PROVE  InBound(s)'
<1>a. /\ Owed(s) \in Int /\ credit[s] \in Int /\ credit'[s] \in Int
      /\ VerdictWorth(s) \in Int /\ VerdictWorth(s)' \in Int /\ Excess(s) \in Int
      /\ Cardinality(Unpaid(s)) \in Nat /\ Cardinality(Unpaid(s)') \in Nat
      /\ Cardinality(Unpaid(s)) <= Cardinality(Unpaid(s)')
  <2>1. TypeOK'
    BY TypeStep
  <2>2. Owed(s) \in Int
    BY FiniteParts
  <2>3. credit[s] \in Int /\ credit'[s] \in Int
    BY <2>1 DEF TypeOK
  <2> QED
    BY <2>2, <2>3, UnpaidGrow DEF VerdictWorth, Excess
<1>1. CASE Excess(s)' = Excess(s)
  <2>1. Paid(s)
    BY <1>a, <1>1 DEF Paid
  <2> QED
    BY <1>a, <2>1, BoundByPaid
<1>2. CASE \/ \E t \in Subs : SubmitInsert(t)
           \/ \E r \in Rejudges : RejudgeStep(r)
           \/ \E h \in Handlers :
                 Reject(h) \/ Send(h) \/ SendLost(h) \/ SendThrows(h) \/ HandlerDies(h)
  <2>1. "redis" \notin faults'.kinds
    OBVIOUS
  <2>2. Paid(s)
    BY <1>2, <2>1, PaidByGateway
  <2> QED
    BY <1>a, <2>2, BoundByPaid
<1>3. ASSUME NEW t \in Subs, SubmitMarkRE(t)
      PROVE  InBound(s)'
  <2>1. /\ gw[t] = "mark" /\ gw' = [gw EXCEPT ![t] = "done"] /\ UNCHANGED <<wpc, job>>
        /\ credit' = credit /\ t \in Handlers
        /\ status' = [status EXCEPT ![t] = IF RowExists(t) THEN "RE" ELSE @]
    BY <1>3 DEF SubmitMarkRE, GwGoto, Handlers, wkVars
  <2>2. Owed(s)' = Owed(s)
    <3>1. RollingBack(s)' = RollingBack(s)
      BY <2>1 DEF RollingBack, TypeOK, Handlers
    <3>2. Adding(s)' = Adding(s) /\ Deducting(s)' = Deducting(s)
      BY <2>1 DEF Adding, Deducting, SubOf
    <3> QED
      BY <3>1, <3>2 DEF Owed
  <2>3. CASE t # s \/ status[s] # "AC"
    <3>1. VerdictWorth(s)' = VerdictWorth(s)
      BY <2>1, <2>3 DEF VerdictWorth, TypeOK
    <3> QED
      BY <1>1, <2>1, <2>2, <3>1 DEF Excess
  <2>4. CASE t = s /\ status[s] = "AC"
    <3>1. Excess(s) + 1 <= Cardinality(Unpaid(s))
      BY <2>1, <2>4 DEF InBound, NotYet, Fresh
    <3>2. VerdictWorth(s)' = VerdictWorth(s) - 1
      BY <2>1, <2>4 DEF VerdictWorth, TypeOK, RowExists
    <3>3. ~NotYet(s)'
      BY <2>1, <2>4 DEF NotYet, TypeOK
    <3>4. Excess(s)' = Excess(s) + 1
      BY <1>a, <2>1, <2>2, <3>2 DEF Excess
    <3> QED
      BY <1>a, <3>1, <3>3, <3>4 DEF InBound
  <2> QED
    BY <2>3, <2>4
<1>4. ASSUME NEW t \in Subs, DeleteProblem(t)
      PROVE  InBound(s)'
  <2>1. status'[s] = status[s] /\ UNCHANGED <<wpc, job, gw, credit>>
    BY <1>4 DEF DeleteProblem, TypeOK, gwVars, wkVars
  <2> QED
    BY <1>1, <2>1 DEF Excess, VerdictWorth, Owed, Adding, Deducting, RollingBack, SubOf
<1>5. ASSUME NEW w \in Workers, WorkerStep(w) \/ ConnDrop(w) \/ WorkerCrash(w)
      PROVE  InBound(s)'
  BY <1>1, <1>5, ExcessByWorker
<1>6. CASE UNCHANGED vars
  BY <1>1, <1>6 DEF vars, Excess, VerdictWorth, Owed, Adding, Deducting, RollingBack, SubOf
<1> QED
  BY <1>2, <1>3, <1>4, <1>5, <1>6 DEF Next, SubmitStep

\* A deleted submission stays deleted.
LEMMA DeletedStep ==
    ASSUME TypeOK, NewIsNone, [Next]_vars, NEW s \in Subs, status[s] = "deleted"
    PROVE  status'[s] = "deleted"
<1> USE DEF TypeOK, NewIsNone, RowExists
<1>1. CASE UNCHANGED status
  BY <1>1
<1>2. ASSUME NEW t \in Subs, SubmitStep(t) \/ DeleteProblem(t)
      PROVE  status'[s] = "deleted"
  BY <1>2 DEF SubmitStep, SubmitInsert, SubmitMarkRE, DeleteProblem
<1>3. ASSUME NEW r \in Rejudges, RejudgeStep(r)
      PROVE  status'[s] = "deleted"
  BY <1>3, RowsByRejudge DEF ResetRow, dbVars
<1>4. ASSUME NEW h \in Handlers,
             Reject(h) \/ Send(h) \/ SendLost(h) \/ SendThrows(h) \/ HandlerDies(h)
      PROVE  UNCHANGED status
  BY <1>4 DEF Reject, Send, SendLost, SendThrows, HandlerDies, dbVars
<1>5. ASSUME NEW w \in Workers, WorkerStep(w) \/ ConnDrop(w) \/ WorkerCrash(w)
      PROVE  status'[s] = "deleted"
  BY <1>5, RowsByWorker DEF dbVars
<1>6. CASE UNCHANGED vars
  BY <1>1, <1>6 DEF vars
<1> QED
  BY <1>1, <1>2, <1>3, <1>4, <1>5, <1>6 DEF Next

\* The inductive invariant holds initially: nothing is counted or owed, and nobody has a
\* submission that is not there.
LEMMA OverInit == Init => OverInv
<1> SUFFICES ASSUME Init PROVE OverInv
  OBVIOUS
<1>1. TypeOK /\ JobOK /\ AcIsCounted /\ NewIsNone
  BY InitType DEF Init, JobOK, AcIsCounted, NewIsNone
<1>2. UndoneWasThere
  BY DEF Init, UndoneWasThere
<1>3. ASSUME NEW s \in Subs
      PROVE  InBound(s)
  <2>1. Adding(s) = {} /\ Deducting(s) = {} /\ RollingBack(s) = {} /\ Unpaid(s) = {}
    BY DEF Init, Adding, Deducting, RollingBack, Unpaid, Handlers
  <2>2. Excess(s) = 0 /\ Cardinality(Unpaid(s)) = 0
    BY <2>1, FS_EmptySet DEF Init, Owed, Excess, VerdictWorth
  <2>3. Fresh(s)
    BY DEF Init, Fresh, Handlers
  <2> QED
    BY <2>2, <2>3 DEF InBound
<1> QED
  BY <1>1, <1>2, <1>3 DEF OverInv

\* Every step keeps it.
LEMMA OverStep ==
    ASSUME OverInv, [Next]_vars
    PROVE  OverInv'
<1>1. TypeOK' /\ JobOK' /\ AcIsCounted' /\ NewIsNone' /\ UndoneWasThere'
  BY TypeStep, JobStep, AcIsCountedStep, NewStep, UndoneStep DEF OverInv
<1>2. CASE faults'.kinds \cap {"redis", "crash", "db"} # {}
  BY <1>1, <1>2 DEF OverInv
<1>3. CASE faults'.kinds \cap {"redis", "crash", "db"} = {}
  <2>1. faults.kinds \cap {"redis", "crash", "db"} = {}
    BY <1>3, FaultsGrow DEF OverInv
  <2>2. ASSUME NEW s \in Subs, status'[s] # "deleted"
        PROVE  InBound(s)'
    <3>1. status[s] # "deleted"
      BY <2>2, DeletedStep DEF OverInv
    <3>2. InBound(s)
      BY <2>1, <3>1 DEF OverInv
    <3> QED
      BY <1>3, <2>2, <3>2, InBoundStep DEF OverInv
  <2> QED
    BY <1>1, <2>2 DEF OverInv
<1> QED
  BY <1>2, <1>3

\* While Redis, the workers and the error paths do not fail, no redelivery, no error path, no
\* lost publish and no dead handler counts a submission twice: what a row is worth too much
\* is at most one point for each rejudge that may have left one (worker.py, repository.py,
\* judge.ts, admin.ts).
THEOREM NeverCountsTwice == Spec => []NeverOverCounted
<1>1. OverInv => NeverOverCounted
  <2> SUFFICES ASSUME OverInv, faults.kinds \cap {"redis", "crash", "db"} = {},
                      NEW s \in Subs, status[s] # "deleted"
               PROVE  credit[s] + Owed(s) <= Counted(s) + Cardinality(Unpaid(s))
    BY DEF NeverOverCounted
  <2>1. Excess(s) <= Cardinality(Unpaid(s)) /\ VerdictWorth(s) <= Counted(s)
    BY DEF OverInv, InBound, AcIsCounted, VerdictWorth, Counted
  <2>2. Owed(s) \in Int /\ credit[s] \in Int /\ Cardinality(Unpaid(s)) \in Nat
    <3>1. Unpaid(s) \subseteq Rejudges
      BY DEF Unpaid
    <3>2. IsFiniteSet(Unpaid(s))
      BY <3>1, FS_Subset
    <3> QED
      BY <3>2, FS_CardinalityType, FiniteParts DEF OverInv, TypeOK
  <2>3. VerdictWorth(s) \in Int /\ Counted(s) \in Int
    BY DEF VerdictWorth, Counted
  <2> QED
    BY <2>1, <2>2, <2>3 DEF Excess
<1> QED
  BY OverInit, OverStep, <1>1, PTL DEF Spec

-----------------------------------------------------------------------------
(* The pipeline keeps the ledger *)

\* What the theorems of this section assume: administrators rejudge only what they read as
\* AC and counted, and of the faults only connections and publishes fail.  A crash, a failed
\* ZINCRBY, a dead handler or a failed error path loses a booking.
ExactSetting == RejudgeOnlyCounted /\ Faults \subseteq {"conn", "publish"}

\* Only the submit request that inserts a row knows it.
Private(s) == status[s] = "none" \/ gw[s] \in {"send", "mark"}

Untouched(s) ==
    /\ status[s] # "AC"
    /\ \A r \in Rejudges : Target[r] = s => gw[r] \in {"new", "done"}
    /\ \A h \in Handlers : SubOf(h) = s => msg[h] = "none"
    /\ \A w \in Workers : wpc[w] # "idle" => SubOf(job[w]) # s

PrivateOK ==
    \A s \in Subs :
        /\ Private(s) => Untouched(s)
        /\ status[s] = "none" => gw[s] \in {"new", "done"}

SawOK == \A r \in Rejudges : gw[r] = "update" => saw[r]

\* The invariant under which every step is one of the ledger: a row is written by nobody
\* but its request until it is published, and every reset of a counted row is conditional.
ExactInv ==
    /\ TypeOK /\ JobOK
    /\ NewIsNone /\ FlagIsVerdict /\ PrivateOK /\ SawOK

\* A rejudge goes on to its UPDATE only with a row it read as counted.
LEMMA SawStep ==
    ASSUME ExactSetting, TypeOK, SawOK, [Next]_vars
    PROVE  SawOK'
<1> USE DEF TypeOK, SawOK, GwGoto, Handlers
<1>1. CASE UNCHANGED gwVars
  BY <1>1 DEF gwVars
<1>2. ASSUME NEW h \in Handlers, NEW l, l # "update", gw' = [gw EXCEPT ![h] = l],
             UNCHANGED saw
      PROVE  SawOK'
  BY <1>2
<1>3. ASSUME NEW s \in Subs, SubmitStep(s) \/ DeleteProblem(s)
      PROVE  SawOK'
  BY <1>1, <1>2, <1>3 DEF SubmitStep, SubmitInsert, SubmitMarkRE, DeleteProblem
<1>4. ASSUME NEW r \in Rejudges, RejudgeRead(r)
      PROVE  SawOK'
  <2>1. /\ gw' = [gw EXCEPT ![r] = "update"]
        /\ saw' = [saw EXCEPT ![r] = TRUE]
    BY <1>4 DEF RejudgeRead, ExactSetting
  <2> QED
    BY <2>1
<1>5. ASSUME NEW r \in Rejudges, RejudgeFlip(r) \/ RejudgeReset(r) \/ RejudgeUndo(r)
      PROVE  SawOK'
  <2>1. UNCHANGED saw /\ \E l \in {"undo", "send"} : gw' = [gw EXCEPT ![r] = l]
    BY <1>5 DEF RejudgeFlip, RejudgeReset, RejudgeUndo
  <2> QED
    BY <1>2, <2>1
<1>6. ASSUME NEW h \in Handlers,
             Reject(h) \/ Send(h) \/ SendLost(h) \/ SendThrows(h) \/ HandlerDies(h)
      PROVE  SawOK'
  <2>1. UNCHANGED saw /\ \E l \in {"done", "mark"} : gw' = [gw EXCEPT ![h] = l]
    BY <1>6 DEF Reject, Send, SendLost, SendThrows, HandlerDies
  <2> QED
    BY <1>2, <2>1
<1>7. ASSUME NEW w \in Workers, WorkerStep(w) \/ ConnDrop(w) \/ WorkerCrash(w)
      PROVE  SawOK'
  BY <1>1, <1>7, GatewayRests
<1>8. CASE UNCHANGED vars
  BY <1>1, <1>8 DEF vars, gwVars
<1> QED
  BY <1>3, <1>4, <1>5, <1>6, <1>7, <1>8 DEF Next, RejudgeStep

\* Until a row is published nobody else writes it, and nobody judges it.
LEMMA PrivateStep ==
    ASSUME ExactSetting, TypeOK, JobOK, NewIsNone, PrivateOK, [Next]_vars
    PROVE  PrivateOK'
<1> USE DEF TypeOK, JobOK, NewIsNone, PrivateOK, Private, Untouched, GwGoto, Handlers, SubOf
<1>1. CASE \E s \in Subs : SubmitInsert(s)
  BY <1>1 DEF SubmitInsert, wkVars
<1>2. CASE \E s \in Subs : SubmitMarkRE(s)
  BY <1>2 DEF SubmitMarkRE, wkVars, RowExists
<1>3. CASE \E s \in Subs : DeleteProblem(s)
  BY <1>3 DEF DeleteProblem, gwVars, wkVars, RowExists
<1>4. CASE \E r \in Rejudges : RejudgeRead(r)
  BY <1>4 DEF RejudgeRead, ExactSetting, dbVars, wkVars
<1>5. CASE \E r \in Rejudges : RejudgeFlip(r)
  BY <1>5 DEF RejudgeFlip, ResetRow, dbVars, wkVars
<1>6. CASE \E r \in Rejudges : RejudgeReset(r)
  BY <1>6 DEF RejudgeReset, ResetRow, RowExists, dbVars, wkVars
<1>7. CASE \E r \in Rejudges : RejudgeUndo(r)
  BY <1>7 DEF RejudgeUndo, dbVars, wkVars
<1>8. CASE \E h \in Handlers :
              Reject(h) \/ Send(h) \/ SendLost(h) \/ SendThrows(h) \/ HandlerDies(h)
  BY <1>8 DEF Reject, Send, SendLost, SendThrows, HandlerDies, dbVars, wkVars
<1>9. ASSUME NEW w \in Workers, WorkerStep(w) \/ ConnDrop(w) \/ WorkerCrash(w)
      PROVE  PrivateOK'
  <2> SUFFICES ASSUME NEW s \in Subs
               PROVE  /\ Private(s)' => Untouched(s)'
                      /\ status'[s] = "none" => gw'[s] \in {"new", "done"}
    BY DEF PrivateOK
  <2>1. UNCHANGED gw
    BY <1>9, GatewayRests DEF gwVars
  <2>2. \/ status'[s] = status[s]
        \/ wpc[w] # "idle" /\ SubOf(job[w]) = s /\ status'[s] # "none"
    BY <1>9, RowsByWorker DEF dbVars
  <2>3. ASSUME Private(s)' PROVE Untouched(s)'
    <3>1. Untouched(s) /\ (wpc[w] # "idle" => SubOf(job[w]) # s)
      BY <2>1, <2>2, <2>3
    <3>2. status'[s] = status[s]
      BY <2>2, <3>1
    <3>3. ASSUME NEW h \in Handlers, SubOf(h) = s PROVE msg'[h] = "none" /\ ~Deliver(w, h)
      <4>1. msg[h] = "none" /\ (wpc[w] # "idle" => job[w] # h)
        BY <3>1, <3>3
      <4> QED
        BY <1>9, <4>1, WorkerMoves DEF Deliver, ConnectedBusy
    <3>4. ASSUME NEW v \in Workers, wpc'[v] # "idle" PROVE SubOf(job'[v]) # s
      BY <1>9, <3>1, <3>3, <3>4, WorkerMoves DEF Deliver, WGoto, WIdle
    <3> QED
      BY <2>1, <3>1, <3>2, <3>3, <3>4
  <2> QED
    BY <2>1, <2>2, <2>3
<1>10. CASE UNCHANGED vars
  BY <1>10 DEF vars
<1> QED
  BY <1>1, <1>2, <1>3, <1>4, <1>5, <1>6, <1>7, <1>8, <1>9, <1>10
  DEF Next, SubmitStep, RejudgeStep

\* The invariant holds initially.
LEMMA ExactInit == Init => ExactInv
<1> SUFFICES ASSUME Init PROVE ExactInv
  OBVIOUS
<1>1. TypeOK
  BY InitType
<1>2. NewIsNone /\ FlagIsVerdict
  BY FlagInit DEF Init, NewIsNone, FlagIsVerdict
<1> QED
  BY <1>1, <1>2 DEF Init, ExactInv, JobOK, PrivateOK, Private, Untouched, SawOK, Handlers

\* Every step keeps the invariant.
LEMMA ExactStep ==
    ASSUME ExactSetting, ExactInv, [Next]_vars
    PROVE  ExactInv'
<1>1. TypeOK' /\ JobOK' /\ NewIsNone' /\ SawOK' /\ PrivateOK'
  BY TypeStep, JobStep, NewStep, SawStep, PrivateStep DEF ExactInv
<1>2. \A s \in Subs : gw[s] = "mark" => status[s] # "AC"
  BY DEF ExactInv, PrivateOK, Private, Untouched
<1>3. FlagIsVerdict'
  BY <1>2, FlagStep DEF ExactInv
<1> QED
  BY <1>1, <1>3 DEF ExactInv

\* The ledger's four quantities, for one submission.
RowOf(s) == CASE status[s] = "AC" -> "accepted"
              [] status[s] = "deleted" -> "gone"
              [] OTHER -> "open"
AddsOf(s) == Cardinality(Adding(s))
DeductsOf(s) == Cardinality(Deducting(s)) + Cardinality(RollingBack(s))

\* A step that concerns one submission, in the ledger's terms: its row becomes x, its points
\* change by p, and its bookings by a and d.
BooksMoved(s, x, p, a, d) ==
    \A t \in Subs :
        /\ RowOf(t)' = IF t = s THEN x ELSE RowOf(t)
        /\ credit'[t] = credit[t] + (IF t = s THEN p ELSE 0)
        /\ AddsOf(t)' = AddsOf(t) + (IF t = s THEN a ELSE 0)
        /\ DeductsOf(t)' = DeductsOf(t) + (IF t = s THEN d ELSE 0)

\* The types of the ledger.
LEMMA BooksType ==
    ASSUME NEW s \in Subs
    PROVE  /\ AddsOf(s) \in Nat /\ DeductsOf(s) \in Nat
           /\ AddsOf(s)' \in Nat /\ DeductsOf(s)' \in Nat
           /\ RowOf(s) \in {"open", "accepted", "gone"}
<1>1. /\ Cardinality(Adding(s)) \in Nat /\ Cardinality(Deducting(s)) \in Nat
      /\ Cardinality(RollingBack(s)) \in Nat
  BY FiniteParts
<1>2. /\ Cardinality(Adding(s))' \in Nat /\ Cardinality(Deducting(s))' \in Nat
      /\ Cardinality(RollingBack(s))' \in Nat
  <2>1. Adding(s)' \subseteq Workers /\ Deducting(s)' \subseteq Workers
        /\ RollingBack(s)' \subseteq Rejudges
    BY DEF Adding, Deducting, RollingBack
  <2> QED
    BY <2>1, FS_Subset, FS_CardinalityType
<1> QED
  BY <1>1, <1>2 DEF AddsOf, DeductsOf, RowOf

\* A step that changes none of the four quantities is a stutter of the ledger.
LEMMA LedgerStill ==
    ASSUME TypeOK, TypeOK',
           \A s \in Subs : /\ RowOf(s)' = RowOf(s) /\ credit'[s] = credit[s]
                           /\ AddsOf(s)' = AddsOf(s) /\ DeductsOf(s)' = DeductsOf(s)
    PROVE  UNCHANGED Ledger!ledger
<1>1. credit' = credit
  <2>1. credit' = [s \in Subs |-> credit'[s]] /\ credit = [s \in Subs |-> credit[s]]
    BY DEF TypeOK
  <2> QED
    BY <2>1
<1>2. /\ [s \in Subs |-> RowOf(s)]' = [s \in Subs |-> RowOf(s)]
      /\ [s \in Subs |-> AddsOf(s)]' = [s \in Subs |-> AddsOf(s)]
      /\ [s \in Subs |-> DeductsOf(s)]' = [s \in Subs |-> DeductsOf(s)]
  OBVIOUS
<1> QED
  BY <1>1, <1>2 DEF Ledger!ledger, RowOf, AddsOf, DeductsOf

\* The steps of the ledger, as moves of one submission.
LEMMA LedgerMoves ==
    ASSUME TypeOK, TypeOK', NEW s \in Subs, NEW x, x = RowOf(s)
    PROVE  /\ x = "open" /\ BooksMoved(s, "accepted", 0, 1, 0) => Ledger!Accept(s)
           /\ x = "accepted" /\ BooksMoved(s, "open", 0, 0, 1) => Ledger!Reopen(s)
           /\ BooksMoved(s, x, 1, -1, 0) => Ledger!Add(s)
           /\ BooksMoved(s, x, -1, 0, -1) => Ledger!Deduct(s)
           /\ x # "gone" /\ BooksMoved(s, "gone", 0, 0, 0) => Ledger!Delete(s)
           /\ x = "gone" /\ BooksMoved(s, x, 0, 0, -1) => Ledger!Drop(s)
<1> DEFINE rows == [t \in Subs |-> RowOf(t)]
           adds == [t \in Subs |-> AddsOf(t)]
           deducts == [t \in Subs |-> DeductsOf(t)]
           Step(y, p, a, d) ==
              /\ rows' = [rows EXCEPT ![s] = y] /\ credit' = [credit EXCEPT ![s] = @ + p]
              /\ adds' = [adds EXCEPT ![s] = @ + a] /\ deducts' = [deducts EXCEPT ![s] = @ + d]
<1>1. /\ \A t \in Subs : credit[t] \in Int /\ AddsOf(t) \in Nat /\ DeductsOf(t) \in Nat
      /\ AddsOf(s)' \in Nat /\ DeductsOf(s)' \in Nat
  BY BooksType DEF TypeOK
<1>2. /\ credit \in [Subs -> Int] /\ rows \in [Subs -> {"open", "accepted", "gone"}]
      /\ adds \in [Subs -> Nat] /\ deducts \in [Subs -> Nat] /\ rows[s] = x
      /\ adds'[s] \in Nat /\ deducts'[s] \in Nat
  BY <1>1, BooksType DEF TypeOK
<1>3. ASSUME NEW y, NEW p \in {0, 1, -1}, NEW a \in {0, 1, -1}, NEW d \in {0, 1, -1},
             BooksMoved(s, y, p, a, d)
      PROVE  Step(y, p, a, d)
  <2>1. credit' = [credit EXCEPT ![s] = @ + p]
    <3>1. credit' = [t \in Subs |-> credit'[t]] /\ credit = [t \in Subs |-> credit[t]]
      BY DEF TypeOK
    <3>2. \A t \in Subs : credit'[t] = IF t = s THEN credit[t] + p ELSE credit[t]
      BY <1>1, <1>3 DEF BooksMoved
    <3> QED
      BY <3>1, <3>2
  <2>2. \A t \in Subs : RowOf(t)' = IF t = s THEN y ELSE RowOf(t)
    BY <1>3 DEF BooksMoved
  <2>3. \A t \in Subs : AddsOf(t)' = IF t = s THEN AddsOf(t) + a ELSE AddsOf(t)
    BY <1>1, <1>3 DEF BooksMoved
  <2>4. \A t \in Subs : DeductsOf(t)' = IF t = s THEN DeductsOf(t) + d ELSE DeductsOf(t)
    BY <1>1, <1>3 DEF BooksMoved
  <2>5. rows' = [rows EXCEPT ![s] = y]
    BY <2>2
  <2>6. adds' = [adds EXCEPT ![s] = @ + a]
    BY <2>3
  <2>7. deducts' = [deducts EXCEPT ![s] = @ + d]
    BY <2>4
  <2> QED
    BY <2>1, <2>5, <2>6, <2>7
<1>4. /\ Ledger!Accept(s) <=> /\ rows[s] = "open" /\ rows' = [rows EXCEPT ![s] = "accepted"]
                              /\ adds' = [adds EXCEPT ![s] = @ + 1]
                              /\ UNCHANGED <<credit, deducts>>
      /\ Ledger!Reopen(s) <=> /\ rows[s] = "accepted" /\ rows' = [rows EXCEPT ![s] = "open"]
                              /\ deducts' = [deducts EXCEPT ![s] = @ + 1]
                              /\ UNCHANGED <<credit, adds>>
      /\ Ledger!Delete(s) <=> /\ rows[s] # "gone" /\ rows' = [rows EXCEPT ![s] = "gone"]
                              /\ UNCHANGED <<credit, adds, deducts>>
  BY DEF Ledger!Accept, Ledger!Reopen, Ledger!Delete, RowOf, AddsOf, DeductsOf
<1>5. /\ Ledger!Add(s) <=> /\ adds[s] > 0 /\ adds' = [adds EXCEPT ![s] = @ - 1]
                           /\ credit' = [credit EXCEPT ![s] = @ + 1]
                           /\ UNCHANGED <<rows, deducts>>
      /\ Ledger!Deduct(s) <=> /\ deducts[s] > 0 /\ deducts' = [deducts EXCEPT ![s] = @ - 1]
                              /\ credit' = [credit EXCEPT ![s] = @ - 1]
                              /\ UNCHANGED <<rows, adds>>
      /\ Ledger!Drop(s) <=> /\ rows[s] = "gone" /\ deducts[s] > 0
                            /\ deducts' = [deducts EXCEPT ![s] = @ - 1]
                            /\ UNCHANGED <<rows, credit, adds>>
  BY DEF Ledger!Add, Ledger!Deduct, Ledger!Drop, RowOf, AddsOf, DeductsOf
<1> HIDE DEF rows, adds, deducts
<1>6. x = "open" /\ BooksMoved(s, "accepted", 0, 1, 0) => Ledger!Accept(s)
  BY <1>2, <1>3, <1>4
<1>7. x = "accepted" /\ BooksMoved(s, "open", 0, 0, 1) => Ledger!Reopen(s)
  BY <1>2, <1>3, <1>4
<1>8. BooksMoved(s, x, 1, -1, 0) => Ledger!Add(s)
  BY <1>2, <1>3, <1>5
<1>9. BooksMoved(s, x, -1, 0, -1) => Ledger!Deduct(s)
  BY <1>2, <1>3, <1>5
<1>10. x # "gone" /\ BooksMoved(s, "gone", 0, 0, 0) => Ledger!Delete(s)
  BY <1>2, <1>3, <1>4
<1>11. x = "gone" /\ BooksMoved(s, x, 0, 0, -1) => Ledger!Drop(s)
  BY <1>2, <1>3, <1>5
<1> QED
  BY <1>6, <1>7, <1>8, <1>9, <1>10, <1>11

\* A worker that moves to label l, in the ledger's terms.
LEMMA MovedByWorker ==
    ASSUME TypeOK, NEW w \in Workers, NEW l, wpc' = [wpc EXCEPT ![w] = l],
           UNCHANGED <<job, gw>>, NEW s \in Subs, s = SubOf(job[w]),
           NEW x, NEW p \in Int, NEW a, NEW d,
           a = Plus(l) - Plus(wpc[w]), d = Minus(l) - Minus(wpc[w]),
           \A t \in Subs : /\ RowOf(t)' = IF t = s THEN x ELSE RowOf(t)
                           /\ credit'[t] = credit[t] + (IF t = s THEN p ELSE 0)
    PROVE  BooksMoved(s, x, p, a, d)
<1> SUFFICES ASSUME NEW t \in Subs
             PROVE  /\ AddsOf(t)' = AddsOf(t) + (IF t = s THEN a ELSE 0)
                    /\ DeductsOf(t)' = DeductsOf(t) + (IF t = s THEN d ELSE 0)
  BY DEF BooksMoved
<1>1. /\ Cardinality(Adding(t)') = Cardinality(Adding(t)) + (IF t = s THEN a ELSE 0)
      /\ Cardinality(Deducting(t)') = Cardinality(Deducting(t)) + (IF t = s THEN d ELSE 0)
      /\ RollingBack(t)' = RollingBack(t)
  BY BooksByWorker
<1>2. /\ Cardinality(Deducting(t)) \in Nat /\ Cardinality(RollingBack(t)) \in Nat
      /\ a \in Int /\ d \in Int
  BY FiniteParts DEF Plus, Minus
<1> QED
  BY <1>1, <1>2 DEF AddsOf, DeductsOf

\* A handler that moves to label l: only a rejudge at "undo" has a deduction booked.
LEMMA BookedByHandler ==
    ASSUME TypeOK, NEW h \in Handlers, NEW l, gw' = [gw EXCEPT ![h] = l],
           UNCHANGED <<wpc, job>>, NEW t \in Subs
    PROVE  /\ AddsOf(t)' = AddsOf(t)
           /\ DeductsOf(t)' = DeductsOf(t) +
                 (IF h \in Rejudges /\ Target[h] = t
                     THEN (IF l = "undo" THEN 1 ELSE 0) - (IF gw[h] = "undo" THEN 1 ELSE 0)
                     ELSE 0)
<1>1. /\ Adding(t)' = Adding(t) /\ Deducting(t)' = Deducting(t)
      /\ Cardinality(RollingBack(t)') = Cardinality(RollingBack(t)) +
            (IF h \in Rejudges /\ Target[h] = t
                THEN (IF l = "undo" THEN 1 ELSE 0) - (IF gw[h] = "undo" THEN 1 ELSE 0)
                ELSE 0)
  BY BooksByHandler
<1>2. Cardinality(Deducting(t)) \in Nat /\ Cardinality(RollingBack(t)) \in Nat
  BY FiniteParts
<1> QED
  BY <1>1, <1>2 DEF AddsOf, DeductsOf

\* Every step of the gateway is a step of the ledger or a stutter.
LEMMA LedgerByGateway ==
    ASSUME ExactSetting, ExactInv, TypeOK',
           \/ \E s \in Subs : SubmitStep(s) \/ DeleteProblem(s)
           \/ \E r \in Rejudges : RejudgeStep(r)
           \/ \E h \in Handlers :
                 Reject(h) \/ Send(h) \/ SendLost(h) \/ SendThrows(h) \/ HandlerDies(h)
    PROVE  [Ledger!LNext]_(Ledger!ledger)
<1>a. /\ TypeOK /\ NewIsNone /\ FlagIsVerdict /\ PrivateOK /\ SawOK
      /\ Subs \subseteq Handlers /\ Rejudges \subseteq Handlers
      /\ Subs \cap Rejudges = {}
      /\ \A t \in Subs : credit[t] \in Int
  BY DEF ExactInv, Handlers, TypeOK
<1> USE DEF GwGoto, wkVars, dbVars, gwVars
\* A handler that moves between labels that owe nothing, and writes no verdict.
<1>1. ASSUME NEW h \in Handlers, NEW l, gw' = [gw EXCEPT ![h] = l],
             UNCHANGED <<wpc, job, credit>>,
             h \in Rejudges => gw[h] # "undo" /\ l # "undo",
             \A t \in Subs : RowOf(t)' = RowOf(t)
      PROVE  UNCHANGED Ledger!ledger
  <2>1. ASSUME NEW t \in Subs
        PROVE  AddsOf(t)' = AddsOf(t) /\ DeductsOf(t)' = DeductsOf(t)
    <3>1. UNCHANGED <<wpc, job>>
      BY <1>1
    <3>2. /\ AddsOf(t)' = AddsOf(t)
          /\ DeductsOf(t)' = DeductsOf(t) +
                (IF h \in Rejudges /\ Target[h] = t
                    THEN (IF l = "undo" THEN 1 ELSE 0) - (IF gw[h] = "undo" THEN 1 ELSE 0)
                    ELSE 0)
      BY <1>a, <1>1, <3>1, BookedByHandler
    <3> QED
      BY <1>1, <3>2, BooksType
  <2> QED
    BY <1>a, <1>1, <2>1, LedgerStill
<1>2. ASSUME NEW s \in Subs, SubmitInsert(s)
      PROVE  UNCHANGED Ledger!ledger
  <2>1. /\ gw' = [gw EXCEPT ![s] = "send"] /\ UNCHANGED <<wpc, job, credit>>
        /\ s \in Handlers /\ s \notin Rejudges
        /\ status' = [status EXCEPT ![s] = "PENDING"] /\ status[s] = "none"
    BY <1>a, <1>2 DEF SubmitInsert, NewIsNone
  <2>2. \A t \in Subs : RowOf(t)' = RowOf(t)
    BY <1>a, <2>1 DEF RowOf, TypeOK
  <2> QED
    BY <1>1, <2>1, <2>2
<1>3. ASSUME NEW s \in Subs, SubmitMarkRE(s)
      PROVE  UNCHANGED Ledger!ledger
  <2>1. /\ gw' = [gw EXCEPT ![s] = "done"] /\ UNCHANGED <<wpc, job, credit>>
        /\ s \in Handlers /\ s \notin Rejudges
        /\ status' = [status EXCEPT ![s] = IF RowExists(s) THEN "RE" ELSE @]
        /\ status[s] # "AC"
    BY <1>a, <1>3 DEF SubmitMarkRE, PrivateOK, Private, Untouched
  <2>2. \A t \in Subs : RowOf(t)' = RowOf(t)
    BY <1>a, <2>1 DEF RowOf, RowExists, TypeOK
  <2> QED
    BY <1>1, <2>1, <2>2
<1>4. ASSUME NEW s \in Subs, DeleteProblem(s)
      PROVE  Ledger!Delete(s)
  <2>1. RowOf(s) # "gone" /\ RowOf(s) \in {"open", "accepted", "gone"}
    BY <1>4 DEF DeleteProblem, RowExists, RowOf
  <2>2. BooksMoved(s, "gone", 0, 0, 0)
    <3> SUFFICES ASSUME NEW t \in Subs
                 PROVE  /\ RowOf(t)' = IF t = s THEN "gone" ELSE RowOf(t)
                        /\ credit'[t] = credit[t] + (IF t = s THEN 0 ELSE 0)
                        /\ AddsOf(t)' = AddsOf(t) + (IF t = s THEN 0 ELSE 0)
                        /\ DeductsOf(t)' = DeductsOf(t) + (IF t = s THEN 0 ELSE 0)
      BY DEF BooksMoved
    <3>1. RowOf(t)' = IF t = s THEN "gone" ELSE RowOf(t)
      BY <1>a, <1>4 DEF DeleteProblem, RowOf, TypeOK
    <3>2. AddsOf(t)' = AddsOf(t) /\ DeductsOf(t)' = DeductsOf(t)
      BY <1>4 DEF DeleteProblem, AddsOf, DeductsOf, Adding, Deducting, RollingBack, SubOf
    <3>3. AddsOf(t) \in Nat /\ DeductsOf(t) \in Nat /\ credit' = credit
      BY <1>4, BooksType DEF DeleteProblem
    <3> QED
      BY <1>a, <3>1, <3>2, <3>3
  <2> QED
    BY <1>a, <2>1, <2>2, LedgerMoves
<1>5. ASSUME NEW r \in Rejudges, RejudgeRead(r)
      PROVE  UNCHANGED Ledger!ledger
  <2>1. /\ gw' = [gw EXCEPT ![r] = "update"] /\ UNCHANGED <<wpc, job, credit>>
        /\ gw[r] = "new" /\ status' = status /\ r \in Handlers
    BY <1>a, <1>5 DEF RejudgeRead
  <2>2. \A t \in Subs : RowOf(t)' = RowOf(t)
    BY <2>1 DEF RowOf
  <2> QED
    BY <1>1, <2>1, <2>2
<1>6. ASSUME NEW r \in Rejudges, RejudgeFlip(r)
      PROVE  Ledger!Reopen(Target[r]) \/ UNCHANGED Ledger!ledger
  <2>0. Target[r] \in Subs /\ r \in Handlers
    BY <1>a
  <2>1. CASE status[Target[r]] = "AC" /\ acCounted[Target[r]]
    <3>1. /\ gw[r] = "update" /\ gw' = [gw EXCEPT ![r] = "undo"]
          /\ UNCHANGED <<wpc, job, credit>>
          /\ status' = [status EXCEPT ![Target[r]] = "PENDING"]
      BY <1>6, <2>1 DEF RejudgeFlip, ResetRow
    <3>2. \A t \in Subs : /\ RowOf(t)' = IF t = Target[r] THEN "open" ELSE RowOf(t)
                          /\ credit'[t] = credit[t] + (IF t = Target[r] THEN 0 ELSE 0)
      BY <1>a, <3>1 DEF RowOf, TypeOK
    <3>3. RowOf(Target[r]) = "accepted"
      BY <2>1 DEF RowOf
    <3>4. BooksMoved(Target[r], "open", 0, 0, 1)
      <4>1. UNCHANGED <<wpc, job>>
        BY <3>1
      <4>2. ASSUME NEW t \in Subs
            PROVE  /\ AddsOf(t)' = AddsOf(t)
                   /\ DeductsOf(t)' = DeductsOf(t) + (IF Target[r] = t THEN 1 ELSE 0)
        <5>1. /\ AddsOf(t)' = AddsOf(t)
              /\ DeductsOf(t)' = DeductsOf(t) +
                    (IF r \in Rejudges /\ Target[r] = t
                        THEN (IF "undo" = "undo" THEN 1 ELSE 0) - (IF gw[r] = "undo" THEN 1 ELSE 0)
                        ELSE 0)
          BY <1>a, <2>0, <3>1, <4>1, BookedByHandler
        <5> QED
          BY <3>1, <5>1
      <4> QED
        BY <3>2, <4>2, BooksType DEF BooksMoved
    <3> QED
      BY <1>a, <2>0, <3>3, <3>4, LedgerMoves
  <2>2. CASE ~(status[Target[r]] = "AC" /\ acCounted[Target[r]])
    <3>1. /\ gw[r] = "update" /\ gw' = [gw EXCEPT ![r] = "send"]
          /\ UNCHANGED <<wpc, job, credit>> /\ status' = status
      BY <1>6, <2>2 DEF RejudgeFlip
    <3>2. \A t \in Subs : RowOf(t)' = RowOf(t)
      BY <3>1 DEF RowOf
    <3> QED
      BY <1>1, <2>0, <3>1, <3>2
  <2> QED
    BY <2>1, <2>2
<1>7. ASSUME NEW r \in Rejudges, RejudgeReset(r)
      PROVE  FALSE
  BY <1>a, <1>7 DEF RejudgeReset, SawOK
<1>8. ASSUME NEW r \in Rejudges, RejudgeUndo(r)
      PROVE  Ledger!Deduct(Target[r])
  <2>1. /\ gw[r] = "undo" /\ gw' = [gw EXCEPT ![r] = "send"]
        /\ UNCHANGED <<wpc, job>> /\ status' = status
        /\ credit' = [credit EXCEPT ![Target[r]] = @ - 1]
    BY <1>8 DEF RejudgeUndo, Fault, ExactSetting
  <2>2. PICK s \in Subs : s = Target[r]
    BY <1>a
  <2>3. PICK x : x = RowOf(s)
    OBVIOUS
  <2>4. BooksMoved(s, x, -1, 0, -1)
    <3>1. UNCHANGED <<wpc, job>>
      BY <2>1
    <3>2. ASSUME NEW t \in Subs
          PROVE  /\ AddsOf(t)' = AddsOf(t) /\ AddsOf(t) \in Nat
                 /\ DeductsOf(t)' = DeductsOf(t) + (IF t = s THEN -1 ELSE 0)
      <4>1. /\ AddsOf(t)' = AddsOf(t)
            /\ DeductsOf(t)' = DeductsOf(t) +
                  (IF r \in Rejudges /\ Target[r] = t
                      THEN (IF "send" = "undo" THEN 1 ELSE 0) - (IF gw[r] = "undo" THEN 1 ELSE 0)
                      ELSE 0)
        BY <1>a, <2>1, <3>1, BookedByHandler
      <4> QED
        BY <2>1, <2>2, <4>1, BooksType
    <3>3. \A t \in Subs : /\ RowOf(t)' = IF t = s THEN x ELSE RowOf(t)
                          /\ credit'[t] = credit[t] + (IF t = s THEN -1 ELSE 0)
      BY <1>a, <2>1, <2>2, <2>3 DEF RowOf, TypeOK
    <3> QED
      BY <3>2, <3>3 DEF BooksMoved
  <2> QED
    BY <1>a, <2>2, <2>3, <2>4, LedgerMoves
<1>9. ASSUME NEW h \in Handlers,
             Reject(h) \/ Send(h) \/ SendLost(h) \/ SendThrows(h) \/ HandlerDies(h)
      PROVE  UNCHANGED Ledger!ledger
  <2>1. /\ gw[h] \in {"new", "send"} /\ status' = status /\ UNCHANGED <<wpc, job, credit>>
        /\ \E l \in {"done", "mark"} : gw' = [gw EXCEPT ![h] = l]
    BY <1>9 DEF Reject, Send, SendLost, SendThrows, HandlerDies, Fault, ExactSetting
  <2>2. \A t \in Subs : RowOf(t)' = RowOf(t)
    BY <2>1 DEF RowOf
  <2> QED
    BY <1>1, <2>1, <2>2
<1> QED
  BY <1>2, <1>3, <1>4, <1>5, <1>6, <1>7, <1>8, <1>9
  DEF SubmitStep, RejudgeStep, Ledger!LNext

\* Every step of a worker is a step of the ledger or a stutter.
LEMMA LedgerByWorker ==
    ASSUME ExactSetting, ExactInv, TypeOK',
           NEW w \in Workers, WorkerStep(w) \/ ConnDrop(w) \/ WorkerCrash(w)
    PROVE  [Ledger!LNext]_(Ledger!ledger)
<1>a. /\ TypeOK /\ JobOK /\ PrivateOK /\ \A t \in Subs : credit[t] \in Int
  BY DEF ExactInv, TypeOK
<1>b. wpc[w] # "idle" =>
         /\ SubOf(job[w]) \in Subs
         /\ status[SubOf(job[w])] # "none"
         /\ RowOf(SubOf(job[w])) \in {"open", "accepted", "gone"}
  BY <1>a, SubOfType DEF JobOK, PrivateOK, Private, Untouched, RowOf
<1> USE DEF WGoto, WIdle, dbVars, gwVars
\* A worker that takes or ends a job.
<1>1. CASE (\E h \in Handlers : Deliver(w, h)) \/ Ack(w) \/ AckUnheard(w) \/ Nack(w)
  <2>1. PICK l \in {"load", "idle"}, j \in Handlers \cup {NoJob} :
           /\ wpc' = [wpc EXCEPT ![w] = l] /\ job' = [job EXCEPT ![w] = j] /\ UNCHANGED gw
           /\ wpc[w] \in {"idle", "ack", "nack"} /\ UNCHANGED <<status, credit>>
    BY <1>1 DEF Deliver, Ack, AckUnheard, Nack
  <2>2. ASSUME NEW t \in Subs
        PROVE  /\ RowOf(t)' = RowOf(t) /\ credit'[t] = credit[t]
               /\ AddsOf(t)' = AddsOf(t) /\ DeductsOf(t)' = DeductsOf(t)
    BY <1>a, <2>1, BooksUntouched DEF RowOf, AddsOf, DeductsOf
  <2> QED
    BY <1>a, <2>2, LedgerStill
\* A worker that goes on between labels that owe nothing.
<1>2. ASSUME NEW l, l \notin {"inc", "dec", "undo"}, wpc[w] \notin {"inc", "dec", "undo"},
             wpc' = [wpc EXCEPT ![w] = l], UNCHANGED <<job, gw, credit>>,
             \A t \in Subs : RowOf(t)' = RowOf(t)
      PROVE  UNCHANGED Ledger!ledger
  <2>1. job' = [job EXCEPT ![w] = job[w]]
    BY <1>a, <1>2 DEF TypeOK
  <2>2. ASSUME NEW t \in Subs
        PROVE  AddsOf(t)' = AddsOf(t) /\ DeductsOf(t)' = DeductsOf(t)
    BY <1>a, <1>2, <2>1, BooksUntouched DEF AddsOf, DeductsOf
  <2> QED
    BY <1>a, <1>2, <2>2, LedgerStill
<1>3. CASE Load(w) \/ JudgeRaises(w) \/ AckRaises(w)
  <2>1. /\ \E l \in {"judge", "ack", "mark"} : wpc' = [wpc EXCEPT ![w] = l]
        /\ UNCHANGED <<status, job, gw, credit>> /\ wpc[w] \in {"load", "judge", "ack"}
    BY <1>3 DEF Load, JudgeRaises, AckRaises
  <2>2. \A t \in Subs : RowOf(t)' = RowOf(t)
    BY <2>1 DEF RowOf
  <2> QED
    BY <1>2, <2>1, <2>2
<1>4. CASE ConnDrop(w)
  <2>1. UNCHANGED <<status, credit, wpc, job, gw>>
    BY <1>4 DEF ConnDrop
  <2>2. ASSUME NEW t \in Subs
        PROVE  /\ RowOf(t)' = RowOf(t) /\ credit'[t] = credit[t]
               /\ AddsOf(t)' = AddsOf(t) /\ DeductsOf(t)' = DeductsOf(t)
    BY <2>1 DEF RowOf, AddsOf, DeductsOf, Adding, Deducting, RollingBack, SubOf
  <2> QED
    BY <1>a, <2>2, LedgerStill
<1>5. CASE WorkerCrash(w) \/ MarkFails(w)
  BY <1>5 DEF WorkerCrash, MarkFails, Fault, ExactSetting
\* A worker that writes a row.
<1>6. CASE SaveVerdict(w)
  <2> DEFINE s == SubOf(job[w])
  <2>0. /\ s \in Subs /\ wpc[w] = "judge" /\ UNCHANGED <<job, gw, credit>>
        /\ status[s] # "none"
    BY <1>b, <1>6 DEF SaveVerdict
  <2>1. CASE ~RowExists(s)
    <3>1. status' = status /\ wpc' = [wpc EXCEPT ![w] = "ack"]
      BY <1>6, <2>1 DEF SaveVerdict
    <3>2. \A t \in Subs : RowOf(t)' = RowOf(t)
      BY <3>1 DEF RowOf
    <3> QED
      BY <1>2, <2>0, <3>1, <3>2
  <2>2. CASE RowExists(s)
    <3>1. PICK v \in Verdicts :
            /\ status' = [status EXCEPT ![s] = v]
            /\ wpc' = [wpc EXCEPT ![w] =
                  CASE v = "AC" /\ status[s] # "AC" -> "inc"
                    [] v # "AC" /\ status[s] = "AC" -> "dec"
                    [] OTHER -> "ack"]
      BY <1>6, <2>2 DEF SaveVerdict
    <3>2. \A t \in Subs : status'[t] = IF t = s THEN v ELSE status[t]
      BY <1>a, <2>0, <3>1 DEF TypeOK
    <3>3. \A t \in Subs : /\ RowOf(t)' = IF t = s THEN (IF v = "AC" THEN "accepted" ELSE "open")
                                                  ELSE RowOf(t)
                          /\ credit'[t] = credit[t] + (IF t = s THEN 0 ELSE 0)
      BY <1>a, <2>0, <3>2 DEF RowOf, Verdicts
    <3>4. RowOf(s) = IF status[s] = "AC" THEN "accepted" ELSE "open"
      BY <2>2 DEF RowOf, RowExists
    <3>5. CASE v = "AC" /\ status[s] # "AC"
      <4>1. wpc' = [wpc EXCEPT ![w] = "inc"]
        BY <3>1, <3>5
      <4>2. \A t \in Subs : /\ RowOf(t)' = IF t = s THEN "accepted" ELSE RowOf(t)
                            /\ credit'[t] = credit[t] + (IF t = s THEN 0 ELSE 0)
        BY <3>3, <3>5
      <4>3. /\ 1 = Plus("inc") - Plus(wpc[w]) /\ 0 = Minus("inc") - Minus(wpc[w])
            /\ UNCHANGED <<job, gw>> /\ 0 \in Int
        BY <2>0 DEF Plus, Minus
      <4>4. PICK s0 \in Subs : s0 = s
        BY <2>0
      <4>5. BooksMoved(s0, "accepted", 0, 1, 0)
        BY <1>a, <4>1, <4>2, <4>3, <4>4, MovedByWorker
      <4> QED
        BY <1>a, <3>4, <3>5, <4>4, <4>5, LedgerMoves DEF Ledger!LNext
    <3>6. CASE v # "AC" /\ status[s] = "AC"
      <4>1. wpc' = [wpc EXCEPT ![w] = "dec"]
        BY <3>1, <3>6
      <4>2. \A t \in Subs : /\ RowOf(t)' = IF t = s THEN "open" ELSE RowOf(t)
                            /\ credit'[t] = credit[t] + (IF t = s THEN 0 ELSE 0)
        BY <3>3, <3>6
      <4>3. /\ 0 = Plus("dec") - Plus(wpc[w]) /\ 1 = Minus("dec") - Minus(wpc[w])
            /\ UNCHANGED <<job, gw>> /\ 0 \in Int
        BY <2>0 DEF Plus, Minus
      <4>4. PICK s0 \in Subs : s0 = s
        BY <2>0
      <4>5. BooksMoved(s0, "open", 0, 0, 1)
        BY <1>a, <4>1, <4>2, <4>3, <4>4, MovedByWorker
      <4> QED
        BY <1>a, <3>4, <3>6, <4>4, <4>5, LedgerMoves DEF Ledger!LNext
    <3>7. CASE (v = "AC") <=> (status[s] = "AC")
      <4>1. wpc' = [wpc EXCEPT ![w] = "ack"]
        BY <3>1, <3>7
      <4>2. \A t \in Subs : RowOf(t)' = RowOf(t)
        BY <3>3, <3>4, <3>7
      <4> QED
        BY <1>2, <2>0, <4>1, <4>2
    <3> QED
      BY <3>5, <3>6, <3>7
  <2> QED
    BY <2>1, <2>2
<1>7. CASE MarkError(w)
  <2> DEFINE s == SubOf(job[w])
  <2>0. /\ s \in Subs /\ wpc[w] = "mark" /\ UNCHANGED <<job, gw, credit>>
    BY <1>b, <1>7 DEF MarkError
  <2>1. CASE RowExists(s) /\ status[s] = "AC"
    <3>1. /\ status' = [status EXCEPT ![s] = "RE"] /\ wpc' = [wpc EXCEPT ![w] = "undo"]
      BY <1>7, <2>1 DEF MarkError
    <3>2. \A t \in Subs : /\ RowOf(t)' = IF t = s THEN "open" ELSE RowOf(t)
                          /\ credit'[t] = credit[t] + (IF t = s THEN 0 ELSE 0)
      BY <1>a, <2>0, <3>1 DEF RowOf, TypeOK
    <3>3. /\ 0 = Plus("undo") - Plus(wpc[w]) /\ 1 = Minus("undo") - Minus(wpc[w])
          /\ UNCHANGED <<job, gw>> /\ 0 \in Int
      BY <2>0 DEF Plus, Minus
    <3>4. PICK s0 \in Subs : s0 = s
      BY <2>0
    <3>5. BooksMoved(s0, "open", 0, 0, 1)
      BY <1>a, <3>1, <3>2, <3>3, <3>4, MovedByWorker
    <3>6. RowOf(s) = "accepted"
      BY <2>1 DEF RowOf
    <3> QED
      BY <1>a, <3>4, <3>5, <3>6, LedgerMoves DEF Ledger!LNext
  <2>2. CASE ~(RowExists(s) /\ status[s] = "AC")
    <3>1. /\ wpc' = [wpc EXCEPT ![w] = "nack"]
          /\ status' = status \/ (RowExists(s) /\ status' = [status EXCEPT ![s] = "RE"])
      BY <1>7, <2>2 DEF MarkError
    <3>2. \A t \in Subs : RowOf(t)' = RowOf(t)
      BY <1>a, <2>0, <2>2, <3>1 DEF RowOf, RowExists, TypeOK
    <3> QED
      BY <1>2, <2>0, <3>1, <3>2
  <2> QED
    BY <2>1, <2>2
\* A worker that applies what it owes, or has nobody to take it from.
<1>8. ASSUME NEW d \in {1, -1}, NEW l \in {"ack", "nack"}, Adjust(w, d, l), UNCHANGED gw,
             d = Due(wpc[w]), wpc[w] # "idle"
      PROVE  Ledger!LNext
  <2>1. /\ wpc' = [wpc EXCEPT ![w] = l] /\ status' = status
        /\ credit' = [credit EXCEPT ![SubOf(job[w])] = @ + d]
    BY <1>8 DEF Adjust, Fault, ExactSetting
  <2>2. PICK s \in Subs : s = SubOf(job[w])
    BY <1>b, <1>8
  <2>3. PICK x : x = RowOf(s)
    OBVIOUS
  <2>4. \A t \in Subs : /\ RowOf(t)' = IF t = s THEN x ELSE RowOf(t)
                        /\ credit'[t] = credit[t] + (IF t = s THEN d ELSE 0)
    BY <1>a, <2>1, <2>2, <2>3 DEF RowOf, TypeOK
  <2>5. UNCHANGED <<job, gw>> /\ d \in Int
    BY <1>8 DEF Adjust
  <2>6. CASE d = 1
    <3>1. -1 = Plus(l) - Plus(wpc[w]) /\ 0 = Minus(l) - Minus(wpc[w])
      BY <1>8, <2>6 DEF Plus, Minus, Due
    <3>2. BooksMoved(s, x, d, -1, 0)
      BY <1>a, <2>1, <2>2, <2>4, <2>5, <3>1, MovedByWorker
    <3> QED
      BY <1>a, <2>3, <2>6, <3>2, LedgerMoves DEF Ledger!LNext
  <2>7. CASE d = -1
    <3>1. 0 = Plus(l) - Plus(wpc[w]) /\ -1 = Minus(l) - Minus(wpc[w])
      BY <1>8, <2>7 DEF Plus, Minus, Due
    <3>2. BooksMoved(s, x, d, 0, -1)
      BY <1>a, <2>1, <2>2, <2>4, <2>5, <3>1, MovedByWorker
    <3> QED
      BY <1>a, <2>3, <2>7, <3>2, LedgerMoves DEF Ledger!LNext
  <2> QED
    BY <2>6, <2>7
<1>9. CASE IncrementAc(w) \/ DecrementAc(w) \/ UndoAc(w)
  <2>1. CASE IncrementAc(w)
    BY <1>8, <2>1 DEF IncrementAc, Due, Adjust
  <2>2. CASE DecrementAc(w)
    BY <1>8, <2>2 DEF DecrementAc, Due, Adjust
  <2>3. CASE UndoAc(w)
    BY <1>8, <2>3 DEF UndoAc, Due, Adjust
  <2> QED
    BY <1>9, <2>1, <2>2, <2>3
<1>10. CASE UndoGone(w)
  <2>1. /\ wpc' = [wpc EXCEPT ![w] = "nack"] /\ status' = status /\ wpc[w] = "undo"
        /\ UNCHANGED <<job, gw, credit>> /\ ~RowExists(SubOf(job[w]))
    BY <1>10 DEF UndoGone
  <2>2. PICK s \in Subs : s = SubOf(job[w])
    BY <1>b, <2>1
  <2>3. RowOf(s) = "gone"
    BY <1>b, <2>1, <2>2 DEF RowOf, RowExists
  <2>4. \A t \in Subs : /\ RowOf(t)' = IF t = s THEN "gone" ELSE RowOf(t)
                        /\ credit'[t] = credit[t] + (IF t = s THEN 0 ELSE 0)
    BY <1>a, <2>1, <2>3 DEF RowOf
  <2>5. /\ 0 = Plus("nack") - Plus(wpc[w]) /\ -1 = Minus("nack") - Minus(wpc[w])
        /\ UNCHANGED <<job, gw>> /\ 0 \in Int
    BY <2>1 DEF Plus, Minus
  <2>6. BooksMoved(s, "gone", 0, 0, -1)
    BY <1>a, <2>1, <2>2, <2>4, <2>5, MovedByWorker
  <2> QED
    BY <1>a, <2>3, <2>6, LedgerMoves DEF Ledger!LNext
<1> QED
  BY <1>1, <1>3, <1>4, <1>5, <1>6, <1>7, <1>9, <1>10 DEF WorkerStep

\* Initially nothing is booked.
LEMMA LedgerInit == Init => Ledger!LInit
<1> SUFFICES ASSUME Init PROVE Ledger!LInit
  OBVIOUS
<1>1. ASSUME NEW s \in Subs
      PROVE  Adding(s) = {} /\ Deducting(s) = {} /\ RollingBack(s) = {}
  BY DEF Init, Adding, Deducting, RollingBack, Handlers
<1>2. \A s \in Subs : /\ Cardinality(Adding(s)) = 0
                      /\ Cardinality(Deducting(s)) + Cardinality(RollingBack(s)) = 0
  BY <1>1, FS_EmptySet
<1> QED
  BY <1>2 DEF Init, Ledger!LInit

\* Every step of the pipeline is a step of the ledger or a stutter.
LEMMA LedgerStep ==
    ASSUME ExactSetting, ExactInv, [Next]_vars
    PROVE  [Ledger!LNext]_(Ledger!ledger)
<1>1. TypeOK' /\ TypeOK
  BY TypeStep DEF ExactInv
<1>2. CASE UNCHANGED vars
  <2>1. UNCHANGED <<status, credit, wpc, job, gw>>
    BY <1>2 DEF vars
  <2>2. ASSUME NEW t \in Subs
        PROVE  /\ RowOf(t)' = RowOf(t) /\ credit'[t] = credit[t]
               /\ AddsOf(t)' = AddsOf(t) /\ DeductsOf(t)' = DeductsOf(t)
    BY <2>1 DEF RowOf, AddsOf, DeductsOf, Adding, Deducting, RollingBack, SubOf
  <2> QED
    BY <1>1, <2>2, LedgerStill
<1>3. CASE Next
  BY <1>1, <1>3, LedgerByGateway, LedgerByWorker DEF Next
<1> QED
  BY <1>2, <1>3

\* The pipeline implements the ledger, its fairness left to the runs: every change of a row
\* to AC or away from it is booked once, by whoever wrote the row, and every booking is
\* applied once, through all interleavings of workers, rejudges, redeliveries and cascades.
THEOREM LedgerIsKept ==
    ASSUME ExactSetting
    PROVE  Spec => Ledger!LSafety
<1>1. Spec => []ExactInv
  BY ExactInit, ExactStep, PTL DEF Spec
<1>2. ExactInv /\ [Next]_vars => [Ledger!LNext]_(Ledger!ledger)
  BY LedgerStep
<1> QED
  BY <1>1, <1>2, LedgerInit, PTL DEF Spec, Ledger!LSafety

\* A ledger is balanced, whatever steps it takes.
LEMMA BalancedStep ==
    ASSUME Ledger!LTypeOK, Ledger!Balanced, [Ledger!LNext]_(Ledger!ledger)
    PROVE  Ledger!LTypeOK' /\ Ledger!Balanced'
<1> DEFINE rows == [s \in Subs |-> CASE status[s] = "AC" -> "accepted"
                                     [] status[s] = "deleted" -> "gone"
                                     [] OTHER -> "open"]
           adds == [s \in Subs |-> Cardinality(Adding(s))]
           deducts == [s \in Subs |-> Cardinality(Deducting(s)) + Cardinality(RollingBack(s))]
           Types == /\ rows \in [Subs -> {"open", "accepted", "gone"}]
                    /\ credit \in [Subs -> Int]
                    /\ adds \in [Subs -> Nat] /\ deducts \in [Subs -> Nat]
           Even == \A s \in Subs : rows[s] # "gone" =>
                      credit[s] + adds[s] - deducts[s] = IF rows[s] = "accepted" THEN 1 ELSE 0
<1>1. /\ Ledger!LTypeOK <=> Types
      /\ Ledger!Balanced <=> Even
      /\ Ledger!LTypeOK' <=> Types'
      /\ Ledger!Balanced' <=> Even'
  BY DEF Ledger!LTypeOK, Ledger!Balanced
<1>2. \/ UNCHANGED <<rows, credit, adds, deducts>>
      \/ \E s \in Subs :
            \/ /\ rows[s] = "open" /\ rows' = [rows EXCEPT ![s] = "accepted"]
               /\ adds' = [adds EXCEPT ![s] = @ + 1] /\ UNCHANGED <<credit, deducts>>
            \/ /\ rows[s] = "accepted" /\ rows' = [rows EXCEPT ![s] = "open"]
               /\ deducts' = [deducts EXCEPT ![s] = @ + 1] /\ UNCHANGED <<credit, adds>>
            \/ /\ adds[s] > 0 /\ adds' = [adds EXCEPT ![s] = @ - 1]
               /\ credit' = [credit EXCEPT ![s] = @ + 1] /\ UNCHANGED <<rows, deducts>>
            \/ /\ deducts[s] > 0 /\ deducts' = [deducts EXCEPT ![s] = @ - 1]
               /\ credit' = [credit EXCEPT ![s] = @ - 1] /\ UNCHANGED <<rows, adds>>
            \/ /\ rows[s] # "gone" /\ rows' = [rows EXCEPT ![s] = "gone"]
               /\ UNCHANGED <<credit, adds, deducts>>
            \/ /\ rows[s] = "gone" /\ deducts[s] > 0
               /\ deducts' = [deducts EXCEPT ![s] = @ - 1] /\ UNCHANGED <<rows, credit, adds>>
  BY DEF Ledger!LNext, Ledger!ledger, Ledger!Accept, Ledger!Reopen, Ledger!Add,
     Ledger!Deduct, Ledger!Delete, Ledger!Drop
<1> HIDE DEF rows, adds, deducts
<1>3. Types /\ Even
  BY <1>1
<1>4. Types' /\ Even'
  BY <1>2, <1>3
<1> QED
  BY <1>1, <1>4

\* A counted row is an accepted row of the ledger.
LEMMA BalancedIsExact ==
    ASSUME ExactInv, Ledger!LTypeOK, Ledger!Balanced
    PROVE  ExactCredit
<1> SUFFICES ASSUME NEW s \in Subs, status[s] # "deleted"
             PROVE  credit[s] + Owed(s) = Counted(s)
  BY DEF ExactCredit
<1>1. /\ Cardinality(Adding(s)) \in Nat /\ Cardinality(Deducting(s)) \in Nat
      /\ Cardinality(RollingBack(s)) \in Nat /\ credit[s] \in Int
  BY FiniteParts DEF ExactInv, TypeOK
<1>2. credit[s] + Cardinality(Adding(s))
        - (Cardinality(Deducting(s)) + Cardinality(RollingBack(s)))
      = IF status[s] = "AC" THEN 1 ELSE 0
  BY DEF Ledger!Balanced
<1>3. acCounted[s] <=> status[s] = "AC"
  BY DEF ExactInv, FlagIsVerdict
<1> QED
  BY <1>1, <1>2, <1>3 DEF Owed, Counted

\* While administrators rejudge only what they read as counted, and no worker crashes and
\* Redis does not fail, the counter is exact once what is owed is applied (save_verdict,
\* mark_submission_error and the conditional UPDATE of the rejudge handler).
THEOREM CounterIsExact ==
    ASSUME ExactSetting
    PROVE  Spec => []ExactCredit
<1>1. Spec => []ExactInv
  BY ExactInit, ExactStep, PTL DEF Spec
<1>2. Ledger!LInit => Ledger!LTypeOK /\ Ledger!Balanced
  BY DEF Ledger!LInit, Ledger!LTypeOK, Ledger!Balanced
<1>3. Ledger!LTypeOK /\ Ledger!Balanced /\ [Ledger!LNext]_(Ledger!ledger)
        => (Ledger!LTypeOK /\ Ledger!Balanced)'
  BY BalancedStep
<1>4. Ledger!LSafety => [](Ledger!LTypeOK /\ Ledger!Balanced)
  BY <1>2, <1>3, PTL DEF Ledger!LSafety
<1>5. ExactInv /\ Ledger!LTypeOK /\ Ledger!Balanced => ExactCredit
  BY BalancedIsExact
<1> QED
  BY <1>1, <1>4, <1>5, LedgerIsKept, PTL
=============================================================================
