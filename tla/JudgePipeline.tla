--------------------------- MODULE JudgePipeline ---------------------------
(***************************************************************************)
(* The judging pipeline: the gateway's POST /judge/submit and              *)
(* POST /admin/submissions/:id/rejudge, the durable RabbitMQ queue         *)
(* judge.submissions with its dead-letter queue, the judge workers, the    *)
(* submissions table, and the leaderboard counter kept in Redis.           *)
(*                                                                         *)
(* Each await of a gateway handler, and each database, Redis or broker     *)
(* call of a worker, is a step of its own, so that every interleaving of   *)
(* handlers and workers is a behaviour.                                    *)
(*                                                                         *)
(* A message is named by the handler that publishes it: a submit request   *)
(* publishes one message, and so does a rejudge request.                   *)
(***************************************************************************)
EXTENDS Integers, FiniteSets

CONSTANTS
    Subs,                \* submissions; each is created by one submit request
    Rejudges,            \* rejudge requests of administrators
    Target,              \* the submission each rejudge request names
    Workers,             \* judge worker processes
    NoJob,               \* the job of an idle worker
    Faults,              \* the kinds of fault that may happen
    MaxFaults,           \* BOUND: how many faults happen in one behaviour
    RejudgeOnlyCounted   \* administrators rejudge only what they read as AC and counted

Handlers == Subs \cup Rejudges

\* "crash"   : a worker process dies            "conn" : the broker drops a worker's connection
\* "redis"   : a ZINCRBY fails                  "db"   : an UPDATE of an error path fails
\* "gateway" : a handler dies between awaits    "publish" : sendToQueue throws or the broker loses it
FaultKinds == {"crash", "conn", "redis", "db", "gateway", "publish"}

ASSUME PipelineAssumption ==
    /\ Subs \cap Rejudges = {}
    /\ IsFiniteSet(Workers)
    /\ IsFiniteSet(Rejudges)
    /\ Target \in [Rejudges -> Subs]
    /\ NoJob \notin Handlers
    /\ Faults \subseteq FaultKinds
    /\ MaxFaults \in Nat
    /\ RejudgeOnlyCounted \in BOOLEAN

VARIABLES
    status,     \* submissions.status; "none" before the INSERT, "deleted" after a cascade
    acCounted,  \* submissions.ac_counted
    credit,     \* what s adds to the score of its author in leaderboard:ac
    msg,        \* where the message of a handler is
    gw,         \* program counter of a gateway handler
    saw,        \* rejudge: the SELECT read status = AC and ac_counted
    wpc,        \* program counter of a worker
    job,        \* the message a worker processes
    conn,       \* the broker still holds the connection of the worker
    faults      \* the faults so far: how many, and of which kinds

dbVars == <<status, acCounted>>
gwVars == <<gw, saw>>
wkVars == <<wpc, job, conn>>
vars == <<status, acCounted, credit, msg, gw, saw, wpc, job, conn, faults>>

\* WA stands for every verdict of the engine other than AC.
Verdicts == {"AC", "WA"}
Statuses == {"none", "PENDING", "RE", "deleted"} \cup Verdicts
Judged == Verdicts \cup {"RE"}

SubOf(h) == IF h \in Subs THEN h ELSE Target[h]

RowExists(s) == status[s] \notin {"none", "deleted"}

Fault(kind) ==
    /\ kind \in Faults
    /\ faults.count < MaxFaults
    /\ faults' = [count |-> faults.count + 1, kinds |-> faults.kinds \cup {kind}]

Init ==
    /\ status = [s \in Subs |-> "none"]
    /\ acCounted = [s \in Subs |-> FALSE]
    /\ credit = [s \in Subs |-> 0]
    /\ msg = [h \in Handlers |-> "none"]
    /\ gw = [h \in Handlers |-> "new"]
    /\ saw = [r \in Rejudges |-> FALSE]
    /\ wpc = [w \in Workers |-> "idle"]
    /\ job = [w \in Workers |-> NoJob]
    /\ conn = [w \in Workers |-> TRUE]
    /\ faults = [count |-> 0, kinds |-> {}]

-----------------------------------------------------------------------------
(* The gateway *)

\* Moves handler h on; what a step publishes is the change of msg.
GwGoto(h, label) == gw' = [gw EXCEPT ![h] = label]

\* 503 without a channel, 404 without the problem or the submission: nothing changes.
Reject(h) ==
    /\ gw[h] = "new"
    /\ GwGoto(h, "done")
    /\ UNCHANGED <<status, acCounted, credit, msg, saw, wkVars, faults>>

\* INSERT INTO submissions ... 'PENDING', with the channel already captured.
SubmitInsert(s) ==
    /\ gw[s] = "new"
    /\ GwGoto(s, "send")
    /\ status' = [status EXCEPT ![s] = "PENDING"]
    /\ UNCHANGED <<acCounted, credit, msg, saw, wkVars, faults>>

\* sendToQueue, persistent, without publisher confirms.
Send(h) ==
    /\ gw[h] = "send"
    /\ GwGoto(h, "done")
    /\ msg' = [msg EXCEPT ![h] = "ready"]
    /\ UNCHANGED <<dbVars, credit, saw, wkVars, faults>>

\* The channel is dead but not known to be: the call returns, nothing is queued.
SendLost(h) ==
    /\ gw[h] = "send"
    /\ Fault("publish")
    /\ GwGoto(h, "done")
    /\ msg' = [msg EXCEPT ![h] = "lost"]
    /\ UNCHANGED <<dbVars, credit, saw, wkVars>>

\* The captured channel was closed meanwhile: submit catches it, rejudge answers 500.
SendThrows(h) ==
    /\ gw[h] = "send"
    /\ Fault("publish")
    /\ GwGoto(h, IF h \in Subs THEN "mark" ELSE "done")
    /\ UNCHANGED <<dbVars, credit, msg, saw, wkVars>>

\* Mutated: a status that the CHECK constraint of the table does not know.
SubmitMarkRE_UnknownStatus(s) ==
    /\ gw[s] = "mark"
    /\ GwGoto(s, "done")
    /\ status' = [status EXCEPT ![s] = "FAILED"]
    /\ UNCHANGED <<acCounted, credit, msg, saw, wkVars, faults>>

\* The catch block of submit: UPDATE ... SET status = 'RE', whatever the row holds now.
SubmitMarkRE(s) ==
    /\ gw[s] = "mark"
    /\ GwGoto(s, "done")
    /\ status' = [status EXCEPT ![s] = IF RowExists(s) THEN "RE" ELSE @]
    /\ UNCHANGED <<acCounted, credit, msg, saw, wkVars, faults>>

\* The SELECT of rejudge; the channel check passes.
RejudgeRead(r) ==
    LET s == Target[r]
        counted == status[s] = "AC" /\ acCounted[s]
    IN  /\ gw[r] = "new"
        /\ RowExists(s)
        /\ RejudgeOnlyCounted => counted
        /\ saw' = [saw EXCEPT ![r] = counted]
        /\ GwGoto(r, "update")
        /\ UNCHANGED <<dbVars, credit, msg, wkVars, faults>>

ResetRow(s) ==
    /\ status' = [status EXCEPT ![s] = "PENDING"]
    /\ acCounted' = [acCounted EXCEPT ![s] = FALSE]

\* Mutated: the UPDATE of the counted branch names only the id.
RejudgeFlip_Unconditional(r) ==
    LET s == Target[r] IN
    /\ gw[r] = "update"
    /\ saw[r]
    /\ IF RowExists(s)
          THEN ResetRow(s) /\ GwGoto(r, "undo")
          ELSE UNCHANGED dbVars /\ GwGoto(r, "send")
    /\ UNCHANGED <<credit, msg, saw, wkVars, faults>>

\* The row was read as AC and counted: UPDATE ... WHERE status = 'AC' AND ac_counted
\* RETURNING; only the request that flips the row goes on to deduct.
RejudgeFlip(r) ==
    LET s == Target[r] IN
    /\ gw[r] = "update"
    /\ saw[r]
    /\ IF status[s] = "AC" /\ acCounted[s]
          THEN ResetRow(s) /\ GwGoto(r, "undo")
          ELSE UNCHANGED dbVars /\ GwGoto(r, "send")
    /\ UNCHANGED <<credit, msg, saw, wkVars, faults>>

\* Otherwise the UPDATE names only the id.
RejudgeReset(r) ==
    LET s == Target[r] IN
    /\ gw[r] = "update"
    /\ ~saw[r]
    /\ IF RowExists(s) THEN ResetRow(s) ELSE UNCHANGED dbVars
    /\ GwGoto(r, "send")
    /\ UNCHANGED <<credit, msg, saw, wkVars, faults>>

\* zIncrBy(key, -1); a failure is logged and the handler goes on.
RejudgeUndo(r) ==
    /\ gw[r] = "undo"
    /\ GwGoto(r, "send")
    /\ \/ /\ credit' = [credit EXCEPT ![Target[r]] = @ - 1]
          /\ UNCHANGED faults
       \/ Fault("redis") /\ UNCHANGED credit
    /\ UNCHANGED <<dbVars, msg, saw, wkVars>>

\* The process dies, or a query throws, between two awaits of a handler.
HandlerDies(h) ==
    /\ gw[h] \notin {"new", "done"}
    /\ Fault("gateway")
    /\ GwGoto(h, "done")
    /\ UNCHANGED <<dbVars, credit, msg, saw, wkVars>>

\* DELETE FROM problems cascades to the submissions of the problem.
DeleteProblem(s) ==
    /\ RowExists(s)
    /\ status' = [status EXCEPT ![s] = "deleted"]
    /\ acCounted' = [acCounted EXCEPT ![s] = FALSE]
    /\ UNCHANGED <<credit, msg, gwVars, wkVars, faults>>

-----------------------------------------------------------------------------
(* The workers and the broker *)

WGoto(w, label) == wpc' = [wpc EXCEPT ![w] = label]

\* The callback is over. A worker that had lost its connection opens a new one.
WIdle(w) ==
    /\ wpc' = [wpc EXCEPT ![w] = "idle"]
    /\ job' = [job EXCEPT ![w] = NoJob]
    /\ conn' = [conn EXCEPT ![w] = TRUE]

\* Mutated: the consumer is registered with automatic acknowledgement.
Deliver_AutoAck(w, h) ==
    /\ wpc[w] = "idle"
    /\ msg[h] = "ready"
    /\ msg' = [msg EXCEPT ![h] = "acked"]
    /\ job' = [job EXCEPT ![w] = h]
    /\ WGoto(w, "load")
    /\ UNCHANGED <<dbVars, credit, gwVars, conn, faults>>

\* prefetch_count = 1: a worker gets a message only when it holds none.
Deliver(w, h) ==
    /\ wpc[w] = "idle"
    /\ msg[h] = "ready"
    /\ msg' = [msg EXCEPT ![h] = "unacked"]
    /\ job' = [job EXCEPT ![w] = h]
    /\ WGoto(w, "load")
    /\ UNCHANGED <<dbVars, credit, gwVars, conn, faults>>

\* load_submission_user: a message whose row is gone is only acknowledged.
Load(w) ==
    /\ wpc[w] = "load"
    /\ WGoto(w, IF RowExists(SubOf(job[w])) THEN "judge" ELSE "ack")
    /\ UNCHANGED <<dbVars, credit, msg, gwVars, job, conn, faults>>

\* Mutated: a verdict that replaces AC takes nothing back.
SaveVerdict_NeverDeducts(w) ==
    LET s == SubOf(job[w]) IN
    /\ wpc[w] = "judge"
    /\ IF RowExists(s)
          THEN \E v \in Verdicts :
                 /\ status' = [status EXCEPT ![s] = v]
                 /\ acCounted' = [acCounted EXCEPT ![s] = v = "AC"]
                 /\ WGoto(w, IF v = "AC" /\ status[s] # "AC" THEN "inc" ELSE "ack")
          ELSE UNCHANGED dbVars /\ WGoto(w, "ack")
    /\ UNCHANGED <<credit, msg, gwVars, job, conn, faults>>

\* Mutated: every AC is counted, a second one of a message delivered again too.
SaveVerdict_CountsEveryAC(w) ==
    LET s == SubOf(job[w]) IN
    /\ wpc[w] = "judge"
    /\ IF RowExists(s)
          THEN \E v \in Verdicts :
                 /\ status' = [status EXCEPT ![s] = v]
                 /\ acCounted' = [acCounted EXCEPT ![s] = v = "AC"]
                 /\ WGoto(w, CASE v = "AC" -> "inc"
                               [] v # "AC" /\ status[s] = "AC" -> "dec"
                               [] OTHER -> "ack")
          ELSE UNCHANGED dbVars /\ WGoto(w, "ack")
    /\ UNCHANGED <<credit, msg, gwVars, job, conn, faults>>

\* engine.judge, then save_verdict: under the row lock, read the old status and write
\* the verdict; the pair of statuses decides the change of the counter.
SaveVerdict(w) ==
    LET s == SubOf(job[w]) IN
    /\ wpc[w] = "judge"
    /\ IF RowExists(s)
          THEN \E v \in Verdicts :
                 /\ status' = [status EXCEPT ![s] = v]
                 /\ acCounted' = [acCounted EXCEPT ![s] = v = "AC"]
                 /\ WGoto(w, CASE v = "AC" /\ status[s] # "AC" -> "inc"
                               [] v # "AC" /\ status[s] = "AC" -> "dec"
                               [] OTHER -> "ack")
          ELSE UNCHANGED dbVars /\ WGoto(w, "ack")
    /\ UNCHANGED <<credit, msg, gwVars, job, conn, faults>>

\* Mutated: the message is dead-lettered and the row keeps its status.
JudgeRaises_RowKept(w) ==
    /\ wpc[w] \in {"load", "judge"}
    /\ WGoto(w, "nack")
    /\ UNCHANGED <<dbVars, credit, msg, gwVars, job, conn, faults>>

\* The load, the engine or the transaction (rolled back) raises.
JudgeRaises(w) ==
    /\ wpc[w] \in {"load", "judge"}
    /\ WGoto(w, "mark")
    /\ UNCHANGED <<dbVars, credit, msg, gwVars, job, conn, faults>>

\* Applies d to the counter; a Redis failure is logged and swallowed.
Adjust(w, d, next) ==
    /\ WGoto(w, next)
    /\ \/ /\ credit' = [credit EXCEPT ![SubOf(job[w])] = @ + d]
          /\ UNCHANGED faults
       \/ Fault("redis") /\ UNCHANGED credit
    /\ UNCHANGED <<dbVars, msg, gwVars, job, conn>>

IncrementAc(w) == wpc[w] = "inc" /\ Adjust(w, 1, "ack")
DecrementAc(w) == wpc[w] = "dec" /\ Adjust(w, -1, "ack")

\* The error path reads the author again before it deducts, and finds none when the row
\* is gone.
UndoAc(w) ==
    /\ wpc[w] = "undo"
    /\ RowExists(SubOf(job[w]))
    /\ Adjust(w, -1, "nack")

UndoGone(w) ==
    /\ wpc[w] = "undo"
    /\ ~RowExists(SubOf(job[w]))
    /\ WGoto(w, "nack")
    /\ UNCHANGED <<dbVars, credit, msg, gwVars, job, conn, faults>>

Ack(w) ==
    /\ wpc[w] = "ack"
    /\ conn[w]
    /\ msg' = [msg EXCEPT ![job[w]] = "acked"]
    /\ WIdle(w)
    /\ UNCHANGED <<dbVars, credit, gwVars, faults>>

\* basic_ack on a connection known to be closed raises inside the try block, so the
\* judged submission is marked as failed.
AckRaises(w) ==
    /\ wpc[w] = "ack"
    /\ ~conn[w]
    /\ WGoto(w, "mark")
    /\ UNCHANGED <<dbVars, credit, msg, gwVars, job, conn, faults>>

\* basic_ack is written to a socket the broker has already closed.
AckUnheard(w) ==
    /\ wpc[w] = "ack"
    /\ ~conn[w]
    /\ WIdle(w)
    /\ UNCHANGED <<dbVars, credit, msg, gwVars, faults>>

\* Mutated: the old status is not looked at.
MarkError_NoDeduction(w) ==
    LET s == SubOf(job[w]) IN
    /\ wpc[w] = "mark"
    /\ IF RowExists(s)
          THEN /\ status' = [status EXCEPT ![s] = "RE"]
               /\ acCounted' = [acCounted EXCEPT ![s] = FALSE]
          ELSE UNCHANGED dbVars
    /\ WGoto(w, "nack")
    /\ UNCHANGED <<credit, msg, gwVars, job, conn, faults>>

\* Mutated: ac_counted is left as it is.
MarkError_FlagKept(w) ==
    LET s == SubOf(job[w]) IN
    /\ wpc[w] = "mark"
    /\ IF RowExists(s)
          THEN /\ status' = [status EXCEPT ![s] = "RE"]
               /\ UNCHANGED acCounted
               /\ WGoto(w, IF status[s] = "AC" THEN "undo" ELSE "nack")
          ELSE UNCHANGED dbVars /\ WGoto(w, "nack")
    /\ UNCHANGED <<credit, msg, gwVars, job, conn, faults>>

\* mark_submission_error: RE whatever the old status; AC before means a deduction.
MarkError(w) ==
    LET s == SubOf(job[w]) IN
    /\ wpc[w] = "mark"
    /\ IF RowExists(s)
          THEN /\ status' = [status EXCEPT ![s] = "RE"]
               /\ acCounted' = [acCounted EXCEPT ![s] = FALSE]
               /\ WGoto(w, IF status[s] = "AC" THEN "undo" ELSE "nack")
          ELSE UNCHANGED dbVars /\ WGoto(w, "nack")
    /\ UNCHANGED <<credit, msg, gwVars, job, conn, faults>>

\* The UPDATE of mark_submission_error, or the load_submission_user after it, fails.
MarkFails(w) ==
    /\ wpc[w] \in {"mark", "undo"}
    /\ Fault("db")
    /\ WGoto(w, "nack")
    /\ UNCHANGED <<dbVars, credit, msg, gwVars, job, conn>>

\* basic_nack(requeue=False) dead-letters the message; without a connection it raises
\* or is not heard, and the message is queued again already.
Nack(w) ==
    /\ wpc[w] = "nack"
    /\ msg' = IF conn[w] THEN [msg EXCEPT ![job[w]] = "dead"] ELSE msg
    /\ WIdle(w)
    /\ UNCHANGED <<dbVars, credit, gwVars, faults>>

\* The broker closes the connection (missed heartbeats during a long judging, a
\* restart): the message goes back to the queue, the worker does not notice.
ConnDrop(w) ==
    /\ wpc[w] # "idle"
    /\ conn[w]
    /\ Fault("conn")
    /\ conn' = [conn EXCEPT ![w] = FALSE]
    /\ msg' = [msg EXCEPT ![job[w]] = "ready"]
    /\ UNCHANGED <<dbVars, credit, gwVars, wpc, job>>

\* The process dies and is started again; the broker requeues what it has not had
\* acknowledged.
WorkerCrash(w) ==
    /\ wpc[w] # "idle"
    /\ Fault("crash")
    /\ msg' = IF conn[w] /\ msg[job[w]] = "unacked"
                 THEN [msg EXCEPT ![job[w]] = "ready"] ELSE msg
    /\ WIdle(w)
    /\ UNCHANGED <<dbVars, credit, gwVars>>

-----------------------------------------------------------------------------
SubmitStep(s) == SubmitInsert(s) \/ SubmitMarkRE(s)

RejudgeStep(r) ==
    RejudgeRead(r) \/ RejudgeFlip(r) \/ RejudgeReset(r) \/ RejudgeUndo(r)

WorkerStep(w) ==
    \/ \E h \in Handlers : Deliver(w, h)
    \/ Load(w) \/ SaveVerdict(w) \/ JudgeRaises(w)
    \/ IncrementAc(w) \/ DecrementAc(w) \/ UndoAc(w) \/ UndoGone(w)
    \/ Ack(w) \/ AckRaises(w) \/ AckUnheard(w)
    \/ MarkError(w) \/ MarkFails(w) \/ Nack(w)

Next ==
    \/ \E s \in Subs : SubmitStep(s) \/ DeleteProblem(s)
    \/ \E r \in Rejudges : RejudgeStep(r)
    \/ \E h \in Handlers :
          Reject(h) \/ Send(h) \/ SendLost(h) \/ SendThrows(h) \/ HandlerDies(h)
    \/ \E w \in Workers : WorkerStep(w) \/ ConnDrop(w) \/ WorkerCrash(w)

Spec == Init /\ [][Next]_vars

\* A handler that has begun runs on to its end, and a worker takes and finishes jobs:
\* neither waits for anything but the calls modelled here, all of which return. No
\* fairness on requests, faults or deletions.
Fairness ==
    /\ \A s \in Subs : WF_vars(SubmitMarkRE(s))
    /\ \A r \in Rejudges : WF_vars(RejudgeFlip(r) \/ RejudgeReset(r) \/ RejudgeUndo(r))
    /\ \A h \in Handlers : WF_vars(Send(h))
    /\ \A w \in Workers : WF_vars(WorkerStep(w))

FairSpec == Spec /\ Fairness

-----------------------------------------------------------------------------
(* Properties *)

\* Every variable keeps its type.
TypeOK ==
    /\ status \in [Subs -> Statuses]
    /\ acCounted \in [Subs -> BOOLEAN]
    /\ credit \in [Subs -> Int]
    /\ msg \in [Handlers -> {"none", "ready", "unacked", "acked", "dead", "lost"}]
    /\ gw \in [Handlers -> {"new", "update", "undo", "send", "mark", "done"}]
    /\ saw \in [Rejudges -> BOOLEAN]
    /\ wpc \in [Workers -> {"idle", "load", "judge", "inc", "dec", "ack", "mark", "undo", "nack"}]
    /\ job \in [Workers -> Handlers \cup {NoJob}]
    /\ conn \in [Workers -> BOOLEAN]
    /\ faults \in [count : 0..MaxFaults, kinds : SUBSET Faults]

\* Deductions and additions that are decided in the database and not yet applied to the
\* counter: the workers and the rejudge handlers between the two.
Adding(s)     == {w \in Workers : wpc[w] = "inc" /\ SubOf(job[w]) = s}
Deducting(s)  == {w \in Workers : wpc[w] \in {"dec", "undo"} /\ SubOf(job[w]) = s}
RollingBack(s) == {r \in Rejudges : gw[r] = "undo" /\ Target[r] = s}

Owed(s) ==
    Cardinality(Adding(s)) - Cardinality(Deducting(s)) - Cardinality(RollingBack(s))

Counted(s) == IF acCounted[s] THEN 1 ELSE 0

\* The flag ac_counted and the verdict never disagree, whoever wrote the row last: the
\* worker, its error path, a rejudge or a cascade.
\* Only the catch block of submit, after a publish that threw, touches one of the two.
CountedIffAC ==
    "publish" \in faults.kinds \/ \A s \in Subs : acCounted[s] <=> status[s] = "AC"

\* No interleaving of rejudges, duplicate deliveries and error paths deducts twice: once
\* the changes on their way are applied, an AC row is worth at least one point and no
\* row is worth a negative number (rejudge's conditional UPDATE, save_verdict's row lock).
\* A failed ZINCRBY and a crash between commit and ZINCRBY do lose points.
NeverUnderCounted ==
    \/ faults.kinds \cap {"redis", "crash"} # {}
    \/ \A s \in Subs : credit[s] + Owed(s) >= Counted(s)

\* The rejudges of s that may have left a point behind: one that did not read the row as
\* counted resets it without a deduction, although a worker may have counted it since; one
\* that did read it so owes its deduction, which is dropped if its handler dies.
Unpaid(s) ==
    {r \in Rejudges : /\ Target[r] = s
                      /\ IF saw[r] THEN gw[r] = "done" /\ "gateway" \in faults.kinds
                                   ELSE gw[r] \in {"send", "done"}}

\* However often a message is delivered, whatever the error path marks and whichever handlers
\* die, a submission is not counted twice: a point too many is due to a rejudge, one to each
\* at most, and to none that read the row as counted and ran to its end (the old status
\* under the row lock of save_verdict, the conditional UPDATE of rejudge).
NeverOverCounted ==
    \/ faults.kinds \cap {"redis", "crash", "db"} # {}
    \/ \A s \in Subs : status[s] # "deleted" =>
          credit[s] + Owed(s) <= Counted(s) + Cardinality(Unpaid(s))

\* When administrators rejudge only rows they read as AC and counted, the counter is
\* exact once the changes on their way are applied, even with concurrent rejudges and
\* with a message processed by two workers.
ExactCredit ==
    \A s \in Subs : status[s] # "deleted" => credit[s] + Owed(s) = Counted(s)

\* A submission is PENDING only while somebody will still judge it: a message is queued
\* or with a worker that has not written the verdict, or a handler is about to publish.
WillPublish(h) == gw[h] \in {"undo", "send", "mark"}

Underway(s) ==
    \/ \E h \in Handlers : SubOf(h) = s /\ (WillPublish(h) \/ msg[h] = "ready")
    \/ \E w \in Workers : wpc[w] \in {"load", "judge", "mark"} /\ SubOf(job[w]) = s

\* A row is abandoned for good by a message that is lost, an error path whose UPDATE
\* fails and a handler that dies before it publishes; nothing else abandons one.
Abandoning == {"publish", "db", "gateway"}

PendingIsUnderway ==
    \/ faults.kinds \cap Abandoning # {}
    \/ \A s \in Subs : status[s] = "PENDING" => Underway(s)

\* A submission does not stay PENDING: the web page that polls it sees a verdict.
PendingIsJudged ==
    \A s \in Subs :
        status[s] = "PENDING" ~> status[s] # "PENDING" \/ faults.kinds \cap Abandoning # {}

\* Nothing is on its way any more.
Quiet ==
    /\ \A h \in Handlers : gw[h] \in {"new", "done"} /\ msg[h] \notin {"ready", "unacked"}
    /\ \A w \in Workers : wpc[w] = "idle"

\* Whenever the pipeline is quiet, the leaderboard counts an accepted submission once
\* and any other not at all.
QuietIsExact ==
    Quiet => \A s \in Subs : RowExists(s) => credit[s] = IF status[s] = "AC" THEN 1 ELSE 0

\* The pipeline keeps the ledger of ScoreLedger: each change of a row to AC or away from
\* it is booked with one worker or one rejudge handler, and applied once.
Ledger == INSTANCE ScoreLedger WITH
    row     <- [s \in Subs |-> CASE status[s] = "AC" -> "accepted"
                                 [] status[s] = "deleted" -> "gone"
                                 [] OTHER -> "open"],
    points  <- credit,
    adds    <- [s \in Subs |-> Cardinality(Adding(s))],
    deducts <- [s \in Subs |-> Cardinality(Deducting(s)) + Cardinality(RollingBack(s))]

LedgerKept == Ledger!LSpec
=============================================================================
