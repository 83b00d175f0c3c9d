---------------------------- MODULE RunPipeline ----------------------------
(***************************************************************************)
(* Trial runs, from the panel of a problem page to the worker and back:    *)
(* RunPanel.tsx posts a run and polls it, routes/judge.ts (POST /run, GET  *)
(* /runs/:id) inserts, publishes and reads the row, and worker.py in mode  *)
(* "run" executes it.  The queue is the one of JudgePipeline, here with    *)
(* the messages of runs only.                                              *)
(***************************************************************************)
EXTENDS Naturals, FiniteSets

CONSTANTS
    MaxRuns,   \* bound: runs one panel starts
    Workers,
    MaxGets,   \* bound: polling requests in flight
    MaxTrouble \* bound: faults

RunAssumption == MaxRuns \in Nat /\ MaxGets \in Nat /\ MaxTrouble \in Nat

Runs == 1..MaxRuns

VARIABLES
    row,       \* runs.status, "none" while there is no row
    msg,       \* the message of a run
    gw,        \* where POST /run stands
    work,      \* each worker: where it stands, its run, whether the broker still holds its connection
    panel,     \* RunPanel: the run it polls, whether it says "running", what it shows
    gets,      \* answers to polling requests on their way: run and status
    trouble,   \* the kinds of faults so far
    late       \* for the properties: an answer came when its run was not polled any more

vars == <<row, msg, gw, work, panel, gets, trouble, late>>

\* What the program of a run gives; process_run writes CE as RE and keeps TLE, MLE.
Outcome(r) == IF r % 2 = 1 THEN "OK" ELSE "TLE"
Final == {"OK", "TLE", "RE"}
Newest == Cardinality({r \in Runs : gw[r] # "none"})
Nothing == [run |-> 0, status |-> "none"]
Idle == [pc |-> "idle", run |-> 0, held |-> TRUE]

Init ==
    /\ row = [r \in Runs |-> "none"] /\ msg = [r \in Runs |-> "none"]
    /\ gw = [r \in Runs |-> "none"]
    /\ work = [w \in Workers |-> Idle]
    /\ panel = [timer |-> 0, running |-> FALSE, shown |-> Nothing]
    /\ gets = {} /\ trouble = {} /\ late = FALSE

Fault(kind) ==
    /\ kind \notin trouble /\ Cardinality(trouble) < MaxTrouble
    /\ trouble' = trouble \cup {kind}
Set(r, status) == row' = [row EXCEPT ![r] = status]
Step(w, label) == work' = [work EXCEPT ![w].pc = label]

-----------------------------------------------------------------------------
(* The panel.                                                              *)

\* Mutated: the button is not disabled while a run is under way.
Run_NotDisabled ==
    /\ Newest < MaxRuns
    /\ gw' = [gw EXCEPT ![Newest + 1] = "insert"]
    /\ panel' = [timer |-> 0, running |-> TRUE, shown |-> Nothing]
    /\ UNCHANGED <<row, msg, work, gets, trouble, late>>

\* onRun: what was shown is cleared and the old timer stopped.
Run ==
    /\ ~panel.running /\ Newest < MaxRuns
    /\ gw' = [gw EXCEPT ![Newest + 1] = "insert"]
    /\ panel' = [timer |-> 0, running |-> TRUE, shown |-> Nothing]
    /\ UNCHANGED <<row, msg, work, gets, trouble, late>>

\* poll, or the catch block of onRun.
PostAnswered(r) ==
    /\ gw[r] \in {"sent", "failed"}
    /\ gw' = [gw EXCEPT ![r] = "done"]
    /\ panel' = IF gw[r] = "sent" THEN [panel EXCEPT !.timer = r]
                ELSE [panel EXCEPT !.running = FALSE]
    /\ UNCHANGED <<row, msg, work, gets, trouble, late>>

\* One turn of the interval, and GET /runs/:id: a turn does not wait for the one before.
Poll ==
    /\ panel.timer # 0 /\ Cardinality(gets) < MaxGets
    /\ gets' = gets \cup {[run |-> panel.timer, status |-> row[panel.timer]]}
    /\ UNCHANGED <<row, msg, gw, work, panel, trouble, late>>

\* An answer that comes after the panel has stopped polling its run, and is not the same
\* final result once more.
Late(g) == g.run # panel.timer /\ ~(g.run = Newest /\ g.status \in Final)

\* The answer is shown whatever run it is of; a final status stops the interval.
PollAnswered(g) ==
    /\ gets' = gets \ {g}
    /\ panel' = [panel EXCEPT !.shown = g,
                              !.running = IF g.status \in Final THEN FALSE ELSE @,
                              !.timer = IF g.status \in Final THEN 0 ELSE @]
    /\ late' = (late \/ Late(g))
    /\ UNCHANGED <<row, msg, gw, work, trouble>>

\* A polling request that fails ends the polling.
PollFails(g) ==
    /\ Fault("get")
    /\ gets' = gets \ {g}
    /\ panel' = [panel EXCEPT !.running = FALSE, !.timer = 0]
    /\ UNCHANGED <<row, msg, gw, work, late>>

-----------------------------------------------------------------------------
(* The gateway.                                                            *)

\* POST /run: no channel is answered 503 before anything is written.
Insert(r) ==
    /\ gw[r] = "insert"
    /\ \/ Set(r, "PENDING") /\ gw' = [gw EXCEPT ![r] = "send"] /\ UNCHANGED trouble
       \/ Fault("unavailable") /\ gw' = [gw EXCEPT ![r] = "failed"] /\ UNCHANGED row
    /\ UNCHANGED <<msg, work, panel, gets, late>>

\* sendToQueue, which may throw, or write into a connection that is already lost.
Send(r) ==
    /\ gw[r] = "send"
    /\ \/ /\ msg' = [msg EXCEPT ![r] = "ready"]
          /\ gw' = [gw EXCEPT ![r] = "sent"] /\ UNCHANGED trouble
       \/ /\ Fault("publish") /\ UNCHANGED msg
          /\ gw' = [gw EXCEPT ![r] = "sent"]
       \/ /\ Fault("throws") /\ UNCHANGED msg
          /\ gw' = [gw EXCEPT ![r] = "mark"]
    /\ UNCHANGED <<row, work, panel, gets, late>>

\* Mutated: the error is passed on and the row left as it is.
MarkUnsent_RowKept(r) ==
    /\ gw[r] = "mark"
    /\ gw' = [gw EXCEPT ![r] = "failed"]
    /\ UNCHANGED <<row, msg, work, panel, gets, trouble, late>>

\* Mutated: a status that the column does not know.
MarkUnsent_UnknownStatus(r) ==
    /\ gw[r] = "mark"
    /\ Set(r, "FAILED")
    /\ gw' = [gw EXCEPT ![r] = "failed"]
    /\ UNCHANGED <<msg, work, panel, gets, trouble, late>>

\* The catch block of POST /run.
MarkUnsent(r) ==
    /\ gw[r] = "mark"
    /\ Set(r, "RE")
    /\ gw' = [gw EXCEPT ![r] = "failed"]
    /\ UNCHANGED <<msg, work, panel, gets, trouble, late>>

-----------------------------------------------------------------------------
(* The worker.                                                             *)

Deliver(w, r) ==
    /\ work[w].pc = "idle" /\ msg[r] = "ready"
    /\ msg' = [msg EXCEPT ![r] = "unacked"]
    /\ work' = [work EXCEPT ![w] = [pc |-> "run", run |-> r, held |-> TRUE]]
    /\ UNCHANGED <<row, gw, panel, gets, trouble, late>>

\* process_run: run_code, then save_run_result, which looks at nothing but the id.
SaveRun(w) ==
    /\ work[w].pc = "run"
    /\ Set(work[w].run, Outcome(work[w].run))
    /\ Step(w, "ack")
    /\ UNCHANGED <<msg, gw, panel, gets, trouble, late>>

\* run_code or save_run_result raises.
RunRaises(w) ==
    /\ work[w].pc = "run"
    /\ Fault("raise")
    /\ Step(w, "mark")
    /\ UNCHANGED <<row, msg, gw, panel, gets, late>>

\* basic_ack; on a connection the broker has dropped it raises into the except block.
AckRun(w) ==
    /\ work[w].pc = "ack"
    /\ IF work[w].held
       THEN /\ msg' = [msg EXCEPT ![work[w].run] = "done"]
            /\ work' = [work EXCEPT ![w] = Idle]
       ELSE Step(w, "mark") /\ UNCHANGED msg
    /\ UNCHANGED <<row, gw, panel, gets, trouble, late>>

\* Mutated: the row is left as it is.
MarkRunError_RowKept(w) ==
    /\ work[w].pc = "mark"
    /\ Step(w, "nack")
    /\ UNCHANGED <<row, msg, gw, panel, gets, trouble, late>>

\* mark_run_error, whose own failure is logged (it comes on top of another one and is
\* not counted).
MarkRunError(w) ==
    /\ work[w].pc = "mark"
    /\ \/ Set(work[w].run, "RE") /\ UNCHANGED trouble
       \/ trouble' = trouble \cup {"db"} /\ UNCHANGED row
    /\ Step(w, "nack")
    /\ UNCHANGED <<msg, gw, panel, gets, late>>

\* Mutated: a message that failed is acknowledged.
NackRun_Acks(w) ==
    /\ work[w].pc = "nack"
    /\ msg' = IF work[w].held THEN [msg EXCEPT ![work[w].run] = "done"] ELSE msg
    /\ work' = [work EXCEPT ![w] = Idle]
    /\ UNCHANGED <<row, gw, panel, gets, trouble, late>>

\* basic_nack to the dead-letter queue; on a dropped connection it raises and the worker
\* connects again.
NackRun(w) ==
    /\ work[w].pc = "nack"
    /\ msg' = IF work[w].held THEN [msg EXCEPT ![work[w].run] = "dead"] ELSE msg
    /\ work' = [work EXCEPT ![w] = Idle]
    /\ UNCHANGED <<row, gw, panel, gets, trouble, late>>

\* The broker drops the connection of a worker that is running a program, or the worker
\* itself ends: the message that it held is ready again.
LoseWorker(w) ==
    /\ work[w].pc # "idle"
    /\ \/ work[w].held /\ Fault("conn") /\ work' = [work EXCEPT ![w].held = FALSE]
       \/ Fault("crash") /\ work' = [work EXCEPT ![w] = Idle]
    /\ msg' = IF work[w].held THEN [msg EXCEPT ![work[w].run] = "ready"] ELSE msg
    /\ UNCHANGED <<row, gw, panel, gets, late>>

WorkerStep(w) ==
    \/ \E r \in Runs : Deliver(w, r)
    \/ SaveRun(w) \/ AckRun(w) \/ MarkRunError(w) \/ NackRun(w)

GatewayStep(r) == Insert(r) \/ Send(r) \/ MarkUnsent(r)
PanelStep == (\E r \in Runs : PostAnswered(r)) \/ (\E g \in gets : PollAnswered(g)) \/ Poll

Next ==
    \/ Run \/ PanelStep
    \/ \E g \in gets : PollFails(g)
    \/ \E r \in Runs : GatewayStep(r)
    \/ \E w \in Workers : WorkerStep(w) \/ RunRaises(w) \/ LoseWorker(w)

\* Workers, handlers and the browser finish what they have begun.
RunFairness ==
    /\ \A w \in Workers : WF_vars(WorkerStep(w))
    /\ \A r \in Runs : WF_vars(GatewayStep(r)) /\ WF_vars(PostAnswered(r))

Spec == Init /\ [][Next]_vars /\ RunFairness

-----------------------------------------------------------------------------
\* Every variable keeps its type.
TypeOK ==
    /\ row \in [Runs -> {"none", "PENDING"} \cup Final]
    /\ msg \in [Runs -> {"none", "ready", "unacked", "done", "dead"}]
    /\ gw \in [Runs -> {"none", "insert", "send", "mark", "sent", "failed", "done"}]
    /\ work \in [Workers -> [pc : {"idle", "run", "ack", "mark", "nack"},
                             run : 0..MaxRuns, held : BOOLEAN]]
    /\ panel \in [timer : 0..MaxRuns, running : BOOLEAN,
                  shown : [run : 0..MaxRuns, status : {"none", "PENDING"} \cup Final]]
    /\ gets \subseteq [run : Runs, status : {"PENDING"} \cup Final]
    /\ late \in BOOLEAN

\* Nothing is under way for a run any more: its request was handled, it is not queued, and
\* no worker has it.
Quiet(r) ==
    /\ gw[r] \in {"sent", "failed", "done"} /\ msg[r] \notin {"ready", "unacked"}
    /\ \A w \in Workers : work[w].pc # "idle" => work[w].run # r

\* Such a run is not PENDING, whether it was acknowledged, dead-lettered or never queued,
\* unless its message or an UPDATE of the error path was lost.  Without a dropped
\* connection (which may turn the good result of one worker into the RE of another) an
\* acknowledged run has the result of its program, and a dead-lettered one is RE.
QuietRunIsRight ==
    \A r \in Runs : Quiet(r) =>
        /\ row[r] = "PENDING" => trouble \cap {"publish", "db"} # {}
        /\ msg[r] = "done" => row[r] = Outcome(r) \/ "conn" \in trouble
        /\ msg[r] = "dead" => row[r] = "RE" \/ trouble \cap {"db", "conn"} # {}

\* A run that was accepted leaves PENDING, unless its message or its update was lost.
RunIsAnswered ==
    \A r \in Runs : row[r] = "PENDING" ~> (row[r] \in Final \/ trouble \cap {"publish", "db"} # {})

\* What the panel shows in the end is the final result of the run it was asked for last,
\* however many of its requests are in flight, as long as no request failed and no answer
\* came late: one of an older run, or PENDING after the final status of the same run, is
\* shown all the same and stays.
PanelShowsNewest ==
    (~late /\ ~panel.running /\ panel.shown # Nothing /\ "get" \notin trouble)
    => panel.shown.run = Newest /\ panel.shown.status \in Final
=============================================================================
