---------------------------- MODULE SubmitPage ----------------------------
(***************************************************************************)
(* The page of a problem (problems/[id]/page.tsx) while its reader submits *)
(* solutions: the submission, the hook that polls for its verdict          *)
(* (usePollSubmission) and the one message line that the loading of the    *)
(* problem, the favourite button, the submission and the polling all write.*)
(***************************************************************************)
EXTENDS Integers, Sequences

CONSTANTS
    MaxSubs,       \* bound: submissions
    MaxAttempts,   \* the hook's maxAttempts, 25
    MaxTrouble     \* bound: requests that fail

PageAssumption == MaxSubs \in Nat /\ MaxAttempts \in Nat /\ MaxTrouble \in Nat

VARIABLES
    row,       \* the submissions, in the order of their ids: their status
    load,      \* the GETs of the problem and its samples: "wait" or "over"
    post,      \* the POST: "none", "sent", or "stored"
    id,        \* submissionId, 0 before the first
    gets,      \* the hook's GETs under way
    timer,     \* its next poll is scheduled
    attempts,
    item, done, error,   \* what the hook returns; item is the answer of one GET
    message,
    covered,   \* for the property: the message was written by something else since
    trouble

hook == <<gets, timer, attempts, item, done, error>>
vars == <<row, load, post, id, hook, message, covered, trouble>>

Statuses == {"PENDING", "AC", "WA"}
NoItem == [of |-> 0, status |-> "none"]
Says(kind) == [kind |-> kind, of |-> 0, status |-> "none"]

Init ==
    /\ row = <<>> /\ load = "wait" /\ post = "none" /\ id = 0
    /\ gets = {} /\ timer = FALSE /\ attempts = 0
    /\ item = NoItem /\ done = FALSE /\ error = FALSE
    /\ message = Says("loading") /\ covered = FALSE /\ trouble = 0

\* The effect that follows submissionId, done, submitResult and pollError.
Effect ==
    /\ message' = IF error' THEN Says("poll failed")
                  ELSE IF ~done' THEN Says("queued")
                  ELSE IF item'.status = "PENDING" THEN Says("still judging")
                  ELSE [kind |-> "judged", of |-> item'.of, status |-> item'.status]
    /\ covered' = FALSE

\* Another writer of the line.
Write(kind) == message' = Says(kind) /\ covered' = TRUE

\* The problem and its samples have come, or have not.
LoadAnswered ==
    /\ load = "wait" /\ load' = "over"
    /\ \/ Write("nothing") /\ UNCHANGED trouble
       \/ trouble < MaxTrouble /\ trouble' = trouble + 1 /\ Write("load failed")
    /\ UNCHANGED <<row, post, id, hook>>

\* toggleFavorite fails.
FavoriteFails ==
    /\ trouble < MaxTrouble /\ trouble' = trouble + 1
    /\ Write("favourite failed")
    /\ UNCHANGED <<row, load, post, id, hook>>

\* onSubmit of empty code, or of a reader who has logged out.
SubmitRefused ==
    /\ post = "none"
    /\ Write("refused")
    /\ UNCHANGED <<row, load, post, id, hook, trouble>>

\* onSubmit: the button and the editor are disabled until the answer.
Submit ==
    /\ post = "none" /\ Len(row) < MaxSubs
    /\ post' = "sent"
    /\ Write("sending")
    /\ UNCHANGED <<row, load, id, hook, trouble>>

\* The gateway stores the submission.
Stored ==
    /\ post = "sent" /\ post' = "stored"
    /\ row' = Append(row, "PENDING")
    /\ UNCHANGED <<load, id, hook, message, covered, trouble>>

\* The POST fails, before or after the row was stored.
SubmitFails ==
    /\ post # "none" /\ post' = "none"
    /\ trouble < MaxTrouble /\ trouble' = trouble + 1
    /\ Write("submit failed")
    /\ UNCHANGED <<row, load, id, hook>>

\* Mutated: the clean-up clears the timer and leaves the GET under way valid.
Submitted_NotCancelled ==
    /\ post = "stored" /\ post' = "none"
    /\ id' = Len(row)
    /\ gets' = gets \cup {[of |-> Len(row), status |-> "none", void |-> FALSE]}
    /\ timer' = FALSE /\ attempts' = 0
    /\ item' = NoItem /\ done' = FALSE /\ error' = FALSE
    /\ Effect
    /\ UNCHANGED <<row, load, trouble>>

\* The new id: the hook's clean-up cancels the polling of the one before,
\* the hook starts anew, and its first GET leaves.
Submitted ==
    /\ post = "stored" /\ post' = "none"
    /\ id' = Len(row)
    /\ gets' = {[g EXCEPT !.void = TRUE] : g \in gets}
                  \cup {[of |-> Len(row), status |-> "none", void |-> FALSE]}
    /\ timer' = FALSE /\ attempts' = 0
    /\ item' = NoItem /\ done' = FALSE /\ error' = FALSE
    /\ Effect
    /\ UNCHANGED <<row, load, trouble>>

\* The worker judges (external).
Judge(i) ==
    /\ row[i] = "PENDING"
    /\ \E s \in {"AC", "WA"} : row' = [row EXCEPT ![i] = s]
    /\ UNCHANGED <<load, post, id, hook, message, covered, trouble>>

\* The server reads the row a GET asks for.
Read(g) ==
    /\ g.status = "none"
    /\ gets' = (gets \ {g}) \cup {[g EXCEPT !.status = row[g.of]]}
    /\ UNCHANGED <<row, load, post, id, timer, attempts, item, done, error, message, covered, trouble>>

\* poll: the last attempt ends the polling, whatever it brings.
Polled(g) ==
    /\ g.status # "none" /\ ~g.void
    /\ gets' = gets \ {g}
    /\ item' = [of |-> g.of, status |-> g.status]
    /\ LET over == g.status # "PENDING" \/ attempts >= MaxAttempts IN
       /\ done' = (done \/ over)
       /\ timer' = (timer \/ ~over)
       /\ attempts' = IF over THEN attempts ELSE attempts + 1
    /\ UNCHANGED error
    /\ Effect
    /\ UNCHANGED <<row, load, post, id, trouble>>

PollFails(g) ==
    /\ trouble < MaxTrouble /\ trouble' = trouble + 1
    /\ ~g.void
    /\ gets' = gets \ {g}
    /\ error' = TRUE /\ done' = TRUE
    /\ UNCHANGED <<timer, attempts, item>>
    /\ Effect
    /\ UNCHANGED <<row, load, post, id>>

\* A cancelled poll ends without a trace.
Ignored(g) ==
    /\ g.void
    /\ gets' = gets \ {g}
    /\ UNCHANGED <<row, load, post, id, timer, attempts, item, done, error, message, covered, trouble>>

TimerFires ==
    /\ timer /\ timer' = FALSE
    /\ gets' = gets \cup {[of |-> id, status |-> "none", void |-> FALSE]}
    /\ UNCHANGED <<row, load, post, id, attempts, item, done, error, message, covered, trouble>>

Next ==
    \/ LoadAnswered \/ FavoriteFails
    \/ SubmitRefused \/ Submit \/ Stored \/ SubmitFails \/ Submitted
    \/ \E i \in DOMAIN row : Judge(i)
    \/ \E g \in gets : Read(g) \/ Polled(g) \/ PollFails(g) \/ Ignored(g)
    \/ TimerFires

Spec == Init /\ [][Next]_vars

-----------------------------------------------------------------------------
\* Every variable has its type.
TypeOK ==
    /\ row \in Seq(Statuses) /\ Len(row) <= MaxSubs /\ id \in 0..Len(row)
    /\ load \in {"wait", "over"} /\ post \in {"none", "sent", "stored"}
    /\ timer \in BOOLEAN /\ done \in BOOLEAN /\ error \in BOOLEAN /\ covered \in BOOLEAN
    /\ attempts \in 0..MaxAttempts /\ trouble \in 0..MaxTrouble
    /\ \A g \in gets : g.of \in DOMAIN row /\ g.status \in Statuses \cup {"none"} /\ g.void \in BOOLEAN

PollingOver == post = "none" /\ ~timer /\ \A g \in gets : g.void

\* When the polling of the newest submission is over, the line says that
\* submission's verdict, or that a poll failed, or after maxAttempts further
\* polls that it is still judged; never what an older submission's poll brings
\* late.  Unless the loading, a favourite or a refused submission wrote
\* over it since (usePollSubmission and the message effect).
VerdictIsShown ==
    PollingOver /\ id # 0 /\ ~covered =>
        \/ message = [kind |-> "judged", of |-> id, status |-> row[id]]
        \/ message = Says("still judging") /\ item.of = id /\ attempts = MaxAttempts
        \/ message = Says("poll failed") /\ error
=============================================================================
