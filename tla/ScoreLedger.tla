---------------------------- MODULE ScoreLedger ----------------------------
(***************************************************************************)
(* What the leaderboard counter promises.  A row of submissions is open,   *)
(* accepted or gone.  Every change between open and accepted is booked     *)
(* exactly once, as an addition or a deduction that is still due, and      *)
(* every booking is applied exactly once, some time later: the counter is  *)
(* written behind the table, never instead of it.                          *)
(***************************************************************************)
EXTENDS Integers

CONSTANT Subs

VARIABLES
    row,       \* "open", "accepted" or "gone"
    points,    \* what the submission is worth on the leaderboard
    adds,      \* additions booked and not applied
    deducts    \* deductions booked and not applied

ledger == <<row, points, adds, deducts>>

LInit ==
    /\ row = [s \in Subs |-> "open"]
    /\ points = [s \in Subs |-> 0]
    /\ adds = [s \in Subs |-> 0]
    /\ deducts = [s \in Subs |-> 0]

Accept(s) ==
    /\ row[s] = "open"
    /\ row' = [row EXCEPT ![s] = "accepted"]
    /\ adds' = [adds EXCEPT ![s] = @ + 1]
    /\ UNCHANGED <<points, deducts>>

Reopen(s) ==
    /\ row[s] = "accepted"
    /\ row' = [row EXCEPT ![s] = "open"]
    /\ deducts' = [deducts EXCEPT ![s] = @ + 1]
    /\ UNCHANGED <<points, adds>>

Add(s) ==
    /\ adds[s] > 0
    /\ adds' = [adds EXCEPT ![s] = @ - 1]
    /\ points' = [points EXCEPT ![s] = @ + 1]
    /\ UNCHANGED <<row, deducts>>

Deduct(s) ==
    /\ deducts[s] > 0
    /\ deducts' = [deducts EXCEPT ![s] = @ - 1]
    /\ points' = [points EXCEPT ![s] = @ - 1]
    /\ UNCHANGED <<row, adds>>

\* A deleted row keeps the points it has; a deduction still due may be dropped.
Delete(s) ==
    /\ row[s] # "gone"
    /\ row' = [row EXCEPT ![s] = "gone"]
    /\ UNCHANGED <<points, adds, deducts>>

Drop(s) ==
    /\ row[s] = "gone"
    /\ deducts[s] > 0
    /\ deducts' = [deducts EXCEPT ![s] = @ - 1]
    /\ UNCHANGED <<row, points, adds>>

LNext ==
    \E s \in Subs :
        Accept(s) \/ Reopen(s) \/ Add(s) \/ Deduct(s) \/ Delete(s) \/ Drop(s)

LSafety == LInit /\ [][LNext]_ledger

\* What is booked is applied in the end.
LSpec ==
    /\ LSafety
    /\ \A s \in Subs : WF_ledger(Add(s)) /\ WF_ledger(Deduct(s) \/ Drop(s))

-----------------------------------------------------------------------------
LTypeOK ==
    /\ row \in [Subs -> {"open", "accepted", "gone"}]
    /\ points \in [Subs -> Int]
    /\ adds \in [Subs -> Nat]
    /\ deducts \in [Subs -> Nat]

\* With the bookings applied, an accepted row is worth one point, an open one none.
Balanced ==
    \A s \in Subs : row[s] # "gone" =>
        points[s] + adds[s] - deducts[s] = IF row[s] = "accepted" THEN 1 ELSE 0
=============================================================================
