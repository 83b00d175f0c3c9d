-------------------------- MODULE MCJudgePipeline --------------------------
(***************************************************************************)
(* JudgePipeline on small instances.  All rejudge requests name the same   *)
(* submission: requests for different submissions share nothing but the    *)
(* workers.                                                                *)
(***************************************************************************)
EXTENDS JudgePipeline, TLC

CONSTANTS s1, r1, r2, w1, w2

TargetS1 == [r \in Rejudges |-> s1]

\* Workers are interchangeable, and so are the requests that name s1.
WorkersAndRejudges == Permutations(Workers) \cup Permutations(Rejudges)
=============================================================================
