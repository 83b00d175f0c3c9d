--------------------------- MODULE MCDailyProblem ---------------------------
(***************************************************************************)
(* DailyProblem over two days with two PUT requests that name different    *)
(* problems.                                                               *)
(***************************************************************************)
EXTENDS DailyProblem, TLC

CONSTANTS x, y, u1, u2, e1, g1, t1

AskedXY == [u \in Puts |-> IF u = u1 THEN x ELSE y]
=============================================================================
