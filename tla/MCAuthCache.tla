---------------------------- MODULE MCAuthCache ----------------------------
(***************************************************************************)
(* AuthCache on small instances: two requests at a time, with one token or *)
(* with one each.                                                          *)
(***************************************************************************)
EXTENDS AuthCache, TLC

CONSTANTS q1, q2, u1, u2, t1

OneToken == [q \in Requests |-> t1]

\* A token that outlives the model, and one that runs out while its entry is cached.
LongLife == [t \in Tokens |-> Forever]
ShortLife == [t \in Tokens |-> 1]

RequestsAndUpdates == Permutations(Requests) \cup Permutations(Updates)
=============================================================================
