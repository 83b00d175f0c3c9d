---------------------------- MODULE MCUserAdmin ----------------------------
(***************************************************************************)
(* UserAdmin with two users, administrators or not at first, and two        *)
(* requests.                                                               *)
(***************************************************************************)
EXTENDS UserAdmin, TLC

CONSTANTS ann, bob, p1, p2

UsersAndPuts == Permutations(Users) \cup Permutations(Puts)
=============================================================================
