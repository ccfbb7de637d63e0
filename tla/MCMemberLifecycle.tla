------------------------- MODULE MCMemberLifecycle -------------------------
(***************************************************************************)
(* TLC instances of MemberLifecycle.                                       *)
(***************************************************************************)
EXTENDS MemberLifecycle, TLC

CONSTANTS u1, u2, a1, a2, n1, n2, t1, t2, c1, c2

Everybody == Permutations(Users) \union Permutations(Characters) \union Permutations(Names)
=============================================================================
