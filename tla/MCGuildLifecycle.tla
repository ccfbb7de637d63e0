-------------------------- MODULE MCGuildLifecycle --------------------------
(***************************************************************************)
(* TLC instances of GuildLifecycle.                                        *)
(***************************************************************************)
EXTENDS GuildLifecycle, TLC

CONSTANTS s1, s2, t1, t2, w1, w2

Alike == Permutations({s1, s2}) \union Permutations({t1, t2}) \union Permutations({w1, w2})
=============================================================================
