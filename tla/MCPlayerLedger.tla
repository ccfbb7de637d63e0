--------------------------- MODULE MCPlayerLedger ---------------------------
(***************************************************************************)
(* TLC instances of PlayerLedger: two accounts that compete for a          *)
(* nickname and an Albion character, one idempotency key, balances up to 2. *)
(***************************************************************************)
EXTENDS PlayerLedger, TLC

CONSTANTS u1, u2, n1, n2, a1, k1

Withdraw == -2
BothWays == {1, Withdraw}

Accounts == Permutations({u1, u2}) \union Permutations({n1, n2})
=============================================================================
