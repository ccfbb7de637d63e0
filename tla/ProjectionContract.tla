------------------------- MODULE ProjectionContract -------------------------
(***************************************************************************)
(* What the Google projection promises the reader of the Sheet, with no    *)
(* queue, lease, retry or crash in sight: a player's row is some version   *)
(* of the player, never a future one and never an older one than the row   *)
(* already showed; a history worksheet holds only committed changes, and   *)
(* each of them at most once, for ever.                                    *)
(***************************************************************************)
EXTENDS Naturals

CONSTANTS Events, Players, Touches, Worksheets

VARIABLES
    ledger,      \* version of each player in the ledger
    committed,   \* changes the ledger holds
    mirror,      \* version of each player shown by the Sheet
    posted       \* [Worksheets -> [Events -> rows of the change it shows]]

contract == <<ledger, committed, mirror, posted>>

Init ==
    /\ ledger = [p \in Players |-> 0]
    /\ committed = {}
    /\ mirror = [p \in Players |-> 0]
    /\ posted = [w \in Worksheets |-> [e \in Events |-> 0]]

Change(e) ==
    /\ e \notin committed
    /\ committed' = committed \union {e}
    /\ ledger' = [p \in Players |-> IF p \in Touches[e] THEN ledger[p] + 1 ELSE ledger[p]]
    /\ UNCHANGED <<mirror, posted>>

Refresh ==
    /\ mirror' \in [Players -> Nat]
    /\ \A p \in Players : mirror[p] <= mirror'[p] /\ mirror'[p] <= ledger[p]
    /\ UNCHANGED <<ledger, committed, posted>>

\* Post S on worksheet w: committed changes that w does not show yet.
Post(w, S) ==
    /\ \A e \in S : e \in committed /\ posted[w][e] = 0
    /\ posted' = [v \in Worksheets |->
                    IF v = w THEN [e \in Events |-> IF e \in S THEN 1 ELSE posted[w][e]]
                             ELSE posted[v]]
    /\ UNCHANGED <<ledger, committed, mirror>>

Next ==
    \/ \E e \in Events : Change(e)
    \/ Refresh
    \/ \E w \in Worksheets, S \in SUBSET Events : Post(w, S)

Spec == Init /\ [][Next]_contract
=============================================================================
