--------------------------- MODULE MCSheetOutbox ---------------------------
(***************************************************************************)
(* TLC instance of SheetOutbox: a balance change of p1 and a lootsplit     *)
(* paid to p1 and p2.                                                      *)
(***************************************************************************)
EXTENDS SheetOutbox, TLC

CONSTANTS e1, e2, p1, p2, w1, w2

EconomyKind == e1 :> "balance.changed" @@ e2 :> "lootsplit.applied"
EconomyTouches == e1 :> {p1} @@ e2 :> {p1, p2}
=============================================================================
