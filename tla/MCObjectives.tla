------------------------------ MODULE MCObjectives ------------------------------
(* One objective and two panels.  Two steps of the wizard are kept: the rarity,   *)
(* which not every type has, and the modal of the map, which may be left blank.   *)
EXTENDS Objectives, TLC

MCAsked == ("rarity" :> <<"rarity", "map">>) @@ ("node" :> <<"map">>)
=============================================================================
