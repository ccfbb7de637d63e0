---------------------------- MODULE MCReactionPanels ----------------------------
(* The panel and up to two publications that replace it, two edits, and one fault. *)
EXTENDS ReactionPanels
=============================================================================
