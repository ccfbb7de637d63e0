---------------------------- MODULE MCReactionRoles ----------------------------
(* One member, two emojis and two roles. *)
EXTENDS ReactionRoles
=============================================================================
