------------------------------ MODULE MCTrials ------------------------------
(***************************************************************************)
(* TLC instance of Trials: two messages, the second one an attachment, and *)
(* faults by what is closed.                                               *)
(***************************************************************************)
EXTENDS Trials

LastIsFile == {MaxSaid}
FaultsOf == [archive |-> 1, legacy |-> 2, trial |-> 3]
=============================================================================
