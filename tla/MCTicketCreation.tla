-------------------------- MODULE MCTicketCreation --------------------------
(***************************************************************************)
(* TLC instance of TicketCreation: one member who opens two tickets.       *)
(***************************************************************************)
EXTENDS TicketCreation

CONSTANTS o1, o2, u1

BothOf == [o \in {o1, o2} |-> u1]
=============================================================================
