-------------------------- MODULE MCTicketRefunds --------------------------
(* Instances of TicketRefunds for TLC: what the tickets of a batch cost. *)
EXTENDS TicketRefunds

CONSTANTS p1, p2

MCPrice == [p \in Payment |-> IF p = p1 THEN 2 ELSE 1]
MCEvenPrice == [p \in Payment |-> 1]
=============================================================================
