---------------------------- MODULE MCTicketDesk ----------------------------
(* A buyer of three rows with the code, paid at the door, and one who      *)
(* named an amount and is to be confirmed by the desk.                     *)
EXTENDS TicketDesk, TLC

CONSTANTS t1, t2, t3, t4, fixed, open, alice, bob

MCTierOf == [t \in Ticket |-> IF t = t4 THEN open ELSE fixed]
MCOwnerOf == [t \in Ticket |-> IF t = t4 THEN bob ELSE alice]
MCQuantity == (fixed :> 2) @@ (open :> Unlimited)
MCMethod == (fixed :> "AT_THE_DOOR") @@ (open :> "OFFLINE")
MCOfTier == [k \in Tier |-> 2]

(* The coded rows are alike. *)
MCSymmetry == Permutations({t1, t2, t3})
=============================================================================
