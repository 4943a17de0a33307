-------------------------- MODULE MCTicketCheckout --------------------------
(* A small event: three ticket rows over two tiers, two reservations.      *)
EXTENDS TicketCheckout, TLC

CONSTANTS t1, t2, t3, regular, vip, r1, r2

MCTierOf == [t \in Ticket |-> IF t = t2 THEN vip ELSE regular]

MCQuantity == (regular :> 1) @@ (vip :> Unlimited)
=============================================================================
