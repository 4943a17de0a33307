--------------------------- MODULE TierInventory ---------------------------
(***************************************************************************)
(* What the ticketing paths promise about a tier's stock, without saying   *)
(* how: the counter quantity_sold and the set of live tickets (rows that   *)
(* exist and are not CANCELLED) move together, by the same tickets, in one *)
(* step.  A Slip is a step in which they part; it can only leave the       *)
(* counter too low, and it is recorded by exact becoming FALSE.  The       *)
(* detailed modules say which interleavings of the code are slips.         *)
(***************************************************************************)
EXTENDS Tiers

VARIABLES live,   \* ticket rows that occupy a seat
          sold,   \* [Tier -> Nat], TicketTier.quantity_sold
          exact   \* no slip has happened yet

vars == <<live, sold, exact>>

Init ==
  /\ live = {}
  /\ sold = [k \in Tier |-> 0]
  /\ exact = TRUE

(* A cart S is sold: all of it, or nothing. *)
Take(S) ==
  /\ S # {}
  /\ S \cap live = {}
  /\ TierCapacityLeft(sold, S)
  /\ live' = live \cup S
  /\ sold' = Bumped(sold, S)
  /\ UNCHANGED exact

(* The tickets S are cancelled or deleted and their places freed. *)
Give(S) ==
  /\ S \subseteq live
  /\ live' = live \ S
  /\ sold' = Released(sold, S)
  /\ UNCHANGED exact

(* The counter and the rows part; never by counting a ticket that is gone. *)
Slip ==
  /\ live' \in SUBSET Ticket
  /\ sold' \in [Tier -> Nat]
  /\ \A k \in Tier : sold'[k] <= sold[k] /\ sold'[k] <= CountOf(k, live')
  /\ exact' = FALSE

Next == (\E S \in SUBSET Ticket : Take(S) \/ Give(S)) \/ Slip

Spec == Init /\ [][Next]_vars

TypeOK ==
  /\ live \in SUBSET Ticket
  /\ sold \in [Tier -> Nat]
  /\ exact \in BOOLEAN

(* The counter and the rows agree, exactly until the first slip, and until *)
(* then no tier holds more live tickets than its stock.                    *)
StockKept == TypeOK /\ Account(sold, live, exact) /\ (exact => NoOversell(live))
=============================================================================
