------------------------------- MODULE Tiers -------------------------------
(***************************************************************************)
(* Ticket tiers and their denormalised stock counter                       *)
(* TicketTier.quantity_sold.  A ticket id stands for one row that may be   *)
(* written once; the tier it belongs to is fixed with the id.  Every path  *)
(* that sells or gives back a ticket moves the counter through one of the  *)
(* operators below, so the modules that model those paths share them.      *)
(***************************************************************************)
EXTENDS Integers, FiniteSets

CONSTANTS Ticket,         \* ids of the ticket rows that may ever be written
          Tier,           \* ticket tiers of one event
          TierOf,         \* the tier a ticket row is written against
          TotalQuantity,  \* tier.total_quantity, or Unlimited for NULL
          Unlimited

ASSUME TicketAssumption == IsFiniteSet(Ticket)
ASSUME TierAssumption == TierOf \in [Ticket -> Tier]
ASSUME QuantityAssumption ==
  /\ TotalQuantity \in [Tier -> Nat \cup {Unlimited}]
  /\ Unlimited \notin Nat

(* The tickets of S written against tier k, and how many they are. *)
OfTier(k, S) == {t \in S : TierOf[t] = k}
CountOf(k, S) == Cardinality(OfTier(k, S))

(* assert_tier_capacity for a cart S, asked of every tier the cart names:  *)
(* sold out, or fewer left than the cart wants, refuses the whole cart.    *)
TierCapacityLeft(sold, S) ==
  \A k \in {TierOf[t] : t \in S} :
    TotalQuantity[k] # Unlimited => sold[k] + CountOf(k, S) <= TotalQuantity[k]

(* quantity_sold = F("quantity_sold") + count, per tier. *)
Bumped(sold, S) == [k \in Tier |-> sold[k] + CountOf(k, S)]

(* quantity_sold = Greatest(F("quantity_sold") - count, 0), per tier; and  *)
(* the subtraction without its floor.                                      *)
Unfloored(n) == n
FlooredAtZero(n) == IF n < 0 THEN 0 ELSE n
Released(sold, S) == [k \in Tier |-> FlooredAtZero(sold[k] - CountOf(k, S))]

-----------------------------------------------------------------------------
(* What is true of the counter sold while the tickets L occupy a place:    *)

(* the tier is never sold beyond its stock by the counter's own account    *)
(* (assert_tier_capacity under the tier's row lock);                       *)
WithinStock(sold) ==
  \A k \in Tier : TotalQuantity[k] # Unlimited => sold[k] <= TotalQuantity[k]

(* no place stays counted after its ticket is gone: a leak would show a    *)
(* tier sold out for ever, and no sweep of the code would ever repair it;  *)
NoLeakedPlace(sold, L) == \A k \in Tier : sold[k] <= CountOf(k, L)

(* and while nothing has gone wrong the counter is exact.                  *)
CounterExact(sold, L) == \A k \in Tier : sold[k] = CountOf(k, L)

Account(sold, L, exact) ==
  /\ sold \in [Tier -> Nat]
  /\ L \in SUBSET Ticket
  /\ WithinStock(sold)
  /\ NoLeakedPlace(sold, L)
  /\ exact => CounterExact(sold, L)

(* No tier holds more tickets than its stock. *)
NoOversell(L) ==
  \A k \in Tier : TotalQuantity[k] # Unlimited => CountOf(k, L) <= TotalQuantity[k]
=============================================================================
