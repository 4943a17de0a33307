----------------------------- MODULE TicketDesk -----------------------------
(***************************************************************************)
(* Tickets paid off-platform (OFFLINE, AT_THE_DOOR, FREE): the checkout    *)
(* that writes them, the organizer's desk (confirm, unconfirm, cancel,     *)
(* mark refunded), the buyer's cancellation and the scan at the door; and  *)
(* the discount code a cart may carry.                                     *)
(*                                                                         *)
(* Cancelling takes the ticket's row lock and asks its status again, so it *)
(* is one action.  Confirm, unconfirm and the scan read the ticket without *)
(* a lock and save the columns they decided on then: they are split, and   *)
(* what they read is remembered.  A checkout counts the buyer's tickets    *)
(* and the code's uses before it locks the tiers, and is split there.      *)
(*                                                                         *)
(* The event has no overall capacity here and no ticket belongs to a       *)
(* series pass (the desk refuses those).                                   *)
(***************************************************************************)
EXTENDS Tiers

CONSTANTS User,
          OwnerOf,            \* the buyer a ticket row is written for
          Method,             \* tier.payment_method
          PayWhatYouCan,      \* tiers whose price the desk types in
          Coded,              \* rows written with the discount code
          MaxTicketsPerUser,  \* event.max_tickets_per_user
          MaxOfTier,          \* tier.max_tickets_per_user
          MaxUses,            \* discount_code.max_uses
          MaxUsesPerUser,     \* discount_code.max_uses_per_user
          MaxInFlight         \* bound: requests between a read and a write

ASSUME OwnerAssumption == OwnerOf \in [Ticket -> User]
ASSUME MethodAssumption == Method \in [Tier -> {"OFFLINE", "AT_THE_DOOR", "FREE"}]
ASSUME CodedAssumption ==
  \A t \in Coded : t \in Ticket /\ TierOf[t] \notin PayWhatYouCan /\ Method[TierOf[t]] # "FREE"
ASSUME LimitAssumption ==
  /\ {MaxTicketsPerUser, MaxUses, MaxUsesPerUser, MaxInFlight} \subseteq Nat
  /\ MaxOfTier \in [Tier -> Nat]

VARIABLES
  ticket,         \* status of each ticket row, "unwritten" before it exists
  priced,         \* pay-what-you-can tickets whose price_paid is recorded
  refunded,       \* tickets with an offline_refund_amount
  quantity_sold,  \* TicketTier.quantity_sold
  times_used,     \* DiscountCode.times_used
  carts,          \* carts past the unlocked checks, not yet at the tier locks
  desk,           \* staff requests that have read their ticket
  stale,          \* history: tickets written on a reading no longer true
  exact           \* history: no cancelled ticket was written back to life

rows == <<ticket, priced, refunded, quantity_sold, times_used>>
requests == <<carts, desk>>
history == <<stale, exact>>
vars == <<rows, requests, history>>

Request == [do : {"confirm", "unconfirm", "check-in"}, ticket : Ticket,
            read : {"PENDING", "ACTIVE"}, priced : BOOLEAN, pays : BOOLEAN,
            nth : 1 .. MaxInFlight]

TypeOK ==
  /\ ticket \in [Ticket -> {"unwritten", "PENDING", "ACTIVE", "CHECKED_IN", "CANCELLED"}]
  /\ priced \in SUBSET {t \in Ticket : TierOf[t] \in PayWhatYouCan}
  /\ refunded \in SUBSET Ticket
  /\ quantity_sold \in [Tier -> Nat]
  /\ times_used \in 0 .. MaxUses
  /\ carts \in SUBSET SUBSET Ticket
  /\ desk \in SUBSET Request
  /\ stale \in SUBSET Ticket
  /\ exact \in BOOLEAN

Init ==
  /\ ticket = [t \in Ticket |-> "unwritten"]
  /\ priced = {} /\ refunded = {}
  /\ quantity_sold = [k \in Tier |-> 0]
  /\ times_used = 0
  /\ carts = {} /\ desk = {}
  /\ stale = {} /\ exact = TRUE

-----------------------------------------------------------------------------
(* Reading the rows. *)

Written == {t \in Ticket : ticket[t] # "unwritten"}
Live == {t \in Written : ticket[t] # "CANCELLED"}

IsPWYC(t) == TierOf[t] \in PayWhatYouCan
MethodOf(t) == Method[TierOf[t]]

(* get_user_ticket_count and the code's user_usage filter alike. *)
Held(u) == {t \in Ticket : OwnerOf[t] = u /\ ticket[t] \in {"PENDING", "ACTIVE"}}

(* _is_offline_paid. *)
OfflinePaid(t) ==
  \/ MethodOf(t) = "OFFLINE" /\ ticket[t] \in {"ACTIVE", "CHECKED_IN"}
  \/ MethodOf(t) = "AT_THE_DOOR" /\ ticket[t] = "CHECKED_IN"

-----------------------------------------------------------------------------
(* Checkout. *)

(* A cart has one buyer and one payment method, and within a tier all of   *)
(* its tickets carry the code or none does.                                *)
IsCart(S) ==
  /\ S # {}
  /\ \A t, s \in S : /\ OwnerOf[t] = OwnerOf[s]
                     /\ MethodOf(t) = MethodOf(s)
                     /\ TierOf[t] = TierOf[s] => (t \in Coded <=> s \in Coded)

(* assert_per_user_limits: the event's cap, and that of each tier bought.  *)
WithinLimits(u, S) ==
  /\ Cardinality(Held(u) \cup S) <= MaxTicketsPerUser
  /\ \A s \in S :
       Cardinality({t \in Held(u) \cup S : TierOf[t] = TierOf[s]}) <= MaxOfTier[TierOf[s]]

(* validate_discount_code. *)
CodeLooksUsable(u, S) ==
  S # {} => /\ times_used < MaxUses
            /\ Cardinality(Held(u) \cap Coded) + Cardinality(S) <= MaxUsesPerUser

(* Both are asked before any lock.  Rows are written once, so a cart that  *)
(* is waiting owns the rows it names.                                      *)
CheckCaps(S) ==
  /\ IsCart(S)
  /\ S \cap (Written \cup UNION carts) = {}
  /\ Cardinality(carts) + Cardinality(desk) < MaxInFlight
  /\ LET u == OwnerOf[CHOOSE t \in S : TRUE]
     IN  /\ CodeLooksUsable(u, S \cap Coded)
         /\ WithinLimits(u, S)
  /\ carts' = carts \cup {S}
  /\ UNCHANGED <<rows, desk, history>>

(* apply_discount: the limits under the code's row lock, the cart's own    *)
(* tickets already counted; and forms that trust the earlier look at one   *)
(* of them.                                                                *)
PerUserUnchecked(u, S) == S # {} => times_used + Cardinality(S) <= MaxUses
UsesUnchecked(u, S) == S # {} => Cardinality((Held(u) \cap Coded) \cup S) <= MaxUsesPerUser

CodeStillUsable(u, S) ==
  S # {} => /\ times_used + Cardinality(S) <= MaxUses
            /\ Cardinality((Held(u) \cap Coded) \cup S) <= MaxUsesPerUser

(* apply_discount counts the tickets that carry the code, not the cart.    *)
WholeCart(S) == Cardinality(S)
Uses(S) == Cardinality(S \cap Coded)

(* Under the tier locks: capacity, the rows, the counter, then the code.  A*)
(* refusal anywhere rolls all of it back.  An OFFLINE ticket awaits its    *)
(* confirmation; a pay-what-you-can cart names its amount.                 *)
Purchase(S) ==
  /\ S \in carts
  /\ carts' = carts \ {S}
  /\ LET u == OwnerOf[CHOOSE t \in S : TRUE]
     IN  \/ /\ TierCapacityLeft(quantity_sold, S)
            /\ CodeStillUsable(u, S \cap Coded)
            /\ ticket' = [t \in Ticket |->
                            IF t \notin S THEN ticket[t]
                            ELSE IF MethodOf(t) = "OFFLINE" THEN "PENDING" ELSE "ACTIVE"]
            /\ priced' = priced \cup {t \in S : IsPWYC(t)}
            /\ quantity_sold' = Bumped(quantity_sold, S)
            /\ times_used' = times_used + Uses(S)
            /\ UNCHANGED <<refunded, desk, history>>
         \/ /\ ~(TierCapacityLeft(quantity_sold, S) /\ CodeStillUsable(u, S \cap Coded))
            /\ UNCHANGED <<rows, desk, history>>

-----------------------------------------------------------------------------
(* Confirm, unconfirm and the scan: an unlocked read, then a save. *)

(* Who may be confirmed, unconfirmed, scanned in. *)
Admissible(do, t) ==
  \/ /\ do = "confirm" /\ ticket[t] = "PENDING"
     /\ MethodOf(t) \in {"OFFLINE", "AT_THE_DOOR"}
  \/ do = "unconfirm" /\ ticket[t] = "ACTIVE" /\ MethodOf(t) = "OFFLINE"
  \/ do = "check-in" /\ ticket[t] = "ACTIVE"
  \/ do = "check-in" /\ ticket[t] = "PENDING" /\ MethodOf(t) = "OFFLINE"

(* A price may be typed in on a pay-what-you-can tier, and must be where   *)
(* none is recorded; and a form that never insists.                        *)
AskedOrNot(do, t, pays) == pays => do # "unconfirm" /\ IsPWYC(t) /\ MethodOf(t) # "FREE"

PriceAccepted(do, t, pays) ==
  /\ pays => do # "unconfirm" /\ IsPWYC(t) /\ MethodOf(t) # "FREE"
  /\ do # "unconfirm" /\ IsPWYC(t) /\ MethodOf(t) # "FREE" => pays \/ t \in priced

Fetched(do, t, pays, n) ==
  [do |-> do, ticket |-> t, read |-> ticket[t],
   priced |-> t \in priced, pays |-> pays, nth |-> n]

(* Requests that read alike are told apart by a number. *)
StaffReads(do, t, pays) ==
  /\ Cardinality(carts) + Cardinality(desk) < MaxInFlight
  /\ Admissible(do, t)
  /\ PriceAccepted(do, t, pays)
  /\ \E n \in 1 .. MaxInFlight :
       /\ \A m \in 1 .. n : Fetched(do, t, pays, m) \in desk <=> m < n
       /\ desk' = desk \cup {Fetched(do, t, pays, n)}
  /\ UNCHANGED <<rows, carts, history>>

StatusWritten(do) ==
  CASE do = "confirm"   -> "ACTIVE"
    [] do = "unconfirm" -> "PENDING"
    [] do = "check-in"  -> "CHECKED_IN"

PriceWritten(r) ==
  IF r.pays THEN priced \cup {r.ticket}
  ELSE IF r.do = "unconfirm" THEN priced \ {r.ticket} ELSE priced

(* ticket.save(update_fields=[...]): whatever the row says by now. *)
StaffWrites(r) ==
  LET t == r.ticket
  IN  /\ r \in desk
      /\ desk' = desk \ {r}
      /\ ticket' = [ticket EXCEPT ![t] = StatusWritten(r.do)]
      /\ priced' = PriceWritten(r)
      /\ stale' = IF r.read # ticket[t] \/ r.priced # (t \in priced)
                  THEN stale \cup {t} ELSE stale
      /\ exact' = (exact /\ ticket[t] # "CANCELLED")
      /\ UNCHANGED <<refunded, quantity_sold, times_used, carts>>

-----------------------------------------------------------------------------
(* Cancelling: the status is asked again under the ticket's row lock. *)

Cancel(t) ==
  /\ ticket' = [ticket EXCEPT ![t] = "CANCELLED"]
  /\ quantity_sold' = Released(quantity_sold, {t})

(* The recheck of a cancellation, and what the quote alone would ask. *)
QuotedCancellable(t) == t \in Written
Cancellable(t) == t \in Live

(* cancel_offline_ticket. *)
CancelOffline(t) ==
  /\ Cancellable(t)
  /\ Cancel(t)
  /\ UNCHANGED <<priced, refunded, times_used, requests, history>>

(* Whether a refund is recorded depends on the status before the           *)
(* cancellation.                                                           *)
RefundsPaid(t) == OfflinePaid(t)

(* mark_offline_ticket_refunded, any amount up to what was collected. *)
MarkRefunded(t) ==
  /\ Cancellable(t)
  /\ Cancel(t)
  /\ refunded' = IF RefundsPaid(t) THEN refunded \cup {t} ELSE refunded
  /\ UNCHANGED <<priced, times_used, requests, history>>

(* cancel_ticket_by_user, which a scanned ticket is past. *)
CancelByUser(t) ==
  /\ Cancellable(t)
  /\ ticket[t] # "CHECKED_IN"
  /\ Cancel(t)
  /\ UNCHANGED <<priced, refunded, times_used, requests, history>>

-----------------------------------------------------------------------------
Next ==
  \/ \E S \in SUBSET Ticket : CheckCaps(S) \/ Purchase(S)
  \/ \E t \in Ticket : CancelOffline(t) \/ MarkRefunded(t) \/ CancelByUser(t)
  \/ \E do \in {"confirm", "unconfirm", "check-in"}, t \in Ticket, pays \in BOOLEAN :
       StaffReads(do, t, pays)
  \/ \E r \in desk : StaffWrites(r)

Spec == Init /\ [][Next]_vars

-----------------------------------------------------------------------------
(* Properties. *)

(* The desk keeps the stock of the tiers (module TierInventory).  Its only *)
(* slip: confirm, unconfirm or a scan saves the status it decided on over  *)
(* a cancellation that has already given the place back.                   *)
Inventory == INSTANCE TierInventory WITH live <- Live, sold <- quantity_sold, exact <- exact
ImplementsInventory == Inventory!Spec

(* The code is spent once for every row ever written with it, and never    *)
(* beyond max_uses, however many carts looked while one use was left; a    *)
(* cancellation does not give a use back.                                  *)
CodeUsesCounted ==
  /\ times_used = Cardinality(Written \cap Coded)
  /\ times_used <= MaxUses

(* No buyer holds more pending or active tickets under the code than it    *)
(* allows a user, two carts of theirs racing included; not counting what   *)
(* the desk wrote on a reading no longer true.                             *)
CodeKeptPerUser ==
  \A u \in User : Cardinality((Held(u) \cap Coded) \ stale) <= MaxUsesPerUser

(* Money follows the status while the desk's reads hold: a paid pay-what-  *)
(* you-can ticket has its price recorded (revenue and refunds are computed *)
(* from it); a ticket whose money was returned is out of the event; and    *)
(* nothing is returned of a ticket that would still count as revenue.      *)
MoneyMatchesStatus ==
  \A t \in Written \ stale :
    /\ IsPWYC(t) /\ OfflinePaid(t) => t \in priced
    /\ t \in refunded => ticket[t] = "CANCELLED"
    /\ t \in refunded /\ IsPWYC(t) => t \in priced

(* "Maximum tickets a user can purchase for this event, across all tiers": *)
(* the tickets of a user that were not cancelled stay within the cap.      *)
TicketsPerUserCapped ==
  \A u \in User :
    Cardinality({t \in Live : OwnerOf[t] = u}) <= MaxTicketsPerUser
=============================================================================
