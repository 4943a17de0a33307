--------------------------- MODULE TicketCheckout ---------------------------
(***************************************************************************)
(* The online checkout of event tickets: reserve a batch, open one Stripe  *)
(* session for it, pay, confirm by webhook; or let it lapse, cancel it,    *)
(* resume it, sweep it.  Requests run in READ COMMITTED transactions.  A   *)
(* request whose reads and writes are covered by row locks is one action;  *)
(* one that reads without a lock, or calls Stripe between a read and a     *)
(* write, is split there, and what it remembers is part of the state.      *)
(*                                                                         *)
(* Payment rows are one-to-one with tickets and are indexed by ticket.     *)
(* A reservation stands for its reservation_id, which is also the Stripe   *)
(* idempotency key, so a reservation has at most one Stripe session.       *)
(***************************************************************************)
EXTENDS Tiers

CONSTANTS Reservation,
          EffectiveCapacity     \* event.effective_capacity, 0 for no limit

ASSUME CapacityAssumption == EffectiveCapacity \in Nat

VARIABLES
  ticket,         \* status of each ticket row, "unwritten" before, "deleted" after
  pay,            \* status of its Payment row, likewise
  cart,           \* the tickets written under each reservation_id
  quantity_sold,  \* TicketTier.quantity_sold
  stamped,        \* payments whose stripe_session_id is set
  lapsed,         \* payments whose expires_at has passed
  hold,           \* Payment.incident_hold_at: unset, set, or past its retention
  session,        \* status of Stripe's Checkout Session of each reservation
  line_items,     \* the tickets that session charges for
  released,       \* reservations whose checkout URL reached the buyer
  expiring,       \* sessions an on_commit callback is about to expire
  event,          \* Stripe's checkout.session.completed event
  tx,             \* the transaction holding a reservation's Payment row locks
  observed,       \* reservations a resume request has read as expired
  candidates,     \* the sweep's snapshot of reclaimable payments
  hook,           \* what the running webhook handler read
  incident,       \* reservations an incident was recorded for
  slipped         \* history: a ticket was cancelled under an unlocked read of it

rows == <<ticket, pay, cart, quantity_sold>>
clock == <<stamped, lapsed, hold>>
stripe == <<session, line_items, released, expiring, event>>
requests == <<tx, observed, candidates, hook>>
vars == <<rows, clock, stripe, requests, incident, slipped>>

Idle == [step |-> "idle", tickets |-> {}]
NoRead == [step |-> "idle", confirms |-> {}, voids |-> {}]

TypeOK ==
  /\ ticket \in [Ticket -> {"unwritten", "PENDING", "ACTIVE", "CANCELLED", "deleted"}]
  /\ pay \in [Ticket -> {"unwritten", "PENDING", "SUCCEEDED", "deleted"}]
  /\ cart \in [Reservation -> SUBSET Ticket]
  /\ quantity_sold \in [Tier -> Nat]
  /\ stamped \in SUBSET Ticket
  /\ lapsed \in SUBSET Ticket
  /\ hold \in [Ticket -> {"none", "held", "overdue"}]
  /\ session \in [Reservation -> {"none", "open", "paid", "unpaid", "expired"}]
  /\ line_items \in [Reservation -> SUBSET Ticket]
  /\ released \in SUBSET Reservation
  /\ expiring \in SUBSET Reservation
  /\ event \in [Reservation -> {"none", "undelivered", "processed", "abandoned"}]
  /\ tx \in [Reservation -> [step : {"idle", "claimed", "sessioned", "cancelling", "cleaning"},
                             tickets : SUBSET Ticket]]
  /\ observed \in SUBSET Reservation
  /\ candidates \in SUBSET Ticket
  /\ hook \in [Reservation -> [step : {"idle", "read"},
                               confirms : SUBSET Ticket, voids : SUBSET Ticket]]
  /\ incident \in SUBSET Reservation
  /\ slipped \in BOOLEAN

Init ==
  /\ ticket = [t \in Ticket |-> "unwritten"]
  /\ pay = [t \in Ticket |-> "unwritten"]
  /\ cart = [r \in Reservation |-> {}]
  /\ quantity_sold = [k \in Tier |-> 0]
  /\ stamped = {} /\ lapsed = {} /\ hold = [t \in Ticket |-> "none"]
  /\ session = [r \in Reservation |-> "none"]
  /\ line_items = [r \in Reservation |-> {}]
  /\ released = {} /\ expiring = {}
  /\ event = [r \in Reservation |-> "none"]
  /\ tx = [r \in Reservation |-> Idle]
  /\ observed = {} /\ candidates = {}
  /\ hook = [r \in Reservation |-> NoRead]
  /\ incident = {} /\ slipped = FALSE

-----------------------------------------------------------------------------
(* Rows, and which of them are locked. *)

(* Tickets that occupy a seat: every row that is not CANCELLED. *)
Live == {t \in Ticket : ticket[t] \in {"PENDING", "ACTIVE"}}

(* assert_event_capacity, and a form of it that leaves reservations out. *)
EventCapacityLeftActiveOnly(S) ==
  EffectiveCapacity # 0 =>
    Cardinality({t \in Ticket : ticket[t] = "ACTIVE"}) + Cardinality(S) <= EffectiveCapacity

EventCapacityLeft(S) ==
  EffectiveCapacity # 0 => Cardinality(Live) + Cardinality(S) <= EffectiveCapacity

(* The status filters of the batch queries, and forms that omit them. *)
AllPayments(r) == {t \in cart[r] : pay[t] \in {"PENDING", "SUCCEEDED"}}
PendingPayments(r) == {t \in cart[r] : pay[t] = "PENDING"}

AnyStatus(S) == S
StillPending(S) == {t \in S : ticket[t] = "PENDING"}

(* _live_reservation_payments: Payment and ticket both PENDING. *)
LivePayments(r) == StillPending(PendingPayments(r))

(* What a release counts before it deletes; and a form that leaves what has *)
(* lapsed to the sweep.                                                     *)
CountedUnlapsed(r) == LivePayments(r) \ lapsed
CountedForRelease(r) == LivePayments(r)

(* The rows the webhook finds under the session id. *)
SessionPayments(r) == {t \in cart[r] \cap stamped : pay[t] # "deleted"}

(* SELECT ... FOR UPDATE and UPDATE hold Payment rows until the end of the *)
(* transaction; the other paths that need them wait.  Also a form in which *)
(* the releases select their rows without FOR UPDATE.                      *)
LockedByClaims ==
  UNION {PendingPayments(r) : r \in {q \in Reservation : tx[q].step \in {"claimed", "sessioned"}}}

Locked == UNION {PendingPayments(r) : r \in {q \in Reservation : tx[q].step # "idle"}}

(* cleanup_expired_payments' predicate, asked again under the lock. *)
ReclaimableUnheld ==
  {t \in Ticket : pay[t] = "PENDING" /\ hold[t] = "none" /\ t \in lapsed}

Reclaimable ==
  {t \in Ticket : /\ pay[t] = "PENDING"
                  /\ \/ hold[t] = "none" /\ t \in lapsed
                     \/ hold[t] = "overdue"}

ReclaimedUnchecked(S) == S
StillReclaimable(S) == S \cap Reclaimable

(* A release has counted t, or the webhook has read it as not CANCELLED,   *)
(* and neither holds the ticket's row lock.                                *)
ReadUnlocked(t) ==
  \E r \in Reservation :
    \/ tx[r].step \in {"cancelling", "cleaning"} /\ t \in tx[r].tickets
    \/ t \in hook[r].confirms

(* tier.quantity_sold is released for the tickets counted, and the rows of *)
(* payments ps and of their tickets still PENDING are deleted.             *)
DeleteBatch(ps, counted) ==
  /\ quantity_sold' = Released(quantity_sold, counted)
  /\ pay' = [t \in Ticket |-> IF t \in ps THEN "deleted" ELSE pay[t]]
  /\ ticket' = [t \in Ticket |-> IF t \in StillPending(ps) THEN "deleted" ELSE ticket[t]]
  /\ UNCHANGED <<cart, slipped>>

-----------------------------------------------------------------------------
(* Reserving and opening the Stripe session *)

(* create_batch on its ONLINE branch, under the tier and event row locks. *)
ReserveBatch(r, S) ==
  /\ cart[r] = {} /\ S # {}
  /\ \A t \in S : ticket[t] = "unwritten"
  /\ TierCapacityLeft(quantity_sold, S)
  /\ EventCapacityLeft(S)
  /\ ticket' = [t \in Ticket |-> IF t \in S THEN "PENDING" ELSE ticket[t]]
  /\ pay' = [t \in Ticket |-> IF t \in S THEN "PENDING" ELSE pay[t]]
  /\ cart' = [cart EXCEPT ![r] = S]
  /\ quantity_sold' = Bumped(quantity_sold, S)
  /\ UNCHANGED <<clock, stripe, requests, incident, slipped>>

(* create_batch_session up to the Stripe call: the claim's UPDATE takes    *)
(* the row locks, then the rows to charge are read again.                  *)
ClaimHold(r) ==
  /\ tx[r] = Idle
  /\ LivePayments(r) # {}
  /\ LivePayments(r) \cap stamped = {}
  /\ PendingPayments(r) \ lapsed # {}
  /\ tx' = [tx EXCEPT ![r] = [step |-> "claimed", tickets |-> LivePayments(r)]]
  /\ UNCHANGED <<rows, clock, stripe, observed, candidates, hook, incident, slipped>>

(* Session.create with idempotency_key = reservation_id: a first call      *)
(* opens the session, a repeat with the same line items returns it.        *)
CreateStripeSession(r) ==
  /\ tx[r].step = "claimed"
  /\ \/ /\ session[r] = "none"
        /\ session' = [session EXCEPT ![r] = "open"]
        /\ line_items' = [line_items EXCEPT ![r] = tx[r].tickets]
     \/ /\ session[r] # "none"
        /\ line_items[r] = tx[r].tickets
        /\ UNCHANGED <<session, line_items>>
  /\ tx' = [tx EXCEPT ![r] = [step |-> "sessioned", tickets |-> tx[r].tickets]]
  /\ UNCHANGED <<rows, clock, released, expiring, event, observed, candidates, hook,
                 incident, slipped>>

(* stamp_session_or_expire, then commit and return the URL. *)
StampSession(r) ==
  /\ tx[r].step = "sessioned"
  /\ LivePayments(r) # {}
  /\ stamped' = stamped \cup LivePayments(r)
  /\ lapsed' = lapsed \ LivePayments(r)
  /\ released' = released \cup {r}
  /\ tx' = [tx EXCEPT ![r] = Idle]
  /\ UNCHANGED <<rows, hold, session, line_items, expiring, event, observed, candidates, hook,
                 incident, slipped>>

(* The stamp matched no row: expire the session (best effort), roll back. *)
StampMissed(r) ==
  /\ tx[r].step = "sessioned"
  /\ LivePayments(r) = {}
  /\ \/ session[r] = "open" /\ session' = [session EXCEPT ![r] = "expired"]
     \/ UNCHANGED session
  /\ tx' = [tx EXCEPT ![r] = Idle]
  /\ UNCHANGED <<rows, clock, line_items, released, expiring, event, observed, candidates, hook,
                 incident, slipped>>

(* The request fails before its commit (a crash, a Stripe error such as    *)
(* an idempotency key repeated with other line items): a rollback.         *)
Rollback(r) ==
  /\ tx[r].step # "idle"
  /\ tx' = [tx EXCEPT ![r] = Idle]
  /\ UNCHANGED <<rows, clock, stripe, observed, candidates, hook, incident, slipped>>

-----------------------------------------------------------------------------
(* Cancelling and resuming a pending checkout *)

(* cancel_pending_checkout: lock the batch's PENDING payments, count the   *)
(* tickets still PENDING.  The tickets themselves are not locked.          *)
CancelPendingCheckout(r) ==
  /\ tx[r] = Idle
  /\ PendingPayments(r) # {}
  /\ tx' = [tx EXCEPT ![r] = [step |-> "cancelling", tickets |-> CountedForRelease(r)]]
  /\ UNCHANGED <<rows, clock, stripe, observed, candidates, hook, incident, slipped>>

(* resume_pending_checkout reads an expired payment, with no lock. *)
ObserveExpired(r) ==
  /\ PendingPayments(r) \cap lapsed # {}
  /\ r \notin observed
  /\ observed' = observed \cup {r}
  /\ UNCHANGED <<rows, clock, stripe, tx, candidates, hook, incident, slipped>>

(* _cleanup_expired_batch, on the strength of that read. *)
CleanupExpiredBatch(r) ==
  /\ r \in observed
  /\ tx[r] = Idle
  /\ observed' = observed \ {r}
  /\ tx' = IF PendingPayments(r) = {} THEN tx
           ELSE [tx EXCEPT ![r] = [step |-> "cleaning", tickets |-> CountedForRelease(r)]]
  /\ UNCHANGED <<rows, clock, stripe, candidates, hook, incident, slipped>>

(* Both end alike: release the places counted, delete the rows, commit.    *)
(* Only the cancel asks Stripe to expire the session.                      *)
FinishRelease(r) ==
  /\ tx[r].step \in {"cancelling", "cleaning"}
  /\ DeleteBatch(PendingPayments(r), tx[r].tickets)
  /\ expiring' = IF tx[r].step = "cancelling" /\ PendingPayments(r) \cap stamped # {}
                 THEN expiring \cup {r} ELSE expiring
  /\ tx' = [tx EXCEPT ![r] = Idle]
  /\ UNCHANGED <<clock, session, line_items, released, event, observed, candidates, hook,
                 incident>>

(* expire_stripe_sessions_best_effort: the call succeeds or is logged. *)
ExpireSession(r) ==
  /\ r \in expiring
  /\ expiring' = expiring \ {r}
  /\ \/ session[r] = "open" /\ session' = [session EXCEPT ![r] = "expired"]
     \/ UNCHANGED session
  /\ UNCHANGED <<rows, clock, line_items, released, event, requests, incident, slipped>>

(* cancel_ticket_by_user locks the ticket and its payment. *)
CancelTicketByUser(t) ==
  /\ ticket[t] \in {"PENDING", "ACTIVE"}
  /\ t \notin Locked
  /\ ticket' = [ticket EXCEPT ![t] = "CANCELLED"]
  /\ quantity_sold' = Released(quantity_sold, {t})
  /\ slipped' = (slipped \/ ReadUnlocked(t))
  /\ UNCHANGED <<pay, cart, clock, stripe, requests, incident>>

(* admin_cancel_ticket without a refund locks the ticket only. *)
AdminCancelTicket(t) ==
  /\ ticket[t] \in {"PENDING", "ACTIVE"}
  /\ ticket' = [ticket EXCEPT ![t] = "CANCELLED"]
  /\ quantity_sold' = Released(quantity_sold, {t})
  /\ slipped' = (slipped \/ ReadUnlocked(t))
  /\ UNCHANGED <<pay, cart, clock, stripe, requests, incident>>

-----------------------------------------------------------------------------
(* Time: holds and sessions expire, the sweep runs *)

(* expires_at of a reserved, not yet sessioned, payment passes. *)
ReservationLapses(r) ==
  LET due == (PendingPayments(r) \ stamped) \ lapsed IN
  /\ due # {}
  /\ lapsed' = lapsed \cup due
  /\ UNCHANGED <<rows, stamped, hold, stripe, requests, incident, slipped>>

(* The stamped rows carry the session's own expires_at: both end together. *)
SessionLapses(r) ==
  LET due == (PendingPayments(r) \cap stamped) \ lapsed
      open == r \in released /\ session[r] = "open" IN
  /\ due # {} \/ open
  /\ lapsed' = lapsed \cup due
  /\ session' = IF open THEN [session EXCEPT ![r] = "expired"] ELSE session
  /\ UNCHANGED <<rows, stamped, hold, line_items, released, expiring, event, requests,
                 incident, slipped>>

(* cleanup_expired_payments: the candidates are read outside the transaction *)
SweepSnapshot ==
  /\ candidates = {}
  /\ Reclaimable # {}
  /\ candidates' = Reclaimable
  /\ UNCHANGED <<rows, clock, stripe, tx, observed, hook, incident, slipped>>

(* ... then filtered again by the same predicate, and locked together with *)
(* their tickets and tiers, so the count and the deletes agree.            *)
SweepReclaim ==
  LET S == StillReclaimable(candidates) IN
  /\ candidates # {}
  /\ S \cap Locked = {}
  /\ DeleteBatch(S, StillPending(S))
  /\ candidates' = {}
  /\ UNCHANGED <<clock, stripe, tx, observed, hook, incident>>

(* INCIDENT_HOLD_RETENTION passes; an operator clears the hold. *)
HoldOverdue(t) ==
  /\ hold[t] = "held"
  /\ hold' = [hold EXCEPT ![t] = "overdue"]
  /\ UNCHANGED <<rows, stamped, lapsed, stripe, requests, incident, slipped>>

ClearHold(t) ==
  /\ hold[t] # "none"
  /\ t \notin Locked
  /\ hold' = [hold EXCEPT ![t] = "none"]
  /\ UNCHANGED <<rows, stamped, lapsed, stripe, requests, incident, slipped>>

-----------------------------------------------------------------------------
(* Paying, and the checkout.session.completed webhook *)

PaySession(r) ==
  /\ r \in released
  /\ session[r] = "open"
  /\ session' = [session EXCEPT ![r] = "paid"]
  /\ event' = [event EXCEPT ![r] = "undelivered"]
  /\ UNCHANGED <<rows, clock, line_items, released, expiring, requests, incident, slipped>>

(* The buyer completes the session with a delayed payment method: the      *)
(* event says payment_status unpaid, the handler warns and returns.        *)
CompleteUnpaid(r) ==
  /\ r \in released
  /\ session[r] = "open"
  /\ session' = [session EXCEPT ![r] = "unpaid"]
  /\ UNCHANGED <<rows, clock, line_items, released, expiring, event, requests, incident, slipped>>

(* handle_checkout_session_completed reads the payments and tickets,       *)
(* unlocked.  It remembers which tickets were CANCELLED at that moment.    *)
WebhookReads(r) ==
  /\ event[r] = "undelivered"
  /\ hook[r] = NoRead
  /\ SessionPayments(r) = line_items[r]
  /\ hook' = [hook EXCEPT ![r] =
       LET voids == {t \in SessionPayments(r) : ticket[t] = "CANCELLED"} IN
       [step |-> "read", confirms |-> SessionPayments(r) \ voids, voids |-> voids]]
  /\ UNCHANGED <<rows, clock, stripe, tx, observed, candidates, incident, slipped>>

(* No row left for a session that captured money: an incident, and 200;    *)
(* and the same without the incident.                                      *)
WebhookFindsNothingQuietly(r) ==
  /\ event[r] = "undelivered"
  /\ hook[r] = NoRead
  /\ SessionPayments(r) = {}
  /\ event' = [event EXCEPT ![r] = "processed"]
  /\ UNCHANGED <<rows, clock, session, line_items, released, expiring, requests, incident,
                 slipped>>

WebhookFindsNothing(r) ==
  /\ event[r] = "undelivered"
  /\ hook[r] = NoRead
  /\ SessionPayments(r) = {}
  /\ incident' = incident \cup {r}
  /\ event' = [event EXCEPT ![r] = "processed"]
  /\ UNCHANGED <<rows, clock, session, line_items, released, expiring, requests, slipped>>

(* The total charged is not the total of the rows: record, dispatch        *)
(* hold_mismatch_payments (the broker may lose it), raise.                 *)
WebhookMismatch(r) ==
  /\ event[r] = "undelivered"
  /\ hook[r] = NoRead
  /\ SessionPayments(r) \notin {{}, line_items[r]}
  /\ incident' = incident \cup {r}
  /\ \/ /\ SessionPayments(r) \cap Locked = {}
        /\ hold' = [t \in Ticket |-> IF t \in SessionPayments(r) /\ hold[t] = "none"
                                     THEN "held" ELSE hold[t]]
     \/ UNCHANGED hold
  /\ UNCHANGED <<rows, stamped, lapsed, stripe, requests, slipped>>

(* ... and writes what it remembers: save(update_fields) raises when the   *)
(* row is gone, and overwrites the ticket's status when it is not.         *)
WebhookConfirms(r) ==
  LET ps == hook[r].confirms \cup hook[r].voids IN
  /\ hook[r].step = "read"
  /\ \A t \in ps : pay[t] # "deleted"
  /\ ps \cap Locked = {}
  /\ pay' = [t \in Ticket |-> IF t \in ps THEN "SUCCEEDED" ELSE pay[t]]
  /\ ticket' = [t \in Ticket |-> IF t \in hook[r].confirms THEN "ACTIVE" ELSE ticket[t]]
  /\ event' = [event EXCEPT ![r] = "processed"]
  /\ hook' = [hook EXCEPT ![r] = NoRead]
  /\ UNCHANGED <<cart, quantity_sold, clock, session, line_items, released, expiring, tx,
                 observed, candidates, incident, slipped>>

(* The handler raises or the worker dies: the dedup row rolls back too and *)
(* Stripe redelivers ...                                                   *)
WebhookFails(r) ==
  /\ hook[r].step = "read"
  /\ hook' = [hook EXCEPT ![r] = NoRead]
  /\ UNCHANGED <<rows, clock, stripe, tx, observed, candidates, incident, slipped>>

(* ... until it gives up. *)
StripeGivesUp(r) ==
  /\ event[r] = "undelivered"
  /\ hook[r] = NoRead
  /\ event' = [event EXCEPT ![r] = "abandoned"]
  /\ UNCHANGED <<rows, clock, session, line_items, released, expiring, requests, incident,
                 slipped>>

-----------------------------------------------------------------------------
Next ==
  \/ \E r \in Reservation, S \in SUBSET Ticket : ReserveBatch(r, S)
  \/ \E r \in Reservation :
       \/ ClaimHold(r) \/ CreateStripeSession(r) \/ StampSession(r) \/ StampMissed(r)
       \/ Rollback(r)
       \/ CancelPendingCheckout(r) \/ ObserveExpired(r) \/ CleanupExpiredBatch(r)
       \/ FinishRelease(r) \/ ExpireSession(r)
       \/ ReservationLapses(r) \/ SessionLapses(r)
       \/ PaySession(r) \/ CompleteUnpaid(r)
       \/ WebhookReads(r) \/ WebhookFindsNothing(r) \/ WebhookMismatch(r)
       \/ WebhookConfirms(r) \/ WebhookFails(r) \/ StripeGivesUp(r)
  \/ \E t \in Ticket :
       CancelTicketByUser(t) \/ AdminCancelTicket(t) \/ HoldOverdue(t) \/ ClearHold(t)
  \/ SweepSnapshot
  \/ SweepReclaim

Spec == Init /\ [][Next]_vars

(* Time passes; open transactions end; the beat keeps running the sweep,   *)
(* and a lock it waits for is granted in turn; an alert hold comes to its  *)
(* retention; Stripe stops redelivering.                                   *)
Fairness ==
  /\ \A r \in Reservation :
       /\ WF_vars(ReservationLapses(r)) /\ WF_vars(SessionLapses(r))
       /\ WF_vars(CreateStripeSession(r) \/ StampSession(r) \/ StampMissed(r)
                  \/ FinishRelease(r) \/ Rollback(r))
       /\ WF_vars(WebhookConfirms(r) \/ WebhookFails(r))
       /\ SF_vars(StripeGivesUp(r))
  /\ \A t \in Ticket : WF_vars(HoldOverdue(t))
  /\ SF_vars(SweepSnapshot)
  /\ SF_vars(SweepReclaim)

FairSpec == Spec /\ Fairness

-----------------------------------------------------------------------------
(* The checkout implements the abstract inventory: in every step the       *)
(* counter moves by exactly the tickets that appear or disappear, until a  *)
(* ticket is cancelled under a release or a webhook that has read it.      *)
Inventory == INSTANCE TierInventory
               WITH live <- Live, sold <- quantity_sold, exact <- ~slipped
ImplementsInventory == Inventory!Spec

(* Event capacity (assert_event_capacity under the event's row lock):      *)
(* until a slip, the event never holds more live tickets than it admits.   *)
EventCapacityRespected ==
  ~slipped /\ EffectiveCapacity # 0 => Cardinality(Live) <= EffectiveCapacity

(* An online ticket is ACTIVE only with its payment captured: no path      *)
(* activates a ticket of a session that was not paid.                      *)
ActiveIsPaid == \A t \in Ticket : ticket[t] = "ACTIVE" => pay[t] = "SUCCEEDED"

(* A completion event that was accepted (200, dedup row kept) left every   *)
(* ticket it charged for SUCCEEDED, or an incident for an operator: no     *)
(* captured money disappears between the webhook, the cancels and the sweep*)
PaidIsAccountedFor ==
  \A r \in Reservation : event[r] = "processed" =>
    r \in incident \/ \A t \in line_items[r] : pay[t] = "SUCCEEDED"

(* What a handler remembers from an unlocked read still holds when it      *)
(* writes: a release deletes no more than it counted and, until a slip,    *)
(* exactly that; the webhook confirms the rows the session charges and,    *)
(* until a slip, no ticket that is CANCELLED.                              *)
ReleaseCounts(r) ==
  tx[r].step \in {"cancelling", "cleaning"} =>
    /\ LivePayments(r) \subseteq tx[r].tickets
    /\ ~slipped => tx[r].tickets = LivePayments(r)

HookReads(r) ==
  /\ hook[r].step = "idle" => hook[r] = NoRead
  /\ hook[r].step = "read" => /\ session[r] # "none"
                              /\ hook[r].confirms \cup hook[r].voids = line_items[r]
  /\ ~slipped => \A t \in hook[r].confirms : ticket[t] # "CANCELLED"

UnlockedReadsAgree == \A r \in Reservation : ReleaseCounts(r) /\ HookReads(r)

(* Captured payments and the tickets they pay for, and the CANCELLED       *)
(* tickets kept for audit, are never deleted by a cancel, a cleanup or the *)
(* sweep (their PENDING-only filters, under the payment locks).            *)
AuditRowsSurvive ==
  [][\A t \in Ticket :
       /\ pay[t] = "SUCCEEDED" => pay'[t] = "SUCCEEDED" /\ ticket'[t] # "deleted"
       /\ ticket[t] = "CANCELLED" => ticket'[t] # "deleted"]_vars

Payable(r) == r \in released /\ session[r] = "open"

(* The sweep never takes the rows of a session that can still be paid,     *)
(* although it chooses them before it locks them.                          *)
SweepSparesPayable ==
  [][SweepReclaim => \A r \in Reservation :
       Payable(r) => SessionPayments(r)' = SessionPayments(r)]_vars

(* Whoever deletes the last row of a payable session has Stripe expire it: *)
(* "a payable session never exists without a reconcilable Payment row".    *)
PayableSessionKeepsRows ==
  [][\A r \in Reservation :
       Payable(r) /\ SessionPayments(r) # {} /\ SessionPayments(r)' = {}
         => r \in expiring']_vars

(* A CANCELLED ticket stays CANCELLED: a late payment "must not resurrect  *)
(* the ticket" whose place was already given back.                         *)
CancelledStaysCancelled ==
  [][\A t \in Ticket : ticket[t] = "CANCELLED" => ticket'[t] = "CANCELLED"]_vars

(* A batch release gives back exactly the places of the tickets it deletes;*)
(* one cancelled meanwhile has given its own back already.                 *)
NoDoubleRelease ==
  [][\A r \in Reservation :
       FinishRelease(r) => tx[r].tickets = StillPending(PendingPayments(r))]_vars

(* The session the buyer is sent to charges exactly the rows stamped for   *)
(* it: a row whose ticket is void reaches neither line items nor stamp.    *)
SessionChargesStampedRows ==
  [][\A r \in Reservation :
       r \in released' \ released => SessionPayments(r)' = line_items[r]]_vars

(* No reservation keeps a place for ever: a PENDING ticket is confirmed,   *)
(* cancelled or reclaimed, whatever requests and failures interleave.      *)
PendingIsResolved ==
  \A t \in Ticket : ticket[t] = "PENDING" ~> ticket[t] # "PENDING"
=============================================================================
