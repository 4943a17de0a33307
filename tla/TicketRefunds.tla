--------------------------- MODULE TicketRefunds ---------------------------
(***************************************************************************)
(* Refunds of the ticket payments of one Stripe payment intent: issued by  *)
(* the organizer, by cancelling a ticket, by the sweep of a cancelled      *)
(* event, or in Stripe's own dashboard, and recorded by charge.refunded.   *)
(*                                                                         *)
(* A Refund row is written PENDING in the transaction that calls Stripe    *)
(* and becomes SUCCEEDED when the webhook names it.  The transaction holds *)
(* the Payment row from before the call until it commits; it may be lost   *)
(* after Stripe has acted.  The webhook holds every Payment of the intent, *)
(* and applies the refunds of the charge one by one.                       *)
(*                                                                         *)
(* A row that is not FAILED carries the id of its Stripe refund, and a     *)
(* payment has at most one row per id, which is how rows are named here;   *)
(* FAILED rows are counted.  The payments are captured from the start.     *)
(***************************************************************************)
EXTENDS Amounts, Sequences

CONSTANTS Payment,
          Price,        \* Payment.amount
          Nil,
          Cancellable,  \* bound: payments whose tickets may be cancelled
          MaxRefunds,   \* bound: refunds Stripe accepts
          MaxFailed     \* bound: failures of a payment's refunds are not taken past it

ASSUME PaymentAssumption ==
  IsFiniteSet(Payment) /\ Cancellable \subseteq Payment
ASSUME NilAssumption == Nil \notin Payment \cup 1..MaxRefunds
ASSUME BoundsAssumption == MaxRefunds \in Nat /\ MaxFailed \in Nat /\ MaxAmount \in Nat
ASSUME PriceAssumption == Price \in [Payment -> 1..MaxAmount]

(* Stripe refund objects, in the order Stripe creates them. *)
StripeRefund == 1..MaxRefunds

VARIABLES
  re_amount,    \* amount of a Stripe refund, 0 before it exists
  re_ticket,    \* the payment its metadata's ticket_id names, or Nil
  keys,         \* idempotency keys Stripe remembers
  row_status,   \* status of the Refund row of a payment for a Stripe refund
  row_amount,   \* its amount
  failed,       \* how many FAILED rows a payment has
  refused,      \* payments whose FAILED row an endpoint request has yet to write
  ticket,       \* status of the payment's ticket, "SWEPT" if the sweep cancelled it
  call,         \* the Stripe refund a payment's open transaction has made, or Nil
  caller,       \* whose transaction that is, or Nil
  sweep,        \* where the sweep's subtask for the ticket stands
  applying,     \* refunds the webhook's transaction has still to apply
  handled       \* refunds whose charge.refunded event has been handled

stripe == <<re_amount, re_ticket, keys>>
rows == <<row_status, row_amount, failed, refused>>
vars == <<stripe, rows, ticket, call, caller, sweep, applying, handled>>

Caller == {"endpoint", "cancel", "sweep"}

TypeOK ==
  /\ re_amount \in [StripeRefund -> Nat]
  /\ re_ticket \in [StripeRefund -> Payment \cup {Nil}]
  /\ keys \subseteq Payment \X Nat \X (1..MaxAmount)
  /\ row_status \in [Payment -> [StripeRefund -> {"none", "PENDING", "SUCCEEDED"}]]
  /\ row_amount \in [Payment -> [StripeRefund -> Nat]]
  /\ failed \in [Payment -> Nat]
  /\ refused \subseteq Payment
  /\ ticket \in [Payment -> {"ACTIVE", "CANCELLED", "SWEPT"}]
  /\ call \in [Payment -> StripeRefund \cup {Nil}]
  /\ caller \in [Payment -> Caller \cup {Nil}]
  /\ sweep \in [Payment -> {"idle", "refund", "record", "cancel"}]
  /\ applying \subseteq StripeRefund
  /\ handled \subseteq StripeRefund

Init ==
  /\ re_amount = [s \in StripeRefund |-> 0]
  /\ re_ticket = [s \in StripeRefund |-> Nil]
  /\ keys = {}
  /\ row_status = [p \in Payment |-> [s \in StripeRefund |-> "none"]]
  /\ row_amount = [p \in Payment |-> [s \in StripeRefund |-> 0]]
  /\ failed = [p \in Payment |-> 0]
  /\ refused = {}
  /\ ticket = [p \in Payment |-> "ACTIVE"]
  /\ call = [p \in Payment |-> Nil]
  /\ caller = [p \in Payment |-> Nil]
  /\ sweep = [p \in Payment |-> "idle"]
  /\ applying = {} /\ handled = {}

-----------------------------------------------------------------------------
(* Money *)

(* What Stripe captured, and has not refunded. *)
Charge == Total(Price)
ASSUME ChargeAssumption == Charge <= MaxAmount
Left == Charge - Total(re_amount)

(* The rows of p that are not FAILED, and those that are SUCCEEDED. *)
Taken(p) == Total(row_amount[p])
Settled(p) ==
  Total([s \in {x \in StripeRefund : row_status[p][x] = "SUCCEEDED"} |-> row_amount[p][s]])

Unfloored(n) == n
AtLeastZero(n) == IF n > 0 THEN n ELSE 0

(* remaining_refundable; and a form that counts what Stripe confirmed.     *)
RemainingConfirmed(p) == AtLeastZero(Price[p] - Settled(p))
Remaining(p) == AtLeastZero(Price[p] - Taken(p))

(* Payment.status is REFUNDED. *)
Refunded(p) == Settled(p) >= Price[p]

-----------------------------------------------------------------------------
(* Issuing a refund *)

Created == {s \in StripeRefund : re_amount[s] > 0}

(* The Payment row is held by a refund or by the webhook, the Ticket row   *)
(* by a cancellation under way.                                            *)
Locked(p) == call[p] # Nil \/ applying # {}
TicketLocked(p) == caller[p] = "cancel"

(* refund:{payment}:{sequence}:{amount}; the sequence counts all rows.     *)
Key(p, n) ==
  <<p, failed[p] + Cardinality({s \in StripeRefund : row_status[p][s] # "none"}), n>>

(* What a caller has checked before issue_refund, and the amounts it asks. *)
MayAsk(p, who) ==
  /\ who = "cancel" => ticket[p] = "ACTIVE" /\ p \in Cancellable
  /\ who = "sweep" => sweep[p] = "refund"

Asked(p, who) == IF who = "sweep" THEN {Remaining(p)} \ {0} ELSE 1..Remaining(p)

(* issue_refund up to Stripe's answer. *)
CallStripe(p, who) ==
  /\ ~Locked(p) /\ MayAsk(p, who)
  /\ \E n \in Asked(p, who), s \in StripeRefund :
       /\ Key(p, n) \notin keys /\ n <= Left
       /\ keys' = keys \cup {Key(p, n)}
       /\ s = Cardinality(Created) + 1
       /\ re_amount' = [re_amount EXCEPT ![s] = n]
       /\ re_ticket' = [re_ticket EXCEPT ![s] = p]
       /\ call' = [call EXCEPT ![p] = s]
  /\ caller' = [caller EXCEPT ![p] = who]
  /\ UNCHANGED <<rows, ticket, sweep, applying, handled>>

(* The transaction commits, with the ticket's cancellation if it has one.  *)
Commit(p) ==
  /\ call[p] # Nil
  /\ row_status' = [row_status EXCEPT ![p][call[p]] = "PENDING"]
  /\ row_amount' = [row_amount EXCEPT ![p][call[p]] = re_amount[call[p]]]
  /\ call' = [call EXCEPT ![p] = Nil] /\ caller' = [caller EXCEPT ![p] = Nil]
  /\ ticket' = IF caller[p] = "cancel" THEN [ticket EXCEPT ![p] = "CANCELLED"] ELSE ticket
  /\ sweep' = IF caller[p] = "sweep" THEN [sweep EXCEPT ![p] = "cancel"] ELSE sweep
  /\ UNCHANGED <<stripe, failed, refused, applying, handled>>

(* StripeRefundFailed or RefundInsufficientBalanceError has rolled the      *)
(* PENDING row back.  The endpoint and the sweep go on to write a FAILED   *)
(* row, in a transaction of its own; the cancelling paths write none.      *)
(* Bound: one such row waits to be written at a time.                      *)
Fail(p, who) ==
  /\ failed[p] < MaxFailed /\ refused = {} /\ \A q \in Payment : sweep[q] # "record"
  /\ refused' = IF who = "endpoint" THEN refused \cup {p} ELSE refused
  /\ sweep' = IF who = "sweep" THEN [sweep EXCEPT ![p] = "record"] ELSE sweep
  /\ UNCHANGED <<row_status, row_amount, failed>>

(* The new row refers to the Payment, so its insert waits for the lock.    *)
RecordFailure(p) ==
  /\ p \in refused /\ ~Locked(p)
  /\ failed' = [failed EXCEPT ![p] = @ + 1] /\ refused' = refused \ {p}
  /\ UNCHANGED <<stripe, row_status, row_amount, ticket, call, caller, sweep, applying, handled>>

(* The request's worker dies first.  Bound: of a payment in Cancellable.   *)
FailureUnrecorded(p) ==
  /\ p \in refused \cap Cancellable
  /\ refused' = refused \ {p}
  /\ UNCHANGED <<stripe, row_status, row_amount, failed, ticket, call, caller, sweep,
                 applying, handled>>

(* The sweep's subtask; and a form that goes on without the row. *)
SweepGoesOn(p) ==
  /\ sweep[p] = "record"
  /\ sweep' = [sweep EXCEPT ![p] = "cancel"]
  /\ UNCHANGED <<stripe, rows, ticket, call, caller, applying, handled>>
SweepRecordsFailure(p) ==
  /\ sweep[p] = "record" /\ ~Locked(p)
  /\ failed' = [failed EXCEPT ![p] = @ + 1]
  /\ sweep' = [sweep EXCEPT ![p] = "cancel"]
  /\ UNCHANGED <<stripe, row_status, row_amount, refused, ticket, call, caller, applying, handled>>

(* Stripe refuses: no balance, nothing left on the charge, or a key it has *)
(* seen, since each attempt sends another refund_id with it.               *)
StripeRefuses(p, who) ==
  /\ ~Locked(p) /\ MayAsk(p, who)
  /\ \E n \in Asked(p, who) : keys' = keys \cup {Key(p, n)}
  /\ Fail(p, who)
  /\ UNCHANGED <<re_amount, re_ticket, ticket, call, caller, applying, handled>>

(* Stripe has refunded, and the answer is lost: an error for the caller,   *)
(* or a crash before the commit.                                           *)
AnswerLost(p) ==
  /\ call[p] # Nil
  /\ call' = [call EXCEPT ![p] = Nil] /\ caller' = [caller EXCEPT ![p] = Nil]
  /\ \/ Fail(p, caller[p])
     \/ /\ sweep' = IF caller[p] = "sweep" THEN [sweep EXCEPT ![p] = "idle"] ELSE sweep
        /\ UNCHANGED rows
  /\ UNCHANGED <<stripe, ticket, applying, handled>>

(* Stripe remembers keys for a day. *)
ForgetKeys ==
  /\ keys # {} /\ keys' = {}
  /\ UNCHANGED <<re_amount, re_ticket, rows, ticket, call, caller, sweep, applying, handled>>

-----------------------------------------------------------------------------
(* Cancelling without a refund, and the sweep of a cancelled event *)

(* admin_cancel_ticket with no amount; the Payment is not locked. *)
CancelTicket(p) ==
  /\ p \in Cancellable
  /\ ticket[p] = "ACTIVE" /\ ~TicketLocked(p)
  /\ ticket' = [ticket EXCEPT ![p] = "CANCELLED"]
  /\ UNCHANGED <<stripe, rows, call, caller, sweep, applying, handled>>

(* refund_cancelled_event_tickets dispatches a subtask, again if asked to, *)
(* and the subtask finds the ticket not cancelled, by an unlocked read.    *)
SweepDispatch(p) ==
  /\ p \in Cancellable
  /\ ticket[p] = "ACTIVE" /\ sweep[p] = "idle"
  /\ sweep' = [sweep EXCEPT ![p] = "refund"]
  /\ UNCHANGED <<stripe, rows, ticket, call, caller, applying, handled>>

(* NothingToRefundError: go on to the cancellation. *)
SweepFindsNothing(p) ==
  /\ sweep[p] = "refund" /\ ~Locked(p)
  /\ Remaining(p) = 0
  /\ sweep' = [sweep EXCEPT ![p] = "cancel"]
  /\ UNCHANGED <<stripe, rows, ticket, call, caller, applying, handled>>

(* The subtask's second transaction. *)
SweepCancels(p) ==
  /\ sweep[p] = "cancel" /\ ~Locked(p)
  /\ ticket' = [ticket EXCEPT ![p] = IF @ = "ACTIVE" THEN "SWEPT" ELSE @]
  /\ sweep' = [sweep EXCEPT ![p] = "idle"]
  /\ UNCHANGED <<stripe, rows, call, caller, applying, handled>>

(* The subtask finds its ticket cancelled, or its worker dies. *)
SweepStops(p) ==
  /\ sweep[p] # "idle" /\ call[p] = Nil
  /\ sweep' = [sweep EXCEPT ![p] = "idle"]
  /\ UNCHANGED <<stripe, rows, ticket, call, caller, applying, handled>>

-----------------------------------------------------------------------------
(* Stripe's side: a refund made in the dashboard names no ticket.          *)

DashboardRefund ==
  /\ \E s \in StripeRefund, n \in 1..Left :
       /\ s = Cardinality(Created) + 1
       /\ re_amount' = [re_amount EXCEPT ![s] = n]
  /\ UNCHANGED <<re_ticket, keys, rows, ticket, call, caller, sweep, applying, handled>>

(* charge.refunded for s: the handler takes the list of the charge's       *)
(* refunds, as of the event or a later moment, then locks the payments;   *)
(* and a form that does not wait for those locks.                          *)
DeliverUnlocked(s) ==
  /\ s \in Created \ handled
  /\ \E last \in Created : last >= s /\ applying' = 1..last
  /\ handled' = handled \cup {s}
  /\ UNCHANGED <<stripe, rows, ticket, call, caller, sweep>>
Deliver(s) ==
  /\ s \in Created \ handled
  /\ \A p \in Payment : ~Locked(p)
  /\ \E last \in Created : last >= s /\ applying' = 1..last
  /\ handled' = handled \cup {s}
  /\ UNCHANGED <<stripe, rows, ticket, call, caller, sweep>>

-----------------------------------------------------------------------------
(* _match_refund_to_payments: the payments a refund belongs to. *)

Unrefunded == {p \in Payment : ~Refunded(p)}

(* A row carries the refund's id.  One that was shared out among several   *)
(* payments was applied to all of them.                                    *)
Known(s) == {p \in Payment : row_status[p][s] # "none"}

(* metadata.ticket_id *)
Named(s) == {p \in Payment : re_ticket[s] = p}

(* The intent has one payment. *)
Only == IF Cardinality(Payment) = 1 THEN Unrefunded ELSE {}

(* One payment is owed just this much, and nobody is owed another amount.  *)
Exact(s) == {p \in Unrefunded : Remaining(p) = re_amount[s]}
Uniform == \A p, q \in Unrefunded : Remaining(p) = Remaining(q)
Sole(s) == IF Cardinality(Exact(s)) = 1 /\ Uniform THEN Exact(s) ELSE {}

(* Everything still owed. *)
WholeBatch(s) ==
  IF Total([p \in Unrefunded |-> Remaining(p)]) = re_amount[s] THEN Unrefunded ELSE {}

OrElse(S, T) == IF S # {} THEN S ELSE T

(* First match wins; and a form that tries the amounts before the names.   *)
MatchByAmount(s) ==
  OrElse(Known(s), OrElse(Sole(s), OrElse(WholeBatch(s), OrElse(Only, Named(s)))))
Match(s) ==
  OrElse(Known(s), OrElse(Named(s), OrElse(Only, OrElse(Sole(s), WholeBatch(s)))))

(* What each of S gets: its own remainder when there are several; and a    *)
(* form that gives each the price it paid.                                 *)
ShareOfPrice(p, S, s) == IF Cardinality(S) > 1 THEN Price[p] ELSE re_amount[s]
Share(p, S, s) == IF Cardinality(S) > 1 THEN Remaining(p) ELSE re_amount[s]

(* A refund that matches nothing changes no row. *)
ApplyRefund(s) ==
  /\ s \in applying
  /\ \E S \in {Match(s)} :
       /\ row_status' = [p \in Payment |->
                           IF p \in S THEN [row_status[p] EXCEPT ![s] = "SUCCEEDED"]
                           ELSE row_status[p]]
       /\ row_amount' = [p \in Payment |->
                           IF p \in S \ Known(s) THEN [row_amount[p] EXCEPT ![s] = Share(p, S, s)]
                           ELSE row_amount[p]]
  /\ applying' = applying \ {s}
  /\ UNCHANGED <<stripe, failed, refused, ticket, call, caller, sweep, handled>>

-----------------------------------------------------------------------------
Next ==
  \/ \E p \in Payment, who \in Caller : CallStripe(p, who) \/ StripeRefuses(p, who)
  \/ \E p \in Payment :
       \/ Commit(p) \/ AnswerLost(p)
       \/ RecordFailure(p) \/ FailureUnrecorded(p) \/ SweepRecordsFailure(p)
       \/ CancelTicket(p) \/ SweepDispatch(p) \/ SweepFindsNothing(p)
       \/ SweepCancels(p) \/ SweepStops(p)
  \/ \E s \in StripeRefund : Deliver(s) \/ ApplyRefund(s)
  \/ ForgetKeys \/ DashboardRefund

Spec == Init /\ [][Next]_vars

(* Open transactions end, and Stripe redelivers its events until a handler *)
(* gets the locks it needs and finishes; it makes no more than MaxRefunds. *)
Fairness ==
  /\ \A p \in Payment : WF_vars(Commit(p) \/ AnswerLost(p))
  /\ SF_vars(\E s \in StripeRefund : Deliver(s))
  /\ WF_vars(\E s \in StripeRefund : ApplyRefund(s))

FairSpec == Spec /\ Fairness

-----------------------------------------------------------------------------
(* What Stripe was asked to refund for p. *)
SentFor(p) == Total([s \in {x \in StripeRefund : re_ticket[x] = p} |-> re_amount[s]])

(* No ticket is paid back twice from the batch's charge ("a retry after a  *)
(* crash reuses the same key and the same Stripe refund instead of         *)
(* double-refunding").                                                     *)
NoDoubleRefund == \A p \in Payment : SentFor(p) <= Price[p]

(* While no refund made for p is missing from its rows, none is made that  *)
(* exceeds its price: in-flight refunds count, and the lock is held across *)
(* the call.  Only a lost answer lets a ticket be paid back twice.         *)
Missing(p) ==
  {s \in StripeRefund : re_ticket[s] = p /\ row_status[p][s] = "none" /\ call[p] # s}

DoubledOnlyAfterLoss ==
  [][\A p \in Payment :
       SentFor(p) <= Price[p] /\ SentFor(p)' > Price[p] => Missing(p) # {}]_vars

(* The rows never claim more of a payment than was paid, in whatever order *)
(* dashboard refunds, in-flight refunds, lost answers and webhooks meet,   *)
(* unless Stripe itself was asked twice.                                   *)
LedgerHolds == NoDoubleRefund => \A p \in Payment : Taken(p) <= Price[p]

(* A Stripe refund is recorded whole or not at all, once, however often    *)
(* and with whatever list of refunds its webhook comes.  The ledger below  *)
(* promises it too, of every step.                                         *)
RecordedWhole ==
  \A s \in StripeRefund :
    Total([p \in {q \in Payment : row_status[q][s] # "none"} |-> row_amount[p][s]])
      \in {0, re_amount[s]}

(* A ticket the sweep cancelled was paid back in full or has a FAILED row  *)
(* to show for it, wherever the sweep crashed and was dispatched again.    *)
SweptIsAccountedFor ==
  \A p \in Payment : ticket[p] = "SWEPT" => Remaining(p) = 0 \/ failed[p] > 0

(* The webhook heals a lost answer: every refund made through Revel ends   *)
(* as a SUCCEEDED row of the payment it was made for.                      *)
RefundIsRecorded ==
  \A s \in StripeRefund :
    re_ticket[s] # Nil ~> \E p \in Payment : re_ticket[s] = p /\ row_status[p][s] = "SUCCEEDED"

-----------------------------------------------------------------------------
(* Where a Stripe refund stands, as the rows of all the payments have it. *)
Stage(s) ==
  IF re_amount[s] = 0 THEN "absent"
  ELSE IF Known(s) = {} THEN "made"
  ELSE IF \A p \in Known(s) : row_status[p][s] = "PENDING" THEN "recorded"
  ELSE "settled"

Stages == [s \in StripeRefund |-> Stage(s)]
Claims == [s \in StripeRefund |-> [p \in Payment |-> row_amount[p][s]]]

(* The rows keep the ledger of module RefundLedger: whatever the locks,    *)
(* the keys, the lost answers and the matches do, a refund enters it once, *)
(* whole, for whom it was made, and is never rewritten or taken back.      *)
Ledger ==
  INSTANCE RefundLedger
  WITH stage <- Stages, amount <- re_amount, payee <- re_ticket, share <- Claims
ImplementsLedger == Ledger!Spec
=============================================================================
