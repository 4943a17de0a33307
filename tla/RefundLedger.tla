---------------------------- MODULE RefundLedger ----------------------------
(***************************************************************************)
(* What the refund paths promise of the ledger of one charge, without      *)
(* saying how: each Stripe refund is made once, within what is left of the *)
(* charge; it enters the ledger once, whole, in shares that are never      *)
(* rewritten, and when Revel made it for a payment it is that payment's    *)
(* alone; and once Stripe has confirmed it, it stays confirmed.  Locks,    *)
(* idempotency keys, lost answers and the matching by the webhook are how  *)
(* TicketRefunds keeps this.                                               *)
(***************************************************************************)
EXTENDS Amounts

CONSTANTS Payment, StripeRefund, Nil,
          Charge   \* what Stripe captured for the payments

VARIABLES stage,   \* where a Stripe refund stands
          amount,  \* its amount, 0 before it is made
          payee,   \* the payment Revel made it for, or Nil
          share    \* what the rows of each payment claim of it

vars == <<stage, amount, payee, share>>

Nothing == [p \in Payment |-> 0]
WholeTo(q, n) == [p \in Payment |-> IF p = q THEN n ELSE 0]

Init ==
  /\ stage = [s \in StripeRefund |-> "absent"]
  /\ amount = [s \in StripeRefund |-> 0]
  /\ payee = [s \in StripeRefund |-> Nil]
  /\ share = [s \in StripeRefund |-> Nothing]

(* Stripe refunds n of the charge, for a payment or from its dashboard. *)
Make(s, n, p) ==
  /\ stage[s] = "absent"
  /\ amount' = [amount EXCEPT ![s] = n]
  /\ Total(amount') <= Charge
  /\ payee' = [payee EXCEPT ![s] = p]
  /\ stage' = [stage EXCEPT ![s] = "made"]
  /\ UNCHANGED share

(* The refund is shared out in full.  Revel writes the row of its own      *)
(* refund before Stripe confirms it; the webhook writes confirmed rows.    *)
Record(s, x) ==
  /\ stage[s] = "made"
  /\ Total(x) = amount[s]
  /\ payee[s] # Nil => x = WholeTo(payee[s], amount[s])
  /\ share' = [share EXCEPT ![s] = x]
  /\ \/ payee[s] # Nil /\ stage' = [stage EXCEPT ![s] = "recorded"]
     \/ stage' = [stage EXCEPT ![s] = "settled"]
  /\ UNCHANGED <<amount, payee>>

Settle(s) ==
  /\ stage[s] = "recorded"
  /\ stage' = [stage EXCEPT ![s] = "settled"]
  /\ UNCHANGED <<amount, payee, share>>

Next ==
  \E s \in StripeRefund :
    \/ \E n \in 1..MaxAmount, p \in Payment \cup {Nil} : Make(s, n, p)
    \/ \E x \in [Payment -> 0..MaxAmount] : Record(s, x)
    \/ Settle(s)

Spec == Init /\ [][Next]_vars

TypeOK ==
  /\ stage \in [StripeRefund -> {"absent", "made", "recorded", "settled"}]
  /\ amount \in [StripeRefund -> 0..MaxAmount]
  /\ payee \in [StripeRefund -> Payment \cup {Nil}]
  /\ share \in [StripeRefund -> [Payment -> 0..MaxAmount]]

(* All the rows of all the payments claim no more than Stripe refunded, and *)
(* that is no more than it captured.                                        *)
ClaimedWithinCharge ==
  /\ Total([s \in StripeRefund |-> Total(share[s])]) <= Total(amount)
  /\ Total(amount) <= Charge
=============================================================================
