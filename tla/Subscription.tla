---------------------------- MODULE Subscription ----------------------------
(***************************************************************************)
(* Memberships paid through Stripe: the MembershipSubscription rows of one *)
(* member of one organization, the Checkout Sessions and Stripe            *)
(* subscriptions behind them, the webhooks that mirror Stripe, and the     *)
(* nightly jobs that repair what the webhooks missed.                      *)
(*                                                                         *)
(* Every handler holds the row it changes until it commits, Stripe calls   *)
(* included, so it is one step; one that calls Stripe may be lost after    *)
(* Stripe has acted.  The jobs read Stripe before they lock the row and    *)
(* are split there.  Calls made after a commit are queued in `closing` and *)
(* `expiring`.  Events stay in flight until delivered, in any order; one   *)
(* that is never delivered is lost.                                        *)
(*                                                                         *)
(* Time counts billing periods: at `now` the periods ending at `now` and   *)
(* before are over.  An invoice is named by the Stripe subscription and    *)
(* the end of the period it bills.  A completed session has its first      *)
(* invoice paid.  A Stripe subscription has the number of its session.     *)
(***************************************************************************)
EXTENDS Integers, FiniteSets

CONSTANTS MaxRows, MaxSessions,  \* bounds: rows and checkout sessions
          MaxTime,               \* bound: billing periods
          Grace,                 \* membership_grace_period_days, in periods
          Window,                \* nightly visits a terminal row still gets, 30 in the code
          MaxUpdates,            \* bound: subscription events in flight
          MaxRequests,           \* bound: requests and refunds that end, pause or plan the end
          MaxFaults,             \* bound: crashes, lost calls and repeated deliveries
          LateRedelivery         \* a completed event comes again after a newer session

ASSUME BoundsAssumption ==
  /\ MaxRows \in Nat \ {0} /\ MaxSessions \in Nat \ {0} /\ MaxTime \in Nat \ {0}
  /\ Grace \in Nat /\ Window \in Nat /\ MaxUpdates \in Nat /\ MaxRequests \in Nat /\ MaxFaults \in Nat
ASSUME RedeliveryAssumption == LateRedelivery \in BOOLEAN

Row == 1..MaxRows
Session == 1..MaxSessions
Period == 1..(MaxTime + 1)
None == 0

Terminal == {"CANCELLED", "EXPIRED"}
Status == {"none", "PENDING", "ACTIVE", "PAUSED", "PAST_DUE"} \cup Terminal
StripeStatus == {"none", "incomplete", "active", "past_due", "canceled"}

(* The payload of customer.subscription.*, and what a retrieve returns. *)
Payload == [sub: Session, status: StripeStatus, cap: BOOLEAN, paused: BOOLEAN,
            end: Period \cup {None}]

VARIABLES
  status,     \* of each row, "none" before it is created and once deleted
  link,       \* its stripe_subscription_id
  session,    \* its stripe_checkout_session_id
  cap,        \* its cancel_at_period_end
  period,     \* its current_period_end, None when null
  ledger,     \* status of the MembershipPayment of each invoice, "none" if absent
  incident,   \* sessions and Stripe subscriptions an alert was raised for
  ses,        \* Stripe: status of each Checkout Session
  owner,      \* Stripe: the row its metadata names
  sub,        \* Stripe: status of each subscription
  held,       \* Stripe: its cancel_at_period_end
  paused,     \* Stripe: its pause_collection
  send,       \* Stripe: its current_period_end
  inv,        \* Stripe: status of each invoice
  now,        \* the time
  requests, faults,           \* made and suffered so far
  completed, ended,           \* checkout.session.completed and .expired in flight
  paid, unpaid, refunds,      \* invoice.paid, .payment_failed, charge.refunded
  updates,                    \* customer.subscription.*
  closing,    \* subscriptions a committed handler has yet to cancel at Stripe
  expiring,   \* sessions a committed membership loss has yet to expire
  fresh,      \* rows the running expiry job has moved to PAST_DUE
  swept,      \* <<row, session>> the stale-checkout sweep has found dead
  recon,      \* what the reconcile read: whether terminal, payload, invoice
  visits      \* nightly visits of each row since it went terminal

rows == <<status, link, session, cap, period>>
checkout == <<ses, owner>>
billing == <<sub, held, paused, send, inv>>
events == <<completed, ended, paid, unpaid, refunds, updates>>
post == <<closing, expiring>>
clock == <<now, requests, faults>>
jobs == <<fresh, swept, recon, visits>>
vars == <<rows, ledger, incident, checkout, billing, clock, events, post, jobs>>

Idle == [terminal |-> FALSE, invoice |-> None,
         seen |-> [sub |-> 1, status |-> "none", cap |-> FALSE, paused |-> FALSE, end |-> None],
         step |-> "idle"]
Read == [terminal: BOOLEAN, invoice: Period \cup {None},
         seen: Payload, step: {"idle", "read", "unknown"}]
NoRow == <<None, None>>

TypeOK ==
  /\ status \in [Row -> Status]
  /\ link \in [Row -> Session \cup {None}] /\ session \in [Row -> Session \cup {None}]
  /\ cap \in [Row -> BOOLEAN] /\ period \in [Row -> Period \cup {None}]
  /\ ledger \in [Session -> [Period -> {"none", "FAILED", "SUCCEEDED", "REFUNDED"}]]
  /\ incident \subseteq Session
  /\ ses \in [Session -> {"none", "open", "complete", "expired"}]
  /\ owner \in [Session -> Row \cup {None}]
  /\ sub \in [Session -> StripeStatus]
  /\ held \in [Session -> BOOLEAN] /\ paused \in [Session -> BOOLEAN]
  /\ send \in [Session -> Period \cup {None}]
  /\ inv \in [Session -> [Period -> {"none", "open", "paid", "refunded"}]]
  /\ now \in 0..MaxTime /\ requests \in 0..MaxRequests /\ faults \in 0..MaxFaults
  /\ completed \subseteq Session /\ ended \subseteq Session
  /\ paid \subseteq Session \X Period /\ unpaid \subseteq Session \X Period
  /\ refunds \subseteq Session \X Period /\ updates \subseteq Payload
  /\ closing \subseteq Session /\ expiring \subseteq Session
  /\ fresh \subseteq Row
  /\ swept \in (Row \cup {None}) \X (Session \cup {None})
  /\ recon \in Read
  /\ visits \in [Row -> 0..Window]

Init ==
  /\ status = [r \in Row |-> "none"] /\ link = [r \in Row |-> None]
  /\ session = [r \in Row |-> None] /\ cap = [r \in Row |-> FALSE]
  /\ period = [r \in Row |-> None]
  /\ ledger = [s \in Session |-> [t \in Period |-> "none"]]
  /\ incident = {}
  /\ ses = [s \in Session |-> "none"] /\ owner = [s \in Session |-> None]
  /\ sub = [s \in Session |-> "none"]
  /\ held = [s \in Session |-> FALSE] /\ paused = [s \in Session |-> FALSE]
  /\ send = [s \in Session |-> None]
  /\ inv = [s \in Session |-> [t \in Period |-> "none"]]
  /\ now = 0 /\ requests = 0 /\ faults = 0
  /\ completed = {} /\ ended = {} /\ paid = {} /\ unpaid = {} /\ refunds = {}
  /\ updates = {}
  /\ closing = {} /\ expiring = {} /\ fresh = {} /\ swept = NoRow /\ recon = Idle
  /\ visits = [r \in Row |-> 0]

-----------------------------------------------------------------------------
(* Stripe *)

Live(s) == sub[s] \in {"incomplete", "active", "past_due"}
WasPaid(s, t) == inv[s][t] \in {"paid", "refunded"}
Billed(s) == {t \in Period : inv[s][t] # "none"}
FirstInvoice(s) == CHOOSE t \in Billed(s) : \A u \in Billed(s) : t <= u
LatestInvoice(s) == CHOOSE t \in Billed(s) : \A u \in Billed(s) : u <= t

(* What a request and a fault take from their bounds. *)
Requested == requests < MaxRequests /\ requests' = requests + 1 /\ UNCHANGED now
Fault == faults < MaxFaults /\ faults' = faults + 1
Struck == Fault /\ UNCHANGED <<now, requests>>

(* An event beyond the bound is lost. *)
InFlight(more) == IF Cardinality(updates \cup more) <= MaxUpdates THEN updates \cup more ELSE updates

(* A change of a subscription at Stripe, announced by an event. *)
Change(s, st, c, p, e) ==
  /\ sub' = [sub EXCEPT ![s] = st] /\ held' = [held EXCEPT ![s] = c]
  /\ paused' = [paused EXCEPT ![s] = p] /\ send' = [send EXCEPT ![s] = e]
Seen(s, st, c, p, e) == [sub |-> s, status |-> st, cap |-> c, paused |-> p, end |-> e]
Announce(s, st, c, p, e) ==
  Change(s, st, c, p, e) /\ updates' = InFlight({Seen(s, st, c, p, e)})

CancelAtStripe(s) == Announce(s, "canceled", held[s], paused[s], send[s])

(* The member pays an open session: the subscription and its first invoice. *)
Pay(s) ==
  /\ ses[s] = "open"
  /\ ses' = [ses EXCEPT ![s] = "complete"]
  /\ Change(s, "active", FALSE, FALSE, now + 1)
  /\ updates' = InFlight({Seen(s, st, FALSE, FALSE, now + 1) : st \in {"incomplete", "active"}})
  /\ inv' = [inv EXCEPT ![s][now + 1] = "paid"]
  /\ completed' = completed \cup {s} /\ paid' = paid \cup {<<s, now + 1>>}
  /\ UNCHANGED <<rows, ledger, incident, owner, clock, ended, unpaid, refunds, post, jobs>>

SessionExpires(s) ==
  /\ ses[s] = "open"
  /\ ses' = [ses EXCEPT ![s] = "expired"] /\ ended' = ended \cup {s}
  /\ UNCHANGED <<rows, ledger, incident, owner, billing, clock, completed, paid, unpaid,
                 refunds, updates, post, jobs>>

(* The end of a period: the subscription ends, is paused, is paid or not.   *)
Renew(s) ==
  /\ sub[s] = "active" /\ send[s] <= now
  /\ \/ /\ held[s] /\ CancelAtStripe(s)
        /\ UNCHANGED <<inv, paid, unpaid>>
     \/ /\ ~held[s] /\ paused[s] /\ Announce(s, "active", FALSE, TRUE, send[s] + 1)
        /\ UNCHANGED <<inv, paid, unpaid>>
     \/ /\ ~held[s] /\ ~paused[s] /\ Announce(s, "active", FALSE, FALSE, send[s] + 1)
        /\ inv' = [inv EXCEPT ![s][send[s] + 1] = "paid"]
        /\ paid' = paid \cup {<<s, send[s] + 1>>} /\ UNCHANGED unpaid
     \/ /\ ~held[s] /\ ~paused[s] /\ Announce(s, "past_due", FALSE, FALSE, send[s] + 1)
        /\ inv' = [inv EXCEPT ![s][send[s] + 1] = "open"]
        /\ unpaid' = unpaid \cup {<<s, send[s] + 1>>} /\ UNCHANGED paid
  /\ UNCHANGED <<rows, ledger, incident, checkout, clock, completed, ended, refunds, post, jobs>>

(* Dunning: a retry is paid, or Stripe gives up. *)
Retry(s) ==
  /\ sub[s] = "past_due"
  /\ \/ /\ Announce(s, "active", held[s], paused[s], send[s])
        /\ inv' = [inv EXCEPT ![s][LatestInvoice(s)] = "paid"]
        /\ paid' = paid \cup {<<s, LatestInvoice(s)>>}
     \/ /\ CancelAtStripe(s) /\ UNCHANGED <<inv, paid>>
  /\ UNCHANGED <<rows, ledger, incident, checkout, clock, completed, ended, unpaid, refunds,
                 post, jobs>>

(* The organization refunds an invoice in full from its dashboard. *)
DashboardRefund(s, t) ==
  /\ inv[s][t] = "paid" /\ Requested
  /\ inv' = [inv EXCEPT ![s][t] = "refunded"] /\ refunds' = refunds \cup {<<s, t>>}
  /\ UNCHANGED <<rows, ledger, incident, checkout, sub, held, paused, send, faults, completed,
                 ended, paid, unpaid, updates, post, jobs>>

LoseUpdate(m) ==
  /\ m \in updates /\ updates' = updates \ {m} /\ Struck
  /\ UNCHANGED <<rows, ledger, incident, checkout, billing, completed, ended, paid,
                 unpaid, refunds, post, jobs>>

Tick ==
  /\ now < MaxTime /\ now' = now + 1
  /\ UNCHANGED <<rows, ledger, incident, checkout, billing, requests, faults, events, post, jobs>>

stripe == <<checkout, billing>>

-----------------------------------------------------------------------------
(* Rows *)

IsTerminal(r) == status[r] \in Terminal
Open == {r \in Row : status[r] \notin Terminal \cup {"none"}}
Linked(s) == {r \in Row : status[r] # "none" /\ link[r] = s}
HasPayments(r) == \E s \in Session, t \in Period : owner[s] = r /\ ledger[s][t] # "none"

SetRow(r, st, l, n, c, p) ==
  /\ status' = [status EXCEPT ![r] = st] /\ link' = [link EXCEPT ![r] = l]
  /\ session' = [session EXCEPT ![r] = n] /\ cap' = [cap EXCEPT ![r] = c]
  /\ period' = [period EXCEPT ![r] = p]

(* Locally terminal, with the Stripe side closed after the commit. *)
Terminalize(r, st, c) ==
  /\ SetRow(r, st, link[r], session[r], c, period[r])
  /\ closing' = closing \cup ({link[r]} \ {None})

(* _clear_stale_pending_checkout: a row with payments goes back to EXPIRED. *)
ClearPending(r) ==
  IF HasPayments(r) THEN SetRow(r, "EXPIRED", link[r], None, cap[r], period[r])
                    ELSE SetRow(r, "none", None, None, FALSE, None)

(* The anchor moves forward only; and a form that follows the payload.      *)
Overwritten(old, new) == IF new = None THEN old ELSE new
ForwardOnly(old, new) == IF new = None \/ (old # None /\ new <= old) THEN old ELSE new

(* _resolve_target_status and the dunning fork of _apply_status_transition; *)
(* and a form that copies Stripe's word.                                    *)
StripesWord(r, m) == m.status
StatusFor(r, m) ==
  CASE m.status = "canceled" /\ status[r] = "PAST_DUE" /\ ~cap[r] -> "EXPIRED"
    [] m.status = "canceled" -> "CANCELLED"
    [] m.status # "canceled" /\ m.paused -> "PAUSED"
    [] m.status = "incomplete" /\ ~m.paused -> "PENDING"
    [] m.status = "active" /\ ~m.paused -> "ACTIVE"
    [] OTHER -> "PAST_DUE"

(* sync_subscription_from_stripe; terminal rows are frozen.                 *)
MirrorsAny(r) == TRUE
Mirrors(r) == ~IsTerminal(r)
Mirror(m) ==
  IF \E r \in Linked(m.sub) : Mirrors(r)
  THEN \E r \in Linked(m.sub) :
         SetRow(r, StatusFor(r, m), link[r], session[r], m.cap, ForwardOnly(period[r], m.end))
  ELSE UNCHANGED rows

(* record_stripe_payment_from_invoice on a paid invoice of the row r, which *)
(* may be being linked to it in the same step.                              *)
RecordPaid(r, s, t) ==
  /\ ledger' = [ledger EXCEPT ![s][t] = "SUCCEEDED"]
  /\ incident' = IF IsTerminal(r) \/ status[r] = "PAUSED" THEN incident \cup {s} ELSE incident
  /\ IF IsTerminal(r) THEN UNCHANGED rows
     ELSE SetRow(r, IF status[r] \in {"PENDING", "PAST_DUE"} THEN "ACTIVE" ELSE status[r],
                 s, session[r], cap[r], ForwardOnly(period[r], t))

-----------------------------------------------------------------------------
(* Webhooks *)

(* handle_invoice_paid: an unknown subscription is ignored. *)
InvoicePaid(s, t) ==
  /\ <<s, t>> \in paid /\ paid' = paid \ {<<s, t>>}
  /\ IF Linked(s) = {} THEN UNCHANGED <<rows, ledger, incident>>
     ELSE \E r \in Linked(s) : RecordPaid(r, s, t)
  /\ UNCHANGED <<stripe, clock, completed, ended, unpaid, refunds, updates, post, jobs>>

(* What a late failure must not overwrite. *)
Settled == {"SUCCEEDED", "REFUNDED"}

InvoiceFailed(s, t) ==
  /\ <<s, t>> \in unpaid /\ unpaid' = unpaid \ {<<s, t>>}
  /\ IF Linked(s) = {} \/ ledger[s][t] \in Settled THEN UNCHANGED <<rows, ledger>>
     ELSE \E r \in Linked(s) :
            /\ ledger' = [ledger EXCEPT ![s][t] = "FAILED"]
            /\ status' = IF status[r] \in {"ACTIVE", "PENDING"}
                         THEN [status EXCEPT ![r] = "PAST_DUE"] ELSE status
            /\ UNCHANGED <<link, session, cap, period>>
  /\ UNCHANGED <<incident, stripe, clock, completed, ended, paid, refunds, updates, post, jobs>>

(* customer.subscription.created, .updated and .deleted *)
SubscriptionEvent(m) ==
  /\ m \in updates /\ updates' = updates \ {m} /\ Mirror(m)
  /\ UNCHANGED <<ledger, incident, stripe, clock, completed, ended, paid, unpaid, refunds,
                 post, jobs>>

(* handle_subscription_checkout_completed with _backfill_initial_invoice.   *)
Alarm(s) == incident' = incident \cup {s}
Link(r, s) ==
  IF ledger[s][FirstInvoice(s)] = "none"
  THEN RecordPaid(r, s, FirstInvoice(s))
  ELSE /\ SetRow(r, status[r], s, session[r], cap[r], period[r])
       /\ UNCHANGED <<ledger, incident>>
OnCompleted(s) ==
  IF status[owner[s]] = "none" THEN Alarm(s) /\ UNCHANGED <<rows, ledger, closing>>
  ELSE IF IsTerminal(owner[s])
  THEN Alarm(s) /\ closing' = closing \cup {s} /\ UNCHANGED <<rows, ledger>>
  ELSE Link(owner[s], s) /\ UNCHANGED closing

CheckoutCompleted(s) ==
  /\ s \in completed /\ completed' = completed \ {s} /\ OnCompleted(s)
  /\ UNCHANGED <<stripe, clock, ended, paid, unpaid, refunds, updates, expiring, jobs>>

(* The same event again: replay_checkout_session_completed. *)
CheckoutRedelivered(s) ==
  /\ ses[s] = "complete" /\ s \notin completed
  /\ LateRedelivery \/ session[owner[s]] = s
  /\ OnCompleted(s) /\ Struck
  /\ UNCHANGED <<stripe, events, expiring, jobs>>

(* handle_subscription_checkout_expired *)
CheckoutExpired(s) ==
  /\ s \in ended /\ ended' = ended \ {s}
  /\ IF status[owner[s]] = "PENDING" /\ link[owner[s]] = None /\ session[owner[s]] = s
     THEN ClearPending(owner[s]) ELSE UNCHANGED rows
  /\ UNCHANGED <<ledger, incident, stripe, clock, completed, paid, unpaid, refunds, updates,
                 post, jobs>>

(* handle_charge_refunded on a membership payment: a refund of the current  *)
(* period ends the membership.                                              *)
ChargeRefunded(s, t) ==
  /\ <<s, t>> \in refunds /\ refunds' = refunds \ {<<s, t>>}
  /\ IF ledger[s][t] \in {"none", "REFUNDED"} THEN UNCHANGED <<rows, ledger, closing>>
     ELSE /\ ledger' = [ledger EXCEPT ![s][t] = "REFUNDED"]
          /\ IF link[owner[s]] = s /\ period[owner[s]] = t /\ ~IsTerminal(owner[s])
             THEN Terminalize(owner[s], "CANCELLED", FALSE)
             ELSE UNCHANGED <<rows, closing>>
  /\ UNCHANGED <<incident, stripe, clock, completed, ended, paid, unpaid, updates, expiring, jobs>>

(* replay_charge_refunded *)
RefundRedelivered(s, t) ==
  /\ inv[s][t] = "refunded" /\ <<s, t>> \notin refunds /\ ledger[s][t] = "REFUNDED"
  /\ status[owner[s]] = "CANCELLED" /\ link[owner[s]] # None /\ Struck
  /\ closing' = closing \cup {link[owner[s]]}
  /\ UNCHANGED <<rows, ledger, incident, stripe, events, expiring, jobs>>

-----------------------------------------------------------------------------
(* The member and the staff.  A request that calls Stripe and dies before   *)
(* its commit leaves the row as it was.                                     *)

Commits(change) == \/ change /\ UNCHANGED faults
                   \/ Fault /\ UNCHANGED rows

(* Stripe's side of an expire: only an open session can be expired. *)
ExpireSession(s) ==
  IF s # None /\ ses[s] = "open"
  THEN ses' = [ses EXCEPT ![s] = "expired"] /\ ended' = ended \cup {s}
  ELSE UNCHANGED <<ses, ended>>

(* The next session and row to be made. *)
Minted(s) == s \in Session /\ ses[s] = "none" /\ \A u \in Session : u < s => ses[u] # "none"
NewRow(r) == /\ r \in Row /\ \A s \in Session : owner[s] # r
             /\ \A q \in Row : q < r => \E s \in Session : owner[s] = q

(* start_online_subscription of a member with no open row. *)
Subscribe(r, s) ==
  /\ Open = {} /\ NewRow(r) /\ Minted(s)
  /\ ses' = [ses EXCEPT ![s] = "open"] /\ owner' = [owner EXCEPT ![s] = r]
  /\ SetRow(r, "PENDING", None, s, FALSE, None)
  /\ UNCHANGED <<ledger, incident, billing, clock, events, post, jobs>>

(* What a pending checkout must be to be replaced; and a form that forgets  *)
(* that it may have been paid.                                              *)
Unlinked(q) == status[q] = "PENDING" /\ link[q] = None
Replaceable(q) == /\ status[q] = "PENDING" /\ link[q] = None
                  /\ session[q] # None => ses[session[q]] # "complete"

(* The same for one with a pending checkout of another plan, or a dead one: *)
(* its session is expired first, and its row cleared.                       *)
SubscribeAgain(q, r, s) ==
  /\ Open = {q} /\ Replaceable(q) /\ NewRow(r) /\ Minted(s)
  /\ owner' = [owner EXCEPT ![s] = r]
  /\ ses' = [u \in Session |-> CASE u = s -> "open"
                                 [] u = session[q] /\ ses[u] = "open" -> "expired"
                                 [] OTHER -> ses[u]]
  /\ ended' = IF session[q] # None /\ ses[session[q]] = "open" THEN ended \cup {session[q]} ELSE ended
  /\ status' = [status EXCEPT ![r] = "PENDING",
                              ![q] = IF HasPayments(q) THEN "EXPIRED" ELSE "none"]
  /\ session' = [session EXCEPT ![r] = s, ![q] = None]
  /\ UNCHANGED <<link, cap, period, ledger, incident, billing, clock, completed, paid, unpaid,
                 refunds, updates, post, jobs>>

(* create_revival_checkout: the old subscription must be closed before its  *)
(* id goes; and a form that only tries.                                     *)
ClosedBestEffort(l) == TRUE
ClosedForRevival(l) == l = None \/ sub'[l] \in {"canceled", "none"}
Revive(r, s) ==
  /\ status[r] = "EXPIRED" /\ Open = {} /\ Minted(s)
  /\ \/ link[r] # None /\ Live(link[r]) /\ CancelAtStripe(link[r])
     \/ UNCHANGED <<billing, updates>>
  /\ \/ /\ ClosedForRevival(link[r])
        /\ ses' = [ses EXCEPT ![s] = "open"] /\ owner' = [owner EXCEPT ![s] = r]
        /\ SetRow(r, "PENDING", None, s, cap[r], None)
        /\ visits' = [visits EXCEPT ![r] = 0]
     \/ UNCHANGED <<rows, checkout, visits>>
  /\ UNCHANGED <<ledger, incident, inv, clock, completed, ended, paid, unpaid, refunds, post,
                 fresh, swept, recon>>

(* cancel_subscription, now: a linked subscription is cancelled at Stripe,  *)
(* an unpaid checkout expired; a paid one refuses.                          *)
CancelNow(r) ==
  /\ r \in Open /\ Requested
  /\ IF link[r] # None
     THEN /\ \/ Live(link[r]) /\ CancelAtStripe(link[r])
             \/ ~Live(link[r]) /\ UNCHANGED <<sub, held, paused, send, updates>>
          /\ UNCHANGED <<ses, ended>>
     ELSE /\ session[r] # None => ses[session[r]] # "complete"
          /\ ExpireSession(session[r]) /\ UNCHANGED <<sub, held, paused, send, updates>>
  /\ Commits(SetRow(r, "CANCELLED", link[r], session[r], FALSE, period[r]))
  /\ UNCHANGED <<ledger, incident, owner, inv, completed, paid, unpaid, refunds, post, jobs>>

(* cancel_subscription, at the end of the period. *)
ScheduleCancel(r) ==
  /\ Requested /\ r \in Open /\ link[r] # None /\ status[r] # "PAUSED"
  /\ \/ Live(link[r]) /\ Announce(link[r], sub[link[r]], TRUE, paused[link[r]], send[link[r]])
     \/ ~Live(link[r]) /\ UNCHANGED <<sub, held, paused, send, updates>>
  /\ Commits(SetRow(r, status[r], link[r], session[r], TRUE, period[r]))
  /\ UNCHANGED <<ledger, incident, checkout, inv, completed, ended, paid, unpaid, refunds,
                 post, jobs>>

(* A change Stripe must accept: resume renewals, pause, resume. *)
AtStripeFirst(r, c, p, change) ==
  /\ r \in Open /\ link[r] # None /\ Live(link[r])
  /\ Announce(link[r], sub[link[r]], c, p, send[link[r]])
  /\ Commits(change)
  /\ UNCHANGED <<ledger, incident, checkout, inv, completed, ended, paid, unpaid, refunds,
                 post, jobs>>

Uncancel(r) ==
  /\ cap[r] /\ link[r] # None /\ UNCHANGED <<now, requests>>
  /\ AtStripeFirst(r, FALSE, paused[link[r]],
                   SetRow(r, status[r], link[r], session[r], FALSE, period[r]))
Pause(r) ==
  /\ Requested /\ ~cap[r] /\ status[r] # "PAUSED" /\ link[r] # None
  /\ AtStripeFirst(r, held[link[r]], TRUE,
                   SetRow(r, "PAUSED", link[r], session[r], cap[r], period[r]))
Resume(r) ==
  /\ status[r] = "PAUSED" /\ link[r] # None /\ UNCHANGED <<now, requests>>
  /\ AtStripeFirst(r, held[link[r]], FALSE,
                   SetRow(r, "ACTIVE", link[r], session[r], cap[r], period[r]))

(* cancel_subscriptions_for_membership_loss: a ban, a removal, a deletion.  *)
MembershipLoss(r) ==
  /\ r \in Open /\ Requested
  /\ SetRow(r, "CANCELLED", link[r], session[r], FALSE, period[r])
  /\ closing' = closing \cup ({link[r]} \ {None})
  /\ expiring' = IF link[r] = None THEN expiring \cup ({session[r]} \ {None}) ELSE expiring
  /\ UNCHANGED <<ledger, incident, stripe, faults, events, jobs>>

-----------------------------------------------------------------------------
(* Calls made after a commit, each made once at best *)

Close(s) ==
  /\ s \in closing /\ closing' = closing \ {s}
  /\ IF Live(s) THEN CancelAtStripe(s) ELSE UNCHANGED <<sub, held, paused, send, updates>>
  /\ UNCHANGED <<rows, ledger, incident, checkout, inv, clock, completed, ended, paid, unpaid,
                 refunds, expiring, jobs>>

(* _expire_open_checkout_best_effort: a session found paid raises the alarm *)
ExpireLater(s) ==
  /\ s \in expiring /\ expiring' = expiring \ {s}
  /\ ExpireSession(s)
  /\ incident' = IF ses[s] = "complete" THEN incident \cup {s} ELSE incident
  /\ UNCHANGED <<rows, ledger, owner, billing, clock, completed, paid, unpaid, refunds, updates,
                 closing, jobs>>

PostCallLost ==
  /\ Struck
  /\ \/ \E s \in closing : closing' = closing \ {s} /\ UNCHANGED expiring
     \/ \E s \in expiring : expiring' = expiring \ {s} /\ UNCHANGED closing
  /\ UNCHANGED <<rows, ledger, incident, stripe, events, jobs>>

-----------------------------------------------------------------------------
(* expire_subscriptions_past_grace *)

Over(r) == period[r] # None /\ period[r] <= now
GraceOver(r) == period[r] # None /\ period[r] + Grace <= now

LapseActive(r) ==
  /\ status[r] = "ACTIVE" /\ Over(r)
  /\ IF cap[r] THEN Terminalize(r, "CANCELLED", cap[r]) /\ UNCHANGED fresh
     ELSE /\ SetRow(r, "PAST_DUE", link[r], session[r], cap[r], period[r])
          /\ fresh' = fresh \cup {r} /\ UNCHANGED closing
  /\ UNCHANGED <<ledger, incident, stripe, clock, events, expiring, swept, recon, visits>>

(* A row this run has just moved to PAST_DUE is left for the next run.      *)
ExpirePastDue(r) ==
  /\ status[r] = "PAST_DUE" /\ GraceOver(r) /\ r \notin fresh
  /\ Terminalize(r, IF cap[r] THEN "CANCELLED" ELSE "EXPIRED", cap[r])
  /\ UNCHANGED <<ledger, incident, stripe, clock, events, expiring, jobs>>

ExpiryJobEnds ==
  /\ fresh # {} /\ fresh' = {}
  /\ UNCHANGED <<rows, ledger, incident, stripe, clock, events, post, swept, recon, visits>>

-----------------------------------------------------------------------------
(* _sweep_stale_pending_checkouts, which the reconcile task runs first: the *)
(* session is read before the row is locked, and the row checked again      *)
(* under the lock.  Row and session commit together, so a pending row that  *)
(* is not linked has one.                                                   *)

DeadIfUnknown(s) == ses[s] = "none"
Dead(s) == ses[s] = "expired"

SweepReads(r) ==
  /\ swept = NoRow /\ recon = Idle /\ status[r] = "PENDING" /\ link[r] = None /\ session[r] # None
  /\ IF Dead(session[r]) THEN swept' = <<r, session[r]>> /\ UNCHANGED incident
     ELSE ses[session[r]] = "complete" /\ Alarm(session[r]) /\ UNCHANGED swept
  /\ UNCHANGED <<rows, ledger, stripe, clock, events, post, fresh, recon, visits>>

(* What the sweep checks again.                                             *)
SameCheckout(r, s) == status[r] = "PENDING" /\ link[r] = None /\ session[r] = s

SweepClears ==
  /\ swept # NoRow /\ swept' = NoRow
  /\ IF SameCheckout(swept[1], swept[2]) THEN ClearPending(swept[1]) ELSE UNCHANGED rows
  /\ UNCHANGED <<ledger, incident, stripe, clock, events, post, fresh, recon, visits>>

-----------------------------------------------------------------------------
(* reconcile_stripe_subscriptions, row by row.  A terminal row is not saved *)
(* again, so it is visited for the thirty nights its updated_at is recent;  *)
(* the night counts when the row's turn comes, though Stripe may not answer.*)

InScope(r) == IsTerminal(r) => visits[r] < Window

OldestPaid(s) == FirstInvoice(s)
NewestPaid(s) == IF WasPaid(s, LatestInvoice(s)) THEN LatestInvoice(s) ELSE None
ReconcileReads(r) ==
  /\ recon = Idle /\ swept = NoRow /\ link[r] # None /\ InScope(r)
  /\ visits' = IF IsTerminal(r) THEN [visits EXCEPT ![r] = @ + 1] ELSE visits
  /\ \/ /\ recon' = [terminal |-> IsTerminal(r), step |-> "read",
                     invoice |-> NewestPaid(link[r]),
                     seen |-> Seen(link[r], sub[link[r]], held[link[r]], paused[link[r]],
                                   send[link[r]])]
        /\ UNCHANGED clock
     \/ Struck /\ UNCHANGED recon
  /\ UNCHANGED <<rows, ledger, incident, stripe, events, post, fresh, swept>>

(* The cancel that a terminal row's handler failed to make; and a form that *)
(* trusts the handler.                                                      *)
NeverBills == FALSE
StillBills == recon.terminal /\ recon.seen.status # "canceled"

(* The sync, the cancel, and the look whether the ledger has the invoice,   *)
(* which the recording does not repeat.                                     *)
ReconcileSyncs ==
  /\ recon.step = "read"
  /\ recon' = IF recon.invoice # None /\ ledger[recon.seen.sub][recon.invoice] = "none"
              THEN [recon EXCEPT !.step = "unknown"] ELSE Idle
  /\ Mirror(recon.seen)
  /\ \/ /\ StillBills /\ Live(recon.seen.sub) /\ CancelAtStripe(recon.seen.sub)
        /\ UNCHANGED clock
     \/ /\ StillBills /\ Struck /\ UNCHANGED <<sub, held, paused, send, updates>>
     \/ /\ StillBills => ~Live(recon.seen.sub)
        /\ UNCHANGED <<sub, held, paused, send, updates, clock>>
  /\ UNCHANGED <<ledger, incident, checkout, inv, completed, ended, paid, unpaid, refunds, post,
                 fresh, swept, visits>>

ReconcileRecords ==
  /\ recon.step = "unknown" /\ recon' = Idle
  /\ IF Linked(recon.seen.sub) = {} THEN UNCHANGED <<rows, ledger, incident>>
     ELSE \E r \in Linked(recon.seen.sub) : RecordPaid(r, recon.seen.sub, recon.invoice)
  /\ UNCHANGED <<stripe, clock, events, post, fresh, swept, visits>>

-----------------------------------------------------------------------------

ExpiryJob == ExpiryJobEnds \/ \E r \in Row : LapseActive(r) \/ ExpirePastDue(r)
Sweep == SweepClears \/ \E r \in Row : SweepReads(r)
Reconcile == ReconcileSyncs \/ ReconcileRecords \/ \E r \in Row : ReconcileReads(r)

Member ==
  \/ \E r \in Row, s \in Session : Subscribe(r, s) \/ Revive(r, s)
  \/ \E q, r \in Row, s \in Session : SubscribeAgain(q, r, s)
  \/ \E r \in Row : CancelNow(r) \/ ScheduleCancel(r) \/ Uncancel(r) \/ Pause(r) \/ Resume(r)
                    \/ MembershipLoss(r)

Webhook ==
  \/ \E s \in Session : CheckoutCompleted(s) \/ CheckoutRedelivered(s) \/ CheckoutExpired(s)
  \/ \E s \in Session, t \in Period :
       InvoicePaid(s, t) \/ InvoiceFailed(s, t) \/ ChargeRefunded(s, t) \/ RefundRedelivered(s, t)
  \/ \E m \in updates : SubscriptionEvent(m)

Stripe ==
  \/ Tick
  \/ \E s \in Session : Pay(s) \/ SessionExpires(s) \/ Renew(s) \/ Retry(s)
  \/ \E s \in Session, t \in Period : DashboardRefund(s, t)
  \/ \E m \in updates : LoseUpdate(m)

PostCalls == PostCallLost \/ \E s \in Session : Close(s) \/ ExpireLater(s)

Next == Member \/ Webhook \/ Stripe \/ PostCalls \/ ExpiryJob \/ Sweep \/ Reconcile

Spec == Init /\ [][Next]_vars

(* The beats run daily, and Stripe expires the sessions nobody pays.  No    *)
(* event need be delivered and no call after a commit be made.              *)
Fairness ==
  /\ \A s \in Session : WF_vars(SessionExpires(s))
  /\ \A r \in Row : SF_vars(SweepReads(r)) /\ SF_vars(ReconcileReads(r))
  /\ WF_vars(SweepClears) /\ WF_vars(ReconcileSyncs) /\ WF_vars(ReconcileRecords)
FairSpec == Spec /\ Fairness

-----------------------------------------------------------------------------
(* Properties *)

(* No Stripe subscription bills a member unknown to the application: a row  *)
(* carries its id, or is still waiting for it, or the event that brings it  *)
(* is still to come, or an alert names it.  The reconcile walks rows only,  *)
(* so one that escaped this would bill for ever.                            *)
NoUnknownBilling ==
  \A s \in Session : Live(s) =>
    \/ Linked(s) # {} \/ s \in completed \/ s \in incident
    \/ status[owner[s]] = "PENDING" /\ session[owner[s]] = s

(* A member pays for one membership: of the subscriptions Stripe bills, all *)
(* but one belong to rows that are over, and are being closed.              *)
BilledOnce == Cardinality({s \in Session : Live(s) /\ ~IsTerminal(owner[s])}) <= 1

(* The anchor of a running membership never falls behind a period its       *)
(* ledger shows as paid, in whatever order invoices and updates arrive.     *)
PeriodCoversLedger ==
  \A s \in Session, t \in Period :
    ledger[s][t] = "SUCCEEDED" => \A r \in Linked(s) \cap Open : period[r] >= t

(* Terminal rows are frozen: no event, job or request moves them, but for a *)
(* revival, which needs an expired row and gives it a session to pay.       *)
TerminalIsFrozen ==
  [][\A r \in Row : IsTerminal(r) =>
       \/ /\ status'[r] = status[r] /\ link'[r] = link[r]
          /\ cap'[r] = cap[r] /\ period'[r] = period[r]
       \/ /\ status[r] = "EXPIRED" /\ status'[r] = "PENDING" /\ link'[r] = None
          /\ ses'[session'[r]] = "open" /\ Open = {}]_vars

(* An invoice refunded in the ledger stays so.                              *)
RefundedStaysRefunded ==
  [][\A s \in Session, t \in Period :
       ledger[s][t] = "REFUNDED" => ledger'[s][t] = "REFUNDED"]_vars

(* A cancel at Stripe that was lost after its row went terminal is made     *)
(* again until Stripe stops billing.                                        *)
ZombiesAreClosed ==
  \A r \in Row, s \in Session :
    (IsTerminal(r) /\ link[r] = s /\ Live(s)) ~> (link[r] # s \/ ~Live(s))

(* A row waiting for a payment is settled though no event ever arrives: it  *)
(* leaves PENDING and the member's slot, or an alert names its session.     *)
PendingIsSettled ==
  \A r \in Row : status[r] = "PENDING" ~>
                  (status[r] # "PENDING" \/ session[r] \in incident)

(* The newest invoice of a linked subscription, once paid, is in the ledger *)
(* though its event never arrives.                                          *)
NewestPaidIsKnown ==
  \A s \in Session, t \in Period :
    (Linked(s) # {} /\ WasPaid(s, t) /\ t = LatestInvoice(s)) ~>
      (Linked(s) = {} \/ t # LatestInvoice(s) \/ ledger[s][t] # "none")
=============================================================================
