# A formal model of Revel's backend

Revel sells tickets, takes RSVPs and runs waitlists, passes and memberships for
organizations. It is a Django application (`src/src/`) on PostgreSQL, with Celery
workers, Stripe as the payment provider and signed webhooks coming back from it.
The modules in this directory are TLA+ specifications of the parts of it whose
correctness depends on what several requests, tasks and webhooks do to the same
rows at the same time. TLC checks them on small instances; TLAPS proves their
central theorems for every instance.

Paths below are relative to the repository root; the Django code is under
`src/`, so that `src/events/...` here is `src/src/events/...` in `PROJECT.json`.

## 1. The system

### Execution model

* HTTP requests run in one transaction each (`ATOMIC_REQUESTS`) at PostgreSQL's
  default READ COMMITTED: a plain SELECT sees whatever is committed when it runs,
  and takes no lock. `select_for_update` and every UPDATE or DELETE lock the rows
  until commit, and a waiter re-evaluates its WHERE clause on the new version.
* Celery tasks run at least once and in any order. `transaction.on_commit`
  callbacks run after the commit and are lost if the process dies there.
* Stripe calls happen inside the request's transaction or in an `on_commit`
  callback; a call may succeed and its answer be lost. Webhooks arrive late,
  reordered and repeatedly; a row per Stripe event id dedups the ones that were
  processed to the end.

So the hard behaviours are: a decision made on a row that was read without a lock;
two counters or rows that must move together; a sweep that selects before it
locks; a Stripe object and its local mirror going different ways; work that must
eventually be done by a periodic task.

### Inventory

| Component | State | Operations | What makes it correct | Here |
|---|---|---|---|---|
| Ticket checkout: `batch_ticket_service`, `pending_checkout`, `stripe_service` (`create_batch_session`), `stripe_webhooks` (`checkout.session.completed`), `tasks/payments` | `Ticket.status`, `Payment` (status, reservation, session id, expiry, incident hold), `TicketTier.quantity_sold`, Stripe's sessions | reserve, claim and stamp a session, resume, buyer cancel, sweep, confirm, organizer cancel | counters equal rows; no oversell; no captured money without a ticket or an incident; a payable session keeps its rows; every hold ends | `TicketCheckout` |
| RSVP and advanced waitlist: `event_manager`, `waitlist_service`, `tasks/waitlist`, `tasks/attendees` | `EventRSVP`, `EventWaitList`, `WaitlistOffer`, `Event.attendee_count`, `waitlist_open` | rsvp, join, leave, process a batch, expire, admin offer, revoke, reactivate, open/close, cancel the event | an offer's seat is there; nobody waits for ever beside a free seat; terminal states stay | `Waitlist` |
| Refunds: `refund_service`, `cancellation_service`, `stripe_webhook_refunds`, `tasks/refunds` | `Refund` rows, `Payment` mirror, Stripe refunds | issue, retry, webhook (known id, ours by metadata, dashboard), bulk cancel of an event | rows never claim more than was paid; nothing is paid back twice; a refund reaches the payment it was made for | `TicketRefunds` |
| Ticket desk: `ticket_service`, `check_in_service`, `batch_ticket_service`, `event_admin/tickets` | `Ticket.status`, `price_paid`, offline refunds, `TicketTier.quantity_sold` | off-platform checkout, confirm, unconfirm, check in, cancel, mark refunded, the buyer's cancel | counters equal rows; money recorded on a ticket matches its status; a cancelled ticket is not admitted | `TicketDesk` |
| Seating: `seating/*`, `batch_ticket_service/seats` | `SeatHold`, `Ticket.seat`, `EventSeatOverride`, seat row locks | hold, refresh, release, expire, buy, box office sale, reseat, override (each decides, then writes), cancel, delete, saves over a stale read | a seat is claimed once; a hold ends; locks do not deadlock | `Seating` |
| Series passes: `series_pass_service`, `series_pass_purchase`, `tasks/series_pass` | `HeldSeriesPass`, `SeriesPassTierLink`, the holders' tickets, two counters | buy, activate (webhook, desk), cancel, reclaim, extend, remove a link | a holder has a ticket for each covered event, a cancelled one none; counters equal rows | `SeriesPass` |
| Discount codes: `discount_code_service` | `DiscountCode.times_used` | validate, apply | limits hold under concurrency | in `TicketDesk` |
| Membership subscriptions: `subscription_*`, `stripe_webhook_subscriptions`, `tasks/subscriptions` | `MembershipSubscription`, `MembershipPayment`, Stripe sessions and subscriptions | subscribe, subscribe again, revive, renew, pause, resume, cancel, un-cancel, membership loss, refund, lapse, expire, sweep, reconcile | nobody is billed twice or unknown to the application; the paid period never rewinds; terminal is terminal | `Subscription` |
| Stripe Connect onboarding and incidents: `stripe_connect_service`, `stripe_incidents` | account flags, incident holds | onboard, alert, hold | a hold retains its rows | the hold is in `TicketCheckout` |
| Platform and attendee invoices: `invoice_service`, `attendee_invoice_service`, `common/service/invoice_utils` | numbered invoices and credit notes | number, draft, issue, credit | numbers are gapless and unique | not modelled |
| Referral payouts: `referral_payout_service`, `accounts/tasks/payouts` | `ReferralPayout` | compute, roll over, transfer | an amount is paid once | not modelled |
| Recurring series: `recurrence_service`, `tasks/recurrence` | occurrences, exception dates | materialize, cancel occurrence, pause, propagate | an occurrence exists once | not modelled |
| Announcements: `announcement_service`, `tasks/announcements` | `Announcement.status`, notification ledger | schedule, send, resend | each recipient gets it once | not modelled |
| Polls: `polls/` | poll status, submissions | open, vote, change, close | one ballot per voter, none after close | not modelled |
| Questionnaires: `questionnaires/` | submissions, evaluations | submit, auto-evaluate, review | an evaluation follows its submission | not modelled |
| Notifications: `notifications/` | `Notification`, deliveries | dispatch, digest, retry | a notification is delivered once per channel | not modelled |
| Organizations, tokens, blacklist, whitelist, invitations | memberships, tokens with use limits | claim, approve, ban | a token's limit holds | not modelled |
| Event updates and status: `event_update_service`, `duplication` | `Event` | patch, cancel, reopen | cancelled events make no offers | its waitlist side is in `Waitlist` |
| Accounts: auth, GDPR export and deletion, global bans, impersonation | users, tokens | log in, ban, erase | | not modelled |
| Telegram, wallet, geo, moderation, exports, revenue reports, API plumbing | | | | not modelled |

Interactions that matter: every path that frees or takes a seat writes rows and
moves `quantity_sold` in the same transaction, triggers the recount task through
model signals and enqueues the waitlist processor; checkout, cancellation, refunds
and series passes share `Ticket`, `Payment` and the tier counter; the processor
and the RSVPs meet at the Event row lock. Memberships share with ticketing only the
webhook endpoint and its dedup row.

## 2. Modules

```
Tiers ─────┬── TierInventory (abstract)                Waitlist ───── MCWaitlist
 counter   │                                             └── WaitlistProofs
 operators ├── TiersProofs                             TicketRefunds ─ MCTicketRefunds
           ├── TicketCheckout ─ MCTicketCheckout         └── TicketRefundsProofs
           │     └── TicketCheckoutProofs              Seating ────── MCSeating
           └── TicketDesk ───── MCTicketDesk             └── SeatingProofs
                 └── TicketDeskProofs                  SeriesPass ─── MCSeriesPass
   (TicketCheckout and TicketDesk                        └── SeriesPassProofs
    implement TierInventory)                           Subscription
                                                         └── SubscriptionProofs
Amounts ───┬── RefundLedger (abstract, implemented by TicketRefunds)
 sums      └── TicketRefunds
```

**Tiers** has the arithmetic of `quantity_sold` shared by every path: the capacity
check of a cart, the increment at reservation, the decrement floored at zero.

**TierInventory** is the abstract specification of a tier's stock: a cart is taken
all or nothing, tickets are given back, and the counter moves by exactly those
tickets. A `Slip` is a step in which the two part; it may leave the counter too
low, never too high.

**TicketCheckout** models the life of online tickets. Each variable is a column or
a Stripe object: `ticket`, `pay`, `cart`, `stamped`, `lapsed`, `hold` are the rows,
`session`, `line_items`, `event` are Stripe's side, `tx`, `observed`, `candidates`,
`hook` are what a request in the middle of its transaction remembers. An operation
whose reads and writes are under row locks is one action. The others are split at
the unlocked read or at the call to Stripe:

* `create_batch_session` is `ClaimHold`, `CreateStripeSession`, then
  `StampSession` or `StampMissed`, and may `Rollback` between them;
* `cancel_pending_checkout` and `_cleanup_expired_batch` select and count
  (`CancelPendingCheckout`, `ObserveExpired` then `CleanupExpiredBatch`), then
  release and delete (`FinishRelease`), then an `on_commit` callback expires the
  session (`ExpireSession`);
* the sweep takes its snapshot (`SweepSnapshot`) before it locks (`SweepReclaim`);
* the webhook reads (`WebhookReads`) and writes later (`WebhookConfirms`), or
  finds nothing, a wrong total, or fails and is redelivered.

Rows of `Payment` locked by an open transaction (`Locked`) block the others; the
organizer's cancel locks only the Ticket, so it is not blocked. That is modelled
as it is: `slipped` records that a ticket was cancelled under a release or webhook
that had read it, and the invariants are stated with and without slips.

**Waitlist** models an RSVP event with a waitlist. A handler under the Event row
lock is one action (`Rsvp`, `Process`, `CreateAdminOffer`, `Rebuild`). Split ones
are the RSVP of someone who is believed to attend (`ReadHasYes`, `RsvpAgain`) and
the organizer's revoke and reactivate (`ReadOffer`, then `FinishRevoke` or
`FinishReactivate`). A saved RSVP takes its user out of the queue after its commit:
`leaving` says for whom that is due, `RemoveFromWaitlist` does it, `RemovalLost` is the
process dying before it. A queue row deleted by any of these revokes the pending offer in
the same step, as the `post_delete` signal does. `attendee_count` is the denormalized
count; `rebuild` says a recount task is due. Who is picked is left open, so FIFO order and
the lottery are both covered; who is not eligible follows the query as Django translates
it (`PassedOver`): its two conditions on a user's offers are not about the same offer, so
an offer of this event and a PENDING or REVOKED one of another event exclude together.
The offers of other events are the constant `Elsewhere`.

**TicketRefunds** models the refunds of the payments that share a Stripe payment intent
(a batch). Stripe's side is `re_amount`, `re_ticket` (the `ticket_id` of the metadata)
and the idempotency `keys`; the database's is `row_status` and `row_amount` (the
`Refund` rows, named by the Stripe refund they carry) and `failed` (FAILED rows, which
carry none and count only in the key's sequence). `issue_refund` is `CallStripe`, up to
Stripe's answer, then the caller's `Commit`; or `AnswerLost`, when Stripe has refunded
and the caller sees an error or dies; or `StripeRefuses`. Each caller records a failure
as its code does: the caller's transaction rolls back (`Fail`), and then the endpoint
(`RecordFailure`) and the sweep (`SweepRecordsFailure`) write a FAILED row in a
transaction of their own, unless the process dies before (`FailureUnrecorded`,
`SweepStops`); a cancellation writes nothing. `refused` names the payments whose FAILED
row an endpoint has yet to write. The sweep of a cancelled event is `SweepDispatch`, the
refund in a first transaction, `SweepCancels` in a second, with crashes (`SweepStops`)
and re-dispatches between. `charge.refunded` is `Deliver`, which takes the list of the
charge's refunds and the lock on all payments, and one `ApplyRefund` for each; the
matcher's branches are `Known`, `Named`, `Only`, `Sole` and `WholeBatch`. Amounts are
small numbers, since branches 3 and 4 compare them; **Amounts** says what their sum is.

**RefundLedger** is the abstract specification of the ledger of one charge: a Stripe
refund is made once within what the charge has left, enters the ledger once and whole,
in shares that are never rewritten, goes to the payment Revel made it for if there is
one, and stays confirmed once Stripe has confirmed it. It knows neither locks nor keys
nor lost answers. `TicketRefunds` implements it: `Stage` and `Claims` are the stage of a
refund and its shares over all payments, read off the `Refund` rows.

**TicketDesk** models tickets that are paid off-platform. A checkout looks at the
buyer's tickets, against the caps of the event and of each tier bought, and at the
discount code before it locks anything (`CheckCaps`), then decides on the code again,
writes the rows and moves the tier and code counters under the tier and code locks
(`Purchase`). Cancelling asks the status again under the ticket's row lock and is one
action each for the desk, the desk with a refund and the buyer (`CancelOffline`,
`MarkRefunded`, `CancelByUser`). Confirm, unconfirm and the scan read without a lock and
save with `update_fields` later: `StaffReads` remembers in `desk` what was read, with a
number that keeps two alike requests apart, and `StaffWrites` saves it over whatever the
row says by then. `stale` and `exact` are history variables: the tickets written on a
reading that no longer held, and whether a cancelled ticket came back to life that way.

**Seating** models numbered seats. A transaction (`tx`) names the seats it will lock,
locks them one by one (`LockSeat`, in the order `NextSeat` of the code), then reads and
goes on or is refused (`DecideBuy`, `DecideSell`, `DecideReseat`, `DecideOverride`), and
writes and commits in a later step (`Buy`, `Sell`, `Reseat`, `Override`). `decided` are
those between the two and `noted` what they saw: the holds a sale has deleted, the
ticketed seats an override refuses. Nothing but the seat locks keeps two transactions
from deciding on the same reading. Cancellations and deletions (`CancelTicket`,
`DeleteTicket`) take no seat lock and happen between any two of these steps. Confirm,
unconfirm, the scan and the webhook read a live ticket without a lock and save its status
later (`StaffReads`, `StaffSaves`): over a cancellation that makes the ticket live again
on the seat its row still has, which may be sold, blocked or decided upon by then.
`stray` is the history of the tickets that came back that way; the unique index
(`IndexAdmits`) refuses them, or whoever comes second, only beside another live ticket.
Holds take no seat lock: `AcquireChecks` looks at caps, tickets and overrides,
`AcquireUpserts` writes later, takes over what has expired, clamps the lifetime and waits
for a row a sale is deleting. A hold belongs to a user or to a guest session
(`GuestSession`); a guest's cart counts the session's holds as its own, a ticket belongs
to the user. An override request (`Batches`) names a status for each seat, and the seats
it frees. Time is a number of ticks left on each hold; `kept` is the history of how long a
seat was never free for others.

**SeriesPass** models one pass over the events of a series. Buying, cancelling and
reclaiming hold the pass row and the tiers and are one action each. An activation
reads the links, backfills what the holder misses and commits later (`ConfirmReads`,
`ConfirmCommits`; `WebhookReads`, `WebhookWrites`, `WebhookCommits`); an extension
takes a snapshot of the ACTIVE holders (`ExtensionStarts`) and visits them one by one
(`Extend`, `ExtensionSkips`); `remove_tier_link` looks for holders without a lock
(`RemovalFindsNoHolder`, `RemoveLink`). History: `revived`, tickets the webhook wrote
over a cancellation it had not seen; `skipped`, pairs left out because the tier was
full or because an activation was open at the snapshot.

**Subscription** models the rows of one member paid through Stripe, their ledger and
alerts, Stripe's sessions, subscriptions and invoices, the events in flight and the
three nightly jobs. A handler holds its row until it commits, Stripe calls included, so
it is one action; where it may die between Stripe and its commit the row stays as it was
(`Commits`). Calls made after a commit are queued (`closing`, `expiring`) and may be
lost (`PostCallLost`). The stale-checkout sweep and the reconcile read Stripe before
they lock and are split there (`SweepReads`/`SweepClears`,
`ReconcileReads`/`ReconcileSyncs`/`ReconcileRecords`). A terminal row is reconciled
only while its `updated_at` is recent, thirty nights in the code, `Window` here:
`visits` counts them, and a night counts whether or not Stripe answers. Events are
delivered in any order or never.

## 3. Runs

| Run | Instance | Shows |
|---|---|---|
| `checkout_batch` | 3 tickets in 2 tiers, 1 reservation, event capacity 2, a tier with 1 place, fairness | counter, rows and money agree under every interleaving of reserve, session, resume, cancels, sweep and webhook; refinement of `TierInventory`; every reservation is confirmed, cancelled or reclaimed |
| `checkout_lastseat` | 2 tickets, 2 reservations, 1 place | two carts never share the last place |
| `desk` | a buyer of 3 coded tickets, paid at the door, of a tier with 2 places; another of 1 pay-what-you-can ticket to be confirmed; a code with 2 uses and 1 per user; 2 requests in flight | the code's limits and counter, the money on the rows and the refinement of `TierInventory` under racing carts, stale saves and cancellations |
| `seats` | 2 seats, 3 tickets, 2 transactions, 3 override requests, no acquisition | a seat is claimed once, by what is written or decided, whatever is cancelled or saved late; no circle of waiting transactions |
| `holds` | 2 seats, a user and a guest session, 1 ticket, 1 transaction, 1 acquisition in flight, holds of 2 ticks within a lifetime of 3 | refreshes, takeovers and sales never let anyone keep a seat beyond the lifetime |
| `pass` | 2 holders, 2 events and a third with one place, every payment method | the pass and tier counters; a cancelled pass holds nothing; an extension reaches every holder |
| `refunds_batch` | 2 payments of prices 2 and 1, 2 Stripe refunds, 1 FAILED row each (one waiting to be written at a time), one ticket that may be cancelled, fairness | rows never claim more than was paid unless Stripe was asked twice; refinement of `RefundLedger` (a Stripe refund is recorded whole, once, for its payment, and confirmed for good: a webhook that did not wait for the Payment lock would let a commit rewrite a confirmed row); a swept ticket is paid back or has its failure on record; a ticket is paid twice only after a lost answer; a refund made through Revel ends as a row of its payment |
| `subscription_two` | 1 member, 2 rows, 2 sessions, 2 periods, 1 update in flight, 1 fault, terminal rows visited for 1 night | nobody is billed twice or unknown to the application; the period covers the ledger; terminal rows are frozen |
| `subscription_live` | 1 row, 1 session, 2 periods, 1 request, 1 fault, no update event, terminal rows visited for 3 nights, fairness | the jobs alone close what must not bill, settle dead checkouts and record the newest paid invoice |
| `waitlist_two` | 2 users, 1 seat, a cutoff, one unlocked request and one removal from the queue under way | reserved seats hold; a wrong count is due a recount; the cutoff batch is sent once |
| `waitlist_live` | 3 users, 2 seats, batches of one, no cutoff, one overriding invitation, one removal under way, fairness | a free seat that nobody holds does not stay beside people waiting |
| `refunds_NoDoubleRefund` | as `refunds_batch` | violation: a refund whose answer is lost leaves a FAILED row, which advances the idempotency key, and the retry pays the ticket back a second time |

Why the bounds are enough. The properties relate at most one cart with another and
with the event; a race needs two carts or a cart and a canceller; a partial cart
needs two tickets; a mixed cart two tiers. One reservation against all cancellers,
and two reservations without more tickets, keep both races within the time a run
may take. In `Waitlist` a stale offer needs two users (one who takes, one who is
offered); `MaxInFlight` bounds the unlocked requests under way, since each keeps
its own memory of a read, and one is enough for every race with a locked action;
`MaxLeaving` likewise bounds the users whose removal from the queue is still due. The
liveness property is about the time before the cutoff, so its run has none.
`Elsewhere` is empty in both runs; a run of its own shows what it does to liveness (§5).

In `TicketRefunds` two payments give a batch with unequal remainders (branches 3 and 4
need both) and a charge with money left to pay one of them twice; two refunds let each
action of one meet each state of the other, in flight, lost or recorded. `MaxFailed`
cuts retries off, and one failure at a time waits for its row, since what a FAILED row
changes (the next key) is a matter of its own payment. `Cancellable` keeps one ticket
out of the cancellations, which touch a payment's refunds only through its lock, and it
is for its payment that an endpoint may die before it writes the row; `MaxAmount` is no
less than the charge.

In `TicketDesk` two requests in flight are two carts, a cart and a scan, or two scans of
one ticket. The tickets are few because the limits are small: a scanned or cancelled
ticket frees the buyer's limit but not its use of the code, so after one purchase and one
such step two carts look while one use is left, and the recheck alone refuses the second
(a recheck that forgets `max_uses` is the mutant of `CodeUsesCounted`); two carts before
any purchase contend for the limit per user. The method and the price of a tier are
constants; the run takes a tier paid at the door and one the desk must confirm.

In `Seating` a wait needs two transactions and two seats; the runs split the locks (no
holds in acquisition) from the holds (one transaction). Three tickets are one cancelled
and read before, one sold meanwhile, and one in an open transaction; the three requests
of `Batches` mark with both statuses, mark and free, and mark what they free. Two ticks
of a hold within three of a lifetime make a refresh that the clamp cuts. In `SeriesPass`
two holders contend for the third event's place and one is visited while the other acts;
the extension needs one event outside the opening. In `Subscription` a second row and
session are what subscribing again and reviving make, and periods repeat alike after the
second; a window of three nights is two more than the faults can spoil, and with one or
two the run finds a subscription that nobody closes any more, as in the code when all
thirty nights fail. `subscription_two` has no request of the staff
(`MaxRequests = 0`), those are in `subscription_live` with one row. These requests with
two rows, and more events in flight, are beyond what TLC explores in the time of a run.

Symmetry is used where the alike constants appear in no constant function that tells
them apart: the coded tickets of `desk`, the transactions and tickets of `seats`, the
holders and opening events of `pass`, the users of `waitlist_two`; none of these runs
checks liveness.

Deadlock checking is off where the model runs dry: ticket ids, refunds, holders, rows,
sessions and time are finite, and when all are used up nothing is left to do. The
waitlist and the seating never stop.

### Fairness

`TicketCheckout`: reservations and sessions reach their expiry times (clock);
an open transaction ends, by commit or rollback; a webhook handler that has read
ends; an incident hold reaches its retention; Stripe stops redelivering after its
retry window. The sweep gets strong fairness: Celery beat runs it every few
minutes for ever, and a row lock it waits for is granted in turn, although between
two turns another request may have taken the lock again. Nothing is assumed of
buyers, organizers, the resume or the delivery of a webhook.

`Waitlist`: weak fairness of the recount task, of the processor (the hourly
`nudge_open_waitlists` runs it whatever else was lost), of the hourly sweep, and of
the clock that makes offers lapse. Nothing is assumed of users or organizers.

`TicketRefunds`: an open transaction ends, by commit or failure (weak fairness), and
Stripe redelivers an event until its handler gets the locks it needs (strong fairness,
since other refunds may hold them again and again) and applies what it took. Nothing is
assumed of organizers, cancellations, the sweep or the dashboard.

`Subscription`: Stripe expires a session nobody pays; the daily beat reads every pending
row and every linked row (strong fairness: it runs for ever, and a row may look settled
between two runs), and a job that has read ends. No event need ever be delivered, no
call after a commit be made and nobody act.

## 4. Proofs

All proofs are checked to the last leaf by TLAPS. Each module's theorems hold for every
value of its constants that the named assumptions admit.

`TiersProofs` has the lemmas on the counter (counting a union, a difference; what
`Bumped` and `Released` keep), on which the others rest.

`TicketCheckoutProofs`, for every finite set of tickets and every set of
reservations and tiers, any stock and any event capacity:

* `TypeCorrect`;
* `AlwaysConsistent`, the inductive invariant `Consistent`: types; payment and
  ticket rows exist together (`RowsMatch`); a reservation's cart is fixed once
  written and carts are disjoint (`CartsKept`); an open transaction works on its
  own cart (`WorksOnCart`); what it remembers still holds (`UnlockedReadsAgree`);
  the counter's `Account` with the live tickets, exact until a slip. Each part
  needs the others: the count a release remembers is right only because nobody else
  may delete rows it has locked, which needs carts to be disjoint; the counter is
  right only because the remembered count is;
* `ReadsAgree`, `CheckoutImplementsInventory` (refinement of `TierInventory`),
  `EventCapacityHolds`, `ActiveTicketsArePaid`, `AuditRowsAreKept`,
  `PaidMoneyIsAccountedFor`, `SweepLeavesPayable`.

`TicketDeskProofs`, for every finite set of tickets, any buyers, methods, prices and
limits: `DeskTypes`, `CodeUsesAreCounted`, `CodeIsKeptPerUser`, `MoneyFollowsStatus` and
`DeskImplementsInventory`. `Steps` sorts the steps by what they do to the rows: a cart
is sold whole, a live ticket is cancelled, staff read or write. The invariant says that
carts own the rows they mean to write (`CartsOK`), that a request at the desk insisted on
a price when it read (`DeskOK`), that money matches the status of a row whose reads held
(`MoneyOK`), and that the code's counter counts the coded rows (`UsesOK`). The money is
safe because a confirm that finds its ticket as it read it carries a price or read one
(`DeskOK`); a refund is never written over because a request reads only PENDING or ACTIVE
tickets. `StockStep` sorts the steps again by what they do to the stock: a sale, one
place given back, a ticket that reappears, or nothing; each is a step of `TierInventory`.
`StockAccounting` is about that abstract specification alone, as the desk instantiates it:
whatever takes, gives back and slips, the counter never exceeds the stock and, until a
slip, equals the live tickets, so that no tier is oversold. `DeskKeepsStock` follows from
it by the refinement.

`SeatingProofs`, for any finite set of seats and any owners, override requests,
transactions and lifetimes: `SeatingTypes`, `NoSeatClaimedTwice`, `DecidedHoldTheirSeats`,
`SeatLocksNeverDeadlock`, `HoldsExpire`. A claim is a live ticket, an override, or what a
transaction has decided and not written. A seat stays claimed once because a transaction
names every seat it writes, each for one ticket (`PlanOK`), because a seat is locked by
one transaction at a time (`Exclusive`) and because whoever has decided holds all it names
(`DecidedOK`): so two that have decided name different seats (`OthersElsewhere`), and what
one has checked still holds when it writes, since nothing that takes no lock adds a claim
(`Leave` removes one) but a stale save. `FreshOK` says that the rows a sale is to write are
its own and not written yet, `LiveSeated` that a live row has a seat. A stale save that
finds its seat claimed by then is set apart in `stray`, and no lock helps against it;
against a second live ticket on the seat the unique index does, which is the third
conjunct of the property and the only one that uses the index.
Deadlock freedom is an argument by order: each transaction has
locked only seats below the next one it wants, so a circle of waiting would be an endless
climb in a finite set of numbers (`NoEndlessClimb`, by well-founded induction on the
naturals). A hold is bounded because what it has used and what is left of its lifetime
never add up to more than the maximum (`HoldsOK`).

`SeriesPassProofs`, for any finite holders and events: `SeriesPassTypes` (no run lists
this type invariant), `PassCountersAgree`, `CancelledPassIsEmpty`,
`ExtensionReachesHolders`. The invariant ties a holder's status, tickets and payments
together (`RowsOK`), counts them tier by tier (`TiersCounted`), and says for every
holder and covered event who still owes the ticket: the activation that has read the
link, the queued task, the running one, or nobody because it was skipped (`KeptUp`). The
snapshot is the hard case: whoever is not in it was not active yet, and the activation
that makes them so reads the link later, or was open and is recorded in `skipped`.

`WaitlistProofs`, for every finite set of users and any capacity and batch size:
`TypeCorrect`; `StaleCountNeverStays`; `OneCutoffBatch`; and `ReservationsHold`, whose
invariant `ReservedSeatsHold` is inductive together with the types. It rests on lemmas
that count: attendees and reserving offers are disjoint sets of users or a claim turns
one into the other, taking a seat adds at most one, and a batch adds no more than it
found free (`SeatTaken`, `SeatReserved`, `BatchStep`).

`TicketRefundsProofs`, for any finite batch of payments at any prices: `TypeCorrect`,
`RefundsAreRecordedWhole`, `SweepIsAccountedFor`, `DoublingNeedsALoss`,
`LedgerIsWithinPrice` and `RefundsImplementLedger` (refinement of `RefundLedger`). A sum
of amounts is the cardinality of a set of units, so that it grows with its domain
(`TotalMonotone`) and by what is added to it (`TotalGrows`). None of the properties is
inductive; they rest on `Records` (`RecordsAreRight`): refunds are made in order and of
amounts the intent can bear; rows are of refunds that were made; a refund made for a
payment is in no other payment's rows; the refund of an open transaction is in nobody's
rows yet and still fits the payment, which holds because the Payment lock keeps the
webhook out; and the sweep has refunded or counted as failed what it is about to cancel.
The webhook's several-payment matches are the hard case: their shares sum to the refund
because every such match sums the remainders first (`SeveralAreOwedIt`).
`LedgerIsWithinPrice` needs `Shares` besides: the refunds Stripe made fit the charge,
and, as long as no payment was sent more than its price, either all rows of a payment
are of refunds made for it, or it has been paid back to the cent, the refunds made for
it included. A dashboard refund is nobody's: it is shared among payments only when it is
all that the charge still owes, so that a refund in flight at that moment has room only
if its payment is one the share leaves alone. The refinement rests on `Records` and
`WithinCharge` too: a commit finds no row of its refund, so that it records a refund
that is only made; the webhook records what has no row or confirms rows it finds whole,
pending or confirmed alike. `SharesAreWithinCharge` is about `RefundLedger` alone: all
rows of all payments claim no more than Stripe refunded, and that is no more than it
captured. `RowsAreWithinCharge` follows from it by the refinement: even when a payment
is paid back twice, and its own rows exceed its price, the rows of the batch stay within
the charge.

`SubscriptionProofs`, for any number of rows, sessions and periods, any clock and any
number of faults and requests: `TypeCorrect` and `TerminalRowsAreFrozen`, whatever is
delivered again; and `BillingIsKnown`, `BilledAtMostOnce` and `AnchorCoversLedger` under
the hypothesis `~LateRedelivery`, written in each statement: a completed event may come
again, but not after the member has opened a newer checkout. The hypothesis is needed: a
completion event from before a revival links the row back to the older subscription (§5).
The types are not inductive alone: a handler reads the first and last invoice of a
subscription, which exist only because whatever a row or an event names has been billed
(`Evidence`) and was opened for that row (`Owners`). The other three rest on `Known`: one
row is open (`OneOpen`); an open row is linked to its session, or waits for one that is not
done (`OpenRows`); a session that can still be paid, or whose payment is not known yet,
has its row waiting for it or was cancelled under it (`Payable`); and what bills is on the
way, linked, or in an incident (`LiveKnown`). Most of the thirty actions are shown to be
`Quiet`, a relation on steps: no row is linked or opened, no session opened or completed,
no completed event taken for the first time, no subscription starts to bill, and what the
ledger records is covered by the anchor in the same step. A quiet step keeps the whole
invariant for one reason (`QuietKeeps`). Seven kinds of step are not quiet (`Loud`):
a payment, a completed or expired session, the sweep's deletion, and the three requests
that open a session. Those three are one relation, `Mints`: what the member had open is
expired at Stripe before the new session exists, so that two are never payable
(`MintingKeeps`). A redelivered completion is quiet exactly when its session is still the
row's own (`QuietRedelivery`), which is where the hypothesis is used.

Assumptions are those of the constants: finitely many ticket ids, every ticket has a
tier, a stock is a number or unlimited, the capacity is a number; for the refunds,
finitely many payments, a charge within `MaxAmount` (the bound of every sum) and a `Nil`
that is neither a payment nor a refund; for the desk, every ticket has a buyer and every
tier a method and a cap, and coded tickets are neither free nor pay-what-you-can; for
the seating, finitely many seats named by numbers (the code's order of ids), tickets of
users, never of guest sessions, override requests that name seats, and a positive TTL
within the lifetime; for the waitlist, the users with offers elsewhere are users; for
the subscriptions, any number of nights; for the passes, finitely many holders and
events.

Only model-checked: the liveness properties, because fairness and ENABLED are out of the
prover's reach (`PendingIsResolved`, `FreeSeatIsOffered`, `RefundIsRecorded`,
`ZombiesAreClosed`, `PendingIsSettled`, `NewestPaidIsKnown`). Every invariant and action
property of the passing runs is a theorem. What a recursive definition computes for all
inputs cannot be proved here either; the models have none.

## 5. Where the code and its words part

One run checks a sentence of the repository that the code does not keep
(`refunds_NoDoubleRefund`, quoted in `PROJECT.json`, `findings`). More such properties are
stated in the modules, each with a cfg of its own that is not among the runs; TLC finds
the counterexample when it is called with it.

| cfg | What TLC finds | The sentence |
|---|---|---|
| `MCTicketCheckout_PayableSessionKeepsRows` | a resume that read "expired" waits for a claim, then deletes the rows of the session it stamped, and nobody expires that session | `stripe_service.py:629`: "so a payable session never exists without a reconcilable Payment row" |
| `MCTicketCheckout_CancelledStaysCancelled` | the completion webhook makes ACTIVE a ticket cancelled after it was read | `stripe_webhooks.py:341`: a late payment "must not resurrect the ticket" |
| `MCTicketCheckout_NoDoubleRelease` | a batch release gives back the place of a ticket an organizer cancelled between the count and the delete | `pending_checkout.py:55`: "would release its slot a second time" |
| `MCTicketCheckout_SessionChargesStampedRows` | an organizer's cancel during the Stripe call leaves a session that charges a void ticket | `pending_checkout.py:178`: "it must reach neither the Stripe line items nor the stamp" |
| `MCWaitlist_OffersAreBacked` | the processor offers a seat taken since the last recount | `waitlist_service.py:148`: "Mirrors the counting logic used by process_waitlist_for_event" |
| `MCWaitlist_NoSeatBeyondCapacity` | a repeated YES on a stale read takes a seat without a check | `event_manager/manager.py:25`: "there are no race conditions" |
| `MCTicketDesk_TicketsPerUserCapped` | two carts of one buyer are both counted before either locks the tier; and scanned tickets are not counted | `models/event.py:372`: "Maximum tickets a user can purchase for this event, across all tiers" |
| `MCWaitlist_FreeSeatIsOffered` | someone whose offer here expired and who has a REVOKED or PENDING offer of another event is never offered the free seat again | `waitlist_service.py:85`: "EXPIRED stays eligible: that's the normal batch-timeout lifecycle and users should rotate back into selection" |
| `MCSeating_NoLiveTicketBlocked` | a confirm or a scan, read before a cancellation, is saved after the organizer killed the freed seat: a live ticket on a killed seat | `docs/guides/seating/box-office.md:42`: "the box office can't kill or hold a seat out from under a paying guest" |
| `MCSeating_HeldWithinCap` | two acquisitions of one buyer both pass the cap before either writes its holds | `seating/holds.py:120`: "Max seats one identity may hold concurrently for this event" |
| `Subscription_RefundedStaysRefunded` | a late `invoice.paid` rewrites a REFUNDED ledger row as SUCCEEDED (`subscription_stripe_sync.py:808`) | `tasks/subscriptions.py:453`: "so a REFUNDED ledger row is never resurrected" |

The models also show, without a property of their own: a buyer's cancel or resume deletes
payments under incident hold (`pending_checkout.py`, `PendingPayments` does not look
at `hold`, although `stripe_incidents.py` says held rows are retained); an organizer's
revoke or reactivate overwrites an offer claimed after it was read (`FinishRevoke`,
`FinishReactivate`); the hourly nudge makes offers for a cancelled event whose
waitlist is open (`Process` has no guard on `status`); with batches of one, a second
free seat is not offered while the first offer keeps lapsing to the same person; a
dashboard refund of all that is left, shared out while a full refund of one payment is
in flight, gives that payment a SUCCEEDED row of amount zero (`Share`); a scan or a
confirm saved over a cancellation brings the ticket back after its place was given up
(`exact` in `TicketDesk`); a webhook that read a pass ticket before its cancellation
brings it back (`revived` in `SeriesPass`), and the same save brings back a seated ticket
(`stray` in `Seating`), or fails on the unique index when the seat was sold meanwhile; a
holder whose activation read the links before the link was added, and commits after the
extension's snapshot, is not extended by anything later (`skipped`); a completion event
delivered again after the member has opened a newer checkout links the row to the older
subscription (`LateRedelivery = TRUE`).

The stale saves among these are told apart by history variables rather than caught by a
property: what the properties of the desk, the passes and the seats state is that nothing
else goes wrong, and the hazards of `check_in_service.py:117` and `ticket_service.py:398`
have no property of a passing run.

## 6. What is left out, and why

* Checkout: prices, discounts, fees, VAT, seats, names and notifications; the properties
  do not depend on them. Series-pass batches are in `SeriesPass`.
* `effective_capacity` and `total_quantity` are constants: an organizer lowering them
  below what is sold is legal and makes "no oversell" a statement about an older number.
* Incidents are a set of reservations; the alert itself is I/O.
* Refunds: subscriptions (in `Subscription`, as taken), offline tickets (in
  `TicketDesk`), a series pass refunding several intents in one transaction, credit
  notes, the notification of an unmatched refund, currencies, and refunds that Stripe
  accepts and fails later (the code has no handler for them). All payments are captured
  from the start. An endpoint that dies between its rollback and its FAILED row is
  followed for the payments in `Cancellable`.
* In the waitlist only a user's latest offer is kept, and whether an earlier one was
  revoked; a request that had read an earlier offer is not followed. The offers of other
  events are fixed (`Elsewhere`). The waitlist's time window is assumed configured.
  Ticketed events, whose seats are counted from tickets, are not modelled. A lost
  `on_commit` dispatch of the recount is not modelled.
* Desk: sales at the box office on pay-what-you-can tiers paid at the door (its tickets
  are in `Seating`, without money). The event is unlimited and no ticket has a seat,
  belongs to a pass or has a Payment row; amounts are recorded or not, never compared.
  Guests check out as users.
* Seating: alike requests that read the same live ticket share one reading, which may be
  saved any number of times. Not modelled are venue and chart edits, the match of sector
  and price category, tier locks (they only rule interleavings out), the picker of best
  available seats, and carts that mix a picked group with chosen seats, of which the
  code says that they may deadlock and answers 409.
* Passes: sessions and their stamps, the details of refunds, `payment_intent.canceled`,
  deletion of a pass, check-in and direct sales of the tiers. The order of row locks is
  below this model's steps: the webhook locks payments and tickets before the pass,
  `cancel_held_pass` the pass before tickets and payments, so the two can wait for each
  other, and a cancellation updates tiers in another order than the extension, against
  the "Lock ordering invariant" of `docs/architecture/series-passes.md`.
* Subscriptions: offline and free plans, plan changes and their schedules, the window
  within which a row may be revived, the age of a stale checkout (a session expires at
  any time; a row without a session id is never committed, since the row and its session
  are written in one transaction), a reconcile that fails for ever (`ZombiesAreClosed`
  and `NewestPaidIsKnown` hold while a row is within its window and not all its nights
  fail), reminders, application fees, customers, the member row, and partial refunds. Of
  each Stripe object only what a handler reads is kept.

Not modelled at all, with the reason for each in `PROJECT.json`: Stripe Connect
onboarding, invoices, payouts, recurring series, announcements, polls, questionnaires,
notifications, organizations and tokens, event editing, accounts, the visibility matrix,
CRUD on single rows, exports and integrations. Most of the repository's lines are
schemas, admin pages, controllers, migrations and templates around the operations modelled
here; they keep no state of their own that several actors change, and a model of them
would restate them.

## 7. Plan

What would come next, in this order: the life of one membership row that `Subscription`
implements, with its refinement proved; several refunds in one transaction, by composing
`SeriesPass` with `TicketRefunds`; ticketed events in `Waitlist`, composed with the
checkout; then offline memberships, announcements, payouts and invoice numbers.
