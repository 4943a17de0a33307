----------------------------- MODULE SeriesPass -----------------------------
(***************************************************************************)
(* A series pass (season ticket): one product over the events of a series, *)
(* its holders, the ticket each holder gets for every covered event, and   *)
(* the counters of the pass and of the tier behind each event.             *)
(*                                                                         *)
(* Buying, cancelling and reclaiming lock the pass or held-pass row and    *)
(* then the tiers, so each is one step.  Three things are not:             *)
(*   - an activation (the Stripe webhook, the organizer's confirmation)    *)
(*     reads the covered events, backfills the missing ones and commits    *)
(*     later; the held pass is locked in between, the links are not;       *)
(*   - the webhook read payments and tickets before it took any lock;      *)
(*   - an extension is a task: the link is committed, then the task takes  *)
(*     a snapshot of the ACTIVE holders and visits them one by one.        *)
(*                                                                         *)
(* Each event has one tier in the pass and stands for it.  A holder is one *)
(* HeldSeriesPass row; who cancelled and buys again is another.  Direct    *)
(* sales of the tiers, sessions and refunds are in TicketCheckout and      *)
(* TicketRefunds, check-in in TicketDesk.                                  *)
(***************************************************************************)
EXTENDS Integers, FiniteSets

CONSTANTS Holder,        \* held-pass rows that may ever be written
          Event,         \* events of the series, each with its tier
          Opening,       \* the events the pass is created with
          TierQuantity,  \* total_quantity of the tier of each event
          PassQuantity,  \* total_quantity of the pass
          MaxStarted,    \* bound: how many events start
          Removable      \* bound: the events whose link may be removed

ASSUME HolderAssumption == IsFiniteSet(Holder)
ASSUME EventAssumption == IsFiniteSet(Event) /\ Opening \subseteq Event /\ Removable \subseteq Event
ASSUME QuantityAssumption ==
  /\ TierQuantity \in [Event -> Nat]
  /\ PassQuantity \in Nat
  /\ MaxStarted \in Nat

VARIABLES
  payment_method,  \* of the pass, fixed while it has holders
  links,           \* covered events, SeriesPassTierLink
  started,         \* events whose start has passed
  held,            \* HeldSeriesPass.status, "none" before the row
  ticket,          \* status of the ticket of a holder for an event
  pay,             \* status of that ticket's payment
  sold,            \* quantity_sold of the tier of each event
  passes_sold,     \* SeriesPass.quantity_sold
  queued,          \* events whose extension task is dispatched
  todo,            \* holders the running extension task has still to visit
  removing,        \* events whose removal found no holder
  paid,            \* Stripe's completed session: "no", "due", "read", "done"
  seen,            \* ticket statuses the webhook read without a lock
  locked,          \* held passes an activation has locked
  missing,         \* events that activation will backfill
  revived,         \* history: tickets written over a cancellation
  skipped          \* history: pairs left out because the tier was full,
                   \* or because an activation was open at the snapshot

rows == <<held, ticket, pay, sold, passes_sold>>
coverage == <<links, queued, todo, removing>>
webhook == <<paid, seen>>
activation == <<locked, missing>>
history == <<revived, skipped>>
vars == <<payment_method, started, rows, coverage, webhook, activation, history>>

TicketStatus == {"none", "PENDING", "ACTIVE", "CANCELLED"}

TypeOK ==
  /\ payment_method \in {"ONLINE", "OFFLINE", "FREE"}
  /\ links \in SUBSET Event /\ started \in SUBSET Event
  /\ held \in [Holder -> TicketStatus]
  /\ ticket \in [Holder -> [Event -> TicketStatus]]
  /\ pay \in [Holder -> [Event -> {"none", "PENDING", "SUCCEEDED", "FAILED", "REFUNDED"}]]
  /\ sold \in [Event -> Nat]
  /\ passes_sold \in Nat
  /\ queued \in SUBSET Event
  /\ todo \in [Event -> SUBSET Holder]
  /\ removing \in SUBSET Event
  /\ paid \in [Holder -> {"no", "due", "read", "done"}]
  /\ seen \in [Holder -> [Event -> TicketStatus]]
  /\ locked \in SUBSET Holder
  /\ missing \in [Holder -> SUBSET Event]
  /\ revived \in SUBSET (Holder \X Event)
  /\ skipped \in SUBSET (Holder \X Event)

Nothing == [e \in Event |-> "none"]

Init ==
  /\ payment_method \in {"ONLINE", "OFFLINE", "FREE"}
  /\ links = Opening
  /\ started = {}
  /\ held = [h \in Holder |-> "none"]
  /\ ticket = [h \in Holder |-> Nothing]
  /\ pay = [h \in Holder |-> Nothing]
  /\ sold = [e \in Event |-> 0]
  /\ passes_sold = 0
  /\ queued = {}
  /\ todo = [e \in Event |-> {}]
  /\ removing = {}
  /\ paid = [h \in Holder |-> "no"]
  /\ seen = [h \in Holder |-> Nothing]
  /\ locked = {}
  /\ missing = [h \in Holder |-> {}]
  /\ revived = {}
  /\ skipped = {}

-----------------------------------------------------------------------------
(* The rows. *)

IsLive(status) == status \in {"PENDING", "ACTIVE"}
Ticketed(h) == {e \in Event : IsLive(ticket[h][e])}
Holders == {h \in Holder : IsLive(held[h])}
PendingPayments(h) == {e \in Event : pay[h][e] = "PENDING"}
Full(e) == sold[e] >= TierQuantity[e]

FlooredAtZero(n) == IF n < 0 THEN 0 ELSE n

(* quantity_sold + 1 and - 1 for the tiers of the events E. *)
Counted(E) == [e \in Event |-> IF e \in E THEN sold[e] + 1 ELSE sold[e]]
Uncounted(E) == [e \in Event |-> IF e \in E THEN FlooredAtZero(sold[e] - 1) ELSE sold[e]]

-----------------------------------------------------------------------------
(* Buying. *)

(* purchase: pass row locked, then all tiers; every future event or none.  *)
Purchase(h) ==
  LET future == links \ started
      status == IF payment_method = "FREE" THEN "ACTIVE" ELSE "PENDING"
  IN  /\ held[h] = "none"
      /\ passes_sold < PassQuantity
      /\ Cardinality(future) >= 2
      /\ \A e \in future : ~Full(e)
      /\ held' = [held EXCEPT ![h] = status]
      /\ ticket' = [ticket EXCEPT ![h] = [e \in Event |-> IF e \in future THEN status ELSE "none"]]
      /\ pay' = [pay EXCEPT ![h] =
                   [e \in Event |-> IF payment_method = "ONLINE" /\ e \in future THEN "PENDING" ELSE "none"]]
      /\ sold' = Counted(future)
      /\ passes_sold' = passes_sold + 1
      /\ UNCHANGED <<payment_method, started, coverage, webhook, activation, history>>

-----------------------------------------------------------------------------
(* Activation. *)

(* backfill_missing_tickets: the covered future events without a ticket.   *)
(* Without the catch-up an activation grants nothing.                      *)
MissedNothing(h) == {}
Missed(h) == links \ (started \cup Ticketed(h))

(* backfill_missing_tickets at the commit: capacity under the tier locks.  *)
Granted(h) == {e \in missing[h] : ~Full(e)}

EndActivation(h) ==
  /\ sold' = Counted(Granted(h))
  /\ locked' = locked \ {h}
  /\ missing' = [missing EXCEPT ![h] = {}]
  /\ skipped' = skipped \cup {<<h, e>> : e \in missing[h] \ Granted(h)}

(* confirm_held_pass_payment: re-read under the lock, look at the links.   *)
ConfirmReads(h) ==
  /\ payment_method = "OFFLINE"
  /\ held[h] = "PENDING"
  /\ h \notin locked
  /\ locked' = locked \cup {h}
  /\ missing' = [missing EXCEPT ![h] = Missed(h)]
  /\ UNCHANGED <<payment_method, started, rows, coverage, webhook, history>>

ConfirmCommits(h) ==
  /\ payment_method = "OFFLINE"
  /\ h \in locked
  /\ held' = [held EXCEPT ![h] = "ACTIVE"]
  /\ ticket' = [ticket EXCEPT ![h] =
       [e \in Event |-> IF e \in Granted(h) \/ ticket[h][e] = "PENDING" THEN "ACTIVE" ELSE ticket[h][e]]]
  /\ EndActivation(h)
  /\ UNCHANGED <<payment_method, started, pay, passes_sold, coverage, webhook, revived>>

(* The buyer pays the session, which may outlive the rows it is for. *)
BuyerPays(h) ==
  /\ payment_method = "ONLINE"
  /\ held[h] # "none"
  /\ paid[h] = "no"
  /\ paid' = [paid EXCEPT ![h] = "due"]
  /\ UNCHANGED <<payment_method, started, rows, coverage, seen, activation, history>>

(* handle_checkout_session_completed reads payments with their tickets.    *)
WebhookReads(h) ==
  /\ paid[h] = "due"
  /\ pay[h] # Nothing
  /\ paid' = [paid EXCEPT ![h] = "read"]
  /\ seen' = [seen EXCEPT ![h] = ticket[h]]
  /\ UNCHANGED <<payment_method, started, rows, coverage, activation, history>>

(* _report_missing_payments: the rows were reclaimed, an incident.         *)
WebhookFindsNothing(h) ==
  /\ paid[h] = "due"
  /\ pay[h] = Nothing
  /\ paid' = [paid EXCEPT ![h] = "done"]
  /\ UNCHANGED <<payment_method, started, rows, coverage, seen, activation, history>>

(* A payment of the snapshot is gone: its save fails, Stripe redelivers.   *)
WebhookFails(h) ==
  /\ paid[h] = "read"
  /\ \E e \in Event : seen[h][e] # "none" /\ pay[h][e] = "none"
  /\ paid' = [paid EXCEPT ![h] = "due"]
  /\ seen' = [seen EXCEPT ![h] = Nothing]
  /\ UNCHANGED <<payment_method, started, rows, coverage, activation, history>>

(* The handler writes, up to the links read by _activate_series_passes,    *)
(* which looks for a pass that is still PENDING.                           *)
WebhookWrites(h) ==
  /\ paid[h] = "read"
  /\ h \notin locked
  /\ \A e \in Event : seen[h][e] # "none" => pay[h][e] # "none"
  /\ locked' = locked \cup {h}
  /\ missing' = [missing EXCEPT ![h] = IF held[h] = "PENDING" THEN Missed(h) ELSE {}]
  /\ UNCHANGED <<payment_method, started, rows, coverage, webhook, history>>

(* A ticket read as CANCELLED stays so; any other becomes ACTIVE.          *)
WebhookCommits(h) ==
  LET charged == {e \in Event : pay[h][e] # "none"}
      confirmed == {e \in charged : seen[h][e] # "CANCELLED"}
  IN  /\ paid[h] = "read"
      /\ h \in locked
      /\ paid' = [paid EXCEPT ![h] = "done"]
      /\ seen' = [seen EXCEPT ![h] = Nothing]
      /\ pay' = [pay EXCEPT ![h] = [e \in Event |-> IF e \in charged THEN "SUCCEEDED" ELSE pay[h][e]]]
      /\ held' = IF held[h] = "PENDING" THEN [held EXCEPT ![h] = "ACTIVE"] ELSE held
      /\ ticket' = [ticket EXCEPT ![h] =
           [e \in Event |-> IF e \in confirmed \cup Granted(h) THEN "ACTIVE" ELSE ticket[h][e]]]
      /\ revived' = revived \cup {<<h, e>> : e \in {x \in confirmed : ticket[h][x] = "CANCELLED"}}
      /\ EndActivation(h)
      /\ UNCHANGED <<payment_method, started, passes_sold, coverage>>

-----------------------------------------------------------------------------
(* Giving back. *)

(* cancel_held_pass: the future tickets, their payments and both counters; *)
(* a captured payment is refunded, an open one fails.                      *)
CancelHeldPass(h) ==
  LET given == Ticketed(h) \ started
  IN  /\ IsLive(held[h])
      /\ h \notin locked
      /\ held' = [held EXCEPT ![h] = "CANCELLED"]
      /\ ticket' = [ticket EXCEPT ![h] =
           [e \in Event |-> IF e \in given THEN "CANCELLED" ELSE ticket[h][e]]]
      /\ pay' = [pay EXCEPT ![h] =
           [e \in Event |-> CASE e \in given /\ pay[h][e] = "SUCCEEDED" -> "REFUNDED"
                              [] e \in given /\ pay[h][e] = "PENDING" -> "FAILED"
                              [] OTHER -> pay[h][e]]]
      /\ sold' = Uncounted(given)
      /\ passes_sold' = FlooredAtZero(passes_sold - 1)
      /\ UNCHANGED <<payment_method, started, coverage, webhook, activation, history>>

(* _claim_and_release_pending_pass: only who finds the pass PENDING        *)
(* releases its counter; and a form that does not look.                    *)
ClaimedUnchecked(h) == TRUE
Claimed(h) == held[h] = "PENDING"

(* The sweep, the buyer's cancel and the cleanup of a lapsed checkout:     *)
(* the pass, the tiers, and the rows of the payments still PENDING.        *)
ReclaimReservation(h) ==
  LET batch == PendingPayments(h)
      given == {e \in batch : ticket[h][e] = "PENDING"}
  IN  /\ batch # {}
      /\ h \notin locked
      /\ held' = IF Claimed(h) THEN [held EXCEPT ![h] = "CANCELLED"] ELSE held
      /\ passes_sold' = IF Claimed(h) THEN FlooredAtZero(passes_sold - 1) ELSE passes_sold
      /\ sold' = Uncounted(given)
      /\ pay' = [pay EXCEPT ![h] = [e \in Event |-> IF e \in batch THEN "none" ELSE pay[h][e]]]
      /\ ticket' = [ticket EXCEPT ![h] = [e \in Event |-> IF e \in given THEN "none" ELSE ticket[h][e]]]
      /\ UNCHANGED <<payment_method, started, coverage, webhook, activation, history>>

-----------------------------------------------------------------------------
(* Coverage. *)

(* add_tier_links, and the dispatch in on_commit. *)
AddLink(e) ==
  /\ e \notin links
  /\ links' = links \cup {e}
  /\ queued' = queued \cup {e}
  /\ UNCHANGED <<payment_method, started, rows, todo, removing, webhook, activation, history>>

(* materialize_series_pass_holders: the link and the ACTIVE holders, as    *)
(* committed.  An activation that is open is not among them.               *)
ExtensionStarts(e) ==
  /\ e \in queued
  /\ todo[e] = {}
  /\ queued' = queued \ {e}
  /\ todo' = [todo EXCEPT ![e] = IF e \in links THEN {h \in Holder : held[h] = "ACTIVE"} ELSE {}]
  /\ skipped' = skipped \cup {<<h, e>> : h \in {x \in locked : e \notin missing[x]}}
  /\ UNCHANGED <<payment_method, started, rows, links, removing, webhook, activation, revived>>

(* The re-check of a visited holder under its lock, and the snapshot's     *)
(* word for it.                                                            *)
ActiveInSnapshot(h) == TRUE
StillActive(h) == held[h] = "ACTIVE"

Extend(e, h) ==
  /\ h \in todo[e]
  /\ h \notin locked
  /\ StillActive(h)
  /\ ~Full(e)
  /\ todo' = [todo EXCEPT ![e] = @ \ {h}]
  /\ IF IsLive(ticket[h][e])
       THEN UNCHANGED <<ticket, sold>>
       ELSE /\ ticket' = [ticket EXCEPT ![h][e] = "ACTIVE"]
            /\ sold' = Counted({e})
  /\ UNCHANGED <<payment_method, started, held, pay, passes_sold, links, queued, removing, webhook, activation, history>>

ExtensionSkips(e, h) ==
  /\ h \in todo[e]
  /\ h \notin locked
  /\ StillActive(h) => Full(e)
  /\ todo' = [todo EXCEPT ![e] = @ \ {h}]
  /\ skipped' = IF StillActive(h) THEN skipped \cup {<<h, e>>} ELSE skipped
  /\ UNCHANGED <<payment_method, started, rows, links, queued, removing, webhook, activation, revived>>

(* remove_tier_link looks for holders without a lock, then deletes.        *)
RemovalFindsNoHolder(e) ==
  /\ e \in links \cap Removable
  /\ e \notin removing
  /\ Holders = {}
  /\ removing' = removing \cup {e}
  /\ UNCHANGED <<payment_method, started, rows, links, queued, todo, webhook, activation, history>>

RemoveLink(e) ==
  /\ e \in removing
  /\ removing' = removing \ {e}
  /\ links' = links \ {e}
  /\ UNCHANGED <<payment_method, started, rows, queued, todo, webhook, activation, history>>

EventStarts(e) ==
  /\ e \notin started
  /\ Cardinality(started) < MaxStarted
  /\ started' = started \cup {e}
  /\ UNCHANGED <<payment_method, rows, coverage, webhook, activation, history>>

-----------------------------------------------------------------------------
Next ==
  \/ \E h \in Holder :
       \/ Purchase(h) \/ BuyerPays(h)
       \/ ConfirmReads(h) \/ ConfirmCommits(h)
       \/ WebhookReads(h) \/ WebhookFindsNothing(h) \/ WebhookFails(h)
       \/ WebhookWrites(h) \/ WebhookCommits(h)
       \/ CancelHeldPass(h) \/ ReclaimReservation(h)
  \/ \E e \in Event :
       \/ AddLink(e) \/ ExtensionStarts(e)
       \/ RemovalFindsNoHolder(e) \/ RemoveLink(e) \/ EventStarts(e)
       \/ \E h \in Holder : Extend(e, h) \/ ExtensionSkips(e, h)

Spec == Init /\ [][Next]_vars

-----------------------------------------------------------------------------
(* Properties. *)

(* Both counters are right after every interleaving of purchases, the four *)
(* ways a pass is given up, activations and extensions: the pass counts    *)
(* its non-cancelled holders and each tier the live tickets, those apart   *)
(* that the webhook wrote over a cancellation which had freed the place.   *)
CountersAgree ==
  /\ passes_sold = Cardinality(Holders)
  /\ \A e \in Event :
       sold[e] = Cardinality({h \in Holder : IsLive(ticket[h][e]) /\ <<h, e>> \notin revived})

(* A cancelled (and refunded) pass admits to no coming event: neither an   *)
(* extension under way, nor an activation, nor a reclaim leaves a live     *)
(* ticket, unless the webhook wrote it on a reading from before.           *)
CancelledPassHoldsNothing ==
  \A h \in Holder, e \in Event \ started :
    held[h] = "CANCELLED" /\ <<h, e>> \notin revived => ~IsLive(ticket[h][e])

(* Whoever holds the pass has a ticket for each covered event to come once *)
(* its extension is over, however purchase, activation and extension were  *)
(* interleaved: except where the tier was full, or where the task took its *)
(* snapshot during an activation that had read the links before.           *)
NoHolderLeftBehind ==
  \A h \in Holder, e \in links \ started :
    held[h] = "ACTIVE" /\ h \notin locked /\ e \notin queued /\ h \notin todo[e]
      /\ <<h, e>> \notin skipped => IsLive(ticket[h][e])
=============================================================================
