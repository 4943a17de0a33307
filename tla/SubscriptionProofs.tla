------------------------- MODULE SubscriptionProofs -------------------------
(***************************************************************************)
(* Theorems about Subscription for every number of rows, sessions and      *)
(* periods and every bound: the types, and that terminal rows are frozen;  *)
(* and, when no completed event comes again after a newer checkout         *)
(* (LateRedelivery is FALSE), that no Stripe subscription bills unknown to *)
(* the application, that a member is billed once, and that the anchor      *)
(* covers the ledger.                                                      *)
(***************************************************************************)
EXTENDS Subscription, FiniteSetTheorems, WellFoundedInduction, TLAPS

-----------------------------------------------------------------------------
(* Types.  The state in three parts: the rows, what Stripe keeps of a      *)
(* subscription, and the rest; and what the helpers of the handlers leave  *)
(* of them.                                                                *)

(* The rows of the table. *)
RowsOK ==
  /\ status \in [Row -> Status]
  /\ link \in [Row -> Session \cup {None}] /\ session \in [Row -> Session \cup {None}]
  /\ cap \in [Row -> BOOLEAN] /\ period \in [Row -> Period \cup {None}]

(* Stripe's subscriptions and the updates it has announced. *)
StripeOK ==
  /\ sub \in [Session -> StripeStatus]
  /\ held \in [Session -> BOOLEAN] /\ paused \in [Session -> BOOLEAN]
  /\ send \in [Session -> Period \cup {None}]
  /\ updates \subseteq Payload

LEMMA RowAndPeriod ==
  /\ None \notin Row /\ None \notin Session /\ None \notin Period
  /\ Row \subseteq Nat /\ Session \subseteq Nat /\ Period \subseteq Nat
  /\ \A t \in 0..MaxTime : t + 1 \in Period
BY BoundsAssumption DEF None, Row, Session, Period

(* A set of numbers has a least and, when bounded, a greatest element.     *)
LEMMA LeastExists ==
  ASSUME NEW S \in SUBSET Nat, S # {}
  PROVE  \E x \in S : \A y \in S : x <= y
<1>1. PICK x \in S : \A y \in S : ~(<<y, x>> \in OpToRel(<, Nat))
  BY NatLessThanWellFounded, WFMin
<1>2. \A y \in S : ~(y < x)
  BY <1>1 DEF OpToRel
<1> QED
  BY <1>2

LEMMA GreatestExists ==
  ASSUME NEW S \in SUBSET Nat, S # {}, NEW n \in Nat, \A x \in S : x <= n
  PROVE  \E x \in S : \A y \in S : y <= x
<1> DEFINE Back == {u \in Nat : u <= n /\ n - u \in S}
<1>1. \A x \in S : n - x \in Back
  <2> TAKE x \in S
  <2>1. x \in Nat /\ x <= n /\ n - (n - x) = x /\ n - x \in Nat /\ n - x <= n
    OBVIOUS
  <2> QED
    BY <2>1
<1>2. Back \in SUBSET Nat /\ Back # {}
  BY <1>1
<1>3. PICK b \in Back : \A u \in Back : b <= u
  BY <1>2, LeastExists
<1>4. \A x \in S : x <= n - b
  <2> TAKE x \in S
  <2>1. b <= n - x
    BY <1>1, <1>3
  <2> QED
    BY <2>1, <1>3
<1> QED
  BY <1>3, <1>4

(* A subscription that was billed has a first and a latest invoice.        *)
LEMMA BilledEnds ==
  ASSUME NEW s \in Session, Billed(s) # {}
  PROVE  FirstInvoice(s) \in Billed(s) /\ LatestInvoice(s) \in Billed(s)
<1>1. Billed(s) \in SUBSET Nat /\ \A t \in Billed(s) : t <= MaxTime + 1
  BY BoundsAssumption DEF Billed, Period
<1>2. \E t \in Billed(s) : \A u \in Billed(s) : t <= u
  BY <1>1, LeastExists
<1>3. MaxTime + 1 \in Nat
  BY BoundsAssumption
<1>4. \E t \in Billed(s) : \A u \in Billed(s) : u <= t
  BY <1>1, <1>3, GreatestExists
<1> QED
  BY <1>2, <1>4 DEF FirstInvoice, LatestInvoice

LEMMA SetRowType ==
  ASSUME RowsOK, NEW r \in Row, NEW st \in Status, NEW l \in Session \cup {None},
         NEW n \in Session \cup {None}, NEW c \in BOOLEAN, NEW p \in Period \cup {None},
         SetRow(r, st, l, n, c, p)
  PROVE  RowsOK'
BY DEF SetRow, RowsOK

LEMMA FieldsType ==
  ASSUME RowsOK, NEW r \in Row
  PROVE  /\ status[r] \in Status /\ link[r] \in Session \cup {None}
         /\ session[r] \in Session \cup {None} /\ cap[r] \in BOOLEAN
         /\ period[r] \in Period \cup {None}
BY DEF RowsOK

LEMMA SameRowsType == ASSUME RowsOK, UNCHANGED rows PROVE RowsOK'
BY DEF rows, RowsOK

LEMMA InFlightType ==
  ASSUME NEW more \in SUBSET Payload, updates \subseteq Payload
  PROVE  InFlight(more) \subseteq Payload
BY DEF InFlight

LEMMA SeenType ==
  ASSUME NEW s \in Session, NEW st \in StripeStatus, NEW c \in BOOLEAN, NEW p \in BOOLEAN,
         NEW e \in Period \cup {None}
  PROVE  Seen(s, st, c, p, e) \in Payload
BY DEF Seen, Payload

LEMMA AnnounceType ==
  ASSUME StripeOK, NEW s \in Session, NEW st \in StripeStatus, NEW c \in BOOLEAN,
         NEW p \in BOOLEAN, NEW e \in Period \cup {None}, Announce(s, st, c, p, e)
  PROVE  StripeOK'
<1>1. updates' \subseteq Payload
  BY SeenType, InFlightType DEF Announce, StripeOK
<1> QED
  BY <1>1 DEF Announce, Change, StripeOK

LEMMA CancelType == ASSUME StripeOK, NEW s \in Session, CancelAtStripe(s) PROVE StripeOK'
<1>1. "canceled" \in StripeStatus
  BY DEF StripeStatus
<1> QED
  BY <1>1, AnnounceType DEF CancelAtStripe, StripeOK

LEMMA SameBillingType ==
  ASSUME StripeOK, UNCHANGED <<sub, held, paused, send, updates>> PROVE StripeOK'
BY DEF StripeOK

LEMMA StatusForType == ASSUME NEW r, NEW m PROVE StatusFor(r, m) \in Status
BY DEF StatusFor, Status, Terminal

(* A date that only moves forward is at least both.                        *)
LEMMA ForwardType ==
  ASSUME NEW old \in Period \cup {None}, NEW new \in Period \cup {None}
  PROVE  /\ ForwardOnly(old, new) \in Period \cup {None}
         /\ ForwardOnly(old, new) >= old /\ ForwardOnly(old, new) >= new
BY RowAndPeriod DEF ForwardOnly, None

LEMMA MirrorType == ASSUME RowsOK, NEW m \in Payload, Mirror(m) PROVE RowsOK'
<1>1. CASE UNCHANGED rows
  BY <1>1, SameRowsType
<1>2. CASE \E r \in Linked(m.sub) :
         SetRow(r, StatusFor(r, m), link[r], session[r], m.cap, ForwardOnly(period[r], m.end))
  <2>1. PICK r \in Linked(m.sub) :
         SetRow(r, StatusFor(r, m), link[r], session[r], m.cap, ForwardOnly(period[r], m.end))
    BY <1>2
  <2>2. r \in Row
    BY DEF Linked
  <2>3. m.cap \in BOOLEAN /\ m.end \in Period \cup {None}
    BY DEF Payload
  <2>4. ForwardOnly(period[r], m.end) \in Period \cup {None}
    BY <2>2, <2>3, ForwardType DEF RowsOK
  <2> QED
    BY <2>1, <2>2, <2>3, <2>4, SetRowType, StatusForType, FieldsType
<1> QED
  BY <1>1, <1>2 DEF Mirror

LEMMA ClearType == ASSUME RowsOK, NEW r \in Row, ClearPending(r) PROVE RowsOK'
<1>1. "EXPIRED" \in Status /\ "none" \in Status /\ FALSE \in BOOLEAN
  BY DEF Status, Terminal
<1>2. CASE HasPayments(r)
  <2>1. SetRow(r, "EXPIRED", link[r], None, cap[r], period[r])
    BY <1>2 DEF ClearPending
  <2> QED
    BY <1>1, <2>1, SetRowType, FieldsType
<1>3. CASE ~HasPayments(r)
  <2>1. SetRow(r, "none", None, None, FALSE, None)
    BY <1>3 DEF ClearPending
  <2> QED
    BY <1>1, <2>1, SetRowType
<1> QED
  BY <1>2, <1>3

(* The type of the ledger of SubscriptionPayment rows. *)
Ledger == [Session -> [Period -> {"none", "FAILED", "SUCCEEDED", "REFUNDED"}]]

LEMMA RecordType ==
  ASSUME RowsOK, NEW r \in Row, NEW s \in Session, NEW t \in Period \cup {None},
         ledger \in Ledger, incident \subseteq Session, RecordPaid(r, s, t)
  PROVE  RowsOK' /\ ledger' \in Ledger /\ incident' \subseteq Session
<1>1. ledger' \in Ledger /\ incident' \subseteq Session
  BY DEF RecordPaid, Ledger
<1>2. CASE IsTerminal(r)
  BY <1>1, <1>2, SameRowsType DEF RecordPaid
<1>3. CASE ~IsTerminal(r)
  <2> DEFINE st == IF status[r] \in {"PENDING", "PAST_DUE"} THEN "ACTIVE" ELSE status[r]
  <2>1. ForwardOnly(period[r], t) \in Period \cup {None}
    BY ForwardType DEF RowsOK
  <2>2. st \in Status
    BY DEF RowsOK, Status
  <2>3. SetRow(r, st, s, session[r], cap[r], ForwardOnly(period[r], t))
    BY <1>3 DEF RecordPaid
  <2> HIDE DEF st
  <2> QED
    BY <1>1, <2>1, <2>2, <2>3, SetRowType, FieldsType
<1> QED
  BY <1>2, <1>3

-----------------------------------------------------------------------------
(* The type of the rest, and the invariant that needs no assumption on     *)
(* delivery. Types hold only together with it: the dates that a handler    *)
(* reads are those of the first and the last invoice, which exist because  *)
(* a subscription that rows or events name has been billed.                *)

(* The ledger, the sessions, the events and the jobs. *)
RestOK ==
  /\ ledger \in Ledger /\ incident \subseteq Session
  /\ ses \in [Session -> {"none", "open", "complete", "expired"}]
  /\ owner \in [Session -> Row \cup {None}]
  /\ inv \in [Session -> [Period -> {"none", "open", "paid", "refunded"}]]
  /\ now \in 0..MaxTime /\ requests \in 0..MaxRequests /\ faults \in 0..MaxFaults
  /\ completed \subseteq Session /\ ended \subseteq Session
  /\ paid \subseteq Session \X Period /\ unpaid \subseteq Session \X Period
  /\ refunds \subseteq Session \X Period
  /\ closing \subseteq Session /\ expiring \subseteq Session
  /\ fresh \subseteq Row
  /\ swept \in (Row \cup {None}) \X (Session \cup {None})
  /\ recon \in Read
  /\ visits \in [Row -> 0..Window]

(* Rows and sessions name each other: a row is linked only to a session    *)
(* that was opened for it and completed, and whose completed event was     *)
(* taken.                                                                  *)
Owners ==
  /\ \A s \in Session : ses[s] # "none" <=> owner[s] # None
  /\ \A r \in Row : link[r] # None =>
       /\ owner[link[r]] = r /\ ses[link[r]] = "complete"
       /\ link[r] \notin completed /\ status[r] # "none"
  /\ \A r \in Row : session[r] # None => owner[session[r]] = r /\ status[r] # "none"
  /\ \A r \in Row : status[r] # "none" => \E s \in Session : owner[s] = r

(* What each trace of a session says of it: only a completed session       *)
(* bills, is announced or is in the ledger, and it has an invoice; an      *)
(* expired session stays so; and nothing is in the ledger before the       *)
(* completed event was taken.                                              *)
Evidence ==
  /\ \A s \in Session : Live(s) \/ s \in completed \/ (\E t \in Period : ledger[s][t] # "none")
                        => ses[s] = "complete"
  /\ \A s \in Session : ses[s] = "complete" => Billed(s) # {}
  /\ \A s \in ended : ses[s] = "expired"
  /\ \A s \in completed, t \in Period : ledger[s][t] = "none"
  /\ swept # NoRow => swept[1] \in Row /\ swept[2] \in Session /\ ses[swept[2]] = "expired"

LEMMA TypeParts == TypeOK <=> RowsOK /\ StripeOK /\ RestOK
BY DEF TypeOK, RowsOK, StripeOK, RestOK, Ledger

LEMMA ClockType ==
  ASSUME RestOK
  PROVE  /\ now \in Nat /\ now <= MaxTime /\ now + 1 \in Period
         /\ requests < MaxRequests => requests + 1 \in 0..MaxRequests
         /\ faults < MaxFaults => faults + 1 \in 0..MaxFaults
BY BoundsAssumption DEF RestOK, Period

LEMMA LinkBilled ==
  ASSUME RowsOK, Owners, Evidence, NEW r \in Row, link[r] # None
  PROVE  /\ link[r] \in Session /\ Billed(link[r]) # {}
         /\ LatestInvoice(link[r]) \in Period /\ FirstInvoice(link[r]) \in Period
<1>1. link[r] \in Session /\ ses[link[r]] = "complete"
  BY DEF RowsOK, Owners
<1>2. Billed(link[r]) # {}
  BY <1>1 DEF Evidence
<1> QED
  BY <1>1, <1>2, BilledEnds DEF Billed

(* A session that exists has the row it was opened for.                    *)
LEMMA OwnerType ==
  ASSUME RestOK, Owners, NEW s \in Session, ses[s] # "none"
  PROVE  owner[s] \in Row
BY DEF RestOK, Owners

LEMMA StripeTypeStep ==
  ASSUME RowsOK, StripeOK, RestOK, Owners, Evidence, Stripe
  PROVE  RowsOK' /\ StripeOK' /\ RestOK'
<1>0. ASSUME UNCHANGED <<rows, ledger, incident, post, jobs>> 
      PROVE  RowsOK' /\ (ledger \in Ledger)' /\ (incident \subseteq Session)'
             /\ (closing \subseteq Session)' /\ (expiring \subseteq Session)' /\ (fresh \subseteq Row)'
             /\ (swept \in (Row \cup {None}) \X (Session \cup {None}))' /\ (recon \in Read)'
             /\ (visits \in [Row -> 0..Window])'
  BY <1>0 DEF RowsOK, RestOK, rows, post, jobs
<1>1. CASE Tick
  <2>1. now' \in 0..MaxTime
    BY <1>1, BoundsAssumption DEF Tick, RestOK
  <2> QED
    BY <1>1, <1>0, <2>1 DEF Tick, StripeOK, RestOK, checkout, billing, events
<1>2. ASSUME NEW s \in Session, Pay(s) PROVE RowsOK' /\ StripeOK' /\ RestOK'
  <2>1. now + 1 \in Period
    BY ClockType
  <2>2. {Seen(s, st, FALSE, FALSE, now + 1) : st \in {"incomplete", "active"}} \in SUBSET Payload
    BY <2>1, SeenType DEF StripeStatus
  <2>3. updates' \subseteq Payload
    BY <1>2, <2>2, InFlightType DEF Pay, StripeOK
  <2>4. StripeOK'
    BY <1>2, <2>1, <2>3 DEF Pay, Change, StripeOK, StripeStatus
  <2> QED
    BY <1>2, <1>0, <2>1, <2>4 DEF Pay, RestOK, clock
<1>3. ASSUME NEW s \in Session, SessionExpires(s) PROVE RowsOK' /\ StripeOK' /\ RestOK'
  BY <1>3, <1>0 DEF SessionExpires, StripeOK, RestOK, billing, clock
<1>4. ASSUME NEW s \in Session, Renew(s) PROVE RowsOK' /\ StripeOK' /\ RestOK'
  <2>0. send[s] \in Period \cup {None} /\ send[s] + 1 \in Period
    BY <1>4, ClockType, BoundsAssumption DEF Renew, StripeOK, Period, None
  <2>1. {"active", "past_due"} \subseteq StripeStatus /\ TRUE \in BOOLEAN /\ FALSE \in BOOLEAN
    BY DEF StripeStatus
  <2>2. StripeOK'
    <3>1. CASE CancelAtStripe(s)
      BY <3>1, CancelType
    <3>2. CASE \E st \in {"active", "past_due"}, p \in BOOLEAN :
                  Announce(s, st, FALSE, p, send[s] + 1)
      BY <3>2, <2>0, <2>1, AnnounceType
    <3> QED
      BY <1>4, <3>1, <3>2, <2>1 DEF Renew
  <2> QED
    <3>1. UNCHANGED <<rows, ledger, incident, checkout, clock, completed, ended, refunds, post, jobs>>
      BY <1>4 DEF Renew
    <3>2. /\ inv' = inv \/ \E x \in {"paid", "open"} : inv' = [inv EXCEPT ![s][send[s] + 1] = x]
          /\ paid' \subseteq paid \cup {<<s, send[s] + 1>>}
          /\ unpaid' \subseteq unpaid \cup {<<s, send[s] + 1>>}
      BY <1>4 DEF Renew
    <3>3. (inv \in [Session -> [Period -> {"none", "open", "paid", "refunded"}]])'
      BY <3>2, <2>0 DEF RestOK
    <3>4. (paid \subseteq Session \X Period)' /\ (unpaid \subseteq Session \X Period)'
      BY <3>2, <2>0 DEF RestOK
    <3> QED
      BY <1>0, <2>2, <3>1, <3>3, <3>4 DEF RestOK, checkout, clock
<1>5. ASSUME NEW s \in Session, Retry(s) PROVE RowsOK' /\ StripeOK' /\ RestOK'
  <2>1. Billed(s) # {}
    BY <1>5 DEF Retry, Evidence, Live
  <2>2. LatestInvoice(s) \in Period
    BY <2>1, BilledEnds DEF Billed
  <2> DEFINE t == LatestInvoice(s)
  <2>5. t \in Period
    BY <2>2
  <2>3. "active" \in StripeStatus /\ held[s] \in BOOLEAN /\ paused[s] \in BOOLEAN
        /\ send[s] \in Period \cup {None}
    BY DEF StripeStatus, StripeOK
  <2>4. StripeOK'
    BY <1>5, <2>3, AnnounceType, CancelType DEF Retry
  <2> QED
    <3>1. UNCHANGED <<rows, ledger, incident, checkout, clock, completed, ended, refunds, post, jobs>>
      BY <1>5 DEF Retry
    <3>2. /\ inv' = inv \/ inv' = [inv EXCEPT ![s][t] = "paid"]
          /\ paid' \subseteq paid \cup {<<s, t>>}
          /\ unpaid' = unpaid
      BY <1>5 DEF Retry
    <3> HIDE DEF t
    <3>3. (inv \in [Session -> [Period -> {"none", "open", "paid", "refunded"}]])'
      <4>1. inv \in [Session -> [Period -> {"none", "open", "paid", "refunded"}]]
        BY DEF RestOK
      <4>2. [inv[s] EXCEPT ![t] = "paid"] \in [Period -> {"none", "open", "paid", "refunded"}]
        BY <2>5, <4>1
      <4>3. [inv EXCEPT ![s] = [inv[s] EXCEPT ![t] = "paid"]]
              \in [Session -> [Period -> {"none", "open", "paid", "refunded"}]]
        BY <4>1, <4>2
      <4> QED
        BY <3>2, <4>1, <4>3
    <3>4. (paid \subseteq Session \X Period)' /\ (unpaid \subseteq Session \X Period)'
      BY <2>5, <3>2 DEF RestOK
    <3> QED
      BY <1>0, <2>4, <3>1, <3>3, <3>4 DEF RestOK, checkout, clock
<1>6. ASSUME NEW s \in Session, NEW t \in Period, DashboardRefund(s, t)
      PROVE  RowsOK' /\ StripeOK' /\ RestOK'
  <2>1. requests' \in 0..MaxRequests /\ now' = now
    BY <1>6, ClockType DEF DashboardRefund, Requested
  <2> QED
    BY <1>6, <1>0, <2>1 DEF DashboardRefund, StripeOK, RestOK, checkout
<1>7. ASSUME NEW m \in updates, LoseUpdate(m) PROVE RowsOK' /\ StripeOK' /\ RestOK'
  <2>1. faults' \in 0..MaxFaults /\ now' = now /\ requests' = requests
    BY <1>7, ClockType DEF LoseUpdate, Struck, Fault
  <2> QED
    BY <1>7, <1>0, <2>1 DEF LoseUpdate, StripeOK, RestOK, checkout, billing
<1> QED
  BY <1>1, <1>2, <1>3, <1>4, <1>5, <1>6, <1>7 DEF Stripe

-----------------------------------------------------------------------------
(* Types of the webhooks, of the calls made after a commit and of the      *)
(* jobs.                                                                   *)

LEMMA FaultType ==
  ASSUME RestOK, Struck
  PROVE  faults' \in 0..MaxFaults /\ now' = now /\ requests' = requests
BY ClockType DEF Struck, Fault

LEMMA CompletedType ==
  ASSUME RowsOK, RestOK, Owners, Evidence, NEW s \in Session, ses[s] = "complete", OnCompleted(s)
  PROVE  RowsOK' /\ ledger' \in Ledger /\ incident' \subseteq Session /\ closing' \subseteq Session
<1>1. owner[s] \in Row /\ ledger \in Ledger /\ incident \subseteq Session /\ closing \subseteq Session
  BY OwnerType DEF RestOK
<1>2. CASE Alarm(s) /\ UNCHANGED <<rows, ledger>> /\ closing' \in {closing, closing \cup {s}}
  BY <1>1, <1>2, SameRowsType DEF Alarm
<1>3. CASE Link(owner[s], s) /\ UNCHANGED closing
  <2>1. FirstInvoice(s) \in Period \cup {None}
    BY BilledEnds DEF Evidence, Billed
  <2>2. CASE RecordPaid(owner[s], s, FirstInvoice(s))
    BY <1>1, <1>3, <2>1, <2>2, RecordType
  <2>3. CASE /\ SetRow(owner[s], status[owner[s]], s, session[owner[s]], cap[owner[s]],
                       period[owner[s]])
             /\ UNCHANGED <<ledger, incident>>
    <3>0. PICK r \in Row : r = owner[s]
      BY <1>1
    <3>1. SetRow(r, status[r], s, session[r], cap[r], period[r])
      BY <2>3, <3>0
    <3>2. RowsOK'
      <4>1. /\ status[r] \in Status /\ s \in Session \cup {None} /\ session[r] \in Session \cup {None}
            /\ cap[r] \in BOOLEAN /\ period[r] \in Period \cup {None}
        BY FieldsType
      <4> QED
        BY <3>1, <4>1, SetRowType
    <3> QED
      BY <1>1, <1>3, <2>3, <3>2
  <2> QED
    BY <1>3, <2>2, <2>3 DEF Link
<1> QED
  BY <1>2, <1>3 DEF OnCompleted

LEMMA WebhookTypeStep ==
  ASSUME RowsOK, StripeOK, RestOK, Owners, Evidence, Webhook
  PROVE  RowsOK' /\ StripeOK' /\ RestOK'
<1> USE DEF stripe, checkout, billing
<1>1. ASSUME NEW s \in Session, CheckoutCompleted(s) PROVE RowsOK' /\ StripeOK' /\ RestOK'
  <2>1. ses[s] = "complete"
    BY <1>1 DEF CheckoutCompleted, Evidence
  <2>2. RowsOK' /\ ledger' \in Ledger /\ incident' \subseteq Session /\ closing' \subseteq Session
    BY <1>1, <2>1, CompletedType DEF CheckoutCompleted
  <2> QED
    BY <1>1, <2>2 DEF CheckoutCompleted, StripeOK, RestOK, clock, jobs
<1>2. ASSUME NEW s \in Session, CheckoutRedelivered(s) PROVE RowsOK' /\ StripeOK' /\ RestOK'
  <2>1. RowsOK' /\ ledger' \in Ledger /\ incident' \subseteq Session /\ closing' \subseteq Session
    BY <1>2, CompletedType DEF CheckoutRedelivered
  <2>2. faults' \in 0..MaxFaults /\ now' = now /\ requests' = requests
    BY <1>2, FaultType DEF CheckoutRedelivered
  <2> QED
    BY <1>2, <2>1, <2>2 DEF CheckoutRedelivered, StripeOK, RestOK, events, jobs
<1>3. ASSUME NEW s \in Session, CheckoutExpired(s) PROVE RowsOK' /\ StripeOK' /\ RestOK'
  <2>1. owner[s] \in Row
    BY <1>3, OwnerType DEF CheckoutExpired, Evidence
  <2>2. RowsOK'
    BY <1>3, <2>1, ClearType, SameRowsType DEF CheckoutExpired
  <2> QED
    BY <1>3, <2>2 DEF CheckoutExpired, StripeOK, RestOK, clock, post, jobs
<1>4. ASSUME NEW s \in Session, NEW t \in Period, InvoicePaid(s, t)
      PROVE  RowsOK' /\ StripeOK' /\ RestOK'
  <2>1. RowsOK' /\ ledger' \in Ledger /\ incident' \subseteq Session
    <3>1. CASE UNCHANGED <<rows, ledger, incident>>
      BY <3>1, SameRowsType DEF RestOK
    <3>2. CASE \E r \in Linked(s) : RecordPaid(r, s, t)
      BY <3>2, RecordType DEF RestOK, Linked
    <3> QED
      BY <1>4, <3>1, <3>2 DEF InvoicePaid
  <2> QED
    BY <1>4, <2>1 DEF InvoicePaid, StripeOK, RestOK, clock, post, jobs
<1>5. ASSUME NEW s \in Session, NEW t \in Period, InvoiceFailed(s, t)
      PROVE  RowsOK' /\ StripeOK' /\ RestOK'
  <2>1. RowsOK' /\ ledger' \in Ledger
    <3>1. CASE UNCHANGED <<rows, ledger>>
      BY <3>1, SameRowsType DEF RestOK
    <3>2. ASSUME NEW r \in Linked(s), ledger' = [ledger EXCEPT ![s][t] = "FAILED"],
                 status' = status \/ status' = [status EXCEPT ![r] = "PAST_DUE"],
                 UNCHANGED <<link, session, cap, period>>
          PROVE  RowsOK' /\ ledger' \in Ledger
      BY <3>2 DEF RowsOK, RestOK, Ledger, Status
    <3> QED
      BY <1>5, <3>1, <3>2 DEF InvoiceFailed
  <2> QED
    BY <1>5, <2>1 DEF InvoiceFailed, StripeOK, RestOK, clock, post, jobs
<1>6. ASSUME NEW s \in Session, NEW t \in Period, ChargeRefunded(s, t)
      PROVE  RowsOK' /\ StripeOK' /\ RestOK'
  <2>1. RowsOK' /\ ledger' \in Ledger /\ closing' \subseteq Session
    <3>1. CASE UNCHANGED <<rows, ledger, closing>>
      BY <3>1, SameRowsType DEF RestOK
    <3>2. CASE /\ ledger' = [ledger EXCEPT ![s][t] = "REFUNDED"]
               /\ UNCHANGED <<rows, closing>>
      BY <3>2, SameRowsType DEF RestOK, Ledger
    <3>3. CASE /\ ledger[s][t] # "none" /\ ledger' = [ledger EXCEPT ![s][t] = "REFUNDED"]
               /\ Terminalize(owner[s], "CANCELLED", FALSE)
      <4>1. owner[s] \in Row
        BY <3>3, OwnerType DEF Evidence
      <4>2. "CANCELLED" \in Status /\ FALSE \in BOOLEAN
        BY DEF Status, Terminal
      <4>3. RowsOK'
        BY <3>3, <4>1, <4>2, SetRowType, FieldsType DEF Terminalize
      <4>4. closing' \subseteq Session
        BY <3>3, <4>1, FieldsType DEF Terminalize, RestOK
      <4> QED
        BY <3>3, <4>3, <4>4 DEF RestOK, Ledger
    <3> QED
      BY <1>6, <3>1, <3>2, <3>3 DEF ChargeRefunded
  <2> QED
    BY <1>6, <2>1 DEF ChargeRefunded, StripeOK, RestOK, clock, jobs
<1>7. ASSUME NEW s \in Session, NEW t \in Period, RefundRedelivered(s, t)
      PROVE  RowsOK' /\ StripeOK' /\ RestOK'
  <2>0. inv[s][t] = "refunded" /\ ledger[s][t] = "REFUNDED" /\ link[owner[s]] # None /\ Struck
        /\ closing' = closing \cup {link[owner[s]]}
        /\ UNCHANGED <<rows, ledger, incident, stripe, events, expiring, jobs>>
    BY <1>7 DEF RefundRedelivered
  <2>1. owner[s] \in Row
    BY <2>0, OwnerType DEF Evidence
  <2>2. closing' \subseteq Session
    BY <2>0, <2>1, FieldsType DEF RestOK
  <2>3. faults' \in 0..MaxFaults /\ now' = now /\ requests' = requests
    BY <2>0, FaultType
  <2> QED
    BY <2>0, <2>2, <2>3, SameRowsType DEF StripeOK, RestOK, events, jobs
<1>8. ASSUME NEW m \in updates, SubscriptionEvent(m) PROVE RowsOK' /\ StripeOK' /\ RestOK'
  <2>1. RowsOK'
    BY <1>8, MirrorType DEF SubscriptionEvent, StripeOK
  <2> QED
    BY <1>8, <2>1 DEF SubscriptionEvent, StripeOK, RestOK, clock, post, jobs
<1> QED
  BY <1>1, <1>2, <1>3, <1>4, <1>5, <1>6, <1>7, <1>8 DEF Webhook

LEMMA PostTypeStep ==
  ASSUME RowsOK, StripeOK, RestOK, PostCalls
  PROVE  RowsOK' /\ StripeOK' /\ RestOK'
<1>1. ASSUME NEW s \in Session, Close(s) PROVE RowsOK' /\ StripeOK' /\ RestOK'
  <2>1. StripeOK'
    BY <1>1, CancelType, SameBillingType DEF Close
  <2> QED
    BY <1>1, <2>1, SameRowsType DEF Close, RestOK, checkout, clock, jobs
<1>2. ASSUME NEW s \in Session, ExpireLater(s) PROVE RowsOK' /\ StripeOK' /\ RestOK'
  BY <1>2, SameRowsType DEF ExpireLater, ExpireSession, StripeOK, RestOK, billing, clock, jobs
<1>3. CASE PostCallLost
  <2>1. faults' \in 0..MaxFaults /\ now' = now /\ requests' = requests
    BY <1>3, FaultType DEF PostCallLost
  <2>2. closing' \subseteq closing /\ expiring' \subseteq expiring
    BY <1>3 DEF PostCallLost
  <2>3. UNCHANGED <<rows, ledger, incident, stripe, events, jobs>>
    BY <1>3 DEF PostCallLost
  <2> QED
    BY <2>1, <2>2, <2>3, SameRowsType DEF StripeOK, RestOK, stripe, checkout, billing, events, jobs
<1> QED
  BY <1>1, <1>2, <1>3 DEF PostCalls

LEMMA JobTypeStep ==
  ASSUME RowsOK, StripeOK, RestOK, Owners, Evidence, ExpiryJob \/ Sweep \/ Reconcile
  PROVE  RowsOK' /\ StripeOK' /\ RestOK'
<1> USE DEF stripe, checkout, billing
<1>0. {"CANCELLED", "EXPIRED", "PAST_DUE"} \subseteq Status
  BY DEF Status, Terminal
<1>1. ASSUME NEW r \in Row, LapseActive(r) PROVE RowsOK' /\ StripeOK' /\ RestOK'
  <2>1. RowsOK'
    <3>1. \E st \in {"CANCELLED", "PAST_DUE"} : SetRow(r, st, link[r], session[r], cap[r], period[r])
      BY <1>1 DEF LapseActive, Terminalize
    <3> QED
      BY <1>0, <3>1, SetRowType, FieldsType
  <2>2. closing' \subseteq Session /\ fresh' \subseteq Row
    BY <1>1, FieldsType DEF LapseActive, Terminalize, RestOK
  <2> QED
    BY <1>1, <2>1, <2>2 DEF LapseActive, StripeOK, RestOK, clock, events
<1>2. ASSUME NEW r \in Row, ExpirePastDue(r) PROVE RowsOK' /\ StripeOK' /\ RestOK'
  <2>1. RowsOK'
    <3>1. \E st \in {"CANCELLED", "EXPIRED"} : SetRow(r, st, link[r], session[r], cap[r], period[r])
      BY <1>2 DEF ExpirePastDue, Terminalize
    <3> QED
      BY <1>0, <3>1, SetRowType, FieldsType
  <2>2. closing' \subseteq Session
    BY <1>2, FieldsType DEF ExpirePastDue, Terminalize, RestOK
  <2> QED
    BY <1>2, <2>1, <2>2 DEF ExpirePastDue, StripeOK, RestOK, clock, events, jobs
<1>3. CASE ExpiryJobEnds
  BY <1>3, SameRowsType DEF ExpiryJobEnds, StripeOK, RestOK, clock, events, post
<1>4. ASSUME NEW r \in Row, SweepReads(r) PROVE RowsOK' /\ StripeOK' /\ RestOK'
  <2>1. swept' \in (Row \cup {None}) \X (Session \cup {None}) /\ incident' \subseteq Session
    BY <1>4, FieldsType DEF SweepReads, Alarm, RestOK
  <2> QED
    BY <1>4, <2>1, SameRowsType DEF SweepReads, StripeOK, RestOK, clock, events, post
<1>5. CASE SweepClears
  <2>1. RowsOK'
    <3>1. swept[1] \in Row
      BY <1>5 DEF SweepClears, Evidence
    <3> QED
      BY <1>5, <3>1, ClearType, SameRowsType DEF SweepClears
  <2>2. swept' \in (Row \cup {None}) \X (Session \cup {None})
    BY <1>5 DEF SweepClears, NoRow
  <2> QED
    BY <1>5, <2>1, <2>2 DEF SweepClears, StripeOK, RestOK, clock, events, post
<1>6. ASSUME NEW r \in Row, ReconcileReads(r) PROVE RowsOK' /\ StripeOK' /\ RestOK'
  <2>1. link[r] \in Session /\ NewestPaid(link[r]) \in Period \cup {None}
    BY <1>6, LinkBilled DEF ReconcileReads, NewestPaid
  <2>2. Seen(link[r], sub[link[r]], held[link[r]], paused[link[r]], send[link[r]]) \in Payload
    BY <2>1, SeenType DEF StripeOK
  <2>3. recon' \in Read
    <3>1. recon \in Read
      BY DEF RestOK
    <3>2. ASSUME NEW m \in Payload, NEW i \in Period \cup {None}, NEW b \in BOOLEAN
          PROVE  [terminal |-> b, step |-> "read", invoice |-> i, seen |-> m] \in Read
      BY DEF Read
    <3>3. IsTerminal(r) \in BOOLEAN
      BY DEF IsTerminal
    <3> QED
      BY <1>6, <2>1, <2>2, <3>1, <3>2, <3>3 DEF ReconcileReads
  <2>4. visits' \in [Row -> 0..Window]
    <3>1. visits \in [Row -> 0..Window] /\ (IsTerminal(r) => visits[r] < Window)
      BY <1>6 DEF ReconcileReads, InScope, RestOK
    <3>2. IsTerminal(r) => visits[r] + 1 \in 0..Window
      BY <3>1, BoundsAssumption
    <3> QED
      BY <1>6, <3>1, <3>2 DEF ReconcileReads
  <2>5. faults' \in 0..MaxFaults /\ now' = now /\ requests' = requests
    <3>1. CASE Struck
      BY <3>1, FaultType
    <3>2. CASE UNCHANGED clock
      BY <3>2 DEF clock, RestOK
    <3> QED
      BY <1>6, <3>1, <3>2 DEF ReconcileReads
  <2> QED
    BY <1>6, <2>3, <2>4, <2>5, SameRowsType DEF ReconcileReads, StripeOK, RestOK, events, post
<1>7. CASE ReconcileSyncs
  <2>0. recon.seen \in Payload /\ recon.seen.sub \in Session /\ recon \in Read
    BY DEF RestOK, Read, Payload
  <2>1. RowsOK'
    BY <1>7, <2>0, MirrorType DEF ReconcileSyncs
  <2>2. StripeOK'
    BY <1>7, <2>0, CancelType, SameBillingType DEF ReconcileSyncs
  <2>3. faults' \in 0..MaxFaults /\ now' = now /\ requests' = requests
    <3>1. CASE Struck
      BY <3>1, FaultType
    <3>2. CASE UNCHANGED clock
      BY <3>2 DEF clock, RestOK
    <3> QED
      BY <1>7, <3>1, <3>2 DEF ReconcileSyncs
  <2>4. recon' \in Read
    <3>1. Idle \in Read
      <4>1. 1 \in Session
        BY BoundsAssumption DEF Session
      <4> QED
        BY <4>1 DEF Idle, Read, Payload, StripeStatus
    <3>2. [recon EXCEPT !.step = "unknown"] \in Read
      BY <2>0 DEF Read
    <3> QED
      BY <1>7, <3>1, <3>2 DEF ReconcileSyncs
  <2> QED
    BY <1>7, <2>1, <2>2, <2>3, <2>4 DEF ReconcileSyncs, RestOK, post
<1>8. CASE ReconcileRecords
  <2>0. recon.seen.sub \in Session /\ recon.invoice \in Period \cup {None}
    BY DEF RestOK, Read, Payload
  <2>1. RowsOK' /\ ledger' \in Ledger /\ incident' \subseteq Session
    <3>1. CASE UNCHANGED <<rows, ledger, incident>>
      BY <3>1, SameRowsType DEF RestOK
    <3>2. CASE \E r \in Linked(recon.seen.sub) : RecordPaid(r, recon.seen.sub, recon.invoice)
      BY <2>0, <3>2, RecordType DEF RestOK, Linked
    <3> QED
      BY <1>8, <3>1, <3>2 DEF ReconcileRecords
  <2>2. Idle \in Read
    <3>1. 1 \in Session
      BY BoundsAssumption DEF Session
    <3> QED
      BY <3>1 DEF Idle, Read, Payload, StripeStatus
  <2> QED
    BY <1>8, <2>1, <2>2 DEF ReconcileRecords, StripeOK, RestOK, clock, events, post
<1> QED
  BY <1>1, <1>2, <1>3, <1>4, <1>5, <1>6, <1>7, <1>8 DEF ExpiryJob, Sweep, Reconcile

-----------------------------------------------------------------------------
(* Types of what the member and the staff ask.                             *)

(* A request that may fail leaves the rows typed, committed or not.        *)
LEMMA CommitsFrom ==
  ASSUME RowsOK, RestOK, Requested \/ UNCHANGED <<now, requests>>, NEW change,
         change => RowsOK', Commits(change)
  PROVE  RowsOK' /\ faults' \in 0..MaxFaults /\ requests' \in 0..MaxRequests /\ now' = now
<1>1. requests' \in 0..MaxRequests /\ now' = now
  BY ClockType DEF Requested, RestOK
<1>2. CASE change /\ UNCHANGED faults
  BY <1>1, <1>2 DEF RestOK
<1>3. CASE Fault /\ UNCHANGED rows
  BY <1>1, <1>3, SameRowsType, ClockType DEF Fault
<1> QED
  BY <1>2, <1>3 DEF Commits

LEMMA MemberTypeStep ==
  ASSUME RowsOK, StripeOK, RestOK, Owners, Evidence, Member
  PROVE  RowsOK' /\ StripeOK' /\ RestOK'
<1>0. {"CANCELLED", "EXPIRED", "PENDING", "PAUSED", "ACTIVE", "none"} \subseteq Status
      /\ TRUE \in BOOLEAN /\ FALSE \in BOOLEAN
  BY DEF Status, Terminal
<1>1. ASSUME NEW r \in Row, NEW s \in Session, Subscribe(r, s) PROVE RowsOK' /\ StripeOK' /\ RestOK'
  <2>1. RowsOK'
    BY <1>0, <1>1, SetRowType DEF Subscribe
  <2> QED
    BY <1>1, <2>1 DEF Subscribe, StripeOK, RestOK, billing, clock, events, post, jobs
<1>2. ASSUME NEW q \in Row, NEW r \in Row, NEW s \in Session, SubscribeAgain(q, r, s)
      PROVE  RowsOK' /\ StripeOK' /\ RestOK'
  <2>1. RowsOK'
    BY <1>2 DEF SubscribeAgain, RowsOK, Status, Terminal
  <2>2. ended' \subseteq Session
    BY <1>2, FieldsType DEF SubscribeAgain, RestOK
  <2>3. (ses \in [Session -> {"none", "open", "complete", "expired"}])'
    BY <1>2 DEF SubscribeAgain, RestOK
  <2> QED
    BY <1>2, <2>1, <2>2, <2>3 DEF SubscribeAgain, StripeOK, RestOK, billing, clock, post, jobs
<1>3. ASSUME NEW r \in Row, NEW s \in Session, Revive(r, s) PROVE RowsOK' /\ StripeOK' /\ RestOK'
  <2>1. StripeOK'
    <3>1. CASE link[r] # None /\ CancelAtStripe(link[r])
      BY <3>1, FieldsType, CancelType
    <3>2. CASE UNCHANGED <<billing, updates>>
      BY <3>2, SameBillingType DEF billing
    <3> QED
      BY <1>3, <3>1, <3>2 DEF Revive
  <2>2. CASE /\ ses' = [ses EXCEPT ![s] = "open"] /\ owner' = [owner EXCEPT ![s] = r]
             /\ SetRow(r, "PENDING", None, s, cap[r], None)
             /\ visits' = [visits EXCEPT ![r] = 0]
    <3>1. RowsOK'
      BY <1>0, <2>2, SetRowType, FieldsType
    <3> QED
      BY <1>3, <2>1, <2>2, <3>1, BoundsAssumption DEF Revive, RestOK, clock, post
  <2>3. CASE UNCHANGED <<rows, checkout, visits>>
    BY <1>3, <2>1, <2>3, SameRowsType DEF Revive, RestOK, checkout, clock, post
  <2> QED
    BY <1>3, <2>2, <2>3 DEF Revive
<1>4. ASSUME NEW r \in Row, CancelNow(r) PROVE RowsOK' /\ StripeOK' /\ RestOK'
  <2>0. Commits(SetRow(r, "CANCELLED", link[r], session[r], FALSE, period[r])) /\ Requested
    BY <1>4 DEF CancelNow
  <2>1. SetRow(r, "CANCELLED", link[r], session[r], FALSE, period[r]) => RowsOK'
    BY <1>0, SetRowType, FieldsType
  <2>2. RowsOK' /\ faults' \in 0..MaxFaults /\ requests' \in 0..MaxRequests /\ now' = now
    BY <2>0, <2>1, CommitsFrom
  <2>3. StripeOK'
    BY <1>4, FieldsType, CancelType, SameBillingType DEF CancelNow
  <2>4. ended' \subseteq Session /\ (ses \in [Session -> {"none", "open", "complete", "expired"}])'
    BY <1>4, FieldsType DEF CancelNow, ExpireSession, RestOK
  <2> QED
    BY <1>4, <2>2, <2>3, <2>4 DEF CancelNow, RestOK, post, jobs
<1>5. ASSUME NEW r \in Row, ScheduleCancel(r) PROVE RowsOK' /\ StripeOK' /\ RestOK'
  <2>0. Commits(SetRow(r, status[r], link[r], session[r], TRUE, period[r])) /\ Requested
        /\ link[r] \in Session
    BY <1>5, FieldsType DEF ScheduleCancel
  <2>1. SetRow(r, status[r], link[r], session[r], TRUE, period[r]) => RowsOK'
    BY <1>0, SetRowType, FieldsType
  <2>2. RowsOK' /\ faults' \in 0..MaxFaults /\ requests' \in 0..MaxRequests /\ now' = now
    BY <2>0, <2>1, CommitsFrom
  <2>3. StripeOK'
    <3>1. sub[link[r]] \in StripeStatus /\ paused[link[r]] \in BOOLEAN
          /\ send[link[r]] \in Period \cup {None}
      BY <2>0 DEF StripeOK
    <3>2. CASE Announce(link[r], sub[link[r]], TRUE, paused[link[r]], send[link[r]])
      BY <1>0, <2>0, <3>1, <3>2, AnnounceType
    <3> QED
      BY <1>5, <3>2, SameBillingType DEF ScheduleCancel
  <2> QED
    BY <1>5, <2>2, <2>3 DEF ScheduleCancel, RestOK, checkout, post, jobs
<1>6. ASSUME NEW r \in Row, NEW c \in BOOLEAN, NEW p \in BOOLEAN, NEW st \in Status, NEW d \in BOOLEAN,
             Requested \/ UNCHANGED <<now, requests>>,
             AtStripeFirst(r, c, p, SetRow(r, st, link[r], session[r], d, period[r]))
      PROVE  RowsOK' /\ StripeOK' /\ RestOK'
  <2>0. Commits(SetRow(r, st, link[r], session[r], d, period[r])) /\ link[r] \in Session
    BY <1>6, FieldsType DEF AtStripeFirst
  <2>1. SetRow(r, st, link[r], session[r], d, period[r]) => RowsOK'
    BY SetRowType, FieldsType
  <2>2. RowsOK' /\ faults' \in 0..MaxFaults /\ requests' \in 0..MaxRequests /\ now' = now
    BY <1>6, <2>0, <2>1, CommitsFrom
  <2>3. StripeOK'
    <3>1. sub[link[r]] \in StripeStatus /\ send[link[r]] \in Period \cup {None}
      BY <2>0 DEF StripeOK
    <3> QED
      BY <1>6, <2>0, <3>1, AnnounceType DEF AtStripeFirst
  <2> QED
    BY <1>6, <2>2, <2>3 DEF AtStripeFirst, RestOK, checkout, post, jobs
<1>7. ASSUME NEW r \in Row, Uncancel(r) \/ Pause(r) \/ Resume(r) PROVE RowsOK' /\ StripeOK' /\ RestOK'
  <2>1. status[r] \in Status /\ cap[r] \in BOOLEAN /\ link[r] \in Session
    BY <1>7, FieldsType DEF Uncancel, Pause, Resume
  <2>2. held[link[r]] \in BOOLEAN /\ paused[link[r]] \in BOOLEAN
    BY <2>1 DEF StripeOK
  <2>3. CASE Uncancel(r)
    BY <1>0, <1>6, <2>1, <2>2, <2>3 DEF Uncancel
  <2>4. CASE Pause(r)
    BY <1>0, <1>6, <2>1, <2>2, <2>4 DEF Pause
  <2>5. CASE Resume(r)
    BY <1>0, <1>6, <2>1, <2>2, <2>5 DEF Resume
  <2> QED
    BY <1>7, <2>3, <2>4, <2>5
<1>8. ASSUME NEW r \in Row, MembershipLoss(r) PROVE RowsOK' /\ StripeOK' /\ RestOK'
  <2>1. RowsOK'
    BY <1>0, <1>8, SetRowType, FieldsType DEF MembershipLoss
  <2>2. closing' \subseteq Session /\ expiring' \subseteq Session
    BY <1>8, FieldsType DEF MembershipLoss, RestOK
  <2>3. requests' \in 0..MaxRequests /\ now' = now
    BY <1>8, ClockType DEF MembershipLoss, Requested
  <2> QED
    BY <1>8, <2>1, <2>2, <2>3 DEF MembershipLoss, StripeOK, RestOK, stripe, checkout, billing, events, jobs
<1> QED
  BY <1>1, <1>2, <1>3, <1>4, <1>5, <1>7, <1>8 DEF Member

-----------------------------------------------------------------------------
(* The invariant about what the application knows, and the steps that are  *)
(* quiet: they open no session, link no row and take no event for the      *)
(* first time, so that they keep all of it for one reason.                 *)

(* The member has one open row; the partial unique index of the table.     *)
OneOpen == \A q, r \in Open : q = r
(* The row waits for the payment of the session.                           *)
Awaits(r, s) == status[r] = "PENDING" /\ link[r] = None /\ session[r] = s
(* An open row has its session: the linked one, or one that is not done.   *)
OpenRows ==
  \A r \in Open :
    IF link[r] # None THEN session[r] = link[r]
    ELSE /\ status[r] = "PENDING" /\ session[r] # None
         /\ ses[session[r]] \in {"open", "expired"} \/ session[r] \in completed
(* A session that may still be paid, or whose payment is not known yet,    *)
(* has its row waiting, unless the row was cancelled under it.             *)
Payable ==
  \A s \in Session :
    ses[s] = "open" \/ s \in completed => status[owner[s]] = "CANCELLED" \/ Awaits(owner[s], s)
(* A Stripe subscription that bills has its event on the way, or its row   *)
(* linked, or an incident that says the row was cancelled.                 *)
LiveKnown ==
  \A s \in Session : Live(s) =>
    s \in completed \/ link[owner[s]] = s \/ (status[owner[s]] = "CANCELLED" /\ s \in incident)

Recorded == Owners /\ Evidence
Known == OneOpen /\ OpenRows /\ Payable /\ LiveKnown
IInv == TypeOK /\ Recorded /\ Known /\ PeriodCoversLedger

(* No row is linked or opened; an open row may be cancelled or follow      *)
(* Stripe.                                                                 *)
QuietRows ==
  /\ UNCHANGED <<link, session>>
  /\ \A r \in Row : \/ status'[r] = status[r]
                    \/ r \in Open /\ status'[r] = "CANCELLED"
                    \/ /\ r \in Open /\ status'[r] # "none"
                       /\ status[r] # "PENDING" \/ link[r] # None
  /\ \A r \in Row : r \notin Open => cap'[r] = cap[r] /\ period'[r] = period[r]
  /\ \A r \in Row : link[r] # None => period'[r] >= period[r]

(* No session is opened or completed, no completed event taken.            *)
QuietCheckout ==
  /\ UNCHANGED <<owner, completed>>
  /\ \A s \in Session : ses'[s] = ses[s] \/ (ses[s] = "open" /\ ses'[s] = "expired")
  /\ \A s \in ended' : s \in ended \/ ses'[s] = "expired"
  /\ swept' = swept \/ swept' = NoRow
     \/ (swept'[1] \in Row /\ swept'[2] \in Session /\ ses'[swept'[2]] = "expired")

(* No subscription starts to bill, none loses its invoices.                *)
QuietBilling ==
  /\ \A s \in Session : Live(s)' => Live(s)
  /\ \A s \in Session : Billed(s) # {} => Billed(s)' # {}

(* A payment is recorded of a linked session and moves the anchor with it. *)
QuietLedger ==
  /\ incident \subseteq incident'
  /\ \A s \in Session, t \in Period :
       \/ ledger'[s][t] = ledger[s][t]
       \/ /\ \E r \in Row : link[r] = s
          /\ ledger'[s][t] = "SUCCEEDED" => \A r \in Open : link[r] = s => period'[r] >= t
       \/ ses[s] = "complete" /\ s \notin completed /\ ledger'[s][t] # "SUCCEEDED"

(* A quiet step. *)
Quiet == QuietRows /\ QuietCheckout /\ QuietBilling /\ QuietLedger

LEMMA QuietKeepsRecorded == ASSUME RowsOK, RestOK, RestOK', Recorded, Quiet PROVE Recorded'
<1> USE DEF Quiet, QuietRows, QuietCheckout, Recorded
<1>1. \A s \in Session : (ses[s] # "none" <=> owner[s] # None)'
  BY DEF Owners
<1>2. \A r \in Row : (link[r] # None =>
       /\ owner[link[r]] = r /\ ses[link[r]] = "complete"
       /\ link[r] \notin completed /\ status[r] # "none")'
  BY DEF Owners, Open, RowsOK
<1>3. \A r \in Row : (session[r] # None => owner[session[r]] = r /\ status[r] # "none")'
  BY DEF Owners
<1>4. \A r \in Row : (status[r] # "none" => \E s \in Session : owner[s] = r)'
  BY DEF Owners, Open
<1>5. Owners'
  BY <1>1, <1>2, <1>3, <1>4 DEF Owners
<1>6. \A s \in Session : (\E t \in Period : ledger'[s][t] # "none") => ses'[s] = "complete"
  <2> SUFFICES ASSUME NEW s \in Session, NEW t \in Period, ledger'[s][t] # "none"
               PROVE  ses[s] = "complete"
    OBVIOUS
  <2>1. CASE ledger'[s][t] = ledger[s][t]
    BY <2>1 DEF Evidence
  <2>2. CASE \E r \in Row : link[r] = s
    BY <2>2, RowAndPeriod DEF Owners
  <2> QED
    BY <2>1, <2>2 DEF QuietLedger
<1>7. \A s \in Session : Live(s)' \/ s \in completed' => ses'[s] = "complete"
  BY DEF Evidence, QuietBilling
<1>8. \A s \in Session : ses'[s] = "complete" => Billed(s)' # {}
  BY DEF Evidence, QuietBilling
<1>9. \A s \in ended' : ses'[s] = "expired"
  BY DEF Evidence, RestOK
<1>10. \A s \in completed', t \in Period : ledger'[s][t] = "none"
  <2> SUFFICES ASSUME NEW s \in completed, NEW t \in Period PROVE ledger'[s][t] = "none"
    OBVIOUS
  <2>1. \A r \in Row : link[r] # s
    BY RowAndPeriod DEF Owners, RestOK
  <2> QED
    <3>1. s \in Session /\ ledger[s][t] = "none"
      BY DEF Evidence, RestOK
    <3>2. ledger'[s][t] = ledger[s][t]
      BY <2>1, <3>1 DEF QuietLedger
    <3> QED
      BY <3>1, <3>2
<1>11. swept' # NoRow => swept'[1] \in Row /\ swept'[2] \in Session /\ ses'[swept'[2]] = "expired"
  BY DEF Evidence
<1> QED
  BY <1>5, <1>6, <1>7, <1>8, <1>9, <1>10, <1>11 DEF Evidence, Live

LEMMA QuietKeepsKnown ==
  ASSUME RowsOK, RestOK, Recorded, Known, Quiet PROVE Known'
<1> USE DEF Recorded
<1>2. Open' \subseteq Open
  BY DEF Quiet, QuietRows, Open
<1>3. OneOpen'
  BY <1>2 DEF Known, OneOpen
<1>4. OpenRows'
  <2> SUFFICES ASSUME NEW r \in Open'
        PROVE (IF link[r] # None THEN session[r] = link[r]
               ELSE /\ status[r] = "PENDING" /\ session[r] # None
                    /\ ses[session[r]] \in {"open", "expired"} \/ session[r] \in completed)'
    BY DEF OpenRows
  <2>1. r \in Open /\ r \in Row /\ status'[r] \notin Terminal
    BY <1>2 DEF Open
  <2>2. CASE link[r] # None
    BY <2>1, <2>2 DEF Quiet, QuietRows, Known, OpenRows
  <2>3. CASE link[r] = None
    <3>0. status[r] = "PENDING"
      BY <2>1, <2>3 DEF Known, OpenRows
    <3>1. status'[r] = status[r]
      BY <2>1, <2>3, <3>0 DEF Quiet, QuietRows, Terminal
    <3>2. session[r] \in Session
      BY <2>1, <2>3 DEF Known, OpenRows, RowsOK
    <3> QED
      BY <2>1, <2>3, <3>1, <3>2 DEF Quiet, QuietRows, QuietCheckout, Known, OpenRows
  <2> QED
    BY <2>2, <2>3
<1>5. \A s \in Session : ses[s] # "none" => owner[s] \in Row
  BY OwnerType DEF Known
<1>6. Payable'
  <2> SUFFICES ASSUME NEW s \in Session, ses'[s] = "open" \/ s \in completed'
               PROVE  (status[owner[s]] = "CANCELLED" \/ Awaits(owner[s], s))'
    BY DEF Payable
  <2>1. ses[s] = "open" \/ s \in completed
    BY DEF Quiet, QuietCheckout
  <2>2. owner[s] \in Row /\ owner'[s] = owner[s]
    BY <1>5, <2>1 DEF Quiet, QuietCheckout, Known, Evidence
  <2> QED
    BY <2>1, <2>2 DEF Known, Payable, Awaits, Quiet, QuietRows, Open, Terminal
<1>7. LiveKnown'
  <2> SUFFICES ASSUME NEW s \in Session, Live(s)'
        PROVE (s \in completed \/ link[owner[s]] = s
               \/ (status[owner[s]] = "CANCELLED" /\ s \in incident))'
    BY DEF LiveKnown
  <2>1. Live(s)
    BY DEF Quiet, QuietBilling
  <2>2. owner[s] \in Row /\ owner'[s] = owner[s]
    BY <1>5, <2>1 DEF Quiet, QuietCheckout, Known, Evidence
  <2> QED
    BY <2>1, <2>2 DEF Known, LiveKnown, Quiet, QuietRows, QuietCheckout, QuietLedger, Open, Terminal
<1> QED
  BY <1>3, <1>4, <1>6, <1>7 DEF Known

LEMMA QuietCovers ==
  ASSUME RowsOK, RowsOK', PeriodCoversLedger, Quiet PROVE PeriodCoversLedger'
<1> SUFFICES ASSUME NEW s \in Session, NEW t \in Period, ledger'[s][t] = "SUCCEEDED",
                    NEW r \in Row, r \in Open', link'[r] = s
             PROVE  period'[r] >= t
  BY DEF PeriodCoversLedger, Linked
<1>1. r \in Open /\ link[r] = s /\ link[r] # None
  BY RowAndPeriod DEF Quiet, QuietRows, Open
<1>2. period[r] \in Nat /\ period'[r] \in Nat /\ t \in Nat
  <2>1. Period \cup {None} \subseteq Nat
    BY RowAndPeriod DEF None
  <2>2. period[r] \in Period \cup {None} /\ period'[r] \in Period \cup {None}
    BY DEF RowsOK
  <2> QED
    BY <2>1, <2>2, RowAndPeriod
<1>3. r \in Linked(s)
  BY <1>1 DEF Linked, Open
<1> QED
  BY <1>1, <1>2, <1>3 DEF Quiet, QuietRows, QuietLedger, PeriodCoversLedger

LEMMA QuietFreezes ==
  ASSUME Quiet, NEW r \in Row, IsTerminal(r)
  PROVE  status'[r] = status[r] /\ link'[r] = link[r] /\ cap'[r] = cap[r] /\ period'[r] = period[r]
BY DEF Quiet, QuietRows, Open, IsTerminal

-----------------------------------------------------------------------------
(* What the helpers of the handlers change is quiet.                       *)

LEMMA PeriodIsNat == ASSUME RowsOK, NEW r \in Row PROVE period[r] \in Nat
<1>1. Period \cup {None} \subseteq Nat
  BY RowAndPeriod DEF None
<1> QED
  BY <1>1, FieldsType

LEMMA StillRows == ASSUME RowsOK, UNCHANGED rows PROVE QuietRows
BY PeriodIsNat DEF rows, QuietRows

LEMMA StillCheckout == ASSUME UNCHANGED <<checkout, completed, ended, swept>> PROVE QuietCheckout
<1>1. ses' = ses /\ owner' = owner /\ completed' = completed /\ ended' = ended /\ swept' = swept
  BY DEF checkout
<1> QED
  BY <1>1 DEF QuietCheckout

LEMMA StillBilling == ASSUME UNCHANGED billing PROVE QuietBilling
BY DEF billing, QuietBilling, Live, Billed

LEMMA StillLedger == ASSUME UNCHANGED <<ledger, incident>> PROVE QuietLedger
BY DEF QuietLedger

LEMMA AnnounceQuiet ==
  ASSUME StripeOK, NEW s \in Session, Live(s), NEW st \in StripeStatus, NEW c, NEW p, NEW e,
         Announce(s, st, c, p, e), \A u \in Session : Billed(u) # {} => Billed(u)' # {}
  PROVE  QuietBilling
BY DEF StripeOK, Announce, Change, QuietBilling, Live

LEMMA CancelQuiet ==
  ASSUME StripeOK, NEW s \in Session, CancelAtStripe(s), UNCHANGED inv
  PROVE  QuietBilling
BY DEF StripeOK, CancelAtStripe, Announce, Change, QuietBilling, Live, Billed

LEMMA LinkedIsOwner ==
  ASSUME Owners, NEW s \in Session, NEW r \in Linked(s)
  PROVE  r \in Row /\ r = owner[s] /\ link[r] = s /\ link[r] # None
BY RowAndPeriod DEF Linked, Owners

LEMMA SetRowQuiet ==
  ASSUME RowsOK, NEW r \in Open, NEW st, NEW c, NEW p \in Nat, p >= period[r],
         SetRow(r, st, link[r], session[r], c, p),
         \/ st = status[r] \/ st = "CANCELLED"
         \/ st # "none" /\ (status[r] # "PENDING" \/ link[r] # None)
  PROVE  QuietRows
<1>1. r \in Row
  BY DEF Open
<1>2. UNCHANGED <<link, session>>
  BY <1>1 DEF SetRow, RowsOK
<1>3. \A q \in Row : q # r => status'[q] = status[q] /\ cap'[q] = cap[q] /\ period'[q] = period[q]
  BY DEF SetRow, RowsOK
<1>4. status'[r] = st /\ period'[r] = p
  BY <1>1 DEF SetRow, RowsOK
<1>5. \A q \in Row : period[q] \in Nat
  BY PeriodIsNat
<1>6. \A q \in Row : link[q] # None => period'[q] >= period[q]
  <2> TAKE q \in Row
  <2>1. CASE q = r
    BY <2>1, <1>4
  <2>2. CASE q # r
    BY <2>2, <1>3, <1>5
  <2> QED
    BY <2>1, <2>2
<1> QED
  BY <1>1, <1>2, <1>3, <1>4, <1>6 DEF QuietRows, Open

LEMMA MirrorQuiet ==
  ASSUME RowsOK, Owners, NEW m \in Payload, Mirror(m) PROVE QuietRows
<1>1. CASE UNCHANGED rows
  BY <1>1, StillRows
<1>2. CASE \E r \in Linked(m.sub) : Mirrors(r)
  <2>0. m.sub \in Session /\ m.end \in Period \cup {None}
    BY DEF Payload
  <2>1. PICK r \in Linked(m.sub) :
         SetRow(r, StatusFor(r, m), link[r], session[r], m.cap, ForwardOnly(period[r], m.end))
    BY <1>2 DEF Mirror
  <2>2. r \in Open
    BY <1>2, <2>0, LinkedIsOwner DEF Mirrors, IsTerminal, Open, Linked
  <2>3. link[r] # None /\ r \in Row
    BY <2>0, LinkedIsOwner
  <2>4. StatusFor(r, m) # "none"
    BY DEF StatusFor
  <2>5. ForwardOnly(period[r], m.end) \in Nat /\ ForwardOnly(period[r], m.end) >= period[r]
    <3>1. Period \cup {None} \subseteq Nat
      BY RowAndPeriod DEF None
    <3> QED
      BY <3>1, <2>0, <2>3, FieldsType, ForwardType
  <2> QED
    BY <2>1, <2>2, <2>3, <2>4, <2>5, SetRowQuiet
<1> QED
  BY <1>1, <1>2 DEF Mirror

LEMMA RecordQuiet ==
  ASSUME RowsOK, RestOK, Owners, NEW s \in Session, NEW r \in Linked(s), NEW t \in Period \cup {None},
         RecordPaid(r, s, t)
  PROVE  QuietRows /\ QuietLedger
<1>1. r \in Row /\ link[r] = s /\ link[r] # None /\ status[r] # "none"
  BY LinkedIsOwner DEF Linked
<1>2. Period \cup {None} \subseteq Nat
  BY RowAndPeriod DEF None
<1>3. /\ ForwardOnly(period[r], t) \in Nat /\ ForwardOnly(period[r], t) >= period[r]
      /\ ForwardOnly(period[r], t) >= t
  BY <1>1, <1>2, FieldsType, ForwardType
<1>4. QuietRows
  <2>1. CASE IsTerminal(r)
    BY <2>1, StillRows DEF RecordPaid
  <2>2. CASE ~IsTerminal(r)
    <3>1. r \in Open
      BY <2>2, <1>1 DEF Open, IsTerminal
    <3>2. \E st \in {status[r], "ACTIVE"} :
            SetRow(r, st, link[r], session[r], cap[r], ForwardOnly(period[r], t))
      BY <2>2, <1>1 DEF RecordPaid
    <3> QED
      BY <3>1, <3>2, <1>1, <1>3, SetRowQuiet
  <2> QED
    BY <2>1, <2>2
<1>5. QuietLedger
  <2>1. incident \subseteq incident'
    BY DEF RecordPaid
  <2>2. \A u \in Session, v \in Period : u # s \/ v # t => ledger'[u][v] = ledger[u][v]
    BY DEF RecordPaid, RestOK, Ledger
  <2>3. \A q \in Open : link[q] = s => period'[q] >= t
    <3> SUFFICES ASSUME NEW q \in Open, link[q] = s PROVE period'[q] >= t
      OBVIOUS
    <3>1. q = r
      BY <1>1, LinkedIsOwner DEF Open, Linked
    <3>2. ~IsTerminal(r)
      BY <3>1 DEF Open, IsTerminal
    <3>3. period'[r] = ForwardOnly(period[r], t)
      BY <3>2, <1>1 DEF RecordPaid, SetRow, RowsOK
    <3> QED
      BY <3>1, <3>3, <1>3
  <2> QED
    BY <1>1, <2>1, <2>2, <2>3 DEF QuietLedger
<1> QED
  BY <1>4, <1>5

-----------------------------------------------------------------------------
(* The webhooks other than the first completed event are quiet; a          *)
(* completed event delivered again is so when its session is still the     *)
(* row's own.                                                              *)

LEMMA RedeliveryQuiet ==
  ASSUME RowsOK, RestOK, Recorded, Known, NEW s \in Session, ses[s] = "complete",
         s \notin completed, session[owner[s]] = s, OnCompleted(s)
  PROVE  QuietRows /\ QuietLedger
<1> USE DEF Recorded
<1>1. owner[s] \in Row
  BY OwnerType
<1>2. CASE Alarm(s) /\ UNCHANGED <<rows, ledger>>
  BY <1>2, StillRows DEF Alarm, QuietLedger
<1>3. CASE status[owner[s]] # "none" /\ ~IsTerminal(owner[s]) /\ Link(owner[s], s)
  <2>1. owner[s] \in Open
    BY <1>1, <1>3 DEF Open, IsTerminal
  <2>2. link[owner[s]] = s
    BY <2>1 DEF Known, OpenRows
  <2>3. owner[s] \in Linked(s)
    BY <1>1, <1>3, <2>2 DEF Linked
  <2>4. FirstInvoice(s) \in Period
    BY BilledEnds DEF Evidence, Billed
  <2>5. CASE RecordPaid(owner[s], s, FirstInvoice(s))
    BY <2>3, <2>4, <2>5, RecordQuiet
  <2>6. CASE /\ SetRow(owner[s], status[owner[s]], s, session[owner[s]], cap[owner[s]],
                       period[owner[s]])
             /\ UNCHANGED <<ledger, incident>>
    <3>1. period[owner[s]] \in Nat /\ period[owner[s]] >= period[owner[s]]
      BY <1>1, PeriodIsNat
    <3>2. QuietRows
      BY <2>1, <2>2, <2>6, <3>1, SetRowQuiet
    <3> QED
      BY <2>6, <3>2, StillLedger
  <2> QED
    BY <1>3, <2>5, <2>6 DEF Link
<1> QED
  BY <1>2, <1>3 DEF OnCompleted

LEMMA QuietWebhook ==
  ASSUME RowsOK, StripeOK, RestOK, Recorded,
         \/ \E s \in Session, t \in Period :
              InvoicePaid(s, t) \/ InvoiceFailed(s, t) \/ ChargeRefunded(s, t) \/ RefundRedelivered(s, t)
         \/ \E m \in updates : SubscriptionEvent(m)
  PROVE  Quiet
<1> USE DEF Quiet, Recorded
<1>2. ASSUME NEW s \in Session, NEW t \in Period, InvoicePaid(s, t) PROVE Quiet
  <2>1. UNCHANGED <<checkout, billing, completed, ended, swept>>
    BY <1>2 DEF InvoicePaid, stripe, jobs
  <2>2. CASE UNCHANGED <<rows, ledger, incident>>
    BY <2>1, <2>2, StillRows, StillCheckout, StillBilling, StillLedger
  <2>3. CASE \E r \in Linked(s) : RecordPaid(r, s, t)
    BY <2>1, <2>3, RecordQuiet, StillCheckout, StillBilling
  <2> QED
    BY <1>2, <2>2, <2>3 DEF InvoicePaid
<1>3. ASSUME NEW s \in Session, NEW t \in Period, InvoiceFailed(s, t) PROVE Quiet
  <2>1. UNCHANGED <<checkout, billing, completed, ended, swept, incident>>
    BY <1>3 DEF InvoiceFailed, stripe, jobs
  <2>2. CASE UNCHANGED <<rows, ledger>>
    BY <2>1, <2>2, StillRows, StillCheckout, StillBilling, StillLedger
  <2>3. CASE ~UNCHANGED <<rows, ledger>>
    <3>1. PICK r \in Linked(s) :
            /\ ledger' = [ledger EXCEPT ![s][t] = "FAILED"]
            /\ status' = IF status[r] \in {"ACTIVE", "PENDING"}
                         THEN [status EXCEPT ![r] = "PAST_DUE"] ELSE status
            /\ UNCHANGED <<link, session, cap, period>>
      BY <1>3, <2>3 DEF InvoiceFailed
    <3>2. r \in Row /\ link[r] = s /\ link[r] # None
      BY LinkedIsOwner
    <3>3. \A q \in Row : \/ status'[q] = status[q]
                         \/ q = r /\ status[r] \in {"ACTIVE", "PENDING"} /\ status'[r] = "PAST_DUE"
      BY <3>1, <3>2 DEF RowsOK
    <3>4. QuietRows
      BY <3>1, <3>2, <3>3, PeriodIsNat DEF QuietRows, Open, Terminal
    <3>5. \A u \in Session, v \in Period :
            ledger'[u][v] = ledger[u][v] \/ (u = s /\ ledger'[u][v] = "FAILED")
      BY <3>1 DEF RestOK, Ledger
    <3>6. QuietLedger
      BY <2>1, <3>2, <3>5 DEF QuietLedger
    <3> QED
      BY <2>1, <3>4, <3>6, StillCheckout, StillBilling
  <2> QED
    BY <2>2, <2>3
<1>4. ASSUME NEW s \in Session, NEW t \in Period, ChargeRefunded(s, t) PROVE Quiet
  <2>1. UNCHANGED <<checkout, billing, completed, ended, swept, incident>>
    BY <1>4 DEF ChargeRefunded, stripe, jobs
  <2>2. CASE UNCHANGED <<rows, ledger>>
    BY <2>1, <2>2, StillRows, StillCheckout, StillBilling, StillLedger
  <2>3. CASE ledger[s][t] # "none" /\ ledger' = [ledger EXCEPT ![s][t] = "REFUNDED"]
    <3>1. ses[s] = "complete" /\ s \notin completed
      BY <2>3 DEF Evidence
    <3>2. \A u \in Session, v \in Period :
            ledger'[u][v] = ledger[u][v] \/ (u = s /\ ledger'[u][v] = "REFUNDED")
      BY <2>3 DEF RestOK, Ledger
    <3>3. QuietLedger
      BY <2>1, <3>1, <3>2 DEF QuietLedger
    <3>4. QuietRows
      <4>1. CASE UNCHANGED rows
        BY <4>1, StillRows
      <4>2. CASE link[owner[s]] = s /\ ~IsTerminal(owner[s]) /\ Terminalize(owner[s], "CANCELLED", FALSE)
        <5>1. owner[s] \in Row
          BY <3>1, OwnerType
        <5>2. owner[s] \in Open
          BY <5>1, <4>2, RowAndPeriod DEF Owners, Open, IsTerminal
        <5>3. period[owner[s]] \in Nat /\ period[owner[s]] >= period[owner[s]]
          BY <5>1, PeriodIsNat
        <5> QED
          BY <4>2, <5>2, <5>3, SetRowQuiet DEF Terminalize
      <4> QED
        BY <1>4, <2>3, <4>1, <4>2 DEF ChargeRefunded
    <3> QED
      BY <2>1, <3>3, <3>4, StillCheckout, StillBilling
  <2> QED
    BY <1>4, <2>2, <2>3 DEF ChargeRefunded
<1>5. ASSUME NEW s \in Session, NEW t \in Period, RefundRedelivered(s, t) PROVE Quiet
  <2>1. UNCHANGED <<rows, checkout, billing, completed, ended, swept, ledger, incident>>
    BY <1>5 DEF RefundRedelivered, stripe, events, jobs
  <2> QED
    BY <2>1, StillRows, StillCheckout, StillBilling, StillLedger
<1>6. ASSUME NEW m \in updates, SubscriptionEvent(m) PROVE Quiet
  <2>1. UNCHANGED <<checkout, billing, completed, ended, swept, ledger, incident>>
    BY <1>6 DEF SubscriptionEvent, stripe, jobs
  <2>2. QuietRows
    BY <1>6, MirrorQuiet DEF SubscriptionEvent, StripeOK
  <2> QED
    BY <2>1, <2>2, StillCheckout, StillBilling, StillLedger
<1> QED
  BY <1>2, <1>3, <1>4, <1>5, <1>6

LEMMA QuietRedelivery ==
  ASSUME RowsOK, RestOK, Recorded, Known, ~LateRedelivery, NEW s \in Session, CheckoutRedelivered(s)
  PROVE  Quiet
<1>1. UNCHANGED <<checkout, billing, completed, ended, swept>>
  BY DEF CheckoutRedelivered, stripe, events, jobs
<1>2. QuietRows /\ QuietLedger
  BY RedeliveryQuiet DEF CheckoutRedelivered
<1> QED
  BY <1>1, <1>2, StillCheckout, StillBilling DEF Quiet

-----------------------------------------------------------------------------
(* Stripe's own steps but a payment, the calls after a commit and the jobs *)
(* but the sweep's second step are quiet.                                  *)

LEMMA QuietStripe ==
  ASSUME RowsOK, StripeOK, RestOK, Recorded,
         \/ Tick
         \/ \E s \in Session : SessionExpires(s) \/ Renew(s) \/ Retry(s)
         \/ \E s \in Session, t \in Period : DashboardRefund(s, t)
         \/ \E m \in updates : LoseUpdate(m)
  PROVE  Quiet
<1> USE DEF Quiet, Recorded
<1>1. CASE Tick
  <2>1. UNCHANGED <<rows, checkout, billing, completed, ended, swept, ledger, incident>>
    BY <1>1 DEF Tick, events, jobs
  <2> QED
    BY <2>1, StillRows, StillCheckout, StillBilling, StillLedger
<1>2. ASSUME NEW s \in Session, SessionExpires(s) PROVE Quiet
  <2>1. UNCHANGED <<rows, billing, ledger, incident>>
    BY <1>2 DEF SessionExpires
  <2>2. QuietCheckout
    BY <1>2 DEF SessionExpires, QuietCheckout, RestOK, jobs
  <2> QED
    BY <2>1, <2>2, StillRows, StillBilling, StillLedger
<1>3. ASSUME NEW s \in Session, NEW t, NEW x, x # "none", inv' = inv \/ inv' = [inv EXCEPT ![s][t] = x]
      PROVE  \A u \in Session : Billed(u) # {} => Billed(u)' # {}
  BY <1>3 DEF RestOK, Billed
<1>4. ASSUME NEW s \in Session, Renew(s) PROVE Quiet
  <2>1. UNCHANGED <<rows, checkout, completed, ended, swept, ledger, incident>>
    BY <1>4 DEF Renew, jobs
  <2>2. Live(s)
    BY <1>4 DEF Renew, Live
  <2>3. QuietBilling
    <3>1. CASE CancelAtStripe(s) /\ UNCHANGED inv
      BY <3>1, CancelQuiet
    <3>2. ASSUME NEW st \in {"active", "past_due"}, NEW p \in BOOLEAN, NEW x \in {"paid", "open"},
                 Announce(s, st, FALSE, p, send[s] + 1),
                 inv' = inv \/ inv' = [inv EXCEPT ![s][send[s] + 1] = x]
          PROVE  QuietBilling
      <4>1. \A u \in Session : Billed(u) # {} => Billed(u)' # {}
        BY <1>3, <3>2
      <4>2. st \in StripeStatus
        BY DEF StripeStatus
      <4> QED
        BY <2>2, <3>2, <4>1, <4>2, AnnounceQuiet
    <3> QED
      BY <1>4, <3>1, <3>2 DEF Renew
  <2> QED
    BY <2>1, <2>3, StillRows, StillCheckout, StillLedger
<1>5. ASSUME NEW s \in Session, Retry(s) PROVE Quiet
  <2>1. UNCHANGED <<rows, checkout, completed, ended, swept, ledger, incident>>
    BY <1>5 DEF Retry, jobs
  <2>2. Live(s) /\ "active" \in StripeStatus
    BY <1>5 DEF Retry, Live, StripeStatus
  <2>3. QuietBilling
    <3>1. CASE CancelAtStripe(s) /\ UNCHANGED inv
      BY <3>1, CancelQuiet
    <3>2. CASE /\ Announce(s, "active", held[s], paused[s], send[s])
               /\ inv' = [inv EXCEPT ![s][LatestInvoice(s)] = "paid"]
      <4>1. \A u \in Session : Billed(u) # {} => Billed(u)' # {}
        BY <1>3, <3>2
      <4> QED
        BY <2>2, <3>2, <4>1, AnnounceQuiet
    <3> QED
      BY <1>5, <3>1, <3>2 DEF Retry
  <2> QED
    BY <2>1, <2>3, StillRows, StillCheckout, StillLedger
<1>6. ASSUME NEW s \in Session, NEW t \in Period, DashboardRefund(s, t) PROVE Quiet
  <2>1. UNCHANGED <<rows, checkout, completed, ended, swept, ledger, incident>>
    BY <1>6 DEF DashboardRefund, jobs
  <2>2. QuietBilling
    BY <1>3, <1>6 DEF DashboardRefund, QuietBilling, Live
  <2> QED
    BY <2>1, <2>2, StillRows, StillCheckout, StillLedger
<1>7. ASSUME NEW m \in updates, LoseUpdate(m) PROVE Quiet
  <2>1. UNCHANGED <<rows, checkout, billing, completed, ended, swept, ledger, incident>>
    BY <1>7 DEF LoseUpdate, jobs
  <2> QED
    BY <2>1, StillRows, StillCheckout, StillBilling, StillLedger
<1> QED
  BY <1>1, <1>2, <1>4, <1>5, <1>6, <1>7

LEMMA QuietPostCalls ==
  ASSUME RowsOK, StripeOK, RestOK, Recorded, PostCalls
  PROVE  Quiet
<1> USE DEF Quiet, Recorded
<1>1. ASSUME NEW s \in Session, Close(s) PROVE Quiet
  <2>1. UNCHANGED <<rows, checkout, completed, ended, swept, ledger, incident, inv>>
    BY <1>1 DEF Close, jobs
  <2>2. QuietBilling
    BY <1>1, <2>1, CancelQuiet, StillBilling DEF Close, billing
  <2> QED
    BY <2>1, <2>2, StillRows, StillCheckout, StillLedger
<1>2. ASSUME NEW s \in Session, ExpireLater(s) PROVE Quiet
  <2>1. UNCHANGED <<rows, billing>>
    BY <1>2 DEF ExpireLater
  <2>2. QuietCheckout
    BY <1>2 DEF ExpireLater, ExpireSession, QuietCheckout, RestOK, jobs
  <2>3. QuietLedger
    BY <1>2 DEF ExpireLater, QuietLedger
  <2> QED
    BY <2>1, <2>2, <2>3, StillRows, StillBilling
<1>3. CASE PostCallLost
  <2>1. UNCHANGED <<rows, checkout, billing, completed, ended, swept, ledger, incident>>
    BY <1>3 DEF PostCallLost, stripe, events, jobs
  <2> QED
    BY <2>1, StillRows, StillCheckout, StillBilling, StillLedger
<1> QED
  BY <1>1, <1>2, <1>3 DEF PostCalls

LEMMA QuietJobs ==
  ASSUME RowsOK, StripeOK, RestOK, Recorded, ExpiryJob \/ Reconcile \/ \E r \in Row : SweepReads(r)
  PROVE  Quiet
<1> USE DEF Quiet, Recorded
<1>0. ASSUME NEW r \in Open, Over(r) \/ GraceOver(r),
             \E st \in {"CANCELLED", "EXPIRED", "PAST_DUE"}, c \in BOOLEAN :
               SetRow(r, st, link[r], session[r], c, period[r]),
             status[r] # "PENDING"
      PROVE  QuietRows
  <2>1. r \in Row
    BY DEF Open
  <2>2. period[r] \in Nat /\ period[r] >= period[r]
    BY <2>1, PeriodIsNat
  <2> QED
    BY <1>0, <2>1, <2>2, SetRowQuiet
<1>1. ASSUME NEW r \in Row, LapseActive(r) PROVE Quiet
  <2>1. UNCHANGED <<checkout, billing, completed, ended, swept, ledger, incident>>
    BY <1>1 DEF LapseActive, stripe, events
  <2>2. r \in Open /\ status[r] # "PENDING" /\ cap[r] \in BOOLEAN
    BY <1>1, FieldsType DEF LapseActive, Open, Terminal
  <2>3. QuietRows
    BY <1>1, <1>0, <2>2 DEF LapseActive, Terminalize
  <2> QED
    BY <2>1, <2>3, StillCheckout, StillBilling, StillLedger
<1>2. ASSUME NEW r \in Row, ExpirePastDue(r) PROVE Quiet
  <2>1. UNCHANGED <<checkout, billing, completed, ended, swept, ledger, incident>>
    BY <1>2 DEF ExpirePastDue, stripe, events, jobs
  <2>2. r \in Open /\ status[r] # "PENDING" /\ cap[r] \in BOOLEAN
    BY <1>2, FieldsType DEF ExpirePastDue, Open, Terminal
  <2>3. QuietRows
    BY <1>2, <1>0, <2>2 DEF ExpirePastDue, Terminalize
  <2> QED
    BY <2>1, <2>3, StillCheckout, StillBilling, StillLedger
<1>3. CASE ExpiryJobEnds
  <2>1. UNCHANGED <<rows, checkout, billing, completed, ended, swept, ledger, incident>>
    BY <1>3 DEF ExpiryJobEnds, stripe, events
  <2> QED
    BY <2>1, StillRows, StillCheckout, StillBilling, StillLedger
<1>4. ASSUME NEW r \in Row, SweepReads(r) PROVE Quiet
  <2>1. UNCHANGED <<rows, checkout, billing, completed, ended, ledger>>
    BY <1>4 DEF SweepReads, stripe, events
  <2>2. QuietLedger
    BY <1>4, <2>1 DEF SweepReads, Alarm, QuietLedger
  <2>3. QuietCheckout
    <3>1. session[r] \in Session
      BY <1>4, FieldsType DEF SweepReads
    <3>2. swept' = swept \/ (swept' = <<r, session[r]>> /\ ses[session[r]] = "expired")
      BY <1>4 DEF SweepReads, Dead
    <3> QED
      BY <2>1, <3>1, <3>2 DEF QuietCheckout, checkout
  <2> QED
    BY <2>1, <2>2, <2>3, StillRows, StillBilling
<1>5. ASSUME NEW r \in Row, ReconcileReads(r) PROVE Quiet
  <2>1. UNCHANGED <<rows, checkout, billing, completed, ended, swept, ledger, incident>>
    BY <1>5 DEF ReconcileReads, stripe, events
  <2> QED
    BY <2>1, StillRows, StillCheckout, StillBilling, StillLedger
<1>6. CASE ReconcileSyncs
  <2>0. recon.seen \in Payload /\ recon.seen.sub \in Session
    BY DEF RestOK, Read, Payload
  <2>1. UNCHANGED <<checkout, completed, ended, swept, ledger, incident, inv>>
    BY <1>6 DEF ReconcileSyncs
  <2>2. QuietRows
    BY <1>6, <2>0, MirrorQuiet DEF ReconcileSyncs
  <2>3. QuietBilling
    <3>1. CASE CancelAtStripe(recon.seen.sub)
      BY <2>0, <2>1, <3>1, CancelQuiet
    <3>2. CASE UNCHANGED <<sub, held, paused, send, updates>>
      BY <2>1, <3>2, StillBilling DEF billing
    <3> QED
      BY <1>6, <3>1, <3>2 DEF ReconcileSyncs
  <2> QED
    BY <2>1, <2>2, <2>3, StillCheckout, StillLedger
<1>7. CASE ReconcileRecords
  <2>0. recon.seen.sub \in Session /\ recon.invoice \in Period \cup {None}
    BY DEF RestOK, Read, Payload
  <2>1. UNCHANGED <<checkout, billing, completed, ended, swept>>
    BY <1>7 DEF ReconcileRecords, stripe, events
  <2>2. CASE UNCHANGED <<rows, ledger, incident>>
    BY <2>1, <2>2, StillRows, StillCheckout, StillBilling, StillLedger
  <2>3. CASE \E r \in Linked(recon.seen.sub) : RecordPaid(r, recon.seen.sub, recon.invoice)
    BY <2>0, <2>1, <2>3, RecordQuiet, StillCheckout, StillBilling
  <2> QED
    BY <1>7, <2>2, <2>3 DEF ReconcileRecords
<1> QED
  BY <1>1, <1>2, <1>3, <1>4, <1>5, <1>6, <1>7 DEF ExpiryJob, Reconcile

-----------------------------------------------------------------------------
(* Requests that open no session are quiet.                                *)

LEMMA QuietMember ==
  ASSUME RowsOK, StripeOK, RestOK, Recorded,
         \/ \E r \in Row : CancelNow(r) \/ ScheduleCancel(r) \/ Uncancel(r) \/ Pause(r) \/ Resume(r)
                           \/ MembershipLoss(r)
         \/ \E r \in Row, s \in Session : Revive(r, s) /\ UNCHANGED <<rows, checkout>>
  PROVE  Quiet
<1> USE DEF Quiet, Recorded
<1>0. ASSUME NEW r \in Open, NEW st, NEW c,
             Commits(SetRow(r, st, link[r], session[r], c, period[r]))
             \/ SetRow(r, st, link[r], session[r], c, period[r]),
             st = status[r] \/ st = "CANCELLED" \/ (link[r] # None /\ st # "none")
      PROVE  QuietRows
  <2>1. period[r] \in Nat /\ period[r] >= period[r]
    BY PeriodIsNat DEF Open
  <2>2. CASE SetRow(r, st, link[r], session[r], c, period[r])
    BY <1>0, <2>1, <2>2, SetRowQuiet
  <2>3. CASE UNCHANGED rows
    BY <2>3, StillRows
  <2> QED
    BY <1>0, <2>2, <2>3 DEF Commits
<1>1. ASSUME NEW r \in Row, CancelNow(r) PROVE Quiet
  <2>1. r \in Open /\ UNCHANGED <<ledger, incident, owner, inv, completed, jobs>>
        /\ Commits(SetRow(r, "CANCELLED", link[r], session[r], FALSE, period[r]))
    BY <1>1 DEF CancelNow
  <2>2. QuietRows
    BY <2>1, <1>0
  <2>3. QuietBilling
    <3>1. CASE link[r] # None /\ CancelAtStripe(link[r])
      BY <2>1, <3>1, CancelQuiet, FieldsType
    <3>2. CASE UNCHANGED <<sub, held, paused, send, updates>>
      BY <2>1, <3>2, StillBilling DEF billing
    <3> QED
      BY <1>1, <3>1, <3>2 DEF CancelNow
  <2>4. QuietCheckout
    <3>1. swept' = swept
      BY <2>1 DEF jobs
    <3>2. CASE UNCHANGED <<ses, ended>>
      BY <2>1, <3>1, <3>2, StillCheckout DEF checkout
    <3>3. CASE ExpireSession(session[r])
      BY <2>1, <3>1, <3>3, FieldsType DEF ExpireSession, QuietCheckout, RestOK
    <3> QED
      BY <1>1, <3>2, <3>3 DEF CancelNow
  <2> QED
    BY <2>1, <2>2, <2>3, <2>4, StillLedger
<1>2. ASSUME NEW r \in Row, ScheduleCancel(r) PROVE Quiet
  <2>1. r \in Open /\ UNCHANGED <<ledger, incident, checkout, inv, completed, ended, swept>>
        /\ Commits(SetRow(r, status[r], link[r], session[r], TRUE, period[r]))
        /\ link[r] \in Session
    BY <1>2, FieldsType DEF ScheduleCancel, jobs
  <2>2. QuietRows
    BY <2>1, <1>0
  <2>3. QuietBilling
    <3>1. CASE Live(link[r]) /\ Announce(link[r], sub[link[r]], TRUE, paused[link[r]], send[link[r]])
      <4>1. sub[link[r]] \in StripeStatus
        BY <2>1 DEF StripeOK
      <4>2. \A u \in Session : Billed(u) # {} => Billed(u)' # {}
        BY <2>1 DEF Billed
      <4> QED
        BY <2>1, <3>1, <4>1, <4>2, AnnounceQuiet
    <3>2. CASE UNCHANGED <<sub, held, paused, send, updates>>
      BY <2>1, <3>2, StillBilling DEF billing
    <3> QED
      BY <1>2, <3>1, <3>2 DEF ScheduleCancel
  <2> QED
    BY <2>1, <2>2, <2>3, StillCheckout, StillLedger
<1>3. ASSUME NEW r \in Row, NEW c, NEW p, NEW st, NEW d, st # "none",
             AtStripeFirst(r, c, p, SetRow(r, st, link[r], session[r], d, period[r]))
      PROVE  Quiet
  <2>1. r \in Open /\ UNCHANGED <<ledger, incident, checkout, inv, completed, ended, swept>>
        /\ Commits(SetRow(r, st, link[r], session[r], d, period[r]))
        /\ link[r] # None /\ link[r] \in Session /\ Live(link[r])
        /\ Announce(link[r], sub[link[r]], c, p, send[link[r]])
    BY <1>3, FieldsType DEF AtStripeFirst, jobs
  <2>2. QuietRows
    BY <1>3, <2>1, <1>0
  <2>3. QuietBilling
    <3>1. sub[link[r]] \in StripeStatus
      BY <2>1 DEF StripeOK
    <3>2. \A u \in Session : Billed(u) # {} => Billed(u)' # {}
      BY <2>1 DEF Billed
    <3> QED
      BY <2>1, <3>1, <3>2, AnnounceQuiet
  <2> QED
    BY <2>1, <2>2, <2>3, StillCheckout, StillLedger
<1>4. ASSUME NEW r \in Row, Uncancel(r) PROVE Quiet
  <2>1. AtStripeFirst(r, FALSE, paused[link[r]],
                      SetRow(r, status[r], link[r], session[r], FALSE, period[r]))
    BY <1>4 DEF Uncancel
  <2>2. status[r] # "none"
    BY <2>1 DEF AtStripeFirst, Open
  <2> QED
    BY <1>3, <2>1, <2>2
<1>5. ASSUME NEW r \in Row, Pause(r) PROVE Quiet
  BY <1>3, <1>5 DEF Pause
<1>6. ASSUME NEW r \in Row, Resume(r) PROVE Quiet
  BY <1>3, <1>6 DEF Resume
<1>7. ASSUME NEW r \in Row, MembershipLoss(r) PROVE Quiet
  <2>1. UNCHANGED <<checkout, billing, completed, ended, swept, ledger, incident>>
    BY <1>7 DEF MembershipLoss, stripe, events, jobs
  <2>2. QuietRows
    BY <1>0, <1>7 DEF MembershipLoss
  <2> QED
    BY <2>1, <2>2, StillCheckout, StillBilling, StillLedger
<1>8. ASSUME NEW r \in Row, NEW s \in Session, Revive(r, s), UNCHANGED <<rows, checkout>> PROVE Quiet
  <2>1. UNCHANGED <<rows, checkout, completed, ended, swept, ledger, incident, inv>>
    BY <1>8 DEF Revive, jobs
  <2>2. QuietBilling
    <3>1. CASE link[r] # None /\ CancelAtStripe(link[r])
      BY <2>1, <3>1, CancelQuiet, FieldsType
    <3>2. CASE UNCHANGED <<billing, updates>>
      BY <3>2, StillBilling
    <3> QED
      BY <1>8, <3>1, <3>2 DEF Revive
  <2> QED
    BY <2>1, <2>2, StillRows, StillCheckout, StillLedger
<1> QED
  BY <1>1, <1>2, <1>4, <1>5, <1>6, <1>7, <1>8

-----------------------------------------------------------------------------
(* The steps that are not quiet, one by one: a payment, a session found    *)
(* expired, a completed event.                                             *)

(* A terminal row keeps its fields, or is revived, an expired one only.    *)
Frozen ==
  \A r \in Row : IsTerminal(r) =>
       \/ /\ status'[r] = status[r] /\ link'[r] = link[r]
          /\ cap'[r] = cap[r] /\ period'[r] = period[r]
       \/ /\ status[r] = "EXPIRED" /\ status'[r] = "PENDING" /\ link'[r] = None
          /\ ses'[session'[r]] = "open" /\ Open = {}

LEMMA SameRowsFrozen == ASSUME UNCHANGED rows PROVE Frozen
BY DEF rows, Frozen

(* Paying a session puts its completed event on the way.                   *)
LEMMA PayKeeps ==
  ASSUME RowsOK, StripeOK, RestOK, Recorded, NEW s \in Session, Pay(s)
  PROVE  Recorded' /\ (Known => Known')
<1> USE DEF Recorded
<1>1. /\ ses[s] = "open" /\ ses' = [ses EXCEPT ![s] = "complete"] /\ completed' = completed \cup {s}
      /\ inv' = [inv EXCEPT ![s][now + 1] = "paid"] /\ now + 1 \in Period
      /\ sub' = [sub EXCEPT ![s] = "active"]
      /\ UNCHANGED <<owner, status, link, session, cap, period, ledger, incident, ended, swept>>
  BY ClockType DEF Pay, Change, rows, jobs
<1>2. \A u \in Session : ses'[u] = IF u = s THEN "complete" ELSE ses[u]
  BY <1>1 DEF RestOK
<1>3. \A u \in Session : Live(u)' => Live(u) \/ u = s
  BY <1>1 DEF Live, StripeOK
<1>4. \A u \in Session : Billed(u) # {} \/ u = s => Billed(u)' # {}
  <2> SUFFICES ASSUME NEW u \in Session, Billed(u) # {} \/ u = s PROVE Billed(u)' # {}
    OBVIOUS
  <2>1. CASE u = s
    BY <1>1, <2>1 DEF Billed, RestOK
  <2>2. CASE u # s
    BY <1>1, <2>2 DEF Billed, RestOK
  <2> QED
    BY <2>1, <2>2
<1>5. \A r \in Row : link[r] # s /\ (link[r] # None => link[r] \in Session)
  BY <1>1, RowAndPeriod DEF Owners, RowsOK
<1>6. Owners'
  BY <1>1, <1>2, <1>5, FieldsType DEF Owners
<1>7. Evidence'
  <2>1. \A u \in Session, t \in Period : ledger[u][t] # "none" => ses[u] = "complete"
    BY DEF Evidence
  <2>2. \A u \in Session : Live(u)' \/ u \in completed' \/ (\E t \in Period : ledger'[u][t] # "none")
                             => ses'[u] = "complete"
    BY <1>1, <1>2, <1>3, <2>1 DEF Evidence
  <2>3. \A u \in Session : ses'[u] = "complete" => Billed(u)' # {}
    BY <1>2, <1>4 DEF Evidence
  <2>4. \A u \in ended' : ses'[u] = "expired"
    BY <1>1, <1>2 DEF Evidence, RestOK
  <2>5. \A u \in completed', t \in Period : ledger'[u][t] = "none"
    BY <1>1, <2>1 DEF Evidence
  <2>6. swept' # NoRow => swept'[1] \in Row /\ swept'[2] \in Session /\ ses'[swept'[2]] = "expired"
    BY <1>1, <1>2 DEF Evidence
  <2> QED
    BY <2>2, <2>3, <2>4, <2>5, <2>6 DEF Evidence, Live
<1>8. ASSUME Known PROVE Known'
  <2> USE <1>8 DEF Known
  <2>1. OneOpen'
    BY <1>1 DEF OneOpen, Open
  <2>2. OpenRows'
    BY <1>1, <1>2, FieldsType DEF OpenRows, Open
  <2>3. Payable'
    BY <1>1, <1>2 DEF Payable, Awaits
  <2>4. LiveKnown'
    BY <1>1, <1>3 DEF LiveKnown
  <2> QED
    BY <2>1, <2>2, <2>3, <2>4
<1> QED
  BY <1>6, <1>7, <1>8

(* A pending checkout whose session is dead is cleared. *)
(* A row whose session has expired is taken back.                          *)
LEMMA ClearKeeps ==
  ASSUME RowsOK, StripeOK, RestOK, Recorded, NEW r \in Row, NEW s \in Session,
         Awaits(r, s), ses[s] = "expired", ClearPending(r),
         UNCHANGED <<ses, owner, completed, sub, inv, ledger, incident>>,
         ended' \subseteq ended, swept' \in {swept, NoRow}
  PROVE  Recorded' /\ Frozen /\ (Known => Known')
<1> USE DEF Recorded
<1>1. r \in Open /\ status[r] = "PENDING" /\ link[r] = None /\ session[r] = s
  BY DEF Awaits, Open, Terminal
<1>2. /\ \A q \in Row : q # r => /\ status'[q] = status[q] /\ link'[q] = link[q]
                                 /\ session'[q] = session[q] /\ cap'[q] = cap[q]
                                 /\ period'[q] = period[q]
      /\ status'[r] \in {"EXPIRED", "none"} /\ link'[r] = None /\ session'[r] = None
  BY <1>1 DEF ClearPending, SetRow, RowsOK
<1>3. Open' \subseteq Open \ {r}
  BY <1>2 DEF Open, Terminal
<1>4. \A u \in Session : (ses[u] = "open" \/ u \in completed \/ Live(u)) => owner[u] \in Row
  BY OwnerType DEF Evidence
<1>6. Owners'
  <2>1. \A q \in Row : (link[q] # None => /\ owner[link[q]] = q /\ ses[link[q]] = "complete"
                                          /\ link[q] \notin completed /\ status[q] # "none")'
    BY <1>2 DEF Owners
  <2>2. \A q \in Row : (session[q] # None => owner[session[q]] = q /\ status[q] # "none")'
    BY <1>2 DEF Owners
  <2>3. \A q \in Row : (status[q] # "none" => \E u \in Session : owner[u] = q)'
    BY <1>1, <1>2 DEF Owners
  <2> QED
    BY <2>1, <2>2, <2>3 DEF Owners
<1>7. Evidence'
  BY DEF Evidence, Live, Billed
<1>8. Frozen
  BY <1>1, <1>2 DEF Frozen, IsTerminal, Terminal
<1>9. ASSUME Known PROVE Known'
  <2> USE <1>9 DEF Known
  <2>1. OneOpen' /\ OpenRows'
    BY <1>2, <1>3 DEF OneOpen, OpenRows, Open
  <2>2. \A u \in Session : ses[u] = "open" \/ u \in completed => owner[u] # r
    BY <1>1, RowAndPeriod DEF Payable, Awaits, Evidence
  <2>3. Payable'
    <3> SUFFICES ASSUME NEW u \in Session, ses[u] = "open" \/ u \in completed
                 PROVE  (status[owner[u]] = "CANCELLED" \/ Awaits(owner[u], u))'
      BY DEF Payable
    <3> QED
      BY <1>2, <1>4, <2>2 DEF Payable, Awaits
  <2>4. LiveKnown'
    <3> SUFFICES ASSUME NEW u \in Session, Live(u)
                 PROVE  (u \in completed \/ link[owner[u]] = u
                         \/ (status[owner[u]] = "CANCELLED" /\ u \in incident))'
      BY DEF LiveKnown, Live
    <3>1. u \in completed \/ link[owner[u]] = u \/ (status[owner[u]] = "CANCELLED" /\ u \in incident)
      BY DEF LiveKnown
    <3>2. u # None /\ owner[u] \in Row
      BY <1>4, RowAndPeriod
    <3>3. CASE owner[u] = r
      BY <1>1, <3>1, <3>2, <3>3
    <3>4. CASE owner[u] # r
      BY <1>2, <3>1, <3>2, <3>4
    <3> QED
      BY <3>3, <3>4
  <2> QED
    BY <2>1, <2>3, <2>4
<1> QED
  BY <1>6, <1>7, <1>8, <1>9

(* checkout.session.completed, delivered once or again: what it records. *)
(* The completed event, delivered for the first time or again.             *)
LEMMA CompletedKeepsRecorded ==
  ASSUME RowsOK, RestOK, RowsOK', RestOK', Recorded, NEW s \in Session,
         ses[s] = "complete", OnCompleted(s), completed' = completed \ {s},
         UNCHANGED <<ses, owner, sub, inv, ended, swept>>
  PROVE  Recorded' /\ Frozen
<1> USE DEF Recorded
<1>1. owner[s] \in Row
  BY OwnerType
<1>2. CASE UNCHANGED <<rows, ledger>>
  <2>1. UNCHANGED <<status, link, session, ledger>>
    BY <1>2 DEF rows
  <2>2. Owners'
    BY <2>1 DEF Owners
  <2>3. Evidence'
    BY <2>1 DEF Evidence, Live, Billed
  <2> QED
    BY <1>2, <2>2, <2>3, SameRowsFrozen
<1>3. CASE status[owner[s]] # "none" /\ ~IsTerminal(owner[s]) /\ Link(owner[s], s)
  <2> DEFINE r == owner[s]
  <2>1. /\ \A q \in Row : q # r => /\ status'[q] = status[q] /\ link'[q] = link[q]
                                   /\ session'[q] = session[q] /\ cap'[q] = cap[q]
                                   /\ period'[q] = period[q]
        /\ status'[r] # "none" /\ link'[r] = s /\ session'[r] = session[r]
    BY <1>1, <1>3 DEF Link, RecordPaid, SetRow, RowsOK
  <2>2. \A u \in Session, t \in Period : u # s => ledger'[u][t] = ledger[u][t]
    BY <1>3 DEF Link, RecordPaid, RestOK, Ledger
  <2>3. Owners'
    <3>1. \A q \in Row : (link[q] # None => /\ owner[link[q]] = q /\ ses[link[q]] = "complete"
                                            /\ link[q] \notin completed /\ status[q] # "none")'
      BY <1>1, <2>1 DEF Owners
    <3>2. \A q \in Row : (session[q] # None => owner[session[q]] = q /\ status[q] # "none")'
      BY <2>1 DEF Owners
    <3>3. \A q \in Row : (status[q] # "none" => \E u \in Session : owner[u] = q)'
      BY <1>1, <2>1 DEF Owners
    <3> QED
      BY <3>1, <3>2, <3>3 DEF Owners
  <2>4. Evidence'
    <3>1. \A u \in Session : Live(u)' \/ u \in completed' \/ (\E t \in Period : ledger'[u][t] # "none")
                               => ses'[u] = "complete"
      BY <2>2 DEF Evidence, Live
    <3>2. \A u \in completed', t \in Period : ledger'[u][t] = "none"
      BY <2>2 DEF Evidence, RestOK
    <3> QED
      BY <3>1, <3>2 DEF Evidence, Live, Billed
  <2>5. Frozen
    BY <1>3, <2>1 DEF Frozen
  <2> QED
    BY <2>3, <2>4, <2>5
<1> QED
  BY <1>2, <1>3 DEF OnCompleted

(* The payment of a session reaches the row that waits for it. *)
(* Delivered for the first time, it links the row, or records the          *)
(* incident.                                                               *)
LEMMA CompletedKeeps ==
  ASSUME RowsOK, StripeOK, RestOK, RowsOK', RestOK', Recorded, Known, NEW s \in Session, CheckoutCompleted(s)
  PROVE  Known'
<1> USE DEF Recorded, Known
<1>1. /\ s \in completed /\ completed' = completed \ {s} /\ OnCompleted(s)
      /\ UNCHANGED <<ses, owner, sub, inv, ended, swept>>
  BY DEF CheckoutCompleted, stripe, checkout, billing, jobs
<1>2. ses[s] = "complete" /\ owner[s] \in Row /\ \A t \in Period : ledger[s][t] = "none"
  BY <1>1, OwnerType DEF Evidence
<1>3. \A u \in Session : (ses[u] = "open" \/ u \in completed \/ Live(u)) => owner[u] \in Row
  BY OwnerType DEF Evidence
<1>4. CASE Alarm(s) /\ UNCHANGED <<rows, ledger>> /\ status[owner[s]] = "CANCELLED"
  <2>1. incident' = incident \cup {s} /\ UNCHANGED <<status, link, session, cap, period, ledger>>
    BY <1>4 DEF Alarm, rows
  <2>4. OneOpen'
    BY <2>1 DEF OneOpen, Open
  <2>5. OpenRows'
    <3>1. \A r \in Open : session[r] # s \/ link[r] # None
      BY <1>4, <1>2 DEF Owners, OpenRows, Open, Terminal, RowsOK
    <3> QED
      BY <1>1, <2>1, <3>1 DEF OpenRows, Open
  <2>6. Payable'
    BY <1>1, <2>1 DEF Payable, Awaits
  <2>7. LiveKnown'
    BY <1>1, <1>4, <2>1 DEF LiveKnown, Live
  <2> QED
    BY <2>4, <2>5, <2>6, <2>7
<1>5. CASE Awaits(owner[s], s) /\ Link(owner[s], s)
  <2> DEFINE r == owner[s]
  <2>1. r \in Open /\ status[r] = "PENDING" /\ link[r] = None /\ session[r] = s /\ ~IsTerminal(r)
    BY <1>2, <1>5 DEF Awaits, Open, IsTerminal, Terminal
  <2>2. FirstInvoice(s) \in Period
    BY <1>2, BilledEnds DEF Evidence, Billed
  <2>3. RecordPaid(r, s, FirstInvoice(s))
    BY <1>2, <1>5, <2>2 DEF Link
  <2>4. /\ \A q \in Row : q # r => /\ status'[q] = status[q] /\ link'[q] = link[q]
                                   /\ session'[q] = session[q] /\ cap'[q] = cap[q]
                                   /\ period'[q] = period[q]
        /\ status'[r] = "ACTIVE" /\ link'[r] = s /\ session'[r] = s
    BY <1>2, <2>1, <2>3 DEF RecordPaid, SetRow, RowsOK
  <2>5. /\ incident' = incident
        /\ \A u \in Session, t \in Period : u # s => ledger'[u][t] = ledger[u][t]
    BY <2>1, <2>3 DEF RecordPaid, RestOK, Ledger
  <2>8. Open' \subseteq Open
    BY <2>1, <2>4 DEF Open
  <2>9. OneOpen'
    BY <2>8 DEF OneOpen
  <2>10. OpenRows'
    <3> SUFFICES ASSUME NEW q \in Open'
          PROVE (IF link[q] # None THEN session[q] = link[q]
                 ELSE /\ status[q] = "PENDING" /\ session[q] # None
                      /\ ses[session[q]] \in {"open", "expired"} \/ session[q] \in completed)'
      BY DEF OpenRows
    <3>1. q = r
      BY <2>1, <2>8 DEF OneOpen
    <3> QED
      BY <2>4, <3>1, RowAndPeriod
  <2>11. \A u \in Session : owner[u] = r /\ (ses[u] = "open" \/ u \in completed) => u = s
    BY <2>1 DEF Payable, Awaits
  <2>12. Payable'
    BY <1>1, <1>2, <1>3, <2>4, <2>11 DEF Payable, Awaits
  <2>13. LiveKnown'
    <3> SUFFICES ASSUME NEW u \in Session, Live(u)
                 PROVE  (u \in completed \/ link[owner[u]] = u
                         \/ (status[owner[u]] = "CANCELLED" /\ u \in incident))'
      BY <1>1 DEF LiveKnown, Live
    <3>1. CASE u = s
      BY <1>1, <2>4, <3>1
    <3>2. CASE u # s /\ owner[u] = r
      <4>1. u \in completed
        BY <2>1, <3>2, RowAndPeriod DEF LiveKnown
      <4> QED
        BY <2>11, <3>2, <4>1
    <3>3. CASE u # s /\ owner[u] # r
      BY <1>1, <1>3, <2>4, <2>5, <3>3 DEF LiveKnown
    <3> QED
      BY <3>1, <3>2, <3>3
  <2> QED
    BY <2>9, <2>10, <2>12, <2>13
<1>6. status[owner[s]] = "CANCELLED" \/ Awaits(owner[s], s)
  BY <1>1 DEF Payable
<1> QED
  BY <1>1, <1>4, <1>5, <1>6 DEF OnCompleted, IsTerminal, Terminal, Awaits

-----------------------------------------------------------------------------
(* A request that opens a session.                                         *)

LEMMA MintedIsNew ==
  ASSUME RestOK, Recorded, RowsOK, NEW s \in Session, Minted(s)
  PROVE  /\ ses[s] = "none" /\ owner[s] = None /\ s \notin completed /\ s \notin ended /\ ~Live(s)
         /\ \A t \in Period : ledger[s][t] = "none"
         /\ \A q \in Row : session[q] # s /\ link[q] # s
<1>1. ses[s] = "none" /\ owner[s] = None
  BY DEF Minted, Recorded, Owners
<1>2. s \notin completed /\ s \notin ended /\ ~Live(s) /\ \A t \in Period : ledger[s][t] = "none"
  BY <1>1 DEF Recorded, Evidence
<1>3. \A q \in Row : session[q] # s /\ link[q] # s
  BY <1>1, RowAndPeriod DEF Recorded, Owners
<1> QED
  BY <1>1, <1>2, <1>3

LEMMA NewRowIsNew ==
  ASSUME Recorded, NEW r \in Row, NewRow(r), RowsOK
  PROVE  /\ status[r] = "none" /\ link[r] = None /\ session[r] = None
         /\ \A u \in Session : owner[u] # r
BY DEF NewRow, Recorded, Owners, RowsOK

(* What the three requests share that put up a session s to pay for the row *)
(* r: what was open (X) was an unpaid checkout, whose session is expired    *)
(* and whose row is cleared; a subscription r had is closed.                *)
(* Session s is opened for row r, new or revived, in place of the rows X:  *)
(* their sessions are expired before it is.                                *)
Mints(r, s, X) ==
  /\ Minted(s) /\ Open = X /\ r \notin X
  /\ status[r] = "EXPIRED" \/ \A u \in Session : owner[u] # r
  /\ owner' = [owner EXCEPT ![s] = r]
  /\ status'[r] = "PENDING" /\ link'[r] = None /\ session'[r] = s
  /\ \A q \in X : /\ status[q] = "PENDING" /\ link[q] = None
                  /\ session[q] # None => ses[session[q]] # "complete" /\ ses'[session[q]] # "open"
                  /\ status'[q] \in {"EXPIRED", "none"} /\ session'[q] = None /\ link'[q] = None
  /\ \A q \in Row : q # r /\ q \notin X =>
       status'[q] = status[q] /\ link'[q] = link[q] /\ session'[q] = session[q]
  /\ \A u \in Session : \/ u = s /\ ses'[u] = "open"
                        \/ u # s /\ ses'[u] = ses[u]
                        \/ /\ \E q \in X : u = session[q]
                           /\ ses'[u] = "expired" /\ ses[u] = "open"
  /\ \A u \in ended' : u \in ended \/ ses'[u] = "expired"
  /\ \A u \in Session : Live(u)' => Live(u) /\ u # link[r]
  /\ UNCHANGED <<ledger, incident, inv, completed, swept>>

(* Because what was open is expired first, there is one payable session.   *)
LEMMA MintingKeeps ==
  ASSUME RowsOK, StripeOK, RestOK, RowsOK', RestOK', Recorded,
         NEW r \in Row, NEW s \in Session, NEW X \in SUBSET Row, Mints(r, s, X)
  PROVE  Recorded' /\ (Known => Known')
<1> USE DEF Recorded, Mints
<1>0. /\ ses[s] = "none" /\ owner[s] = None /\ s \notin completed /\ s \notin ended /\ ~Live(s)
      /\ \A t \in Period : ledger[s][t] = "none"
      /\ \A q \in Row : session[q] # s /\ link[q] # s
  BY MintedIsNew
<1>1. \A u \in Session : owner'[u] = IF u = s THEN r ELSE owner[u]
  BY DEF RestOK
<1>2. \A q \in X : status[q] = "PENDING" /\ q \in Row
  OBVIOUS
<1>3. \A u \in Session : ses[u] = "complete" => ses'[u] = "complete"
  BY <1>0
<1>4. \A u \in Session : ses'[u] = "complete" => ses[u] = "complete"
  OBVIOUS
<1>5. Open' = {r}
  BY <1>2 DEF Open, Terminal
<1>6. Owners'
  <2>1. \A u \in Session : (ses[u] # "none" <=> owner[u] # None)'
    BY <1>0, <1>1, RowAndPeriod DEF Owners
  <2>2. \A q \in Row : (link[q] # None => /\ owner[link[q]] = q /\ ses[link[q]] = "complete"
                                          /\ link[q] \notin completed /\ status[q] # "none")'
    <3> SUFFICES ASSUME NEW q \in Row, link'[q] # None
                 PROVE  (/\ owner[link[q]] = q /\ ses[link[q]] = "complete"
                         /\ link[q] \notin completed /\ status[q] # "none")'
      OBVIOUS
    <3>1. q # r /\ q \notin X /\ link'[q] = link[q] /\ status'[q] = status[q]
      OBVIOUS
    <3>2. link[q] \in Session
      BY <3>1, FieldsType
    <3> QED
      BY <3>1, <3>2, <1>0, <1>1, <1>3 DEF Owners
  <2>3. \A q \in Row : (session[q] # None => owner[session[q]] = q /\ status[q] # "none")'
    <3> SUFFICES ASSUME NEW q \in Row, session'[q] # None
                 PROVE  (owner[session[q]] = q /\ status[q] # "none")'
      OBVIOUS
    <3>1. CASE q = r
      BY <1>1, <3>1
    <3>2. CASE q # r
      <4>1. session'[q] = session[q] /\ status'[q] = status[q]
        BY <3>2
      <4>2. session[q] \in Session
        BY <4>1, FieldsType
      <4> QED
        BY <4>1, <4>2, <1>0, <1>1 DEF Owners
    <3> QED
      BY <3>1, <3>2
  <2>4. \A q \in Row : (status[q] # "none" => \E u \in Session : owner[u] = q)'
    <3> SUFFICES ASSUME NEW q \in Row, q # r, status'[q] # "none"
                 PROVE  \E u \in Session : owner'[u] = q
      BY <1>1
    <3>1. status[q] # "none"
      BY <1>2
    <3>2. PICK u \in Session : owner[u] = q
      BY <3>1 DEF Owners
    <3> QED
      BY <3>2, <1>0, <1>1, RowAndPeriod
  <2> QED
    BY <2>1, <2>2, <2>3, <2>4 DEF Owners
<1>7. Evidence'
  <2>1. \A u \in Session : Live(u)' \/ u \in completed' \/ (\E t \in Period : ledger'[u][t] # "none")
                             => ses'[u] = "complete"
    BY <1>3 DEF Evidence
  <2>2. \A u \in Session : ses'[u] = "complete" => Billed(u)' # {}
    BY <1>4 DEF Evidence, Billed
  <2>3. \A u \in ended' : ses'[u] = "expired"
    BY <1>0 DEF Evidence, RestOK
  <2>4. swept' # NoRow => swept'[1] \in Row /\ swept'[2] \in Session /\ ses'[swept'[2]] = "expired"
    BY <1>0 DEF Evidence
  <2> QED
    BY <2>1, <2>2, <2>3, <2>4 DEF Evidence, Live
<1>8. ASSUME Known PROVE OneOpen' /\ OpenRows'
  BY <1>5, RowAndPeriod DEF OneOpen, OpenRows
<1>10. ASSUME Known PROVE Payable'
  <2> USE <1>10 DEF Known
  <2> SUFFICES ASSUME NEW u \in Session, ses'[u] = "open" \/ u \in completed'
               PROVE  (status[owner[u]] = "CANCELLED" \/ Awaits(owner[u], u))'
    BY DEF Payable
  <2>1. CASE u = s
    BY <1>1, <2>1 DEF Awaits
  <2>2. CASE u # s
    <3>1. ses[u] = "open" \/ u \in completed
      BY <2>2
    <3>2. owner[u] \in Row /\ owner'[u] = owner[u]
      BY <1>1, <2>2, <3>1, OwnerType DEF Evidence
    <3>3. status[owner[u]] = "CANCELLED" \/ Awaits(owner[u], u)
      BY <3>1 DEF Payable
    <3>4. owner[u] # r
      <4>1. owner[u] = r => r \in Open
        BY <3>2, <3>3 DEF Awaits, Open, Terminal
      <4> QED
        BY <3>2, <3>3, <4>1
    <3>5. owner[u] \notin X
      <4> SUFFICES ASSUME owner[u] \in X PROVE FALSE
        OBVIOUS
      <4>1. session[owner[u]] = u
        BY <3>3, <1>2 DEF Awaits
      <4>2. ses[u] # "complete" /\ ses'[u] # "open"
        <5>1. PICK q \in X : q = owner[u]
          OBVIOUS
        <5>2. session[q] = u /\ u # None
          BY <4>1, <5>1, RowAndPeriod
        <5>3. session[q] # None => ses[session[q]] # "complete" /\ ses'[session[q]] # "open"
          OBVIOUS
        <5> QED
          BY <5>2, <5>3
      <4>3. u \in completed
        BY <4>2
      <4> QED
        BY <4>2, <4>3 DEF Evidence
    <3> QED
      BY <3>2, <3>3, <3>4, <3>5 DEF Awaits
  <2> QED
    BY <2>1, <2>2
<1>11. ASSUME Known PROVE LiveKnown'
  <2> USE <1>11 DEF Known
  <2> SUFFICES ASSUME NEW u \in Session, Live(u)'
               PROVE  (u \in completed \/ link[owner[u]] = u
                       \/ (status[owner[u]] = "CANCELLED" /\ u \in incident))'
    BY DEF LiveKnown
  <2>1. Live(u) /\ u # s /\ u # link[r] /\ u # None
    BY <1>0, RowAndPeriod
  <2>2. owner[u] \in Row /\ owner'[u] = owner[u]
    BY <1>1, <2>1, OwnerType DEF Evidence
  <2>3. u \in completed \/ link[owner[u]] = u \/ (status[owner[u]] = "CANCELLED" /\ u \in incident)
    BY <2>1 DEF LiveKnown
  <2>4. CASE owner[u] = r
    BY <2>1, <2>2, <2>3, <2>4
  <2>5. CASE owner[u] \in X
    BY <2>1, <2>2, <2>3, <2>5, <1>2
  <2>6. CASE owner[u] # r /\ owner[u] \notin X
    BY <2>2, <2>3, <2>6
  <2> QED
    BY <2>4, <2>5, <2>6
<1> QED
  BY <1>6, <1>7, <1>8, <1>10, <1>11 DEF Known

-----------------------------------------------------------------------------
(* The three requests that open a session, each with what the member had   *)
(* open before it; and the anchor under the loud steps.                    *)

LEMMA RequestsKeep ==
  ASSUME RowsOK, StripeOK, RestOK, RowsOK', RestOK', Recorded,
         \/ \E r \in Row, s \in Session : Subscribe(r, s)
         \/ \E r \in Row, s \in Session : Revive(r, s) /\ ~UNCHANGED <<rows, checkout>>
         \/ \E q, r \in Row, s \in Session : SubscribeAgain(q, r, s)
  PROVE  /\ Recorded' /\ (Known => Known') /\ Frozen
         /\ UNCHANGED ledger /\ \A r \in Open' : link'[r] = None
<1>1. ASSUME NEW r \in Row, NEW s \in Session, Subscribe(r, s)
      PROVE  /\ Recorded' /\ (Known => Known') /\ Frozen
             /\ UNCHANGED ledger /\ \A q \in Open' : link'[q] = None
  <2>1. /\ Open = {} /\ NewRow(r) /\ Minted(s)
        /\ ses' = [ses EXCEPT ![s] = "open"] /\ owner' = [owner EXCEPT ![s] = r]
        /\ SetRow(r, "PENDING", None, s, FALSE, None)
        /\ UNCHANGED <<ledger, incident, sub, inv, completed, ended, swept>>
    BY <1>1 DEF Subscribe, billing, events, jobs
  <2>2. status[r] = "none" /\ link[r] = None /\ \A u \in Session : owner[u] # r
    BY <2>1, NewRowIsNew
  <2>3. status'[r] = "PENDING" /\ link'[r] = None /\ session'[r] = s
    BY <2>1 DEF SetRow, RowsOK
  <2>4. \A q \in Row : q # r => /\ status'[q] = status[q] /\ link'[q] = link[q] /\ session'[q] = session[q]
                                /\ cap'[q] = cap[q] /\ period'[q] = period[q]
    BY <2>1 DEF SetRow, RowsOK
  <2>5. \A u \in Session : (u = s /\ ses'[u] = "open") \/ (u # s /\ ses'[u] = ses[u])
    BY <2>1 DEF RestOK
  <2>6. \A u \in Session : Live(u)' => Live(u) /\ u # link[r]
    BY <2>1, <2>2, RowAndPeriod DEF Live
  <2>7. Recorded' /\ (Known => Known')
    <3>1. Mints(r, s, {})
      BY <2>1, <2>2, <2>3, <2>4, <2>5, <2>6 DEF Mints
    <3> QED
      BY <3>1, MintingKeeps
  <2>8. Frozen
    BY <2>2, <2>4 DEF Frozen, IsTerminal, Terminal
  <2>9. \A q \in Open' : q = r
    BY <2>1, <2>4 DEF Open
  <2> QED
    BY <2>1, <2>3, <2>7, <2>8, <2>9
<1>2. ASSUME NEW r \in Row, NEW s \in Session, Revive(r, s), ~UNCHANGED <<rows, checkout>>
      PROVE  /\ Recorded' /\ (Known => Known') /\ Frozen
             /\ UNCHANGED ledger /\ \A q \in Open' : link'[q] = None
  <2>1. /\ Open = {} /\ status[r] = "EXPIRED" /\ Minted(s) /\ ClosedForRevival(link[r])
        /\ ses' = [ses EXCEPT ![s] = "open"] /\ owner' = [owner EXCEPT ![s] = r]
        /\ SetRow(r, "PENDING", None, s, cap[r], None)
        /\ UNCHANGED <<ledger, incident, inv, completed, ended, swept>>
    BY <1>2 DEF Revive, jobs
  <2>3. status'[r] = "PENDING" /\ link'[r] = None /\ session'[r] = s
    BY <2>1 DEF SetRow, RowsOK
  <2>4. \A q \in Row : q # r => /\ status'[q] = status[q] /\ link'[q] = link[q] /\ session'[q] = session[q]
                                /\ cap'[q] = cap[q] /\ period'[q] = period[q]
    BY <2>1 DEF SetRow, RowsOK
  <2>5. \A u \in Session : (u = s /\ ses'[u] = "open") \/ (u # s /\ ses'[u] = ses[u])
    BY <2>1 DEF RestOK
  <2>6. \A u \in Session : Live(u)' => Live(u) /\ u # link[r]
    <3>1. QuietBilling
      <4>1. CASE link[r] # None /\ CancelAtStripe(link[r])
        BY <2>1, <4>1, CancelQuiet, FieldsType
      <4>2. CASE UNCHANGED <<billing, updates>>
        BY <4>2, StillBilling
      <4> QED
        BY <1>2, <4>1, <4>2 DEF Revive
    <3>2. \A u \in Session : Live(u)' => u # link[r]
      BY <2>1, RowAndPeriod DEF ClosedForRevival, Live
    <3> QED
      BY <3>1, <3>2 DEF QuietBilling
  <2>7. Recorded' /\ (Known => Known')
    <3>1. Mints(r, s, {})
      BY <2>1, <2>3, <2>4, <2>5, <2>6 DEF Mints
    <3> QED
      BY <3>1, MintingKeeps
  <2>8. Frozen
    <3>1. ses'[session'[r]] = "open"
      BY <2>3, <2>5
    <3> QED
      BY <2>1, <2>3, <2>4, <3>1 DEF Frozen
  <2>9. \A q \in Open' : q = r
    BY <2>1, <2>4 DEF Open
  <2> QED
    BY <2>1, <2>3, <2>7, <2>8, <2>9
<1>3. ASSUME NEW q \in Row, NEW r \in Row, NEW s \in Session, SubscribeAgain(q, r, s)
      PROVE  /\ Recorded' /\ (Known => Known') /\ Frozen
             /\ UNCHANGED ledger /\ \A p \in Open' : link'[p] = None
  <2>1. /\ Open = {q} /\ Replaceable(q) /\ NewRow(r) /\ Minted(s)
        /\ owner' = [owner EXCEPT ![s] = r]
        /\ UNCHANGED <<link, cap, period, ledger, incident, sub, inv, completed, swept>>
    BY <1>3 DEF SubscribeAgain, billing, jobs
  <2>2. status[r] = "none" /\ link[r] = None /\ \A u \in Session : owner[u] # r
    BY <2>1, NewRowIsNew
  <2>3. status[q] = "PENDING" /\ link[q] = None /\ q # r
    BY <2>1, <2>2 DEF Replaceable
  <2>4. session[q] # None => ses[session[q]] # "complete" /\ session[q] \in Session
    BY <2>1, FieldsType DEF Replaceable
  <2>6. session[q] # s
    BY <2>1, MintedIsNew
  <2>7. /\ status'[r] = "PENDING" /\ link'[r] = None /\ session'[r] = s
        /\ status'[q] \in {"EXPIRED", "none"} /\ session'[q] = None /\ link'[q] = None
        /\ \A p \in Row : p # r /\ p # q => status'[p] = status[p] /\ session'[p] = session[p]
    BY <1>3, <2>2, <2>3 DEF SubscribeAgain, RowsOK
  <2>8. \A u \in Session : \/ u = s /\ ses'[u] = "open"
                           \/ u # s /\ ses'[u] = ses[u]
                           \/ u = session[q] /\ ses'[u] = "expired" /\ ses[u] = "open"
    BY <1>3, <2>6 DEF SubscribeAgain
  <2>9. session[q] # None => ses'[session[q]] # "open"
    <3> SUFFICES ASSUME session[q] # None PROVE ses'[session[q]] # "open"
      OBVIOUS
    <3>1. session[q] \in Session /\ session[q] # s
      BY <2>4, <2>6
    <3> QED
      BY <1>3, <3>1 DEF SubscribeAgain
  <2>10. \A u \in ended' : u \in ended \/ ses'[u] = "expired"
    BY <1>3, <2>4, <2>6 DEF SubscribeAgain
  <2>11. \A u \in Session : Live(u)' => Live(u) /\ u # link[r]
    BY <2>1, <2>2, RowAndPeriod DEF Live
  <2>12. Recorded' /\ (Known => Known')
    <3>1. Mints(r, s, {q})
      BY <2>1, <2>2, <2>3, <2>4, <2>7, <2>8, <2>9, <2>10, <2>11 DEF Mints
    <3> QED
      BY <3>1, MintingKeeps
  <2>13. Frozen
    BY <2>1, <2>2, <2>3, <2>7 DEF Frozen, IsTerminal, Terminal
  <2>14. \A p \in Open' : p = r
    BY <2>1, <2>7 DEF Open, Terminal
  <2> QED
    BY <2>1, <2>7, <2>12, <2>13, <2>14
<1> QED
  BY <1>1, <1>2, <1>3

LEMMA CompletedCovers ==
  ASSUME RowsOK, RestOK, RowsOK', Recorded, PeriodCoversLedger, NEW s \in Session, CheckoutCompleted(s)
  PROVE  PeriodCoversLedger'
<1>1. s \in completed /\ OnCompleted(s) /\ ses[s] = "complete"
  BY DEF CheckoutCompleted, Recorded, Evidence
<1>2. CASE UNCHANGED <<rows, ledger>>
  BY <1>2 DEF rows, PeriodCoversLedger, Linked, Open
<1>3. CASE status[owner[s]] # "none" /\ ~IsTerminal(owner[s]) /\ Link(owner[s], s)
  <2> DEFINE r == owner[s]
             first == FirstInvoice(s)
  <2>1. first \in Period /\ r \in Row
    BY <1>1, BilledEnds, OwnerType DEF Recorded, Evidence, Billed
  <2>2. \A t \in Period : ledger[s][t] = "none"
    BY <1>1 DEF Recorded, Evidence
  <2>3. RecordPaid(r, s, first)
    BY <1>3, <2>1, <2>2 DEF Link
  <2>4. \A u \in Session, t \in Period :
          ledger'[u][t] = IF u = s /\ t = first THEN "SUCCEEDED" ELSE ledger[u][t]
    BY <2>1, <2>3 DEF RecordPaid, RestOK, Ledger
  <2>5. /\ \A q \in Row : q # r => status'[q] = status[q] /\ link'[q] = link[q] /\ period'[q] = period[q]
        /\ link'[r] = s /\ period'[r] = ForwardOnly(period[r], first)
    BY <1>3, <2>1, <2>3 DEF RecordPaid, SetRow, RowsOK
  <2>6. period'[r] >= first
    <3>1. period[r] \in Period \cup {None} /\ first \in Period \cup {None}
      BY <2>1, FieldsType
    <3> QED
      BY <2>5, <3>1, ForwardType
  <2> SUFFICES ASSUME NEW u \in Session, NEW t \in Period, ledger'[u][t] = "SUCCEEDED",
                      NEW q \in Row, q \in Open', link'[q] = u
               PROVE  period'[q] >= t
    BY DEF PeriodCoversLedger, Linked
  <2>7. CASE u = s
    <3>1. t = first
      BY <2>2, <2>4, <2>7
    <3>2. q = r
      BY <1>1, <2>5, <2>7, RowAndPeriod DEF Recorded, Owners
    <3> QED
      BY <2>6, <3>1, <3>2
  <2>8. CASE u # s
    <3>1. q # r
      BY <2>5, <2>8
    <3>2. q \in Linked(u) \cap Open /\ ledger[u][t] = "SUCCEEDED"
      BY <2>4, <2>5, <2>8, <3>1 DEF Linked, Open
    <3> QED
      BY <2>5, <3>1, <3>2 DEF PeriodCoversLedger
  <2> QED
    BY <2>7, <2>8
<1> QED
  BY <1>1, <1>2, <1>3 DEF OnCompleted

LEMMA ClearCovers ==
  ASSUME RowsOK, PeriodCoversLedger, NEW r \in Row, ClearPending(r), UNCHANGED ledger
  PROVE  PeriodCoversLedger'
<1>1. status'[r] \in {"EXPIRED", "none"}
      /\ \A q \in Row : q # r => status'[q] = status[q] /\ link'[q] = link[q] /\ period'[q] = period[q]
  BY DEF ClearPending, SetRow, RowsOK
<1>2. \A q \in Open' : q # r /\ q \in Open
  BY <1>1 DEF Open, Terminal
<1>3. \A u \in Session : (Linked(u) \cap Open)' \subseteq Linked(u) \cap Open
  BY <1>1, <1>2 DEF Linked
<1>4. \A q \in Open' : q \in Row /\ period'[q] = period[q]
  BY <1>1, <1>2 DEF Open
<1> QED
  BY <1>3, <1>4 DEF PeriodCoversLedger

-----------------------------------------------------------------------------
(* The theorems.                                                           *)

(* The steps that are not quiet. *)
Loud ==
  \/ \E s \in Session : Pay(s) \/ CheckoutCompleted(s) \/ CheckoutExpired(s)
  \/ SweepClears
  \/ \E r \in Row, s \in Session : Subscribe(r, s)
  \/ \E r \in Row, s \in Session : Revive(r, s) /\ ~UNCHANGED <<rows, checkout>>
  \/ \E q, r \in Row, s \in Session : SubscribeAgain(q, r, s)

(* Every step is quiet, loud, or a completed event delivered again. *)
LEMMA StepKinds ==
  ASSUME RowsOK, StripeOK, RestOK, Recorded, [Next]_vars
  PROVE  Quiet \/ Loud \/ \E s \in Session : CheckoutRedelivered(s)
<1>1. CASE Member
  <2>1. CASE \/ \E r \in Row : CancelNow(r) \/ ScheduleCancel(r) \/ Uncancel(r) \/ Pause(r) \/ Resume(r)
                               \/ MembershipLoss(r)
             \/ \E r \in Row, s \in Session : Revive(r, s) /\ UNCHANGED <<rows, checkout>>
    BY <2>1, QuietMember
  <2> QED
    BY <1>1, <2>1 DEF Member, Loud
<1>2. CASE Webhook
  <2>1. CASE \/ \E s \in Session, t \in Period :
                  InvoicePaid(s, t) \/ InvoiceFailed(s, t) \/ ChargeRefunded(s, t) \/ RefundRedelivered(s, t)
             \/ \E m \in updates : SubscriptionEvent(m)
    BY <2>1, QuietWebhook
  <2> QED
    BY <1>2, <2>1 DEF Webhook, Loud
<1>3. CASE Stripe
  <2>1. CASE \/ Tick
             \/ \E s \in Session : SessionExpires(s) \/ Renew(s) \/ Retry(s)
             \/ \E s \in Session, t \in Period : DashboardRefund(s, t)
             \/ \E m \in updates : LoseUpdate(m)
    BY <2>1, QuietStripe
  <2> QED
    BY <1>3, <2>1 DEF Stripe, Loud
<1>4. CASE PostCalls
  BY <1>4, QuietPostCalls
<1>5. CASE ExpiryJob \/ Sweep \/ Reconcile
  <2>1. CASE ExpiryJob \/ Reconcile \/ \E r \in Row : SweepReads(r)
    BY <2>1, QuietJobs
  <2> QED
    BY <1>5, <2>1 DEF Sweep, Loud
<1>6. CASE UNCHANGED vars
  <2>1. UNCHANGED <<rows, checkout, billing, completed, ended, swept, ledger, incident>>
    BY <1>6 DEF vars, events, jobs
  <2> QED
    BY <2>1, StillRows, StillCheckout, StillBilling, StillLedger DEF Quiet
<1> QED
  BY <1>1, <1>2, <1>3, <1>4, <1>5, <1>6 DEF Next

LEMMA QuietKeeps ==
  ASSUME RowsOK, RestOK, RowsOK', RestOK', Recorded, Quiet
  PROVE  /\ Recorded' /\ Frozen
         /\ Known /\ PeriodCoversLedger => Known' /\ PeriodCoversLedger'
BY QuietKeepsRecorded, QuietKeepsKnown, QuietCovers, QuietFreezes DEF Frozen

LEMMA LoudKeeps ==
  ASSUME RowsOK, StripeOK, RestOK, RowsOK', RestOK', Recorded, Loud
  PROVE  /\ Recorded' /\ Frozen
         /\ Known /\ PeriodCoversLedger => Known' /\ PeriodCoversLedger'
<1> DEFINE Kept == /\ Recorded' /\ Frozen
                   /\ Known /\ PeriodCoversLedger => Known' /\ PeriodCoversLedger'
<1>1. ASSUME NEW s \in Session, Pay(s) PROVE Kept
  <2>1. UNCHANGED rows /\ UNCHANGED ledger
    BY <1>1 DEF Pay
  <2>2. PeriodCoversLedger => PeriodCoversLedger'
    BY <2>1 DEF rows, PeriodCoversLedger, Linked, Open
  <2> QED
    BY <1>1, <2>1, <2>2, PayKeeps, SameRowsFrozen
<1>2. ASSUME NEW s \in Session, CheckoutCompleted(s) PROVE Kept
  <2>1. /\ ses[s] = "complete" /\ OnCompleted(s) /\ completed' = completed \ {s}
        /\ UNCHANGED <<ses, owner, sub, inv, ended, swept>>
    BY <1>2 DEF CheckoutCompleted, Recorded, Evidence, stripe, checkout, billing, jobs
  <2>2. Recorded' /\ Frozen
    BY <2>1, CompletedKeepsRecorded
  <2> QED
    BY <1>2, <2>2, CompletedKeeps, CompletedCovers
<1>3. ASSUME NEW s \in Session, CheckoutExpired(s) PROVE Kept
  <2>1. ses[s] = "expired"
    BY <1>3 DEF CheckoutExpired, Recorded, Evidence
  <2>2. UNCHANGED <<checkout, completed, billing, ledger, incident, swept>> /\ ended' = ended \ {s}
    BY <1>3 DEF CheckoutExpired, stripe, jobs
  <2>3. CASE Awaits(owner[s], s) /\ ClearPending(owner[s])
    <3>1. owner[s] \in Row
      BY <2>1, OwnerType DEF Recorded
    <3> QED
      BY <2>1, <2>2, <2>3, <3>1, ClearKeeps, ClearCovers DEF checkout, billing
  <2>4. CASE UNCHANGED rows
    <3>1. QuietCheckout
      BY <2>2 DEF QuietCheckout, checkout
    <3> QED
      BY <2>2, <2>4, <3>1, StillRows, StillBilling, StillLedger, QuietKeeps DEF Quiet
  <2> QED
    BY <1>3, <2>3, <2>4 DEF CheckoutExpired, Awaits
<1>4. CASE SweepClears
  <2>1. /\ swept[1] \in Row /\ swept[2] \in Session /\ ses[swept[2]] = "expired" /\ swept' = NoRow
        /\ UNCHANGED <<checkout, completed, ended, billing, ledger, incident>>
    BY <1>4 DEF SweepClears, Recorded, Evidence, stripe, events
  <2>2. CASE Awaits(swept[1], swept[2]) /\ ClearPending(swept[1])
    BY <2>1, <2>2, ClearKeeps, ClearCovers DEF checkout, billing
  <2>3. CASE UNCHANGED rows
    <3>1. QuietCheckout
      BY <2>1 DEF QuietCheckout, checkout
    <3> QED
      BY <2>1, <2>3, <3>1, StillRows, StillBilling, StillLedger, QuietKeeps DEF Quiet
  <2> QED
    BY <1>4, <2>2, <2>3 DEF SweepClears, SameCheckout, Awaits
<1>5. ASSUME Recorded' /\ (Known => Known') /\ Frozen, UNCHANGED ledger, \A r \in Open' : link'[r] = None
      PROVE  Kept
  <2>1. PeriodCoversLedger'
    BY <1>5, RowAndPeriod DEF PeriodCoversLedger, Linked
  <2> QED
    BY <1>5, <2>1
<1>6. CASE \/ \E r \in Row, s \in Session : Subscribe(r, s)
           \/ \E r \in Row, s \in Session : Revive(r, s) /\ ~UNCHANGED <<rows, checkout>>
           \/ \E q, r \in Row, s \in Session : SubscribeAgain(q, r, s)
  BY <1>5, <1>6, RequestsKeep
<1> QED
  BY <1>1, <1>2, <1>3, <1>4, <1>6 DEF Loud

-----------------------------------------------------------------------------
(* The theorems *)

(* The invariant for every value of the constants.                         *)
Base == TypeOK /\ Recorded

LEMMA TypeStep ==
  ASSUME Base, [Next]_vars
  PROVE  RowsOK' /\ StripeOK' /\ RestOK'
<1>1. RowsOK /\ StripeOK /\ RestOK /\ Owners /\ Evidence
  BY TypeParts DEF Base, Recorded
<1>2. CASE Next
  BY <1>1, <1>2, StripeTypeStep, WebhookTypeStep, MemberTypeStep, PostTypeStep, JobTypeStep DEF Next
<1>3. CASE UNCHANGED vars
  BY <1>1, <1>3 DEF vars, rows, checkout, billing, clock, events, post, jobs, RowsOK, StripeOK, RestOK
<1> QED
  BY <1>2, <1>3

LEMMA BaseStep ==
  ASSUME Base, [Next]_vars
  PROVE  Base' /\ Frozen
<1>1. RowsOK /\ StripeOK /\ RestOK /\ Recorded
  BY TypeParts DEF Base
<1>2. RowsOK' /\ StripeOK' /\ RestOK'
  BY TypeStep
<1>3. TypeOK'
  BY <1>2 DEF TypeOK, RowsOK, StripeOK, RestOK, Ledger
<1>4. ASSUME NEW s \in Session, CheckoutRedelivered(s) PROVE Recorded' /\ Frozen
  <2>1. /\ ses[s] = "complete" /\ OnCompleted(s) /\ completed' = completed \ {s}
        /\ UNCHANGED <<ses, owner, sub, inv, ended, swept>>
    BY <1>4 DEF CheckoutRedelivered, stripe, checkout, billing, events, jobs
  <2> QED
    BY <1>1, <1>2, <2>1, CompletedKeepsRecorded
<1>5. Recorded' /\ Frozen
  BY <1>1, <1>2, <1>4, StepKinds, QuietKeeps, LoudKeeps
<1> QED
  BY <1>3, <1>5 DEF Base

LEMMA KnownStep ==
  ASSUME IInv, [Next]_vars, ~LateRedelivery
  PROVE  IInv'
<1>1. RowsOK /\ StripeOK /\ RestOK /\ Recorded /\ Known /\ PeriodCoversLedger /\ Base
  BY TypeParts DEF IInv, Base
<1>2. RowsOK' /\ StripeOK' /\ RestOK'
  BY <1>1, TypeStep
<1>3. Base'
  BY <1>1, BaseStep
<1>4. CASE Quiet
  BY <1>1, <1>2, <1>3, <1>4, QuietKeeps DEF IInv, Base
<1>5. CASE Loud
  BY <1>1, <1>2, <1>3, <1>5, LoudKeeps DEF IInv, Base
<1> QED
  BY <1>1, <1>4, <1>5, StepKinds, QuietRedelivery

LEMMA Starts == ASSUME Init PROVE IInv
<1>1. /\ status = [r \in Row |-> "none"] /\ link = [r \in Row |-> None]
      /\ session = [r \in Row |-> None] /\ cap = [r \in Row |-> FALSE]
      /\ period = [r \in Row |-> None]
      /\ ledger = [s \in Session |-> [t \in Period |-> "none"]]
      /\ ses = [s \in Session |-> "none"] /\ owner = [s \in Session |-> None]
      /\ sub = [s \in Session |-> "none"]
      /\ completed = {} /\ ended = {} /\ swept = NoRow
  BY DEF Init
<1>2. RowsOK
  BY <1>1 DEF RowsOK, Status
<1>3. StripeOK
  BY DEF Init, StripeOK, StripeStatus
<1>4. RestOK
  <2>1. now \in 0..MaxTime /\ requests \in 0..MaxRequests /\ faults \in 0..MaxFaults
    BY BoundsAssumption DEF Init
  <2>2. recon \in Read
    <3>1. 1 \in Session
      BY BoundsAssumption DEF Session
    <3> QED
      BY <3>1 DEF Init, Idle, Read, Payload, StripeStatus
  <2>3. swept \in (Row \cup {None}) \X (Session \cup {None})
    BY <1>1 DEF NoRow
  <2>4. ledger \in Ledger
    BY <1>1 DEF Ledger
  <2>5. visits \in [Row -> 0..Window]
    BY BoundsAssumption DEF Init
  <2> QED
    BY <2>1, <2>2, <2>3, <2>4, <2>5 DEF Init, RestOK
<1>5. Open = {}
  BY <1>1 DEF Open
<1>6. Owners
  BY <1>1 DEF Owners
<1>7. Evidence
  BY <1>1 DEF Evidence, Live
<1>8. OneOpen /\ OpenRows
  BY <1>5 DEF OneOpen, OpenRows
<1>9. Payable /\ LiveKnown
  BY <1>1 DEF Payable, LiveKnown, Live
<1>10. PeriodCoversLedger
  BY <1>1 DEF PeriodCoversLedger
<1> QED
  BY <1>2, <1>3, <1>4, <1>6, <1>7, <1>8, <1>9, <1>10, TypeParts DEF IInv, Recorded, Known

(* The whole invariant: rows and sessions name each other, one row is      *)
(* open, and every session that can be paid or bills is known to the       *)
(* application. It is about the events as they come the first time, or     *)
(* again before a newer checkout (LateRedelivery is FALSE): a completed    *)
(* event that comes again after a revival links the row to the older       *)
(* subscription.                                                           *)
THEOREM Inductive == ASSUME ~LateRedelivery PROVE Spec => []IInv
<1>1. Init => IInv
  BY Starts
<1>2. IInv /\ [Next]_vars => IInv'
  BY KnownStep
<1> QED
  BY <1>1, <1>2, PTL DEF Spec

(* Its part for every value of the constants, on every state. *)
LEMMA BaseHolds == Spec => []Base
<1>1. Init => Base
  BY Starts DEF IInv, Base
<1>2. Base /\ [Next]_vars => Base'
  BY BaseStep
<1> QED
  BY <1>1, <1>2, PTL DEF Spec

(* Every variable keeps its type: in particular no handler asks Stripe for *)
(* the invoices of a subscription that has none.                           *)
THEOREM TypeCorrect == Spec => []TypeOK
<1>1. Base => TypeOK
  BY DEF Base
<1> QED
  BY <1>1, BaseHolds, PTL

(* No webhook, job or request changes a row that is cancelled or expired,  *)
(* but the revival of an expired one, with a session of its own.           *)
THEOREM TerminalRowsAreFrozen == Spec => TerminalIsFrozen
<1>1. Base /\ [Next]_vars
        => [\A r \in Row : IsTerminal(r) =>
       \/ /\ status'[r] = status[r] /\ link'[r] = link[r]
          /\ cap'[r] = cap[r] /\ period'[r] = period[r]
       \/ /\ status[r] = "EXPIRED" /\ status'[r] = "PENDING" /\ link'[r] = None
          /\ ses'[session'[r]] = "open" /\ Open = {}]_vars
  BY BaseStep DEF Frozen
<1> QED
  BY <1>1, BaseHolds, PTL DEF Spec, TerminalIsFrozen

(* A Stripe subscription never bills unknown to the application: a row is  *)
(* linked to it, its event is on the way, or an incident was raised. The   *)
(* sync and the checkout handlers must see to it in every order of events. *)
THEOREM BillingIsKnown == ASSUME ~LateRedelivery PROVE Spec => []NoUnknownBilling
<1>1. ASSUME IInv PROVE NoUnknownBilling
  <2> SUFFICES ASSUME NEW s \in Session, Live(s)
               PROVE  \/ Linked(s) # {} \/ s \in completed \/ s \in incident
                      \/ status[owner[s]] = "PENDING" /\ session[owner[s]] = s
    BY DEF NoUnknownBilling
  <2>1. RestOK /\ Owners /\ Evidence /\ LiveKnown
    BY <1>1, TypeParts DEF IInv, Recorded, Known
  <2>2. owner[s] \in Row
    BY <2>1, OwnerType DEF Evidence
  <2>3. link[owner[s]] = s => owner[s] \in Linked(s)
    BY <2>1, <2>2, RowAndPeriod DEF Owners, Linked
  <2> QED
    BY <2>1, <2>3 DEF LiveKnown
<1> QED
  BY <1>1, Inductive, PTL

(* Two subscriptions of a member whose rows are not terminal never bill at *)
(* once, whatever is revived, retried or swept between a checkout and its  *)
(* event.                                                                  *)
THEOREM BilledAtMostOnce == ASSUME ~LateRedelivery PROVE Spec => []BilledOnce
<1>1. ASSUME IInv PROVE BilledOnce
  <2> DEFINE Due == {s \in Session : Live(s) /\ ~IsTerminal(owner[s])}
  <2>1. RowsOK /\ RestOK /\ Owners /\ Evidence /\ OneOpen /\ OpenRows /\ Payable /\ LiveKnown
    BY <1>1, TypeParts DEF IInv, Recorded, Known
  <2>2. ASSUME NEW s \in Due PROVE owner[s] \in Open /\ session[owner[s]] = s
    <3>1. owner[s] \in Row /\ s \in Session /\ s # None
      BY <2>1, OwnerType, RowAndPeriod DEF Evidence
    <3>2. CASE link[owner[s]] = s
      BY <2>1, <3>1, <3>2 DEF Owners, OpenRows, Open, IsTerminal
    <3>3. CASE s \in completed
      BY <2>1, <3>1, <3>3 DEF Payable, Awaits, Open, IsTerminal, Terminal
    <3> QED
      BY <2>1, <3>2, <3>3 DEF LiveKnown, IsTerminal, Terminal
  <2>3. \A s, u \in Due : s = u
    BY <2>1, <2>2 DEF OneOpen
  <2>4. CASE Due = {}
    BY <2>4, FS_EmptySet DEF BilledOnce
  <2>5. CASE Due # {}
    <3>1. PICK s \in Due : Due = {s}
      BY <2>3, <2>5
    <3>2. Cardinality(Due) = 1
      <4> HIDE DEF Due
      <4> QED
        BY <3>1, FS_Singleton
    <3> QED
      BY <3>2 DEF BilledOnce
  <2> QED
    BY <2>4, <2>5
<1> QED
  BY <1>1, Inductive, PTL

(* The period end of a row covers each period its ledger holds as paid, in *)
(* whatever order invoices and updates come.                               *)
THEOREM AnchorCoversLedger == ASSUME ~LateRedelivery PROVE Spec => []PeriodCoversLedger
<1>1. IInv => PeriodCoversLedger
  BY DEF IInv
<1> QED
  BY <1>1, Inductive, PTL
=============================================================================
