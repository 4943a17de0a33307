-------------------------- MODULE SeriesPassProofs --------------------------
(***************************************************************************)
(* Theorems about SeriesPass for every finite set of holders and events,   *)
(* every stock of tiers and pass, and any number of events that start.     *)
(***************************************************************************)
EXTENDS SeriesPass, FiniteSetTheorems, TLAPS

-----------------------------------------------------------------------------
(* Types. *)

LEMMA CounterTypes ==
  ASSUME TypeOK, NEW E
  PROVE  Counted(E) \in [Event -> Nat] /\ Uncounted(E) \in [Event -> Nat]
BY DEF TypeOK, Counted, Uncounted, FlooredAtZero

LEMMA MissedType ==
  ASSUME TypeOK, NEW h \in Holder
  PROVE  Missed(h) \in SUBSET Event
BY DEF TypeOK, Missed

LEMMA EndActivationType ==
  ASSUME TypeOK, NEW h \in Holder, EndActivation(h)
  PROVE  /\ sold' \in [Event -> Nat] /\ locked' \in SUBSET Holder
         /\ missing' \in [Holder -> SUBSET Event]
         /\ skipped' \in SUBSET (Holder \X Event)
<1>1. {<<h, e>> : e \in missing[h] \ Granted(h)} \in SUBSET (Holder \X Event)
  BY DEF TypeOK
<1>2. sold' \in [Event -> Nat]
  BY CounterTypes DEF EndActivation
<1> QED
  BY <1>1, <1>2 DEF TypeOK, EndActivation

LEMMA TypeInit == Init => TypeOK
BY EventAssumption, QuantityAssumption DEF Init, TypeOK, TicketStatus, Nothing

LEMMA TypeOfBuying ==
  ASSUME TypeOK, NEW h \in Holder,
         Purchase(h) \/ BuyerPays(h) \/ CancelHeldPass(h) \/ ReclaimReservation(h)
  PROVE  TypeOK'
<1> USE DEF TicketStatus, webhook, coverage, activation, history, rows
<1>1. CASE Purchase(h)
  <2>1. sold' \in [Event -> Nat] /\ passes_sold' \in Nat
    BY <1>1, CounterTypes DEF Purchase, TypeOK
  <2>2. /\ held' \in [Holder -> TicketStatus]
        /\ ticket' \in [Holder -> [Event -> TicketStatus]]
    BY <1>1 DEF Purchase, TypeOK
  <2>3. pay' \in [Holder -> [Event -> {"none", "PENDING", "SUCCEEDED", "FAILED", "REFUNDED"}]]
    BY <1>1 DEF Purchase, TypeOK
  <2> QED
    BY <1>1, <2>1, <2>2, <2>3 DEF Purchase, TypeOK
<1>2. CASE BuyerPays(h)
  BY <1>2 DEF BuyerPays, TypeOK
<1>3. CASE CancelHeldPass(h)
  <2>1. sold' \in [Event -> Nat] /\ passes_sold' \in Nat
    BY <1>3, CounterTypes DEF CancelHeldPass, TypeOK, FlooredAtZero
  <2>2. /\ held' \in [Holder -> TicketStatus]
        /\ ticket' \in [Holder -> [Event -> TicketStatus]]
    BY <1>3 DEF CancelHeldPass, TypeOK
  <2>3. pay' \in [Holder -> [Event -> {"none", "PENDING", "SUCCEEDED", "FAILED", "REFUNDED"}]]
    BY <1>3 DEF CancelHeldPass, TypeOK
  <2> QED
    BY <1>3, <2>1, <2>2, <2>3 DEF CancelHeldPass, TypeOK
<1>4. CASE ReclaimReservation(h)
  <2>1. sold' \in [Event -> Nat] /\ passes_sold' \in Nat
    BY <1>4, CounterTypes DEF ReclaimReservation, TypeOK, FlooredAtZero
  <2>2. /\ held' \in [Holder -> TicketStatus]
        /\ ticket' \in [Holder -> [Event -> TicketStatus]]
    BY <1>4 DEF ReclaimReservation, TypeOK
  <2>3. pay' \in [Holder -> [Event -> {"none", "PENDING", "SUCCEEDED", "FAILED", "REFUNDED"}]]
    BY <1>4 DEF ReclaimReservation, TypeOK
  <2> QED
    BY <1>4, <2>1, <2>2, <2>3 DEF ReclaimReservation, TypeOK
<1> QED
  BY <1>1, <1>2, <1>3, <1>4

LEMMA TypeOfActivation ==
  ASSUME TypeOK, NEW h \in Holder,
         \/ ConfirmReads(h) \/ ConfirmCommits(h)
         \/ WebhookReads(h) \/ WebhookFindsNothing(h) \/ WebhookFails(h)
         \/ WebhookWrites(h) \/ WebhookCommits(h)
  PROVE  TypeOK'
<1> USE DEF TicketStatus, webhook, coverage, activation, history, rows
<1>1. CASE ConfirmReads(h)
  BY <1>1, MissedType DEF ConfirmReads, TypeOK
<1>2. CASE ConfirmCommits(h)
  BY <1>2, EndActivationType DEF ConfirmCommits, TypeOK
<1>3. CASE WebhookReads(h)
  BY <1>3 DEF WebhookReads, TypeOK
<1>4. CASE WebhookFindsNothing(h)
  BY <1>4 DEF WebhookFindsNothing, TypeOK
<1>5. CASE WebhookFails(h)
  BY <1>5 DEF WebhookFails, TypeOK, Nothing
<1>6. CASE WebhookWrites(h)
  BY <1>6, MissedType DEF WebhookWrites, TypeOK
<1>7. CASE WebhookCommits(h)
  <2>1. /\ sold' \in [Event -> Nat] /\ locked' \in SUBSET Holder
        /\ missing' \in [Holder -> SUBSET Event]
        /\ skipped' \in SUBSET (Holder \X Event)
    BY <1>7, EndActivationType DEF WebhookCommits
  <2>2. /\ held' \in [Holder -> TicketStatus]
        /\ ticket' \in [Holder -> [Event -> TicketStatus]]
    BY <1>7 DEF WebhookCommits, TypeOK
  <2>3. pay' \in [Holder -> [Event -> {"none", "PENDING", "SUCCEEDED", "FAILED", "REFUNDED"}]]
    BY <1>7 DEF WebhookCommits, TypeOK
  <2>4. /\ paid' \in [Holder -> {"no", "due", "read", "done"}]
        /\ seen' \in [Holder -> [Event -> TicketStatus]]
        /\ revived' \in SUBSET (Holder \X Event)
    BY <1>7 DEF WebhookCommits, TypeOK, Nothing
  <2> QED
    BY <1>7, <2>1, <2>2, <2>3, <2>4 DEF WebhookCommits, TypeOK
<1> QED
  BY <1>1, <1>2, <1>3, <1>4, <1>5, <1>6, <1>7

LEMMA TypeOfCoverage ==
  ASSUME TypeOK, NEW e \in Event,
         \/ AddLink(e) \/ ExtensionStarts(e)
         \/ RemovalFindsNoHolder(e) \/ RemoveLink(e) \/ EventStarts(e)
         \/ \E h \in Holder : Extend(e, h) \/ ExtensionSkips(e, h)
  PROVE  TypeOK'
<1> USE DEF TicketStatus, webhook, coverage, activation, history, rows
<1>1. CASE AddLink(e)
  BY <1>1 DEF AddLink, TypeOK
<1>2. CASE ExtensionStarts(e)
  BY <1>2 DEF ExtensionStarts, TypeOK
<1>3. CASE RemovalFindsNoHolder(e)
  BY <1>3 DEF RemovalFindsNoHolder, TypeOK
<1>4. CASE RemoveLink(e)
  BY <1>4 DEF RemoveLink, TypeOK
<1>5. CASE EventStarts(e)
  BY <1>5 DEF EventStarts, TypeOK
<1>6. ASSUME NEW h \in Holder, Extend(e, h) PROVE TypeOK'
  <2>1. sold' \in [Event -> Nat] /\ ticket' \in [Holder -> [Event -> TicketStatus]]
    <3>1. CASE IsLive(ticket[h][e])
      BY <1>6, <3>1 DEF Extend, TypeOK
    <3>2. CASE ~IsLive(ticket[h][e])
      <4>1. ticket' = [ticket EXCEPT ![h][e] = "ACTIVE"] /\ sold' = Counted({e})
        BY <1>6, <3>2 DEF Extend
      <4> QED
        BY <4>1, CounterTypes DEF TypeOK
    <3> QED
      BY <3>1, <3>2
  <2>2. todo' \in [Event -> SUBSET Holder]
    BY <1>6 DEF Extend, TypeOK
  <2> QED
    BY <1>6, <2>1, <2>2 DEF Extend, TypeOK
<1>7. ASSUME NEW h \in Holder, ExtensionSkips(e, h) PROVE TypeOK'
  BY <1>7 DEF ExtensionSkips, TypeOK
<1> QED
  BY <1>1, <1>2, <1>3, <1>4, <1>5, <1>6, <1>7

LEMMA TypeStep == TypeOK /\ [Next]_vars => TypeOK'
<1> SUFFICES ASSUME TypeOK, [Next]_vars PROVE TypeOK'
  OBVIOUS
<1>1. CASE UNCHANGED vars
  BY <1>1 DEF vars, rows, coverage, webhook, activation, history, TypeOK
<1> QED
  BY <1>1, TypeOfBuying, TypeOfActivation, TypeOfCoverage, Zenon DEF Next

-----------------------------------------------------------------------------
(* The invariant of a holder and of its ticket for an event: what the      *)
(* statuses of the pass, the ticket and the payment say of each other, and *)
(* what an activation that is open has read.                               *)

HolderOK(h) ==
  /\ held[h] = "none" => h \notin locked /\ paid[h] = "no"
  /\ paid[h] # "no" => payment_method = "ONLINE"
  /\ h \in locked => /\ payment_method # "FREE"
                     /\ payment_method = "OFFLINE" => held[h] = "PENDING"

RowOK(h, e) ==
  /\ pay[h][e] # "none" => ticket[h][e] # "none" /\ payment_method = "ONLINE"
  /\ ticket[h][e] = "CANCELLED" => held[h] = "CANCELLED"
  /\ <<h, e>> \in revived => held[h] = "CANCELLED" /\ ticket[h][e] = "ACTIVE"
  /\ held[h] = "PENDING" /\ payment_method = "ONLINE" /\ IsLive(ticket[h][e])
       => ticket[h][e] = "PENDING" /\ pay[h][e] = "PENDING"
  /\ held[h] = "ACTIVE" => pay[h][e] # "PENDING"
  /\ e \in missing[h] => held[h] = "PENDING" /\ h \in locked /\ ticket[h][e] = "none"
  /\ held[h] = "none" => ticket[h][e] = "none"
  /\ held[h] = "CANCELLED" /\ e \notin started /\ <<h, e>> \notin revived => ~IsLive(ticket[h][e])

RowsOK == \A h \in Holder : HolderOK(h) /\ \A e \in Event : RowOK(h, e)

(* A step that leaves the rows of g alone keeps what is true of them. *)
Untouched(g) ==
  /\ payment_method' = payment_method
  /\ held'[g] = held[g] /\ ticket'[g] = ticket[g] /\ pay'[g] = pay[g]
  /\ missing'[g] = missing[g] /\ paid'[g] = paid[g]
  /\ g \in locked' <=> g \in locked
  /\ \A e \in Event : <<g, e>> \in revived' <=> <<g, e>> \in revived
  /\ started \subseteq started'

LEMMA UntouchedKeeps ==
  ASSUME RowsOK, NEW g \in Holder, Untouched(g)
  PROVE  HolderOK(g)' /\ \A e \in Event : RowOK(g, e)'
<1>1. HolderOK(g)'
  BY DEF RowsOK, HolderOK, Untouched
<1>2. ASSUME NEW e \in Event PROVE RowOK(g, e)'
  BY DEF RowsOK, RowOK, Untouched, IsLive
<1> QED
  BY <1>1, <1>2

(* Each action is about one holder; the rows of the others stay.           *)
HolderStep(h) ==
  \/ Purchase(h) \/ BuyerPays(h)
  \/ ConfirmReads(h) \/ ConfirmCommits(h)
  \/ WebhookReads(h) \/ WebhookFindsNothing(h) \/ WebhookFails(h)
  \/ WebhookWrites(h) \/ WebhookCommits(h)
  \/ CancelHeldPass(h) \/ ReclaimReservation(h)
  \/ \E e \in Event : Extend(e, h) \/ ExtensionSkips(e, h)

CoverageStep ==
  \E e \in Event : \/ AddLink(e) \/ ExtensionStarts(e)
                   \/ RemovalFindsNoHolder(e) \/ RemoveLink(e) \/ EventStarts(e)

LEMMA StepsAreOneHoldersOrNone ==
  ASSUME [Next]_vars
  PROVE  (\E h \in Holder : HolderStep(h)) \/ CoverageStep \/ UNCHANGED vars
BY Zenon DEF Next, HolderStep, CoverageStep

LEMMA OthersUntouched ==
  ASSUME TypeOK, NEW h \in Holder, HolderStep(h), NEW g \in Holder \ {h}
  PROVE  Untouched(g)
<1> USE DEF webhook, coverage, activation, history, rows, Untouched
<1>1. CASE Purchase(h)
  BY <1>1 DEF Purchase, TypeOK
<1>2. CASE BuyerPays(h)
  BY <1>2 DEF BuyerPays, TypeOK
<1>3. CASE ConfirmReads(h)
  BY <1>3 DEF ConfirmReads, TypeOK
<1>4. CASE ConfirmCommits(h)
  BY <1>4 DEF ConfirmCommits, EndActivation, TypeOK
<1>5. CASE WebhookReads(h) \/ WebhookFindsNothing(h) \/ WebhookFails(h)
  BY <1>5 DEF WebhookReads, WebhookFindsNothing, WebhookFails, TypeOK
<1>6. CASE WebhookWrites(h)
  BY <1>6 DEF WebhookWrites, TypeOK
<1>7. CASE WebhookCommits(h)
  BY <1>7 DEF WebhookCommits, EndActivation, TypeOK
<1>8. CASE CancelHeldPass(h)
  BY <1>8 DEF CancelHeldPass, TypeOK
<1>9. CASE ReclaimReservation(h)
  BY <1>9 DEF ReclaimReservation, TypeOK
<1>10. ASSUME NEW e \in Event, Extend(e, h) PROVE Untouched(g)
  BY <1>10 DEF Extend, TypeOK
<1>11. ASSUME NEW e \in Event, ExtensionSkips(e, h) PROVE Untouched(g)
  BY <1>11 DEF ExtensionSkips, TypeOK
<1> QED
  BY <1>1, <1>2, <1>3, <1>4, <1>5, <1>6, <1>7, <1>8, <1>9, <1>10, <1>11 DEF HolderStep

LEMMA CoverageLeavesRows ==
  ASSUME CoverageStep, NEW g \in Holder
  PROVE  Untouched(g)
BY DEF CoverageStep, AddLink, ExtensionStarts, RemovalFindsNoHolder, RemoveLink, EventStarts,
       webhook, coverage, activation, history, rows, Untouched

(* What an action makes of the rows of its own holder. *)
Sane(h) == HolderOK(h) /\ \A e \in Event : RowOK(h, e)

LEMMA BuyingIsSane ==
  ASSUME TypeOK, NEW h \in Holder, Sane(h), Purchase(h) \/ BuyerPays(h)
  PROVE  Sane(h)'
<1> USE DEF webhook, coverage, activation, history, rows
<1>0. HolderOK(h) /\ \A e \in Event : RowOK(h, e)
  BY DEF Sane
<1>1. CASE Purchase(h)
  <2> DEFINE future == links \ started
             status == IF payment_method = "FREE" THEN "ACTIVE" ELSE "PENDING"
  <2>1. /\ held[h] = "none" /\ held'[h] = status
        /\ \A e \in Event : /\ ticket'[h][e] = (IF e \in future THEN status ELSE "none")
                            /\ pay'[h][e] = (IF payment_method = "ONLINE" /\ e \in future
                                              THEN "PENDING" ELSE "none")
        /\ UNCHANGED <<payment_method, paid, locked, missing, revived>>
    BY <1>1 DEF Purchase, TypeOK
  <2>2. HolderOK(h)'
    BY <1>0, <2>1 DEF HolderOK
  <2>3. ASSUME NEW e \in Event PROVE RowOK(h, e)'
    <3>1. RowOK(h, e)
      BY <1>0
    <3> QED
      BY <2>1, <3>1 DEF RowOK, IsLive
  <2> QED
    BY <2>2, <2>3 DEF Sane
<1>2. CASE BuyerPays(h)
  <2>1. HolderOK(h)'
    BY <1>0, <1>2 DEF BuyerPays, HolderOK, TypeOK
  <2>2. \A e \in Event : RowOK(h, e)'
    BY <1>0, <1>2 DEF BuyerPays, RowOK
  <2> QED
    BY <2>1, <2>2 DEF Sane
<1> QED
  BY <1>1, <1>2

LEMMA ReadingIsSane ==
  ASSUME TypeOK, NEW h \in Holder, Sane(h),
         \/ ConfirmReads(h) \/ WebhookReads(h) \/ WebhookFindsNothing(h)
         \/ WebhookFails(h) \/ WebhookWrites(h)
  PROVE  Sane(h)'
<1> USE DEF webhook, coverage, activation, history, rows
<1>0. HolderOK(h) /\ \A e \in Event : RowOK(h, e)
  BY DEF Sane
<1>1. CASE ConfirmReads(h)
  <2>1. /\ payment_method = "OFFLINE" /\ held[h] = "PENDING" /\ h \in locked'
        /\ missing'[h] = Missed(h)
        /\ UNCHANGED <<payment_method, held, ticket, pay, paid, started, revived>>
    BY <1>1 DEF ConfirmReads, TypeOK
  <2>2. HolderOK(h)'
    BY <1>0, <2>1 DEF HolderOK
  <2>3. ASSUME NEW e \in Event PROVE RowOK(h, e)'
    <3>1. RowOK(h, e) /\ ticket[h][e] \in TicketStatus
      BY <1>0 DEF TypeOK
    <3>2. e \in missing'[h] => ~IsLive(ticket[h][e])
      BY <2>1 DEF Missed, Ticketed
    <3> QED
      BY <2>1, <3>1, <3>2 DEF RowOK, IsLive, TicketStatus
  <2> QED
    BY <2>2, <2>3 DEF Sane
<1>2. CASE WebhookReads(h) \/ WebhookFindsNothing(h) \/ WebhookFails(h)
  <2>1. /\ UNCHANGED <<payment_method, held, ticket, pay, locked, missing, started, revived>>
        /\ paid[h] \in {"due", "read"}
    BY <1>2 DEF WebhookReads, WebhookFindsNothing, WebhookFails
  <2> QED
    BY <1>0, <2>1 DEF Sane, HolderOK, RowOK
<1>3. CASE WebhookWrites(h)
  <2>1. /\ paid[h] = "read" /\ h \in locked'
        /\ missing'[h] = IF held[h] = "PENDING" THEN Missed(h) ELSE {}
        /\ UNCHANGED <<payment_method, held, ticket, pay, paid, started, revived>>
    BY <1>3 DEF WebhookWrites, TypeOK
  <2>2. HolderOK(h)'
    BY <1>0, <2>1 DEF HolderOK
  <2>3. ASSUME NEW e \in Event PROVE RowOK(h, e)'
    <3>1. RowOK(h, e) /\ ticket[h][e] \in TicketStatus
      BY <1>0 DEF TypeOK
    <3>2. e \in missing'[h] => held[h] = "PENDING" /\ ~IsLive(ticket[h][e])
      BY <2>1 DEF Missed, Ticketed
    <3> QED
      BY <2>1, <3>1, <3>2 DEF RowOK, IsLive, TicketStatus
  <2> QED
    BY <2>2, <2>3 DEF Sane
<1> QED
  BY <1>1, <1>2, <1>3

LEMMA CommittingIsSane ==
  ASSUME TypeOK, NEW h \in Holder, Sane(h), ConfirmCommits(h) \/ WebhookCommits(h)
  PROVE  Sane(h)'
<1> USE DEF webhook, coverage, activation, history, rows
<1>0. HolderOK(h) /\ \A e \in Event : RowOK(h, e)
  BY DEF Sane
<1>1. CASE ConfirmCommits(h)
  <2>1. /\ payment_method = "OFFLINE" /\ h \in locked
        /\ held'[h] = "ACTIVE" /\ h \notin locked' /\ missing'[h] = {}
        /\ \A e \in Event : ticket'[h][e] = IF e \in Granted(h) \/ ticket[h][e] = "PENDING"
                                            THEN "ACTIVE" ELSE ticket[h][e]
        /\ UNCHANGED <<payment_method, pay, paid, started, revived>>
    BY <1>1 DEF ConfirmCommits, EndActivation, TypeOK
  <2>2. held[h] = "PENDING"
    BY <1>0, <2>1 DEF HolderOK
  <2>3. HolderOK(h)'
    BY <1>0, <2>1 DEF HolderOK
  <2>4. ASSUME NEW e \in Event PROVE RowOK(h, e)'
    <3>1. RowOK(h, e)
      BY <1>0
    <3> QED
      BY <2>1, <2>2, <3>1 DEF RowOK, IsLive
  <2> QED
    BY <2>3, <2>4 DEF Sane
<1>2. CASE WebhookCommits(h)
  <2> DEFINE charged == {e \in Event : pay[h][e] # "none"}
             confirmed == {e \in charged : seen[h][e] # "CANCELLED"}
  <2>1. /\ paid[h] = "read" /\ h \in locked
        /\ h \notin locked' /\ missing'[h] = {} /\ paid'[h] = "done"
        /\ held'[h] = IF held[h] = "PENDING" THEN "ACTIVE" ELSE held[h]
        /\ UNCHANGED <<payment_method, started>>
    BY <1>2 DEF WebhookCommits, EndActivation, TypeOK
  <2>2. ASSUME NEW e \in Event
        PROVE  /\ ticket'[h][e] = IF e \in confirmed \cup Granted(h) THEN "ACTIVE" ELSE ticket[h][e]
               /\ pay'[h][e] = IF e \in charged THEN "SUCCEEDED" ELSE pay[h][e]
               /\ (<<h, e>> \in revived'
                    <=> (<<h, e>> \in revived \/ (e \in confirmed /\ ticket[h][e] = "CANCELLED")))
    <3>1. /\ ticket'[h][e] = IF e \in confirmed \cup Granted(h) THEN "ACTIVE" ELSE ticket[h][e]
          /\ pay'[h][e] = IF e \in charged THEN "SUCCEEDED" ELSE pay[h][e]
      BY <1>2 DEF WebhookCommits, TypeOK
    <3>2. (<<h, e>> \in revived'
                    <=> (<<h, e>> \in revived \/ (e \in confirmed /\ ticket[h][e] = "CANCELLED")))
      BY <1>2 DEF WebhookCommits
    <3> QED
      BY <3>1, <3>2
  <2>3. HolderOK(h)'
    BY <1>0, <2>1 DEF HolderOK
  <2>4. ASSUME NEW e \in Event PROVE RowOK(h, e)'
    <3>1. RowOK(h, e) /\ ticket[h][e] \in TicketStatus /\ held[h] \in TicketStatus
      BY <1>0 DEF TypeOK
    <3>2. e \in Granted(h) => e \in missing[h]
      BY DEF Granted
    <3>3. payment_method = "ONLINE"
      BY <1>0, <2>1 DEF HolderOK
    <3>4. pay[h][e] # "none" <=> e \in charged
      OBVIOUS
    <3>5. e \in confirmed => e \in charged
      OBVIOUS
    <3> HIDE DEF charged, confirmed
    <3> QED
      BY <2>1, <2>2, <3>1, <3>2, <3>3, <3>4, <3>5 DEF RowOK, IsLive, TicketStatus
  <2> QED
    BY <2>3, <2>4 DEF Sane
<1> QED
  BY <1>1, <1>2

LEMMA GivingBackIsSane ==
  ASSUME TypeOK, NEW h \in Holder, Sane(h), CancelHeldPass(h) \/ ReclaimReservation(h)
  PROVE  Sane(h)'
<1> USE DEF webhook, coverage, activation, history, rows
<1>0. HolderOK(h) /\ \A e \in Event : RowOK(h, e)
  BY DEF Sane
<1>1. CASE CancelHeldPass(h)
  <2>1. /\ IsLive(held[h]) /\ h \notin locked /\ held'[h] = "CANCELLED"
        /\ UNCHANGED <<payment_method, locked, missing, paid, started, revived>>
    BY <1>1 DEF CancelHeldPass, TypeOK
  <2>2. ASSUME NEW e \in Event
        PROVE  /\ ticket'[h][e] = IF e \in Ticketed(h) \ started THEN "CANCELLED" ELSE ticket[h][e]
               /\ pay'[h][e] # "none" => pay[h][e] # "none"
    BY <1>1 DEF CancelHeldPass, TypeOK
  <2>3. HolderOK(h)'
    BY <1>0, <2>1 DEF HolderOK
  <2>4. ASSUME NEW e \in Event PROVE RowOK(h, e)'
    <3>1. RowOK(h, e)
      BY <1>0
    <3> QED
      BY <2>1, <2>2, <3>1 DEF RowOK, IsLive, Ticketed
  <2> QED
    BY <2>3, <2>4 DEF Sane
<1>2. CASE ReclaimReservation(h)
  <2>1. /\ PendingPayments(h) # {} /\ h \notin locked
        /\ held'[h] = IF held[h] = "PENDING" THEN "CANCELLED" ELSE held[h]
        /\ UNCHANGED <<payment_method, locked, missing, paid, started, revived>>
    BY <1>2 DEF ReclaimReservation, Claimed, TypeOK
  <2>2. ASSUME NEW e \in Event
        PROVE  /\ pay'[h][e] = IF pay[h][e] = "PENDING" THEN "none" ELSE pay[h][e]
               /\ ticket'[h][e] = IF pay[h][e] = "PENDING" /\ ticket[h][e] = "PENDING"
                                  THEN "none" ELSE ticket[h][e]
    BY <1>2 DEF ReclaimReservation, PendingPayments, TypeOK
  <2>3. payment_method = "ONLINE" /\ held[h] # "ACTIVE"
    <3>1. PICK e \in Event : pay[h][e] = "PENDING"
      BY <2>1 DEF PendingPayments
    <3> QED
      BY <1>0, <3>1 DEF RowOK
  <2>4. HolderOK(h)'
    BY <1>0, <2>1 DEF HolderOK
  <2>5. ASSUME NEW e \in Event PROVE RowOK(h, e)'
    <3>1. RowOK(h, e)
      BY <1>0
    <3> QED
      BY <2>1, <2>2, <2>3, <3>1 DEF RowOK, IsLive
  <2> QED
    BY <2>4, <2>5 DEF Sane
<1> QED
  BY <1>1, <1>2

LEMMA ExtendingIsSane ==
  ASSUME TypeOK, NEW h \in Holder, Sane(h), NEW x \in Event, Extend(x, h) \/ ExtensionSkips(x, h)
  PROVE  Sane(h)'
<1> USE DEF webhook, coverage, activation, history, rows
<1>0. HolderOK(h) /\ \A e \in Event : RowOK(h, e)
  BY DEF Sane
<1>1. CASE Extend(x, h)
  <2>1. /\ held[h] = "ACTIVE" /\ h \notin locked
        /\ UNCHANGED <<payment_method, held, pay, locked, missing, paid, started, revived>>
    BY <1>1 DEF Extend, StillActive
  <2>2. \A e \in Event : ticket'[h][e] = ticket[h][e] \/ ticket'[h][e] = "ACTIVE"
    BY <1>1 DEF Extend, TypeOK
  <2>3. HolderOK(h)'
    BY <1>0, <2>1 DEF HolderOK
  <2>4. ASSUME NEW e \in Event PROVE RowOK(h, e)'
    <3>1. RowOK(h, e)
      BY <1>0
    <3> QED
      BY <2>1, <2>2, <3>1 DEF RowOK, IsLive
  <2> QED
    BY <2>3, <2>4 DEF Sane
<1>2. CASE ExtensionSkips(x, h)
  BY <1>0, <1>2 DEF ExtensionSkips, Sane, HolderOK, RowOK
<1> QED
  BY <1>1, <1>2

LEMMA RowsStep == TypeOK /\ RowsOK /\ [Next]_vars => RowsOK'
<1> SUFFICES ASSUME TypeOK, RowsOK, [Next]_vars, NEW g \in Holder
             PROVE  HolderOK(g)' /\ \A e \in Event : RowOK(g, e)'
  BY DEF RowsOK
<1>1. ASSUME NEW h \in Holder, HolderStep(h)
      PROVE  HolderOK(g)' /\ \A e \in Event : RowOK(g, e)'
  <2>1. CASE g # h
    BY <1>1, <2>1, OthersUntouched, UntouchedKeeps
  <2>2. CASE g = h
    <3>1. Sane(h)
      BY DEF Sane, RowsOK
    <3>2. Sane(h)'
      BY <1>1, <3>1, BuyingIsSane, ReadingIsSane, CommittingIsSane, GivingBackIsSane, ExtendingIsSane
         DEF HolderStep
    <3> QED
      BY <2>2, <3>2 DEF Sane
  <2> QED
    BY <2>1, <2>2
<1>2. CASE CoverageStep
  BY <1>2, CoverageLeavesRows, UntouchedKeeps
<1>3. CASE UNCHANGED vars
  <2>1. Untouched(g)
    BY <1>3 DEF vars, rows, coverage, webhook, activation, history, Untouched
  <2> QED
    BY <2>1, UntouchedKeeps
<1> QED
  BY <1>1, <1>2, <1>3, StepsAreOneHoldersOrNone

-----------------------------------------------------------------------------
(* The invariant of coverage: an ACTIVE holder, or one whose activation is *)
(* open, has a live ticket for a covered event to come, or that activation *)
(* is about to backfill it, unless an extension has still to reach it.     *)

Promised(h, e) ==
  /\ held[h] = "ACTIVE" \/ (held[h] = "PENDING" /\ h \in locked)
  /\ e \notin queued /\ h \notin todo[e] /\ <<h, e>> \notin skipped

KeptUp(h) ==
  \A e \in links \ started : Promised(h, e) => IsLive(ticket[h][e]) \/ e \in missing[h]

SameCoverage(h) ==
  /\ links' = links /\ started' = started /\ queued' = queued
  /\ \A e \in Event : /\ h \in todo'[e] <=> h \in todo[e]
                      /\ <<h, e>> \in skipped' <=> <<h, e>> \in skipped

LEMMA SameCoverageOfOthers ==
  ASSUME TypeOK, NEW h \in Holder, HolderStep(h), NEW g \in Holder \ {h}
  PROVE  SameCoverage(g)
<1> USE DEF webhook, coverage, activation, history, rows, SameCoverage
<1>1. CASE Purchase(h) \/ BuyerPays(h) \/ ConfirmReads(h)
  BY <1>1 DEF Purchase, BuyerPays, ConfirmReads
<1>2. CASE ConfirmCommits(h)
  BY <1>2 DEF ConfirmCommits, EndActivation
<1>3. CASE WebhookReads(h) \/ WebhookFindsNothing(h) \/ WebhookFails(h) \/ WebhookWrites(h)
  BY <1>3 DEF WebhookReads, WebhookFindsNothing, WebhookFails, WebhookWrites
<1>4. CASE WebhookCommits(h)
  BY <1>4 DEF WebhookCommits, EndActivation
<1>5. CASE CancelHeldPass(h) \/ ReclaimReservation(h)
  BY <1>5 DEF CancelHeldPass, ReclaimReservation
<1>6. ASSUME NEW e \in Event, Extend(e, h) PROVE SameCoverage(g)
  BY <1>6 DEF Extend, TypeOK
<1>7. ASSUME NEW e \in Event, ExtensionSkips(e, h) PROVE SameCoverage(g)
  BY <1>7 DEF ExtensionSkips, TypeOK
<1> QED
  BY <1>1, <1>2, <1>3, <1>4, <1>5, <1>6, <1>7 DEF HolderStep

LEMMA UntouchedKeepsUp ==
  ASSUME TypeOK, NEW g \in Holder, Untouched(g), SameCoverage(g), KeptUp(g)
  PROVE  KeptUp(g)'
<1> SUFFICES ASSUME NEW e \in (links \ started)', Promised(g, e)'
             PROVE  IsLive(ticket'[g][e]) \/ e \in missing'[g]
  BY DEF KeptUp
<1>1. e \in links \ started /\ e \in Event
  BY DEF SameCoverage, TypeOK
<1>2. Promised(g, e)
  BY <1>1 DEF Promised, SameCoverage, Untouched
<1>3. IsLive(ticket[g][e]) \/ e \in missing[g]
  BY <1>1, <1>2 DEF KeptUp
<1> QED
  BY <1>3 DEF Untouched

LEMMA HolderKeepsUp ==
  ASSUME TypeOK, NEW h \in Holder, Sane(h), KeptUp(h), HolderStep(h)
  PROVE  KeptUp(h)'
<1> USE DEF webhook, coverage, activation, history, rows
<1>0. HolderOK(h) /\ \A e \in Event : RowOK(h, e)
  BY DEF Sane
<1> SUFFICES ASSUME NEW e \in (links \ started)', Promised(h, e)'
             PROVE  IsLive(ticket'[h][e]) \/ e \in missing'[h]
  BY DEF KeptUp
<1>a. /\ links' = links /\ started' = started /\ queued' = queued
  BY DEF HolderStep, Purchase, BuyerPays, ConfirmReads, ConfirmCommits, WebhookReads, WebhookFindsNothing,
         WebhookFails, WebhookWrites, WebhookCommits, CancelHeldPass, ReclaimReservation, Extend, ExtensionSkips
<1>b. e \in links /\ e \notin started /\ e \in Event /\ RowOK(h, e)
  BY <1>0, <1>a DEF TypeOK
<1>c. Promised(h, e) => IsLive(ticket[h][e]) \/ e \in missing[h]
  BY <1>b DEF KeptUp
<1>1. CASE Purchase(h)
  <2>1. /\ held'[h] = IF payment_method = "FREE" THEN "ACTIVE" ELSE "PENDING"
        /\ ticket'[h][e] = IF payment_method = "FREE" THEN "ACTIVE" ELSE "PENDING"
    BY <1>1, <1>b DEF Purchase, TypeOK
  <2> QED
    BY <2>1 DEF IsLive
<1>2. CASE BuyerPays(h) \/ WebhookReads(h) \/ WebhookFindsNothing(h) \/ WebhookFails(h)
  <2>1. UNCHANGED <<held, ticket, missing, locked, todo, skipped, queued>>
    BY <1>2 DEF BuyerPays, WebhookReads, WebhookFindsNothing, WebhookFails
  <2> QED
    BY <1>c, <2>1 DEF Promised
<1>3. CASE ConfirmReads(h) \/ WebhookWrites(h)
  <2>1. /\ UNCHANGED <<held, ticket, todo, skipped, queued>>
        /\ missing'[h] = IF held[h] = "PENDING" THEN Missed(h) ELSE {}
    BY <1>3 DEF ConfirmReads, WebhookWrites, TypeOK
  <2>2. CASE held[h] = "PENDING"
    BY <1>b, <2>1, <2>2 DEF Missed, Ticketed
  <2>3. CASE held[h] # "PENDING"
    <3>1. Promised(h, e)
      BY <2>1, <2>3 DEF Promised
    <3> QED
      BY <1>b, <1>c, <2>1, <2>3, <3>1 DEF RowOK
  <2> QED
    BY <2>2, <2>3
<1>4. CASE ConfirmCommits(h) \/ WebhookCommits(h)
  <2>1. /\ UNCHANGED <<todo, queued>> /\ h \in locked
        /\ skipped' = skipped \cup {<<h, d>> : d \in missing[h] \ Granted(h)}
    BY <1>4 DEF ConfirmCommits, WebhookCommits, EndActivation
  <2>2. /\ e \in Granted(h) => ticket'[h][e] = "ACTIVE"
        /\ IsLive(ticket[h][e]) => IsLive(ticket'[h][e])
    <3>1. CASE ConfirmCommits(h)
      BY <1>b, <3>1 DEF ConfirmCommits, TypeOK, IsLive
    <3>2. CASE WebhookCommits(h)
      BY <1>b, <3>2 DEF WebhookCommits, TypeOK, IsLive
    <3> QED
      BY <1>4, <3>1, <3>2
  <2>3. held[h] = "ACTIVE" \/ held[h] = "PENDING"
    <3>1. CASE ConfirmCommits(h)
      <4>1. payment_method = "OFFLINE"
        BY <3>1 DEF ConfirmCommits
      <4> QED
        BY <1>0, <2>1, <4>1 DEF HolderOK
    <3>2. CASE WebhookCommits(h)
      <4>1. held'[h] = IF held[h] = "PENDING" THEN "ACTIVE" ELSE held[h]
        BY <3>2 DEF WebhookCommits, TypeOK
      <4> QED
        BY <4>1 DEF Promised
    <3> QED
      BY <1>4, <3>1, <3>2
  <2>4. Promised(h, e)
    BY <2>1, <2>3 DEF Promised
  <2>5. e \in missing[h] => e \in Granted(h)
    BY <2>1 DEF Promised
  <2> QED
    BY <1>c, <2>2, <2>4, <2>5 DEF IsLive
<1>5. CASE CancelHeldPass(h)
  <2>1. held'[h] = "CANCELLED"
    BY <1>5 DEF CancelHeldPass, TypeOK
  <2> QED
    BY <2>1 DEF Promised
<1>6. CASE ReclaimReservation(h)
  <2>1. /\ UNCHANGED <<todo, queued, skipped, locked, missing>>
        /\ held'[h] = IF held[h] = "PENDING" THEN "CANCELLED" ELSE held[h]
        /\ \E d \in Event : pay[h][d] = "PENDING"
    BY <1>6 DEF ReclaimReservation, Claimed, PendingPayments, TypeOK
  <2>2. held[h] # "ACTIVE"
    BY <1>0, <2>1 DEF RowOK
  <2> QED
    BY <2>1, <2>2 DEF Promised
<1>7. ASSUME NEW x \in Event, Extend(x, h)
      PROVE  IsLive(ticket'[h][e]) \/ e \in missing'[h]
  <2>1. /\ UNCHANGED <<held, locked, queued, skipped, missing>>
        /\ todo' = [todo EXCEPT ![x] = todo[x] \ {h}]
    BY <1>7 DEF Extend
  <2>2. CASE e = x
    <3>1. CASE IsLive(ticket[h][x])
      BY <1>7, <2>2, <3>1 DEF Extend
    <3>2. CASE ~IsLive(ticket[h][x])
      BY <1>7, <2>2, <3>2 DEF Extend, TypeOK, IsLive
    <3> QED
      BY <3>1, <3>2
  <2>3. CASE e # x
    <3>1. ticket'[h][e] = ticket[h][e] /\ todo'[e] = todo[e]
      BY <1>7, <1>b, <2>1, <2>3 DEF Extend, TypeOK
    <3>2. Promised(h, e)
      BY <2>1, <3>1 DEF Promised
    <3> QED
      BY <1>c, <2>1, <3>1, <3>2
  <2> QED
    BY <2>2, <2>3
<1>8. ASSUME NEW x \in Event, ExtensionSkips(x, h)
      PROVE  IsLive(ticket'[h][e]) \/ e \in missing'[h]
  <2>1. /\ UNCHANGED <<held, ticket, locked, queued, missing>> /\ h \notin locked
        /\ todo' = [todo EXCEPT ![x] = todo[x] \ {h}]
        /\ held[h] = "ACTIVE" => skipped' = skipped \cup {<<h, x>>}
        /\ held[h] # "ACTIVE" => skipped' = skipped
    BY <1>8 DEF ExtensionSkips, StillActive
  <2>2. held[h] = "ACTIVE"
    BY <2>1 DEF Promised
  <2>3. e # x /\ <<h, e>> \notin skipped
    BY <2>1, <2>2 DEF Promised
  <2>4. todo'[e] = todo[e]
    BY <1>b, <2>1, <2>3 DEF TypeOK
  <2>5. Promised(h, e)
    BY <2>1, <2>2, <2>3, <2>4 DEF Promised
  <2> QED
    BY <1>c, <2>1, <2>5
<1> QED
  BY <1>1, <1>2, <1>3, <1>4, <1>5, <1>6, <1>7, <1>8 DEF HolderStep

LEMMA CoverageKeepsUp ==
  ASSUME TypeOK, NEW h \in Holder, Sane(h), KeptUp(h), CoverageStep
  PROVE  KeptUp(h)'
<1> USE DEF webhook, coverage, activation, history, rows
<1> SUFFICES ASSUME NEW e \in (links \ started)', Promised(h, e)'
             PROVE  IsLive(ticket'[h][e]) \/ e \in missing'[h]
  BY DEF KeptUp
<1>a. UNCHANGED <<held, ticket, locked, missing>>
  BY DEF CoverageStep, AddLink, ExtensionStarts, RemovalFindsNoHolder, RemoveLink, EventStarts
<1>b. (e \in links \ started /\ Promised(h, e)) => IsLive(ticket[h][e]) \/ e \in missing[h]
  BY DEF KeptUp
<1>1. ASSUME NEW x \in Event, AddLink(x)
      PROVE  IsLive(ticket'[h][e]) \/ e \in missing'[h]
  BY <1>1, <1>a, <1>b DEF AddLink, Promised
<1>2. ASSUME NEW x \in Event, ExtensionStarts(x)
      PROVE  IsLive(ticket'[h][e]) \/ e \in missing'[h]
  <2>1. /\ queued' = queued \ {x} /\ UNCHANGED <<links, started>>
        /\ todo' = [todo EXCEPT ![x] = IF x \in links THEN {g \in Holder : held[g] = "ACTIVE"} ELSE {}]
        /\ \A g \in locked : x \notin missing[g] => <<g, x>> \in skipped'
        /\ skipped \subseteq skipped'
    BY <1>2 DEF ExtensionStarts
  <2>2. e \in links \ started /\ e \in Event
    BY <2>1 DEF TypeOK
  <2>3. CASE e = x
    <3>1. held[h] # "ACTIVE"
      BY <1>a, <2>1, <2>2, <2>3 DEF Promised, TypeOK
    <3> QED
      BY <1>a, <2>1, <2>3, <3>1 DEF Promised
  <2>4. CASE e # x
    <3>1. todo'[e] = todo[e]
      BY <2>1, <2>2, <2>4 DEF TypeOK
    <3>2. Promised(h, e)
      BY <1>a, <2>1, <2>4, <3>1 DEF Promised
    <3> QED
      BY <1>a, <1>b, <2>2, <3>2
  <2> QED
    BY <2>3, <2>4
<1>3. ASSUME NEW x \in Event, RemovalFindsNoHolder(x) \/ RemoveLink(x) \/ EventStarts(x)
      PROVE  IsLive(ticket'[h][e]) \/ e \in missing'[h]
  <2>1. /\ UNCHANGED <<queued, todo, skipped>> /\ e \in links \ started
    BY <1>3 DEF RemovalFindsNoHolder, RemoveLink, EventStarts
  <2> QED
    BY <1>a, <1>b, <2>1 DEF Promised
<1> QED
  BY <1>1, <1>2, <1>3 DEF CoverageStep

-----------------------------------------------------------------------------
(* Counting holders. *)

LEMMA HoldersCount ==
  ASSUME NEW S \in SUBSET Holder
  PROVE  IsFiniteSet(S) /\ Cardinality(S) \in Nat
BY HolderAssumption, FS_Subset, FS_CardinalityType

LEMMA OneJoins ==
  ASSUME NEW S \in SUBSET Holder, NEW h \in Holder \ S
  PROVE  Cardinality(S \cup {h}) = Cardinality(S) + 1
BY HoldersCount, FS_AddElement

LEMMA OneLeaves ==
  ASSUME NEW S \in SUBSET Holder, NEW h \in S
  PROVE  Cardinality(S \ {h}) = Cardinality(S) - 1 /\ Cardinality(S) > 0
<1>1. h \in Holder /\ S \ {h} \in SUBSET Holder
  OBVIOUS
<1>2. Cardinality(S \ {h}) = Cardinality(S) - 1
  BY HoldersCount, FS_RemoveElement
<1>3. Cardinality(S \ {h}) \in Nat /\ Cardinality(S) \in Nat
  BY <1>1, HoldersCount
<1> QED
  BY <1>2, <1>3

(* Two sets of holders that differ in one holder at most. *)
LEMMA CountsMove ==
  ASSUME NEW S \in SUBSET Holder, NEW T \in SUBSET Holder, NEW h \in Holder,
         \A g \in Holder \ {h} : g \in T <=> g \in S
  PROVE  /\ (h \in S <=> h \in T) => Cardinality(T) = Cardinality(S)
         /\ h \notin S /\ h \in T => Cardinality(T) = Cardinality(S) + 1
         /\ h \in S /\ h \notin T => Cardinality(T) = Cardinality(S) - 1 /\ Cardinality(S) > 0
<1>1. ASSUME h \in S <=> h \in T PROVE T = S
  BY <1>1
<1>2. ASSUME h \notin S, h \in T PROVE T = S \cup {h}
  BY <1>2
<1>3. ASSUME h \in S, h \notin T PROVE T = S \ {h}
  BY <1>3
<1> QED
  BY <1>1, <1>2, <1>3, OneJoins, OneLeaves

(* The holders a tier counts. *)
OnTier(e) == {h \in Holder : IsLive(ticket[h][e]) /\ <<h, e>> \notin revived}

TiersCounted == \A e \in Event : sold[e] = Cardinality(OnTier(e))

LEMMA TierFollows ==
  ASSUME TypeOK, TiersCounted, NEW h \in Holder, HolderStep(h), NEW e \in Event,
         \/ (h \in OnTier(e) <=> h \in OnTier(e)') /\ sold'[e] = sold[e]
         \/ h \notin OnTier(e) /\ h \in OnTier(e)' /\ sold'[e] = sold[e] + 1
         \/ h \in OnTier(e) /\ h \notin OnTier(e)' /\ sold'[e] = FlooredAtZero(sold[e] - 1)
  PROVE  sold'[e] = Cardinality(OnTier(e)')
<1>1. OnTier(e) \in SUBSET Holder /\ OnTier(e)' \in SUBSET Holder
  BY DEF OnTier
<1>2. \A g \in Holder \ {h} : g \in OnTier(e)' <=> g \in OnTier(e)
  BY OthersUntouched DEF Untouched, OnTier
<1>3. sold[e] = Cardinality(OnTier(e)) /\ Cardinality(OnTier(e)) \in Nat
  BY <1>1, HoldersCount DEF TiersCounted
<1>4. /\ (h \in OnTier(e) <=> h \in OnTier(e)') => Cardinality(OnTier(e)') = Cardinality(OnTier(e))
      /\ h \notin OnTier(e) /\ h \in OnTier(e)' => Cardinality(OnTier(e)') = Cardinality(OnTier(e)) + 1
      /\ h \in OnTier(e) /\ h \notin OnTier(e)'
           => Cardinality(OnTier(e)') = Cardinality(OnTier(e)) - 1 /\ Cardinality(OnTier(e)) > 0
  BY <1>1, <1>2, CountsMove
<1> QED
  BY <1>3, <1>4 DEF FlooredAtZero

LEMMA TiersStep ==
  ASSUME TypeOK, RowsOK, TiersCounted, [Next]_vars
  PROVE  TiersCounted'
<1> USE DEF webhook, coverage, activation, history, rows
<1> SUFFICES ASSUME NEW e \in Event PROVE sold'[e] = Cardinality(OnTier(e)')
  BY DEF TiersCounted
<1>1. ASSUME NEW h \in Holder, HolderStep(h) PROVE sold'[e] = Cardinality(OnTier(e)')
  <2>0. HolderOK(h) /\ RowOK(h, e) /\ ticket[h][e] \in TicketStatus /\ held[h] \in TicketStatus
    BY DEF RowsOK, TypeOK
  <2>o. /\ h \in OnTier(e) <=> IsLive(ticket[h][e]) /\ <<h, e>> \notin revived
        /\ h \in OnTier(e)' <=> IsLive(ticket'[h][e]) /\ <<h, e>> \notin revived'
    BY DEF OnTier
  <2> SUFFICES \/ (h \in OnTier(e) <=> h \in OnTier(e)') /\ sold'[e] = sold[e]
               \/ h \notin OnTier(e) /\ h \in OnTier(e)' /\ sold'[e] = sold[e] + 1
               \/ h \in OnTier(e) /\ h \notin OnTier(e)' /\ sold'[e] = FlooredAtZero(sold[e] - 1)
    BY <1>1, TierFollows
  <2>1. CASE Purchase(h)
    <3>1. /\ held[h] = "none" /\ revived' = revived
          /\ ticket'[h][e] = IF e \in links \ started
                             THEN (IF payment_method = "FREE" THEN "ACTIVE" ELSE "PENDING") ELSE "none"
          /\ sold'[e] = IF e \in links \ started THEN sold[e] + 1 ELSE sold[e]
      BY <2>1 DEF Purchase, Counted, TypeOK
    <3> QED
      BY <2>0, <2>o, <3>1 DEF RowOK, IsLive
  <2>2. CASE \/ BuyerPays(h) \/ ConfirmReads(h) \/ WebhookReads(h) \/ WebhookFindsNothing(h)
             \/ WebhookFails(h) \/ WebhookWrites(h)
    <3>1. UNCHANGED <<ticket, revived, sold>>
      BY <2>2 DEF BuyerPays, ConfirmReads, WebhookReads, WebhookFindsNothing, WebhookFails, WebhookWrites
    <3> QED
      BY <2>o, <3>1
  <2>3. CASE ConfirmCommits(h)
    <3>1. /\ payment_method = "OFFLINE" /\ h \in locked /\ revived' = revived
          /\ ticket'[h][e] = IF e \in Granted(h) \/ ticket[h][e] = "PENDING"
                             THEN "ACTIVE" ELSE ticket[h][e]
          /\ sold'[e] = IF e \in Granted(h) THEN sold[e] + 1 ELSE sold[e]
      BY <2>3 DEF ConfirmCommits, EndActivation, Counted, TypeOK
    <3>2. held[h] = "PENDING" /\ (e \in Granted(h) => e \in missing[h])
      BY <2>0, <3>1 DEF HolderOK, Granted
    <3> QED
      BY <2>0, <2>o, <3>1, <3>2 DEF RowOK, IsLive
  <2>4. CASE WebhookCommits(h)
    <3> DEFINE confirmed == pay[h][e] # "none" /\ seen[h][e] # "CANCELLED"
    <3>1. /\ ticket'[h][e] = IF confirmed \/ e \in Granted(h) THEN "ACTIVE" ELSE ticket[h][e]
          /\ sold'[e] = IF e \in Granted(h) THEN sold[e] + 1 ELSE sold[e]
      BY <2>4 DEF WebhookCommits, EndActivation, Counted, TypeOK
    <3>2. <<h, e>> \in revived'
             <=> (<<h, e>> \in revived \/ (confirmed /\ ticket[h][e] = "CANCELLED"))
      BY <2>4 DEF WebhookCommits
    <3>3. e \in Granted(h) => e \in missing[h]
      BY DEF Granted
    <3>4. confirmed => ticket[h][e] # "none"
      BY <2>0 DEF RowOK
    <3> HIDE DEF confirmed
    <3>5. CASE e \in Granted(h)
      <4>1. h \notin OnTier(e) /\ h \in OnTier(e)'
        BY <2>0, <2>o, <3>1, <3>2, <3>3, <3>5 DEF RowOK, IsLive
      <4> QED
        BY <3>1, <3>5, <4>1
    <3>6. CASE e \notin Granted(h)
      <4>1. h \in OnTier(e) <=> h \in OnTier(e)'
        BY <2>0, <2>o, <3>1, <3>2, <3>4, <3>6 DEF RowOK, IsLive, TicketStatus
      <4> QED
        BY <3>1, <3>6, <4>1
    <3> QED
      BY <3>5, <3>6
  <2>5. CASE CancelHeldPass(h)
    <3>1. /\ IsLive(held[h]) /\ revived' = revived
          /\ ticket'[h][e] = IF IsLive(ticket[h][e]) /\ e \notin started THEN "CANCELLED" ELSE ticket[h][e]
          /\ sold'[e] = IF IsLive(ticket[h][e]) /\ e \notin started
                        THEN FlooredAtZero(sold[e] - 1) ELSE sold[e]
      BY <2>5 DEF CancelHeldPass, Uncounted, Ticketed, TypeOK
    <3> QED
      BY <2>0, <2>o, <3>1 DEF RowOK, IsLive
  <2>6. CASE ReclaimReservation(h)
    <3>1. /\ revived' = revived
          /\ ticket'[h][e] = IF pay[h][e] = "PENDING" /\ ticket[h][e] = "PENDING"
                             THEN "none" ELSE ticket[h][e]
          /\ sold'[e] = IF pay[h][e] = "PENDING" /\ ticket[h][e] = "PENDING"
                        THEN FlooredAtZero(sold[e] - 1) ELSE sold[e]
      BY <2>6 DEF ReclaimReservation, PendingPayments, Uncounted, TypeOK
    <3> QED
      BY <2>0, <2>o, <3>1 DEF RowOK, IsLive
  <2>7. ASSUME NEW x \in Event, Extend(x, h)
        PROVE  \/ (h \in OnTier(e) <=> h \in OnTier(e)') /\ sold'[e] = sold[e]
               \/ h \notin OnTier(e) /\ h \in OnTier(e)' /\ sold'[e] = sold[e] + 1
    <3>1. held[h] = "ACTIVE" /\ revived' = revived
      BY <2>7 DEF Extend, StillActive
    <3>2. CASE IsLive(ticket[h][x])
      BY <2>7, <2>o, <3>1, <3>2 DEF Extend
    <3>3. CASE ~IsLive(ticket[h][x])
      <4>1. ticket' = [ticket EXCEPT ![h][x] = "ACTIVE"] /\ sold' = Counted({x})
        BY <2>7, <3>3 DEF Extend
      <4>2. /\ ticket'[h][e] = IF e = x THEN "ACTIVE" ELSE ticket[h][e]
            /\ sold'[e] = IF e = x THEN sold[e] + 1 ELSE sold[e]
        BY <4>1 DEF Counted, TypeOK
      <4> QED
        BY <2>0, <2>o, <3>1, <3>3, <4>2 DEF RowOK, IsLive
    <3> QED
      BY <3>2, <3>3
  <2>8. ASSUME NEW x \in Event, ExtensionSkips(x, h)
        PROVE  (h \in OnTier(e) <=> h \in OnTier(e)') /\ sold'[e] = sold[e]
    <3>1. UNCHANGED <<ticket, revived, sold>>
      BY <2>8 DEF ExtensionSkips
    <3> QED
      BY <2>o, <3>1
  <2> QED
    BY <1>1, <2>1, <2>2, <2>3, <2>4, <2>5, <2>6, <2>7, <2>8, Zenon DEF HolderStep
<1>2. CASE CoverageStep \/ UNCHANGED vars
  <2>1. UNCHANGED <<ticket, revived, sold>>
    BY <1>2 DEF CoverageStep, AddLink, ExtensionStarts, RemovalFindsNoHolder, RemoveLink, EventStarts, vars
  <2> QED
    BY <2>1 DEF TiersCounted, OnTier
<1> QED
  BY <1>1, <1>2, StepsAreOneHoldersOrNone

-----------------------------------------------------------------------------
LEMMA PassesStep ==
  ASSUME TypeOK, RowsOK, passes_sold = Cardinality(Holders), [Next]_vars
  PROVE  passes_sold' = Cardinality(Holders')
<1> USE DEF webhook, coverage, activation, history, rows
<1>1. ASSUME NEW h \in Holder, HolderStep(h) PROVE passes_sold' = Cardinality(Holders')
  <2>1. Holders \in SUBSET Holder /\ Holders' \in SUBSET Holder
    BY DEF Holders
  <2>2. \A g \in Holder \ {h} : g \in Holders' <=> g \in Holders
    BY <1>1, OthersUntouched DEF Untouched, Holders
  <2>3. /\ (h \in Holders <=> h \in Holders') => Cardinality(Holders') = Cardinality(Holders)
        /\ h \notin Holders /\ h \in Holders' => Cardinality(Holders') = Cardinality(Holders) + 1
        /\ h \in Holders /\ h \notin Holders'
             => Cardinality(Holders') = Cardinality(Holders) - 1 /\ Cardinality(Holders) > 0
    BY <2>1, <2>2, CountsMove
  <2>4. passes_sold \in Nat /\ Cardinality(Holders) \in Nat
    BY <2>1, HoldersCount
  <2>h. /\ h \in Holders <=> IsLive(held[h])
        /\ h \in Holders' <=> IsLive(held'[h])
    BY DEF Holders
  <2>5. CASE Purchase(h)
    <3>1. /\ held[h] = "none" /\ held'[h] \in {"ACTIVE", "PENDING"} /\ passes_sold' = passes_sold + 1
      BY <2>5 DEF Purchase, TypeOK
    <3> QED
      BY <2>3, <2>h, <3>1 DEF IsLive
  <2>6. CASE CancelHeldPass(h)
    <3>1. /\ IsLive(held[h]) /\ held'[h] = "CANCELLED" /\ passes_sold' = FlooredAtZero(passes_sold - 1)
      BY <2>6 DEF CancelHeldPass, TypeOK
    <3> QED
      BY <2>3, <2>4, <2>h, <3>1 DEF IsLive, FlooredAtZero
  <2>7. CASE ReclaimReservation(h)
    <3>1. CASE held[h] = "PENDING"
      <4>1. held'[h] = "CANCELLED" /\ passes_sold' = FlooredAtZero(passes_sold - 1)
        BY <2>7, <3>1 DEF ReclaimReservation, Claimed, TypeOK
      <4> QED
        BY <2>3, <2>4, <2>h, <3>1, <4>1 DEF IsLive, FlooredAtZero
    <3>2. CASE held[h] # "PENDING"
      <4>1. held' = held /\ passes_sold' = passes_sold
        BY <2>7, <3>2 DEF ReclaimReservation, Claimed
      <4> QED
        BY <2>3, <2>h, <4>1
    <3> QED
      BY <3>1, <3>2
  <2>8. CASE ConfirmCommits(h)
    <3>1. payment_method = "OFFLINE" /\ h \in locked /\ held'[h] = "ACTIVE" /\ passes_sold' = passes_sold
      BY <2>8 DEF ConfirmCommits, TypeOK
    <3>2. held[h] = "PENDING"
      BY <3>1 DEF RowsOK, HolderOK
    <3> QED
      BY <2>3, <2>h, <3>1, <3>2 DEF IsLive
  <2>9. CASE WebhookCommits(h)
    <3>1. held'[h] = (IF held[h] = "PENDING" THEN "ACTIVE" ELSE held[h]) /\ passes_sold' = passes_sold
      BY <2>9 DEF WebhookCommits, TypeOK
    <3> QED
      BY <2>3, <2>h, <3>1 DEF IsLive
  <2>10. CASE \/ BuyerPays(h) \/ ConfirmReads(h) \/ WebhookReads(h) \/ WebhookFindsNothing(h)
              \/ WebhookFails(h) \/ WebhookWrites(h)
              \/ \E e \in Event : Extend(e, h) \/ ExtensionSkips(e, h)
    <3>1. UNCHANGED <<held, passes_sold>>
      BY <2>10 DEF BuyerPays, ConfirmReads, WebhookReads, WebhookFindsNothing, WebhookFails, WebhookWrites,
                   Extend, ExtensionSkips
    <3> QED
      BY <2>3, <2>h, <3>1
  <2> QED
    BY <1>1, <2>5, <2>6, <2>7, <2>8, <2>9, <2>10, Zenon DEF HolderStep
<1>2. CASE CoverageStep \/ UNCHANGED vars
  <2>1. UNCHANGED <<held, passes_sold>>
    BY <1>2 DEF CoverageStep, AddLink, ExtensionStarts, RemovalFindsNoHolder, RemoveLink, EventStarts, vars
  <2> QED
    BY <2>1 DEF Holders
<1> QED
  BY <1>1, <1>2, StepsAreOneHoldersOrNone

-----------------------------------------------------------------------------
IInv ==
  /\ TypeOK
  /\ RowsOK
  /\ \A h \in Holder : KeptUp(h)
  /\ TiersCounted
  /\ passes_sold = Cardinality(Holders)

LEMMA KeptUpStep == IInv /\ [Next]_vars => \A h \in Holder : KeptUp(h)'
<1> SUFFICES ASSUME IInv, [Next]_vars, NEW g \in Holder PROVE KeptUp(g)'
  OBVIOUS
<1>0. TypeOK /\ RowsOK /\ KeptUp(g) /\ Sane(g)
  BY DEF IInv, RowsOK, Sane
<1>1. ASSUME NEW h \in Holder, HolderStep(h) PROVE KeptUp(g)'
  <2>1. CASE g # h
    BY <1>0, <1>1, <2>1, OthersUntouched, SameCoverageOfOthers, UntouchedKeepsUp
  <2>2. CASE g = h
    BY <1>0, <1>1, <2>2, HolderKeepsUp
  <2> QED
    BY <2>1, <2>2
<1>2. CASE CoverageStep
  BY <1>0, <1>2, CoverageKeepsUp
<1>3. CASE UNCHANGED vars
  <2>1. Untouched(g) /\ SameCoverage(g)
    BY <1>3 DEF vars, rows, coverage, webhook, activation, history, Untouched, SameCoverage
  <2> QED
    BY <1>0, <2>1, UntouchedKeepsUp
<1> QED
  BY <1>1, <1>2, <1>3, StepsAreOneHoldersOrNone

LEMMA InvInit == Init => IInv
<1> SUFFICES ASSUME Init PROVE IInv
  OBVIOUS
<1>1. TypeOK
  BY TypeInit
<1>2. RowsOK
  BY DEF Init, RowsOK, HolderOK, RowOK, Nothing, IsLive
<1>3. \A h \in Holder : KeptUp(h)
  BY DEF Init, KeptUp, Promised
<1>4. ASSUME NEW e \in Event PROVE sold[e] = Cardinality(OnTier(e))
  <2>1. OnTier(e) = {}
    BY DEF Init, OnTier, IsLive, Nothing
  <2>2. sold[e] = 0
    BY DEF Init
  <2> QED
    BY <2>1, <2>2, FS_EmptySet
<1>5. passes_sold = Cardinality(Holders)
  <2>1. Holders = {}
    BY DEF Init, Holders, IsLive
  <2>2. passes_sold = 0
    BY DEF Init
  <2> QED
    BY <2>1, <2>2, FS_EmptySet
<1> QED
  BY <1>1, <1>2, <1>3, <1>4, <1>5 DEF IInv, TiersCounted

LEMMA InvStep == IInv /\ [Next]_vars => IInv'
BY TypeStep, RowsStep, KeptUpStep, TiersStep, PassesStep DEF IInv

(* Every reachable state of passes, tickets and counters is of its type.   *)
THEOREM SeriesPassTypes == Spec => []TypeOK
<1>1. IInv => TypeOK
  BY DEF IInv
<1> QED
  BY <1>1, InvInit, InvStep, PTL DEF Spec

(* quantity_sold of the pass and of each tier count exactly their holders, *)
(* whoever buys, cancels, activates or is extended at the same time.       *)
THEOREM PassCountersAgree == Spec => []CountersAgree
<1>1. IInv => CountersAgree
  BY DEF IInv, CountersAgree, TiersCounted, OnTier
<1> QED
  BY <1>1, InvInit, InvStep, PTL DEF Spec

(* A cancelled pass leaves no live ticket for an event to come, but those  *)
(* the webhook revived on a reading from before the cancellation.          *)
THEOREM CancelledPassIsEmpty == Spec => []CancelledPassHoldsNothing
<1>1. IInv => CancelledPassHoldsNothing
  BY DEF IInv, RowsOK, RowOK, CancelledPassHoldsNothing
<1> QED
  BY <1>1, InvInit, InvStep, PTL DEF Spec

(* An active holder lacks no ticket for a covered event to come, once no   *)
(* extension has still to visit it; the misses that remain are recorded.   *)
THEOREM ExtensionReachesHolders == Spec => []NoHolderLeftBehind
<1>1. IInv => NoHolderLeftBehind
  <2> SUFFICES ASSUME IInv, NEW h \in Holder, NEW e \in links \ started,
                      held[h] = "ACTIVE", h \notin locked, e \notin queued,
                      h \notin todo[e], <<h, e>> \notin skipped
               PROVE  IsLive(ticket[h][e])
    BY DEF NoHolderLeftBehind
  <2>1. e \in Event /\ RowOK(h, e) /\ KeptUp(h)
    BY DEF IInv, TypeOK, RowsOK
  <2>2. IsLive(ticket[h][e]) \/ e \in missing[h]
    BY <2>1 DEF KeptUp, Promised
  <2> QED
    BY <2>1, <2>2 DEF RowOK
<1> QED
  BY <1>1, InvInit, InvStep, PTL DEF Spec
=============================================================================
