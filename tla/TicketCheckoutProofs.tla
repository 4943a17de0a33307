------------------------ MODULE TicketCheckoutProofs ------------------------
(***************************************************************************)
(* Theorems about TicketCheckout for every set of tickets, reservations    *)
(* and tiers, every stock and every event capacity.                        *)
(***************************************************************************)
EXTENDS TicketCheckout, TiersProofs

LEMMA TypeInit == Init => TypeOK
<1> SUFFICES ASSUME Init PROVE TypeOK
  OBVIOUS
<1>1. /\ tx \in [Reservation -> [step : {"idle", "claimed", "sessioned", "cancelling", "cleaning"},
                                 tickets : SUBSET Ticket]]
      /\ hook \in [Reservation -> [step : {"idle", "read"},
                                   confirms : SUBSET Ticket, voids : SUBSET Ticket]]
  BY DEF Init, Idle, NoRead
<1>2. /\ quantity_sold \in [Tier -> Nat]
      /\ slipped \in BOOLEAN
  BY DEF Init
<1> QED
  BY <1>1, <1>2 DEF Init, TypeOK

LEMMA TypeStep == TypeOK /\ [Next]_vars => TypeOK'
<1> SUFFICES ASSUME TypeOK, [Next]_vars PROVE TypeOK'
  OBVIOUS
<1> USE DEF TypeOK, rows, clock, stripe, requests
<1>0. CASE UNCHANGED vars
  BY <1>0 DEF vars
<1>1. ASSUME NEW r \in Reservation, NEW S \in SUBSET Ticket, ReserveBatch(r, S) PROVE TypeOK'
  BY <1>1, ReleaseType DEF ReserveBatch
<1>2. ASSUME NEW r \in Reservation, ClaimHold(r) PROVE TypeOK'
  BY <1>2 DEF ClaimHold, LivePayments, StillPending, PendingPayments
<1>3. ASSUME NEW r \in Reservation, CreateStripeSession(r) PROVE TypeOK'
  BY <1>3 DEF CreateStripeSession
<1>4. ASSUME NEW r \in Reservation, StampSession(r) PROVE TypeOK'
  BY <1>4 DEF StampSession, LivePayments, StillPending, PendingPayments, Idle
<1>5. ASSUME NEW r \in Reservation, StampMissed(r) PROVE TypeOK'
  BY <1>5 DEF StampMissed, Idle
<1>6. ASSUME NEW r \in Reservation, Rollback(r) PROVE TypeOK'
  BY <1>6 DEF Rollback, Idle
<1>7. ASSUME NEW r \in Reservation, CancelPendingCheckout(r) PROVE TypeOK'
  BY <1>7 DEF CancelPendingCheckout, CountedForRelease, LivePayments, StillPending, PendingPayments
<1>8. ASSUME NEW r \in Reservation, ObserveExpired(r) PROVE TypeOK'
  BY <1>8 DEF ObserveExpired
<1>9. ASSUME NEW r \in Reservation, CleanupExpiredBatch(r) PROVE TypeOK'
  BY <1>9 DEF CleanupExpiredBatch, CountedForRelease, LivePayments, StillPending, PendingPayments
<1>10. ASSUME NEW r \in Reservation, FinishRelease(r) PROVE TypeOK'
  BY <1>10, ReleaseType DEF FinishRelease, DeleteBatch, Idle
<1>11. ASSUME NEW r \in Reservation, ExpireSession(r) PROVE TypeOK'
  BY <1>11 DEF ExpireSession
<1>12. ASSUME NEW r \in Reservation, ReservationLapses(r) PROVE TypeOK'
  BY <1>12 DEF ReservationLapses, PendingPayments
<1>13. ASSUME NEW r \in Reservation, SessionLapses(r) PROVE TypeOK'
  BY <1>13 DEF SessionLapses, PendingPayments
<1>14. ASSUME NEW r \in Reservation, PaySession(r) PROVE TypeOK'
  BY <1>14 DEF PaySession
<1>15. ASSUME NEW r \in Reservation, CompleteUnpaid(r) PROVE TypeOK'
  BY <1>15 DEF CompleteUnpaid
<1>16. ASSUME NEW r \in Reservation, WebhookReads(r) PROVE TypeOK'
  BY <1>16 DEF WebhookReads, SessionPayments
<1>17. ASSUME NEW r \in Reservation, WebhookFindsNothing(r) PROVE TypeOK'
  BY <1>17 DEF WebhookFindsNothing
<1>18. ASSUME NEW r \in Reservation, WebhookMismatch(r) PROVE TypeOK'
  BY <1>18 DEF WebhookMismatch
<1>19. ASSUME NEW r \in Reservation, WebhookConfirms(r) PROVE TypeOK'
  BY <1>19 DEF WebhookConfirms, NoRead
<1>20. ASSUME NEW r \in Reservation, WebhookFails(r) PROVE TypeOK'
  BY <1>20 DEF WebhookFails, NoRead
<1>21. ASSUME NEW r \in Reservation, StripeGivesUp(r) PROVE TypeOK'
  BY <1>21 DEF StripeGivesUp
<1>22. ASSUME NEW t \in Ticket, CancelTicketByUser(t) PROVE TypeOK'
  BY <1>22, ReleaseType DEF CancelTicketByUser, ReadUnlocked
<1>23. ASSUME NEW t \in Ticket, AdminCancelTicket(t) PROVE TypeOK'
  BY <1>23, ReleaseType DEF AdminCancelTicket, ReadUnlocked
<1>24. ASSUME NEW t \in Ticket, HoldOverdue(t) PROVE TypeOK'
  BY <1>24 DEF HoldOverdue
<1>25. ASSUME NEW t \in Ticket, ClearHold(t) PROVE TypeOK'
  BY <1>25 DEF ClearHold
<1>26. ASSUME SweepSnapshot PROVE TypeOK'
  BY <1>26 DEF SweepSnapshot, Reclaimable
<1>27. ASSUME SweepReclaim PROVE TypeOK'
  BY <1>27, ReleaseType DEF SweepReclaim, DeleteBatch, StillReclaimable, StillPending, Reclaimable
<1> QED
  BY <1>0, <1>1, <1>2, <1>3, <1>4, <1>5, <1>6, <1>7, <1>8, <1>9, <1>10, <1>11, <1>12, <1>13,
     <1>14, <1>15, <1>16, <1>17, <1>18, <1>19, <1>20, <1>21, <1>22, <1>23, <1>24, <1>25,
     <1>26, <1>27 DEF Next

THEOREM TypeCorrect == Spec => []TypeOK
BY TypeInit, TypeStep, PTL DEF Spec

-----------------------------------------------------------------------------
(* The inductive invariant.  TypeOK alone does not bound a release or a    *)
(* webhook write: that needs what ties a reservation's rows, its           *)
(* transaction and its session together.                                   *)

(* A payment row is written with its ticket and outlives none. *)
RowsMatch ==
  \A t \in Ticket :
    /\ ticket[t] = "unwritten" <=> pay[t] = "unwritten"
    /\ ticket[t] = "deleted" => pay[t] = "deleted"

(* Carts hold written rows, of one reservation each.                       *)
CartsKept ==
  /\ \A r \in Reservation : \A t \in cart[r] : ticket[t] # "unwritten"
  /\ \A q, r \in Reservation : q # r => cart[q] \cap cart[r] = {}

(* A transaction works on the rows of a cart, a session charges for them.  *)
WorksOnCart ==
  \A r \in Reservation :
    /\ tx[r].step # "idle" => cart[r] # {}
    /\ tx[r].tickets \subseteq cart[r]
    /\ line_items[r] \subseteq cart[r]
    /\ event[r] # "none" => session[r] # "none"

Consistent ==
  /\ TypeOK /\ RowsMatch /\ CartsKept /\ WorksOnCart
  /\ UnlockedReadsAgree
  /\ Account(quantity_sold, Live, ~slipped)

(* Which steps write ticket rows, payment rows or the counter. *)
RowWrites ==
  \/ \E r \in Reservation, S \in SUBSET Ticket : ReserveBatch(r, S)
  \/ \E r \in Reservation : FinishRelease(r)
  \/ \E r \in Reservation : WebhookConfirms(r)
  \/ \E t \in Ticket : CancelTicketByUser(t) \/ AdminCancelTicket(t)
  \/ SweepReclaim

LEMMA OthersLeaveRows ==
  ASSUME [Next]_vars, ~RowWrites
  PROVE  UNCHANGED <<rows, slipped>>
BY DEF Next, vars, RowWrites, ClaimHold, CreateStripeSession, StampSession, StampMissed,
       Rollback, CancelPendingCheckout, ObserveExpired, CleanupExpiredBatch, ExpireSession,
       ReservationLapses, SessionLapses, PaySession, CompleteUnpaid, WebhookReads,
       WebhookFindsNothing, WebhookMismatch, WebhookFails, StripeGivesUp, HoldOverdue,
       ClearHold, SweepSnapshot

LEMMA RowsMatchStep ==
  ASSUME Consistent, [Next]_vars
  PROVE  RowsMatch'
<1> USE DEF Consistent, RowsMatch, TypeOK, rows
<1>1. CASE ~RowWrites
  BY <1>1, OthersLeaveRows
<1>2. ASSUME NEW r \in Reservation, NEW S \in SUBSET Ticket, ReserveBatch(r, S) PROVE RowsMatch'
  BY <1>2 DEF ReserveBatch
<1>3. ASSUME NEW r \in Reservation, FinishRelease(r) PROVE RowsMatch'
  BY <1>3 DEF FinishRelease, DeleteBatch, StillPending, PendingPayments
<1>4. ASSUME NEW r \in Reservation, WebhookConfirms(r) PROVE RowsMatch'
  <2>1. \A t \in hook[r].confirms \cup hook[r].voids : ticket[t] # "unwritten"
    BY <1>4 DEF WebhookConfirms, UnlockedReadsAgree, HookReads, WorksOnCart, CartsKept
  <2> QED
    BY <1>4, <2>1 DEF WebhookConfirms
<1>5. ASSUME NEW t \in Ticket, CancelTicketByUser(t) \/ AdminCancelTicket(t) PROVE RowsMatch'
  BY <1>5 DEF CancelTicketByUser, AdminCancelTicket
<1>6. ASSUME SweepReclaim PROVE RowsMatch'
  BY <1>6 DEF SweepReclaim, DeleteBatch, StillPending, StillReclaimable, Reclaimable
<1> QED
  BY <1>1, <1>2, <1>3, <1>4, <1>5, <1>6 DEF RowWrites

LEMMA CartsKeptStep ==
  ASSUME Consistent, [Next]_vars
  PROVE  CartsKept'
<1> USE DEF Consistent, CartsKept, TypeOK, rows
<1>1. CASE ~RowWrites
  BY <1>1, OthersLeaveRows
<1>2. ASSUME NEW r \in Reservation, NEW S \in SUBSET Ticket, ReserveBatch(r, S) PROVE CartsKept'
  BY <1>2 DEF ReserveBatch
<1>3. ASSUME NEW r \in Reservation, FinishRelease(r) PROVE CartsKept'
  BY <1>3 DEF FinishRelease, DeleteBatch
<1>4. ASSUME NEW r \in Reservation, WebhookConfirms(r) PROVE CartsKept'
  BY <1>4 DEF WebhookConfirms
<1>5. ASSUME NEW t \in Ticket, CancelTicketByUser(t) \/ AdminCancelTicket(t) PROVE CartsKept'
  BY <1>5 DEF CancelTicketByUser, AdminCancelTicket
<1>6. ASSUME SweepReclaim PROVE CartsKept'
  BY <1>6 DEF SweepReclaim, DeleteBatch
<1> QED
  BY <1>1, <1>2, <1>3, <1>4, <1>5, <1>6 DEF RowWrites

(* What a step does to the transactions: it leaves one alone, ends it, or  *)
(* moves it on; one that starts to release has just counted its rows.      *)
TxMoves(q) ==
  \/ tx'[q] = tx[q]
  \/ tx'[q] = Idle
  \/ /\ cart[q] # {}
     /\ tx'[q].step \in {"claimed", "sessioned"}
     /\ tx'[q].tickets \in {tx[q].tickets, LivePayments(q)}
  \/ /\ cart[q] # {}
     /\ tx'[q].step \in {"cancelling", "cleaning"}
     /\ tx'[q].tickets = LivePayments(q)
     /\ UNCHANGED <<rows, slipped>>

LEMMA TxStep ==
  ASSUME TypeOK, WorksOnCart, [Next]_vars, NEW q \in Reservation
  PROVE  TxMoves(q)
<1> USE DEF TypeOK, TxMoves, requests
<1>1. CASE UNCHANGED tx
  BY <1>1
<1>2. ASSUME NEW r \in Reservation, ClaimHold(r) PROVE TxMoves(q)
  BY <1>2 DEF ClaimHold, LivePayments, StillPending, PendingPayments
<1>3. ASSUME NEW r \in Reservation, CreateStripeSession(r) PROVE TxMoves(q)
  BY <1>3 DEF CreateStripeSession, WorksOnCart
<1>4. ASSUME NEW r \in Reservation,
             StampSession(r) \/ StampMissed(r) \/ Rollback(r) \/ FinishRelease(r)
      PROVE  TxMoves(q)
  BY <1>4 DEF StampSession, StampMissed, Rollback, FinishRelease
<1>5. ASSUME NEW r \in Reservation, CancelPendingCheckout(r) PROVE TxMoves(q)
  BY <1>5 DEF CancelPendingCheckout, CountedForRelease, PendingPayments
<1>6. ASSUME NEW r \in Reservation, CleanupExpiredBatch(r) PROVE TxMoves(q)
  BY <1>6 DEF CleanupExpiredBatch, CountedForRelease, PendingPayments
<1>7. \/ UNCHANGED tx
      \/ \E r \in Reservation :
           \/ ClaimHold(r) \/ CreateStripeSession(r) \/ StampSession(r) \/ StampMissed(r)
           \/ Rollback(r) \/ FinishRelease(r) \/ CancelPendingCheckout(r)
           \/ CleanupExpiredBatch(r)
  BY DEF Next, vars, ReserveBatch, ObserveExpired, ExpireSession, ReservationLapses,
         SessionLapses, PaySession, CompleteUnpaid, WebhookReads, WebhookFindsNothing,
         WebhookMismatch, WebhookConfirms, WebhookFails, StripeGivesUp, CancelTicketByUser,
         AdminCancelTicket, HoldOverdue, ClearHold, SweepSnapshot, SweepReclaim
<1> QED
  BY <1>1, <1>2, <1>3, <1>4, <1>5, <1>6, <1>7

(* Carts are written once; line items are those of a claim.                *)
LEMMA CartIsFixed ==
  ASSUME TypeOK, [Next]_vars, NEW q \in Reservation
  PROVE  cart[q] # {} => cart'[q] = cart[q]
<1> USE DEF TypeOK, rows
<1>1. CASE ~RowWrites
  BY <1>1, OthersLeaveRows
<1>2. ASSUME NEW r \in Reservation, NEW S \in SUBSET Ticket, ReserveBatch(r, S), cart[q] # {}
      PROVE  cart'[q] = cart[q]
  BY <1>2 DEF ReserveBatch
<1>3. ASSUME \/ \E r \in Reservation : FinishRelease(r) \/ WebhookConfirms(r)
             \/ \E t \in Ticket : CancelTicketByUser(t) \/ AdminCancelTicket(t)
             \/ SweepReclaim
      PROVE  UNCHANGED cart
  BY <1>3 DEF FinishRelease, WebhookConfirms, CancelTicketByUser, AdminCancelTicket,
              SweepReclaim, DeleteBatch
<1> QED
  BY <1>1, <1>2, <1>3 DEF RowWrites

ItemsMove(q) ==
  /\ \/ line_items'[q] = line_items[q]
     \/ session[q] = "none" /\ line_items'[q] = tx[q].tickets
  /\ session[q] # "none" => session'[q] # "none"
  /\ event'[q] = event[q] \/ session'[q] # "none"

LEMMA ItemsStep ==
  ASSUME Consistent, [Next]_vars, NEW q \in Reservation
  PROVE  ItemsMove(q)
<1> USE DEF Consistent, TypeOK, stripe, ItemsMove
<1>1. CASE UNCHANGED <<session, line_items, event>>
  BY <1>1
<1>2. ASSUME NEW r \in Reservation, CreateStripeSession(r) PROVE ItemsMove(q)
  BY <1>2 DEF CreateStripeSession
<1>3. ASSUME NEW r \in Reservation,
             StampMissed(r) \/ ExpireSession(r) \/ SessionLapses(r) \/ CompleteUnpaid(r)
      PROVE  ItemsMove(q)
  BY <1>3 DEF StampMissed, ExpireSession, SessionLapses, CompleteUnpaid
<1>4. ASSUME NEW r \in Reservation, PaySession(r) PROVE ItemsMove(q)
  BY <1>4 DEF PaySession
<1>5. ASSUME NEW r \in Reservation, WebhookFindsNothing(r) \/ StripeGivesUp(r) PROVE ItemsMove(q)
  BY <1>5 DEF WebhookFindsNothing, StripeGivesUp, WorksOnCart
<1>6. ASSUME NEW r \in Reservation, WebhookConfirms(r) PROVE ItemsMove(q)
  BY <1>6 DEF WebhookConfirms, UnlockedReadsAgree, HookReads
<1>7. \/ UNCHANGED <<session, line_items, event>>
      \/ \E r \in Reservation :
           \/ CreateStripeSession(r) \/ StampMissed(r) \/ ExpireSession(r) \/ SessionLapses(r)
           \/ CompleteUnpaid(r) \/ PaySession(r) \/ WebhookFindsNothing(r) \/ StripeGivesUp(r)
           \/ WebhookConfirms(r)
  BY DEF Next, vars, ReserveBatch, ClaimHold, StampSession, Rollback, CancelPendingCheckout,
         ObserveExpired, CleanupExpiredBatch, FinishRelease, ReservationLapses, WebhookReads,
         WebhookMismatch, WebhookFails, CancelTicketByUser, AdminCancelTicket, HoldOverdue,
         ClearHold, SweepSnapshot, SweepReclaim
<1> QED
  BY <1>1, <1>2, <1>3, <1>4, <1>5, <1>6, <1>7

LEMMA WorksOnCartStep ==
  ASSUME Consistent, [Next]_vars
  PROVE  WorksOnCart'
<1> SUFFICES ASSUME NEW q \in Reservation
             PROVE  /\ tx'[q].step # "idle" => cart'[q] # {}
                    /\ tx'[q].tickets \subseteq cart'[q]
                    /\ line_items'[q] \subseteq cart'[q]
                    /\ event'[q] # "none" => session'[q] # "none"
  BY DEF WorksOnCart
<1> USE DEF Consistent, WorksOnCart
<1>1. TxMoves(q)
  BY TxStep
<1>2. cart[q] # {} => cart'[q] = cart[q]
  BY CartIsFixed
<1>3. LivePayments(q) \subseteq cart[q]
  BY DEF LivePayments, StillPending, PendingPayments
<1>4. /\ tx'[q].step # "idle" => cart'[q] # {}
      /\ tx'[q].tickets \subseteq cart'[q]
  BY <1>1, <1>2, <1>3 DEF TxMoves, Idle
<1>5. /\ line_items'[q] \subseteq cart'[q]
      /\ event'[q] # "none" => session'[q] # "none"
  BY <1>2, ItemsStep DEF ItemsMove
<1> QED
  BY <1>4, <1>5

(* The rows a transaction holds stay as they are; only an organizer's      *)
(* cancel, which does not ask for the payment lock, can take one, and that *)
(* is a slip for a release that has counted it.                            *)
LEMMA ReleaseCountsStep ==
  ASSUME Consistent, [Next]_vars, NEW q \in Reservation
  PROVE  ReleaseCounts(q)'
<1> USE DEF Consistent, TypeOK, rows
<1>1. ReleaseCounts(q) /\ TxMoves(q)
  BY TxStep DEF UnlockedReadsAgree
<1>2. CASE tx'[q] # tx[q]
  BY <1>1, <1>2 DEF TxMoves, ReleaseCounts, Idle, LivePayments, StillPending, PendingPayments
<1>3. CASE tx'[q] = tx[q] /\ tx[q].step \notin {"cancelling", "cleaning"}
  BY <1>3 DEF ReleaseCounts
<1>4. CASE tx'[q] = tx[q] /\ tx[q].step \in {"cancelling", "cleaning"}
  <2>0. cart[q] # {} /\ cart'[q] = cart[q] /\ PendingPayments(q) \subseteq Locked
    BY <1>4, CartIsFixed DEF WorksOnCart, Locked, PendingPayments
  <2>1. SUFFICES \/ LivePayments(q)' = LivePayments(q) /\ (slipped => slipped')
                 \/ LivePayments(q)' \subseteq LivePayments(q) /\ slipped'
    BY <1>1, <1>4 DEF ReleaseCounts
  <2>2. CASE ~RowWrites
    BY <2>0, <2>2, OthersLeaveRows DEF LivePayments, StillPending, PendingPayments
  <2>3. ASSUME NEW r \in Reservation, NEW S \in SUBSET Ticket, ReserveBatch(r, S)
        PROVE  LivePayments(q)' = LivePayments(q) /\ (slipped => slipped')
    BY <2>0, <2>3 DEF ReserveBatch, CartsKept, LivePayments, StillPending, PendingPayments
  <2>4. ASSUME NEW r \in Reservation, FinishRelease(r)
        PROVE  LivePayments(q)' = LivePayments(q) /\ (slipped => slipped')
    <3>1. r # q
      BY <1>4, <2>4 DEF FinishRelease, Idle
    <3>2. PendingPayments(r) \cap cart[q] = {}
      BY <3>1 DEF PendingPayments, CartsKept
    <3> QED
      BY <2>0, <2>4, <3>2
         DEF FinishRelease, DeleteBatch, LivePayments, StillPending, PendingPayments
  <2>5. ASSUME NEW r \in Reservation, WebhookConfirms(r)
        PROVE  LivePayments(q)' = LivePayments(q) /\ (slipped => slipped')
    BY <2>0, <2>5 DEF WebhookConfirms, LivePayments, StillPending, PendingPayments
  <2>6. ASSUME NEW t \in Ticket, CancelTicketByUser(t) \/ AdminCancelTicket(t)
        PROVE  \/ LivePayments(q)' = LivePayments(q) /\ (slipped => slipped')
               \/ LivePayments(q)' \subseteq LivePayments(q) /\ slipped'
    <3>1. /\ pay' = pay
          /\ ticket' = [ticket EXCEPT ![t] = "CANCELLED"]
          /\ slipped' = (slipped \/ ReadUnlocked(t))
      BY <2>6 DEF CancelTicketByUser, AdminCancelTicket
    <3>2. CASE t \in LivePayments(q)
      <4>1. t \in tx[q].tickets
        BY <1>1, <1>4, <3>2 DEF ReleaseCounts
      <4>2. ReadUnlocked(t)
        BY <1>4, <4>1 DEF ReadUnlocked
      <4>3. slipped'
        BY <3>1, <4>2
      <4>4. LivePayments(q)' \subseteq LivePayments(q)
        BY <2>0, <3>1 DEF LivePayments, StillPending, PendingPayments
      <4> QED
        BY <4>3, <4>4
    <3>3. CASE t \notin LivePayments(q)
      BY <2>0, <3>1, <3>3 DEF LivePayments, StillPending, PendingPayments
    <3> QED
      BY <3>2, <3>3
  <2>7. ASSUME SweepReclaim
        PROVE  LivePayments(q)' = LivePayments(q) /\ (slipped => slipped')
    BY <2>0, <2>7 DEF SweepReclaim, DeleteBatch, LivePayments, StillPending, PendingPayments
  <2> QED
    BY <2>2, <2>3, <2>4, <2>5, <2>6, <2>7 DEF RowWrites
<1> QED
  BY <1>2, <1>3, <1>4

(* What a webhook has read stays true until it writes, unless a cancel     *)
(* slips in.                                                               *)
HookMoves(q) ==
  \/ hook'[q] = hook[q] \/ hook'[q] = NoRead
  \/ /\ UNCHANGED <<rows, slipped, session, line_items>>
     /\ session[q] # "none"
     /\ hook'[q].step = "read"
     /\ hook'[q].confirms \cup hook'[q].voids = line_items[q]
     /\ \A t \in hook'[q].confirms : ticket[t] # "CANCELLED"

LEMMA HookStep ==
  ASSUME Consistent, [Next]_vars, NEW q \in Reservation
  PROVE  HookMoves(q)
<1> USE DEF Consistent, TypeOK, HookMoves, requests
<1>1. CASE UNCHANGED hook
  BY <1>1
<1>2. ASSUME NEW r \in Reservation, WebhookReads(r) PROVE HookMoves(q)
  <2>1. event[r] # "none" /\ session[r] # "none" /\ line_items[r] = SessionPayments(r)
    BY <1>2 DEF WebhookReads, WorksOnCart
  <2> DEFINE voids == {t \in SessionPayments(r) : ticket[t] = "CANCELLED"}
             read == [step |-> "read", confirms |-> SessionPayments(r) \ voids, voids |-> voids]
  <2>2. hook' = [hook EXCEPT ![r] = read] /\ UNCHANGED <<rows, slipped, session, line_items>>
    BY <1>2 DEF WebhookReads, stripe
  <2>3. /\ read.step = "read"
        /\ read.confirms \cup read.voids = SessionPayments(r)
        /\ \A t \in read.confirms : ticket[t] # "CANCELLED"
    BY DEF SessionPayments
  <2> HIDE DEF read
  <2> QED
    BY <2>1, <2>2, <2>3
<1>3. ASSUME NEW r \in Reservation, WebhookConfirms(r) \/ WebhookFails(r) PROVE HookMoves(q)
  BY <1>3 DEF WebhookConfirms, WebhookFails
<1>4. \/ UNCHANGED hook
      \/ \E r \in Reservation : WebhookReads(r) \/ WebhookConfirms(r) \/ WebhookFails(r)
  BY DEF Next, vars, ReserveBatch, ClaimHold, CreateStripeSession, StampSession, StampMissed,
         Rollback, CancelPendingCheckout, ObserveExpired, CleanupExpiredBatch, FinishRelease,
         ExpireSession, ReservationLapses, SessionLapses, PaySession, CompleteUnpaid,
         WebhookFindsNothing, WebhookMismatch, StripeGivesUp, CancelTicketByUser,
         AdminCancelTicket, HoldOverdue, ClearHold, SweepSnapshot, SweepReclaim
<1> QED
  BY <1>1, <1>2, <1>3, <1>4

(* History: a slip is never undone. *)
LEMMA SlippedStays ==
  ASSUME Consistent, [Next]_vars
  PROVE  slipped => slipped'
<1> USE DEF rows
<1>1. CASE ~RowWrites
  BY <1>1, OthersLeaveRows
<1>2. CASE RowWrites
  BY <1>2, Zenon DEF RowWrites, ReserveBatch, FinishRelease, WebhookConfirms, CancelTicketByUser,
                     AdminCancelTicket, SweepReclaim, DeleteBatch
<1> QED
  BY <1>1, <1>2

(* No step but a cancel makes a ticket CANCELLED, and a cancel of a ticket *)
(* the webhook is about to confirm is a slip.                              *)
LEMMA OnlyCancelsCancel ==
  ASSUME Consistent, [Next]_vars, NEW t \in Ticket, ticket[t] # "CANCELLED", ~slipped'
  PROVE  /\ ~slipped
         /\ ticket'[t] = "CANCELLED" => \A q \in Reservation : t \notin hook[q].confirms
<1> USE DEF Consistent, TypeOK, rows
<1>1. CASE ~RowWrites
  BY <1>1, OthersLeaveRows
<1>2. ASSUME NEW u \in Ticket, CancelTicketByUser(u) \/ AdminCancelTicket(u)
      PROVE  /\ ~slipped
             /\ ticket'[t] = "CANCELLED" => \A q \in Reservation : t \notin hook[q].confirms
  <2>1. /\ ticket' = [ticket EXCEPT ![u] = "CANCELLED"]
        /\ slipped' = (slipped \/ ReadUnlocked(u))
    BY <1>2 DEF CancelTicketByUser, AdminCancelTicket
  <2>2. ~slipped /\ ~ReadUnlocked(u)
    BY <2>1
  <2> QED
    BY <2>1, <2>2 DEF ReadUnlocked
<1>3. ASSUME NEW r \in Reservation, NEW S \in SUBSET Ticket, ReserveBatch(r, S)
      PROVE  ~slipped /\ ticket'[t] # "CANCELLED"
  BY <1>3 DEF ReserveBatch
<1>4. ASSUME NEW r \in Reservation, FinishRelease(r)
      PROVE  ~slipped /\ ticket'[t] # "CANCELLED"
  BY <1>4 DEF FinishRelease, DeleteBatch
<1>5. ASSUME NEW r \in Reservation, WebhookConfirms(r)
      PROVE  ~slipped /\ ticket'[t] # "CANCELLED"
  BY <1>5 DEF WebhookConfirms
<1>6. ASSUME SweepReclaim PROVE ~slipped /\ ticket'[t] # "CANCELLED"
  BY <1>6 DEF SweepReclaim, DeleteBatch
<1> QED
  BY <1>1, <1>2, <1>3, <1>4, <1>5, <1>6 DEF RowWrites

LEMMA HookReadsStep ==
  ASSUME Consistent, [Next]_vars, NEW q \in Reservation
  PROVE  HookReads(q)'
<1>1. HookReads(q) /\ HookMoves(q) /\ ItemsMove(q)
  BY HookStep, ItemsStep DEF Consistent, UnlockedReadsAgree
<1>2. CASE hook'[q] = hook[q]
  <2>1. hook'[q].step = "idle" => hook'[q] = NoRead
    BY <1>1, <1>2 DEF HookReads
  <2>2. hook'[q].step = "read" => /\ session'[q] # "none"
                                  /\ hook'[q].confirms \cup hook'[q].voids = line_items'[q]
    BY <1>1, <1>2 DEF HookReads, ItemsMove
  <2>3. ASSUME ~slipped', NEW t \in hook'[q].confirms PROVE ticket'[t] # "CANCELLED"
    <3>1. t \in Ticket /\ t \in hook[q].confirms
      BY <1>2, <2>3 DEF Consistent, TypeOK
    <3>2. ~slipped
      BY <2>3, SlippedStays
    <3>3. ticket[t] # "CANCELLED"
      BY <1>1, <3>1, <3>2 DEF HookReads
    <3> QED
      BY <2>3, <3>1, <3>3, OnlyCancelsCancel
  <2> QED
    BY <2>1, <2>2, <2>3 DEF HookReads
<1>3. CASE hook'[q] = NoRead
  BY <1>3 DEF HookReads, NoRead
<1>4. CASE hook'[q] # hook[q] /\ hook'[q] # NoRead
  BY <1>1, <1>4 DEF HookMoves, HookReads, rows
<1> QED
  BY <1>2, <1>3, <1>4

-----------------------------------------------------------------------------
(* Every step, seen from the stock: nothing, a sale, places given back, or *)
(* (after a slip) a cancelled ticket that is live again.                   *)
NothingMoves == UNCHANGED <<Live, quantity_sold, slipped>>

Sale(S) ==
  /\ S # {} /\ S \cap Live = {}
  /\ TierCapacityLeft(quantity_sold, S) /\ EventCapacityLeft(S)
  /\ Live' = Live \cup S
  /\ quantity_sold' = Bumped(quantity_sold, S)
  /\ UNCHANGED slipped

GiveBack(S, T) ==
  /\ S \subseteq Live /\ S \subseteq T
  /\ Live' = Live \ S
  /\ quantity_sold' = Released(quantity_sold, T)
  /\ ~slipped' => ~slipped /\ S = T

Resurrection ==
  /\ slipped /\ slipped'
  /\ Live \subseteq Live'
  /\ UNCHANGED quantity_sold

StockMoves ==
  \/ NothingMoves
  \/ \E S \in SUBSET Ticket : Sale(S)
  \/ \E S, T \in SUBSET Ticket : GiveBack(S, T)
  \/ Resurrection

LEMMA ReserveIsSale ==
  ASSUME TypeOK, NEW r \in Reservation, NEW S \in SUBSET Ticket, ReserveBatch(r, S)
  PROVE  Sale(S)
BY DEF TypeOK, ReserveBatch, Sale, Live

LEMMA FinishGivesBack ==
  ASSUME Consistent, NEW r \in Reservation, FinishRelease(r)
  PROVE  GiveBack(LivePayments(r), tx[r].tickets)
<1> USE DEF Consistent, TypeOK
<1>1. /\ LivePayments(r) \subseteq tx[r].tickets
      /\ ~slipped => tx[r].tickets = LivePayments(r)
  BY DEF FinishRelease, UnlockedReadsAgree, ReleaseCounts
<1>2. /\ quantity_sold' = Released(quantity_sold, tx[r].tickets)
      /\ ticket' = [t \in Ticket |-> IF t \in LivePayments(r) THEN "deleted" ELSE ticket[t]]
      /\ UNCHANGED slipped
  BY DEF FinishRelease, DeleteBatch, LivePayments
<1>3. LivePayments(r) \subseteq Live /\ Live' = Live \ LivePayments(r)
  BY <1>2 DEF Live, LivePayments, StillPending, PendingPayments
<1> QED
  BY <1>1, <1>2, <1>3 DEF GiveBack

LEMMA SweepGivesBack ==
  ASSUME Consistent, SweepReclaim
  PROVE  \E S \in SUBSET Ticket : GiveBack(S, S)
<1> USE DEF Consistent, TypeOK
<1> DEFINE S == StillPending(StillReclaimable(candidates))
<1>1. /\ quantity_sold' = Released(quantity_sold, S)
      /\ ticket' = [t \in Ticket |-> IF t \in S THEN "deleted" ELSE ticket[t]]
      /\ UNCHANGED slipped
  BY DEF SweepReclaim, DeleteBatch
<1>2. S \in SUBSET Ticket /\ \A t \in S : ticket[t] = "PENDING"
  BY DEF StillPending, StillReclaimable, Reclaimable
<1> HIDE DEF S
<1>3. S \subseteq Live /\ Live' = Live \ S
  BY <1>1, <1>2 DEF Live
<1> QED
  BY <1>1, <1>2, <1>3 DEF GiveBack

LEMMA CancelGivesBack ==
  ASSUME Consistent, NEW t \in Ticket, CancelTicketByUser(t) \/ AdminCancelTicket(t)
  PROVE  GiveBack({t}, {t})
<1> USE DEF Consistent, TypeOK
<1>1. /\ ticket[t] \in {"PENDING", "ACTIVE"}
      /\ ticket' = [ticket EXCEPT ![t] = "CANCELLED"]
      /\ quantity_sold' = Released(quantity_sold, {t})
      /\ slipped' = (slipped \/ ReadUnlocked(t))
  BY DEF CancelTicketByUser, AdminCancelTicket
<1>2. {t} \subseteq Live /\ Live' = Live \ {t}
  BY <1>1 DEF Live
<1>3. ~slipped' => ~slipped
  BY <1>1
<1> QED
  BY <1>1, <1>2, <1>3 DEF GiveBack

LEMMA ConfirmMovesNothing ==
  ASSUME Consistent, NEW r \in Reservation, WebhookConfirms(r)
  PROVE  NothingMoves \/ Resurrection
<1> USE DEF Consistent, TypeOK
<1>1. /\ ticket' = [t \in Ticket |-> IF t \in hook[r].confirms THEN "ACTIVE" ELSE ticket[t]]
      /\ UNCHANGED <<quantity_sold, slipped>>
      /\ \A t \in hook[r].confirms : pay[t] # "deleted"
  BY DEF WebhookConfirms
<1>2. Live \subseteq Live'
  BY <1>1 DEF Live
<1>3. ASSUME ~slipped PROVE Live' = Live
  <2>1. HookReads(r) /\ hook[r].step = "read"
    BY DEF UnlockedReadsAgree, WebhookConfirms
  <2>2. hook[r].confirms \subseteq cart[r]
    BY <2>1 DEF HookReads, WorksOnCart
  <2>3. \A t \in hook[r].confirms : ticket[t] \in {"PENDING", "ACTIVE"}
    BY <1>1, <1>3, <2>1, <2>2 DEF HookReads, CartsKept, RowsMatch
  <2> QED
    BY <1>1, <2>3 DEF Live
<1> QED
  BY <1>1, <1>2, <1>3 DEF NothingMoves, Resurrection

LEMMA StockStep ==
  ASSUME Consistent, [Next]_vars
  PROVE  StockMoves
<1>1. CASE ~RowWrites
  BY <1>1, OthersLeaveRows DEF StockMoves, NothingMoves, rows, Live
<1>2. ASSUME NEW r \in Reservation, NEW S \in SUBSET Ticket, ReserveBatch(r, S) PROVE StockMoves
  BY <1>2, ReserveIsSale DEF StockMoves, Consistent
<1>3. ASSUME NEW r \in Reservation, FinishRelease(r) PROVE StockMoves
  <2>1. LivePayments(r) \in SUBSET Ticket /\ tx[r].tickets \in SUBSET Ticket
    BY DEF Consistent, TypeOK, LivePayments, StillPending, PendingPayments
  <2> QED
    BY <1>3, <2>1, FinishGivesBack DEF StockMoves
<1>4. ASSUME NEW r \in Reservation, WebhookConfirms(r) PROVE StockMoves
  BY <1>4, ConfirmMovesNothing DEF StockMoves
<1>5. ASSUME NEW t \in Ticket, CancelTicketByUser(t) \/ AdminCancelTicket(t) PROVE StockMoves
  BY <1>5, CancelGivesBack DEF StockMoves
<1>6. ASSUME SweepReclaim PROVE StockMoves
  BY <1>6, SweepGivesBack DEF StockMoves
<1> QED
  BY <1>1, <1>2, <1>3, <1>4, <1>5, <1>6 DEF RowWrites

LEMMA AccountStep ==
  ASSUME Consistent, [Next]_vars
  PROVE  Account(quantity_sold, Live, ~slipped)'
<1> DEFINE L == Live
           M == Live'
           sold == quantity_sold
           after == quantity_sold'
           e == ~slipped
           f == ~slipped'
<1> SUFFICES Account(after, M, f)
  BY DEF Account, WithinStock, NoLeakedPlace, CounterExact
<1>1. /\ sold \in [Tier -> Nat] /\ L \in SUBSET Ticket /\ M \in SUBSET Ticket
      /\ e \in BOOLEAN /\ f \in BOOLEAN
      /\ Account(sold, L, e)
  BY TypeStep DEF Consistent, TypeOK, Live
<1>2. StockMoves
  BY StockStep
<1>3. CASE NothingMoves
  BY <1>1, <1>3 DEF NothingMoves
<1>4. ASSUME NEW S \in SUBSET Ticket, Sale(S) PROVE Account(after, M, f)
  <2>1. Account(Bumped(sold, S), L \cup S, e)
    BY <1>1, <1>4, SaleKeepsAccount DEF Sale
  <2> QED
    BY <2>1, <1>4 DEF Sale
<1>5. ASSUME NEW S \in SUBSET Ticket, NEW T \in SUBSET Ticket, GiveBack(S, T)
      PROVE  Account(after, M, f)
  <2>1. S \in SUBSET T /\ S \subseteq L /\ (f => e /\ S = T)
    BY <1>5 DEF GiveBack
  <2>2. M = L \ S /\ after = Released(sold, T)
    BY <1>5 DEF GiveBack
  <2> HIDE DEF L, M, sold, after, e, f
  <2>3. Account(Released(sold, T), L \ S, f)
    BY <1>1, <2>1, ReleaseKeepsAccount
  <2> QED
    BY <2>2, <2>3
<1>6. CASE Resurrection
  <2>1. L \subseteq M /\ after = sold /\ f = FALSE
    BY <1>6 DEF Resurrection
  <2> HIDE DEF L, M, sold, after, e, f
  <2>2. Account(sold, M, FALSE)
    BY <1>1, <2>1, ReappearingKeepsAccount
  <2> QED
    BY <2>1, <2>2
<1> QED
  BY <1>2, <1>3, <1>4, <1>5, <1>6 DEF StockMoves

LEMMA ConsistentInit == Init => Consistent
<1> SUFFICES ASSUME Init PROVE Consistent
  OBVIOUS
<1>1. TypeOK
  BY TypeInit
<1>2. RowsMatch /\ CartsKept /\ WorksOnCart
  BY DEF Init, RowsMatch, CartsKept, WorksOnCart, Idle
<1>3. UnlockedReadsAgree
  BY DEF Init, UnlockedReadsAgree, ReleaseCounts, HookReads, Idle, NoRead
<1>4. Live = {} /\ quantity_sold = [k \in Tier |-> 0] /\ (~slipped) = TRUE
  BY DEF Init, Live
<1>5. Account(quantity_sold, Live, ~slipped)
  BY <1>4, AccountOpens, Zenon
<1> QED
  BY <1>1, <1>2, <1>3, <1>5 DEF Consistent

LEMMA ConsistentStep == Consistent /\ [Next]_vars => Consistent'
<1> SUFFICES ASSUME Consistent, [Next]_vars PROVE Consistent'
  OBVIOUS
<1>1. TypeOK'
  BY TypeStep DEF Consistent
<1>2. RowsMatch' /\ CartsKept' /\ WorksOnCart'
  BY RowsMatchStep, CartsKeptStep, WorksOnCartStep
<1>3. UnlockedReadsAgree'
  BY ReleaseCountsStep, HookReadsStep DEF UnlockedReadsAgree
<1>4. Account(quantity_sold, Live, ~slipped)'
  BY AccountStep
<1> QED
  BY <1>1, <1>2, <1>3, <1>4 DEF Consistent

(* The inductive invariant is one. *)
THEOREM AlwaysConsistent == Spec => []Consistent
BY ConsistentInit, ConsistentStep, PTL DEF Spec

(* What the handlers read without a lock still holds when they write,      *)
(* until a ticket is cancelled under them.                                 *)
THEOREM ReadsAgree == Spec => []UnlockedReadsAgree
<1>1. Consistent => UnlockedReadsAgree
  BY DEF Consistent
<1> QED
  BY <1>1, AlwaysConsistent, PTL

(* The abstract inventory counts as the checkout does. *)
LEMMA SameCount ==
  /\ \A k, S : Inventory!CountOf(k, S) = CountOf(k, S)
  /\ \A sold, S : Inventory!Bumped(sold, S) = Bumped(sold, S)
  /\ \A sold, S : Inventory!Released(sold, S) = Released(sold, S)
  /\ \A sold, S : Inventory!TierCapacityLeft(sold, S) <=> TierCapacityLeft(sold, S)
<1>1. \A k, S : Inventory!CountOf(k, S) = CountOf(k, S)
  BY Zenon DEF Inventory!CountOf, CountOf, Inventory!OfTier, OfTier, Inventory!Cardinality, Cardinality
<1>2. \A sold, S : Inventory!Bumped(sold, S) = Bumped(sold, S)
  BY <1>1, Zenon DEF Inventory!Bumped, Bumped
<1>3. \A sold, S : Inventory!Released(sold, S) = Released(sold, S)
  BY <1>1, Zenon DEF Inventory!Released, Released, Inventory!FlooredAtZero, FlooredAtZero
<1>4. \A sold, S : Inventory!TierCapacityLeft(sold, S) <=> TierCapacityLeft(sold, S)
  BY <1>1, Zenon DEF Inventory!TierCapacityLeft, TierCapacityLeft
<1> QED
  BY <1>1, <1>2, <1>3, <1>4

LEMMA StepImplements ==
  ASSUME Consistent, [Next]_vars
  PROVE  [Inventory!Next]_Inventory!vars
<1>1. StockMoves
  BY StockStep
<1>2. /\ quantity_sold \in [Tier -> Nat] /\ quantity_sold' \in [Tier -> Nat]
      /\ Live' \in SUBSET Ticket /\ slipped \in BOOLEAN /\ slipped' \in BOOLEAN
  BY TypeStep DEF Consistent, TypeOK, Live
<1>3. \A k \in Tier : quantity_sold'[k] <= CountOf(k, Live')
  BY AccountStep DEF Account, NoLeakedPlace
<1>4. CASE NothingMoves
  BY <1>4 DEF NothingMoves, Inventory!vars
<1>5. ASSUME NEW S \in SUBSET Ticket, Sale(S) PROVE Inventory!Next
  BY <1>5, SameCount DEF Sale, Inventory!Next, Inventory!Take
<1>6. ASSUME NEW S \in SUBSET Ticket, NEW T \in SUBSET Ticket, GiveBack(S, T)
      PROVE  Inventory!Next
  <2>1. CASE ~slipped'
    <3>1. Inventory!Give(S)
      BY <1>6, <2>1, SameCount DEF GiveBack, Inventory!Give
    <3> QED
      BY <3>1 DEF Inventory!Next
  <2>2. CASE slipped'
    <3>1. \A k \in Tier : quantity_sold'[k] <= quantity_sold[k]
      <4> SUFFICES ASSUME NEW k \in Tier PROVE quantity_sold'[k] <= quantity_sold[k]
        OBVIOUS
      <4>1. quantity_sold'[k] = FlooredAtZero(quantity_sold[k] - CountOf(k, T))
        BY <1>6 DEF GiveBack, Released
      <4>2. CountOf(k, T) \in Nat /\ quantity_sold[k] \in Nat
        BY <1>2, CountType
      <4> QED
        BY <4>1, <4>2 DEF FlooredAtZero
    <3>2. Inventory!Slip
      BY <1>2, <1>3, <2>2, <3>1, SameCount DEF Inventory!Slip
    <3> QED
      BY <3>2 DEF Inventory!Next
  <2> QED
    BY <2>1, <2>2
<1>7. ASSUME Resurrection PROVE Inventory!Next
  <2>1. \A k \in Tier : quantity_sold'[k] <= quantity_sold[k]
    BY <1>2, <1>7 DEF Resurrection
  <2>2. Inventory!Slip
    BY <1>2, <1>3, <1>7, <2>1, SameCount DEF Inventory!Slip, Resurrection
  <2> QED
    BY <2>2 DEF Inventory!Next
<1> QED
  BY <1>1, <1>4, <1>5, <1>6, <1>7 DEF StockMoves

(* Every step of the checkout is one of the abstract inventory, or none.   *)
THEOREM CheckoutImplementsInventory == Spec => ImplementsInventory
<1>1. Init => Inventory!Init
  BY DEF Init, Inventory!Init, Live
<1>2. Consistent /\ [Next]_vars => [Inventory!Next]_Inventory!vars
  BY StepImplements
<1> QED
  BY <1>1, <1>2, AlwaysConsistent, PTL DEF Spec, ImplementsInventory, Inventory!Spec

-----------------------------------------------------------------------------
(* The safety properties the runs check. *)

LEMMA EventCapacityStep ==
  ASSUME Consistent, EventCapacityRespected, [Next]_vars
  PROVE  EventCapacityRespected'
<1> SUFFICES ASSUME ~slipped', EffectiveCapacity # 0
             PROVE  Cardinality(Live') <= EffectiveCapacity
  BY DEF EventCapacityRespected
<1>0. /\ Live \in SUBSET Ticket /\ IsFiniteSet(Live) /\ Cardinality(Live) \in Nat
      /\ ~slipped /\ Cardinality(Live) <= EffectiveCapacity /\ EffectiveCapacity \in Nat
  BY TicketAssumption, CapacityAssumption, SlippedStays, FS_Subset, FS_CardinalityType
     DEF Live, EventCapacityRespected
<1>1. StockMoves
  BY StockStep
<1>2. CASE NothingMoves
  BY <1>0, <1>2 DEF NothingMoves
<1>3. ASSUME NEW S \in SUBSET Ticket, Sale(S)
      PROVE  Cardinality(Live') <= EffectiveCapacity
  <2>1. Live' = Live \cup S /\ S \cap Live = {}
        /\ Cardinality(Live) + Cardinality(S) <= EffectiveCapacity
    BY <1>3 DEF Sale, EventCapacityLeft
  <2>2. IsFiniteSet(S) /\ Cardinality(S) \in Nat
    BY TicketAssumption, FS_Subset, FS_CardinalityType
  <2>3. Cardinality(Live \cup S)
          = Cardinality(Live) + Cardinality(S) - Cardinality(Live \cap S)
    BY <1>0, <2>2, FS_Union
  <2>4. Cardinality(Live \cap S) = 0
    <3>1. Live \cap S = {}
      BY <2>1
    <3> QED
      BY <3>1, FS_EmptySet
  <2> QED
    BY <1>0, <2>1, <2>2, <2>3, <2>4
<1>4. ASSUME NEW S \in SUBSET Ticket, NEW T \in SUBSET Ticket, GiveBack(S, T)
      PROVE  Cardinality(Live') <= EffectiveCapacity
  <2>1. Live' \subseteq Live
    BY <1>4 DEF GiveBack
  <2>2. Cardinality(Live') <= Cardinality(Live) /\ Cardinality(Live') \in Nat
    BY <1>0, <2>1, FS_Subset, FS_CardinalityType
  <2> QED
    BY <1>0, <2>2
<1>5. CASE Resurrection
  BY <1>0, <1>5 DEF Resurrection
<1> QED
  BY <1>1, <1>2, <1>3, <1>4, <1>5 DEF StockMoves

(* The event never holds more live tickets than it admits, until a slip.   *)
THEOREM EventCapacityHolds == Spec => []EventCapacityRespected
<1>1. Init => EventCapacityRespected
  <2> SUFFICES ASSUME Init PROVE EventCapacityRespected
    OBVIOUS
  <2>1. Live = {}
    BY DEF Init, Live
  <2> QED
    BY <2>1, FS_EmptySet, CapacityAssumption DEF EventCapacityRespected
<1>2. Consistent /\ EventCapacityRespected /\ [Next]_vars => EventCapacityRespected'
  BY EventCapacityStep
<1> QED
  BY <1>1, <1>2, AlwaysConsistent, PTL DEF Spec

(* A captured payment stays captured, and a payment is captured only by    *)
(* the webhook, which activates its ticket in the same step.               *)
LEMMA CapturedStays ==
  ASSUME Consistent, [Next]_vars, NEW t \in Ticket
  PROVE  /\ pay[t] = "SUCCEEDED" => pay'[t] = "SUCCEEDED" /\ ticket'[t] # "deleted"
         /\ ticket[t] = "CANCELLED" => ticket'[t] # "deleted"
         /\ ticket'[t] = "ACTIVE" => ticket[t] = "ACTIVE" \/ pay'[t] = "SUCCEEDED"
<1> USE DEF Consistent, TypeOK, rows, RowsMatch
<1> DEFINE Goal ==
      /\ pay[t] = "SUCCEEDED" => pay'[t] = "SUCCEEDED" /\ ticket'[t] # "deleted"
      /\ ticket[t] = "CANCELLED" => ticket'[t] # "deleted"
      /\ ticket'[t] = "ACTIVE" => ticket[t] = "ACTIVE" \/ pay'[t] = "SUCCEEDED"
<1>1. CASE ~RowWrites
  BY <1>1, OthersLeaveRows
<1>2. ASSUME NEW r \in Reservation, NEW S \in SUBSET Ticket, ReserveBatch(r, S) PROVE Goal
  BY <1>2 DEF ReserveBatch
<1>3. ASSUME NEW r \in Reservation, FinishRelease(r) PROVE Goal
  BY <1>3 DEF FinishRelease, DeleteBatch, StillPending, PendingPayments
<1>4. ASSUME NEW r \in Reservation, WebhookConfirms(r) PROVE Goal
  BY <1>4 DEF WebhookConfirms
<1>5. ASSUME NEW u \in Ticket, CancelTicketByUser(u) \/ AdminCancelTicket(u) PROVE Goal
  BY <1>5 DEF CancelTicketByUser, AdminCancelTicket
<1>6. ASSUME SweepReclaim PROVE Goal
  BY <1>6 DEF SweepReclaim, DeleteBatch, StillPending, StillReclaimable, Reclaimable
<1> QED
  BY <1>1, <1>2, <1>3, <1>4, <1>5, <1>6 DEF RowWrites

(* An online ticket is ACTIVE only with its payment captured.              *)
THEOREM ActiveTicketsArePaid == Spec => []ActiveIsPaid
<1>1. Init => ActiveIsPaid
  BY DEF Init, ActiveIsPaid
<1>2. Consistent /\ ActiveIsPaid /\ [Next]_vars => ActiveIsPaid'
  BY CapturedStays DEF ActiveIsPaid
<1> QED
  BY <1>1, <1>2, AlwaysConsistent, PTL DEF Spec

(* No cancel, cleanup or sweep deletes a captured payment, its ticket, or  *)
(* a CANCELLED ticket.                                                     *)
THEOREM AuditRowsAreKept == Spec => AuditRowsSurvive
<1>1. Consistent /\ [Next]_vars =>
        [\A t \in Ticket :
           /\ pay[t] = "SUCCEEDED" => pay'[t] = "SUCCEEDED" /\ ticket'[t] # "deleted"
           /\ ticket[t] = "CANCELLED" => ticket'[t] # "deleted"]_vars
  BY CapturedStays
<1> QED
  BY <1>1, AlwaysConsistent, PTL DEF Spec, AuditRowsSurvive

(* An accepted completion event leaves its tickets paid, or an incident.   *)
LEMMA AcceptedStep ==
  ASSUME Consistent, PaidIsAccountedFor, [Next]_vars, NEW r \in Reservation,
         event'[r] = "processed"
  PROVE  r \in incident' \/ \A t \in line_items'[r] : pay'[t] = "SUCCEEDED"
<1> DEFINE Goal == r \in incident' \/ \A t \in line_items'[r] : pay'[t] = "SUCCEEDED"
<1>1. CASE event[r] = "processed"
  <2>1. session[r] # "none" /\ line_items'[r] = line_items[r] /\ line_items[r] \subseteq Ticket
    BY <1>1, ItemsStep DEF ItemsMove, Consistent, WorksOnCart, TypeOK
  <2>2. incident \subseteq incident'
    BY DEF Next, vars, ReserveBatch, ClaimHold, CreateStripeSession, StampSession, StampMissed,
           Rollback, CancelPendingCheckout, ObserveExpired, CleanupExpiredBatch, FinishRelease,
           ExpireSession, ReservationLapses, SessionLapses, PaySession, CompleteUnpaid,
           WebhookReads, WebhookFindsNothing, WebhookMismatch, WebhookConfirms, WebhookFails,
           StripeGivesUp, CancelTicketByUser, AdminCancelTicket, HoldOverdue, ClearHold,
           SweepSnapshot, SweepReclaim
  <2> QED
    BY <1>1, <2>1, <2>2, CapturedStays DEF PaidIsAccountedFor
<1>2. CASE event[r] # "processed"
  <2>1. \/ UNCHANGED event
        \/ \E q \in Reservation : \/ PaySession(q) \/ StripeGivesUp(q)
                                 \/ WebhookFindsNothing(q) \/ WebhookConfirms(q)
    BY DEF Next, vars, stripe, ReserveBatch, ClaimHold, CreateStripeSession, StampSession,
           StampMissed, Rollback, CancelPendingCheckout, ObserveExpired, CleanupExpiredBatch,
           FinishRelease, ExpireSession, ReservationLapses, SessionLapses, CompleteUnpaid,
           WebhookReads, WebhookMismatch, WebhookFails, CancelTicketByUser, AdminCancelTicket,
           HoldOverdue, ClearHold, SweepSnapshot, SweepReclaim
  <2>4. ASSUME NEW q \in Reservation, PaySession(q) \/ StripeGivesUp(q)
        PROVE  event'[r] # "processed"
    BY <1>2, <2>4 DEF Consistent, TypeOK, PaySession, StripeGivesUp
  <2>5. ASSUME NEW q \in Reservation, WebhookFindsNothing(q) \/ WebhookConfirms(q)
        PROVE  q = r
    BY <1>2, <2>5 DEF Consistent, TypeOK, WebhookFindsNothing, WebhookConfirms
  <2>2. CASE WebhookFindsNothing(r)
    BY <2>2 DEF WebhookFindsNothing
  <2>3. CASE WebhookConfirms(r)
    BY <2>3 DEF WebhookConfirms, Consistent, TypeOK, UnlockedReadsAgree, HookReads
  <2> QED
    BY <1>2, <2>1, <2>2, <2>3, <2>4, <2>5
<1> QED
  BY <1>1, <1>2

THEOREM PaidMoneyIsAccountedFor == Spec => []PaidIsAccountedFor
<1>1. Init => PaidIsAccountedFor
  BY DEF Init, PaidIsAccountedFor
<1>2. Consistent /\ PaidIsAccountedFor /\ [Next]_vars => PaidIsAccountedFor'
  BY AcceptedStep DEF PaidIsAccountedFor
<1> QED
  BY <1>1, <1>2, AlwaysConsistent, PTL DEF Spec

-----------------------------------------------------------------------------
(* The sweep and the sessions that can still be paid. *)

(* A released session has stamped rows; an alert hold is put on stamped    *)
(* rows only, and only once the session is paid.                           *)
SessionsStamped ==
  /\ \A r \in Reservation :
       /\ tx[r].step = "sessioned" => session[r] # "none"
       /\ r \in released => session[r] # "none" /\ cart[r] # {}
       /\ r \notin released => cart[r] \cap stamped = {}
       /\ event[r] # "none" \/ hook[r].step = "read" => session[r] = "paid"
  /\ \A t \in Ticket : hold[t] # "none" => t \in stamped
  /\ \A t \in stamped : ticket[t] # "unwritten"

(* A session that can be paid has rows that neither lapsed nor are held.   *)
PayableIsFresh ==
  \A r \in Reservation : Payable(r) =>
    \A t \in SessionPayments(r) : t \notin lapsed /\ hold[t] = "none"

LEMMA SessionsStampedStep ==
  ASSUME Consistent, SessionsStamped, [Next]_vars
  PROVE  SessionsStamped'
<1> USE DEF Consistent, TypeOK, SessionsStamped, stripe, clock, requests, rows
<1>0. CASE UNCHANGED vars
  BY <1>0 DEF vars
<1>1. ASSUME NEW r \in Reservation, NEW S \in SUBSET Ticket, ReserveBatch(r, S)
      PROVE  SessionsStamped'
  <2>1. S \cap stamped = {}
    BY <1>1 DEF ReserveBatch
  <2> QED
    BY <1>1, <2>1 DEF ReserveBatch
<1>2. ASSUME NEW r \in Reservation, ClaimHold(r) PROVE SessionsStamped'
  BY <1>2 DEF ClaimHold
<1>17. ASSUME NEW r \in Reservation, Rollback(r) PROVE SessionsStamped'
  BY <1>17 DEF Rollback, Idle
<1>3. ASSUME NEW r \in Reservation, CreateStripeSession(r) PROVE SessionsStamped'
  BY <1>3 DEF CreateStripeSession
<1>4. ASSUME NEW r \in Reservation, StampSession(r) PROVE SessionsStamped'
  <2>1. LivePayments(r) \subseteq cart[r] /\ LivePayments(r) # {}
    BY <1>4 DEF StampSession, LivePayments, StillPending, PendingPayments
  <2>2. \A q \in Reservation : q # r => cart[q] \cap LivePayments(r) = {}
    BY <2>1 DEF CartsKept
  <2>3. \A t \in LivePayments(r) : ticket[t] # "unwritten"
    BY <2>1 DEF CartsKept
  <2> QED
    BY <1>4, <2>1, <2>2, <2>3 DEF StampSession, Idle
<1>5. ASSUME NEW r \in Reservation, StampMissed(r) PROVE SessionsStamped'
  BY <1>5 DEF StampMissed, Idle
<1>6. ASSUME NEW r \in Reservation, CancelPendingCheckout(r) PROVE SessionsStamped'
  BY <1>6 DEF CancelPendingCheckout
<1>18. ASSUME NEW r \in Reservation, CleanupExpiredBatch(r) PROVE SessionsStamped'
  BY <1>18 DEF CleanupExpiredBatch
<1>7. ASSUME NEW r \in Reservation, FinishRelease(r) PROVE SessionsStamped'
  BY <1>7 DEF FinishRelease, DeleteBatch, Idle
<1>8. ASSUME NEW r \in Reservation, ExpireSession(r) \/ SessionLapses(r) PROVE SessionsStamped'
  BY <1>8 DEF ExpireSession, SessionLapses
<1>9. ASSUME NEW r \in Reservation, PaySession(r) \/ CompleteUnpaid(r) PROVE SessionsStamped'
  BY <1>9 DEF PaySession, CompleteUnpaid
<1>10. ASSUME NEW r \in Reservation, WebhookFindsNothing(r) \/ StripeGivesUp(r)
       PROVE  SessionsStamped'
  BY <1>10 DEF WebhookFindsNothing, StripeGivesUp
<1>11. ASSUME NEW r \in Reservation, WebhookMismatch(r) PROVE SessionsStamped'
  BY <1>11 DEF WebhookMismatch, SessionPayments
<1>12. ASSUME NEW r \in Reservation, WebhookConfirms(r) PROVE SessionsStamped'
  BY <1>12 DEF WebhookConfirms, NoRead
<1>13. ASSUME NEW t \in Ticket, CancelTicketByUser(t) \/ AdminCancelTicket(t)
       PROVE  SessionsStamped'
  BY <1>13 DEF CancelTicketByUser, AdminCancelTicket
<1>14. ASSUME NEW t \in Ticket, HoldOverdue(t) \/ ClearHold(t) PROVE SessionsStamped'
  BY <1>14 DEF HoldOverdue, ClearHold
<1>15. ASSUME SweepReclaim PROVE SessionsStamped'
  BY <1>15 DEF SweepReclaim, DeleteBatch
<1>16. ASSUME \/ SweepSnapshot
              \/ \E r \in Reservation : \/ ObserveExpired(r) \/ ReservationLapses(r)
                                       \/ WebhookReads(r) \/ WebhookFails(r)
       PROVE  SessionsStamped'
  <2>1. CASE SweepSnapshot
    BY <2>1 DEF SweepSnapshot
  <2>2. ASSUME NEW r \in Reservation, ObserveExpired(r) \/ ReservationLapses(r)
        PROVE  SessionsStamped'
    BY <2>2 DEF ObserveExpired, ReservationLapses
  <2>3. ASSUME NEW r \in Reservation, WebhookReads(r) PROVE SessionsStamped'
    BY <2>3 DEF WebhookReads
  <2>4. ASSUME NEW r \in Reservation, WebhookFails(r) PROVE SessionsStamped'
    BY <2>4 DEF WebhookFails, NoRead
  <2> QED
    BY <1>16, <2>1, <2>2, <2>3, <2>4
<1> QED
  BY <1>0, <1>1, <1>2, <1>3, <1>4, <1>5, <1>6, <1>7, <1>8, <1>9, <1>10, <1>11, <1>12, <1>13,
     <1>14, <1>15, <1>16, <1>17, <1>18 DEF Next

LEMMA PayableIsFreshStep ==
  ASSUME Consistent, SessionsStamped, PayableIsFresh, [Next]_vars
  PROVE  PayableIsFresh'
<1> USE DEF Consistent, TypeOK, PayableIsFresh, Payable, SessionPayments, stripe, clock, rows
<1>0. CASE UNCHANGED <<pay, cart, clock, session, released>>
  BY <1>0
<1>1. ASSUME NEW r \in Reservation, NEW S \in SUBSET Ticket, ReserveBatch(r, S)
      PROVE  PayableIsFresh'
  BY <1>1 DEF ReserveBatch, SessionsStamped, CartsKept
<1>2. ASSUME NEW r \in Reservation, CreateStripeSession(r) PROVE PayableIsFresh'
  BY <1>2 DEF CreateStripeSession, SessionsStamped
<1>3. ASSUME NEW r \in Reservation, StampSession(r) PROVE PayableIsFresh'
  <2>1. LivePayments(r) \subseteq cart[r]
    BY DEF LivePayments, StillPending, PendingPayments
  <2> SUFFICES ASSUME NEW q \in Reservation, Payable(q)', NEW t \in SessionPayments(q)'
               PROVE  t \notin lapsed' /\ hold'[t] = "none"
    OBVIOUS
  <2>2. CASE t \in LivePayments(r) /\ t \notin stamped
    BY <1>3, <2>2 DEF StampSession, SessionsStamped
  <2>3. CASE t \in stamped
    <3>1. t \in SessionPayments(q)
      BY <1>3, <2>3 DEF StampSession
    <3>2. Payable(q)
      BY <1>3, <2>3, <3>1 DEF StampSession, SessionsStamped
    <3> QED
      BY <1>3, <3>1, <3>2 DEF StampSession
  <2> QED
    BY <1>3, <2>2, <2>3 DEF StampSession
<1>4. ASSUME NEW r \in Reservation, StampMissed(r) \/ ExpireSession(r) PROVE PayableIsFresh'
  BY <1>4 DEF StampMissed, ExpireSession
<1>5. ASSUME NEW r \in Reservation, FinishRelease(r) PROVE PayableIsFresh'
  BY <1>5 DEF FinishRelease, DeleteBatch
<1>6. ASSUME NEW r \in Reservation, ReservationLapses(r) PROVE PayableIsFresh'
  BY <1>6 DEF ReservationLapses
<1>7. ASSUME NEW r \in Reservation, SessionLapses(r) PROVE PayableIsFresh'
  <2>1. \A q \in Reservation : q # r => cart[q] \cap cart[r] = {}
    BY DEF CartsKept
  <2> QED
    BY <1>7, <2>1 DEF SessionLapses, PendingPayments
<1>8. ASSUME NEW r \in Reservation, PaySession(r) \/ CompleteUnpaid(r) PROVE PayableIsFresh'
  BY <1>8 DEF PaySession, CompleteUnpaid
<1>9. ASSUME NEW r \in Reservation, WebhookMismatch(r) PROVE PayableIsFresh'
  <2>1. \A q \in Reservation : q # r => cart[q] \cap cart[r] = {}
    BY DEF CartsKept
  <2> QED
    BY <1>9, <2>1 DEF WebhookMismatch, SessionsStamped
<1>10. ASSUME NEW r \in Reservation, WebhookConfirms(r) PROVE PayableIsFresh'
  BY <1>10 DEF WebhookConfirms
<1>11. ASSUME NEW t \in Ticket, HoldOverdue(t) \/ ClearHold(t) PROVE PayableIsFresh'
  BY <1>11 DEF HoldOverdue, ClearHold
<1>12. ASSUME SweepReclaim PROVE PayableIsFresh'
  BY <1>12 DEF SweepReclaim, DeleteBatch
<1>13. \/ UNCHANGED <<pay, cart, clock, session, released>>
       \/ \E r \in Reservation, S \in SUBSET Ticket : ReserveBatch(r, S)
       \/ \E r \in Reservation :
            \/ CreateStripeSession(r) \/ StampSession(r) \/ StampMissed(r) \/ ExpireSession(r)
            \/ FinishRelease(r) \/ ReservationLapses(r) \/ SessionLapses(r)
            \/ PaySession(r) \/ CompleteUnpaid(r) \/ WebhookMismatch(r) \/ WebhookConfirms(r)
       \/ \E t \in Ticket : HoldOverdue(t) \/ ClearHold(t)
       \/ SweepReclaim
  BY DEF Next, vars, ClaimHold, Rollback, CancelPendingCheckout, ObserveExpired,
         CleanupExpiredBatch, WebhookReads, WebhookFindsNothing, WebhookFails, StripeGivesUp,
         CancelTicketByUser, AdminCancelTicket, SweepSnapshot
<1> QED
  BY <1>0, <1>1, <1>2, <1>3, <1>4, <1>5, <1>6, <1>7, <1>8, <1>9, <1>10, <1>11, <1>12, <1>13

(* The sweep, which chooses rows before it locks them, never takes a row   *)
(* of a session that can still be paid.                                    *)
THEOREM SweepLeavesPayable == Spec => SweepSparesPayable
<1> DEFINE Inv == Consistent /\ SessionsStamped /\ PayableIsFresh
<1>1. Init => Inv
  BY ConsistentInit DEF Init, SessionsStamped, PayableIsFresh, Payable, Idle, NoRead
<1>2. Inv /\ [Next]_vars => Inv'
  BY ConsistentStep, SessionsStampedStep, PayableIsFreshStep
<1>3. ASSUME Inv, SweepReclaim, NEW r \in Reservation, Payable(r)
      PROVE  SessionPayments(r)' = SessionPayments(r)
  <2>1. SessionPayments(r) \cap Reclaimable = {}
    BY <1>3 DEF PayableIsFresh, Reclaimable
  <2>2. /\ pay' = [t \in Ticket |-> IF t \in StillReclaimable(candidates)
                                     THEN "deleted" ELSE pay[t]]
        /\ UNCHANGED <<cart, stamped>>
    BY <1>3 DEF SweepReclaim, DeleteBatch, clock
  <2> QED
    BY <1>3, <2>1, <2>2 DEF SessionPayments, StillReclaimable, Consistent, TypeOK, Reclaimable
<1>4. Inv /\ [Next]_vars =>
        [SweepReclaim => \A r \in Reservation :
           Payable(r) => SessionPayments(r)' = SessionPayments(r)]_vars
  BY <1>3
<1> QED
  BY <1>1, <1>2, <1>4, PTL DEF Spec, SweepSparesPayable
=============================================================================
