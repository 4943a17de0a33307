-------------------------- MODULE TicketDeskProofs --------------------------
(***************************************************************************)
(* Theorems about TicketDesk for every set of tickets, tiers and users,    *)
(* every assignment of methods and prices, and every limit.                *)
(***************************************************************************)
EXTENDS TicketDesk, TiersProofs

-----------------------------------------------------------------------------
(* The invariant.  Carts own the rows they mean to write (CartsOK), a desk *)
(* request knows the row it read and insisted on a price then (DeskOK),    *)
(* and of a row whose reads held the money matches the status (MoneyOK).   *)

CartsOK ==
  \A S \in carts : /\ IsCart(S) /\ S \cap Written = {}
                   /\ \A R \in carts : R = S \/ R \cap S = {}

DeskOK ==
  \A r \in desk :
    /\ r.ticket \in Written
    /\ r.pays => IsPWYC(r.ticket)
    /\ r.do = "unconfirm" => ~r.pays
    /\ r.do # "unconfirm" /\ IsPWYC(r.ticket) /\ MethodOf(r.ticket) # "FREE"
         => r.pays \/ r.priced

MoneyOK ==
  /\ refunded \subseteq Written
  /\ \A t \in Written \ stale :
       /\ IsPWYC(t) /\ OfflinePaid(t) => t \in priced
       /\ t \in refunded => ticket[t] = "CANCELLED"
       /\ t \in refunded /\ IsPWYC(t) => t \in priced

UsesOK == times_used = Cardinality(Written \cap Coded)

KeptTo(u) == Cardinality((Held(u) \cap Coded) \ stale) <= MaxUsesPerUser

IInv ==
  /\ TypeOK /\ CartsOK /\ DeskOK /\ MoneyOK /\ UsesOK
  /\ \A u \in User : KeptTo(u)
  /\ Account(quantity_sold, Live, exact)

Limits ==
  /\ MaxTicketsPerUser \in Nat /\ MaxUses \in Nat /\ MaxUsesPerUser \in Nat /\ MaxInFlight \in Nat

LEMMA LimitsAreNumbers == Limits
BY LimitAssumption DEF Limits

LEMMA TicketsCount ==
  ASSUME NEW S \in SUBSET Ticket
  PROVE  IsFiniteSet(S) /\ Cardinality(S) \in Nat
BY TicketAssumption, FS_Subset, FS_CardinalityType

LEMMA FewerTickets ==
  ASSUME NEW S \in SUBSET Ticket, NEW T \in SUBSET S
  PROVE  Cardinality(T) <= Cardinality(S)
BY TicketsCount, FS_Subset

LEMMA CountsAdd ==
  ASSUME NEW S \in SUBSET Ticket, NEW T \in SUBSET Ticket, S \cap T = {}
  PROVE  Cardinality(S \cup T) = Cardinality(S) + Cardinality(T)
<1>1. /\ IsFiniteSet(S) /\ IsFiniteSet(T)
      /\ Cardinality(S) \in Nat /\ Cardinality(T) \in Nat
  BY TicketsCount
<1>2. Cardinality(S \cup T) = Cardinality(S) + Cardinality(T) - Cardinality(S \cap T)
  BY <1>1, FS_Union
<1>3. Cardinality(S \cap T) = 0
  BY FS_EmptySet
<1> QED
  BY <1>1, <1>2, <1>3

-----------------------------------------------------------------------------
(* The steps. *)

(* A cart that passed the checks under the locks is written whole. *)
Sold(S) ==
  /\ S \in carts /\ carts' = carts \ {S}
  /\ TierCapacityLeft(quantity_sold, S)
  /\ CodeStillUsable(OwnerOf[CHOOSE t \in S : TRUE], S \cap Coded)
  /\ ticket' = [t \in Ticket |-> IF t \notin S THEN ticket[t]
                                 ELSE IF MethodOf(t) = "OFFLINE" THEN "PENDING" ELSE "ACTIVE"]
  /\ priced' = priced \cup {t \in S : IsPWYC(t)}
  /\ quantity_sold' = Bumped(quantity_sold, S)
  /\ times_used' = times_used + Uses(S)
  /\ UNCHANGED <<refunded, desk, history>>

(* A ticket that was live is cancelled; at most a refund is recorded. *)
Cancelled(t) ==
  /\ t \in Live /\ Cancel(t)
  /\ refunded' = refunded \/ (OfflinePaid(t) /\ refunded' = refunded \cup {t})
  /\ UNCHANGED <<priced, times_used, requests, history>>

LEMMA Steps ==
  ASSUME [Next]_vars
  PROVE  \/ \E S \in SUBSET Ticket : CheckCaps(S) \/ Sold(S) \/ (UNCHANGED <<rows, desk, history>> /\ carts' = carts \ {S})
         \/ \E t \in Ticket : Cancelled(t)
         \/ \E do \in {"confirm", "unconfirm", "check-in"}, t \in Ticket, pays \in BOOLEAN :
              StaffReads(do, t, pays)
         \/ \E r \in desk : StaffWrites(r)
         \/ UNCHANGED vars
<1>1. ASSUME NEW S \in SUBSET Ticket, Purchase(S)
      PROVE  Sold(S) \/ (UNCHANGED <<rows, desk, history>> /\ carts' = carts \ {S})
  BY <1>1 DEF Purchase, Sold
<1>2. ASSUME NEW t \in Ticket, CancelOffline(t) \/ MarkRefunded(t) \/ CancelByUser(t)
      PROVE  Cancelled(t)
  BY <1>2 DEF CancelOffline, MarkRefunded, CancelByUser, Cancellable, RefundsPaid, Cancelled
<1> QED
  BY <1>1, <1>2 DEF Next

LEMMA TypeStep == IInv /\ [Next]_vars => TypeOK'
<1> SUFFICES ASSUME IInv, [Next]_vars PROVE TypeOK'
  OBVIOUS
<1> USE DEF rows, requests, history
<1>0. TypeOK /\ DeskOK
  BY DEF IInv
<1>1. ASSUME NEW S \in SUBSET Ticket, CheckCaps(S) PROVE TypeOK'
  BY <1>0, <1>1 DEF CheckCaps, TypeOK
<1>2. ASSUME NEW S \in SUBSET Ticket, Sold(S) PROVE TypeOK'
  <2>1. quantity_sold' \in [Tier -> Nat]
    BY <1>0, <1>2, ReleaseType DEF Sold, TypeOK
  <2>2. times_used' \in 0 .. MaxUses
    <3>1. times_used' = times_used + Cardinality(S \cap Coded) /\ times_used \in 0 .. MaxUses
      BY <1>0, <1>2 DEF Sold, Uses, TypeOK
    <3>2. S \cap Coded # {} => times_used + Cardinality(S \cap Coded) <= MaxUses
      BY <1>2 DEF Sold, CodeStillUsable
    <3>3. S \cap Coded = {} => Cardinality(S \cap Coded) = 0
      BY FS_EmptySet
    <3>4. Cardinality(S \cap Coded) \in Nat /\ MaxUses \in Nat
      <4>1. S \cap Coded \in SUBSET Ticket
        OBVIOUS
      <4> QED
        BY <4>1, TicketsCount, LimitsAreNumbers DEF Limits
    <3> QED
      BY <3>1, <3>2, <3>3, <3>4
  <2>3. /\ ticket' \in [Ticket -> {"unwritten", "PENDING", "ACTIVE", "CHECKED_IN", "CANCELLED"}]
        /\ priced' \in SUBSET {t \in Ticket : TierOf[t] \in PayWhatYouCan}
    BY <1>0, <1>2 DEF Sold, TypeOK, IsPWYC
  <2> QED
    BY <1>0, <1>2, <2>1, <2>2, <2>3 DEF Sold, TypeOK
<1>3. ASSUME NEW S \in SUBSET Ticket, UNCHANGED <<rows, desk, history>>, carts' = carts \ {S}
      PROVE  TypeOK'
  BY <1>0, <1>3 DEF TypeOK
<1>4. ASSUME NEW t \in Ticket, Cancelled(t) PROVE TypeOK'
  <2>1. quantity_sold' \in [Tier -> Nat]
    BY <1>0, <1>4, ReleaseType DEF Cancelled, Cancel, TypeOK
  <2> QED
    BY <1>0, <1>4, <2>1 DEF Cancelled, Cancel, TypeOK
<1>5. ASSUME NEW do \in {"confirm", "unconfirm", "check-in"}, NEW t \in Ticket, NEW pays \in BOOLEAN,
             StaffReads(do, t, pays)
      PROVE  TypeOK'
  <2>0. PICK n \in 1 .. MaxInFlight : desk' = desk \cup {Fetched(do, t, pays, n)}
    BY <1>5 DEF StaffReads
  <2> DEFINE r == Fetched(do, t, pays, n)
  <2>1. ticket[t] \in {"PENDING", "ACTIVE"}
    BY <1>5 DEF StaffReads, Admissible
  <2>2. r \in Request
    BY <2>1 DEF Fetched, Request
  <2>3. desk' = desk \cup {r} /\ UNCHANGED <<rows, carts, history>>
    BY <1>5, <2>0 DEF StaffReads
  <2> HIDE DEF r
  <2> QED
    BY <1>0, <2>2, <2>3 DEF TypeOK
<1>6. ASSUME NEW r \in desk, StaffWrites(r) PROVE TypeOK'
  <2>1. r \in Request /\ r.ticket \in Ticket /\ r.do \in {"confirm", "unconfirm", "check-in"}
    BY <1>0 DEF TypeOK, Request
  <2>2. StatusWritten(r.do) \in {"PENDING", "ACTIVE", "CHECKED_IN"}
    BY <2>1 DEF StatusWritten
  <2>3. PriceWritten(r) \in SUBSET {t \in Ticket : TierOf[t] \in PayWhatYouCan}
    BY <1>0, <2>1 DEF PriceWritten, TypeOK, DeskOK, IsPWYC
  <2>4. exact' \in BOOLEAN
    BY <1>0, <1>6 DEF StaffWrites, TypeOK
  <2> QED
    BY <1>0, <1>6, <2>1, <2>2, <2>3, <2>4 DEF StaffWrites, TypeOK
<1>7. CASE UNCHANGED vars
  BY <1>0, <1>7 DEF vars, TypeOK
<1> QED
  BY <1>1, <1>2, <1>3, <1>4, <1>5, <1>6, <1>7, Steps

(* What the steps do to the sets of rows. *)
LEMMA SoldWrites ==
  ASSUME IInv, NEW S \in SUBSET Ticket, Sold(S)
  PROVE  /\ Written' = Written \cup S /\ Live' = Live \cup S
         /\ S \cap Written = {} /\ S \cap Live = {} /\ IsCart(S)
         /\ \A t \in Ticket \ S : ticket'[t] = ticket[t]
         /\ \A t \in S : ticket'[t] = IF MethodOf(t) = "OFFLINE" THEN "PENDING" ELSE "ACTIVE"
<1>1. TypeOK /\ IsCart(S) /\ S \cap Written = {}
  BY DEF IInv, CartsOK, Sold
<1>2. /\ \A t \in Ticket \ S : ticket'[t] = ticket[t]
      /\ \A t \in S : ticket'[t] = IF MethodOf(t) = "OFFLINE" THEN "PENDING" ELSE "ACTIVE"
  BY <1>1 DEF Sold
<1> QED
  BY <1>1, <1>2 DEF Written, Live

LEMMA CancelledWrites ==
  ASSUME IInv, NEW t \in Ticket, Cancelled(t)
  PROVE  /\ Written' = Written /\ Live' = Live \ {t} /\ t \in Live
         /\ ticket'[t] = "CANCELLED" /\ \A s \in Ticket \ {t} : ticket'[s] = ticket[s]
<1>1. TypeOK /\ t \in Live
  BY DEF IInv, Cancelled
<1>2. ticket'[t] = "CANCELLED" /\ \A s \in Ticket \ {t} : ticket'[s] = ticket[s]
  BY <1>1 DEF Cancelled, Cancel, TypeOK
<1> QED
  BY <1>1, <1>2 DEF Written, Live

LEMMA StaffWritesRow ==
  ASSUME IInv, NEW r \in desk, StaffWrites(r)
  PROVE  /\ r.ticket \in Ticket /\ r.ticket \in Written
         /\ r.do \in {"confirm", "unconfirm", "check-in"} /\ r.read \in {"PENDING", "ACTIVE"}
         /\ r.priced \in BOOLEAN /\ r.pays \in BOOLEAN
         /\ Written' = Written /\ Live' = Live \cup {r.ticket}
         /\ ticket'[r.ticket] = StatusWritten(r.do)
         /\ StatusWritten(r.do) \in {"PENDING", "ACTIVE", "CHECKED_IN"}
         /\ \A s \in Ticket \ {r.ticket} : ticket'[s] = ticket[s]
<1>1. TypeOK /\ DeskOK
  BY DEF IInv
<1>2. /\ r.ticket \in Ticket /\ r.ticket \in Written
      /\ r.do \in {"confirm", "unconfirm", "check-in"} /\ r.read \in {"PENDING", "ACTIVE"}
      /\ r.priced \in BOOLEAN /\ r.pays \in BOOLEAN
  BY <1>1 DEF TypeOK, DeskOK, Request
<1>3. StatusWritten(r.do) \in {"PENDING", "ACTIVE", "CHECKED_IN"}
  BY <1>2 DEF StatusWritten
<1>4. ticket'[r.ticket] = StatusWritten(r.do) /\ \A s \in Ticket \ {r.ticket} : ticket'[s] = ticket[s]
  BY <1>1, <1>2 DEF StaffWrites, TypeOK
<1>5. Written' = Written
  BY <1>2, <1>3, <1>4 DEF Written
<1>6. Live' = Live \cup {r.ticket}
  <2>1. ticket'[r.ticket] # "CANCELLED"
    BY <1>3, <1>4
  <2>2. \A s \in Written : s # r.ticket => ticket'[s] = ticket[s]
    BY <1>4 DEF Written
  <2>3. \A s \in Written : s \in Live' <=> (s \in Live \/ s = r.ticket)
    BY <1>5, <2>1, <2>2 DEF Live
  <2>4. Live' \subseteq Written /\ Live \subseteq Written
    BY <1>5 DEF Live
  <2> QED
    BY <1>2, <2>3, <2>4
<1> QED
  BY <1>2, <1>3, <1>4, <1>5, <1>6

-----------------------------------------------------------------------------
LEMMA CartsStep == IInv /\ [Next]_vars => CartsOK'
<1> SUFFICES ASSUME IInv, [Next]_vars PROVE CartsOK'
  OBVIOUS
<1> USE DEF rows, requests, history
<1>0. TypeOK /\ CartsOK
  BY DEF IInv
<1>a. ASSUME carts' \subseteq carts, Written' = Written PROVE CartsOK'
  BY <1>0, <1>a DEF CartsOK, IsCart
<1>1. ASSUME NEW S \in SUBSET Ticket, CheckCaps(S) PROVE CartsOK'
  <2>1. /\ IsCart(S) /\ S \cap Written = {} /\ \A R \in carts : R \cap S = {}
        /\ carts' = carts \cup {S} /\ Written' = Written
    BY <1>1 DEF CheckCaps, Written
  <2> QED
    BY <1>0, <2>1 DEF CartsOK, IsCart
<1>2. ASSUME NEW S \in SUBSET Ticket, Sold(S) PROVE CartsOK'
  <2>1. Written' = Written \cup S /\ carts' = carts \ {S} /\ S \in carts
    BY <1>2, SoldWrites DEF Sold
  <2> QED
    BY <1>0, <2>1 DEF CartsOK, IsCart
<1>3. ASSUME NEW S \in SUBSET Ticket, UNCHANGED <<rows, desk, history>>, carts' = carts \ {S}
      PROVE  CartsOK'
  BY <1>3, <1>a DEF Written
<1>4. ASSUME NEW t \in Ticket, Cancelled(t) PROVE CartsOK'
  BY <1>4, <1>a, CancelledWrites DEF Cancelled
<1>5. ASSUME NEW do \in {"confirm", "unconfirm", "check-in"}, NEW t \in Ticket, NEW pays \in BOOLEAN,
             StaffReads(do, t, pays)
      PROVE  CartsOK'
  BY <1>5, <1>a DEF StaffReads, Written
<1>6. ASSUME NEW r \in desk, StaffWrites(r) PROVE CartsOK'
  BY <1>6, <1>a, StaffWritesRow DEF StaffWrites
<1>7. CASE UNCHANGED vars
  BY <1>7, <1>a DEF vars, Written
<1> QED
  BY <1>1, <1>2, <1>3, <1>4, <1>5, <1>6, <1>7, Steps

LEMMA DeskStep == IInv /\ [Next]_vars => DeskOK'
<1> SUFFICES ASSUME IInv, [Next]_vars PROVE DeskOK'
  OBVIOUS
<1> USE DEF rows, requests, history
<1>0. TypeOK /\ DeskOK
  BY DEF IInv
<1>a. ASSUME desk' \subseteq desk, Written \subseteq Written' PROVE DeskOK'
  BY <1>0, <1>a DEF DeskOK
<1>1. ASSUME NEW S \in SUBSET Ticket,
             \/ CheckCaps(S) \/ Sold(S)
             \/ UNCHANGED <<rows, desk, history>> /\ carts' = carts \ {S}
      PROVE  DeskOK'
  <2>1. CASE Sold(S)
    BY <1>a, <2>1, SoldWrites DEF Sold
  <2>2. CASE UNCHANGED <<rows, desk, history>>
    BY <1>a, <2>2 DEF Written
  <2> QED
    BY <1>1, <2>1, <2>2 DEF CheckCaps
<1>2. ASSUME NEW t \in Ticket, Cancelled(t) PROVE DeskOK'
  BY <1>2, <1>a, CancelledWrites DEF Cancelled
<1>3. ASSUME NEW do \in {"confirm", "unconfirm", "check-in"}, NEW t \in Ticket, NEW pays \in BOOLEAN,
             StaffReads(do, t, pays)
      PROVE  DeskOK'
  <2>0. PICK n \in 1 .. MaxInFlight : desk' = desk \cup {Fetched(do, t, pays, n)}
    BY <1>3 DEF StaffReads
  <2> DEFINE r == Fetched(do, t, pays, n)
  <2>1. desk' = desk \cup {r} /\ Written' = Written
    BY <1>3, <2>0 DEF StaffReads, Written
  <2>2. t \in Written
    BY <1>3 DEF StaffReads, Admissible, Written
  <2>3. /\ r.ticket \in Written
        /\ r.pays => IsPWYC(r.ticket)
        /\ r.do = "unconfirm" => ~r.pays
        /\ r.do # "unconfirm" /\ IsPWYC(r.ticket) /\ MethodOf(r.ticket) # "FREE"
             => r.pays \/ r.priced
    BY <1>3, <2>2 DEF StaffReads, PriceAccepted, Fetched
  <2> HIDE DEF r
  <2>4. ASSUME NEW q \in desk'
        PROVE  /\ q.ticket \in Written'
               /\ q.pays => IsPWYC(q.ticket)
               /\ q.do = "unconfirm" => ~q.pays
               /\ q.do # "unconfirm" /\ IsPWYC(q.ticket) /\ MethodOf(q.ticket) # "FREE"
                    => q.pays \/ q.priced
    <3>1. CASE q \in desk
      BY <1>0, <2>1, <3>1 DEF DeskOK
    <3>2. CASE q = r
      BY <2>1, <2>3, <3>2
    <3> QED
      BY <2>1, <3>1, <3>2
  <2> QED
    BY <2>4 DEF DeskOK
<1>4. ASSUME NEW r \in desk, StaffWrites(r) PROVE DeskOK'
  BY <1>4, <1>a, StaffWritesRow DEF StaffWrites
<1>5. CASE UNCHANGED vars
  BY <1>5, <1>a DEF vars, Written
<1> QED
  BY <1>1, <1>2, <1>3, <1>4, <1>5, Steps

LEMMA MoneyStep == IInv /\ [Next]_vars => MoneyOK'
<1> SUFFICES ASSUME IInv, [Next]_vars PROVE MoneyOK'
  OBVIOUS
<1> USE DEF rows, requests, history
<1>0. TypeOK /\ MoneyOK
  BY DEF IInv
<1>r. /\ refunded \subseteq Written
      /\ \A t \in Written \ stale :
           /\ IsPWYC(t) /\ OfflinePaid(t) => t \in priced
           /\ t \in refunded => ticket[t] = "CANCELLED"
           /\ t \in refunded /\ IsPWYC(t) => t \in priced
  BY <1>0 DEF MoneyOK
<1>a. ASSUME UNCHANGED <<rows, stale>> PROVE MoneyOK'
  BY <1>0, <1>a DEF MoneyOK, Written, OfflinePaid
<1>1. ASSUME NEW S \in SUBSET Ticket,
             \/ CheckCaps(S) \/ Sold(S)
             \/ UNCHANGED <<rows, desk, history>> /\ carts' = carts \ {S}
      PROVE  MoneyOK'
  <2>1. CASE Sold(S)
    <3>1. /\ Written' = Written \cup S /\ S \cap Written = {}
          /\ \A t \in Ticket \ S : ticket'[t] = ticket[t]
          /\ priced' = priced \cup {t \in S : IsPWYC(t)}
          /\ refunded' = refunded /\ stale' = stale
      BY <2>1, SoldWrites DEF Sold
    <3>2. refunded' \subseteq Written'
      BY <1>r, <3>1
    <3>3. ASSUME NEW t \in (Written \ stale)'
          PROVE  /\ IsPWYC(t) /\ OfflinePaid(t)' => t \in priced'
                 /\ t \in refunded' => ticket'[t] = "CANCELLED"
                 /\ t \in refunded' /\ IsPWYC(t) => t \in priced'
      <4>1. CASE t \in S
        BY <1>r, <3>1, <4>1
      <4>2. CASE t \notin S
        <5>1. t \in Written \ stale /\ t \in Ticket /\ ticket'[t] = ticket[t]
          BY <3>1, <4>2 DEF Written
        <5> QED
          BY <1>r, <3>1, <5>1 DEF OfflinePaid, MethodOf, IsPWYC
      <4> QED
        BY <4>1, <4>2
    <3> QED
      BY <3>2, <3>3 DEF MoneyOK
  <2>2. CASE UNCHANGED <<rows, desk, history>>
    BY <1>a, <2>2
  <2> QED
    BY <1>1, <2>1, <2>2 DEF CheckCaps
<1>2. ASSUME NEW t \in Ticket, Cancelled(t) PROVE MoneyOK'
  <2>1. /\ Written' = Written /\ t \in Written /\ ticket'[t] = "CANCELLED"
        /\ \A s \in Ticket \ {t} : ticket'[s] = ticket[s]
        /\ priced' = priced /\ stale' = stale
        /\ refunded' = refunded \/ (OfflinePaid(t) /\ refunded' = refunded \cup {t})
    BY <1>2, CancelledWrites DEF Cancelled, Live
  <2>2. refunded' \subseteq Written'
    BY <1>r, <2>1
  <2>3. ASSUME NEW s \in (Written \ stale)'
        PROVE  /\ IsPWYC(s) /\ OfflinePaid(s)' => s \in priced'
               /\ s \in refunded' => ticket'[s] = "CANCELLED"
               /\ s \in refunded' /\ IsPWYC(s) => s \in priced'
    <3>1. s \in Written \ stale /\ s \in Ticket
      BY <2>1 DEF Written
    <3>2. CASE s = t
      <4>1. ~OfflinePaid(t)'
        BY <2>1 DEF OfflinePaid
      <4> QED
        BY <1>r, <2>1, <3>1, <3>2, <4>1 DEF IsPWYC
    <3>3. CASE s # t
      <4>1. ticket'[s] = ticket[s] /\ (s \in refunded' <=> s \in refunded)
        BY <2>1, <3>1, <3>3
      <4> QED
        BY <1>r, <2>1, <3>1, <4>1 DEF OfflinePaid, MethodOf, IsPWYC
    <3> QED
      BY <3>2, <3>3
  <2> QED
    BY <2>2, <2>3 DEF MoneyOK
<1>3. ASSUME NEW do \in {"confirm", "unconfirm", "check-in"}, NEW t \in Ticket, NEW pays \in BOOLEAN,
             StaffReads(do, t, pays)
      PROVE  MoneyOK'
  BY <1>3, <1>a DEF StaffReads
<1>4. ASSUME NEW r \in desk, StaffWrites(r) PROVE MoneyOK'
  <2> DEFINE t == r.ticket
  <2>1. /\ t \in Ticket /\ t \in Written /\ Written' = Written
        /\ ticket'[t] = StatusWritten(r.do)
        /\ r.do \in {"confirm", "unconfirm", "check-in"} /\ r.read \in {"PENDING", "ACTIVE"}
        /\ \A s \in Ticket \ {t} : ticket'[s] = ticket[s]
    BY <1>4, StaffWritesRow
  <2>2. /\ priced' = PriceWritten(r) /\ refunded' = refunded
        /\ stale' = IF r.read # ticket[t] \/ r.priced # (t \in priced) THEN stale \cup {t} ELSE stale
    BY <1>4 DEF StaffWrites
  <2>3. /\ r.do = "unconfirm" => ~r.pays
        /\ r.do # "unconfirm" /\ IsPWYC(t) /\ MethodOf(t) # "FREE" => r.pays \/ r.priced
    BY DEF IInv, DeskOK
  <2>4. /\ \A s \in Ticket \ {t} : s \in priced' <=> s \in priced
        /\ r.pays => t \in priced'
        /\ r.do # "unconfirm" /\ t \in priced => t \in priced'
    BY <2>2 DEF PriceWritten
  <2> HIDE DEF t
  <2>5. ASSUME NEW s \in (Written \ stale)'
        PROVE  /\ IsPWYC(s) /\ OfflinePaid(s)' => s \in priced'
               /\ s \in refunded' => ticket'[s] = "CANCELLED"
               /\ s \in refunded' /\ IsPWYC(s) => s \in priced'
    <3>1. s \in Written \ stale /\ s \in Ticket
      BY <2>1, <2>2 DEF Written
    <3>2. CASE s = t
      <4>1. r.read = ticket[t] /\ (r.priced = (t \in priced))
        BY <2>2, <3>2
      <4>2. t \notin refunded
        BY <1>r, <2>1, <3>1, <3>2, <4>1
      <4>3. ASSUME IsPWYC(t), OfflinePaid(t)' PROVE t \in priced'
        <5>1. MethodOf(t) # "FREE" /\ r.do # "unconfirm"
          BY <2>1, <4>3 DEF OfflinePaid, StatusWritten
        <5>2. r.pays \/ t \in priced
          BY <2>3, <4>1, <4>3, <5>1
        <5> QED
          BY <2>4, <5>1, <5>2
      <4> QED
        BY <2>2, <3>2, <4>2, <4>3
    <3>3. CASE s # t
      <4>1. ticket'[s] = ticket[s] /\ (s \in priced' <=> s \in priced)
        BY <2>1, <2>4, <3>1, <3>3
      <4> QED
        BY <1>r, <2>2, <3>1, <4>1 DEF OfflinePaid, MethodOf, IsPWYC
    <3> QED
      BY <3>2, <3>3
  <2> QED
    BY <1>r, <2>1, <2>2, <2>5 DEF MoneyOK
<1>5. CASE UNCHANGED vars
  BY <1>5, <1>a DEF vars
<1> QED
  BY <1>1, <1>2, <1>3, <1>4, <1>5, Steps

-----------------------------------------------------------------------------
(* The code. *)

LEMMA UsesStep == IInv /\ [Next]_vars => UsesOK'
<1> SUFFICES ASSUME IInv, [Next]_vars PROVE UsesOK'
  OBVIOUS
<1> USE DEF rows, requests, history
<1>0. UsesOK
  BY DEF IInv
<1>a. ASSUME Written' = Written, times_used' = times_used PROVE UsesOK'
  BY <1>0, <1>a DEF UsesOK
<1>1. ASSUME NEW S \in SUBSET Ticket, Sold(S) PROVE UsesOK'
  <2> DEFINE W == Written \cap Coded
             C == S \cap Coded
  <2>1. Written' = Written \cup S /\ S \cap Written = {} /\ times_used' = times_used + Cardinality(C)
    BY <1>1, SoldWrites DEF Sold, Uses
  <2>2. Written' \cap Coded = W \cup C /\ W \cap C = {} /\ times_used = Cardinality(W)
    BY <1>0, <2>1 DEF UsesOK
  <2>3. W \in SUBSET Ticket /\ C \in SUBSET Ticket
    BY DEF Written
  <2> HIDE DEF W, C
  <2>4. Cardinality(W \cup C) = Cardinality(W) + Cardinality(C)
    BY <2>2, <2>3, TicketsCount, CountsAdd
  <2> QED
    BY <2>1, <2>2, <2>4 DEF UsesOK
<1>2. ASSUME NEW S \in SUBSET Ticket,
             CheckCaps(S) \/ (UNCHANGED <<rows, desk, history>> /\ carts' = carts \ {S})
      PROVE  UsesOK'
  BY <1>2, <1>a DEF CheckCaps, Written
<1>3. ASSUME NEW t \in Ticket, Cancelled(t) PROVE UsesOK'
  BY <1>3, <1>a, CancelledWrites DEF Cancelled
<1>4. ASSUME NEW do \in {"confirm", "unconfirm", "check-in"}, NEW t \in Ticket, NEW pays \in BOOLEAN,
             StaffReads(do, t, pays)
      PROVE  UsesOK'
  BY <1>4, <1>a DEF StaffReads, Written
<1>5. ASSUME NEW r \in desk, StaffWrites(r) PROVE UsesOK'
  BY <1>5, <1>a, StaffWritesRow DEF StaffWrites
<1>6. CASE UNCHANGED vars
  BY <1>6, <1>a DEF vars, Written
<1> QED
  BY <1>1, <1>2, <1>3, <1>4, <1>5, <1>6, Steps

(* A sale writes the code on rows of one buyer, whose uses it has asked    *)
(* about under the code's lock.                                            *)
LEMMA SaleKeepsTo ==
  ASSUME IInv, NEW S \in SUBSET Ticket, Sold(S), NEW u \in User, KeptTo(u)
  PROVE  KeptTo(u)'
<1> DEFINE H == (Held(u) \cap Coded) \ stale
           M == (Held(u)' \cap Coded) \ stale'
           b == OwnerOf[CHOOSE t \in S : TRUE]
<1>1. /\ stale' = stale /\ S # {} /\ \A t, s \in S : OwnerOf[t] = OwnerOf[s]
      /\ \A t \in Ticket \ S : ticket'[t] = ticket[t]
      /\ CodeStillUsable(b, S \cap Coded)
  BY SoldWrites DEF Sold, history, IsCart
<1>2. \A t \in S : OwnerOf[t] = b
  BY <1>1
<1> HIDE DEF b
<1>3. Cardinality(H) <= MaxUsesPerUser /\ MaxUsesPerUser \in Nat
  BY LimitsAreNumbers DEF KeptTo, Limits
<1>4. CASE u = b /\ S \cap Coded # {}
  <2> DEFINE B == (Held(u) \cap Coded) \cup (S \cap Coded)
  <2>1. B \in SUBSET Ticket /\ M \subseteq B
    BY <1>1 DEF Held
  <2>2. Cardinality(B) <= MaxUsesPerUser
    BY <1>1, <1>4 DEF CodeStillUsable
  <2> HIDE DEF B, M
  <2>3. Cardinality(M) <= Cardinality(B) /\ Cardinality(M) \in Nat /\ Cardinality(B) \in Nat
    BY <2>1, FewerTickets, TicketsCount
  <2>4. Cardinality(M) <= MaxUsesPerUser
    BY <1>3, <2>2, <2>3
  <2> QED
    BY <2>4 DEF KeptTo, M
<1>5. CASE ~(u = b /\ S \cap Coded # {})
  <2>1. \A t \in M : t \notin S
    BY <1>2, <1>5 DEF Held
  <2>2. M \subseteq H
    BY <1>1, <2>1 DEF Held
  <2>3. H \in SUBSET Ticket
    BY DEF Held
  <2> HIDE DEF H, M
  <2>4. Cardinality(M) <= Cardinality(H) /\ Cardinality(M) \in Nat /\ Cardinality(H) \in Nat
    BY <2>2, <2>3, FewerTickets, TicketsCount
  <2>5. Cardinality(M) <= MaxUsesPerUser
    BY <1>3, <2>4
  <2> QED
    BY <2>5 DEF KeptTo, M
<1> QED
  BY <1>4, <1>5

LEMMA KeptStep ==
  ASSUME IInv, [Next]_vars, NEW u \in User
  PROVE  KeptTo(u)'
<1> USE DEF rows, requests, history
<1>0. TypeOK /\ KeptTo(u)
  BY DEF IInv
<1>a. ASSUME \A t \in Ticket \ stale' :
               /\ t \notin stale
               /\ ticket'[t] \in {"PENDING", "ACTIVE"} => ticket[t] \in {"PENDING", "ACTIVE"}
      PROVE  KeptTo(u)'
  <2> DEFINE H == (Held(u) \cap Coded) \ stale
             M == (Held(u)' \cap Coded) \ stale'
  <2>1. M \subseteq H /\ H \in SUBSET Ticket
    BY <1>a DEF Held
  <2>2. Cardinality(H) <= MaxUsesPerUser /\ MaxUsesPerUser \in Nat
    BY <1>0, LimitsAreNumbers DEF KeptTo, Limits
  <2> HIDE DEF H, M
  <2>3. Cardinality(M) <= Cardinality(H) /\ Cardinality(M) \in Nat /\ Cardinality(H) \in Nat
    BY <2>1, FewerTickets, TicketsCount
  <2>4. Cardinality(M) <= MaxUsesPerUser
    BY <2>2, <2>3
  <2> QED
    BY <2>4 DEF KeptTo, M
<1>1. ASSUME NEW S \in SUBSET Ticket, Sold(S) PROVE KeptTo(u)'
  BY <1>0, <1>1, SaleKeepsTo
<1>2. ASSUME NEW S \in SUBSET Ticket,
             CheckCaps(S) \/ (UNCHANGED <<rows, desk, history>> /\ carts' = carts \ {S})
      PROVE  KeptTo(u)'
  BY <1>2, <1>a DEF CheckCaps
<1>3. ASSUME NEW t \in Ticket, Cancelled(t) PROVE KeptTo(u)'
  <2>1. stale' = stale
    BY <1>3 DEF Cancelled
  <2>2. ticket'[t] = "CANCELLED" /\ \A s \in Ticket \ {t} : ticket'[s] = ticket[s]
    BY <1>3, CancelledWrites
  <2> QED
    BY <1>a, <2>1, <2>2
<1>4. ASSUME NEW do \in {"confirm", "unconfirm", "check-in"}, NEW t \in Ticket, NEW pays \in BOOLEAN,
             StaffReads(do, t, pays)
      PROVE  KeptTo(u)'
  BY <1>4, <1>a DEF StaffReads
<1>5. ASSUME NEW r \in desk, StaffWrites(r) PROVE KeptTo(u)'
  <2>1. /\ r.read \in {"PENDING", "ACTIVE"}
        /\ \A s \in Ticket \ {r.ticket} : ticket'[s] = ticket[s]
    BY <1>5, StaffWritesRow
  <2>2. stale' = IF r.read # ticket[r.ticket] \/ r.priced # (r.ticket \in priced)
                 THEN stale \cup {r.ticket} ELSE stale
    BY <1>5 DEF StaffWrites
  <2>3. ASSUME NEW t \in Ticket \ stale'
        PROVE  /\ t \notin stale
               /\ ticket'[t] \in {"PENDING", "ACTIVE"} => ticket[t] \in {"PENDING", "ACTIVE"}
    <3>1. CASE t = r.ticket
      BY <2>1, <2>2, <3>1
    <3>2. CASE t # r.ticket
      BY <2>1, <2>2, <3>2
    <3> QED
      BY <3>1, <3>2
  <2> QED
    BY <1>a, <2>3
<1>6. CASE UNCHANGED vars
  BY <1>6, <1>a DEF vars
<1> QED
  BY <1>1, <1>2, <1>3, <1>4, <1>5, <1>6, Steps

-----------------------------------------------------------------------------
(* The stock.  Of each step, what it does to the live tickets, the counter *)
(* and the mark of a slip.                                                 *)

Sale(S) ==
  /\ S # {} /\ S \cap Live = {} /\ TierCapacityLeft(quantity_sold, S)
  /\ Live' = Live \cup S /\ quantity_sold' = Bumped(quantity_sold, S) /\ exact' = exact

GiveBack(t) ==
  /\ t \in Live
  /\ Live' = Live \ {t} /\ quantity_sold' = Released(quantity_sold, {t}) /\ exact' = exact

Reappears(t) ==
  /\ Live' = Live \cup {t} /\ quantity_sold' = quantity_sold /\ exact' = FALSE

NothingMoves == Live' = Live /\ quantity_sold' = quantity_sold /\ exact' = exact

LEMMA StockStep ==
  ASSUME IInv, [Next]_vars
  PROVE  \/ \E S \in SUBSET Ticket : Sale(S)
         \/ \E t \in Ticket : GiveBack(t)
         \/ \E t \in Ticket : Reappears(t)
         \/ NothingMoves
<1> USE DEF rows, requests, history
<1>1. ASSUME NEW S \in SUBSET Ticket, Sold(S) PROVE Sale(S)
  BY <1>1, SoldWrites DEF Sold, Sale, IsCart
<1>2. ASSUME NEW t \in Ticket, Cancelled(t) PROVE GiveBack(t)
  BY <1>2, CancelledWrites DEF Cancelled, Cancel, GiveBack
<1>3. ASSUME NEW S \in SUBSET Ticket,
             CheckCaps(S) \/ (UNCHANGED <<rows, desk, history>> /\ carts' = carts \ {S})
      PROVE  NothingMoves
  BY <1>3 DEF CheckCaps, NothingMoves, Live, Written
<1>4. ASSUME NEW do \in {"confirm", "unconfirm", "check-in"}, NEW t \in Ticket, NEW pays \in BOOLEAN,
             StaffReads(do, t, pays)
      PROVE  NothingMoves
  BY <1>4 DEF StaffReads, NothingMoves, Live, Written
<1>5. ASSUME NEW r \in desk, StaffWrites(r) PROVE Reappears(r.ticket) \/ NothingMoves
  <2>1. /\ r.ticket \in Ticket /\ r.ticket \in Written /\ Live' = Live \cup {r.ticket}
        /\ quantity_sold' = quantity_sold /\ exact' = (exact /\ ticket[r.ticket] # "CANCELLED")
    BY <1>5, StaffWritesRow DEF StaffWrites
  <2>2. CASE ticket[r.ticket] = "CANCELLED"
    BY <2>1, <2>2 DEF Reappears
  <2>3. CASE ticket[r.ticket] # "CANCELLED"
    <3>1. r.ticket \in Live
      BY <2>1, <2>3 DEF Live
    <3>2. exact' = exact
      BY <2>1, <2>3 DEF IInv, TypeOK
    <3> QED
      BY <2>1, <3>1, <3>2 DEF NothingMoves
  <2> QED
    BY <2>2, <2>3
<1>6. CASE UNCHANGED vars
  BY <1>6 DEF vars, NothingMoves, Live, Written
<1>7. \A r \in desk : r.ticket \in Ticket
  BY DEF IInv, TypeOK, Request
<1> QED
  BY <1>1, <1>2, <1>3, <1>4, <1>5, <1>6, <1>7, Steps

LEMMA AccountStep ==
  ASSUME IInv, [Next]_vars
  PROVE  Account(quantity_sold, Live, exact)'
<1> DEFINE L == Live
           M == Live'
           sold == quantity_sold
           after == quantity_sold'
           e == exact
           f == exact'
<1> SUFFICES Account(after, M, f)
  BY DEF Account, WithinStock, NoLeakedPlace, CounterExact
<1>1. /\ sold \in [Tier -> Nat] /\ L \in SUBSET Ticket /\ M \in SUBSET Ticket
      /\ e \in BOOLEAN /\ f \in BOOLEAN /\ Account(sold, L, e)
  BY TypeStep DEF IInv, TypeOK, Live, Written
<1>2. CASE NothingMoves
  BY <1>1, <1>2 DEF NothingMoves
<1>3. ASSUME NEW S \in SUBSET Ticket, Sale(S) PROVE Account(after, M, f)
  <2>1. Account(Bumped(sold, S), L \cup S, e)
    BY <1>1, <1>3, SaleKeepsAccount DEF Sale
  <2> QED
    BY <2>1, <1>3 DEF Sale
<1>4. ASSUME NEW t \in Ticket, GiveBack(t) PROVE Account(after, M, f)
  <2>1. {t} \in SUBSET Ticket /\ {t} \subseteq L
    BY <1>4 DEF GiveBack
  <2>2. M = L \ {t} /\ after = Released(sold, {t}) /\ f = e
    BY <1>4 DEF GiveBack
  <2> HIDE DEF L, M, sold, after, e, f
  <2>3. Account(Released(sold, {t}), L \ {t}, e)
    BY <1>1, <2>1, ReleaseKeepsAccount
  <2> QED
    BY <2>2, <2>3
<1>5. ASSUME NEW t \in Ticket, Reappears(t) PROVE Account(after, M, f)
  <2>1. L \subseteq M /\ after = sold /\ f = FALSE
    BY <1>5 DEF Reappears
  <2> HIDE DEF L, M, sold, after, e, f
  <2>2. Account(sold, M, FALSE)
    BY <1>1, <2>1, ReappearingKeepsAccount
  <2> QED
    BY <2>1, <2>2
<1> QED
  BY <1>2, <1>3, <1>4, <1>5, StockStep

-----------------------------------------------------------------------------
(* The inductive invariant is one. *)

LEMMA InvInit == Init => IInv
<1> SUFFICES ASSUME Init PROVE IInv
  OBVIOUS
<1>1. Written = {} /\ Live = {} /\ \A u \in User : Held(u) = {}
  BY DEF Init, Written, Live, Held
<1>2. TypeOK
  BY LimitsAreNumbers DEF Init, TypeOK, Limits
<1>3. CartsOK /\ DeskOK /\ MoneyOK
  BY <1>1 DEF Init, CartsOK, DeskOK, MoneyOK
<1>4. UsesOK
  <2>1. Written \cap Coded = {}
    BY <1>1
  <2> QED
    BY <2>1, FS_EmptySet DEF Init, UsesOK
<1>5. ASSUME NEW u \in User PROVE KeptTo(u)
  <2>1. (Held(u) \cap Coded) \ stale = {}
    BY <1>1
  <2> QED
    BY <2>1, FS_EmptySet, LimitsAreNumbers DEF KeptTo, Limits
<1>6. Account(quantity_sold, Live, exact)
  <2>1. quantity_sold = [k \in Tier |-> 0] /\ exact = TRUE
    BY DEF Init
  <2> QED
    BY <1>1, <2>1, AccountOpens, Zenon
<1> QED
  BY <1>2, <1>3, <1>4, <1>5, <1>6 DEF IInv

LEMMA InvStep == IInv /\ [Next]_vars => IInv'
<1> SUFFICES ASSUME IInv, [Next]_vars PROVE IInv'
  OBVIOUS
<1>1. TypeOK' /\ CartsOK' /\ DeskOK' /\ MoneyOK' /\ UsesOK'
  BY TypeStep, CartsStep, DeskStep, MoneyStep, UsesStep
<1>2. \A u \in User : KeptTo(u)'
  BY KeptStep
<1>3. Account(quantity_sold, Live, exact)'
  BY AccountStep
<1> QED
  BY <1>1, <1>2, <1>3 DEF IInv

LEMMA Always == Spec => []IInv
BY InvInit, InvStep, PTL DEF Spec

(* Whatever the requests in flight, the rows and the counters keep their   *)
(* types: no price is recorded on a tier that sets its own, and the code's *)
(* counter stays between zero and max_uses.                                *)
THEOREM DeskTypes == Spec => []TypeOK
<1>1. IInv => TypeOK
  BY DEF IInv
<1> QED
  BY <1>1, Always, PTL

(* times_used is the number of rows ever written with the code, and at     *)
(* most max_uses: the unlocked look decides nothing, the row lock does.    *)
THEOREM CodeUsesAreCounted == Spec => []CodeUsesCounted
<1>1. IInv => CodeUsesCounted
  <2> SUFFICES ASSUME IInv PROVE CodeUsesCounted
    OBVIOUS
  <2>1. times_used \in 0 .. MaxUses /\ times_used = Cardinality(Written \cap Coded)
    BY DEF IInv, TypeOK, UsesOK
  <2> QED
    BY <2>1, LimitsAreNumbers DEF CodeUsesCounted, Limits
<1> QED
  BY <1>1, Always, PTL

(* However many carts of one buyer race, the tickets they hold under the   *)
(* code stay within max_uses_per_user.                                     *)
THEOREM CodeIsKeptPerUser == Spec => []CodeKeptPerUser
<1>1. IInv => CodeKeptPerUser
  BY DEF IInv, CodeKeptPerUser, KeptTo
<1> QED
  BY <1>1, Always, PTL

(* While the desk's reads hold, the money recorded on a row matches its    *)
(* status.                                                                 *)
THEOREM MoneyFollowsStatus == Spec => []MoneyMatchesStatus
<1>1. IInv => MoneyMatchesStatus
  BY DEF IInv, MoneyOK, MoneyMatchesStatus
<1> QED
  BY <1>1, Always, PTL

-----------------------------------------------------------------------------
(* The desk and the abstract inventory. *)

(* The abstract inventory counts as the desk does. *)
LEMMA SameStockCount ==
  /\ \A k, S : Inventory!CountOf(k, S) = CountOf(k, S)
  /\ \A sold, S : Inventory!Bumped(sold, S) = Bumped(sold, S)
  /\ \A sold, S : Inventory!Released(sold, S) = Released(sold, S)
  /\ \A sold, S : Inventory!TierCapacityLeft(sold, S) <=> TierCapacityLeft(sold, S)
<1>1. \A k, S : Inventory!CountOf(k, S) = CountOf(k, S)
  BY Zenon DEF Inventory!CountOf, CountOf, Inventory!OfTier, OfTier, Inventory!Cardinality, Cardinality
<1>2. \A sold, S : Inventory!Bumped(sold, S) = Bumped(sold, S)
  BY <1>1, Zenon DEF Inventory!Bumped, Bumped
<1>3. \A sold, S : Inventory!Released(sold, S) = Released(sold, S)
  BY <1>1, Zenon DEF Inventory!Released, Released, Inventory!FlooredAtZero, FlooredAtZero
<1>4. \A sold, S : Inventory!TierCapacityLeft(sold, S) <=> TierCapacityLeft(sold, S)
  BY <1>1, Zenon DEF Inventory!TierCapacityLeft, TierCapacityLeft
<1> QED
  BY <1>1, <1>2, <1>3, <1>4

(* What the abstract inventory says of the stock is what Account says.     *)
LEMMA SameStockAccount ==
  /\ Inventory!TypeOK <=> Live \in SUBSET Ticket /\ quantity_sold \in [Tier -> Nat] /\ exact \in BOOLEAN
  /\ \A sold, L, e : Inventory!Account(sold, L, e) <=> Account(sold, L, e)
  /\ \A L : Inventory!NoOversell(L) <=> NoOversell(L)
<1>1. \A k, S : Inventory!CountOf(k, S) = CountOf(k, S)
  BY SameStockCount
<1>2. \A sold : Inventory!WithinStock(sold) <=> WithinStock(sold)
  BY Zenon DEF Inventory!WithinStock, WithinStock
<1>3. \A sold, L : /\ Inventory!NoLeakedPlace(sold, L) <=> NoLeakedPlace(sold, L)
                   /\ Inventory!CounterExact(sold, L) <=> CounterExact(sold, L)
  BY <1>1, Zenon DEF Inventory!NoLeakedPlace, NoLeakedPlace, Inventory!CounterExact, CounterExact
<1>4. \A sold, L, e : Inventory!Account(sold, L, e) <=> Account(sold, L, e)
  BY <1>2, <1>3, Zenon DEF Inventory!Account, Account
<1>5. \A L : Inventory!NoOversell(L) <=> NoOversell(L)
  BY <1>1, Zenon DEF Inventory!NoOversell, NoOversell
<1> QED
  BY <1>4, <1>5 DEF Inventory!TypeOK

LEMMA StepImplements ==
  ASSUME IInv, [Next]_vars
  PROVE  [Inventory!Next]_Inventory!vars
<1>1. /\ quantity_sold \in [Tier -> Nat] /\ quantity_sold' \in [Tier -> Nat]
      /\ Live' \in SUBSET Ticket
  BY TypeStep DEF IInv, TypeOK, Live, Written
<1>2. \A k \in Tier : quantity_sold'[k] <= CountOf(k, Live')
  BY AccountStep DEF Account, NoLeakedPlace
<1>3. CASE NothingMoves
  BY <1>3 DEF NothingMoves, Inventory!vars
<1>4. ASSUME NEW S \in SUBSET Ticket, Sale(S) PROVE Inventory!Next
  BY <1>4, SameStockCount DEF Sale, Inventory!Next, Inventory!Take
<1>5. ASSUME NEW t \in Ticket, GiveBack(t) PROVE Inventory!Next
  <2>1. Inventory!Give({t}) /\ {t} \in SUBSET Ticket
    BY <1>5, SameStockCount DEF GiveBack, Inventory!Give
  <2> QED
    BY <2>1 DEF Inventory!Next
<1>6. ASSUME NEW t \in Ticket, Reappears(t) PROVE Inventory!Next
  <2>1. \A k \in Tier : quantity_sold'[k] <= quantity_sold[k]
    BY <1>1, <1>6 DEF Reappears
  <2>2. Inventory!Slip
    BY <1>1, <1>2, <1>6, <2>1, SameStockCount DEF Inventory!Slip, Reappears
  <2> QED
    BY <2>2 DEF Inventory!Next
<1> QED
  BY <1>3, <1>4, <1>5, <1>6, StockStep

(* Every step of the desk is one of the abstract inventory, or none: the   *)
(* counter and the live tickets part only when a stale save brings back a  *)
(* ticket whose place was given up, and then the counter is too low.       *)
THEOREM DeskImplementsInventory == Spec => ImplementsInventory
<1>1. Init => Inventory!Init
  BY DEF Init, Inventory!Init, Live, Written
<1>2. IInv /\ [Next]_vars => [Inventory!Next]_Inventory!vars
  BY StepImplements
<1> QED
  BY <1>1, <1>2, Always, PTL DEF Spec, ImplementsInventory, Inventory!Spec

-----------------------------------------------------------------------------
(* The stock accounting of the abstract inventory, whose live tickets and  *)
(* counter are here the desk's.                                            *)

Accounted == Inventory!TypeOK /\ Account(quantity_sold, Live, exact)

LEMMA InventoryStep ==
  ASSUME Accounted, [Inventory!Next]_Inventory!vars
  PROVE  Accounted'
<1>0. Live \in SUBSET Ticket /\ quantity_sold \in [Tier -> Nat] /\ exact \in BOOLEAN
  BY SameStockAccount DEF Accounted
<1>1. ASSUME NEW S \in SUBSET Ticket, Inventory!Take(S) PROVE Accounted'
  <2>1. Account(Bumped(quantity_sold, S), Live \cup S, exact)
    BY <1>0, <1>1, SaleKeepsAccount, SameStockCount DEF Inventory!Take, Accounted
  <2>2. quantity_sold' = Bumped(quantity_sold, S) /\ Live' = Live \cup S /\ exact' = exact
    BY <1>1, SameStockCount DEF Inventory!Take
  <2> QED
    BY <1>0, <2>1, <2>2, ReleaseType DEF Accounted, Inventory!TypeOK, Account, WithinStock, NoLeakedPlace, CounterExact
<1>2. ASSUME NEW S \in SUBSET Ticket, Inventory!Give(S) PROVE Accounted'
  <2>1. Account(Released(quantity_sold, S), Live \ S, exact)
    BY <1>0, <1>2, ReleaseKeepsAccount DEF Inventory!Give, Accounted
  <2>2. quantity_sold' = Released(quantity_sold, S) /\ Live' = Live \ S /\ exact' = exact
    BY <1>2, SameStockCount DEF Inventory!Give
  <2> QED
    BY <1>0, <2>1, <2>2, ReleaseType DEF Accounted, Inventory!TypeOK, Account, WithinStock, NoLeakedPlace, CounterExact
<1>3. ASSUME Inventory!Slip PROVE Accounted'
  <2>1. \A k \in Tier : /\ quantity_sold[k] \in Nat /\ quantity_sold'[k] \in Nat
                        /\ quantity_sold'[k] <= quantity_sold[k]
                        /\ quantity_sold'[k] <= CountOf(k, Live')
    BY <1>0, <1>3, SameStockCount DEF Inventory!Slip
  <2>2. WithinStock(quantity_sold)'
    <3> SUFFICES ASSUME NEW k \in Tier, TotalQuantity[k] # Unlimited
                 PROVE  quantity_sold'[k] <= TotalQuantity[k]
      BY DEF WithinStock
    <3>1. TotalQuantity[k] \in Nat /\ quantity_sold[k] <= TotalQuantity[k]
      BY QuantityAssumption DEF Accounted, Account, WithinStock
    <3> QED
      BY <2>1, <3>1
  <2> QED
    BY <1>3, <2>1, <2>2 DEF Inventory!Slip, Accounted, Inventory!TypeOK, Account, NoLeakedPlace
<1>4. CASE UNCHANGED Inventory!vars
  BY <1>0, <1>4 DEF Inventory!vars, Accounted, Inventory!TypeOK, Account, WithinStock, NoLeakedPlace, CounterExact
<1> QED
  BY <1>1, <1>2, <1>3, <1>4 DEF Inventory!Next

(* Whatever takes, gives back and slips, in any order: the counter stays   *)
(* within the stock of each tier and never counts a ticket that is gone,   *)
(* and until a slip it is exact, so that no tier is oversold.              *)
THEOREM StockAccounting == Inventory!Spec => []Inventory!StockKept
<1>1. ASSUME Inventory!Init PROVE Accounted
  <2>1. quantity_sold = [k \in Tier |-> 0] /\ Live = {} /\ exact = TRUE
    BY <1>1 DEF Inventory!Init
  <2>2. Account(quantity_sold, Live, exact)
    BY <2>1, AccountOpens, Zenon
  <2> QED
    BY <2>1, <2>2 DEF Accounted, Inventory!TypeOK
<1>2. Accounted /\ [Inventory!Next]_Inventory!vars => Accounted'
  BY InventoryStep
<1>3. Accounted => Inventory!StockKept
  <2> SUFFICES ASSUME Accounted PROVE Inventory!StockKept
    OBVIOUS
  <2>1. exact => NoOversell(Live)
    BY ExactIsNotOversold, SameStockAccount DEF Accounted
  <2> QED
    BY <2>1, SameStockAccount DEF Accounted, Inventory!StockKept
<1> QED
  BY <1>1, <1>2, <1>3, PTL DEF Inventory!Spec

(* So the desk, which implements the inventory, keeps the stock whatever   *)
(* its unlocked reads do: at worst the counter is too low.                 *)
THEOREM DeskKeepsStock == Spec => []Inventory!StockKept
BY DeskImplementsInventory, StockAccounting, PTL DEF ImplementsInventory
=============================================================================
