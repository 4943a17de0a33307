---------------------------- MODULE TiersProofs ----------------------------
(***************************************************************************)
(* Lemmas about counting tickets per tier, shared by the proofs of every   *)
(* module that moves quantity_sold.                                        *)
(***************************************************************************)
EXTENDS Tiers, FiniteSetTheorems, TLAPS

(* Counting tickets of a tier: a natural number, additive on disjoint      *)
(* sets, subtractive on subsets, and zero for a tier the set does not name.*)
LEMMA CountType ==
  ASSUME NEW k \in Tier, NEW S \in SUBSET Ticket
  PROVE  IsFiniteSet(OfTier(k, S)) /\ CountOf(k, S) \in Nat
<1>1. OfTier(k, S) \in SUBSET Ticket
  BY DEF OfTier
<1> QED
  BY <1>1, TicketAssumption, FS_Subset, FS_CardinalityType DEF CountOf

LEMMA CountAdds ==
  ASSUME NEW k \in Tier, NEW L \in SUBSET Ticket, NEW S \in SUBSET Ticket,
         S \cap L = {}
  PROVE  CountOf(k, L \cup S) = CountOf(k, L) + CountOf(k, S)
<1>1. OfTier(k, L \cup S) = OfTier(k, L) \cup OfTier(k, S)
  BY DEF OfTier
<1>2. OfTier(k, L) \cap OfTier(k, S) = {}
  BY DEF OfTier
<1>3. /\ IsFiniteSet(OfTier(k, L)) /\ IsFiniteSet(OfTier(k, S))
      /\ Cardinality(OfTier(k, L)) \in Nat /\ Cardinality(OfTier(k, S)) \in Nat
  BY CountType DEF CountOf
<1>4. Cardinality(OfTier(k, L) \cup OfTier(k, S))
        = Cardinality(OfTier(k, L)) + Cardinality(OfTier(k, S))
            - Cardinality(OfTier(k, L) \cap OfTier(k, S))
  BY <1>3, FS_Union
<1>5. Cardinality(OfTier(k, L) \cap OfTier(k, S)) = 0
  BY <1>2, FS_EmptySet
<1>6. Cardinality(OfTier(k, L) \cup OfTier(k, S))
        = Cardinality(OfTier(k, L)) + Cardinality(OfTier(k, S))
  BY <1>3, <1>4, <1>5
<1> QED
  BY <1>1, <1>6, Zenon DEF CountOf

LEMMA CountSubtracts ==
  ASSUME NEW k \in Tier, NEW L \in SUBSET Ticket, NEW S \in SUBSET L
  PROVE  CountOf(k, L \ S) = CountOf(k, L) - CountOf(k, S)
<1>1. (L \ S) \cup S = L /\ S \cap (L \ S) = {}
  OBVIOUS
<1>2. CountOf(k, L) = CountOf(k, L \ S) + CountOf(k, S)
  BY CountAdds
<1> QED
  BY <1>2, CountType

LEMMA CountOfAbsentTier ==
  ASSUME NEW k \in Tier, NEW S \in SUBSET Ticket, k \notin {TierOf[t] : t \in S}
  PROVE  CountOf(k, S) = 0
<1>1. OfTier(k, S) = {}
  BY DEF OfTier
<1> QED
  BY <1>1, FS_EmptySet DEF CountOf

(* The counter operators keep the counters natural numbers. *)
LEMMA ReleaseType ==
  ASSUME NEW sold \in [Tier -> Nat], NEW S \in SUBSET Ticket
  PROVE  Released(sold, S) \in [Tier -> Nat] /\ Bumped(sold, S) \in [Tier -> Nat]
BY CountType DEF Released, Bumped, FlooredAtZero

(* Nothing sold, nothing live: the account every specification starts from.*)
LEMMA AccountOpens == Account([k \in Tier |-> 0], {}, TRUE)
<1>1. \A k \in Tier : CountOf(k, {}) = 0
  BY CountOfAbsentTier
<1> QED
  BY <1>1, QuantityAssumption
     DEF Account, WithinStock, NoLeakedPlace, CounterExact

(* A sale keeps the account: all tiers of the cart at once. *)
LEMMA SaleKeepsAccount ==
  ASSUME NEW sold \in [Tier -> Nat], NEW L \in SUBSET Ticket, NEW e \in BOOLEAN, NEW S \in SUBSET Ticket,
         Account(sold, L, e), S \cap L = {}, TierCapacityLeft(sold, S)
  PROVE  Account(Bumped(sold, S), L \cup S, e)
<1> SUFFICES ASSUME NEW after \in [Tier -> Nat], after = Bumped(sold, S)
             PROVE  Account(after, L \cup S, e)
  BY ReleaseType
<1>2. ASSUME NEW k \in Tier
      PROVE  /\ after[k] = sold[k] + CountOf(k, S)
             /\ CountOf(k, L \cup S) = CountOf(k, L) + CountOf(k, S)
             /\ CountOf(k, S) \in Nat /\ CountOf(k, L) \in Nat /\ sold[k] \in Nat
             /\ sold[k] <= CountOf(k, L)
  BY CountAdds, CountType DEF Bumped, Account, NoLeakedPlace
<1>4. WithinStock(after)
  <2> SUFFICES ASSUME NEW k \in Tier, TotalQuantity[k] # Unlimited
               PROVE  after[k] <= TotalQuantity[k]
    BY DEF WithinStock
  <2>1. CASE k \in {TierOf[t] : t \in S}
    BY <2>1, <1>2 DEF TierCapacityLeft
  <2>2. CASE k \notin {TierOf[t] : t \in S}
    BY <2>2, <1>2, CountOfAbsentTier DEF Account, WithinStock
  <2> QED
    BY <2>1, <2>2
<1>5. NoLeakedPlace(after, L \cup S)
  <2> SUFFICES ASSUME NEW k \in Tier PROVE after[k] <= CountOf(k, L \cup S)
    BY DEF NoLeakedPlace
  <2>1. sold[k] <= CountOf(k, L)
    BY <1>2
  <2>2. after[k] = sold[k] + CountOf(k, S)
    BY <1>2
  <2>3. CountOf(k, L \cup S) = CountOf(k, L) + CountOf(k, S)
    BY <1>2
  <2>4. CountOf(k, S) \in Nat /\ CountOf(k, L) \in Nat /\ sold[k] \in Nat
    BY <1>2
  <2> QED
    BY <2>1, <2>2, <2>3, <2>4
<1>6. e => CounterExact(after, L \cup S)
  BY <1>2 DEF CounterExact, Account
<1> QED
  BY <1>4, <1>5, <1>6 DEF Account

(* A release keeps it, although it may count more tickets (T) than it      *)
(* takes away (S), as long as the two differ only after a slip: the floor  *)
(* at zero bites only then.                                                *)
LEMMA ReleaseKeepsAccount ==
  ASSUME NEW sold \in [Tier -> Nat], NEW L \in SUBSET Ticket, NEW e \in BOOLEAN, NEW e2 \in BOOLEAN,
         NEW T \in SUBSET Ticket, NEW S \in SUBSET T,
         Account(sold, L, e), S \subseteq L, e2 => e /\ S = T
  PROVE  Account(Released(sold, T), L \ S, e2)
<1> SUFFICES ASSUME NEW after \in [Tier -> Nat], after = Released(sold, T)
             PROVE  Account(after, L \ S, e2)
  BY ReleaseType
<1>2. ASSUME NEW k \in Tier
      PROVE  /\ after[k] = FlooredAtZero(sold[k] - CountOf(k, T))
             /\ CountOf(k, L \ S) = CountOf(k, L) - CountOf(k, S)
             /\ CountOf(k, T \ S) = CountOf(k, T) - CountOf(k, S)
             /\ CountOf(k, S) \in Nat /\ CountOf(k, L) \in Nat /\ sold[k] \in Nat
             /\ CountOf(k, T) \in Nat /\ CountOf(k, T \ S) \in Nat /\ CountOf(k, L \ S) \in Nat
             /\ sold[k] <= CountOf(k, L)
  <2>1. S \in SUBSET Ticket /\ T \ S \in SUBSET Ticket /\ L \ S \in SUBSET Ticket
    OBVIOUS
  <2> QED
    BY <2>1, CountSubtracts, CountType DEF Released, Account, NoLeakedPlace
<1>4. WithinStock(after)
  <2> SUFFICES ASSUME NEW k \in Tier, TotalQuantity[k] # Unlimited
               PROVE  after[k] <= TotalQuantity[k]
    BY DEF WithinStock
  <2>1. sold[k] <= TotalQuantity[k] /\ TotalQuantity[k] \in Nat
    BY QuantityAssumption DEF Account, WithinStock
  <2> QED
    BY <2>1, <1>2 DEF FlooredAtZero
<1>5. NoLeakedPlace(after, L \ S)
  <2> SUFFICES ASSUME NEW k \in Tier PROVE after[k] <= CountOf(k, L \ S)
    BY DEF NoLeakedPlace
  <2>1. after[k] = FlooredAtZero(sold[k] - CountOf(k, T))
    BY <1>2
  <2>2. CountOf(k, L \ S) = CountOf(k, L) - CountOf(k, S)
    BY <1>2
  <2>3. CountOf(k, S) <= CountOf(k, T)
    BY <1>2
  <2>4. sold[k] <= CountOf(k, L)
    BY <1>2
  <2>5. CountOf(k, L \ S) \in Nat /\ CountOf(k, L) \in Nat /\ sold[k] \in Nat
        /\ CountOf(k, S) \in Nat /\ CountOf(k, T) \in Nat
    BY <1>2
  <2> QED
    BY <2>1, <2>2, <2>3, <2>4, <2>5 DEF FlooredAtZero
<1>6. ASSUME e2 PROVE CounterExact(after, L \ S)
  <2> SUFFICES ASSUME NEW k \in Tier PROVE after[k] = CountOf(k, L \ S)
    BY DEF CounterExact
  <2>1. sold[k] = CountOf(k, L) /\ S = T
    BY <1>6 DEF Account, CounterExact
  <2>2. after[k] = FlooredAtZero(sold[k] - CountOf(k, T))
    BY <1>2
  <2>3. CountOf(k, L \ S) = CountOf(k, L) - CountOf(k, S) /\ CountOf(k, L \ S) \in Nat
    BY <1>2
  <2> QED
    BY <2>1, <2>2, <2>3 DEF FlooredAtZero
<1> QED
  BY <1>4, <1>5, <1>6 DEF Account

(* Once the account is no longer exact, rows may reappear unpaid for.      *)
LEMMA ReappearingKeepsAccount ==
  ASSUME NEW sold, NEW L, NEW M \in SUBSET Ticket, NEW e, Account(sold, L, e), L \subseteq M
  PROVE  Account(sold, M, FALSE)
<1>1. ASSUME NEW k \in Tier PROVE CountOf(k, L) <= CountOf(k, M)
  <2>1. L \in SUBSET M /\ M \ L \in SUBSET Ticket
    OBVIOUS
  <2>2. CountOf(k, M \ L) = CountOf(k, M) - CountOf(k, L)
    BY <2>1, CountSubtracts
  <2> QED
    BY <2>1, <2>2, CountType
<1>2. L \in SUBSET Ticket /\ sold \in [Tier -> Nat]
  BY DEF Account
<1>3. NoLeakedPlace(sold, M)
  BY <1>1, <1>2, CountType DEF Account, NoLeakedPlace
<1> QED
  BY <1>2, <1>3 DEF Account

(* An exact counter within its stock leaves no tier oversold. *)
LEMMA ExactIsNotOversold ==
  ASSUME NEW sold \in [Tier -> Nat], NEW L \in SUBSET Ticket, Account(sold, L, TRUE)
  PROVE  NoOversell(L)
BY DEF Account, WithinStock, CounterExact, NoOversell
=============================================================================
