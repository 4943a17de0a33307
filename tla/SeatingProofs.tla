--------------------------- MODULE SeatingProofs ---------------------------
(***************************************************************************)
(* Theorems about Seating for every finite set of seats, every set of      *)
(* tickets, identities and concurrent transactions, and every lifetime.    *)
(***************************************************************************)
EXTENDS Seating, FiniteSetTheorems, WellFoundedInduction, TLAPS

-----------------------------------------------------------------------------
(* Least elements: LeastOf is defined on every non-empty set of seats. *)

LEMMA SmallestExists ==
  ASSUME NEW S \in SUBSET Nat, S # {}
  PROVE  \E s \in S : \A r \in S : s <= r
<1>1. \E s \in S : \A r \in S : ~(<<r, s>> \in OpToRel(<, Nat))
  BY NatLessThanWellFounded, WFMin
<1>2. PICK s \in S : \A r \in S : ~(<<r, s>> \in OpToRel(<, Nat))
  BY <1>1
<1>3. \A r \in S : ~(r < s)
  BY <1>2 DEF OpToRel
<1> QED
  BY <1>3

LEMMA LeastOfIsLeast ==
  ASSUME NEW S \in SUBSET Nat, S # {}
  PROVE  LeastOf(S) \in S /\ \A r \in S : LeastOf(S) <= r
BY SmallestExists DEF LeastOf

(* There is no endless climb through the seats: a set of transactions that *)
(* each wait for a seat held by another one of the set, who itself waits   *)
(* for a larger seat, is empty.  next[x] is the seat x waits for.          *)
LEMMA NoEndlessClimb ==
  ASSUME NEW W, W # {}, NEW next \in [W -> Seat]
  PROVE  \E x \in W : \A y \in W : ~(next[x] < next[y])
<1> DEFINE Above(s) == {r \in Seat : s < r}
           rank == [x \in W |-> Cardinality(Above(next[x]))]
           Ranks == {rank[x] : x \in W}
<1>1. \A x \in W : next[x] \in Seat /\ next[x] \in Nat
  BY SeatAssumption
<1>2. \A s \in Seat : IsFiniteSet(Above(s)) /\ Cardinality(Above(s)) \in Nat
  BY SeatAssumption, FS_Subset, FS_CardinalityType
<1>3. Ranks \in SUBSET Nat /\ Ranks # {}
  BY <1>1, <1>2
<1>4. PICK n \in Ranks : \A m \in Ranks : n <= m
  BY <1>3, SmallestExists
<1>5. PICK x \in W : n = rank[x]
  BY <1>4
<1>6. ASSUME NEW y \in W, next[x] < next[y] PROVE FALSE
  <2>1. Above(next[y]) \subseteq Above(next[x])
    <3>1. ASSUME NEW r \in Seat, next[y] < r PROVE next[x] < r
      <4>1. r \in Nat
        BY SeatAssumption
      <4>2. next[x] \in Nat /\ next[y] \in Nat /\ next[x] < next[y]
        BY <1>1, <1>6
      <4> QED
        BY <3>1, <4>1, <4>2
    <3> QED
      BY <3>1
  <2>2. next[y] \in Above(next[x]) /\ next[y] \notin Above(next[y])
    BY <1>1, <1>6
  <2>3. Cardinality(Above(next[y])) < Cardinality(Above(next[x]))
    <3>1. /\ IsFiniteSet(Above(next[x])) /\ Above(next[y]) \in SUBSET Above(next[x])
          /\ Above(next[y]) # Above(next[x])
      BY <1>1, <1>2, <2>1, <2>2
    <3>2. /\ Cardinality(Above(next[y])) <= Cardinality(Above(next[x]))
          /\ Cardinality(Above(next[x])) = Cardinality(Above(next[y]))
               => Above(next[x]) = Above(next[y])
      BY <3>1, FS_Subset
    <3>3. Cardinality(Above(next[y])) \in Nat /\ Cardinality(Above(next[x])) \in Nat
      BY <1>1, <1>2
    <3> HIDE DEF Above
    <3> QED
      BY <3>1, <3>2, <3>3
  <2>4. rank[x] <= rank[y]
    BY <1>4, <1>5
  <2>5. rank[x] = Cardinality(Above(next[x])) /\ rank[y] = Cardinality(Above(next[y]))
    OBVIOUS
  <2>6. Cardinality(Above(next[x])) \in Nat /\ Cardinality(Above(next[y])) \in Nat
    BY <1>1, <1>2
  <2> HIDE DEF Above, rank
  <2> QED
    BY <2>3, <2>4, <2>5, <2>6
<1> QED
  BY <1>6

-----------------------------------------------------------------------------
(* The invariant.  A seat stays claimed once because a transaction that    *)
(* decides has locked every seat it writes (PlanOK, DecidedOK), and what   *)
(* it has locked nobody else has (Exclusive): so no other decision about   *)
(* that seat is pending, and the rows it reads are all there is.  A sale   *)
(* that is refused late leaves nothing because its rows were never         *)
(* written (FreshOK).  The locks are acyclic because each transaction      *)
(* locks upwards (LocksOK); a hold is bounded because what it has used and *)
(* what is left of its lifetime never add up to more than the maximum.     *)

Work == Claim \cup Overrides

NamedBy(w) == UNION {w.groups[i] : i \in DOMAIN w.groups}

Sound(w) ==
  /\ NamedBy(w) \subseteq Seat
  /\ w.do # "override" => /\ \A t \in DOMAIN w.places : w.places[t] \in NamedBy(w)
                          /\ \A t, r \in DOMAIN w.places : w.places[t] = w.places[r] => t = r
  /\ w.do = "override" => DOMAIN w.marks \subseteq NamedBy(w)

PlanOK == \A x \in Tx : Running(x) => Sound(tx[x])

LocksOK ==
  \A x \in Tx : /\ ~Running(x) => locked[x] = {}
                /\ Running(x) => \A s \in locked[x], r \in Missing(x) : s < r

Exclusive == \A x, y \in Tx : x # y => locked[x] \cap locked[y] = {}

DecidedOK == \A x \in decided : AllLocked(x)

Sells(x) == tx[x].do \in {"buy", "sell"}

FreshOK ==
  \A x \in Tx : Sells(x) => \A t \in DOMAIN tx[x].places :
    ticket[t] = "unwritten" /\ \A y \in Tx \ {x} : Sells(y) => t \notin DOMAIN tx[y].places

LiveSeated == \A t \in Ticket : ticket[t] \in {"live", "CANCELLED"} => seat[t] \in Seat

HoldsOK ==
  \A s \in Seat :
    /\ left[s] > 0 => left[s] <= life[s] /\ kept[s] + life[s] <= HoldMaxLifetime
    /\ left[s] = 0 => kept[s] = 0

Order == PlanOK /\ LocksOK /\ Exclusive /\ DecidedOK

IInv == TypeOK /\ Order /\ FreshOK /\ LiveSeated /\ HoldsOK /\ SeatClaimedOnce

-----------------------------------------------------------------------------
(* How a transaction begins, decides and ends. *)

LEMMA NamedByIsNamed ==
  ASSUME NEW x \in Tx
  PROVE  Named(x) = NamedBy(tx[x])
BY DEF Named, NamedBy

(* Each start registers work that is sound, and sells fresh rows only. *)
LEMMA StartsSound ==
  ASSUME LiveSeated, NEW x \in Tx, StartBuy(x) \/ StartSell(x) \/ StartReseat(x) \/ StartOverride(x)
  PROVE  \E w \in Work : /\ w.do # "idle" /\ Sound(w) /\ Begin(x, w)
                         /\ w.do \in {"buy", "sell"} => DOMAIN w.places \subseteq Unwritten
<1>u. Unwritten \subseteq Ticket /\ \A t \in Ticket : UserOf[t] \in Owner
  BY OwnerAssumption DEF Unwritten
<1>1. CASE StartBuy(x)
  <2>a. PICK T \in (SUBSET Unwritten) \ {{}}, o \in Owner :
          \E places \in [T -> Seat], S \in SUBSET Seat :
            /\ \A t, r \in T : UserOf[t] = UserOf[r] /\ (places[t] = places[r] => t = r)
            /\ o \in GuestSession \/ \A t \in T : o = UserOf[t]
            /\ S \subseteq {places[t] : t \in T} /\ S # {}
            /\ Begin(x, [do |-> "buy", groups |-> <<S, {places[t] : t \in T} \ S>>, owner |-> o,
                         places |-> places])
    BY <1>1, Zenon DEF StartBuy
  <2>1. PICK places \in [T -> Seat], S \in SUBSET Seat :
          /\ \A t, r \in T : UserOf[t] = UserOf[r] /\ (places[t] = places[r] => t = r)
          /\ S \subseteq {places[t] : t \in T}
          /\ Begin(x, [do |-> "buy", groups |-> <<S, {places[t] : t \in T} \ S>>, owner |-> o,
                       places |-> places])
    BY <2>a
  <2> DEFINE named == {places[t] : t \in T}
             w == [do |-> "buy", groups |-> <<S, named \ S>>, owner |-> o, places |-> places]
  <2>2. T \in SUBSET Ticket /\ named \in SUBSET Seat /\ named \ S \in SUBSET Seat
    BY <1>u
  <2>3. w \in Claim
    <3>1. <<S, named \ S>> \in Seq(SUBSET Seat)
      BY <2>2
    <3>2. places \in UNION {[R -> Seat] : R \in SUBSET Ticket}
      BY <2>2
    <3> QED
      BY <3>1, <3>2 DEF Claim
  <2>4. NamedBy(w) = named
    <3>1. DOMAIN <<S, named \ S>> = {1, 2}
      OBVIOUS
    <3>2. NamedBy(w) = S \cup (named \ S)
      BY <3>1 DEF NamedBy
    <3> QED
      BY <2>1, <3>2
  <2>5. Sound(w)
    BY <2>1, <2>2, <2>4 DEF Sound
  <2> QED
    BY <2>1, <2>3, <2>5 DEF Work
<1>2. CASE StartSell(x)
  <2>1. PICK t \in Unwritten, s \in Seat :
          Begin(x, [do |-> "sell", groups |-> <<{s}>>, owner |-> UserOf[t], places |-> [r \in {t} |-> s]])
    BY <1>2 DEF StartSell
  <2> DEFINE w == [do |-> "sell", groups |-> <<{s}>>, owner |-> UserOf[t], places |-> [r \in {t} |-> s]]
  <2>2. w \in Claim
    <3>1. {t} \in SUBSET Ticket /\ [r \in {t} |-> s] \in [{t} -> Seat]
      BY <1>u
    <3>2. [r \in {t} |-> s] \in UNION {[R -> Seat] : R \in SUBSET Ticket}
      BY <3>1, Zenon
    <3> QED
      BY <1>u, <3>2 DEF Claim
  <2>3. NamedBy(w) = {s}
    BY DEF NamedBy
  <2>4. Sound(w) /\ DOMAIN w.places = {t}
    BY <2>3 DEF Sound
  <2> QED
    BY <2>1, <2>2, <2>4 DEF Work
<1>3. CASE StartReseat(x)
  <2>1. PICK t \in Ticket, target \in Seat :
          /\ ticket[t] = "live" /\ seat[t] # target
          /\ Begin(x, [do |-> "reseat", groups |-> <<{seat[t], target}>>, owner |-> UserOf[t],
                       places |-> [r \in {t} |-> target]])
    BY <1>3 DEF StartReseat
  <2> DEFINE w == [do |-> "reseat", groups |-> <<{seat[t], target}>>, owner |-> UserOf[t],
                   places |-> [r \in {t} |-> target]]
  <2>2. seat[t] \in Seat
    BY <2>1 DEF LiveSeated
  <2>3. w \in Claim
    <3>1. {t} \in SUBSET Ticket /\ [r \in {t} |-> target] \in [{t} -> Seat]
      OBVIOUS
    <3>2. [r \in {t} |-> target] \in UNION {[R -> Seat] : R \in SUBSET Ticket}
      BY <3>1, Zenon
    <3> QED
      BY <1>u, <2>2, <3>2 DEF Claim
  <2>4. NamedBy(w) = {seat[t], target}
    BY DEF NamedBy
  <2>5. Sound(w)
    BY <2>2, <2>4 DEF Sound
  <2> QED
    BY <2>1, <2>3, <2>5 DEF Work
<1>4. CASE StartOverride(x)
  <2>1. PICK b \in Batches :
          Begin(x, [do |-> "override", groups |-> <<DOMAIN b.marks \cup b.frees>>,
                    frees |-> b.frees, marks |-> b.marks])
    BY <1>4 DEF StartOverride
  <2> DEFINE w == [do |-> "override", groups |-> <<DOMAIN b.marks \cup b.frees>>,
                   frees |-> b.frees, marks |-> b.marks]
  <2>2. /\ b.frees \in SUBSET Seat /\ DOMAIN b.marks \in SUBSET Seat
        /\ b.marks \in UNION {[M -> {"HELD", "KILLED"}] : M \in SUBSET Seat}
    BY BatchAssumption
  <2>3. w \in Overrides
    BY <2>2 DEF Overrides
  <2>4. NamedBy(w) = DOMAIN b.marks \cup b.frees
    BY DEF NamedBy
  <2>5. Sound(w)
    BY <2>2, <2>4 DEF Sound
  <2> QED
    BY <2>1, <2>3, <2>5 DEF Work
<1> QED
  BY <1>1, <1>2, <1>3, <1>4

(* A transaction is registered, and is gone again with its locks. *)
LEMMA BeginRegisters ==
  ASSUME TypeOK, DecidedOK, NEW x \in Tx, NEW w \in Work, w.do # "idle", Begin(x, w)
  PROVE  /\ tx' \in [Tx -> {Idle} \cup Work]
         /\ tx'[x] = w /\ \A y \in Tx \ {x} : tx'[y] = tx[y]
         /\ ~Running(x) /\ Running(x)' /\ x \notin decided
         /\ locked' = locked /\ decided' = decided /\ noted' = noted
BY DEF TypeOK, Begin, Running, AllLocked, DecidedOK, Idle, Work

LEMMA EndFrees ==
  ASSUME TypeOK, NEW x \in Tx, End(x)
  PROVE  /\ tx' \in [Tx -> {Idle} \cup Work] /\ locked' \in [Tx -> SUBSET Seat]
         /\ decided' = decided \ {x} /\ noted' \in [Tx -> SUBSET Seat]
         /\ ~Running(x)' /\ locked'[x] = {} /\ tx'[x].do = "idle"
         /\ \A y \in Tx \ {x} : tx'[y] = tx[y] /\ locked'[y] = locked[y] /\ noted'[y] = noted[y]
BY DEF TypeOK, End, Running, Idle, Work

(* A transaction decides once it has locked everything it names. *)
Decides(x) ==
  /\ AllLocked(x) /\ x \notin decided
  /\ decided' = decided \cup {x}
  /\ \E S \in SUBSET Seat : noted' = [noted EXCEPT ![x] = S]
  /\ UNCHANGED <<tx, locked, staff, wanting, plan, holds>>

Drops(x) == x \notin decided /\ End(x) /\ UNCHANGED <<plan, holds>>

LEMMA DecideSteps ==
  ASSUME NEW x \in Tx, DecideBuy(x) \/ DecideSell(x) \/ DecideReseat(x) \/ DecideOverride(x), TypeOK, PlanOK
  PROVE  Decides(x) \/ Drops(x)
<1>1. ASSUME NEW a \in BOOLEAN, NEW S \in SUBSET Seat, Decide(x, a, S)
      PROVE  Decides(x) \/ Drops(x)
  BY <1>1 DEF Decide, Decides, Drops
<1>2. ASSUME Running(x), tx[x].do # "override" PROVE Consumed(x) \in SUBSET Seat
  BY <1>2, NamedByIsNamed DEF PlanOK, Sound, Consumed, Places
<1>3. CASE DecideBuy(x)
  <2>1. Running(x)
    BY <1>3 DEF DecideBuy, Running
  <2> QED
    BY <1>1, <1>2, <1>3, <2>1 DEF DecideBuy
<1>4. CASE DecideSell(x)
  <2>1. Running(x)
    BY <1>4 DEF DecideSell, Running
  <2> QED
    BY <1>1, <1>2, <1>4, <2>1 DEF DecideSell
<1>5. CASE DecideReseat(x)
  <2>1. Running(x)
    BY <1>5 DEF DecideReseat, Running
  <2> QED
    BY <1>1, <1>2, <1>5, <2>1 DEF DecideReseat
<1>6. CASE DecideOverride(x)
  <2>1. Running(x)
    BY <1>6 DEF DecideOverride, Running
  <2>2. Ticketed(DOMAIN tx[x].marks) \in SUBSET Seat
    BY <1>6, <2>1 DEF DecideOverride, PlanOK, Sound, Ticketed
  <2> QED
    BY <1>1, <1>6, <2>2 DEF DecideOverride
<1> QED
  BY <1>3, <1>4, <1>5, <1>6

(* Every step either leaves the transactions alone, or is a lock, a begin, *)
(* a decision or an end of one of them.                                    *)
LEMMA StepsOfTransactions ==
  ASSUME IInv, [Next]_vars
  PROVE  \/ UNCHANGED locks
         \/ \E x \in Tx : LockSeat(x)
         \/ \E x \in Tx, w \in Work : w.do # "idle" /\ Sound(w) /\ Begin(x, w)
         \/ \E x \in Tx : Decides(x)
         \/ \E x \in Tx : End(x)
<1>1. ASSUME NEW o \in Owner, NEW S \in SUBSET Seat, AcquireChecks(o, S) \/ ReleaseSeats(o, S)
      PROVE  UNCHANGED locks
  BY <1>1 DEF AcquireChecks, ReleaseSeats, Deleted
<1>2. ASSUME NEW w \in wanting, AcquireUpserts(w) PROVE UNCHANGED locks
  BY <1>2 DEF AcquireUpserts
<1>3. CASE CleanupExpired \/ Tick
  BY <1>3 DEF CleanupExpired, Deleted, Tick
<1>4. ASSUME NEW x \in Tx, StartBuy(x) \/ StartSell(x) \/ StartReseat(x) \/ StartOverride(x)
      PROVE  \E w \in Work : w.do # "idle" /\ Sound(w) /\ Begin(x, w)
  BY <1>4, StartsSound DEF IInv
<1>5. ASSUME NEW x \in Tx, DecideBuy(x) \/ DecideSell(x) \/ DecideReseat(x) \/ DecideOverride(x)
      PROVE  Decides(x) \/ End(x)
  BY <1>5, DecideSteps DEF IInv, Order, Drops
<1>6. ASSUME NEW x \in Tx, Buy(x) \/ Sell(x) \/ Reseat(x) \/ Override(x) PROVE End(x)
  BY <1>6 DEF Buy, Sell, Reseat, Override
<1>7. ASSUME NEW t \in Ticket, CancelTicket(t) \/ DeleteTicket(t) \/ StaffReads(t) \/ StaffSaves(t)
      PROVE  UNCHANGED locks
  BY <1>7 DEF CancelTicket, DeleteTicket, Leave, StaffReads, StaffSaves
<1>8. CASE UNCHANGED vars
  BY <1>8 DEF vars
<1> QED
  BY <1>1, <1>2, <1>3, <1>4, <1>5, <1>6, <1>7, <1>8, Zenon DEF Next

LEMMA LockSeatTakesNext ==
  ASSUME TypeOK, PlanOK, NEW x \in Tx, LockSeat(x)
  PROVE  /\ NextSeat(x) \in Missing(x)
         /\ \A r \in Missing(x) : NextSeat(x) <= r
         /\ Missing(x) \subseteq Seat
         /\ locked' \in [Tx -> SUBSET Seat]
         /\ locked'[x] = locked[x] \cup {NextSeat(x)}
         /\ \A y \in Tx \ {x} : locked'[y] = locked[y]
<1>1. Missing(x) \subseteq Seat /\ Missing(x) # {} /\ Missing(x) \in SUBSET Nat
  BY NamedByIsNamed, SeatAssumption DEF LockSeat, PlanOK, Sound, Missing
<1>2. NextSeat(x) \in Missing(x) /\ \A r \in Missing(x) : NextSeat(x) <= r
  BY <1>1, LeastOfIsLeast DEF NextSeat
<1>3. locked' = [locked EXCEPT ![x] = locked[x] \cup {NextSeat(x)}]
  BY DEF LockSeat
<1> QED
  BY <1>1, <1>2, <1>3 DEF TypeOK

(* The locks stay upwards, exclusive and complete before a decision. *)
TxTypes ==
  /\ tx \in [Tx -> {Idle} \cup Work] /\ locked \in [Tx -> SUBSET Seat]
  /\ decided \in SUBSET Tx /\ noted \in [Tx -> SUBSET Seat]

LEMMA LockKeepsOrder ==
  ASSUME IInv, NEW x \in Tx, LockSeat(x)
  PROVE  TxTypes' /\ Order'
<1>0. /\ TypeOK /\ PlanOK /\ LocksOK /\ Exclusive /\ DecidedOK
      /\ tx' = tx /\ decided' = decided /\ noted' = noted
  BY DEF IInv, Order, LockSeat
<1>1. /\ NextSeat(x) \in Missing(x) /\ Missing(x) \subseteq Seat
      /\ \A r \in Missing(x) : NextSeat(x) <= r
      /\ locked' \in [Tx -> SUBSET Seat]
      /\ locked'[x] = locked[x] \cup {NextSeat(x)}
      /\ \A y \in Tx \ {x} : locked'[y] = locked[y]
  BY <1>0, LockSeatTakesNext
<1>2. /\ \A y \in Tx : Running(y)' = Running(y) /\ Named(y)' = Named(y)
      /\ Missing(x)' = Missing(x) \ {NextSeat(x)} /\ Running(x)
      /\ \A y \in Tx \ {x} : Missing(y)' = Missing(y)
  BY <1>0, <1>1 DEF Missing, Named, Running, LockSeat
<1>3. TxTypes'
  BY <1>0, <1>1 DEF TxTypes, TypeOK, Work
<1>4. PlanOK'
  BY <1>0, <1>2 DEF PlanOK
<1>5. LocksOK'
  <2> SUFFICES ASSUME NEW y \in Tx
               PROVE  /\ ~Running(y)' => locked'[y] = {}
                      /\ Running(y)' => \A s \in locked'[y], r \in Missing(y)' : s < r
    BY DEF LocksOK
  <2>1. CASE y # x
    BY <1>0, <1>1, <1>2, <2>1 DEF LocksOK
  <2>2. CASE y = x
    <3>1. ASSUME NEW s \in locked'[x], NEW r \in Missing(x)' PROVE s < r
      <4>1. r \in Missing(x) /\ r # NextSeat(x) /\ r \in Nat /\ NextSeat(x) \in Nat
        BY <1>1, <1>2, <3>1, SeatAssumption
      <4>2. CASE s \in locked[x]
        BY <1>0, <1>2, <4>1, <4>2 DEF LocksOK
      <4>3. CASE s = NextSeat(x)
        BY <1>1, <4>1, <4>3
      <4> QED
        BY <1>1, <3>1, <4>2, <4>3
    <3> QED
      BY <1>2, <2>2, <3>1
  <2> QED
    BY <2>1, <2>2
<1>6. Exclusive'
  <2>1. \A y \in Tx : NextSeat(x) \notin locked[y]
    BY DEF LockSeat, Granted
  <2> QED
    BY <1>0, <1>1, <2>1 DEF Exclusive
<1>7. DecidedOK'
  <2>1. \A y \in Tx : Missing(y)' \subseteq Missing(y)
    BY <1>2
  <2> QED
    BY <1>0, <1>2, <2>1 DEF DecidedOK, AllLocked, TypeOK
<1> QED
  BY <1>3, <1>4, <1>5, <1>6, <1>7 DEF Order

LEMMA OrderStep == IInv /\ [Next]_vars => TxTypes' /\ Order'
<1> SUFFICES ASSUME IInv, [Next]_vars PROVE TxTypes' /\ Order'
  OBVIOUS
<1>0. TypeOK /\ PlanOK /\ LocksOK /\ Exclusive /\ DecidedOK /\ TxTypes /\ decided \subseteq Tx
  BY DEF IInv, Order, TypeOK, TxTypes, Work
<1>s. ASSUME NEW y \in Tx, tx'[y] = tx[y], locked'[y] = locked[y]
      PROVE  /\ Running(y)' = Running(y) /\ Missing(y)' = Missing(y)
             /\ AllLocked(y)' = AllLocked(y) /\ Sound(tx[y])' = Sound(tx[y])
  BY <1>s DEF Running, Missing, Named, AllLocked, Sound, NamedBy
<1>1. CASE UNCHANGED locks
  <2>1. /\ tx' = tx /\ locked' = locked /\ decided' = decided /\ noted' = noted
    BY <1>1 DEF locks
  <2>2. \A y \in Tx : Running(y)' = Running(y) /\ Missing(y)' = Missing(y) /\ AllLocked(y)' = AllLocked(y)
    BY <1>s, <2>1
  <2>3. PlanOK' /\ LocksOK' /\ Exclusive' /\ DecidedOK'
    BY <1>0, <2>1, <2>2 DEF PlanOK, LocksOK, Exclusive, DecidedOK
  <2> QED
    BY <1>0, <2>1, <2>3 DEF Order, TxTypes
<1>2. ASSUME NEW x \in Tx, LockSeat(x) PROVE TxTypes' /\ Order'
  BY <1>2, LockKeepsOrder
<1>3. ASSUME NEW x \in Tx, NEW w \in Work, w.do # "idle", Sound(w), Begin(x, w)
      PROVE  TxTypes' /\ Order'
  <2>1. /\ tx' \in [Tx -> {Idle} \cup Work]
        /\ tx'[x] = w /\ \A y \in Tx \ {x} : tx'[y] = tx[y]
        /\ ~Running(x) /\ Running(x)' /\ x \notin decided
        /\ locked' = locked /\ decided' = decided /\ noted' = noted
    BY <1>0, <1>3, BeginRegisters
  <2>2. \A y \in Tx \ {x} : Running(y)' = Running(y) /\ Missing(y)' = Missing(y) /\ AllLocked(y)' = AllLocked(y)
    BY <1>s, <2>1
  <2>3. locked[x] = {}
    BY <1>0, <2>1 DEF LocksOK
  <2>4. PlanOK' /\ LocksOK'
    BY <1>0, <1>3, <2>1, <2>2, <2>3 DEF PlanOK, LocksOK
  <2>5. Exclusive' /\ DecidedOK'
    BY <1>0, <2>1, <2>2 DEF Exclusive, DecidedOK
  <2> QED
    BY <1>0, <2>1, <2>4, <2>5 DEF Order, TxTypes
<1>4. ASSUME NEW x \in Tx, Decides(x) PROVE TxTypes' /\ Order'
  <2>1. /\ tx' = tx /\ locked' = locked /\ decided' = decided \cup {x} /\ AllLocked(x)
        /\ noted' \in [Tx -> SUBSET Seat]
    BY <1>0, <1>4 DEF Decides, TxTypes
  <2>2. \A y \in Tx : Running(y)' = Running(y) /\ Missing(y)' = Missing(y) /\ AllLocked(y)' = AllLocked(y)
    BY <1>s, <2>1
  <2>3. PlanOK' /\ LocksOK' /\ Exclusive' /\ DecidedOK'
    BY <1>0, <2>1, <2>2 DEF PlanOK, LocksOK, Exclusive, DecidedOK
  <2> QED
    BY <1>0, <2>1, <2>3 DEF Order, TxTypes
<1>5. ASSUME NEW x \in Tx, End(x) PROVE TxTypes' /\ Order'
  <2>1. /\ tx' \in [Tx -> {Idle} \cup Work] /\ locked' \in [Tx -> SUBSET Seat]
        /\ decided' = decided \ {x} /\ noted' \in [Tx -> SUBSET Seat]
        /\ ~Running(x)' /\ locked'[x] = {}
        /\ \A y \in Tx \ {x} : tx'[y] = tx[y] /\ locked'[y] = locked[y]
    BY <1>0, <1>5, EndFrees
  <2>2. \A y \in Tx \ {x} : Running(y)' = Running(y) /\ Missing(y)' = Missing(y) /\ AllLocked(y)' = AllLocked(y)
    BY <1>s, <2>1
  <2>3. PlanOK' /\ LocksOK' /\ Exclusive' /\ DecidedOK'
    BY <1>0, <2>1, <2>2 DEF PlanOK, LocksOK, Exclusive, DecidedOK
  <2> QED
    BY <1>0, <2>1, <2>3 DEF Order, TxTypes
<1> QED
  BY <1>1, <1>2, <1>3, <1>4, <1>5, StepsOfTransactions

-----------------------------------------------------------------------------
(* Rows a sale is to write stay unwritten, and its own. *)
LEMMA WritesOwnRows ==
  ASSUME IInv, NEW x \in Tx, Buy(x) \/ Sell(x) \/ Reseat(x) \/ Override(x)
  PROVE  /\ x \in decided /\ End(x)
         /\ \A t \in Ticket : ticket'[t] = ticket[t] \/ (Sells(x) /\ t \in DOMAIN tx[x].places)
<1>1. CASE Buy(x)
  BY <1>1 DEF Buy, Refuse, plan, Sells
<1>2. CASE Sell(x)
  BY <1>2 DEF Sell, Refuse, plan, Sells
<1>3. CASE Reseat(x)
  BY <1>3 DEF Reseat, Refuse, plan
<1>4. CASE Override(x)
  BY <1>4 DEF Override
<1> QED
  BY <1>1, <1>2, <1>3, <1>4

LEMMA PlacesTyped ==
  ASSUME TypeOK, NEW x \in Tx, tx[x].do \in {"buy", "sell", "reseat"}
  PROVE  \E T \in SUBSET Ticket : tx[x].places \in [T -> Seat]
<1>1. tx[x] \in Claim
  BY DEF TypeOK, Idle, Overrides
<1> QED
  BY <1>1 DEF Claim

LEMMA FreshKept ==
  ASSUME IInv, tx' = tx,
         \A t \in Ticket : ticket[t] = "unwritten" => ticket'[t] = "unwritten"
  PROVE  FreshOK'
<1> SUFFICES ASSUME NEW x \in Tx, Sells(x)', NEW t \in DOMAIN tx[x].places
             PROVE  /\ ticket'[t] = "unwritten"
                    /\ \A y \in Tx \ {x} : Sells(y)' => t \notin DOMAIN tx'[y].places
  BY DEF FreshOK
<1>1. t \in Ticket
  BY PlacesTyped DEF IInv, Sells
<1>2. ticket[t] = "unwritten" /\ \A y \in Tx \ {x} : Sells(y) => t \notin DOMAIN tx[y].places
  BY DEF IInv, FreshOK, Sells
<1> QED
  BY <1>1, <1>2 DEF Sells

LEMMA FreshStep == IInv /\ [Next]_vars => FreshOK'
<1> SUFFICES ASSUME IInv, [Next]_vars PROVE FreshOK'
  OBVIOUS
<1>0. TypeOK /\ FreshOK /\ LiveSeated /\ DecidedOK /\ PlanOK
  BY DEF IInv, Order
<1>1. CASE UNCHANGED <<tx, ticket>>
  BY <1>1, FreshKept
<1>2. ASSUME NEW x \in Tx, StartBuy(x) \/ StartSell(x) \/ StartReseat(x) \/ StartOverride(x)
      PROVE  FreshOK'
  <2>1. PICK w \in Work : /\ w.do # "idle" /\ Begin(x, w)
                          /\ w.do \in {"buy", "sell"} => DOMAIN w.places \subseteq Unwritten
    BY <1>0, <1>2, StartsSound
  <2>2. /\ tx'[x] = w /\ \A y \in Tx \ {x} : tx'[y] = tx[y]
        /\ ticket' = ticket
    BY <1>0, <2>1, BeginRegisters DEF Begin, plan
  <2>3. \A t \in Unwritten : /\ ticket[t] = "unwritten"
                             /\ \A y \in Tx : Sells(y) => t \notin DOMAIN tx[y].places
    BY DEF Unwritten, Promised, Sells
  <2>4. ASSUME NEW z \in Tx, Sells(z)', NEW t \in DOMAIN tx'[z].places
        PROVE  /\ ticket'[t] = "unwritten"
               /\ \A y \in Tx \ {z} : Sells(y)' => t \notin DOMAIN tx'[y].places
    <3>1. CASE z = x
      <4>1. t \in Unwritten
        BY <2>1, <2>2, <2>4, <3>1 DEF Sells
      <4> QED
        BY <2>2, <2>3, <3>1, <4>1 DEF Sells
    <3>2. CASE z # x
      <4>1. Sells(z) /\ t \in DOMAIN tx[z].places
        BY <2>2, <2>4, <3>2 DEF Sells
      <4>2. ticket[t] = "unwritten" /\ \A y \in Tx \ {z} : Sells(y) => t \notin DOMAIN tx[y].places
        BY <1>0, <4>1 DEF FreshOK
      <4>3. Sells(x)' => t \notin DOMAIN tx'[x].places
        BY <2>1, <2>2, <2>3, <4>1 DEF Sells
      <4> QED
        BY <2>2, <4>2, <4>3 DEF Sells
    <3> QED
      BY <3>1, <3>2
  <2> QED
    BY <2>4 DEF FreshOK
<1>e. ASSUME NEW x \in Tx, End(x),
             \A t \in Ticket : ticket'[t] = ticket[t] \/ (Sells(x) /\ t \in DOMAIN tx[x].places)
      PROVE  FreshOK'
  <2>1. tx'[x].do = "idle" /\ \A y \in Tx \ {x} : tx'[y] = tx[y]
    BY <1>0, <1>e, EndFrees
  <2>2. ASSUME NEW z \in Tx, Sells(z)', NEW t \in DOMAIN tx'[z].places
        PROVE  /\ ticket'[t] = "unwritten"
               /\ \A y \in Tx \ {z} : Sells(y)' => t \notin DOMAIN tx'[y].places
    <3>1. z # x /\ Sells(z) /\ t \in DOMAIN tx[z].places
      BY <2>1, <2>2 DEF Sells
    <3>2. t \in Ticket
      BY <1>0, <3>1, PlacesTyped DEF Sells
    <3>3. ticket[t] = "unwritten" /\ \A y \in Tx \ {z} : Sells(y) => t \notin DOMAIN tx[y].places
      BY <1>0, <3>1 DEF FreshOK
    <3>4. ticket'[t] = ticket[t]
      BY <1>e, <3>1, <3>2, <3>3
    <3> QED
      BY <2>1, <3>3, <3>4 DEF Sells
  <2> QED
    BY <2>2 DEF FreshOK
<1>3. ASSUME NEW x \in Tx, DecideBuy(x) \/ DecideSell(x) \/ DecideReseat(x) \/ DecideOverride(x)
      PROVE  FreshOK'
  <2>1. CASE Decides(x)
    BY <1>1, <2>1 DEF Decides, plan
  <2>2. CASE Drops(x)
    BY <1>e, <2>2 DEF Drops, plan
  <2> QED
    BY <1>0, <1>3, <2>1, <2>2, DecideSteps
<1>4. ASSUME NEW x \in Tx, Buy(x) \/ Sell(x) \/ Reseat(x) \/ Override(x) PROVE FreshOK'
  BY <1>4, <1>e, WritesOwnRows
<1>5. ASSUME NEW t \in Ticket, CancelTicket(t) \/ DeleteTicket(t) \/ StaffReads(t) \/ StaffSaves(t)
      PROVE  FreshOK'
  <2>1. tx' = tx /\ \A r \in Ticket : ticket[r] = "unwritten" => ticket'[r] = "unwritten"
    BY <1>0, <1>5 DEF CancelTicket, DeleteTicket, Leave, StaffReads, StaffSaves, locks, plan, TypeOK
  <2> QED
    BY <2>1, FreshKept
<1>6. ASSUME NEW o \in Owner, NEW S \in SUBSET Seat, AcquireChecks(o, S) \/ ReleaseSeats(o, S)
      PROVE  FreshOK'
  BY <1>1, <1>6 DEF AcquireChecks, ReleaseSeats, Deleted, plan, locks
<1>7. ASSUME NEW w \in wanting, AcquireUpserts(w) PROVE FreshOK'
  BY <1>1, <1>7 DEF AcquireUpserts, plan, locks
<1>8. CASE CleanupExpired \/ Tick \/ UNCHANGED vars
  BY <1>1, <1>8 DEF CleanupExpired, Deleted, Tick, plan, locks, vars
<1>9. ASSUME NEW x \in Tx, LockSeat(x) PROVE FreshOK'
  BY <1>1, <1>9 DEF LockSeat, plan
<1> QED
  BY <1>2, <1>3, <1>4, <1>5, <1>6, <1>7, <1>8, <1>9, Zenon DEF Next

-----------------------------------------------------------------------------
(* What the row steps write. *)

PlanTypes ==
  /\ ticket \in [Ticket -> {"unwritten", "live", "CANCELLED", "deleted"}]
  /\ seat \in [Ticket -> Seat \cup {NoSeat}]
  /\ override \in [Seat -> {"none", "HELD", "KILLED"}]
  /\ stray \in SUBSET Ticket /\ staff \in SUBSET Ticket

HoldTypes ==
  /\ holder \in [Seat -> Owner \cup {NoOwner}]
  /\ left \in [Seat -> 0 .. HoldTTL]
  /\ life \in [Seat -> 0 .. HoldMaxLifetime]
  /\ kept \in [Seat -> Nat]
  /\ wanting \in SUBSET [owner : Owner, seats : SUBSET Seat]

Rows == PlanTypes /\ LiveSeated /\ SeatClaimedOnce
Holds == HoldTypes /\ HoldsOK

(* What a seat claims survives a step that adds no claim to it. *)
LEMMA ClaimsShrink ==
  ASSUME IInv,
         \A s \in Seat : /\ Claimants(s)' \subseteq Claimants(s)
                         /\ Claimants(s)' # {} /\ Blocked(s)' => Blocked(s)
                         /\ \A t, r \in LiveOn(s)' : t = r
  PROVE  SeatClaimedOnce'
BY DEF IInv, SeatClaimedOnce

(* Transactions that have not decided do not matter to a claim. *)
LEMMA ClaimsKept ==
  ASSUME UNCHANGED <<ticket, seat, override, stray, decided>>,
         \A y \in decided : tx'[y] = tx[y] /\ noted'[y] = noted[y],
         NEW s \in Seat
  PROVE  /\ Claimants(s)' = Claimants(s) /\ Blocked(s)' = Blocked(s) /\ LiveOn(s)' = LiveOn(s)
         /\ PromisedOn(s)' = PromisedOn(s)
BY DEF Claimants, Blocked, LiveOn, PromisedOn, Places

LEMMA RowsKept ==
  ASSUME IInv, UNCHANGED <<plan, decided>>, staff' \in SUBSET Ticket,
         \A y \in decided : tx'[y] = tx[y] /\ noted'[y] = noted[y]
  PROVE  Rows'
<1>1. UNCHANGED <<ticket, seat, override, stray>>
  BY DEF plan
<1>2. PlanTypes' /\ LiveSeated'
  BY <1>1 DEF IInv, TypeOK, PlanTypes, LiveSeated
<1>3. \A s \in Seat : Claimants(s)' = Claimants(s) /\ Blocked(s)' = Blocked(s) /\ LiveOn(s)' = LiveOn(s)
  BY <1>1, ClaimsKept
<1> QED
  BY <1>2, <1>3 DEF IInv, SeatClaimedOnce, Rows

LEMMA HoldsUnchanged ==
  ASSUME IInv, UNCHANGED <<holds, wanting>>
  PROVE  Holds'
BY DEF IInv, holds, Holds, HoldTypes, TypeOK, HoldsOK

LEMMA DroppedHolds ==
  ASSUME TypeOK, HoldsOK, NEW S, Dropped(S)
  PROVE  /\ holder' \in [Seat -> Owner \cup {NoOwner}] /\ left' \in [Seat -> 0 .. HoldTTL]
         /\ life' \in [Seat -> 0 .. HoldMaxLifetime] /\ kept' \in [Seat -> Nat]
         /\ HoldsOK'
<1>1. /\ holder' \in [Seat -> Owner \cup {NoOwner}] /\ left' \in [Seat -> 0 .. HoldTTL]
      /\ life' \in [Seat -> 0 .. HoldMaxLifetime] /\ kept' \in [Seat -> Nat]
  BY LifetimeAssumption DEF Dropped, TypeOK
<1>2. HoldsOK'
  BY DEF Dropped, TypeOK, HoldsOK
<1> QED
  BY <1>1, <1>2

LEMMA UpsertHolds ==
  ASSUME TypeOK, HoldsOK, NEW w \in wanting, AcquireUpserts(w)
  PROVE  HoldTypes' /\ HoldsOK'
<1>0. w.owner \in Owner /\ w.seats \in SUBSET Seat /\ wanting' \in SUBSET [owner : Owner, seats : SUBSET Seat]
  BY DEF TypeOK, AcquireUpserts
<1>1. CASE UNCHANGED holds
  BY <1>0, <1>1 DEF holds, TypeOK, HoldsOK, HoldTypes
<1>2. CASE ~UNCHANGED holds
  <2>1. /\ holder' = [s \in Seat |-> IF s \in w.seats THEN w.owner ELSE holder[s]]
        /\ life' = [s \in Seat |-> IF s \in w.seats /\ Restarts(w.owner, s)
                                   THEN HoldMaxLifetime ELSE life[s]]
        /\ left' = [s \in Seat |-> IF s \in w.seats THEN Clamped(HoldTTL, life'[s]) ELSE left[s]]
        /\ kept' = [s \in Seat |-> IF s \in w.seats \ HeldBy(w.owner) THEN 0 ELSE kept[s]]
    BY <1>2 DEF AcquireUpserts
  <2>2. /\ HoldTTL \in Nat /\ HoldTTL > 0 /\ HoldMaxLifetime \in Nat /\ HoldTTL <= HoldMaxLifetime
    BY LifetimeAssumption
  <2>3. ASSUME NEW s \in Seat
        PROVE  /\ life'[s] \in 0 .. HoldMaxLifetime /\ left'[s] \in 0 .. HoldTTL /\ kept'[s] \in Nat
               /\ left'[s] > 0 => left'[s] <= life'[s] /\ kept'[s] + life'[s] <= HoldMaxLifetime
               /\ left'[s] = 0 => kept'[s] = 0
    <3>1. /\ left[s] \in 0 .. HoldTTL /\ life[s] \in 0 .. HoldMaxLifetime /\ kept[s] \in Nat
          /\ left[s] > 0 => left[s] <= life[s] /\ kept[s] + life[s] <= HoldMaxLifetime
          /\ left[s] = 0 => kept[s] = 0
      BY DEF TypeOK, HoldsOK
    <3>2. CASE s \notin w.seats
      BY <2>1, <3>1, <3>2
    <3>3. CASE s \in w.seats /\ s \in HeldBy(w.owner)
      <4>1. left[s] > 0
        BY <3>3 DEF HeldBy
      <4>2. life'[s] = life[s] /\ kept'[s] = kept[s] /\ left'[s] = Clamped(HoldTTL, life[s])
        BY <2>1, <3>3 DEF Restarts
      <4> QED
        BY <2>2, <3>1, <4>1, <4>2 DEF Clamped
    <3>4. CASE s \in w.seats /\ s \notin HeldBy(w.owner)
      <4>1. life'[s] = HoldMaxLifetime /\ kept'[s] = 0 /\ left'[s] = Clamped(HoldTTL, HoldMaxLifetime)
        BY <2>1, <3>4 DEF Restarts
      <4> QED
        BY <2>2, <4>1 DEF Clamped
    <3> QED
      BY <3>2, <3>3, <3>4
  <2>4. holder' \in [Seat -> Owner \cup {NoOwner}]
    BY <1>0, <2>1 DEF TypeOK
  <2>5. left' \in [Seat -> 0 .. HoldTTL] /\ life' \in [Seat -> 0 .. HoldMaxLifetime] /\ kept' \in [Seat -> Nat]
    BY <2>1, <2>3
  <2> QED
    BY <1>0, <2>3, <2>4, <2>5 DEF HoldTypes, HoldsOK
<1> QED
  BY <1>1, <1>2

LEMMA TickHolds ==
  ASSUME TypeOK, HoldsOK, Tick
  PROVE  HoldTypes' /\ HoldsOK'
<1>1. ASSUME NEW s \in Seat
      PROVE  /\ life'[s] \in 0 .. HoldMaxLifetime /\ left'[s] \in 0 .. HoldTTL /\ kept'[s] \in Nat
             /\ left'[s] > 0 => left'[s] <= life'[s] /\ kept'[s] + life'[s] <= HoldMaxLifetime
             /\ left'[s] = 0 => kept'[s] = 0
  <2>1. /\ left[s] \in 0 .. HoldTTL /\ life[s] \in 0 .. HoldMaxLifetime /\ kept[s] \in Nat
        /\ left[s] > 0 => left[s] <= life[s] /\ kept[s] + life[s] <= HoldMaxLifetime
    BY DEF TypeOK, HoldsOK
  <2>2. /\ left'[s] = IF left[s] > 0 THEN left[s] - 1 ELSE 0
        /\ life'[s] = IF left[s] > 1 THEN life[s] - 1 ELSE 0
        /\ kept'[s] = IF left[s] > 1 THEN kept[s] + 1 ELSE 0
    BY DEF Tick
  <2>3. HoldTTL \in Nat /\ HoldMaxLifetime \in Nat
    BY LifetimeAssumption
  <2> QED
    BY <2>1, <2>2, <2>3
<1>2. left' \in [Seat -> 0 .. HoldTTL] /\ life' \in [Seat -> 0 .. HoldMaxLifetime] /\ kept' \in [Seat -> Nat]
  BY <1>1 DEF Tick
<1>3. holder' = holder /\ wanting' = wanting
  BY DEF Tick
<1> QED
  BY <1>1, <1>2, <1>3 DEF HoldTypes, HoldsOK, TypeOK

LEMMA DroppedKeepsHolds ==
  ASSUME IInv, NEW S, Dropped(S), UNCHANGED wanting
  PROVE  Holds'
<1>1. TypeOK /\ HoldsOK
  BY DEF IInv
<1> QED
  BY <1>1, DroppedHolds DEF Holds, HoldTypes, TypeOK

-----------------------------------------------------------------------------
(* Deciding: what a transaction has locked, no other decision is about. *)

LEMMA OthersElsewhere ==
  ASSUME IInv, NEW x \in Tx, AllLocked(x), NEW y \in decided, y # x, NEW s \in Named(x)
  PROVE  /\ tx[y].do # "override" => \A t \in DOMAIN tx[y].places : tx[y].places[t] # s
         /\ tx[y].do = "override" => s \notin DOMAIN tx[y].marks
<1>1. y \in Tx /\ AllLocked(y)
  BY DEF IInv, Order, DecidedOK, TypeOK
<1>2. s \in locked[x] /\ Named(y) \subseteq locked[y]
  BY <1>1 DEF AllLocked, Missing
<1>3. s \notin Named(y)
  BY <1>1, <1>2 DEF IInv, Order, Exclusive
<1>4. Sound(tx[y]) /\ Named(y) = NamedBy(tx[y])
  BY <1>1, NamedByIsNamed DEF AllLocked, IInv, Order, PlanOK
<1> QED
  BY <1>3, <1>4 DEF Sound

LEMMA NothingPromised ==
  ASSUME IInv, NEW x \in Tx, AllLocked(x), x \notin decided, NEW s \in Named(x)
  PROVE  PromisedOn(s) = {} /\ ~(\E y \in decided : tx[y].do = "override" /\ s \in DOMAIN tx[y].marks)
BY OthersElsewhere DEF PromisedOn

LEMMA ClaimDecided ==
  ASSUME IInv, NEW x \in Tx, Decides(x), tx[x].do \in {"buy", "sell", "reseat"},
         \A s \in Places(x) : ~Taken(s) /\ (override[s] = "none" \/ tx[x].do = "sell")
  PROVE  Rows'
<1>0. /\ UNCHANGED <<ticket, seat, override, stray, tx, staff>>
      /\ decided' = decided \cup {x} /\ \A y \in Tx \ {x} : noted'[y] = noted[y]
      /\ AllLocked(x) /\ x \notin decided /\ decided \subseteq Tx
  BY DEF Decides, plan, IInv, TypeOK
<1>1. /\ Sound(tx[x]) /\ Named(x) = NamedBy(tx[x])
      /\ \E T \in SUBSET Ticket : tx[x].places \in [T -> Seat]
  BY <1>0, NamedByIsNamed, PlacesTyped DEF IInv, Order, PlanOK, AllLocked
<1>2. Places(x) \subseteq Named(x)
  BY <1>1 DEF Sound, Places
<1>3. PlanTypes' /\ LiveSeated'
  BY <1>0 DEF IInv, TypeOK, PlanTypes, LiveSeated
<1>4. ASSUME NEW s \in Seat
      PROVE  /\ \A t, r \in Claimants(s)' : t = r
             /\ Claimants(s)' # {} => ~Blocked(s)'
             /\ \A t, r \in LiveOn(s)' : t = r
  <2>1. LiveOn(s)' = LiveOn(s) /\ \A t, r \in LiveOn(s) : t = r
    BY <1>0 DEF LiveOn, IInv, SeatClaimedOnce
  <2>2. PromisedOn(s)' = PromisedOn(s) \cup {t \in Ticket : t \in DOMAIN tx[x].places /\ tx[x].places[t] = s}
    BY <1>0 DEF PromisedOn
  <2>3. CASE s \in Places(x)
    <3>1. /\ PromisedOn(s) = {} /\ LiveOn(s) = {}
          /\ ~(\E y \in decided : tx[y].do = "override" /\ s \in DOMAIN tx[y].marks)
      BY <1>0, <1>2, <2>3, NothingPromised DEF Taken
    <3>2. Claimants(s)' = {t \in Ticket : t \in DOMAIN tx[x].places /\ tx[x].places[t] = s}
      BY <1>0, <2>1, <2>2, <3>1 DEF Claimants
    <3>3. \A t, r \in Claimants(s)' : t = r
      BY <1>1, <3>2 DEF Sound
    <3>4. ~Blocked(s)'
      <4>1. ~(override'[s] # "none" /\ ~(\E y \in decided' : tx'[y].do = "sell" /\ s \in Places(y)'))
        BY <1>0, <2>3 DEF Places
      <4>2. ~(\E y \in decided' : tx'[y].do = "override" /\ s \in DOMAIN tx'[y].marks \ noted'[y])
        BY <1>0, <3>1
      <4> QED
        BY <4>1, <4>2 DEF Blocked
    <3> QED
      BY <2>1, <3>3, <3>4
  <2>4. CASE s \notin Places(x)
    <3>1. Claimants(s)' = Claimants(s)
      BY <1>0, <2>1, <2>2, <2>4 DEF Claimants, Places
    <3>2. Blocked(s)' => Blocked(s)
      BY <1>0 DEF Blocked, Places
    <3> QED
      BY <2>1, <3>1, <3>2 DEF IInv, SeatClaimedOnce
  <2> QED
    BY <2>3, <2>4
<1> QED
  BY <1>3, <1>4 DEF Rows, SeatClaimedOnce

LEMMA OverrideDecided ==
  ASSUME IInv, NEW x \in Tx, Decides(x), tx[x].do = "override",
         noted'[x] = Ticketed(DOMAIN tx[x].marks)
  PROVE  Rows'
<1>0. /\ UNCHANGED <<ticket, seat, override, stray, tx, staff>>
      /\ decided' = decided \cup {x} /\ \A y \in Tx \ {x} : noted'[y] = noted[y]
      /\ AllLocked(x) /\ x \notin decided /\ decided \subseteq Tx
  BY DEF Decides, plan, IInv, TypeOK
<1>1. DOMAIN tx[x].marks \subseteq Named(x)
  BY <1>0, NamedByIsNamed DEF IInv, Order, PlanOK, AllLocked, Sound
<1>2. PlanTypes' /\ LiveSeated'
  BY <1>0 DEF IInv, TypeOK, PlanTypes, LiveSeated
<1>3. ASSUME NEW s \in Seat
      PROVE  /\ \A t, r \in Claimants(s)' : t = r
             /\ Claimants(s)' # {} => ~Blocked(s)'
             /\ \A t, r \in LiveOn(s)' : t = r
  <2>1. LiveOn(s)' = LiveOn(s) /\ PromisedOn(s)' = PromisedOn(s)
    BY <1>0 DEF LiveOn, PromisedOn
  <2>2. Claimants(s)' = Claimants(s)
    BY <1>0, <2>1 DEF Claimants
  <2>3. CASE s \in DOMAIN tx[x].marks \ noted'[x]
    <3>1. LiveOn(s) = {}
      BY <2>3 DEF Ticketed, Taken
    <3>2. Claimants(s) = {}
      BY <1>0, <1>1, <2>3, <3>1, NothingPromised DEF Claimants
    <3> QED
      BY <2>1, <2>2, <3>1, <3>2
  <2>4. CASE s \notin DOMAIN tx[x].marks \ noted'[x]
    <3>1. Blocked(s)' => Blocked(s)
      BY <1>0, <2>4 DEF Blocked, Places
    <3> QED
      BY <2>1, <2>2, <3>1 DEF IInv, SeatClaimedOnce
  <2> QED
    BY <2>3, <2>4
<1> QED
  BY <1>2, <1>3 DEF Rows, SeatClaimedOnce

LEMMA DecideKeeps ==
  ASSUME IInv, NEW x \in Tx, DecideBuy(x) \/ DecideSell(x) \/ DecideReseat(x) \/ DecideOverride(x)
  PROVE  Rows' /\ Holds'
<1>0. TypeOK /\ PlanOK
  BY DEF IInv, Order
<1>1. CASE Drops(x)
  <2>0. /\ x \notin decided /\ decided' = decided \ {x}
        /\ \A y \in Tx \ {x} : tx'[y] = tx[y] /\ noted'[y] = noted[y]
    BY <1>0, <1>1, EndFrees DEF Drops
  <2>1. decided' = decided /\ \A y \in decided : tx'[y] = tx[y] /\ noted'[y] = noted[y]
    BY <1>0, <2>0 DEF TypeOK
  <2> QED
    BY <1>0, <1>1, <2>1, RowsKept, HoldsUnchanged DEF Drops, End, TypeOK
<1>2. CASE Decides(x)
  <2>1. Holds'
    BY <1>2, HoldsUnchanged DEF Decides
  <2>2. x \in decided' /\ x \notin decided /\ Running(x)
    BY <1>2 DEF Decides, AllLocked
  <2>3. CASE DecideBuy(x)
    <3>1. tx[x].do = "buy" /\ \A s \in Places(x) : Sellable(s, tx[x].owner)
      BY <2>2, <2>3 DEF DecideBuy, Decide, End
    <3> QED
      BY <1>2, <2>1, <3>1, ClaimDecided DEF Sellable, Available
  <2>4. CASE DecideSell(x)
    <3>1. tx[x].do = "sell" /\ \A s \in Places(x) : Available(s, tx[x].owner)
      BY <2>2, <2>4 DEF DecideSell, Decide, End
    <3> QED
      BY <1>2, <2>1, <3>1, ClaimDecided DEF Available
  <2>5. CASE DecideReseat(x)
    <3>1. tx[x].do = "reseat" /\ \A s \in Places(x) : Sellable(s, tx[x].owner)
      BY <2>2, <2>5 DEF DecideReseat, Decide, End
    <3> QED
      BY <1>2, <2>1, <3>1, ClaimDecided DEF Sellable, Available
  <2>6. CASE DecideOverride(x)
    <3>1. tx[x].do = "override" /\ noted' = [noted EXCEPT ![x] = Ticketed(DOMAIN tx[x].marks)]
      BY <2>2, <2>6 DEF DecideOverride, Decide, End
    <3>2. noted'[x] = Ticketed(DOMAIN tx[x].marks)
      BY <1>0, <3>1 DEF TypeOK
    <3> QED
      BY <1>2, <2>1, <3>1, <3>2, OverrideDecided
  <2> QED
    BY <2>3, <2>4, <2>5, <2>6
<1> QED
  BY <1>0, <1>1, <1>2, DecideSteps

-----------------------------------------------------------------------------
(* Writing: a promise becomes a ticket, and no seat gains a claim. *)

(* How the promises of the others fare when a transaction ends. *)
LEMMA EndPromises ==
  ASSUME IInv, NEW x \in Tx, x \in decided, End(x), NEW s \in Seat
  PROVE  /\ decided' = decided \ {x} /\ \A y \in decided' : y \in Tx \ {x} /\ tx'[y] = tx[y] /\ noted'[y] = noted[y]
         /\ PromisedOn(s)' \subseteq PromisedOn(s)
         /\ (\E y \in decided' : tx'[y].do = "override" /\ s \in DOMAIN tx'[y].marks \ noted'[y])
              => \E y \in decided : tx[y].do = "override" /\ s \in DOMAIN tx[y].marks \ noted[y]
<1>1. decided' = decided \ {x} /\ \A y \in decided' : y \in Tx \ {x} /\ tx'[y] = tx[y] /\ noted'[y] = noted[y]
  BY EndFrees DEF IInv, TypeOK
<1> QED
  BY <1>1 DEF PromisedOn

LEMMA RefuseKeeps ==
  ASSUME IInv, NEW x \in Tx, x \in decided, End(x), Refuse(x), tx[x].do \in {"buy", "sell", "reseat"}
  PROVE  Rows' /\ Holds'
<1>0. /\ UNCHANGED <<ticket, seat, override, stray, staff>>
      /\ AllLocked(x)
  BY DEF Refuse, plan, End, IInv, Order, DecidedOK
<1>1. PlanTypes' /\ LiveSeated'
  BY <1>0 DEF IInv, TypeOK, PlanTypes, LiveSeated
<1>2. ASSUME NEW s \in Seat
      PROVE  /\ Claimants(s)' \subseteq Claimants(s)
             /\ Claimants(s)' # {} /\ Blocked(s)' => Blocked(s)
             /\ \A t, r \in LiveOn(s)' : t = r
  <2>1. LiveOn(s)' = LiveOn(s) /\ \A t, r \in LiveOn(s) : t = r
    BY <1>0 DEF LiveOn, IInv, SeatClaimedOnce
  <2>2. Claimants(s)' \subseteq Claimants(s)
    BY <1>0, <2>1, EndPromises DEF Claimants
  <2>3. CASE tx[x].do = "sell" /\ s \in Places(x)
    <3>1. PICK t \in DOMAIN tx[x].places : tx[x].places[t] = s
      BY <2>3 DEF Places
    <3>2. t \in Ticket /\ ticket[t] = "unwritten"
      BY <2>3, <3>1, PlacesTyped DEF IInv, FreshOK, Sells
    <3>3. t \in PromisedOn(s) /\ t \notin LiveOn(s)
      BY <2>3, <3>1, <3>2 DEF PromisedOn, LiveOn
    <3>4. \A r \in Claimants(s) : r = t
      BY <3>3 DEF Claimants, IInv, SeatClaimedOnce
    <3>5. s \in Named(x)
      BY <1>0, <2>3, NamedByIsNamed DEF IInv, Order, PlanOK, AllLocked, Sound, Places
    <3>6. PromisedOn(s)' = {}
      <4>1. \A y \in decided' : /\ tx'[y] = tx[y] /\ y \in decided /\ y # x
        BY EndPromises
      <4> QED
        BY <1>0, <3>5, <4>1, OthersElsewhere DEF PromisedOn
    <3>7. Claimants(s)' = {}
      BY <1>0, <2>1, <2>2, <3>3, <3>4, <3>6 DEF Claimants
    <3> QED
      BY <2>1, <2>2, <3>7
  <2>4. CASE ~(tx[x].do = "sell" /\ s \in Places(x))
    <3>1. \A y \in decided : tx[y].do = "sell" /\ s \in Places(y) => y \in decided' /\ tx'[y] = tx[y]
      BY <2>4, EndPromises
    <3>2. Blocked(s)' => Blocked(s)
      BY <1>0, <3>1, EndPromises DEF Blocked, Places
    <3> QED
      BY <2>1, <2>2, <3>2
  <2> QED
    BY <2>3, <2>4
<1> QED
  BY <1>1, <1>2, ClaimsShrink, HoldsUnchanged DEF Rows, Refuse, End

(* The rows of a claim are written where they were promised. *)
LEMMA WriteKeeps ==
  ASSUME IInv, NEW x \in Tx, x \in decided, End(x), tx[x].do \in {"buy", "sell", "reseat"},
         Seated(tx[x].places), Dropped(noted[x]),
         ticket' \in [Ticket -> {"unwritten", "live", "CANCELLED", "deleted"}],
         \A t \in Ticket \ DOMAIN tx[x].places : ticket'[t] = ticket[t],
         \A t \in DOMAIN tx[x].places : ticket'[t] = "live" => LiveOn(tx[x].places[t]) \subseteq {t},
         stray' \in SUBSET stray, stray \ DOMAIN tx[x].places \subseteq stray',
         override' \in [Seat -> {"none", "HELD", "KILLED"}],
         \A s \in Seat : IF tx[x].do = "sell" /\ s \in Places(x) THEN override'[s] = "none"
                                                               ELSE override'[s] = override[s]
  PROVE  Rows' /\ Holds'
<1> DEFINE places == tx[x].places
<1>0. TypeOK /\ PlanOK /\ LiveSeated /\ x \in Tx /\ staff' = staff /\ wanting' = wanting
  BY DEF IInv, Order, End
<1>1. /\ \E T \in SUBSET Ticket : places \in [T -> Seat]
      /\ \A t, r \in DOMAIN places : places[t] = places[r] => t = r
  <2>1. Running(x)
    BY DEF Running
  <2> QED
    BY <1>0, <2>1, PlacesTyped DEF PlanOK, Sound
<1>2. /\ seat' \in [Ticket -> Seat \cup {NoSeat}]
      /\ \A t \in DOMAIN places : t \in Ticket /\ seat'[t] = places[t] /\ places[t] \in Seat
      /\ \A t \in Ticket \ DOMAIN places : seat'[t] = seat[t]
  BY <1>0, <1>1 DEF Seated, TypeOK
<1> HIDE DEF places
<1>3. PlanTypes'
  BY <1>0, <1>2 DEF PlanTypes, TypeOK
<1>4. LiveSeated'
  BY <1>0, <1>2 DEF LiveSeated, places
<1>5. ASSUME NEW s \in Seat
      PROVE  /\ Claimants(s)' \subseteq Claimants(s)
             /\ Claimants(s)' # {} /\ Blocked(s)' => Blocked(s)
             /\ \A t, r \in LiveOn(s)' : t = r
  <2>1. \A t \in LiveOn(s)' : \/ t \notin DOMAIN places /\ t \in LiveOn(s)
                              \/ t \in DOMAIN places /\ places[t] = s /\ LiveOn(s) \subseteq {t}
    BY <1>2 DEF LiveOn, places
  <2>2. \A t, r \in LiveOn(s) : t = r
    BY DEF IInv, SeatClaimedOnce
  <2>3. \A t, r \in LiveOn(s)' : t = r
    BY <1>1, <2>1, <2>2
  <2>4. \A t \in DOMAIN places : places[t] = s => t \in PromisedOn(s)
    BY <1>2 DEF PromisedOn, places
  <2>5. Claimants(s)' \subseteq Claimants(s)
    <3>1. PromisedOn(s)' \subseteq PromisedOn(s)
      BY EndPromises
    <3>2. \A t \in LiveOn(s)' : t \notin stray' => t \in Claimants(s)
      BY <2>1, <2>4 DEF Claimants, places
    <3> QED
      BY <3>1, <3>2 DEF Claimants
  <2>6. Blocked(s)' => Blocked(s)
    <3>1. \A y \in decided : tx[y].do = "sell" /\ s \in Places(y) /\ y # x => y \in decided' /\ tx'[y] = tx[y]
      BY EndPromises
    <3>2. override'[s] # "none" => ~(tx[x].do = "sell" /\ s \in Places(x)) /\ override'[s] = override[s]
      OBVIOUS
    <3> QED
      BY <3>1, <3>2, EndPromises DEF Blocked, Places
  <2> QED
    BY <2>3, <2>5, <2>6
<1>6. SeatClaimedOnce'
  BY <1>5, ClaimsShrink
<1> QED
  BY <1>0, <1>3, <1>4, <1>6, DroppedKeepsHolds DEF Rows

LEMMA BuyKeeps ==
  ASSUME IInv, NEW x \in Tx, Buy(x)
  PROVE  Rows' /\ Holds'
<1>0. tx[x].do = "buy" /\ x \in decided /\ End(x) /\ TypeOK
  BY DEF Buy, IInv
<1>1. CASE Refuse(x)
  BY <1>0, <1>1, RefuseKeeps
<1>2. CASE ~Refuse(x)
  <2> DEFINE places == tx[x].places
  <2>1. /\ \A t \in DOMAIN places : LiveOn(places[t]) \subseteq {t}
        /\ ticket' = [t \in Ticket |-> IF t \in DOMAIN places THEN "live" ELSE ticket[t]]
        /\ Seated(places) /\ Dropped(noted[x]) /\ override' = override /\ stray' = stray
    BY <1>2 DEF Buy, IndexAdmits
  <2>2. ticket' \in [Ticket -> {"unwritten", "live", "CANCELLED", "deleted"}]
    BY <1>0, <2>1 DEF TypeOK
  <2> QED
    BY <1>0, <2>1, <2>2, WriteKeeps DEF TypeOK
<1> QED
  BY <1>1, <1>2

LEMMA SellKeeps ==
  ASSUME IInv, NEW x \in Tx, Sell(x)
  PROVE  Rows' /\ Holds'
<1>0. tx[x].do = "sell" /\ x \in decided /\ End(x) /\ TypeOK
  BY DEF Sell, IInv
<1>1. CASE Refuse(x)
  BY <1>0, <1>1, RefuseKeeps
<1>2. CASE ~Refuse(x)
  <2> DEFINE places == tx[x].places
  <2>1. /\ \A t \in DOMAIN places : LiveOn(places[t]) \subseteq {t}
        /\ ticket' = [t \in Ticket |-> IF t \in DOMAIN places THEN "live" ELSE ticket[t]]
        /\ Seated(places) /\ Dropped(noted[x]) /\ stray' = stray
        /\ override' = [s \in Seat |-> IF s \in Places(x) THEN "none" ELSE override[s]]
    BY <1>2 DEF Sell, IndexAdmits
  <2>2. /\ ticket' \in [Ticket -> {"unwritten", "live", "CANCELLED", "deleted"}]
        /\ override' \in [Seat -> {"none", "HELD", "KILLED"}]
    BY <1>0, <2>1 DEF TypeOK
  <2>3. \A s \in Seat : IF tx[x].do = "sell" /\ s \in Places(x) THEN override'[s] = "none"
                                                               ELSE override'[s] = override[s]
    BY <1>0, <2>1
  <2> QED
    BY <1>0, <2>1, <2>2, <2>3, WriteKeeps
<1> QED
  BY <1>1, <1>2

LEMMA ReseatKeeps ==
  ASSUME IInv, NEW x \in Tx, Reseat(x)
  PROVE  Rows' /\ Holds'
<1>0. tx[x].do = "reseat" /\ x \in decided /\ End(x) /\ TypeOK
  BY DEF Reseat, IInv
<1>1. CASE Refuse(x)
  BY <1>0, <1>1, RefuseKeeps
<1>2. CASE ~Refuse(x)
  <2> DEFINE places == tx[x].places
  <2>1. /\ \A t \in DOMAIN places : ticket[t] = "live" => LiveOn(places[t]) \subseteq {t}
        /\ ticket' = ticket /\ override' = override /\ stray' = stray \ DOMAIN places
        /\ Seated(places) /\ Dropped(noted[x])
    BY <1>2 DEF Reseat, Movable
  <2> QED
    BY <1>0, <2>1, WriteKeeps DEF TypeOK
<1> QED
  BY <1>1, <1>2

LEMMA OverrideKeeps ==
  ASSUME IInv, NEW x \in Tx, Override(x)
  PROVE  Rows' /\ Holds'
<1>0. /\ TypeOK /\ tx[x].do = "override" /\ x \in decided /\ End(x)
      /\ UNCHANGED <<ticket, seat, stray, staff, holds, wanting>>
  BY DEF IInv, Override, End
<1> DEFINE frees == tx[x].frees \ noted[x]
           marked == DOMAIN tx[x].marks \ noted[x]
<1>1. override' = [s \in Seat |-> IF s \in frees THEN "none"
                                 ELSE IF s \in marked THEN tx[x].marks[s] ELSE override[s]]
  BY Zenon DEF Override
<1>2. \A s \in marked : tx[x].marks[s] \in {"HELD", "KILLED"}
  <2>1. tx[x] \in Overrides
    <3>1. tx[x] \in {Idle} \cup Claim \cup Overrides
      BY <1>0 DEF TypeOK
    <3>2. \A w \in Claim : w.do # "override"
      BY DEF Claim
    <3> QED
      BY <1>0, <3>1, <3>2 DEF Idle
  <2> QED
    BY <2>1 DEF Overrides
<1>3. \A s \in Seat : override'[s] # "none" => s \in marked \/ override'[s] = override[s]
  BY <1>1
<1>4. PlanTypes' /\ LiveSeated'
  <2>1. override' \in [Seat -> {"none", "HELD", "KILLED"}]
    BY <1>0, <1>1, <1>2 DEF TypeOK
  <2> QED
    BY <1>0, <2>1 DEF PlanTypes, LiveSeated, IInv, TypeOK
<1>5. ASSUME NEW s \in Seat
      PROVE  /\ Claimants(s)' \subseteq Claimants(s)
             /\ Claimants(s)' # {} /\ Blocked(s)' => Blocked(s)
             /\ \A t, r \in LiveOn(s)' : t = r
  <2>1. LiveOn(s)' = LiveOn(s) /\ \A t, r \in LiveOn(s) : t = r
    BY <1>0 DEF LiveOn, IInv, SeatClaimedOnce
  <2>2. Claimants(s)' \subseteq Claimants(s)
    BY <1>0, <2>1, EndPromises DEF Claimants
  <2>3. Blocked(s)' => Blocked(s)
    <3>1. \A y \in decided : tx[y].do = "sell" /\ s \in Places(y) => y \in decided' /\ tx'[y] = tx[y]
      BY <1>0, EndPromises
    <3>2. s \in marked => Blocked(s)
      BY <1>0 DEF Blocked
    <3>3. override'[s] # "none" /\ ~(\E y \in decided' : tx'[y].do = "sell" /\ s \in Places(y)') => Blocked(s)
      BY <1>3, <3>1, <3>2 DEF Blocked, Places
    <3> QED
      BY <1>0, <3>3, EndPromises DEF Blocked
  <2> QED
    BY <2>1, <2>2, <2>3
<1> QED
  BY <1>0, <1>4, <1>5, ClaimsShrink, HoldsUnchanged DEF Rows

-----------------------------------------------------------------------------
(* Tickets that come and go without a seat lock. *)

LEMMA LeaveKeeps ==
  ASSUME IInv, NEW t \in Ticket, NEW status \in {"CANCELLED", "deleted"}, Leave(t, status)
  PROVE  Rows' /\ Holds'
<1>1. /\ ticket' = [ticket EXCEPT ![t] = status] /\ ticket[t] = "live" /\ stray' = stray \ {t}
      /\ UNCHANGED <<seat, override, staff, tx, decided, noted, holds, wanting>>
  BY DEF Leave, locks
<1>2. TypeOK /\ LiveSeated
  BY DEF IInv
<1>3. PlanTypes' /\ LiveSeated'
  BY <1>1, <1>2 DEF PlanTypes, LiveSeated, TypeOK
<1>4. ASSUME NEW s \in Seat
      PROVE  /\ Claimants(s)' \subseteq Claimants(s)
             /\ Claimants(s)' # {} /\ Blocked(s)' => Blocked(s)
             /\ \A a, b \in LiveOn(s)' : a = b
  <2>1. LiveOn(s)' = LiveOn(s) \ {t} /\ \A a, b \in LiveOn(s) : a = b
    BY <1>1, <1>2 DEF LiveOn, TypeOK, IInv, SeatClaimedOnce
  <2>2. PromisedOn(s)' = PromisedOn(s) /\ Blocked(s)' = Blocked(s)
    BY <1>1 DEF PromisedOn, Blocked, Places
  <2> QED
    BY <1>1, <2>1, <2>2 DEF Claimants
<1> QED
  BY <1>1, <1>3, <1>4, ClaimsShrink, HoldsUnchanged DEF Rows

LEMMA StaffSavesKeeps ==
  ASSUME IInv, NEW t \in Ticket, StaffSaves(t)
  PROVE  Rows' /\ Holds'
<1>0. /\ TypeOK /\ LiveSeated /\ staff' \in SUBSET Ticket
      /\ UNCHANGED <<seat, override, tx, decided, noted, holds, wanting>>
  BY DEF IInv, StaffSaves, locks, TypeOK
<1> DEFINE s == seat[t]
           revives == ticket[t] = "CANCELLED" /\ ~Taken(s)
<1>1. CASE ~revives
  <2>1. UNCHANGED plan
    BY <1>0, <1>1 DEF StaffSaves, plan
  <2> QED
    BY <1>0, <2>1, RowsKept, HoldsUnchanged
<1>2. CASE revives
  <2>1. /\ ticket' = [ticket EXCEPT ![t] = "live"]
        /\ stray' = IF Claimants(s) \ {t} # {} \/ Blocked(s) THEN stray \cup {t} ELSE stray
    BY <1>2 DEF StaffSaves
  <2>2. s \in Seat /\ LiveOn(s) = {}
    BY <1>0, <1>2 DEF LiveSeated, Taken
  <2>3. PlanTypes' /\ LiveSeated'
    BY <1>0, <2>1, <2>2 DEF PlanTypes, LiveSeated, TypeOK
  <2>4. ASSUME NEW r \in Seat
        PROVE  /\ \A a, b \in Claimants(r)' : a = b
               /\ Claimants(r)' # {} => ~Blocked(r)'
               /\ \A a, b \in LiveOn(r)' : a = b
    <3>1. PromisedOn(r)' = PromisedOn(r) /\ Blocked(r)' = Blocked(r)
      BY <1>0 DEF PromisedOn, Blocked, Places
    <3>2. /\ \A a, b \in LiveOn(r) : a = b
          /\ \A a, b \in Claimants(r) : a = b
          /\ Claimants(r) # {} => ~Blocked(r)
      BY DEF IInv, SeatClaimedOnce
    <3>3. CASE r # s
      <4>1. LiveOn(r)' = LiveOn(r) /\ t \notin LiveOn(r)
        BY <1>0, <2>1, <3>3 DEF LiveOn, TypeOK
      <4>2. Claimants(r)' = Claimants(r)
        BY <2>1, <3>1, <4>1 DEF Claimants
      <4> QED
        BY <3>1, <3>2, <4>1, <4>2
    <3>4. CASE r = s
      <4>1. LiveOn(r)' = {t}
        BY <1>0, <2>1, <2>2, <3>4 DEF LiveOn, TypeOK
      <4>2. CASE Claimants(s) \ {t} # {} \/ Blocked(s)
        <5>1. Claimants(r)' \subseteq Claimants(r)
          BY <2>1, <3>1, <4>1, <4>2 DEF Claimants
        <5> QED
          BY <3>1, <3>2, <4>1, <5>1
      <4>3. CASE ~(Claimants(s) \ {t} # {} \/ Blocked(s))
        <5>1. Claimants(r)' \subseteq Claimants(r) \cup {t}
          BY <2>1, <3>1, <4>1, <4>3 DEF Claimants
        <5> QED
          BY <3>1, <3>4, <4>1, <4>3, <5>1
      <4> QED
        BY <4>2, <4>3
    <3> QED
      BY <3>3, <3>4
  <2> QED
    BY <1>0, <2>3, <2>4, HoldsUnchanged DEF Rows, SeatClaimedOnce
<1> QED
  BY <1>1, <1>2

LEMMA RowStep == IInv /\ [Next]_vars => Rows' /\ Holds'
<1> SUFFICES ASSUME IInv, [Next]_vars PROVE Rows' /\ Holds'
  OBVIOUS
<1>0. TypeOK /\ HoldsOK /\ DecidedOK /\ LiveSeated
  BY DEF IInv, Order
<1>s. ASSUME UNCHANGED <<plan, staff, locks>> PROVE Rows'
  BY <1>0, <1>s, RowsKept DEF locks, TypeOK
<1>1. ASSUME NEW o \in Owner, NEW S \in SUBSET Seat, AcquireChecks(o, S)
      PROVE  Rows' /\ Holds'
  <2>1. UNCHANGED holds /\ wanting' = wanting \cup {[owner |-> o, seats |-> S]}
    BY <1>1 DEF AcquireChecks
  <2>2. Holds'
    BY <1>0, <2>1 DEF holds, Holds, HoldTypes, HoldsOK, TypeOK
  <2> QED
    BY <1>1, <1>s, <2>2 DEF AcquireChecks
<1>2. ASSUME NEW S, Deleted(S) PROVE Rows' /\ Holds'
  BY <1>2, <1>s, DroppedKeepsHolds DEF Deleted
<1>3. ASSUME NEW w \in wanting, AcquireUpserts(w) PROVE Rows' /\ Holds'
  BY <1>0, <1>3, <1>s, UpsertHolds DEF AcquireUpserts, Holds
<1>4. CASE Tick
  BY <1>0, <1>4, <1>s, TickHolds DEF Tick, Holds
<1>5. ASSUME NEW x \in Tx, LockSeat(x) PROVE Rows' /\ Holds'
  BY <1>0, <1>5, RowsKept, HoldsUnchanged DEF LockSeat, TypeOK
<1>6. ASSUME NEW x \in Tx, StartBuy(x) \/ StartSell(x) \/ StartReseat(x) \/ StartOverride(x)
      PROVE  Rows' /\ Holds'
  <2>1. PICK w \in Work : w.do # "idle" /\ Begin(x, w)
    BY <1>0, <1>6, StartsSound
  <2>2. decided' = decided /\ \A y \in decided : tx'[y] = tx[y] /\ noted'[y] = noted[y]
    BY <1>0, <2>1, BeginRegisters DEF TypeOK
  <2> QED
    BY <1>0, <2>1, <2>2, RowsKept, HoldsUnchanged DEF Begin, TypeOK
<1>7. ASSUME NEW x \in Tx, DecideBuy(x) \/ DecideSell(x) \/ DecideReseat(x) \/ DecideOverride(x)
      PROVE  Rows' /\ Holds'
  BY <1>7, DecideKeeps
<1>8. ASSUME NEW x \in Tx, Buy(x) \/ Sell(x) \/ Reseat(x) \/ Override(x)
      PROVE  Rows' /\ Holds'
  BY <1>8, BuyKeeps, SellKeeps, ReseatKeeps, OverrideKeeps
<1>9. ASSUME NEW t \in Ticket, CancelTicket(t) \/ DeleteTicket(t) PROVE Rows' /\ Holds'
  BY <1>9, LeaveKeeps DEF CancelTicket, DeleteTicket
<1>10. ASSUME NEW t \in Ticket, StaffReads(t) PROVE Rows' /\ Holds'
  BY <1>0, <1>10, RowsKept, HoldsUnchanged DEF StaffReads, locks, TypeOK
<1>11. ASSUME NEW t \in Ticket, StaffSaves(t) PROVE Rows' /\ Holds'
  BY <1>11, StaffSavesKeeps
<1>12. CASE UNCHANGED vars
  BY <1>12, <1>s, HoldsUnchanged DEF vars
<1>13. ASSUME NEW o \in Owner, NEW S \in SUBSET Seat, ReleaseSeats(o, S) PROVE Rows' /\ Holds'
  BY <1>2, <1>13 DEF ReleaseSeats
<1>14. CASE CleanupExpired
  BY <1>2, <1>14 DEF CleanupExpired
<1> QED
  BY <1>1, <1>3, <1>4, <1>5, <1>6, <1>7, <1>8, <1>9, <1>10, <1>11, <1>12, <1>13, <1>14, Zenon DEF Next

-----------------------------------------------------------------------------
LEMMA InvInit == Init => IInv
<1> SUFFICES ASSUME Init PROVE IInv
  OBVIOUS
<1>1. TypeOK
  BY LifetimeAssumption DEF Init, TypeOK
<1>2. Order /\ FreshOK
  BY DEF Init, Order, PlanOK, LocksOK, Exclusive, DecidedOK, FreshOK, Sells, Running, Idle
<1>3. HoldsOK /\ LiveSeated
  BY DEF Init, HoldsOK, LiveSeated
<1>4. SeatClaimedOnce
  <2>1. \A s \in Seat : LiveOn(s) = {} /\ Claimants(s) = {}
    BY DEF Init, Claimants, LiveOn, PromisedOn
  <2> QED
    BY <2>1 DEF SeatClaimedOnce
<1> QED
  BY <1>1, <1>2, <1>3, <1>4 DEF IInv

LEMMA InvStep == IInv /\ [Next]_vars => IInv'
<1> SUFFICES ASSUME IInv, [Next]_vars PROVE IInv'
  OBVIOUS
<1>1. Rows' /\ Holds' /\ TxTypes' /\ Order' /\ FreshOK'
  BY RowStep, OrderStep, FreshStep
<1>2. TypeOK'
  BY <1>1 DEF TypeOK, Rows, PlanTypes, Holds, HoldTypes, TxTypes, Work
<1> QED
  BY <1>1, <1>2 DEF IInv, Rows, Holds

(* Every reachable state of the seat map is of its type: in particular the *)
(* expiry of a hold never passes HOLD_TTL nor its lifetime the maximum.    *)
THEOREM SeatingTypes == Spec => []TypeOK
<1>1. IInv => TypeOK
  BY DEF IInv
<1> QED
  BY <1>1, InvInit, InvStep, PTL DEF Spec

(* Whatever number of carts, box-office sales, reseats and override        *)
(* batches run at once, over whatever tickets are cancelled, deleted or    *)
(* saved late between their checks and their writes: no two of the claims  *)
(* they decided or wrote are on one seat, but for what a stale save put    *)
(* back there; and with that, too, a seat has at most one live ticket.     *)
THEOREM NoSeatClaimedTwice == Spec => []SeatClaimedOnce
<1>1. IInv => SeatClaimedOnce
  BY DEF IInv
<1> QED
  BY <1>1, InvInit, InvStep, PTL DEF Spec

(* A named seat is locked by one transaction at a time, and whoever has    *)
(* decided about it has it locked: the mutual exclusion behind the theorem *)
(* above.                                                                  *)
THEOREM DecidedHoldTheirSeats ==
  Spec => [](/\ \A x, y \in Tx : x # y => locked[x] \cap locked[y] = {}
             /\ \A x \in decided : Named(x) \subseteq locked[x])
<1>1. IInv => /\ \A x, y \in Tx : x # y => locked[x] \cap locked[y] = {}
              /\ \A x \in decided : Named(x) \subseteq locked[x]
  BY DEF IInv, Order, Exclusive, DecidedOK, AllLocked, Missing
<1> QED
  BY <1>1, InvInit, InvStep, PTL DEF Spec

(* However often a hold is refreshed, released and taken again, nobody     *)
(* keeps a seat from the others for HOLD_MAX_LIFETIME.                     *)
THEOREM HoldsExpire == Spec => []HoldIsBounded
<1>1. IInv => HoldIsBounded
  <2> SUFFICES ASSUME IInv, NEW s \in Seat PROVE kept[s] < HoldMaxLifetime
    BY DEF HoldIsBounded
  <2>1. /\ left[s] \in 0 .. HoldTTL /\ life[s] \in 0 .. HoldMaxLifetime /\ kept[s] \in Nat
        /\ left[s] > 0 => left[s] <= life[s] /\ kept[s] + life[s] <= HoldMaxLifetime
        /\ left[s] = 0 => kept[s] = 0
    BY DEF IInv, TypeOK, HoldsOK
  <2>2. HoldTTL \in Nat /\ HoldTTL > 0 /\ HoldMaxLifetime \in Nat /\ HoldTTL <= HoldMaxLifetime
    BY LifetimeAssumption
  <2> QED
    BY <2>1, <2>2
<1> QED
  BY <1>1, InvInit, InvStep, PTL DEF Spec

(* Among transactions that run, one waits for none of the others: a wait   *)
(* for a seat is a wait for who locks larger ones.                         *)
LEMMA SomeoneGoesOn ==
  ASSUME IInv, NEW W, W \subseteq Tx, W # {}
  PROVE  \E x \in W : WaitsFor(x) \cap W = {}
<1>0. TypeOK /\ PlanOK /\ LocksOK
  BY DEF IInv, Order
<1>a. SUFFICES ASSUME \A x \in W : WaitsFor(x) \cap W # {}
               PROVE  FALSE
  OBVIOUS
<1> DEFINE next == [x \in W |-> NextSeat(x)]
<1>1. ASSUME NEW x \in W
      PROVE  /\ NextSeat(x) \in Seat /\ NextSeat(x) \in Missing(x)
             /\ \E y \in W : NextSeat(x) \in locked[y]
  <2>1. x \in Tx /\ Running(x) /\ Missing(x) # {} /\ \E y \in W : NextSeat(x) \in locked[y]
    BY <1>a DEF WaitsFor
  <2>2. Named(x) \subseteq Seat
    BY <1>0, <2>1, NamedByIsNamed DEF PlanOK, Sound
  <2>3. Missing(x) \subseteq Seat /\ Missing(x) \in SUBSET Nat
    BY <2>2, SeatAssumption DEF Missing
  <2> QED
    BY <2>1, <2>3, LeastOfIsLeast DEF NextSeat
<1>2. next \in [W -> Seat] /\ \A x \in W : next[x] = NextSeat(x)
  BY <1>1
<1> HIDE DEF next
<1>3. PICK x \in W : \A y \in W : ~(next[x] < next[y])
  BY <1>2, NoEndlessClimb
<1>4. PICK y \in W : NextSeat(x) \in locked[y]
  BY <1>1
<1>5. y \in Tx /\ Running(y)
  BY <1>a DEF WaitsFor
<1>6. NextSeat(x) < NextSeat(y)
  BY <1>0, <1>1, <1>4, <1>5 DEF LocksOK
<1> QED
  BY <1>2, <1>3, <1>6

(* The ordered seat locks cannot deadlock, for any number of transactions. *)
THEOREM SeatLocksNeverDeadlock == Spec => []LocksAcyclic
<1>1. IInv => LocksAcyclic
  <2> SUFFICES ASSUME IInv, NEW W \in (SUBSET Tx) \ {{}}
               PROVE  \E x \in W : WaitsFor(x) \cap W = {}
    BY DEF LocksAcyclic
  <2>1. W \subseteq Tx /\ W # {}
    OBVIOUS
  <2> QED
    BY <2>1, SomeoneGoesOn
<1> QED
  BY <1>1, InvInit, InvStep, PTL DEF Spec
=============================================================================
