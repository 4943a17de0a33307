------------------------------ MODULE Seating ------------------------------
(***************************************************************************)
(* Numbered seats of one event: the advisory holds buyers take while they  *)
(* browse, the seats a cart buys, and the organizer's side of it (block,   *)
(* kill and release seats, sell one, move a ticket to another).            *)
(*                                                                         *)
(* Whoever puts a ticket or an override on a seat first locks the seat     *)
(* rows, one by one, in the order of their ids, then reads tickets,        *)
(* overrides and holds and decides, and then writes; the locks go with the *)
(* end of the transaction.  Each lock, the decision and the write are      *)
(* steps.  (A cart has locked its tiers before, which only rules           *)
(* interleavings out.)  Holds take no seat lock: the acquisition looks at  *)
(* caps, overrides and tickets first, and upserts its rows afterwards.     *)
(*                                                                         *)
(* Cancellations and deletions take no seat lock either, and the desk and  *)
(* the payment webhook save a ticket they read without any lock: over a    *)
(* cancellation that makes the ticket live again on a seat that may have   *)
(* been sold or blocked meanwhile.  Only the unique index on the seat of   *)
(* live tickets stands in the way.                                         *)
(*                                                                         *)
(* A best-available group locks the block it picked and picks again when   *)
(* the block is refused; here it is a cart of its own that names the seats.*)
(* Carts that mix such a group with chosen seats are left out: the code    *)
(* admits that they may deadlock and answers 409.                          *)
(***************************************************************************)
EXTENDS Integers, FiniteSets, Sequences

CONSTANTS Seat,         \* seat ids, numbers for their order
          Ticket,       \* ids of the ticket rows that may ever be written
          Owner,        \* hold identities: users and guest sessions
          GuestSession, \* those that are guest sessions
          UserOf,       \* the user a ticket row belongs to
          Tx,           \* transactions that may run at the same time
          Batches,      \* override requests of the organizer
          HoldTTL, HoldMaxLifetime,  \* in ticks
          HoldCap,      \* _hold_cap(event)
          MaxWanting,   \* bound: acquisitions between check and upsert
          NoSeat, NoOwner

ASSUME SeatAssumption == Seat \subseteq Nat /\ IsFiniteSet(Seat)
ASSUME OwnerAssumption ==
  /\ GuestSession \subseteq Owner /\ UserOf \in [Ticket -> Owner \ GuestSession]
  /\ NoOwner \notin Owner /\ NoSeat \notin Seat
ASSUME BatchAssumption ==
  Batches \subseteq [frees : SUBSET Seat, marks : UNION {[M -> {"HELD", "KILLED"}] : M \in SUBSET Seat}]
ASSUME LifetimeAssumption ==
  HoldTTL \in Nat \ {0} /\ HoldMaxLifetime \in Nat /\ HoldTTL <= HoldMaxLifetime
ASSUME BoundAssumption == HoldCap \in Nat /\ MaxWanting \in Nat

VARIABLES
  ticket,    \* status of each ticket row; "live" is anything but CANCELLED
  seat,      \* the seat of each ticket row
  override,  \* EventSeatOverride of each seat
  stray,     \* history: tickets a stale save put back on a lost seat
  staff,     \* live tickets read without a lock, to be saved
  tx,        \* what each running transaction locks and means to write
  locked,    \* seat rows each transaction holds locked
  decided,   \* transactions past their checks, their writes not committed
  noted,     \* seats whose holds a sale deletes, or an override refuses
  holder,    \* whose SeatHold row a seat has
  left,      \* ticks until that hold expires, 0 when it has
  life,      \* ticks until acquired_at + HOLD_MAX_LIFETIME
  kept,      \* history: ticks the seat was never free for anyone else
  wanting    \* acquisitions past their checks

plan == <<ticket, seat, override, stray>>
locks == <<tx, locked, decided, noted>>
holds == <<holder, left, life, kept>>
vars == <<plan, staff, locks, holds, wanting>>

Idle == [do |-> "idle"]

(* A cart, a box-office sale or a reseat: tickets and the seats they are to*)
(* have, under the identity whose holds count as its own.                  *)
Claim == [do : {"buy", "sell", "reseat"}, groups : Seq(SUBSET Seat), owner : Owner,
          places : UNION {[T -> Seat] : T \in SUBSET Ticket}]

Overrides == [do : {"override"}, groups : Seq(SUBSET Seat), frees : SUBSET Seat,
              marks : UNION {[M -> {"HELD", "KILLED"}] : M \in SUBSET Seat}]

TypeOK ==
  /\ ticket \in [Ticket -> {"unwritten", "live", "CANCELLED", "deleted"}]
  /\ seat \in [Ticket -> Seat \cup {NoSeat}]
  /\ override \in [Seat -> {"none", "HELD", "KILLED"}]
  /\ stray \in SUBSET Ticket /\ staff \in SUBSET Ticket
  /\ tx \in [Tx -> {Idle} \cup Claim \cup Overrides]
  /\ locked \in [Tx -> SUBSET Seat]
  /\ decided \in SUBSET Tx
  /\ noted \in [Tx -> SUBSET Seat]
  /\ holder \in [Seat -> Owner \cup {NoOwner}]
  /\ left \in [Seat -> 0 .. HoldTTL]
  /\ life \in [Seat -> 0 .. HoldMaxLifetime]
  /\ kept \in [Seat -> Nat]
  /\ wanting \in SUBSET [owner : Owner, seats : SUBSET Seat]

Init ==
  /\ ticket = [t \in Ticket |-> "unwritten"]
  /\ seat = [t \in Ticket |-> NoSeat]
  /\ override = [s \in Seat |-> "none"]
  /\ stray = {} /\ staff = {}
  /\ tx = [x \in Tx |-> Idle]
  /\ locked = [x \in Tx |-> {}]
  /\ decided = {}
  /\ noted = [x \in Tx |-> {}]
  /\ holder = [s \in Seat |-> NoOwner]
  /\ left = [s \in Seat |-> 0]
  /\ life = [s \in Seat |-> 0]
  /\ kept = [s \in Seat |-> 0]
  /\ wanting = {}

-----------------------------------------------------------------------------
(* Who is on a seat. *)

LiveOn(s) == {t \in Ticket : ticket[t] = "live" /\ seat[t] = s}
Taken(s) == LiveOn(s) # {}

(* SeatHoldQuerySet.active. *)
HeldBy(o) == {s \in Seat : holder[s] = o /\ left[s] > 0}
HeldAgainst(o) == {s \in Seat : holder[s] # o /\ left[s] > 0}

(* Hold rows a sale has deleted and not committed yet. *)
HoldLocked == UNION {noted[x] : x \in {y \in decided : tx[y].do # "override"}}

-----------------------------------------------------------------------------
(* Holds. *)

(* acquire_seats up to the upsert. *)
AcquireChecks(o, S) ==
  /\ S # {}
  /\ Cardinality(wanting) < MaxWanting
  /\ Cardinality(HeldBy(o) \cup S) <= HoldCap
  /\ \A s \in S : ~Taken(s) /\ override[s] = "none"
  /\ wanting' = wanting \cup {[owner |-> o, seats |-> S]}
  /\ UNCHANGED <<plan, staff, locks, holds>>

(* acquired_at starts again on every upsert, or only on a takeover. *)
RestartsAlways(o, s) == TRUE
Restarts(o, s) == s \notin HeldBy(o)

(* _clamp_lifetime, and an expiry left as the upsert wrote it. *)
Unclamped(ttl, l) == ttl
Clamped(ttl, l) == IF ttl <= l THEN ttl ELSE l

(* The takeover upserts of a request, by id, and the clamp: all of its     *)
(* seats or, at the first one live-held by another, none.  A row a sale is *)
(* deleting makes it wait.                                                 *)
AcquireUpserts(w) ==
  /\ w \in wanting
  /\ wanting' = wanting \ {w}
  /\ \/ /\ w.seats \cap (HeldAgainst(w.owner) \cup HoldLocked) = {}
        /\ holder' = [s \in Seat |-> IF s \in w.seats THEN w.owner ELSE holder[s]]
        /\ life' = [s \in Seat |-> IF s \in w.seats /\ Restarts(w.owner, s)
                                   THEN HoldMaxLifetime ELSE life[s]]
        /\ left' = [s \in Seat |-> IF s \in w.seats THEN Clamped(HoldTTL, life'[s]) ELSE left[s]]
        /\ kept' = [s \in Seat |-> IF s \in w.seats \ HeldBy(w.owner) THEN 0 ELSE kept[s]]
     \/ /\ \E s \in w.seats \cap HeldAgainst(w.owner) :
             \A r \in w.seats : r <= s => r \notin HoldLocked
        /\ UNCHANGED holds
  /\ UNCHANGED <<plan, staff, locks>>

Dropped(S) ==
  /\ holder' = [s \in Seat |-> IF s \in S THEN NoOwner ELSE holder[s]]
  /\ left' = [s \in Seat |-> IF s \in S THEN 0 ELSE left[s]]
  /\ life' = [s \in Seat |-> IF s \in S THEN 0 ELSE life[s]]
  /\ kept' = [s \in Seat |-> IF s \in S THEN 0 ELSE kept[s]]

Deleted(S) ==
  /\ S # {} /\ S \cap HoldLocked = {}
  /\ Dropped(S)
  /\ UNCHANGED <<plan, staff, locks, wanting>>

(* release_seats. *)
ReleaseSeats(o, S) == Deleted({s \in S : holder[s] = o})

(* cleanup_expired_seat_holds. *)
CleanupExpired == Deleted({s \in Seat : holder[s] # NoOwner /\ left[s] = 0})

Tick ==
  /\ \E s \in Seat : left[s] > 0
  /\ left' = [s \in Seat |-> IF left[s] > 0 THEN left[s] - 1 ELSE 0]
  /\ life' = [s \in Seat |-> IF left[s] > 1 THEN life[s] - 1 ELSE 0]
  /\ kept' = [s \in Seat |-> IF left[s] > 1 THEN kept[s] + 1 ELSE 0]
  /\ UNCHANGED <<plan, staff, locks, holder, wanting>>

-----------------------------------------------------------------------------
(* Seat locks. *)

Named(x) == UNION {tx[x].groups[i] : i \in DOMAIN tx[x].groups}
Missing(x) == Named(x) \ locked[x]
Running(x) == tx[x].do # "idle"
AllLocked(x) == Running(x) /\ Missing(x) = {}

LeastOf(S) == CHOOSE s \in S : \A r \in S : s <= r

(* The next seat a transaction locks: by id over everything it names, or   *)
(* by id within one group of the cart after the other.                     *)
NextOfGroup(x) ==
  LET open == {i \in DOMAIN tx[x].groups : tx[x].groups[i] \ locked[x] # {}}
  IN  LeastOf(tx[x].groups[LeastOf(open)] \ locked[x])

NextSeat(x) == LeastOf(Missing(x))

(* A row is granted to one transaction, where a plain read asks nobody. *)
ReadOnly(s) == TRUE
Granted(s) == \A y \in Tx : s \notin locked[y]

LockSeat(x) ==
  /\ Running(x) /\ Missing(x) # {}
  /\ Granted(NextSeat(x))
  /\ locked' = [locked EXCEPT ![x] = @ \cup {NextSeat(x)}]
  /\ UNCHANGED <<plan, staff, tx, decided, noted, holds, wanting>>

Begin(x, work) ==
  /\ tx[x] = Idle
  /\ tx' = [tx EXCEPT ![x] = work]
  /\ UNCHANGED <<plan, staff, locked, decided, noted, holds, wanting>>

(* Commit or rollback. *)
End(x) ==
  /\ tx' = [tx EXCEPT ![x] = Idle]
  /\ locked' = [locked EXCEPT ![x] = {}]
  /\ decided' = decided \ {x}
  /\ noted' = [noted EXCEPT ![x] = {}]
  /\ UNCHANGED <<staff, wanting>>

(* Under its locks a transaction reads, and goes on or is refused. *)
Decide(x, allowed, S) ==
  /\ AllLocked(x) /\ x \notin decided
  /\ \/ /\ allowed
        /\ decided' = decided \cup {x}
        /\ noted' = [noted EXCEPT ![x] = S]
        /\ UNCHANGED <<tx, locked, staff, wanting>>
     \/ ~allowed /\ End(x)
  /\ UNCHANGED <<plan, holds>>

Refuse(x) == UNCHANGED <<plan, holds>>

-----------------------------------------------------------------------------
(* create_batch with chosen seats. *)

(* Rows are written once: no two running transactions write the same.  A   *)
(* cart names a seat once, in one of at most two groups.                   *)
Promised == UNION {DOMAIN tx[x].places : x \in {y \in Tx : tx[y].do \in {"buy", "sell"}}}

Unwritten == {t \in Ticket : ticket[t] = "unwritten"} \ Promised

(* A guest's cart counts the holds of its session as its own. *)
StartBuy(x) ==
  \E T \in (SUBSET Unwritten) \ {{}}, o \in Owner :
    \E places \in [T -> Seat], S \in SUBSET Seat :
      LET named == {places[t] : t \in T}
      IN  /\ \A t, r \in T : UserOf[t] = UserOf[r] /\ (places[t] = places[r] => t = r)
          /\ o \in GuestSession \/ \A t \in T : o = UserOf[t]
          /\ S \subseteq named /\ S # {}
          /\ Begin(x, [do |-> "buy", groups |-> <<S, named \ S>>, owner |-> o, places |-> places])

(* What a sale asks of a seat under its lock. *)
Available(s, o) == ~Taken(s) /\ s \notin HeldAgainst(o)
Sellable(s, o) == Available(s, o) /\ override[s] = "none"

Places(x) == {tx[x].places[t] : t \in DOMAIN tx[x].places}

(* Its own holds, expired or not, are deleted with the check. *)
Consumed(x) == {s \in Places(x) : holder[s] = tx[x].owner}

DecideBuy(x) ==
  /\ tx[x].do = "buy"
  /\ Decide(x, \A s \in Places(x) : Sellable(s, tx[x].owner), Consumed(x))

(* unique_ticket_event_seat, for the tickets a transaction writes. *)
IndexAdmits(places) == \A t \in DOMAIN places : LiveOn(places[t]) \subseteq {t}

Seated(places) ==
  seat' = [t \in Ticket |-> IF t \in DOMAIN places THEN places[t] ELSE seat[t]]

Buy(x) ==
  /\ tx[x].do = "buy" /\ x \in decided
  /\ LET places == tx[x].places
     IN  \/ /\ IndexAdmits(places)
            /\ ticket' = [t \in Ticket |-> IF t \in DOMAIN places THEN "live" ELSE ticket[t]]
            /\ Seated(places)
            /\ Dropped(noted[x])
            /\ UNCHANGED <<override, stray>>
         \/ ~IndexAdmits(places) /\ Refuse(x)
  /\ End(x)

-----------------------------------------------------------------------------
(* Tickets between the transactions above: none of this locks a seat. *)

(* A cancellation frees the seat, the row keeps it; a pending checkout's   *)
(* rows are deleted.                                                       *)
Leave(t, status) ==
  /\ ticket[t] = "live"
  /\ ticket' = [ticket EXCEPT ![t] = status]
  /\ stray' = stray \ {t}
  /\ UNCHANGED <<seat, override, staff, locks, holds, wanting>>

CancelTicket(t) == Leave(t, "CANCELLED")
DeleteTicket(t) == Leave(t, "deleted")

(* Confirm, unconfirm, check-in and the webhook read a live ticket, and    *)
(* save its status later; alike requests share a reading.                  *)
StaffReads(t) ==
  /\ ticket[t] = "live" /\ t \notin staff
  /\ staff' = staff \cup {t}
  /\ UNCHANGED <<plan, locks, holds, wanting>>

PromisedOn(s) ==
  {t \in Ticket : \E x \in decided :
      tx[x].do # "override" /\ t \in DOMAIN tx[x].places /\ tx[x].places[t] = s}

(* The tickets a seat is claimed by: live ones and those decided upon; and *)
(* whether an override claims it, written or decided, and not being sold.  *)
Claimants(s) == (LiveOn(s) \ stray) \cup PromisedOn(s)

Blocked(s) ==
  \/ override[s] # "none" /\ ~(\E x \in decided : tx[x].do = "sell" /\ s \in Places(x))
  \/ \E x \in decided : tx[x].do = "override" /\ s \in DOMAIN tx[x].marks \ noted[x]

(* The save: over a cancellation it makes the ticket live, unless a live   *)
(* one has its seat; a deleted row fails it.                               *)
StaffSaves(t) ==
  /\ t \in staff
  /\ \E S \in {staff, staff \ {t}} : staff' = S
  /\ LET s == seat[t]
         revives == ticket[t] = "CANCELLED" /\ ~Taken(s)
     IN  \/ /\ revives
            /\ ticket' = [ticket EXCEPT ![t] = "live"]
            /\ stray' = IF Claimants(s) \ {t} # {} \/ Blocked(s) THEN stray \cup {t} ELSE stray
         \/ ~revives /\ UNCHANGED <<ticket, stray>>
  /\ UNCHANGED <<seat, override, locks, holds, wanting>>

-----------------------------------------------------------------------------
(* The box office. *)

StartSell(x) ==
  \E t \in Unwritten, s \in Seat :
    Begin(x, [do |-> "sell", groups |-> <<{s}>>, owner |-> UserOf[t], places |-> [r \in {t} |-> s]])

(* A HELD seat is the box office's own to sell, a KILLED one is not. *)
DecideSell(x) ==
  /\ tx[x].do = "sell"
  /\ Decide(x, \A s \in Places(x) : Available(s, tx[x].owner) /\ override[s] # "KILLED", Consumed(x))

Sell(x) ==
  /\ tx[x].do = "sell" /\ x \in decided
  /\ LET places == tx[x].places
     IN  \/ /\ IndexAdmits(places)
            /\ ticket' = [t \in Ticket |-> IF t \in DOMAIN places THEN "live" ELSE ticket[t]]
            /\ Seated(places)
            /\ override' = [s \in Seat |-> IF s \in Places(x) THEN "none" ELSE override[s]]
            /\ Dropped(noted[x])
            /\ UNCHANGED stray
         \/ ~IndexAdmits(places) /\ Refuse(x)
  /\ End(x)

(* reseat reads the ticket without a lock, then locks its seat as it was   *)
(* and the target.                                                         *)
StartReseat(x) ==
  \E t \in Ticket, target \in Seat :
    /\ ticket[t] = "live" /\ seat[t] # target
    /\ Begin(x, [do |-> "reseat", groups |-> <<{seat[t], target}>>, owner |-> UserOf[t],
                 places |-> [r \in {t} |-> target]])

DecideReseat(x) ==
  /\ tx[x].do = "reseat"
  /\ Decide(x, \A s \in Places(x) : Sellable(s, tx[x].owner), Consumed(x))

(* The row is moved whatever its status is by now, if it is still there;   *)
(* the index only minds live ones.                                         *)
Movable(places) ==
  \A t \in DOMAIN places : /\ ticket[t] # "deleted"
                           /\ ticket[t] = "live" => LiveOn(places[t]) \subseteq {t}

Reseat(x) ==
  /\ tx[x].do = "reseat" /\ x \in decided
  /\ LET places == tx[x].places
     IN  \/ /\ Movable(places)
            /\ Seated(places)
            /\ stray' = stray \ DOMAIN places
            /\ Dropped(noted[x])
            /\ UNCHANGED <<ticket, override>>
         \/ ~Movable(places) /\ Refuse(x)
  /\ End(x)

StartOverride(x) ==
  \E b \in Batches :
    Begin(x, [do |-> "override", groups |-> <<DOMAIN b.marks \cup b.frees>>,
              frees |-> b.frees, marks |-> b.marks])

(* Ticketed seats are refused one by one, never the batch. *)
Ticketed(S) == {s \in S : Taken(s)}

DecideOverride(x) ==
  /\ tx[x].do = "override"
  /\ Decide(x, TRUE, Ticketed(DOMAIN tx[x].marks))

(* apply_overrides: the releases come after the marks, and win. *)
Override(x) ==
  /\ tx[x].do = "override" /\ x \in decided
  /\ LET frees == tx[x].frees \ noted[x]
         marked == DOMAIN tx[x].marks \ noted[x]
     IN  override' = [s \in Seat |-> IF s \in frees THEN "none"
                                     ELSE IF s \in marked THEN tx[x].marks[s] ELSE override[s]]
  /\ UNCHANGED <<ticket, seat, stray, holds>>
  /\ End(x)

-----------------------------------------------------------------------------
Next ==
  \/ \E o \in Owner, S \in SUBSET Seat : AcquireChecks(o, S) \/ ReleaseSeats(o, S)
  \/ \E w \in wanting : AcquireUpserts(w)
  \/ CleanupExpired \/ Tick
  \/ \E x \in Tx : LockSeat(x)
  \/ \E x \in Tx : StartBuy(x) \/ StartSell(x) \/ StartReseat(x) \/ StartOverride(x)
  \/ \E x \in Tx : DecideBuy(x) \/ DecideSell(x) \/ DecideReseat(x) \/ DecideOverride(x)
  \/ \E x \in Tx : Buy(x) \/ Sell(x) \/ Reseat(x) \/ Override(x)
  \/ \E t \in Ticket : CancelTicket(t) \/ DeleteTicket(t) \/ StaffReads(t) \/ StaffSaves(t)

Spec == Init /\ [][Next]_vars

-----------------------------------------------------------------------------
(* Properties. *)

(* A seat is claimed once: by one ticket or by one override, written or    *)
(* only decided upon, whichever of cart, box office, reseat and override   *)
(* comes first and whatever is cancelled, deleted or saved late between.   *)
(* The seat locks give that; set apart are the tickets a stale save put    *)
(* back on a seat that was lost to another claim (stray).  The unique      *)
(* index keeps even those from sharing a seat with another live ticket.    *)
SeatClaimedOnce ==
  \A s \in Seat : /\ \A t, r \in Claimants(s) : t = r
                  /\ Claimants(s) # {} => ~Blocked(s)
                  /\ \A t, r \in LiveOn(s) : t = r

(* Tickets and overrides alone, with no ticket set apart: no live ticket   *)
(* is on a seat the organizer blocked.                                     *)
NoLiveTicketBlocked == \A s \in Seat : Taken(s) => override[s] = "none"

(* Seats are locked in one order, so transactions never wait for each      *)
(* other in a circle: among any that run, one can go on.                   *)
WaitsFor(x) == {y \in Tx : Running(x) /\ Missing(x) # {} /\ NextSeat(x) \in locked[y]}

LocksAcyclic ==
  \A W \in (SUBSET Tx) \ {{}} : \E x \in W : WaitsFor(x) \cap W = {}

(* No identity keeps a seat from everyone else for longer than             *)
(* HOLD_MAX_LIFETIME, however often it refreshes its hold.                 *)
HoldIsBounded == \A s \in Seat : kept[s] < HoldMaxLifetime

(* No identity holds more seats at a time than _hold_cap allows.           *)
HeldWithinCap == \A o \in Owner : Cardinality(HeldBy(o)) <= HoldCap
=============================================================================
