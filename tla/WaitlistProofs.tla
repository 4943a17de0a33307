--------------------------- MODULE WaitlistProofs ---------------------------
(***************************************************************************)
(* Theorems about Waitlist for every finite set of users, every capacity   *)
(* and every batch size.                                                   *)
(***************************************************************************)
EXTENDS Waitlist, FiniteSetTheorems, TLAPS

-----------------------------------------------------------------------------
(* Counting *)

(* Every set of users is finite and counted by a number of users. *)
LEMMA Counted ==
  ASSUME NEW S \in SUBSET User
  PROVE  /\ IsFiniteSet(S)
         /\ Cardinality(S) \in Nat
         /\ Cardinality(S) \in 0..Cardinality(User)
<1>1. IsFiniteSet(S) /\ Cardinality(S) <= Cardinality(User)
  BY UserAssumption, FS_Subset
<1>2. Cardinality(S) \in Nat /\ Cardinality(User) \in Nat
  BY <1>1, UserAssumption, FS_CardinalityType
<1> QED
  BY <1>1, <1>2

LEMMA Smaller ==
  ASSUME NEW S \in SUBSET User, NEW T \in SUBSET S
  PROVE  Cardinality(T) <= Cardinality(S)
BY Counted, FS_Subset

LEMMA OneMore ==
  ASSUME NEW S \in SUBSET User, NEW u \in User
  PROVE  Cardinality(S \cup {u}) <= Cardinality(S) + 1
<1>1. IsFiniteSet(S) /\ Cardinality(S) \in Nat
  BY Counted
<1>2. Cardinality(S \cup {u}) = IF u \in S THEN Cardinality(S) ELSE Cardinality(S) + 1
  BY <1>1, FS_AddElement
<1> QED
  BY <1>1, <1>2

LEMMA AtMostTheSum ==
  ASSUME NEW S \in SUBSET User, NEW T \in SUBSET User
  PROVE  Cardinality(S \cup T) <= Cardinality(S) + Cardinality(T)
<1>1. /\ IsFiniteSet(S) /\ IsFiniteSet(T)
      /\ S \cap T \in SUBSET User
  BY Counted
<1>2. /\ Cardinality(S) \in Nat /\ Cardinality(T) \in Nat
      /\ Cardinality(S \cap T) \in Nat
  BY <1>1, Counted
<1>3. Cardinality(S \cup T) = Cardinality(S) + Cardinality(T) - Cardinality(S \cap T)
  BY <1>1, FS_Union
<1> QED
  BY <1>2, <1>3

-----------------------------------------------------------------------------
LEMMA TypeInit == Init => TypeOK
<1>1. 0 \in 0..Cardinality(User)
  BY Counted, UserAssumption, FS_CardinalityType
<1> QED
  BY <1>1 DEF Init, TypeOK

LEMMA RevokeType ==
  ASSUME TypeOK, NEW S, RevokeOffers(S)
  PROVE  offer' \in [User -> {"none", "PENDING", "LAPSED", "CLAIMED", "EXPIRED", "REVOKED"}]
BY DEF TypeOK, RevokeOffers

LEMMA WriteType ==
  ASSUME TypeOK, NEW S \in SUBSET User, NEW b \in BOOLEAN, WriteOffers(S, b)
  PROVE  /\ offer' \in [User -> {"none", "PENDING", "LAPSED", "CLAIMED", "EXPIRED", "REVOKED"}]
         /\ cutoff' \in SUBSET User /\ skipped' \in SUBSET User
         /\ decision' \in [User -> {"none", "revoke", "reactivate"}]
BY DEF TypeOK, WriteOffers

LEMMA AnswerType ==
  ASSUME TypeOK, NEW u \in User, NEW answer, Answer(u, answer)
  PROVE  /\ attending' \in SUBSET User /\ queue' \in SUBSET User /\ leaving' \in SUBSET User
         /\ offer' \in [User -> {"none", "PENDING", "LAPSED", "CLAIMED", "EXPIRED", "REVOKED"}]
         /\ rebuild' \in BOOLEAN
         /\ UNCHANGED <<cutoff, skipped, event, attendee_count, decision>>
<1>1. attending' \in SUBSET User /\ queue' \in SUBSET User /\ leaving' \in SUBSET User
  BY DEF TypeOK, Answer, SaveRsvp
<1>2. offer' \in [User -> {"none", "PENDING", "LAPSED", "CLAIMED", "EXPIRED", "REVOKED"}]
  <2>1. CASE answer = "YES" /\ u \in Unexpired
    BY <2>1 DEF TypeOK, Answer
  <2>2. CASE ~(answer = "YES" /\ u \in Unexpired)
    BY <2>2 DEF TypeOK, Answer
  <2> QED
    BY <2>1, <2>2
<1> QED
  BY <1>1, <1>2 DEF Answer, SaveRsvp, Recount

LEMMA TypeStep == TypeOK /\ [Next]_vars => TypeOK'
<1> SUFFICES ASSUME TypeOK, [Next]_vars PROVE TypeOK'
  OBVIOUS
<1> USE DEF people, offers, event, count
<1>0. CASE UNCHANGED vars
  BY <1>0 DEF vars, TypeOK
<1>1. ASSUME NEW u \in User, NEW answer \in {"YES", "MAYBE", "NO"}, Rsvp(u, answer)
      PROVE  TypeOK'
  BY <1>1, AnswerType DEF Rsvp, TypeOK
<1>2. ASSUME NEW u \in User, NEW answer \in {"YES", "MAYBE", "NO"}, RsvpAgain(u, answer)
      PROVE  TypeOK'
  BY <1>2, AnswerType DEF RsvpAgain, TypeOK
<1>3. ASSUME NEW u \in User, NEW answer \in {"YES", "MAYBE", "NO"}, OrganizerSetsRsvp(u, answer)
      PROVE  TypeOK'
  BY <1>3 DEF OrganizerSetsRsvp, SaveRsvp, Recount, TypeOK
<1>4. ASSUME NEW u \in User, ReadHasYes(u) PROVE TypeOK'
  BY <1>4 DEF ReadHasYes, TypeOK
<1>5. ASSUME NEW u \in User, OrganizerDeletesRsvp(u) PROVE TypeOK'
  BY <1>5 DEF OrganizerDeletesRsvp, Recount, TypeOK
<1>6. ASSUME NEW u \in User, JoinWaitlist(u) PROVE TypeOK'
  BY <1>6 DEF JoinWaitlist, TypeOK
<1>7. ASSUME NEW u \in User, LeaveWaitlist(u) PROVE TypeOK'
  BY <1>7, RevokeType DEF LeaveWaitlist, TypeOK
<1>8. ASSUME NEW u \in User, DeleteWaitlistEntry(u) PROVE TypeOK'
  BY <1>8, RevokeType DEF DeleteWaitlistEntry, TypeOK
<1>9. ASSUME NEW u \in User, OfferLapses(u) PROVE TypeOK'
  BY <1>9 DEF OfferLapses, TypeOK
<1>10. ASSUME NEW u \in User, CreateAdminOffer(u) PROVE TypeOK'
  BY <1>10, WriteType DEF CreateAdminOffer, TypeOK
<1>11. ASSUME NEW u \in User, ReadOffer(u) PROVE TypeOK'
  BY <1>11 DEF ReadOffer, TypeOK
<1>12. ASSUME NEW u \in User, FinishRevoke(u) PROVE TypeOK'
  BY <1>12 DEF FinishRevoke, TypeOK
<1>13. ASSUME NEW u \in User, FinishReactivate(u) PROVE TypeOK'
  BY <1>13 DEF FinishReactivate, TypeOK
<1>14. ASSUME NEW u \in User, AbandonDecision(u) PROVE TypeOK'
  BY <1>14 DEF AbandonDecision, TypeOK
<1>15. ASSUME Rebuild PROVE TypeOK'
  BY <1>15, Counted DEF Rebuild, Seats, TypeOK
<1>16. ASSUME Process PROVE TypeOK'
  <2>1. PICK S \in SUBSET Eligible : WriteOffers(S, past_cutoff)
    BY <1>16 DEF Process
  <2>2. S \in SUBSET User /\ past_cutoff \in BOOLEAN
    BY <2>1 DEF Eligible, TypeOK
  <2> QED
    BY <1>16, <2>1, <2>2, WriteType DEF Process, TypeOK
<1>17. ASSUME ExpireOffers PROVE TypeOK'
  BY <1>17 DEF ExpireOffers, TypeOK
<1>18. ASSUME CutoffPasses PROVE TypeOK'
  BY <1>18 DEF CutoffPasses, TypeOK
<1>19. ASSUME SwitchWaitlist PROVE TypeOK'
  BY <1>19, RevokeType DEF SwitchWaitlist, TypeOK
<1>20. ASSUME CancelEvent PROVE TypeOK'
  BY <1>20, RevokeType DEF CancelEvent, TypeOK
<1>21. ASSUME ReopenEvent PROVE TypeOK'
  BY <1>21 DEF ReopenEvent, TypeOK
<1>22. ASSUME NEW u \in User, RemoveFromWaitlist(u) PROVE TypeOK'
  BY <1>22, RevokeType DEF RemoveFromWaitlist, TypeOK
<1>23. ASSUME NEW u \in User, RemovalLost(u) PROVE TypeOK'
  BY <1>23 DEF RemovalLost, TypeOK
<1> QED
  BY <1>0, <1>1, <1>2, <1>3, <1>4, <1>5, <1>6, <1>7, <1>8, <1>9, <1>10, <1>11, <1>12, <1>13,
     <1>14, <1>15, <1>16, <1>17, <1>18, <1>19, <1>20, <1>21, <1>22, <1>23 DEF Next

(* Statuses stay statuses and the denormalized count stays one the event   *)
(* could have, in every step of RSVPs, queue and offers.                   *)
THEOREM TypeCorrect == Spec => []TypeOK
BY TypeInit, TypeStep, PTL DEF Spec

-----------------------------------------------------------------------------
(* The recount.  A step that touches neither who attends nor the count     *)
(* keeps what the count owes.                                              *)

LEMMA CountKept ==
  ASSUME StaleCountIsRebuilt, UNCHANGED <<attending, count>>
  PROVE  StaleCountIsRebuilt'
BY DEF StaleCountIsRebuilt, Seats, count

LEMMA CountStep == StaleCountIsRebuilt /\ [Next]_vars => StaleCountIsRebuilt'
<1> SUFFICES ASSUME StaleCountIsRebuilt, [Next]_vars PROVE StaleCountIsRebuilt'
  OBVIOUS
<1>1. ASSUME NEW u \in User, NEW answer \in {"YES", "MAYBE", "NO"},
             Rsvp(u, answer) \/ RsvpAgain(u, answer) \/ OrganizerSetsRsvp(u, answer)
      PROVE  StaleCountIsRebuilt'
  <2>1. rebuild' = TRUE
    BY <1>1 DEF Rsvp, RsvpAgain, OrganizerSetsRsvp, Answer, SaveRsvp, Recount
  <2> QED
    BY <2>1 DEF StaleCountIsRebuilt
<1>2. ASSUME NEW u \in User, OrganizerDeletesRsvp(u) PROVE StaleCountIsRebuilt'
  BY <1>2 DEF OrganizerDeletesRsvp, Recount, StaleCountIsRebuilt
<1>3. ASSUME Rebuild PROVE StaleCountIsRebuilt'
  BY <1>3 DEF Rebuild, StaleCountIsRebuilt, Seats, people
<1>4. CASE \/ UNCHANGED vars
           \/ Process \/ ExpireOffers \/ CutoffPasses \/ SwitchWaitlist \/ CancelEvent \/ ReopenEvent
  <2>1. UNCHANGED <<attending, count>>
    BY <1>4 DEF vars, Process, ExpireOffers, CutoffPasses, SwitchWaitlist, CancelEvent,
                ReopenEvent, people
  <2> QED
    BY <2>1, CountKept
<1>5. ASSUME NEW u \in User,
             \/ RemoveFromWaitlist(u) \/ RemovalLost(u)
             \/ ReadHasYes(u) \/ JoinWaitlist(u) \/ LeaveWaitlist(u) \/ DeleteWaitlistEntry(u)
             \/ OfferLapses(u) \/ CreateAdminOffer(u) \/ ReadOffer(u)
             \/ FinishRevoke(u) \/ FinishReactivate(u) \/ AbandonDecision(u)
      PROVE  StaleCountIsRebuilt'
  <2>1. UNCHANGED <<attending, count>>
    BY <1>5 DEF RemoveFromWaitlist, RemovalLost, ReadHasYes, JoinWaitlist, LeaveWaitlist, DeleteWaitlistEntry, OfferLapses,
                CreateAdminOffer, ReadOffer, FinishRevoke, FinishReactivate, AbandonDecision, people
  <2> QED
    BY <2>1, CountKept
<1> QED
  BY <1>1, <1>2, <1>3, <1>4, <1>5 DEF Next

(* The count a capacity decision may be wrong by is always about to be     *)
(* recounted: no RSVP, edit or deletion changes who attends silently.      *)
THEOREM StaleCountNeverStays == Spec => []StaleCountIsRebuilt
<1>1. Init => StaleCountIsRebuilt
  BY FS_EmptySet DEF Init, StaleCountIsRebuilt, Seats
<1> QED
  BY <1>1, CountStep, PTL DEF Spec

-----------------------------------------------------------------------------
(* The cutoff batch: only the processor and the organizer's own offer      *)
(* write cutoff, and only the first adds to it.                            *)
LEMMA CutoffStep ==
  [Next]_vars => \A u \in User : u \in cutoff' \ cutoff => ~cutoff_batch
<1> SUFFICES ASSUME [Next]_vars, NEW u \in User, u \in cutoff' \ cutoff PROVE ~cutoff_batch
  OBVIOUS
<1>1. CASE Process
  BY <1>1 DEF Process, WriteOffers, CutoffBatchSent
<1>2. ASSUME NEW v \in User, CreateAdminOffer(v) PROVE FALSE
  BY <1>2 DEF CreateAdminOffer, WriteOffers
<1>3. ASSUME cutoff' = cutoff PROVE FALSE
  BY <1>3
<1>4. ASSUME NEW v \in User, NEW answer \in {"YES", "MAYBE", "NO"},
             Rsvp(v, answer) \/ RsvpAgain(v, answer) \/ OrganizerSetsRsvp(v, answer)
      PROVE  cutoff' = cutoff
  BY <1>4 DEF Rsvp, RsvpAgain, OrganizerSetsRsvp, Answer, offers
<1>5. ASSUME NEW v \in User,
             \/ RemoveFromWaitlist(v) \/ RemovalLost(v)
             \/ ReadHasYes(v) \/ OrganizerDeletesRsvp(v)
             \/ JoinWaitlist(v) \/ LeaveWaitlist(v) \/ DeleteWaitlistEntry(v)
             \/ OfferLapses(v) \/ ReadOffer(v)
             \/ FinishRevoke(v) \/ FinishReactivate(v) \/ AbandonDecision(v)
      PROVE  cutoff' = cutoff
  BY <1>5 DEF RemoveFromWaitlist, RemovalLost, ReadHasYes, OrganizerDeletesRsvp, JoinWaitlist, LeaveWaitlist, DeleteWaitlistEntry,
              OfferLapses, ReadOffer, FinishRevoke, FinishReactivate, AbandonDecision, offers
<1>6. ASSUME \/ UNCHANGED vars \/ Rebuild \/ ExpireOffers
             \/ CutoffPasses \/ SwitchWaitlist \/ CancelEvent \/ ReopenEvent
      PROVE  cutoff' = cutoff
  BY <1>6 DEF vars, Rebuild, ExpireOffers, CutoffPasses, SwitchWaitlist, CancelEvent, ReopenEvent,
              offers
<1> QED
  BY <1>1, <1>2, <1>3, <1>4, <1>5, <1>6 DEF Next

(* However often the hourly task or a nudge runs past the cutoff date, the *)
(* last-chance offers go out in one batch only.                            *)
THEOREM OneCutoffBatch == Spec => CutoffBatchOnce
<1>1. [Next]_vars => [\A u \in User : u \in cutoff' \ cutoff => ~cutoff_batch]_vars
  BY CutoffStep
<1> QED
  BY <1>1, PTL DEF Spec, CutoffBatchOnce

-----------------------------------------------------------------------------
(* Reservations.  TypeOK strengthens the invariant: it makes the sets of   *)
(* attendees and of reserving offers finite, which is all the counting     *)
(* needs.                                                                  *)

LEMMA SeatSets ==
  ASSUME TypeOK
  PROVE  /\ attending \in SUBSET User /\ Held \in SUBSET User
         /\ Seats \in Nat /\ Cardinality(Held) \in Nat
         /\ attendee_count \in Nat
<1>1. attending \in SUBSET User /\ Held \in SUBSET User
  BY DEF TypeOK, Held, Unexpired
<1>2. Cardinality(User) \in Nat
  BY UserAssumption, FS_CardinalityType
<1> QED
  BY <1>1, <1>2, Counted DEF Seats, TypeOK

(* A step that seats nobody and reserves nothing new. *)
LEMMA FewerHold ==
  ASSUME TypeOK, ReservedSeatsHold,
         attending' \subseteq attending, Held' \subseteq Held, unchecked' = FALSE => ~unchecked
  PROVE  ReservedSeatsHold'
<1> SUFFICES ASSUME EffectiveCapacity # 0, ~unchecked'
             PROVE  Seats' + Cardinality(Held') <= EffectiveCapacity
  BY DEF ReservedSeatsHold
<1>1. /\ attending \in SUBSET User /\ Held \in SUBSET User
      /\ Seats \in Nat /\ Cardinality(Held) \in Nat
  BY SeatSets
<1>2. attending' \in SUBSET User /\ Held' \in SUBSET User
  BY <1>1
<1>3. /\ Cardinality(attending') \in Nat /\ Cardinality(Held') \in Nat
      /\ Cardinality(attending') <= Cardinality(attending)
      /\ Cardinality(Held') <= Cardinality(Held)
  BY <1>1, <1>2, Counted, Smaller
<1>4. Seats + Cardinality(Held) <= EffectiveCapacity
  BY DEF ReservedSeatsHold
<1>5. Seats' = Cardinality(attending') /\ Seats = Cardinality(attending)
  BY DEF Seats
<1> QED
  BY <1>1, <1>3, <1>4, <1>5, SizesAssumption

(* A seat for u, whose own reservation it uses up, when there was room. *)
LEMMA SeatTaken ==
  ASSUME TypeOK, NEW u \in User, RoomFor(u),
         attending' = attending \cup {u}, Held' \subseteq Held \ {u}
  PROVE  ReservedSeatsHold'
<1> SUFFICES ASSUME EffectiveCapacity # 0
             PROVE  Seats' + Cardinality(Held') <= EffectiveCapacity
  BY DEF ReservedSeatsHold
<1>1. attending \in SUBSET User /\ Held \ {u} \in SUBSET User /\ Held' \in SUBSET User
  BY SeatSets
<1>2. /\ Cardinality(Held \ {u}) \in Nat /\ Cardinality(Held') \in Nat
      /\ Cardinality(Held') <= Cardinality(Held \ {u})
  BY <1>1, Counted, Smaller
<1>3. Seats \in Nat /\ Seats' \in Nat /\ Seats' <= Seats + 1
  <2>1. attending' \in SUBSET User
    BY <1>1
  <2> QED
    BY <1>1, <2>1, Counted, OneMore DEF Seats
<1>4. Seats + Cardinality(Held \ {u}) < EffectiveCapacity
  BY DEF RoomFor
<1> QED
  BY <1>2, <1>3, <1>4, SizesAssumption

(* A reservation for u when there was room beside all the others. *)
LEMMA SeatReserved ==
  ASSUME TypeOK, NEW u \in User, RoomForOffer,
         attending' = attending, Held' \subseteq Held \cup {u}
  PROVE  ReservedSeatsHold'
<1> SUFFICES ASSUME EffectiveCapacity # 0
             PROVE  Seats' + Cardinality(Held') <= EffectiveCapacity
  BY DEF ReservedSeatsHold
<1>1. /\ Held \in SUBSET User /\ Held \cup {u} \in SUBSET User /\ Held' \in SUBSET User
      /\ Seats \in Nat /\ Cardinality(Held) \in Nat
  BY SeatSets
<1>2. /\ Cardinality(Held') \in Nat /\ Cardinality(Held \cup {u}) \in Nat
      /\ Cardinality(Held') <= Cardinality(Held \cup {u})
      /\ Cardinality(Held \cup {u}) <= Cardinality(Held) + 1
  BY <1>1, Counted, Smaller, OneMore
<1>3. Seats' = Seats
  BY DEF Seats
<1>4. Seats + Cardinality(Held) < EffectiveCapacity
  BY DEF RoomForOffer
<1> QED
  BY <1>1, <1>2, <1>3, <1>4, SizesAssumption

LEMMA AnswerHolds ==
  ASSUME TypeOK, NEW u \in User, NEW answer \in {"YES", "MAYBE", "NO"}, Answer(u, answer)
  PROVE  /\ Held' \subseteq Held
         /\ answer = "YES" => Held' \subseteq Held \ {u}
<1>1. CASE answer = "YES" /\ u \in Unexpired
  <2>1. \A v \in User : offer'[v] = "PENDING" => offer[v] = "PENDING" /\ v # u
    BY <1>1 DEF Answer, TypeOK
  <2> QED
    BY <2>1 DEF Answer, Held, Unexpired
<1>2. CASE ~(answer = "YES" /\ u \in Unexpired)
  BY <1>2 DEF Answer, Held, Unexpired
<1> QED
  BY <1>1, <1>2

LEMMA RsvpStep ==
  ASSUME TypeOK, ReservedSeatsHold,
         NEW u \in User, NEW answer \in {"YES", "MAYBE", "NO"}, Answer(u, answer),
         unchecked' = (unchecked \/ (answer = "YES" /\ u \notin attending /\ ~RoomFor(u)))
  PROVE  ReservedSeatsHold'
<1>1. unchecked \in BOOLEAN
  BY DEF TypeOK
<1>2. CASE answer # "YES" \/ u \in attending
  <2>1. attending' \subseteq attending
    BY <1>2 DEF Answer, SaveRsvp
  <2> QED
    BY <1>1, <2>1, AnswerHolds, FewerHold
<1>3. CASE answer = "YES" /\ u \notin attending /\ RoomFor(u)
  <2>1. attending' = attending \cup {u}
    BY <1>3 DEF Answer, SaveRsvp
  <2> QED
    BY <1>3, <2>1, AnswerHolds, SeatTaken
<1>4. CASE answer = "YES" /\ u \notin attending /\ ~RoomFor(u)
  BY <1>4 DEF ReservedSeatsHold
<1> QED
  BY <1>2, <1>3, <1>4

LEMMA OrganizerStep ==
  ASSUME TypeOK, ReservedSeatsHold,
         NEW u \in User, NEW answer \in {"YES", "MAYBE", "NO"}, OrganizerSetsRsvp(u, answer)
  PROVE  ReservedSeatsHold'
<1>1. Held' \subseteq Held
  BY DEF OrganizerSetsRsvp, offers, Held, Unexpired
<1>2. unchecked \in BOOLEAN
  BY DEF TypeOK
<1>3. CASE answer # "YES" \/ u \in attending
  <2>1. attending' \subseteq attending /\ unchecked' = unchecked
    BY <1>2, <1>3 DEF OrganizerSetsRsvp, SaveRsvp
  <2> QED
    BY <1>1, <1>2, <2>1, FewerHold
<1>4. CASE answer = "YES" /\ u \notin attending /\ RoomForOffer
  <2>1. attending' = attending \cup {u}
    BY <1>4 DEF OrganizerSetsRsvp, SaveRsvp
  <2>2. attending \in SUBSET User /\ Held \in SUBSET User /\ Held' \in SUBSET User
    BY <1>1, SeatSets
  <2>3. Seats' <= Seats + 1 /\ Seats' \in Nat /\ Seats \in Nat
    BY <2>1, <2>2, Counted, OneMore DEF Seats
  <2>4. /\ Cardinality(Held') \in Nat /\ Cardinality(Held) \in Nat
        /\ Cardinality(Held') <= Cardinality(Held)
    BY <1>1, <2>2, Counted, Smaller
  <2> QED
    BY <1>4, <2>3, <2>4, SizesAssumption DEF RoomForOffer, ReservedSeatsHold
<1>5. CASE answer = "YES" /\ u \notin attending /\ ~RoomForOffer
  BY <1>5 DEF OrganizerSetsRsvp, ReservedSeatsHold
<1> QED
  BY <1>3, <1>4, <1>5

(* A batch before the cutoff fits beside what is taken and held, as far as *)
(* the count is right; the cutoff batch reserves nothing.                  *)
LEMMA BatchStep ==
  ASSUME TypeOK, ReservedSeatsHold, Process
  PROVE  ReservedSeatsHold'
<1>1. PICK S \in SUBSET Eligible :
        /\ ~past_cutoff => Cardinality(S) <= BatchCount
        /\ WriteOffers(S, past_cutoff)
  BY DEF Process
<1>2. S \in SUBSET User /\ Held \in SUBSET User
  BY <1>1, SeatSets DEF Eligible, TypeOK
<1>3. attending' = attending /\ unchecked' = (unchecked \/ attendee_count < Seats)
  BY DEF Process, people
<1>4. unchecked \in BOOLEAN /\ past_cutoff \in BOOLEAN
  BY DEF TypeOK
<1>5. \A v \in User : offer'[v] = "PENDING" => v \in S \/ offer[v] = "PENDING"
  BY <1>1 DEF WriteOffers
<1>6. CASE past_cutoff
  <2>1. Held' \subseteq Held
    BY <1>1, <1>5, <1>6 DEF WriteOffers, Held, Unexpired
  <2> QED
    BY <1>3, <1>4, <2>1, FewerHold
<1>7. CASE ~past_cutoff
  <2>1. Held' \subseteq Held \cup S
    BY <1>1, <1>5, <1>7 DEF WriteOffers, Held, Unexpired
  <2> SUFFICES ASSUME EffectiveCapacity # 0, ~unchecked'
               PROVE  Seats' + Cardinality(Held') <= EffectiveCapacity
    BY DEF ReservedSeatsHold
  <2>2. Held' \in SUBSET User /\ Held \cup S \in SUBSET User
    BY <1>2, <2>1
  <2>3. /\ Cardinality(Held') <= Cardinality(Held \cup S)
        /\ Cardinality(Held \cup S) <= Cardinality(Held) + Cardinality(S)
        /\ Cardinality(Held') \in Nat /\ Cardinality(Held \cup S) \in Nat
        /\ Cardinality(S) \in Nat
    BY <1>2, <2>1, <2>2, Counted, Smaller, AtMostTheSum
  <2>4. BatchCount <= Available /\ BatchCount \in Int
    BY SeatSets, SizesAssumption DEF BatchCount, Available
  <2>5. ~(attendee_count < Seats) /\ Seats' = Seats
    BY <1>3, <1>4 DEF Seats
  <2> QED
    BY <1>1, <1>7, <2>3, <2>4, <2>5, SeatSets, SizesAssumption DEF Available
<1> QED
  BY <1>4, <1>6, <1>7

LEMMA SeatsStep == TypeOK /\ ReservedSeatsHold /\ [Next]_vars => ReservedSeatsHold'
<1> SUFFICES ASSUME TypeOK, ReservedSeatsHold, [Next]_vars PROVE ReservedSeatsHold'
  OBVIOUS
<1>1. ASSUME NEW u \in User, NEW answer \in {"YES", "MAYBE", "NO"}, Rsvp(u, answer)
      PROVE  ReservedSeatsHold'
  <2>1. unchecked' = (unchecked \/ (answer = "YES" /\ u \notin attending /\ ~RoomFor(u)))
    BY <1>1 DEF Rsvp
  <2> QED
    BY <1>1, <2>1, RsvpStep DEF Rsvp
<1>2. ASSUME NEW u \in User, NEW answer \in {"YES", "MAYBE", "NO"}, RsvpAgain(u, answer)
      PROVE  ReservedSeatsHold'
  BY <1>2, RsvpStep DEF RsvpAgain
<1>3. ASSUME NEW u \in User, NEW answer \in {"YES", "MAYBE", "NO"}, OrganizerSetsRsvp(u, answer)
      PROVE  ReservedSeatsHold'
  BY <1>3, OrganizerStep
<1>4. CASE Process
  BY <1>4, BatchStep
<1>5. ASSUME NEW u \in User, CreateAdminOffer(u) PROVE ReservedSeatsHold'
  <2>1. Held' \subseteq Held \cup {u}
    BY <1>5 DEF CreateAdminOffer, WriteOffers, Held, Unexpired
  <2> QED
    BY <1>5, <2>1, SeatReserved DEF CreateAdminOffer, people
<1>6. ASSUME NEW u \in User, FinishReactivate(u) PROVE ReservedSeatsHold'
  <2>1. Held' \subseteq Held \cup {u}
    BY <1>6 DEF FinishReactivate, Held, Unexpired, TypeOK
  <2> QED
    BY <1>6, <2>1, SeatReserved DEF FinishReactivate, people
<1>7. ASSUME attending' \subseteq attending, Held' \subseteq Held, unchecked' = unchecked
      PROVE  ReservedSeatsHold'
  BY <1>7, FewerHold DEF TypeOK
<1>8. ASSUME NEW u \in User,
             \/ RemoveFromWaitlist(u) \/ LeaveWaitlist(u) \/ DeleteWaitlistEntry(u)
             \/ OfferLapses(u) \/ FinishRevoke(u)
      PROVE  ReservedSeatsHold'
  <2>1. \A v \in User : offer'[v] = "PENDING" => offer[v] = "PENDING"
    BY <1>8 DEF RemoveFromWaitlist, LeaveWaitlist, DeleteWaitlistEntry, OfferLapses, FinishRevoke, RevokeOffers, TypeOK
  <2>2. cutoff' = cutoff /\ attending' = attending /\ unchecked' = unchecked
    BY <1>8 DEF RemoveFromWaitlist, LeaveWaitlist, DeleteWaitlistEntry, OfferLapses, FinishRevoke, people
  <2> QED
    BY <1>7, <2>1, <2>2 DEF Held, Unexpired
<1>9. CASE ExpireOffers \/ SwitchWaitlist \/ CancelEvent
  <2>1. \A v \in User : offer'[v] = "PENDING" => offer[v] = "PENDING"
    BY <1>9 DEF ExpireOffers, SwitchWaitlist, CancelEvent, RevokeOffers
  <2>2. cutoff' = cutoff /\ attending' = attending /\ unchecked' = unchecked
    BY <1>9 DEF ExpireOffers, SwitchWaitlist, CancelEvent, people
  <2> QED
    BY <1>7, <2>1, <2>2 DEF Held, Unexpired
<1>10. CASE Rebuild \/ CutoffPasses \/ ReopenEvent \/ UNCHANGED vars
  BY <1>7, <1>10 DEF Rebuild, CutoffPasses, ReopenEvent, vars, people, offers, Held, Unexpired
<1>11. ASSUME NEW u \in User,
              \/ RemovalLost(u) \/ ReadHasYes(u) \/ OrganizerDeletesRsvp(u) \/ JoinWaitlist(u)
              \/ ReadOffer(u) \/ AbandonDecision(u)
       PROVE  ReservedSeatsHold'
  <2>1. Held' = Held /\ attending' \subseteq attending /\ unchecked' = unchecked
    BY <1>11 DEF RemovalLost, ReadHasYes, OrganizerDeletesRsvp, JoinWaitlist, ReadOffer, AbandonDecision,
                 people, offers, Held, Unexpired
  <2> QED
    BY <1>7, <2>1
<1> QED
  BY <1>1, <1>2, <1>3, <1>4, <1>5, <1>6, <1>8, <1>9, <1>10, <1>11 DEF Next

(* A reserved seat is there for its holder: under every interleaving of    *)
(* RSVPs, offers and revocations, attendees and reserving offers fit the   *)
(* capacity, until one of the paths that skip the locked check is used.    *)
THEOREM ReservationsHold == Spec => []ReservedSeatsHold
<1>1. Init => ReservedSeatsHold
  <2> SUFFICES ASSUME Init PROVE Seats = 0 /\ Cardinality(Held) = 0
    BY SizesAssumption DEF ReservedSeatsHold
  <2>1. attending = {} /\ Held = {}
    BY DEF Init, Held, Unexpired
  <2> QED
    BY <2>1, FS_EmptySet DEF Seats
<1>2. TypeOK /\ ReservedSeatsHold /\ [Next]_vars => TypeOK' /\ ReservedSeatsHold'
  BY TypeStep, SeatsStep
<1> QED
  BY <1>1, <1>2, TypeInit, PTL DEF Spec
=============================================================================
