------------------------------ MODULE Waitlist ------------------------------
(***************************************************************************)
(* RSVPs and the advanced waitlist of an event without tickets.  When a    *)
(* seat is free the processor offers it to people in the queue; a pending, *)
(* unexpired offer reserves a seat for its holder until it is claimed by   *)
(* an RSVP, expires, or is revoked.                                        *)
(*                                                                         *)
(* A handler that holds the Event row lock across its reads and writes is  *)
(* one action.  Those that read first and write later without it are split:*)
(* an RSVP by someone it believes is attending, and the organizer's revoke *)
(* and reactivate.  So is what an RSVP leaves to be done once it has       *)
(* committed: taking its user out of the queue.  Event.attendee_count is a copy of the number of seats  *)
(* taken that a background task refreshes.  Of the offers a person has had *)
(* only the latest is kept, and whether an earlier one was REVOKED.  Who   *)
(* is selected is left open: FIFO order and the lottery are both covered.  *)
(* NO and MAYBE are one status here; they differ in what answering does.   *)
(***************************************************************************)
EXTENDS Integers, FiniteSets

CONSTANTS User,
          EffectiveCapacity,    \* event.effective_capacity, 0 for no limit
          BatchSize,            \* event.waitlist_batch_size, 0 for "all that fit"
          HasCutoff,            \* event.waitlist_cutoff_date is set
          Overriding,           \* users whose invitation overrides max_attendees
          Elsewhere,            \* users with a PENDING or REVOKED offer of another event
          MaxInFlight,          \* bound: unlocked requests under way at once
          MaxLeaving            \* bound: users still to be taken out of the queue

ASSUME UserAssumption ==
  IsFiniteSet(User) /\ Overriding \subseteq User /\ Elsewhere \subseteq User
ASSUME SizesAssumption ==
  {EffectiveCapacity, BatchSize, MaxInFlight, MaxLeaving} \subseteq Nat

VARIABLES
  attending,      \* users whose EventRSVP is YES
  queue,          \* users with an EventWaitList row
  leaving,        \* users whose committed RSVP has yet to take them out of it
  offer,          \* status of each user's latest WaitlistOffer; a row that is
                  \* still PENDING past its expires_at is "LAPSED" here
  cutoff,         \* users whose offer is of the cutoff batch
  skipped,        \* users with an earlier REVOKED offer
  status,         \* event.status
  waitlist_open,  \* event.waitlist_open
  past_cutoff,    \* the event's waitlist_cutoff_date has passed
  cutoff_batch,   \* a WaitlistOffer of the event has is_cutoff_batch
  attendee_count, \* Event.attendee_count
  rebuild,        \* a build_attendee_visibility_flags task is due
  seen,           \* users whose RSVP request has read that they attend
  decision,       \* the organizer's request that has read the user's offer
  unchecked       \* history: a seat was given past the locked check

people == <<attending, queue, leaving>>
offers == <<offer, cutoff, skipped>>
event == <<status, waitlist_open, past_cutoff, cutoff_batch>>
count == <<attendee_count, rebuild>>
vars == <<people, offers, event, count, seen, decision, unchecked>>

TypeOK ==
  /\ attending \in SUBSET User
  /\ queue \in SUBSET User
  /\ leaving \in SUBSET User
  /\ offer \in [User -> {"none", "PENDING", "LAPSED", "CLAIMED", "EXPIRED", "REVOKED"}]
  /\ cutoff \in SUBSET User
  /\ skipped \in SUBSET User
  /\ status \in {"OPEN", "CANCELLED"}
  /\ waitlist_open \in BOOLEAN /\ past_cutoff \in BOOLEAN /\ cutoff_batch \in BOOLEAN
  /\ attendee_count \in 0..Cardinality(User)
  /\ rebuild \in BOOLEAN
  /\ seen \in SUBSET User
  /\ decision \in [User -> {"none", "revoke", "reactivate"}]
  /\ unchecked \in BOOLEAN

Init ==
  /\ attending = {} /\ queue = {} /\ leaving = {}
  /\ offer = [u \in User |-> "none"]
  /\ cutoff = {} /\ skipped = {}
  /\ status = "OPEN" /\ waitlist_open = TRUE
  /\ past_cutoff = FALSE /\ cutoff_batch = FALSE
  /\ attendee_count = 0 /\ rebuild = FALSE
  /\ seen = {}
  /\ decision = [u \in User |-> "none"]
  /\ unchecked = FALSE

-----------------------------------------------------------------------------
(* Capacity *)

Unexpired == {u \in User : offer[u] = "PENDING"}
Pending == {u \in User : offer[u] \in {"PENDING", "LAPSED"}}

(* Offers that reserve a seat. *)
Held == Unexpired \ cutoff

Seats == Cardinality(attending)

(* _assert_capacity for u, whose own offer is netted out, as it counts     *)
(* under the Event lock; and a form that trusts the denormalized count.    *)
RoomForByCachedCount(u) ==
  EffectiveCapacity # 0 => attendee_count + Cardinality(Held \ {u}) < EffectiveCapacity

RoomFor(u) ==
  EffectiveCapacity # 0 => Seats + Cardinality(Held \ {u}) < EffectiveCapacity

(* The check of create_admin_offer and reactivate_admin_offer. *)
RoomForOffer ==
  EffectiveCapacity # 0 => Seats + Cardinality(Held) < EffectiveCapacity

(* What process_waitlist_for_event has left to offer. *)
Available == EffectiveCapacity - attendee_count - Cardinality(Held)

-----------------------------------------------------------------------------
(* RSVPs *)

(* Saving or deleting an EventRSVP dispatches the task that recounts the   *)
(* attendees; and a form of it that does so only when a seat is taken.     *)
RecountWhenTaken(gone) == rebuild' = (rebuild \/ gone = {})
Recount(gone) == rebuild' = TRUE

(* Deleting the EventWaitList rows of S revokes their pending offers. *)
RevokeOffers(S) ==
  offer' = [u \in User |-> IF u \in S \cap Pending THEN "REVOKED" ELSE offer[u]]

(* Saving an EventRSVP seats the user or not, and after the commit of YES  *)
(* and NO its user is to leave the queue; MAYBE stays.                     *)
SaveRsvp(u, answer) ==
  /\ attending' = IF answer = "YES" THEN attending \cup {u} ELSE attending \ {u}
  /\ Recount(attending \ attending')
  /\ leaving' = IF answer \in {"YES", "NO"} THEN leaving \cup {u} ELSE leaving
  /\ Cardinality(leaving') <= MaxLeaving

(* What answering does: YES claims the user's live offer, if there is one, *)
(* and then leaves the queue at once.                                      *)
Answer(u, answer) ==
  /\ SaveRsvp(u, answer)
  /\ IF answer = "YES" /\ u \in Unexpired
     THEN /\ offer' = [offer EXCEPT ![u] = "CLAIMED"]
          /\ queue' = queue \ {u}
     ELSE UNCHANGED <<offer, queue>>
  /\ UNCHANGED <<cutoff, skipped, event, attendee_count, decision>>

InFlight == Cardinality(seen) + Cardinality({u \in User : decision[u] # "none"})

(* EventManager.rsvp by a user who does not attend: an open event, and for *)
(* YES a capacity check under the Event lock.                              *)
Rsvp(u, answer) ==
  /\ u \notin attending
  /\ status = "OPEN"
  /\ answer = "YES" /\ u \notin Overriding => RoomFor(u)
  /\ Answer(u, answer)
  /\ unchecked' = (unchecked \/ (answer = "YES" /\ ~RoomFor(u)))
  /\ UNCHANGED seen

(* EventManager.rsvp by one who does, as an unlocked read says: every      *)
(* check is bypassed ...                                                   *)
ReadHasYes(u) ==
  /\ u \in attending \ seen
  /\ InFlight < MaxInFlight
  /\ seen' = seen \cup {u}
  /\ UNCHANGED <<people, offers, event, count, decision, unchecked>>

(* ... and the answer is written whatever the RSVP is by then. *)
RsvpAgain(u, answer) ==
  /\ u \in seen
  /\ seen' = seen \ {u}
  /\ Answer(u, answer)
  /\ unchecked' = (unchecked \/ (answer = "YES" /\ u \notin attending /\ ~RoomFor(u)))

(* create_rsvp and update_rsvp by an organizer: no check, no claim. *)
OrganizerSetsRsvp(u, answer) ==
  /\ SaveRsvp(u, answer)
  /\ unchecked' = (unchecked \/ (answer = "YES" /\ u \notin attending /\ ~RoomForOffer))
  /\ UNCHANGED <<queue, offers, event, attendee_count, seen, decision>>

(* delete_rsvp *)
OrganizerDeletesRsvp(u) ==
  /\ u \in attending
  /\ attending' = attending \ {u}
  /\ Recount({u})
  /\ UNCHANGED <<queue, leaving, offers, event, attendee_count, seen, decision, unchecked>>

(* build_attendee_visibility_flags counts and saves under the Event lock;  *)
(* and a form of it that adds to what is stored.                           *)
RebuildByAdding ==
  /\ rebuild
  /\ rebuild' = FALSE
  /\ attendee_count' = attendee_count + Seats
  /\ UNCHANGED <<people, offers, event, seen, decision, unchecked>>

Rebuild ==
  /\ rebuild
  /\ rebuild' = FALSE
  /\ attendee_count' = Seats
  /\ UNCHANGED <<people, offers, event, seen, decision, unchecked>>

-----------------------------------------------------------------------------
(* The queue *)

(* join_waitlist: only when capacity is what keeps the user out. *)
JoinWaitlist(u) ==
  /\ waitlist_open /\ status = "OPEN"
  /\ u \notin queue
  /\ u \notin Overriding /\ ~RoomFor(u)
  /\ queue' = queue \cup {u}
  /\ UNCHANGED <<attending, leaving, offers, event, count, seen, decision, unchecked>>

(* remove_user_from_waitlist, on the commit of an RSVP: whatever became of *)
(* the RSVP and the queue since.  Several RSVPs of a user may have left it *)
(* to be done, so it may be due again.                                     *)
RemoveFromWaitlist(u) ==
  /\ u \in leaving
  /\ leaving' \in {leaving, leaving \ {u}}
  /\ queue' = queue \ {u}
  /\ RevokeOffers({u} \cap queue)
  /\ UNCHANGED <<attending, cutoff, skipped, event, count, seen, decision, unchecked>>

(* The process dies between the commit and its callback. *)
RemovalLost(u) ==
  /\ u \in leaving
  /\ leaving' = leaving \ {u}
  /\ UNCHANGED <<attending, queue, offers, event, count, seen, decision, unchecked>>

(* leave_waitlist: a live offer is given up as EXPIRED, a lapsed one is    *)
(* revoked by the deletion of the queue entry.                             *)
LeaveWaitlist(u) ==
  /\ waitlist_open
  /\ u \in queue \cup Unexpired
  /\ queue' = queue \ {u}
  /\ IF u \in Unexpired
     THEN offer' = [offer EXCEPT ![u] = "EXPIRED"]
     ELSE RevokeOffers({u})
  /\ UNCHANGED <<attending, leaving, cutoff, skipped, event, count, seen, decision, unchecked>>

(* delete_waitlist_entry *)
DeleteWaitlistEntry(u) ==
  /\ u \in queue
  /\ queue' = queue \ {u}
  /\ RevokeOffers({u})
  /\ UNCHANGED <<attending, leaving, cutoff, skipped, event, count, seen, decision, unchecked>>

-----------------------------------------------------------------------------
(* Offers *)

(* A new row becomes the latest offer of everyone in S.  A request that    *)
(* had read an earlier row of theirs has lost it.                          *)
WriteOffers(S, of_cutoff) ==
  /\ offer' = [u \in User |-> IF u \in S THEN "PENDING" ELSE offer[u]]
  /\ cutoff' = IF of_cutoff THEN cutoff \cup S ELSE cutoff \ S
  /\ skipped' = skipped \cup {u \in S : offer[u] = "REVOKED"}
  /\ decision' = [u \in User |-> IF u \in S THEN "none" ELSE decision[u]]

(* Who the processor passes over: the two conditions of its exclude() are  *)
(* looked up each on its own, so an offer of this event and a PENDING or   *)
(* REVOKED one of any event are enough.                                    *)
PassedOver(u) ==
  /\ offer[u] # "none"
  /\ offer[u] \in {"PENDING", "LAPSED", "REVOKED"} \/ u \in skipped \cup Elsewhere

Eligible == {u \in queue : ~PassedOver(u)}

(* How many a batch takes, before the cutoff. *)
BatchCount ==
  IF BatchSize # 0 /\ BatchSize < Available THEN BatchSize ELSE Available

(* The cutoff batch exists; and a form that looks for pending offers of it.*)
CutoffBatchPending == past_cutoff /\ cutoff \cap Pending # {}
CutoffBatchSent == past_cutoff /\ cutoff_batch

(* process_waitlist_for_event, under the Event lock. *)
Process ==
  /\ waitlist_open
  /\ Available > 0
  /\ ~CutoffBatchSent
  /\ \E S \in SUBSET Eligible :
       /\ S # {}
       /\ IF past_cutoff THEN S = Eligible
          ELSE /\ Cardinality(S) <= BatchCount
               /\ Cardinality(S) < BatchCount => S = Eligible
       /\ WriteOffers(S, past_cutoff)
  /\ cutoff_batch' = (cutoff_batch \/ past_cutoff)
  /\ unchecked' = (unchecked \/ attendee_count < Seats)
  /\ UNCHANGED <<people, status, waitlist_open, past_cutoff, count, seen>>

(* expires_at passes; the hourly sweep makes it explicit. *)
OfferLapses(u) ==
  /\ u \in Unexpired
  /\ offer' = [offer EXCEPT ![u] = "LAPSED"]
  /\ UNCHANGED <<people, cutoff, skipped, event, count, seen, decision, unchecked>>

ExpireOffers ==
  /\ Pending # Unexpired
  /\ offer' = [u \in User |-> IF offer[u] = "LAPSED" THEN "EXPIRED" ELSE offer[u]]
  /\ UNCHANGED <<people, cutoff, skipped, event, count, seen, decision, unchecked>>

(* create_admin_offer, under the Event lock, for someone in the queue. *)
CreateAdminOffer(u) ==
  /\ u \in queue \ Pending
  /\ RoomForOffer
  /\ WriteOffers({u}, FALSE)
  /\ UNCHANGED <<people, event, count, seen, unchecked>>

(* revoke_waitlist_offer and reactivate_waitlist_offer read the offer with *)
(* no lock ...                                                             *)
ReadOffer(u) ==
  /\ decision[u] = "none"
  /\ InFlight < MaxInFlight
  /\ \/ u \in Pending /\ decision' = [decision EXCEPT ![u] = "revoke"]
     \/ /\ offer[u] \in {"EXPIRED", "REVOKED"}
        /\ decision' = [decision EXCEPT ![u] = "reactivate"]
  /\ UNCHANGED <<people, offers, event, count, seen, unchecked>>

(* ... the one saves REVOKED, *)
FinishRevoke(u) ==
  /\ decision[u] = "revoke"
  /\ offer' = [offer EXCEPT ![u] = "REVOKED"]
  /\ decision' = [decision EXCEPT ![u] = "none"]
  /\ UNCHANGED <<people, cutoff, skipped, event, count, seen, unchecked>>

(* the other locks event and offer, checks the capacity and saves PENDING. *)
FinishReactivate(u) ==
  /\ decision[u] = "reactivate"
  /\ RoomForOffer
  /\ offer' = [offer EXCEPT ![u] = "PENDING"]
  /\ decision' = [decision EXCEPT ![u] = "none"]
  /\ UNCHANGED <<people, cutoff, skipped, event, count, seen, unchecked>>

(* The request fails (409, a crash). *)
AbandonDecision(u) ==
  /\ decision[u] # "none"
  /\ decision' = [decision EXCEPT ![u] = "none"]
  /\ UNCHANGED <<people, offers, event, count, seen, unchecked>>

-----------------------------------------------------------------------------
(* The event *)

CutoffPasses ==
  /\ HasCutoff /\ ~past_cutoff
  /\ past_cutoff' = TRUE
  /\ UNCHANGED <<people, status, waitlist_open, cutoff_batch, offers,
                 count, seen, decision, unchecked>>

(* update_waitlist_settings, update_event *)
SwitchWaitlist ==
  /\ waitlist_open' = ~waitlist_open
  /\ IF waitlist_open THEN RevokeOffers(User) ELSE UNCHANGED offer
  /\ UNCHANGED <<people, status, past_cutoff, cutoff_batch, cutoff, skipped,
                 count, seen, decision, unchecked>>

(* update_status *)
CancelEvent ==
  /\ status = "OPEN"
  /\ status' = "CANCELLED"
  /\ RevokeOffers(User)
  /\ UNCHANGED <<people, waitlist_open, past_cutoff, cutoff_batch, cutoff, skipped,
                 count, seen, decision, unchecked>>

ReopenEvent ==
  /\ status = "CANCELLED"
  /\ status' = "OPEN"
  /\ UNCHANGED <<people, waitlist_open, past_cutoff, cutoff_batch, offers,
                 count, seen, decision, unchecked>>

-----------------------------------------------------------------------------
Next ==
  \/ \E u \in User, answer \in {"YES", "MAYBE", "NO"} :
       Rsvp(u, answer) \/ RsvpAgain(u, answer) \/ OrganizerSetsRsvp(u, answer)
  \/ \E u \in User :
       \/ ReadHasYes(u) \/ OrganizerDeletesRsvp(u)
       \/ RemoveFromWaitlist(u) \/ RemovalLost(u)
       \/ JoinWaitlist(u) \/ LeaveWaitlist(u) \/ DeleteWaitlistEntry(u)
       \/ OfferLapses(u) \/ CreateAdminOffer(u) \/ ReadOffer(u)
       \/ FinishRevoke(u) \/ FinishReactivate(u) \/ AbandonDecision(u)
  \/ Rebuild \/ Process \/ ExpireOffers
  \/ CutoffPasses \/ SwitchWaitlist \/ CancelEvent \/ ReopenEvent

Spec == Init /\ [][Next]_vars

(* The recount task runs; the hourly nudge runs the processor, the hourly  *)
(* sweep expires offers, and time passes.                                  *)
Fairness ==
  /\ WF_vars(Rebuild)
  /\ WF_vars(Process)
  /\ WF_vars(ExpireOffers)
  /\ \A u \in User : WF_vars(OfferLapses(u))

FairSpec == Spec /\ Fairness

-----------------------------------------------------------------------------
(* A reservation holds: attendees and reserving offers together never      *)
(* exceed the capacity, so an offer's holder finds the seat still there.   *)
(* Not so once an organizer or an overriding invitation passed over it, a  *)
(* stale RSVP raced, or the processor trusted a stale count.               *)
ReservedSeatsHold ==
  EffectiveCapacity # 0 /\ ~unchecked => Seats + Cardinality(Held) <= EffectiveCapacity

(* Every path that changes who attends leaves a recount behind: the cached *)
(* count is right unless the task that corrects it is due.                 *)
StaleCountIsRebuilt == attendee_count # Seats => rebuild

(* The cutoff batch is sent once: it exists before any offer carries it.   *)
CutoffBatchOnce ==
  [][\A u \in User : u \in cutoff' \ cutoff => ~cutoff_batch]_vars

(* People whose turn it may be: "EXPIRED stays eligible", an offer pending *)
(* or revoked does not.                                                    *)
Waiting == {u \in queue \ skipped : offer[u] \notin {"PENDING", "LAPSED", "REVOKED"}}

FreeSeatWaits ==
  /\ waitlist_open /\ ~past_cutoff
  /\ Waiting # {} /\ Held = {}
  /\ Seats < EffectiveCapacity

(* No soft-lock: a free seat that nobody holds does not stay beside people *)
(* waiting for it (the recount, the processor and the hourly nudge).       *)
FreeSeatIsOffered == FreeSeatWaits ~> ~FreeSeatWaits

(* The processor counts seats as the RSVPs do: it never offers a seat that *)
(* is taken ("mirrors the counting logic used by                           *)
(* process_waitlist_for_event").                                           *)
OffersAreBacked ==
  [][Process /\ ~past_cutoff =>
       Seats + Cardinality(Held') <= EffectiveCapacity]_vars

(* No answer of a user takes a seat the event does not have ("there are no *)
(* race conditions").                                                      *)
NoSeatBeyondCapacity ==
  [][\A u \in User \ Overriding, answer \in {"YES", "MAYBE", "NO"} :
       (Rsvp(u, answer) \/ RsvpAgain(u, answer)) /\ u \in attending' \ attending
         => RoomFor(u)]_vars
=============================================================================
