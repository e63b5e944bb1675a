--------------------------- MODULE OrganizerProofs ---------------------------
(***************************************************************************)
(* Proofs about Organizer: its type invariant, and that a message deletes  *)
(* only reminders that were named and changes events only by consent.      *)
(***************************************************************************)
EXTENDS Organizer, TLAPS

USE ContainsAssumption, BoundsAssumption, NoneAssumption

\* Rows that are there have the ids as their serial numbers.
LEMMA SerialsOfRows ==
    ASSUME IdsAreSerials
    PROVE  /\ \A ids \in SUBSET DOMAIN reminders : Serials(reminders, ids) = ids
           /\ \A ids \in SUBSET DOMAIN events : Serials(events, ids) = ids
BY DEF IdsAreSerials, Serials

\* A reminder that is saved has a new id.
LEMMA CreateKeepsRows ==
    ASSUME TypeOK, IdsAreSerials, NEW t \in Titles, create_reminder(NewReminder, t)
    PROVE  /\ reminders' \in [DOMAIN reminders' -> Reminder]
           /\ DOMAIN reminders' \subseteq ReminderIds
           /\ lastReminder' \in 0 .. MaxReminders
           /\ NewReminder \in ReminderIds /\ NewReminder = lastReminder'
           /\ IdsAreSerials'
BY DEF TypeOK, IdsAreSerials, create_reminder, NewReminder, With, Reminder, ReminderIds

\* An event that is created has a new id.
LEMMA CreateEventKeepsRows ==
    ASSUME TypeOK, IdsAreSerials, NEW t \in Titles, NEW at \in {"soon", "far"},
           create_calendar_event(t, at)
    PROVE  /\ events' \in [DOMAIN events' -> Event]
           /\ DOMAIN events' \subseteq EventIds
           /\ lastEvent' \in 0 .. MaxEvents
           /\ IdsAreSerials'
           /\ \A i \in DOMAIN events : i \in DOMAIN events' /\ events'[i] = events[i]
BY DEF TypeOK, IdsAreSerials, create_calendar_event, With, Event, EventIds

\* Deleting rows leaves the others as they are.
LEMMA DeleteKeepsRows ==
    ASSUME TypeOK, IdsAreSerials, NEW ids, reminders' = Without(reminders, ids),
           UNCHANGED lastReminder
    PROVE  /\ reminders' \in [DOMAIN reminders' -> Reminder]
           /\ DOMAIN reminders' \subseteq ReminderIds
           /\ \A i \in DOMAIN reminders' : reminders'[i].serial = i /\ i <= lastReminder'
           /\ GoneReminders \subseteq ids
<1>1. reminders' = [i \in DOMAIN reminders \ ids |-> reminders[i]]
  BY DEF Without
<1>2. GoneReminders \subseteq ids
  BY <1>1 DEF GoneReminders, IdsAreSerials
<1> QED
  BY <1>1, <1>2 DEF TypeOK, IdsAreSerials

\* Completing or rewriting a reminder leaves it in its place.
LEMMA CompleteKeepsRows ==
    ASSUME TypeOK, IdsAreSerials, NEW i \in DOMAIN reminders, complete_reminder(i)
    PROVE  /\ reminders' \in [DOMAIN reminders' -> Reminder]
           /\ DOMAIN reminders' = DOMAIN reminders
           /\ IdsAreSerials'
<1> PICK s \in {"done", "pending"} :
        reminders' = [reminders EXCEPT ![i] = [reminders[i] EXCEPT !.status = s]]
  BY DEF complete_reminder
<1>1. reminders[i] \in Reminder /\ reminders[i].serial = i
  BY DEF TypeOK, IdsAreSerials
<1> DEFINE r == [reminders[i] EXCEPT !.status = s]
<1>2. r \in Reminder /\ r.serial = i
  BY <1>1 DEF Reminder
<1> HIDE DEF r
<1>3. UNCHANGED <<lastReminder, events, lastEvent>> /\ reminders' = [reminders EXCEPT ![i] = r]
  BY DEF complete_reminder, r
<1> QED
  BY <1>2, <1>3 DEF TypeOK, IdsAreSerials

LEMMA UpdateKeepsRows ==
    ASSUME TypeOK, IdsAreSerials, NEW i \in DOMAIN reminders, NEW t \in Titles,
           NEW status \in {"pending", "done"}, update_reminder(i, t, status)
    PROVE  /\ reminders' \in [DOMAIN reminders' -> Reminder]
           /\ DOMAIN reminders' = DOMAIN reminders
           /\ IdsAreSerials'
<1>1. reminders[i] \in Reminder /\ reminders[i].serial = i
  BY DEF TypeOK, IdsAreSerials
<1> DEFINE r == [reminders[i] EXCEPT !.title = t, !.status = status]
<1>2. r \in Reminder /\ r.serial = i
  BY <1>1 DEF Reminder
<1>3. reminders' = [reminders EXCEPT ![i] = r] /\ UNCHANGED <<lastReminder, events, lastEvent>>
  BY DEF update_reminder
<1> HIDE DEF r
<1> QED
  BY <1>2, <1>3 DEF TypeOK, IdsAreSerials

LEMMA DeleteKeepsEvents ==
    ASSUME TypeOK, IdsAreSerials, NEW ids, events' = Without(events, ids), UNCHANGED lastEvent
    PROVE  /\ events' \in [DOMAIN events' -> Event]
           /\ DOMAIN events' \subseteq EventIds
           /\ \A i \in DOMAIN events' : events'[i].serial = i /\ i <= lastEvent'
           /\ TouchedEvents \subseteq ids
<1>1. events' = [i \in DOMAIN events \ ids |-> events[i]]
  BY DEF Without
<1>2. \A i \in DOMAIN events : (i \notin DOMAIN events' \/ events'[i] # events[i]) => i \in ids
  BY <1>1
<1>3. TouchedEvents \subseteq ids
  <2> SUFFICES ASSUME NEW n \in TouchedEvents PROVE n \in ids
    OBVIOUS
  <2> PICK i \in DOMAIN events : n = events[i].serial /\ (i \notin DOMAIN events' \/ events'[i] # events[i])
    BY DEF TouchedEvents
  <2> QED
    BY <1>2 DEF IdsAreSerials
<1> QED
  BY <1>1, <1>3 DEF TypeOK, IdsAreSerials

\* An event that is changed or deleted leaves the others as they are.
LEMMA ChangeKeepsRows ==
    ASSUME TypeOK, IdsAreSerials, NEW k \in Keys, YesToChange(k)
    PROVE  /\ events' \in [DOMAIN events' -> Event]
           /\ DOMAIN events' \subseteq EventIds
           /\ \A i \in DOMAIN events' : events'[i].serial = i /\ i <= lastEvent
           /\ TouchedEvents \subseteq {change[k].id}
<1> DEFINE p == change[k]
<1>1. change[k] # None /\ get_pending_calendar_action(k) = p
  BY DEF YesToChange, get_pending_calendar_action
<1>2. p \in CalendarAction
  BY <1>1 DEF TypeOK
<1>3. /\ p.act \in {"delete", "update"} /\ p.title \in Titles /\ p.at \in {"soon", "far"}
      /\ UNCHANGED lastEvent
  BY <1>2 DEF CalendarAction, YesToChange
<1>4. events' = IF p.id \notin DOMAIN events THEN events
                ELSE IF p.act = "delete" THEN Without(events, {p.id})
                ELSE [events EXCEPT ![p.id] = [@ EXCEPT !.title = p.title, !.at = p.at]]
  BY <1>1 DEF YesToChange
<1> HIDE DEF p
<1>5. CASE p.id \notin DOMAIN events
  <2>1. TouchedEvents = {}
    BY <1>4, <1>5 DEF TouchedEvents
  <2> QED
    BY <1>4, <1>5, <2>1 DEF TypeOK, IdsAreSerials
<1>6. CASE p.id \in DOMAIN events /\ p.act = "delete"
  BY <1>3, <1>4, <1>6, DeleteKeepsEvents DEF p
<1>7. CASE p.id \in DOMAIN events /\ p.act # "delete"
  <2>1. events' = [events EXCEPT ![p.id] = [@ EXCEPT !.title = p.title, !.at = p.at]]
    BY <1>4, <1>7
  <2>2. \A i \in DOMAIN events : i # p.id => events'[i] = events[i]
    BY <2>1
  <2>3. TouchedEvents \subseteq {p.id}
    <3> SUFFICES ASSUME NEW n \in TouchedEvents PROVE n = p.id
      OBVIOUS
    <3> PICK i \in DOMAIN events :
            n = events[i].serial /\ (i \notin DOMAIN events' \/ events'[i] # events[i])
      BY DEF TouchedEvents
    <3> QED
      BY <2>1, <2>2 DEF IdsAreSerials
  <2>4. events'[p.id] \in Event /\ events'[p.id].serial = p.id
    <3>1. events[p.id] \in Event /\ events[p.id].serial = p.id
      BY <1>7 DEF TypeOK, IdsAreSerials
    <3>2. events'[p.id] = [events[p.id] EXCEPT !.title = p.title, !.at = p.at]
      BY <1>7, <2>1
    <3> QED
      BY <1>3, <3>1, <3>2 DEF Event
  <2> QED
    BY <1>7, <2>1, <2>2, <2>3, <2>4 DEF TypeOK, IdsAreSerials, p
<1> QED
  BY <1>5, <1>6, <1>7

-----------------------------------------------------------------------------
(* What a message remembers *)

\* A reply that names the reminders it remembers.
LEMMA ListingRemembered ==
    ASSUME TypeOK, ListingsWereTold, NEW k \in Keys, NEW t \in Titles,
           NEW ids \in SUBSET ReminderIds,
           remember_reminder_context(k, t, ids), Tell(k, ids)
    PROVE  /\ rctx' \in [Keys -> Context \cup {None}]
           /\ told' \in [Keys -> Named]
           /\ ListingsWereTold'
<1>1. now + ContextTTL \in Nat
  BY DEF TypeOK
<1>2. [title |-> t, ids |-> ids, until |-> now + ContextTTL] \in Context
  BY <1>1 DEF Context
<1>3. [reminders |-> ids, events |-> {}, until |-> now + ContextTTL] \in Named
  BY <1>1 DEF Named, ReminderIds
<1> QED
  BY <1>2, <1>3 DEF TypeOK, remember_reminder_context, Tell, ListingsWereTold

LEMMA ListingForgotten ==
    ASSUME TypeOK, ListingsWereTold, NEW k \in Keys, clear_reminder_context(k)
    PROVE  /\ rctx' \in [Keys -> Context \cup {None}]
           /\ told' \in [Keys -> Named]
           /\ ListingsWereTold'
<1>1. Nothing \in Named
  BY DEF Nothing, Named
<1> QED
  BY <1>1 DEF TypeOK, clear_reminder_context, ListingsWereTold

\* The question for a cleanup lists the rows it is about.
LEMMA CleanupAsked ==
    ASSUME TypeOK, IdsAreSerials, QuestionsWereAsked, NEW k \in Keys,
           NEW rs \in SUBSET DOMAIN reminders, NEW es \in SUBSET DOMAIN events,
           set_pending_organizer_cleanup_action(k, rs, es), UNCHANGED change
    PROVE  /\ cleanup' \in [Keys -> CleanupAction \cup {None}]
           /\ asked' \in [Keys -> [cleanup : Named, change : Named]]
           /\ QuestionsWereAsked'
<1> DEFINE q == [reminders |-> rs, events |-> es, until |-> now + QuestionTTL]
<1>1. now + QuestionTTL \in Nat /\ rs \subseteq ReminderIds /\ es \subseteq EventIds
  BY DEF TypeOK
<1>2. q \in CleanupAction /\ q \in Named
  BY <1>1 DEF CleanupAction, Named, ReminderIds, EventIds
<1>3. /\ cleanup' = [cleanup EXCEPT ![k] = q]
      /\ asked' = [asked EXCEPT ![k] = [@ EXCEPT !.cleanup = q]]
  BY SerialsOfRows DEF set_pending_organizer_cleanup_action
<1> HIDE DEF q
<1>4. /\ cleanup' \in [Keys -> CleanupAction \cup {None}]
      /\ asked' \in [Keys -> [cleanup : Named, change : Named]]
  BY <1>2, <1>3 DEF TypeOK
<1>5. QuestionsWereAsked'
  <2> SUFFICES ASSUME NEW j \in Keys
               PROVE  /\ cleanup'[j] # None =>
                            asked'[j].cleanup = [reminders |-> cleanup'[j].reminders,
                                events |-> cleanup'[j].events, until |-> cleanup'[j].until]
                      /\ change'[j] # None =>
                            asked'[j].change = [reminders |-> {}, events |-> {change'[j].id},
                                until |-> change'[j].until]
    BY DEF QuestionsWereAsked
  <2>1. CASE j = k
    <3>1. cleanup'[j] = q /\ asked'[j] = [asked[j] EXCEPT !.cleanup = q]
      BY <1>3, <2>1 DEF TypeOK
    <3>2. asked'[j].cleanup = q /\ asked'[j].change = asked[j].change
      BY <3>1 DEF TypeOK
    <3> QED
      BY <3>1, <3>2 DEF QuestionsWereAsked, q
  <2>2. CASE j # k
    BY <1>3, <2>2 DEF QuestionsWereAsked, TypeOK
  <2> QED
    BY <2>1, <2>2
<1> QED
  BY <1>4, <1>5

\* The question for a change names its event.
LEMMA ChangeAsked ==
    ASSUME TypeOK, IdsAreSerials, QuestionsWereAsked, NEW k \in Keys,
           NEW act \in {"delete", "update"}, NEW id \in DOMAIN events,
           NEW t \in Titles, NEW at \in {"soon", "far"},
           set_pending_calendar_action(k, act, id, t, at), UNCHANGED cleanup
    PROVE  /\ change' \in [Keys -> CalendarAction \cup {None}]
           /\ asked' \in [Keys -> [cleanup : Named, change : Named]]
           /\ QuestionsWereAsked'
<1> DEFINE c == [act |-> act, id |-> id, title |-> t, at |-> at, until |-> now + QuestionTTL]
           q == [reminders |-> {}, events |-> {id}, until |-> now + QuestionTTL]
<1>1. now + QuestionTTL \in Nat /\ id \in EventIds
  BY DEF TypeOK
<1>2. c \in CalendarAction /\ q \in Named
  BY <1>1 DEF CalendarAction, Named, EventIds
<1>3. /\ change' = [change EXCEPT ![k] = c]
      /\ asked' = [asked EXCEPT ![k] = [@ EXCEPT !.change = q]]
  BY DEF set_pending_calendar_action, IdsAreSerials
<1>4. q = [reminders |-> {}, events |-> {c.id}, until |-> c.until]
  OBVIOUS
<1> HIDE DEF q, c
<1>5. /\ change' \in [Keys -> CalendarAction \cup {None}]
      /\ asked' \in [Keys -> [cleanup : Named, change : Named]]
  BY <1>2, <1>3 DEF TypeOK
<1>6. QuestionsWereAsked'
  <2> SUFFICES ASSUME NEW j \in Keys
               PROVE  /\ cleanup'[j] # None =>
                            asked'[j].cleanup = [reminders |-> cleanup'[j].reminders,
                                events |-> cleanup'[j].events, until |-> cleanup'[j].until]
                      /\ change'[j] # None =>
                            asked'[j].change = [reminders |-> {}, events |-> {change'[j].id},
                                until |-> change'[j].until]
    BY DEF QuestionsWereAsked
  <2>1. CASE j = k
    <3>1. change'[j] = c /\ asked'[j] = [asked[j] EXCEPT !.change = q]
      BY <1>3, <2>1 DEF TypeOK
    <3>2. asked'[j].change = q /\ asked'[j].cleanup = asked[j].cleanup
      BY <3>1 DEF TypeOK
    <3> QED
      BY <1>4, <3>1, <3>2 DEF QuestionsWereAsked
  <2>2. CASE j # k
    BY <1>3, <2>2 DEF QuestionsWereAsked, TypeOK
  <2> QED
    BY <2>1, <2>2
<1> QED
  BY <1>5, <1>6

\* A question that was answered is not asked any more.
LEMMA CleanupCleared ==
    ASSUME TypeOK, QuestionsWereAsked, NEW k \in Keys, clear_pending_organizer_cleanup_action(k)
    PROVE  /\ cleanup' \in [Keys -> CleanupAction \cup {None}]
           /\ change' \in [Keys -> CalendarAction \cup {None}]
           /\ asked' \in [Keys -> [cleanup : Named, change : Named]]
           /\ QuestionsWereAsked'
<1>1. Nothing \in Named
  BY DEF Nothing, Named
<1> QED
  BY <1>1 DEF TypeOK, clear_pending_organizer_cleanup_action, QuestionsWereAsked

LEMMA ChangeCleared ==
    ASSUME TypeOK, QuestionsWereAsked, NEW k \in Keys, clear_pending_calendar_action(k)
    PROVE  /\ cleanup' \in [Keys -> CleanupAction \cup {None}]
           /\ change' \in [Keys -> CalendarAction \cup {None}]
           /\ asked' \in [Keys -> [cleanup : Named, change : Named]]
           /\ QuestionsWereAsked'
<1>1. Nothing \in Named
  BY DEF Nothing, Named
<1> QED
  BY <1>1 DEF TypeOK, clear_pending_calendar_action, QuestionsWereAsked

-----------------------------------------------------------------------------
(* The invariant is kept *)

\* Messages about reminders.
LEMMA RemindersKeepConsent ==
    ASSUME ConsentInv, NEW k \in Keys, execute_reminder_plan(k) \/ combined_overview_reply(k)
    PROVE  ConsentInv'
<1> USE DEF ConsentInv
<1>0. /\ DOMAIN reminders \subseteq ReminderIds /\ Pending \subseteq DOMAIN reminders
      /\ \A i \in DOMAIN reminders : reminders[i].title \in Titles
  BY DEF TypeOK, Pending, Reminder
<1>1. CASE SaveReminder(k)
  <2> PICK t \in Titles : /\ create_reminder(NewReminder, t)
                         /\ remember_reminder_context(k, t, {NewReminder})
                         /\ Tell(k, {lastReminder'})
                         /\ UNCHANGED <<pending, now, asked>>
    BY <1>1 DEF SaveReminder
  <2>1. /\ reminders' \in [DOMAIN reminders' -> Reminder]
        /\ DOMAIN reminders' \subseteq ReminderIds
        /\ lastReminder' \in 0 .. MaxReminders
        /\ NewReminder \in ReminderIds /\ NewReminder = lastReminder'
        /\ IdsAreSerials'
    BY CreateKeepsRows
  <2>2. Tell(k, {NewReminder})
    BY <2>1
  <2>3. /\ rctx' \in [Keys -> Context \cup {None}] /\ told' \in [Keys -> Named]
        /\ ListingsWereTold'
    BY <2>1, <2>2, ListingRemembered
  <2> QED
    BY <2>1, <2>3 DEF create_reminder, TypeOK, QuestionsWereAsked, pending
<1>2. CASE AskTime(k)
  <2> PICK t \in Titles : /\ remember_reminder_context(k, t, {})
                         /\ Tell(k, {})
                         /\ UNCHANGED <<store, pending, now, asked>>
    BY <1>2 DEF AskTime
  <2>1. /\ rctx' \in [Keys -> Context \cup {None}] /\ told' \in [Keys -> Named]
        /\ ListingsWereTold'
    BY ListingRemembered
  <2> QED
    BY <2>1 DEF TypeOK, IdsAreSerials, QuestionsWereAsked, store, pending
<1>3. ASSUME NEW listed \in SUBSET Pending, NEW first \in listed,
             remember_reminder_context(k, reminders[first].title, listed),
             Tell(k, Serials(reminders, listed)),
             UNCHANGED <<store, pending, now, asked>>
      PROVE  ConsentInv'
  <2>1. Tell(k, listed)
    BY <1>0, <1>3, SerialsOfRows
  <2>2. /\ rctx' \in [Keys -> Context \cup {None}] /\ told' \in [Keys -> Named]
        /\ ListingsWereTold'
    BY <1>0, <1>3, <2>1, ListingRemembered
  <2> QED
    BY <1>3, <2>2 DEF TypeOK, IdsAreSerials, QuestionsWereAsked, store, pending
<1>4. CASE ListReminders(k)
  BY <1>3, <1>4 DEF ListReminders
<1>5. CASE combined_overview_reply(k)
  BY <1>3, <1>5 DEF combined_overview_reply
<1>6. CASE CompleteReminder(k)
  <2> PICK i \in DOMAIN reminders :
          /\ complete_reminder(i)
          /\ remember_reminder_context(k, reminders[i].title, {i})
          /\ Tell(k, Serials(reminders, {i}))
          /\ UNCHANGED <<pending, now, asked>>
    BY <1>6 DEF CompleteReminder
  <2>1. Tell(k, {i})
    BY SerialsOfRows
  <2>2. /\ rctx' \in [Keys -> Context \cup {None}] /\ told' \in [Keys -> Named]
        /\ ListingsWereTold'
    BY <1>0, <2>1, ListingRemembered
  <2>3. /\ reminders' \in [DOMAIN reminders' -> Reminder]
        /\ DOMAIN reminders' = DOMAIN reminders
        /\ IdsAreSerials'
    BY CompleteKeepsRows
  <2> QED
    BY <2>2, <2>3 DEF complete_reminder, TypeOK, QuestionsWereAsked, pending
<1>7. CASE MoveReminder(k)
  <2> PICK i \in DOMAIN reminders :
          /\ remember_reminder_context(k, reminders[i].title, {i})
          /\ Tell(k, Serials(reminders, {i}))
          /\ UNCHANGED <<store, pending, now, asked>>
    BY <1>7 DEF MoveReminder
  <2>1. Tell(k, {i})
    BY SerialsOfRows
  <2>2. /\ rctx' \in [Keys -> Context \cup {None}] /\ told' \in [Keys -> Named]
        /\ ListingsWereTold'
    BY <1>0, <2>1, ListingRemembered
  <2> QED
    BY <2>2 DEF TypeOK, IdsAreSerials, QuestionsWereAsked, store, pending
<1>8. ASSUME NEW ids, delete_reminders(ids), clear_reminder_context(k),
             UNCHANGED <<pending, now, asked>>
      PROVE  ConsentInv'
  <2>1. /\ reminders' = Without(reminders, ids)
        /\ UNCHANGED <<lastReminder, events, lastEvent>>
    BY <1>8 DEF delete_reminders
  <2>2. /\ reminders' \in [DOMAIN reminders' -> Reminder]
        /\ DOMAIN reminders' \subseteq ReminderIds
        /\ \A i \in DOMAIN reminders' : reminders'[i].serial = i /\ i <= lastReminder'
    BY <2>1, DeleteKeepsRows
  <2>3. /\ rctx' \in [Keys -> Context \cup {None}] /\ told' \in [Keys -> Named]
        /\ ListingsWereTold'
    BY <1>8, ListingForgotten
  <2> QED
    BY <1>8, <2>1, <2>2, <2>3 DEF TypeOK, IdsAreSerials, QuestionsWereAsked, pending
<1>9. CASE DeleteReminder(k)
  BY <1>8, <1>9 DEF DeleteReminder, DeleteNamed
<1>10. CASE DeleteListed(k)
  BY <1>8, <1>10 DEF DeleteListed
<1> QED
  BY <1>1, <1>2, <1>4, <1>5, <1>6, <1>7, <1>9, <1>10 DEF execute_reminder_plan

\* Messages that ask for a cleanup or about an event, and those that create one.
LEMMA QuestionsKeepConsent ==
    ASSUME ConsentInv, NEW k \in Keys, organizer_cleanup_reply(k) \/ execute_calendar_plan(k)
    PROVE  ConsentInv'
<1> USE DEF ConsentInv
<1>1. ASSUME NEW rs \in SUBSET DOMAIN reminders, NEW es \in SUBSET DOMAIN events,
             set_pending_organizer_cleanup_action(k, rs, es),
             UNCHANGED <<store, rctx, change, now, told>>
      PROVE  ConsentInv'
  <2>1. /\ cleanup' \in [Keys -> CleanupAction \cup {None}]
        /\ asked' \in [Keys -> [cleanup : Named, change : Named]]
        /\ QuestionsWereAsked'
    BY <1>1, CleanupAsked
  <2> QED
    BY <1>1, <2>1 DEF TypeOK, IdsAreSerials, ListingsWereTold, store
<1>2. ASSUME NEW act \in {"delete", "update"}, NEW id \in DOMAIN events,
             NEW t \in Titles, NEW at \in {"soon", "far"},
             set_pending_calendar_action(k, act, id, t, at),
             UNCHANGED <<store, rctx, cleanup, now, told>>
      PROVE  ConsentInv'
  <2>1. /\ change' \in [Keys -> CalendarAction \cup {None}]
        /\ asked' \in [Keys -> [cleanup : Named, change : Named]]
        /\ QuestionsWereAsked'
    BY <1>2, ChangeAsked
  <2> QED
    BY <1>2, <2>1 DEF TypeOK, IdsAreSerials, ListingsWereTold, store
<1>3. CASE organizer_cleanup_reply(k)
  BY <1>1, <1>3 DEF organizer_cleanup_reply, Pending, Upcoming
<1>4. CASE CreateEvent
  <2> PICK t \in Titles, at \in {"soon", "far"} : create_calendar_event(t, at)
    BY <1>4 DEF CreateEvent
  <2>1. /\ events' \in [DOMAIN events' -> Event]
        /\ DOMAIN events' \subseteq EventIds
        /\ lastEvent' \in 0 .. MaxEvents
        /\ IdsAreSerials'
    BY CreateEventKeepsRows
  <2> QED
    BY <1>4, <2>1 DEF CreateEvent, create_calendar_event, TypeOK, ListingsWereTold,
       QuestionsWereAsked, pending
<1>5. CASE AskDeleteAllEvents(k)
  BY <1>1, <1>5 DEF AskDeleteAllEvents
<1>6. CASE calendar_delete_request_reply(k)
  <2> PICK i \in DOMAIN events :
          /\ set_pending_calendar_action(k, "delete", i, events[i].title, events[i].at)
          /\ UNCHANGED <<store, rctx, cleanup, now, told>>
    BY <1>6 DEF calendar_delete_request_reply
  <2>1. events[i].title \in Titles /\ events[i].at \in {"soon", "far"}
    BY DEF TypeOK, Event
  <2> QED
    BY <1>2, <2>1
<1>7. CASE calendar_update_request_reply(k)
  BY <1>2, <1>7 DEF calendar_update_request_reply
<1> QED
  BY <1>3, <1>4, <1>5, <1>6, <1>7 DEF execute_calendar_plan

\* "Yes" and "cancel".
LEMMA AnswersKeepConsent ==
    ASSUME ConsentInv, NEW k \in Keys, maybe_handle_pending_confirmation(k)
    PROVE  ConsentInv'
<1> USE DEF ConsentInv
<1>1. CASE YesToCleanup(k)
  <2> DEFINE p == get_pending_organizer_cleanup_action(k)
  <2>1. /\ clear_pending_organizer_cleanup_action(k)
        /\ reminders' = Without(reminders, p.reminders)
        /\ events' = Without(events, p.events)
        /\ UNCHANGED <<lastReminder, lastEvent, rctx, now, told>>
    BY <1>1 DEF YesToCleanup
  <2> HIDE DEF p
  <2>2. /\ reminders' \in [DOMAIN reminders' -> Reminder]
        /\ DOMAIN reminders' \subseteq ReminderIds
        /\ \A i \in DOMAIN reminders' : reminders'[i].serial = i /\ i <= lastReminder'
    BY <2>1, DeleteKeepsRows
  <2>3. /\ events' \in [DOMAIN events' -> Event]
        /\ DOMAIN events' \subseteq EventIds
        /\ \A i \in DOMAIN events' : events'[i].serial = i /\ i <= lastEvent'
    BY <2>1, DeleteKeepsEvents
  <2>4. /\ cleanup' \in [Keys -> CleanupAction \cup {None}]
        /\ change' \in [Keys -> CalendarAction \cup {None}]
        /\ asked' \in [Keys -> [cleanup : Named, change : Named]]
        /\ QuestionsWereAsked'
    BY <2>1, CleanupCleared
  <2> QED
    BY <2>1, <2>2, <2>3, <2>4 DEF TypeOK, IdsAreSerials, ListingsWereTold
<1>2. CASE CancelCleanup(k)
  <2>1. /\ cleanup' \in [Keys -> CleanupAction \cup {None}]
        /\ change' \in [Keys -> CalendarAction \cup {None}]
        /\ asked' \in [Keys -> [cleanup : Named, change : Named]]
        /\ QuestionsWereAsked'
    BY <1>2, CleanupCleared DEF CancelCleanup
  <2> QED
    BY <1>2, <2>1 DEF CancelCleanup, TypeOK, IdsAreSerials, ListingsWereTold, store
<1>3. CASE YesToChange(k)
  <2>1. /\ cleanup' \in [Keys -> CleanupAction \cup {None}]
        /\ change' \in [Keys -> CalendarAction \cup {None}]
        /\ asked' \in [Keys -> [cleanup : Named, change : Named]]
        /\ QuestionsWereAsked'
    BY <1>3, ChangeCleared DEF YesToChange
  <2>2. /\ events' \in [DOMAIN events' -> Event]
        /\ DOMAIN events' \subseteq EventIds
        /\ \A i \in DOMAIN events' : events'[i].serial = i /\ i <= lastEvent
    BY <1>3, ChangeKeepsRows
  <2> QED
    BY <1>3, <2>1, <2>2 DEF YesToChange, TypeOK, IdsAreSerials, ListingsWereTold
<1>4. CASE CancelChange(k)
  <2>1. /\ cleanup' \in [Keys -> CleanupAction \cup {None}]
        /\ change' \in [Keys -> CalendarAction \cup {None}]
        /\ asked' \in [Keys -> [cleanup : Named, change : Named]]
        /\ QuestionsWereAsked'
    BY <1>4, ChangeCleared DEF CancelChange
  <2> QED
    BY <1>4, <2>1 DEF CancelChange, TypeOK, IdsAreSerials, ListingsWereTold, store
<1> QED
  BY <1>1, <1>2, <1>3, <1>4 DEF maybe_handle_pending_confirmation

\* The routes, the clock and a restart.
LEMMA RoutesKeepConsent ==
    ASSUME ConsentInv,
           RouteCreate \/ RoutePatch \/ RouteComplete \/ RouteDelete \/ Tick \/ Restart
    PROVE  ConsentInv'
<1> USE DEF ConsentInv
<1>1. ASSUME reminders' \in [DOMAIN reminders' -> Reminder], DOMAIN reminders' \subseteq ReminderIds,
             lastReminder' \in 0 .. MaxReminders, IdsAreSerials',
             UNCHANGED <<events, lastEvent, rctx, pending, now, told, asked>>
      PROVE  ConsentInv'
  BY <1>1 DEF TypeOK, ListingsWereTold, QuestionsWereAsked, pending
<1>2. CASE RouteCreate
  <2> PICK t \in Titles : create_reminder(NewReminder, t)
    BY <1>2 DEF RouteCreate
  <2> QED
    BY <1>1, <1>2, CreateKeepsRows DEF RouteCreate, create_reminder
<1>3. CASE RoutePatch
  <2> PICK i \in DOMAIN reminders, t \in Titles, s \in {"pending", "done"} :
          update_reminder(i, t, s)
    BY <1>3 DEF RoutePatch
  <2>1. /\ reminders' \in [DOMAIN reminders' -> Reminder]
        /\ DOMAIN reminders' = DOMAIN reminders
        /\ IdsAreSerials'
    BY UpdateKeepsRows
  <2>2. UNCHANGED <<lastReminder, events, lastEvent>>
    BY DEF update_reminder
  <2> QED
    BY <1>1, <1>3, <2>1, <2>2 DEF RoutePatch, TypeOK
<1>4. CASE RouteComplete
  <2> PICK i \in DOMAIN reminders : complete_reminder(i)
    BY <1>4 DEF RouteComplete
  <2>1. /\ reminders' \in [DOMAIN reminders' -> Reminder]
        /\ DOMAIN reminders' = DOMAIN reminders
        /\ IdsAreSerials'
    BY CompleteKeepsRows
  <2>2. UNCHANGED <<lastReminder, events, lastEvent>>
    BY DEF complete_reminder
  <2> QED
    BY <1>1, <1>4, <2>1, <2>2 DEF RouteComplete, TypeOK
<1>5. CASE RouteDelete
  <2> PICK i \in DOMAIN reminders : delete_reminders({i})
    BY <1>5 DEF RouteDelete
  <2>1. reminders' = Without(reminders, {i}) /\ UNCHANGED <<lastReminder, events, lastEvent>>
    BY DEF delete_reminders
  <2>2. /\ reminders' \in [DOMAIN reminders' -> Reminder]
        /\ DOMAIN reminders' \subseteq ReminderIds
        /\ \A j \in DOMAIN reminders' : reminders'[j].serial = j /\ j <= lastReminder'
    BY <2>1, DeleteKeepsRows
  <2> QED
    BY <1>1, <1>5, <2>1, <2>2 DEF RouteDelete, TypeOK, IdsAreSerials
<1>6. CASE Tick
  <2>1. now' \in 0 .. MaxTime
    BY <1>6 DEF Tick, TypeOK
  <2> QED
    BY <1>6, <2>1 DEF Tick, TypeOK, IdsAreSerials, ListingsWereTold, QuestionsWereAsked, store,
       pending
<1>7. CASE Restart
  <2>1. Nothing \in Named
    BY DEF Nothing, Named
  <2> QED
    BY <1>7, <2>1 DEF Restart, TypeOK, IdsAreSerials, ListingsWereTold, QuestionsWereAsked, store
<1> QED
  BY <1>2, <1>3, <1>4, <1>5, <1>6, <1>7

LEMMA ConsentStep == ConsentInv /\ [Next]_vars => ConsentInv'
<1> SUFFICES ASSUME ConsentInv, [Next]_vars PROVE ConsentInv'
  OBVIOUS
<1>1. ASSUME NEW k \in Keys, Message(k) PROVE ConsentInv'
  BY <1>1, RemindersKeepConsent, QuestionsKeepConsent, AnswersKeepConsent
     DEF Message, execute_organizer_action
<1>2. CASE UNCHANGED vars
  BY <1>2 DEF ConsentInv, TypeOK, IdsAreSerials, ListingsWereTold, QuestionsWereAsked, vars,
     store, pending
<1> QED
  BY <1>1, <1>2, RoutesKeepConsent DEF Next

LEMMA ConsentInit == Init => ConsentInv
<1>1. Nothing \in Named
  BY DEF Nothing, Named
<1> QED
  BY <1>1 DEF Init, ConsentInv, TypeOK, IdsAreSerials, ListingsWereTold, QuestionsWereAsked

LEMMA ConsentAlways == Spec => []ConsentInv
BY ConsentInit, ConsentStep, PTL DEF Spec

\* The tables, contexts and questions keep their types in every behaviour.
THEOREM OrganizerTypeCorrect == Spec => []TypeOK
<1>1. ConsentInv => TypeOK
  BY DEF ConsentInv
<1> QED
  BY <1>1, ConsentAlways, PTL

-----------------------------------------------------------------------------
(* What a message deletes was named *)

\* Every reminder that "delete both" deletes is one that was listed.
LEMMA DeleteListedWasTold ==
    ASSUME ConsentInv, NEW k \in Keys, DeleteListed(k)
    PROVE  GoneReminders \subseteq Live(told[k]).reminders
<1> DEFINE ctx == get_reminder_context(k)
<1>1. ctx # None /\ reminders' = Without(reminders, ctx.ids) /\ UNCHANGED lastReminder
  BY DEF DeleteListed, delete_reminders
<1>2. ctx = rctx[k] /\ rctx[k] # None /\ now < rctx[k].until
  BY <1>1 DEF get_reminder_context
<1>3. Live(told[k]).reminders = ctx.ids
  BY <1>2 DEF ConsentInv, ListingsWereTold, Live
<1> HIDE DEF ctx
<1> QED
  BY <1>1, <1>3, DeleteKeepsRows DEF ConsentInv

\* The reminder that a message deletes was named by it or by the last reply.
LEMMA DeleteNamedWasNamed ==
    ASSUME ConsentInv, NEW k \in Keys, NEW q \in Titles, DeleteNamed(k, q)
    PROVE  GoneReminders \subseteq Live(told[k]).reminders
                  \cup Serials(reminders, find_reminders(q, TRUE))
<1> DEFINE found == find_reminders(q, TRUE)
           ctx == get_reminder_context(k)
<1> PICK i \in DOMAIN reminders :
        _find_contextual_matches(k, q, TRUE) = {i} /\ delete_reminders({i})
  BY DEF DeleteNamed
<1>1. GoneReminders \subseteq {i}
  BY DeleteKeepsRows DEF delete_reminders, ConsentInv
<1>2. Serials(reminders, found) = found
  BY SerialsOfRows DEF ConsentInv, find_reminders
<1>3. i \in found \/ (ctx # None /\ i \in ctx.ids)
  BY DEF _find_contextual_matches, _contextual_single_match
<1>4. ASSUME ctx # None PROVE Live(told[k]).reminders = ctx.ids
  <2>1. ctx = rctx[k] /\ rctx[k] # None /\ now < rctx[k].until
    BY <1>4 DEF get_reminder_context
  <2> QED
    BY <2>1 DEF ConsentInv, ListingsWereTold, Live
<1> HIDE DEF found, ctx
<1>5. i \in found \/ i \in Live(told[k]).reminders
  BY <1>3, <1>4
<1> QED
  BY <1>1, <1>2, <1>5 DEF found

\* A cleanup touches the rows that its question listed.
LEMMA CleanupWasAsked ==
    ASSUME ConsentInv, NEW k \in Keys, YesToCleanup(k)
    PROVE  /\ GoneReminders \subseteq Live(asked[k].cleanup).reminders
           /\ TouchedEvents \subseteq Live(asked[k].cleanup).events
<1> DEFINE p == get_pending_organizer_cleanup_action(k)
<1>1. /\ p # None /\ UNCHANGED <<lastReminder, lastEvent>>
      /\ reminders' = Without(reminders, p.reminders)
      /\ events' = Without(events, p.events)
  BY DEF YesToCleanup
<1>2. p = cleanup[k] /\ cleanup[k] # None /\ now < cleanup[k].until
  BY <1>1 DEF get_pending_organizer_cleanup_action
<1>3. /\ Live(asked[k].cleanup).reminders = p.reminders
      /\ Live(asked[k].cleanup).events = p.events
  <2> DEFINE q == asked[k].cleanup
  <2>1. q = [reminders |-> cleanup[k].reminders, events |-> cleanup[k].events,
             until |-> cleanup[k].until]
    BY <1>2 DEF ConsentInv, QuestionsWereAsked
  <2>2. q.until = p.until /\ q.reminders = p.reminders /\ q.events = p.events
    BY <1>2, <2>1
  <2> HIDE DEF q, p
  <2>3. Live(q) = q
    BY <1>2, <2>2 DEF Live
  <2> QED
    BY <2>2, <2>3 DEF q
<1> HIDE DEF p
<1>4. GoneReminders \subseteq p.reminders
  BY <1>1, DeleteKeepsRows DEF ConsentInv
<1>5. TouchedEvents \subseteq p.events
  BY <1>1, DeleteKeepsEvents DEF ConsentInv
<1> QED
  BY <1>3, <1>4, <1>5

\* A message deletes only reminders that it or the last reply named, or that
\* an answered cleanup question listed.
THEOREM DeletedWasNamedHolds == Spec => DeletedWasNamed
<1>1. ConsentInv /\ [Next]_vars =>
        [ GoneReminders # {} => \A k \in Keys :
          /\ DeleteListed(k) => GoneReminders \subseteq Live(told[k]).reminders
          /\ YesToCleanup(k) => GoneReminders \subseteq Live(asked[k].cleanup).reminders
          /\ \A q \in Titles : DeleteNamed(k, q) =>
                GoneReminders \subseteq Live(told[k]).reminders
                  \cup Serials(reminders, find_reminders(q, TRUE)) ]_vars
  BY DeleteListedWasTold, DeleteNamedWasNamed, CleanupWasAsked
<1> QED
  BY <1>1, ConsentAlways, PTL DEF Spec, DeletedWasNamed

-----------------------------------------------------------------------------
(* What changes an event was asked *)

LEMMA ChangeWasAsked ==
    ASSUME ConsentInv, NEW k \in Keys, YesToChange(k)
    PROVE  TouchedEvents \subseteq Live(asked[k].change).events
<1>1. change[k] # None /\ now < change[k].until
  BY DEF YesToChange, get_pending_calendar_action
<1>2. Live(asked[k].change).events = {change[k].id}
  <2> DEFINE q == asked[k].change
  <2>1. q = [reminders |-> {}, events |-> {change[k].id}, until |-> change[k].until]
    BY <1>1 DEF ConsentInv, QuestionsWereAsked
  <2>2. q.until = change[k].until /\ q.events = {change[k].id}
    BY <2>1
  <2> HIDE DEF q
  <2>3. Live(q) = q
    BY <1>1, <2>2 DEF Live
  <2> QED
    BY <2>2, <2>3 DEF q
<1> QED
  BY <1>2, ChangeKeepsRows DEF ConsentInv

\* Nothing but the answer to a question changes or deletes an event.
LEMMA OnlyAnswersTouchEvents ==
    ASSUME ConsentInv, [Next]_vars, TouchedEvents # {}
    PROVE  \E k \in Keys : YesToCleanup(k) \/ YesToChange(k)
<1>1. ASSUME UNCHANGED events PROVE FALSE
  BY <1>1 DEF TouchedEvents
<1>2. ASSUME CreateEvent PROVE FALSE
  <2> PICK t \in Titles, at \in {"soon", "far"} : create_calendar_event(t, at)
    BY <1>2 DEF CreateEvent
  <2>1. \A i \in DOMAIN events : i \in DOMAIN events' /\ events'[i] = events[i]
    BY CreateEventKeepsRows DEF ConsentInv
  <2> QED
    BY <2>1 DEF TouchedEvents
<1>3. ASSUME NEW k \in Keys, execute_reminder_plan(k) PROVE UNCHANGED events
  BY <1>3 DEF execute_reminder_plan, SaveReminder, AskTime, ListReminders, CompleteReminder,
     MoveReminder, DeleteReminder, DeleteNamed, DeleteListed, create_reminder, complete_reminder,
     delete_reminders, store
<1>4. ASSUME NEW k \in Keys, execute_organizer_action(k) PROVE UNCHANGED events
  BY <1>4 DEF execute_organizer_action, combined_overview_reply, organizer_cleanup_reply, store
<1>5. ASSUME NEW k \in Keys, execute_calendar_plan(k) PROVE CreateEvent \/ UNCHANGED events
  BY <1>5 DEF execute_calendar_plan, AskDeleteAllEvents, calendar_delete_request_reply,
     calendar_update_request_reply, store
<1>6. ASSUME NEW k \in Keys, maybe_handle_pending_confirmation(k)
      PROVE  YesToCleanup(k) \/ YesToChange(k) \/ UNCHANGED events
  BY <1>6 DEF maybe_handle_pending_confirmation, CancelCleanup, CancelChange, store
<1>7. CASE RouteCreate \/ RoutePatch \/ RouteComplete \/ RouteDelete \/ Tick \/ Restart
  BY <1>1, <1>7 DEF RouteCreate, RoutePatch, RouteComplete, RouteDelete, Tick, Restart,
     create_reminder, update_reminder, complete_reminder, delete_reminders, store
<1>8. CASE UNCHANGED vars
  BY <1>1, <1>8 DEF vars, store
<1>9. CASE \E k \in Keys : Message(k)
  BY <1>1, <1>2, <1>3, <1>4, <1>5, <1>6, <1>9 DEF Message
<1> QED
  BY <1>7, <1>8, <1>9 DEF Next

\* An event changes only by the answer to a question about it that this
\* conversation was asked and that has not run out.
THEOREM EventsByConsentHolds == Spec => EventsByConsent
<1>1. ConsentInv /\ [Next]_vars =>
        [ TouchedEvents # {} =>
          \E k \in Keys :
             \/ YesToCleanup(k) /\ TouchedEvents \subseteq Live(asked[k].cleanup).events
             \/ YesToChange(k) /\ TouchedEvents \subseteq Live(asked[k].change).events ]_vars
  BY OnlyAnswersTouchEvents, CleanupWasAsked, ChangeWasAsked
<1> QED
  BY <1>1, ConsentAlways, PTL DEF Spec, EventsByConsent

=============================================================================
