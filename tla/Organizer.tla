------------------------------ MODULE Organizer ------------------------------
(***************************************************************************)
(* Reminders and calendar events as chat changes them.  A message is       *)
(* understood by patterns and by a language model, so which operation it   *)
(* becomes is open here; what each operation then does is not.  Chat       *)
(* deletes, completes and moves reminders at once, on whatever the message *)
(* names or the conversation listed last; it changes an event, or cleans   *)
(* up many rows, only after a question that it keeps for ten minutes and   *)
(* that the next "yes" answers.  The workspace screen changes reminders    *)
(* meanwhile through its routes.                                           *)
(*                                                                         *)
(* One message or one request is one step: the routes are coroutines that  *)
(* never await, so the event loop runs them one at a time.  A compound     *)
(* message is its steps in a row, and stops at the first question.         *)
(* Contexts and questions are kept per key: the conversation, or Default   *)
(* for a message without one and for every /tool reminder command.         *)
(***************************************************************************)
EXTENDS Naturals, FiniteSets

CONSTANTS Keys,          \* conversations and __default__
          Titles,
          Contains,      \* Contains[q]: the titles that a search for q finds
          ListLimit,     \* rows that a listing remembers (20)
          ContextTTL,    \* how long a listing is remembered (15 minutes)
          QuestionTTL,   \* how long a question is kept (10 minutes)
          MaxReminders,  \* bound on the reminders ever made
          MaxEvents,     \* bound on the events ever made
          MaxTime,       \* bound on the clock, in steps of some minutes
          None

ASSUME ContainsAssumption == Contains \in [Titles -> SUBSET Titles]
ASSUME BoundsAssumption == /\ ListLimit \in Nat /\ MaxTime \in Nat
                           /\ MaxReminders \in Nat /\ MaxEvents \in Nat
                           /\ ContextTTL \in Nat /\ QuestionTTL \in Nat
ASSUME NoneAssumption == None \notin Keys /\ None \notin Titles

VARIABLES reminders,     \* the table reminders, by id
          lastReminder,  \* its AUTOINCREMENT counter
          events,        \* the table calendar_events, by id
          lastEvent,
          rctx,          \* _reminder_context
          cleanup,       \* _pending_actions of chat_organizer_pending_actions
          change,        \* _pending_actions of calendar_pending_actions
          now,
          told,          \* reminders that the last reply about reminders named
          asked          \* rows of the questions that are still to be answered

store == <<reminders, lastReminder, events, lastEvent>>
pending == <<cleanup, change>>
vars == <<store, rctx, pending, now, told, asked>>

\* A reminder's due time is left out: no decision below depends on it.
Reminder == [serial : Nat, title : Titles, status : {"pending", "done"}]

\* at: whether it has an occurrence in the next thirty days
Event == [serial : Nat, title : Titles, at : {"soon", "far"}]

ReminderIds == 1 .. MaxReminders
EventIds == 1 .. MaxEvents

Context == [title : Titles, ids : SUBSET ReminderIds, until : Nat]
CleanupAction == [reminders : SUBSET ReminderIds, events : SUBSET EventIds, until : Nat]
CalendarAction == [act : {"delete", "update"}, id : EventIds, title : Titles,
                   at : {"soon", "far"}, until : Nat]

\* Rows by their serial numbers, which no two rows ever share.
Named == [reminders : SUBSET Nat, events : SUBSET Nat, until : Nat]
Nothing == [reminders |-> {}, events |-> {}, until |-> 0]

TypeOK ==
    /\ reminders \in [DOMAIN reminders -> Reminder] /\ DOMAIN reminders \subseteq ReminderIds
    /\ events \in [DOMAIN events -> Event] /\ DOMAIN events \subseteq EventIds
    /\ lastReminder \in 0 .. MaxReminders /\ lastEvent \in 0 .. MaxEvents
    /\ rctx \in [Keys -> Context \cup {None}]
    /\ cleanup \in [Keys -> CleanupAction \cup {None}]
    /\ change \in [Keys -> CalendarAction \cup {None}]
    /\ now \in 0 .. MaxTime
    /\ told \in [Keys -> Named]
    /\ asked \in [Keys -> [cleanup : Named, change : Named]]

Init ==
    /\ reminders = [i \in {} |-> 0] /\ lastReminder = 0
    /\ events = [i \in {} |-> 0] /\ lastEvent = 0
    /\ rctx = [k \in Keys |-> None]
    /\ cleanup = [k \in Keys |-> None]
    /\ change = [k \in Keys |-> None]
    /\ now = 0
    /\ told = [k \in Keys |-> Nothing]
    /\ asked = [k \in Keys |-> [cleanup |-> Nothing, change |-> Nothing]]

-----------------------------------------------------------------------------
(* The two tables *)

Without(table, ids) == [i \in DOMAIN table \ ids |-> table[i]]
With(table, id, row) == [i \in DOMAIN table \cup {id} |-> IF i = id THEN row ELSE table[i]]

create_reminder(id, t) ==
    /\ lastReminder < MaxReminders
    /\ lastReminder' = lastReminder + 1
    /\ reminders' = With(reminders, id, [serial |-> lastReminder + 1, title |-> t,
                                         status |-> "pending"])
    /\ UNCHANGED <<events, lastEvent>>

\* Mutation: without AUTOINCREMENT sqlite gives the id after the largest left.
AfterLargestLeft ==
    CHOOSE n \in 1 .. MaxReminders :
        /\ \A i \in DOMAIN reminders : i < n
        /\ n = 1 \/ n - 1 \in DOMAIN reminders

\* Mutation: the id is read before the row is written.
LastInsertedBefore == lastReminder

\* The id that sqlite gives the next row.
NewReminder == lastReminder + 1

update_reminder(i, t, status) ==
    /\ reminders' = [reminders EXCEPT ![i] = [@ EXCEPT !.title = t, !.status = status]]
    /\ UNCHANGED <<lastReminder, events, lastEvent>>

delete_reminders(ids) ==
    /\ reminders' = Without(reminders, ids)
    /\ UNCHANGED <<lastReminder, events, lastEvent>>

\* A routine stays pending for its next date.
complete_reminder(i) ==
    /\ reminders[i].status = "pending"
    /\ \E s \in {"done", "pending"} : reminders' = [reminders EXCEPT ![i] = [@ EXCEPT !.status = s]]
    /\ UNCHANGED <<lastReminder, events, lastEvent>>

create_calendar_event(t, at) ==
    /\ lastEvent < MaxEvents
    /\ lastEvent' = lastEvent + 1
    /\ events' = With(events, lastEvent + 1,
                      [serial |-> lastEvent + 1, title |-> t, at |-> at])
    /\ UNCHANGED <<reminders, lastReminder>>

Pending == {i \in DOMAIN reminders : reminders[i].status = "pending"}
Upcoming == {i \in DOMAIN events : events[i].at = "soon"}

find_reminders(q, done) ==
    {i \in DOMAIN reminders : /\ reminders[i].title \in Contains[q]
                              /\ done \/ i \in Pending}

find_calendar_events(q) == {i \in Upcoming : events[i].title \in Contains[q]}

-----------------------------------------------------------------------------
(* What a conversation remembers *)

get_reminder_context(k) ==
    IF rctx[k] # None /\ now < rctx[k].until THEN rctx[k] ELSE None

remember_reminder_context(k, t, ids) ==
    rctx' = [rctx EXCEPT ![k] = [title |-> t, ids |-> ids, until |-> now + ContextTTL]]

clear_reminder_context(k) ==
    /\ rctx' = [rctx EXCEPT ![k] = None]
    /\ told' = [told EXCEPT ![k] = Nothing]

get_pending_organizer_cleanup_action(k) ==
    IF cleanup[k] # None /\ now < cleanup[k].until THEN cleanup[k] ELSE None

\* Mutation: the question is answered whatever its age.
get_pending_calendar_action_of_any_age(k) == change[k]

get_pending_calendar_action(k) ==
    IF change[k] # None /\ now < change[k].until THEN change[k] ELSE None

Serials(table, ids) == {table[i].serial : i \in ids}

\* A reply that names reminders.
Tell(k, serials) ==
    told' = [told EXCEPT ![k] = [reminders |-> serials, events |-> {},
                                 until |-> now + ContextTTL]]

\* The one reminder that a message means: the one this conversation dealt
\* with last, if the message repeats its title or says "it", or else the only
\* one that the words find.
_contextual_single_match(k, q, done) ==
    LET ctx == get_reminder_context(k)
        known == {i \in ctx.ids \cap DOMAIN reminders : done \/ i \in Pending}
    IN IF ctx = None \/ q # ctx.title THEN {}
       ELSE IF Cardinality(ctx.ids) = 1 /\ known # {} THEN known
       ELSE find_reminders(q, done)

_find_contextual_matches(k, q, done) ==
    LET found == _contextual_single_match(k, q, done)
    IN IF Cardinality(found) = 1 THEN found ELSE find_reminders(q, done)

-----------------------------------------------------------------------------
(* Messages about reminders *)

SaveReminder(k) ==
    \E t \in Titles :
        /\ create_reminder(NewReminder, t)
        /\ remember_reminder_context(k, t, {NewReminder})
        /\ Tell(k, {lastReminder'})
        /\ UNCHANGED <<pending, now, asked>>

\* A reminder without a time is kept as a title until the time is given.
AskTime(k) ==
    \E t \in Titles :
        /\ remember_reminder_context(k, t, {})
        /\ Tell(k, {})
        /\ UNCHANGED <<store, pending, now, asked>>

\* Of what a listing finds, the context keeps the first few.
ListReminders(k) ==
    \E listed \in SUBSET Pending :
        /\ listed # {} /\ Cardinality(listed) <= ListLimit
        /\ \E first \in listed : remember_reminder_context(k, reminders[first].title, listed)
        /\ Tell(k, Serials(reminders, listed))
        /\ UNCHANGED <<store, pending, now, asked>>

\* The overview shows every pending reminder and every event that is near.
combined_overview_reply(k) ==
    \E listed \in SUBSET Pending :
        /\ listed # {}
        /\ Cardinality(listed) = ListLimit \/ (listed = Pending /\ Cardinality(listed) <= ListLimit)
        /\ \E first \in listed : remember_reminder_context(k, reminders[first].title, listed)
        /\ Tell(k, Serials(reminders, listed))
        /\ UNCHANGED <<store, pending, now, asked>>

CompleteReminder(k) ==
    \E q \in Titles, i \in DOMAIN reminders :
        /\ _find_contextual_matches(k, q, FALSE) = {i}
        /\ complete_reminder(i)
        /\ remember_reminder_context(k, reminders[i].title, {i})
        /\ Tell(k, Serials(reminders, {i}))
        /\ UNCHANGED <<pending, now, asked>>

\* The new date is not kept here.
MoveReminder(k) ==
    \E q \in Titles, i \in DOMAIN reminders :
        /\ _find_contextual_matches(k, q, FALSE) = {i}
        /\ remember_reminder_context(k, reminders[i].title, {i})
        /\ Tell(k, Serials(reminders, {i}))
        /\ UNCHANGED <<store, pending, now, asked>>

DeleteNamed(k, q) ==
    \E i \in DOMAIN reminders :
        /\ _find_contextual_matches(k, q, TRUE) = {i}
        /\ delete_reminders({i})
        /\ clear_reminder_context(k)
        /\ UNCHANGED <<pending, now, asked>>

DeleteReminder(k) == \E q \in Titles : DeleteNamed(k, q)

\* "Delete both": all that is left of what was listed, done or not.
DeleteListed(k) ==
    LET ctx == get_reminder_context(k)
    IN /\ ctx # None /\ ctx.ids \cap DOMAIN reminders # {}
       /\ delete_reminders(ctx.ids)
       /\ clear_reminder_context(k)
       /\ UNCHANGED <<pending, now, asked>>

-----------------------------------------------------------------------------
(* Messages about events, and cleanups *)

CreateEvent ==
    /\ \E t \in Titles, at \in {"soon", "far"} : create_calendar_event(t, at)
    /\ UNCHANGED <<rctx, pending, now, told, asked>>

set_pending_organizer_cleanup_action(k, rs, es) ==
    LET until == now + QuestionTTL
    IN /\ cleanup' = [cleanup EXCEPT ![k] = [reminders |-> rs, events |-> es, until |-> until]]
       /\ asked' = [asked EXCEPT ![k] = [@ EXCEPT !.cleanup =
              [reminders |-> Serials(reminders, rs), events |-> Serials(events, es),
               until |-> until]]]

set_pending_calendar_action(k, act, i, t, at) ==
    LET until == now + QuestionTTL
    IN /\ change' = [change EXCEPT ![k] =
              [act |-> act, id |-> i, title |-> t, at |-> at, until |-> until]]
       /\ asked' = [asked EXCEPT ![k] = [@ EXCEPT !.change =
              [reminders |-> {}, events |-> {events[i].serial}, until |-> until]]]

\* What stays is chosen by the language model, by scope or not at all; only
\* what is pending, or near, can go.
organizer_cleanup_reply(k) ==
    \E rs \in SUBSET Pending, es \in SUBSET Upcoming :
        /\ rs # {} \/ es # {}
        /\ set_pending_organizer_cleanup_action(k, rs, es)
        /\ UNCHANGED <<store, rctx, change, now, told>>

\* "Delete all events": far ones too.
AskDeleteAllEvents(k) ==
    /\ DOMAIN events # {}
    /\ set_pending_organizer_cleanup_action(k, {}, DOMAIN events)
    /\ UNCHANGED <<store, rctx, change, now, told>>

calendar_delete_request_reply(k) ==
    \E q \in Titles, i \in DOMAIN events :
        /\ find_calendar_events(q) = {i}
        /\ set_pending_calendar_action(k, "delete", i, events[i].title, events[i].at)
        /\ UNCHANGED <<store, rctx, cleanup, now, told>>

\* A new title, or a new date.
calendar_update_request_reply(k) ==
    \E q \in Titles, i \in DOMAIN events, t \in Titles, at \in {"soon", "far"} :
        /\ find_calendar_events(q) = {i}
        /\ (t = events[i].title) # (at = events[i].at)
        /\ set_pending_calendar_action(k, "update", i, t, at)
        /\ UNCHANGED <<store, rctx, cleanup, now, told>>

-----------------------------------------------------------------------------
(* "Yes" and "cancel".  A cleanup is answered before a calendar question,  *)
(* whichever was asked last.                                               *)

clear_pending_organizer_cleanup_action(k) ==
    /\ cleanup' = [cleanup EXCEPT ![k] = None]
    /\ asked' = [asked EXCEPT ![k] = [@ EXCEPT !.cleanup = Nothing]]
    /\ UNCHANGED change

clear_pending_calendar_action(k) ==
    /\ change' = [change EXCEPT ![k] = None]
    /\ asked' = [asked EXCEPT ![k] = [@ EXCEPT !.change = Nothing]]
    /\ UNCHANGED cleanup

\* Rows that are gone already are passed over.
YesToCleanup(k) ==
    LET p == get_pending_organizer_cleanup_action(k)
    IN /\ p # None
       /\ clear_pending_organizer_cleanup_action(k)
       /\ reminders' = Without(reminders, p.reminders)
       /\ events' = Without(events, p.events)
       /\ UNCHANGED <<lastReminder, lastEvent, rctx, now, told>>

CancelCleanup(k) ==
    /\ get_pending_organizer_cleanup_action(k) # None
    /\ clear_pending_organizer_cleanup_action(k)
    /\ UNCHANGED <<store, rctx, now, told>>

\* An event that is gone makes the answer an error; the question is spent.
YesToChange(k) ==
    LET p == get_pending_calendar_action(k)
    IN /\ get_pending_organizer_cleanup_action(k) = None /\ p # None
       /\ clear_pending_calendar_action(k)
       /\ events' = IF p.id \notin DOMAIN events THEN events
                    ELSE IF p.act = "delete" THEN Without(events, {p.id})
                    ELSE [events EXCEPT ![p.id] = [@ EXCEPT !.title = p.title, !.at = p.at]]
       /\ UNCHANGED <<reminders, lastReminder, lastEvent, rctx, now, told>>

CancelChange(k) ==
    /\ get_pending_organizer_cleanup_action(k) = None
    /\ get_pending_calendar_action(k) # None
    /\ clear_pending_calendar_action(k)
    /\ UNCHANGED <<store, rctx, now, told>>

-----------------------------------------------------------------------------
(* The reminder routes, the clock, a restart *)

RouteCreate ==
    /\ \E t \in Titles : create_reminder(NewReminder, t)
    /\ UNCHANGED <<rctx, pending, now, told, asked>>

RoutePatch ==
    /\ \E i \in DOMAIN reminders, t \in Titles, s \in {"pending", "done"} :
          update_reminder(i, t, s)
    /\ UNCHANGED <<rctx, pending, now, told, asked>>

RouteComplete ==
    /\ \E i \in DOMAIN reminders : complete_reminder(i)
    /\ UNCHANGED <<rctx, pending, now, told, asked>>

RouteDelete ==
    /\ \E i \in DOMAIN reminders : delete_reminders({i})
    /\ UNCHANGED <<rctx, pending, now, told, asked>>

Tick ==
    /\ now < MaxTime
    /\ now' = now + 1
    /\ UNCHANGED <<store, rctx, pending, told, asked>>

\* Contexts and questions are not kept on disk.
Restart ==
    /\ rctx' = [k \in Keys |-> None]
    /\ cleanup' = [k \in Keys |-> None]
    /\ change' = [k \in Keys |-> None]
    /\ told' = [k \in Keys |-> Nothing]
    /\ asked' = [k \in Keys |-> [cleanup |-> Nothing, change |-> Nothing]]
    /\ UNCHANGED <<store, now>>

execute_reminder_plan(k) ==
    \/ SaveReminder(k) \/ AskTime(k) \/ ListReminders(k)
    \/ CompleteReminder(k) \/ MoveReminder(k) \/ DeleteReminder(k) \/ DeleteListed(k)

execute_organizer_action(k) == combined_overview_reply(k) \/ organizer_cleanup_reply(k)

execute_calendar_plan(k) ==
    \/ CreateEvent \/ AskDeleteAllEvents(k)
    \/ calendar_delete_request_reply(k) \/ calendar_update_request_reply(k)

maybe_handle_pending_confirmation(k) ==
    YesToCleanup(k) \/ CancelCleanup(k) \/ YesToChange(k) \/ CancelChange(k)

Message(k) ==
    \/ maybe_handle_pending_confirmation(k)
    \/ execute_reminder_plan(k) \/ execute_organizer_action(k) \/ execute_calendar_plan(k)

Next ==
    \/ \E k \in Keys : Message(k)
    \/ RouteCreate \/ RoutePatch \/ RouteComplete \/ RouteDelete
    \/ Tick \/ Restart

Spec == Init /\ [][Next]_vars

-----------------------------------------------------------------------------
Live(named) == IF now < named.until THEN named ELSE Nothing

\* The serial numbers of the rows that a step takes away, or changes.
GoneReminders == {reminders[i].serial : i \in DOMAIN reminders}
                   \ {reminders'[i].serial : i \in DOMAIN reminders'}
TouchedEvents == {events[i].serial :
                    i \in {j \in DOMAIN events : j \notin DOMAIN events' \/ events'[j] # events[j]}}

\* A reminder that a message deletes is one that the last reply about
\* reminders in the same conversation named, in the last fifteen minutes, one
\* that the message names, or one of a cleanup that this conversation was
\* asked about.
DeletedWasNamed ==
    [][ GoneReminders # {} => \A k \in Keys :
          /\ DeleteListed(k) => GoneReminders \subseteq Live(told[k]).reminders
          /\ YesToCleanup(k) => GoneReminders \subseteq Live(asked[k].cleanup).reminders
          /\ \A q \in Titles : DeleteNamed(k, q) =>
                GoneReminders \subseteq Live(told[k]).reminders
                  \cup Serials(reminders, find_reminders(q, TRUE)) ]_vars

\* An event is changed or deleted only by the answer to a question that the
\* same conversation was asked about that very event in the last ten minutes,
\* and that was neither answered nor replaced since.
EventsByConsent ==
    [][ TouchedEvents # {} =>
          \E k \in Keys :
             \/ YesToCleanup(k) /\ TouchedEvents \subseteq Live(asked[k].cleanup).events
             \/ YesToChange(k) /\ TouchedEvents \subseteq Live(asked[k].change).events ]_vars
-----------------------------------------------------------------------------
(* Why the properties hold *)

\* An id is never given to a second row.
IdsAreSerials ==
    /\ \A i \in DOMAIN reminders : reminders[i].serial = i /\ i <= lastReminder
    /\ \A i \in DOMAIN events : events[i].serial = i /\ i <= lastEvent

\* What a conversation remembers of its last reply about reminders is what
\* that reply named.
ListingsWereTold ==
    \A k \in Keys : rctx[k] # None =>
        told[k].reminders = rctx[k].ids /\ told[k].until = rctx[k].until

\* What a pending question would change is what it asked about.
QuestionsWereAsked ==
    \A k \in Keys :
        /\ cleanup[k] # None =>
              asked[k].cleanup = [reminders |-> cleanup[k].reminders,
                                  events |-> cleanup[k].events, until |-> cleanup[k].until]
        /\ change[k] # None =>
              asked[k].change = [reminders |-> {}, events |-> {change[k].id},
                                 until |-> change[k].until]

ConsentInv == TypeOK /\ IdsAreSerials /\ ListingsWereTold /\ QuestionsWereAsked
=============================================================================
