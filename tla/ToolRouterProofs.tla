-------------------------- MODULE ToolRouterProofs --------------------------
(***************************************************************************)
(* Proofs about ToolRouter: its type invariant, that one message leaves at *)
(* most one question for a "yes" behind, that what is said to be untouched *)
(* was not touched, that no step of a plan answers the question of an      *)
(* earlier one, and that no event is saved twice for one question.         *)
(***************************************************************************)
EXTENDS ToolRouter, TLAPS

USE MessagesAssumption, MaxMessagesAssumption, MaxStepsAssumption, NoneAssumption

-----------------------------------------------------------------------------
(* A reply *)

\* What every tool does in the end: it replies, in a domain or in none.
Replied == \E d \in Domains \cup {None}, r \in Replies : Speak(d, r)

\* A message that a tool may reply to: a handler's turn, or a step that is left.
MayReply == msg.end = "open" /\ (msg.plan = "none" \/ msg.left > 0)

LEMMA HasTurn ==
    ASSUME NEW h, Turn(h)
    PROVE  MayReply
BY DEF Turn, MayReply

\* What a reply leaves of a message.
LEMMA SaidType ==
    ASSUME MessageInv, NEW r \in Replies
    PROVE  LET said == [msg EXCEPT !.changed = @ \/ r = "changed",
                                   !.asked = @ \/ r = "asks time",
                                   !.consents = @ + (IF r = "asks yes" THEN 1 ELSE 0)]
           IN  /\ said \in Message
               /\ said.plan = msg.plan /\ said.left = msg.left
               /\ said.asked = (msg.asked \/ r = "asks time")
               /\ said.consents = msg.consents + (IF r = "asks yes" THEN 1 ELSE 0)
<1>1. msg \in Message
  BY DEF MessageInv
<1>2. (msg.changed \/ r = "changed") \in BOOLEAN /\ (msg.asked \/ r = "asks time") \in BOOLEAN
  OBVIOUS
<1>3. msg.consents + (IF r = "asks yes" THEN 1 ELSE 0) \in Nat
  <2>1. msg.consents \in Nat
    BY <1>1 DEF Message
  <2>2. msg.consents + 1 \in Nat /\ msg.consents + 0 \in Nat
    BY <2>1
  <2>3. CASE r = "asks yes"
    BY <2>2, <2>3
  <2>4. CASE r # "asks yes"
    BY <2>2, <2>4
  <2> QED
    BY <2>3, <2>4
<1> DEFINE b == msg.changed \/ r = "changed"
           a == msg.asked \/ r = "asks time"
           n == msg.consents + (IF r = "asks yes" THEN 1 ELSE 0)
           said == [msg EXCEPT !.changed = b, !.asked = a, !.consents = n]
<1>4. b \in BOOLEAN /\ a \in BOOLEAN /\ n \in Nat
  BY <1>2, <1>3
<1> HIDE DEF b, a, n
<1>5. /\ said \in Message
      /\ said.plan = msg.plan /\ said.left = msg.left
      /\ said.asked = a /\ said.consents = n
  BY <1>1, <1>4 DEF Message
<1> QED
  BY <1>5 DEF b, a, n

\* A reply to a message that has none ends it; a step's reply is the plan's last
\* if it asks for a "yes" or a time.
LEMMA ReplyKeepsMessage ==
    ASSUME MessageInv, MayReply, Replied
    PROVE  MessageInv'
<1> PICK d \in Domains \cup {None}, r \in Replies : Speak(d, r)
  BY DEF Replied
<1> DEFINE said == [msg EXCEPT !.changed = @ \/ r = "changed",
                               !.asked = @ \/ r = "asks time",
                               !.consents = @ + (IF r = "asks yes" THEN 1 ELSE 0)]
<1>1. /\ said \in Message /\ said.plan = msg.plan /\ said.left = msg.left
      /\ said.asked = (msg.asked \/ r = "asks time")
      /\ said.consents = msg.consents + (IF r = "asks yes" THEN 1 ELSE 0)
  BY SaidType
<1>2. /\ msg.end = "open" /\ msg.consents = 0 /\ ~msg.asked
      /\ msg.plan # "none" => msg.left \in 1 .. 4
  BY DEF MessageInv, MayReply, Message
<1>3. IF msg.plan = "none"
      THEN /\ msg' = [said EXCEPT !.end = "tool"]
           /\ active' = IF d = None THEN active ELSE d
      ELSE /\ msg' = [said EXCEPT !.replied = TRUE, !.domain = d,
                                  !.left = IF r \in Blocking THEN 0 ELSE said.left - 1]
           /\ UNCHANGED active
  BY DEF Speak
<1>4. said.consents <= 1 /\ (r \notin Blocking => said.consents = 0 /\ ~said.asked)
  <2> HIDE DEF said
  <2>0. r \notin Blocking => ~said.asked
    BY <1>1, <1>2 DEF Blocking
  <2>1. CASE r = "asks yes"
    <3>1. said.consents = 0 + 1
      BY <1>1, <1>2, <2>1
    <3>2. said.consents <= 1
      BY <3>1
    <3>3. r \in Blocking
      BY <2>1 DEF Blocking
    <3> QED
      BY <3>2, <3>3
  <2>2. CASE r # "asks yes"
    <3>1. said.consents = 0 + 0
      BY <1>1, <1>2, <2>2
    <3> QED
      BY <2>0, <3>1
  <2> QED
    BY <2>1, <2>2
<1> HIDE DEF said
<1>5. CASE msg.plan = "none"
  <2>1. /\ msg' \in Message /\ msg'.end = "tool" /\ msg'.consents = said.consents
    BY <1>1, <1>3, <1>5 DEF Message
  <2> QED
    BY <1>3, <1>4, <1>5, <2>1 DEF MessageInv, OneConsentPerMessage, NothingUnreported
<1>6. CASE msg.plan # "none"
  <2> DEFINE left == IF r \in Blocking THEN 0 ELSE said.left - 1
  <2>1. left \in 0 .. 4 /\ (left > 0 => r \notin Blocking)
    <3>1. said.left \in 1 .. 4
      BY <1>1, <1>2, <1>6
    <3>2. CASE r \in Blocking
      BY <3>2
    <3>3. CASE r \notin Blocking
      BY <3>1, <3>3
    <3> QED
      BY <3>2, <3>3
  <2>2. msg' = [said EXCEPT !.replied = TRUE, !.domain = d, !.left = left] /\ UNCHANGED active
    BY <1>3, <1>6
  <2> HIDE DEF left
  <2>3. /\ msg' \in Message /\ msg'.replied = TRUE /\ msg'.left = left
        /\ msg'.plan = said.plan /\ msg'.consents = said.consents /\ msg'.end = said.end
        /\ msg'.asked = said.asked
    BY <1>1, <2>1, <2>2 DEF Message
  <2>4. said.end = "open"
    <3>1. msg \in Message
      BY DEF MessageInv
    <3> QED
      BY <1>2, <3>1 DEF said, Message
  <2> QED
    BY <1>1, <1>4, <1>6, <2>1, <2>2, <2>3, <2>4
       DEF MessageInv, OneConsentPerMessage, NothingUnreported
<1> QED
  BY <1>5, <1>6

-----------------------------------------------------------------------------
(* The tools *)

\* A tool that only tells something changes no context.
LEMMA TellReplies ==
    ASSUME ContextsInv, NEW d \in Domains \cup {None}, Tell(d)
    PROVE  ContextsInv' /\ Replied
BY DEF Tell, Replied, Replies, ContextsInv, EventNotSavedYet, CalendarPending,
   contexts, questions

\* Reminders.
LEMMA AboutReminderReplies ==
    ASSUME ContextsInv, NEW context \in ReminderContext \cup {None},
           NEW asked \in Titles \cup {None}, NEW r \in Replies,
           AboutReminder(context, asked, r)
    PROVE  ContextsInv' /\ Replied
<1> DEFINE o == [open EXCEPT !.reminder = asked]
<1>1. open \in [reminder : Titles \cup {None}, event : Titles \cup {None}]
  BY DEF ContextsInv
<1>2. o \in [reminder : Titles \cup {None}, event : Titles \cup {None}]
      /\ o.reminder = asked /\ o.event = open.event
  BY <1>1
<1>3. rem' = context /\ open' = o /\ UNCHANGED <<cal, wx, ws, topics, questions, heard>>
  BY DEF AboutReminder
<1> HIDE DEF o
<1>4. Replied
  BY DEF AboutReminder, Replied, Domains
<1> QED
  BY <1>2, <1>3, <1>4 DEF ContextsInv, EventNotSavedYet, CalendarPending, questions

LEMMA RemindersReply ==
    ASSUME ContextsInv, NEW t \in Titles
    PROVE  /\ SaveReminder(t) => ContextsInv' /\ Replied
           /\ RefuseReminder => ContextsInv' /\ Replied
           /\ \A action : execute_reminder_plan(action, t) => ContextsInv' /\ Replied
<1>1. /\ rem \in ReminderContext \cup {None} /\ open.reminder \in Titles \cup {None}
      /\ Seen(t) \in ReminderContext
      /\ Answered(open.reminder, t) \in Titles \cup {None}
  BY DEF ContextsInv, Seen, ReminderContext, Answered
<1>2. {"told", "asks", "asks time", "changed"} \subseteq Replies
  BY DEF Replies
<1>3. SaveReminder(t) => ContextsInv' /\ Replied
  BY <1>1, <1>2, AboutReminderReplies DEF SaveReminder
<1>4. AskTime(t) => ContextsInv' /\ Replied
  <2> DEFINE c == [title |-> t, awaits |-> TRUE]
  <2>1. c \in ReminderContext /\ c.title = t
    BY DEF ReminderContext
  <2>2. AskTime(t) => AboutReminder(c, t, "asks time")
    BY DEF AskTime
  <2> HIDE DEF c
  <2> QED
    BY <1>2, <2>1, <2>2, AboutReminderReplies
<1>5. RefuseReminder => ContextsInv' /\ Replied
  BY <1>1, <1>2, AboutReminderReplies DEF RefuseReminder
<1>6. ASSUME NEW c \in {rem, Seen(t), None}, NEW r \in {"told", "changed"},
             AboutReminder(c, open.reminder, r)
      PROVE  ContextsInv' /\ Replied
  BY <1>1, <1>2, <1>6, AboutReminderReplies
<1>7. ASSUME NEW action, execute_reminder_plan(action, t) PROVE ContextsInv' /\ Replied
  BY <1>3, <1>4, <1>5, <1>6, <1>7 DEF execute_reminder_plan
<1> QED
  BY <1>3, <1>5, <1>7

LEMMA ReminderRequestReplies ==
    ASSUME ContextsInv, NEW w, maybe_handle_reminder_request(w)
    PROVE  ContextsInv' /\ Replied
<1>1. Awaited => rem.title \in Titles
  BY DEF Awaited, ContextsInv, ReminderContext
<1>2. CASE Awaited /\ SaveReminder(rem.title)
  BY <1>1, <1>2, RemindersReply
<1>3. CASE Awaited /\ RefuseReminder
  BY <1>1, <1>3, RemindersReply
<1>4. CASE \E action \in ReminderActions, t \in Titles : execute_reminder_plan(action, t)
  BY <1>4, RemindersReply
<1> QED
  BY <1>2, <1>3, <1>4 DEF maybe_handle_reminder_request

\* The calendar.
LEMMA AboutCalendarReplies ==
    ASSUME ContextsInv, NEW context \in CalendarContext \cup {None},
           NEW asked \in Titles \cup {None}, NEW puts \in SUBSET Confirmations, NEW r \in Replies,
           (context # None /\ context.pending # None) => asked = context.pending,
           AboutCalendar(context, asked, puts, r)
    PROVE  ContextsInv' /\ Replied
<1> DEFINE o == [open EXCEPT !.event = asked]
<1>1. open \in [reminder : Titles \cup {None}, event : Titles \cup {None}]
  BY DEF ContextsInv
<1>2. o \in [reminder : Titles \cup {None}, event : Titles \cup {None}]
      /\ o.reminder = open.reminder /\ o.event = asked
  BY <1>1
<1>3. /\ cal' = context /\ open' = o /\ waiting' = waiting \cup puts
      /\ UNCHANGED <<rem, wx, ws, topics, running, heard>>
  BY DEF AboutCalendar
<1> HIDE DEF o
<1>4. Replied
  BY DEF AboutCalendar, Replied, Domains
<1> QED
  BY <1>2, <1>3, <1>4 DEF ContextsInv, EventNotSavedYet, CalendarPending

LEMMA CreateReplies ==
    ASSUME ContextsInv, NEW t \in Titles, NEW kept \in CalendarContext \cup {None},
           calendar_create_reply(t, kept)
    PROVE  ContextsInv' /\ Replied
<1> DEFINE c == [pending |-> t]
<1>1. /\ Answered(open.event, t) \in Titles \cup {None}
      /\ NothingPending \in CalendarContext /\ NothingPending.pending = None
      /\ c \in CalendarContext /\ c.pending = t
      /\ {"changed", "asks time", "asks day"} \subseteq Replies
  BY DEF ContextsInv, Answered, NothingPending, CalendarContext, Replies
<1>2. \/ \E n \in {None, NothingPending} :
            AboutCalendar(n, Answered(open.event, t), {}, "changed")
      \/ \E r \in {"asks time", "asks day"} : AboutCalendar(c, t, {}, r)
  BY DEF calendar_create_reply
<1> HIDE DEF c
<1> QED
  BY <1>1, <1>2, AboutCalendarReplies

LEMMA CalendarPlanReplies ==
    ASSUME ContextsInv, NEW t \in Titles, NEW kept \in CalendarContext \cup {None},
           kept = cal \/ kept = NothingPending, NEW action, execute_calendar_plan(action, t, kept)
    PROVE  ContextsInv' /\ Replied
<1>1. /\ open.event \in Titles \cup {None}
      /\ (kept # None /\ kept.pending # None) => open.event = kept.pending
      /\ {"told", "asks", "asks yes"} \subseteq Replies
      /\ {"change"} \in SUBSET Confirmations /\ {"cleanup"} \in SUBSET Confirmations
  BY DEF ContextsInv, EventNotSavedYet, CalendarPending, NothingPending, Replies, Confirmations
<1>2. ASSUME NEW puts \in SUBSET Confirmations, NEW r \in {"told", "asks", "asks yes"},
             AboutCalendar(kept, open.event, puts, r)
      PROVE  ContextsInv' /\ Replied
  BY <1>1, <1>2, AboutCalendarReplies
<1> QED
  BY <1>1, <1>2, CreateReplies DEF execute_calendar_plan

LEMMA CalendarRequestReplies ==
    ASSUME ContextsInv, NEW w, maybe_calendar_tool_response(w)
    PROVE  ContextsInv' /\ Replied
<1>1. NothingPending \in CalendarContext
  BY DEF NothingPending, CalendarContext
<1>2. CalendarPending => cal.pending \in Titles
  BY DEF CalendarPending, ContextsInv, CalendarContext
<1>3. \/ CalendarPending /\ calendar_create_reply(cal.pending, NothingPending)
      \/ \E action \in CalendarActions, t \in Titles :
            execute_calendar_plan(action, t, NothingPending)
  BY DEF maybe_calendar_tool_response
<1> QED
  BY <1>1, <1>2, <1>3, CreateReplies, CalendarPlanReplies

\* The other tools.
LEMMA OrganizerReplies ==
    ASSUME ContextsInv, NEW action, execute_organizer_action(action)
    PROVE  ContextsInv' /\ Replied
<1>1. Replied
  BY DEF execute_organizer_action, Replied, Domains, Replies
<1>2. /\ rem' \in {rem} \cup {Seen(t) : t \in Titles}
      /\ waiting' \subseteq waiting \cup {"cleanup"}
      /\ topics' = topics \cup {"organizer"}
      /\ UNCHANGED <<cal, wx, ws, running, open, heard>>
  BY DEF execute_organizer_action
<1>3. \A t \in Titles : Seen(t) \in ReminderContext /\ ~Seen(t).awaits
  BY DEF Seen, ReminderContext
<1>4. rem' \in ReminderContext \cup {None} /\ (rem' = rem \/ ~rem'.awaits)
  BY <1>2, <1>3 DEF ContextsInv
<1> QED
  BY <1>1, <1>2, <1>4 DEF ContextsInv, EventNotSavedYet, CalendarPending, Confirmations

LEMMA OrganizerRequestReplies ==
    ASSUME ContextsInv, NEW w, maybe_organizer_tool_response(w)
    PROVE  ContextsInv' /\ Replied
BY OrganizerReplies DEF maybe_organizer_tool_response

LEMMA WeatherReplies ==
    ASSUME ContextsInv, maybe_weather_tool_response
    PROVE  ContextsInv' /\ Replied
<1>1. CASE Tell(None)
  BY <1>1, TellReplies
<1>2. CASE /\ wx' \in {"asks", "knows"} /\ Speak("weather", "told")
           /\ UNCHANGED <<rem, cal, ws, topics, questions, open, heard>>
  BY <1>2 DEF Replied, Domains, Replies, ContextsInv, EventNotSavedYet,
     CalendarPending, questions
<1> QED
  BY <1>1, <1>2 DEF maybe_weather_tool_response

LEMMA TopicReplies ==
    ASSUME ContextsInv, NEW d \in {"brief", "research"}, AboutTopic(d)
    PROVE  ContextsInv' /\ Replied
BY DEF AboutTopic, Replied, Domains, Replies, ContextsInv, EventNotSavedYet,
   CalendarPending, questions

LEMMA CommandReplies ==
    ASSUME ContextsInv, guard_command_tool_response
    PROVE  ContextsInv' /\ Replied
<1>1. CASE Tell("workspace")
  BY <1>1, TellReplies DEF Domains
<1>2. CASE /\ waiting' = waiting \cup {"approval"} /\ Speak("workspace", "asks yes")
           /\ UNCHANGED <<contexts, running, open, heard>>
  BY <1>2 DEF Replied, Domains, Replies, ContextsInv, EventNotSavedYet,
     CalendarPending, contexts, Confirmations
<1>3. CASE /\ ws' = "command" /\ Speak("workspace", "changed")
           /\ UNCHANGED <<rem, cal, wx, topics, questions, open, heard>>
  BY <1>3 DEF Replied, Domains, Replies, ContextsInv, EventNotSavedYet,
     CalendarPending, questions
<1> QED
  BY <1>1, <1>2, <1>3 DEF guard_command_tool_response

LEMMA WorkspaceReplies ==
    ASSUME ContextsInv, execute_workspace_plan
    PROVE  ContextsInv' /\ Replied
<1>1. CASE /\ ws' = "file" /\ Speak("workspace", "told")
           /\ UNCHANGED <<rem, cal, wx, topics, questions, open, heard>>
  BY <1>1 DEF Replied, Domains, Replies, ContextsInv, EventNotSavedYet,
     CalendarPending, questions
<1> QED
  BY <1>1, CommandReplies DEF execute_workspace_plan

LEMMA RespondReplies ==
    ASSUME ContextsInv, NEW d, NEW w, Respond(d, w)
    PROVE  ContextsInv' /\ Replied
BY OrganizerRequestReplies, ReminderRequestReplies, CalendarRequestReplies, WeatherReplies,
   TopicReplies, WorkspaceReplies DEF Respond

-----------------------------------------------------------------------------
(* The handlers *)

\* A handler either replies or, without touching a context, hands the message on.
LEMMA ContextsUntouched ==
    ASSUME ContextsInv, UNCHANGED <<contexts, questions, open, heard>>
    PROVE  ContextsInv'
BY DEF ContextsInv, EventNotSavedYet, CalendarPending, contexts, questions

LEMMA RepliedKeepsInv ==
    ASSUME RouterInv, MayReply, ContextsInv' /\ Replied
    PROVE  RouterInv'
BY ReplyKeepsMessage DEF RouterInv

\* A plan that starts, declines a step or is given up has changed nothing.
LEMMA PlanPlaces == \A h \in {"personal", "route", "compound"} : Place(h) \in 0 .. Len(Order)
<1>1. Order[4] = "personal" /\ Order[7] = "route" /\ Order[8] = "compound"
  BY DEF Order
<1>2. DOMAIN Order = 1 .. 17 /\ Len(Order) = 17
  BY DEF Order
<1> QED
  BY <1>1, <1>2 DEF Place

LEMMA StartPlanKeepsInv ==
    ASSUME RouterInv, NEW h, Turn(h), NEW kind \in {"personal", "route", "compound"},
           NEW n \in 1 .. 4, StartPlan(kind, n)
    PROVE  RouterInv'
<1>1. msg \in Message
  BY DEF RouterInv, MessageInv
<1>2. msg' = [msg EXCEPT !.plan = kind, !.left = n]
  BY DEF StartPlan
<1>3. /\ msg' \in Message /\ msg'.end = msg.end /\ msg'.consents = msg.consents
      /\ msg'.changed = msg.changed /\ msg'.asked = msg.asked
  <2>1. n \in 0 .. 4
    OBVIOUS
  <2> QED
    BY <1>1, <1>2, <2>1 DEF Message
<1>4. msg.end = "open" /\ msg.consents = 0 /\ ~msg.changed /\ ~msg.asked
  BY DEF Turn, RouterInv, MessageInv
<1>5. MessageInv'
  BY <1>3, <1>4 DEF StartPlan, RouterInv, MessageInv, OneConsentPerMessage, NothingUnreported
<1> QED
  BY <1>5, ContextsUntouched DEF RouterInv, StartPlan

\* "yes" and "cancel".
LEMMA ConfirmationKeepsInv ==
    ASSUME RouterInv, maybe_handle_pending_confirmation
    PROVE  RouterInv'
<1>1. ContextsInv'
  <2>1. /\ waiting' \subseteq waiting /\ ws' \in {ws, "command", "file"}
        /\ running' \in BOOLEAN
        /\ UNCHANGED <<rem, cal, wx, topics, open, heard>>
    BY DEF maybe_handle_pending_confirmation, RouterInv, ContextsInv
  <2> QED
    BY <2>1 DEF RouterInv, ContextsInv, EventNotSavedYet, CalendarPending
<1>2. MayReply
  BY HasTurn DEF maybe_handle_pending_confirmation
<1>3. Replied \/ (msg' = [msg EXCEPT !.end = "error"] /\ UNCHANGED active)
  BY DEF maybe_handle_pending_confirmation, Replied, Domains, Replies
<1>4. ASSUME msg' = [msg EXCEPT !.end = "error"], UNCHANGED active PROVE MessageInv'
  <2>1. msg \in Message
    BY DEF RouterInv, MessageInv
  <2>2. msg' \in Message /\ msg'.end = "error" /\ msg'.consents = msg.consents
    BY <1>4, <2>1 DEF Message
  <2> QED
    BY <1>4, <2>2 DEF RouterInv, MessageInv, OneConsentPerMessage, NothingUnreported
<1> QED
  BY <1>1, <1>2, <1>3, <1>4, ReplyKeepsMessage DEF RouterInv

LEMMA CommandKeepsInv ==
    ASSUME RouterInv, maybe_handle_tool_command
    PROVE  RouterInv'
<1>1. MayReply
  BY HasTurn DEF maybe_handle_tool_command
<1> USE DEF RouterInv
<1>2. cal \in CalendarContext \cup {None}
  BY DEF ContextsInv
<1>3. ASSUME NEW r \in {"told", "changed"}, Speak("reminder", r),
             UNCHANGED <<contexts, questions, heard>>,
             UNCHANGED open \/ \E t \in Titles :
                 open' = [open EXCEPT !.reminder = Answered(open.reminder, t)]
      PROVE  ContextsInv' /\ Replied
  <2>1. open \in [reminder : Titles \cup {None}, event : Titles \cup {None}]
    BY DEF ContextsInv
  <2>2. open' \in [reminder : Titles \cup {None}, event : Titles \cup {None}]
        /\ open'.event = open.event
    BY <1>3, <2>1 DEF Answered
  <2> QED
    BY <1>3, <2>2 DEF ContextsInv, EventNotSavedYet, CalendarPending, contexts, questions,
       Replied, Domains, Replies
<1>4. ContextsInv' /\ Replied
  BY <1>2, <1>3, TellReplies, WeatherReplies, CommandReplies, CalendarPlanReplies
     DEF maybe_handle_tool_command, Domains
<1> QED
  BY <1>1, <1>4, RepliedKeepsInv

LEMMA PersonalKeepsInv ==
    ASSUME RouterInv, maybe_plan_personal_organization_request
    PROVE  RouterInv'
<1>1. MayReply
  BY HasTurn DEF maybe_plan_personal_organization_request
<1>2. rem # None => rem.title \in Titles
  BY DEF RouterInv, ContextsInv, ReminderContext
<1>3. CASE \E n \in 1 .. MaxSteps : StartPlan("personal", n)
  BY <1>3, StartPlanKeepsInv DEF maybe_plan_personal_organization_request
<1>4. CASE execute_organizer_action("overview")
  BY <1>1, <1>4, OrganizerReplies, RepliedKeepsInv DEF RouterInv
<1>5. CASE Tell("reminder")
  BY <1>1, <1>5, TellReplies, RepliedKeepsInv DEF RouterInv, Domains
<1>6. CASE rem # None /\ execute_reminder_plan("create", rem.title)
  BY <1>1, <1>2, <1>6, RemindersReply, RepliedKeepsInv DEF RouterInv
<1>7. CASE \E t \in Titles : execute_reminder_plan("move", t)
  BY <1>1, <1>7, RemindersReply, RepliedKeepsInv DEF RouterInv
<1> QED
  BY <1>3, <1>4, <1>5, <1>6, <1>7
     DEF maybe_plan_personal_organization_request,
         _looks_like_contextual_additional_reminder_request, OnReminder

LEMMA RoutesKeepInv ==
    ASSUME RouterInv,
           \/ maybe_active_follow_up_response \/ maybe_planned_tool_response
           \/ maybe_compound_tool_response \/ DomainHandler
    PROVE  RouterInv'
<1>1. ASSUME NEW h, Turn(h), NEW d, NEW w, Respond(d, w) PROVE RouterInv'
  BY <1>1, HasTurn, RespondReplies, RepliedKeepsInv DEF RouterInv
<1>2. ASSUME NEW h, Turn(h), NEW kind \in {"route", "compound"}, NEW n \in 2 .. MaxSteps,
             StartPlan(kind, n)
      PROVE  RouterInv'
  BY <1>2, StartPlanKeepsInv
<1> QED
  BY <1>1, <1>2 DEF maybe_active_follow_up_response, maybe_planned_tool_response,
     maybe_compound_tool_response, DomainHandler

LEMMA MetaKeepsInv ==
    ASSUME RouterInv, _maybe_meta_domain_clarification_response
    PROVE  RouterInv'
<1>1. MayReply
  BY HasTurn DEF _maybe_meta_domain_clarification_response
<1>2. CASE \E d \in {"reminder", "calendar", "organizer"} : Tell(d)
  BY <1>1, <1>2, TellReplies, RepliedKeepsInv DEF RouterInv, Domains
<1>3. CASE /\ msg' = [msg EXCEPT !.at = Len(Order)]
           /\ UNCHANGED <<active, contexts, questions, open, heard>>
  <2>1. msg \in Message
    BY DEF RouterInv, MessageInv
  <2>2. Len(Order) \in 0 .. Len(Order)
    BY DEF Order
  <2>3. /\ msg' \in Message /\ msg'.end = msg.end /\ msg'.consents = msg.consents
        /\ msg'.changed = msg.changed /\ msg'.plan = msg.plan /\ msg'.left = msg.left
        /\ msg'.replied = msg.replied /\ msg'.asked = msg.asked
    BY <1>3, <2>1, <2>2 DEF Message
  <2>4. MessageInv'
    BY <1>3, <2>3 DEF RouterInv, MessageInv, OneConsentPerMessage, NothingUnreported
  <2> QED
    BY <1>3, <2>4, ContextsUntouched DEF RouterInv
<1> QED
  BY <1>2, <1>3 DEF _maybe_meta_domain_clarification_response

LEMMA TaskKeepsInv ==
    ASSUME RouterInv, maybe_host_task_response
    PROVE  RouterInv'
<1>1. MayReply
  BY HasTurn DEF maybe_host_task_response
<1>2. CASE Tell("workspace")
  BY <1>1, <1>2, TellReplies, RepliedKeepsInv DEF RouterInv, Domains
<1>3. CASE /\ waiting' = waiting \cup {"task"} /\ Speak("workspace", "asks yes")
           /\ UNCHANGED <<contexts, running, open, heard>>
  <2>1. ContextsInv' /\ Replied
    BY <1>3 DEF RouterInv, Replied, Domains, Replies, ContextsInv, EventNotSavedYet,
       CalendarPending, contexts, Confirmations
  <2> QED
    BY <1>1, <2>1, RepliedKeepsInv
<1> QED
  BY <1>2, <1>3 DEF maybe_host_task_response

LEMMA PatternsKeepInv ==
    ASSUME RouterInv, maybe_handle_natural_language_tool_request
    PROVE  RouterInv'
<1>1. MayReply
  BY HasTurn DEF maybe_handle_natural_language_tool_request
<1>2. cal \in CalendarContext \cup {None}
  BY DEF RouterInv, ContextsInv
<1>3. ContextsInv' /\ Replied
  BY <1>2, TellReplies, CommandReplies, CalendarPlanReplies
     DEF RouterInv, maybe_handle_natural_language_tool_request, Domains
<1> QED
  BY <1>1, <1>3, RepliedKeepsInv

-----------------------------------------------------------------------------
(* The steps of a plan *)

LEMMA StepsKeepInv ==
    ASSUME RouterInv, PersonalStep \/ _execute_compound_step
    PROVE  RouterInv'
<1>1. MayReply
  BY DEF PersonalStep, _execute_compound_step, Planning, MayReply
<1>2. cal \in CalendarContext \cup {None}
  BY DEF RouterInv, ContextsInv
<1>3. CASE PersonalStep
  <2>1. ContextsInv' /\ Replied
    BY <1>2, <1>3, OrganizerReplies, TellReplies, RemindersReply, CalendarPlanReplies
       DEF RouterInv, PersonalStep, Domains
  <2> QED
    BY <1>1, <2>1, RepliedKeepsInv
<1>4. CASE _execute_compound_step
  <2>1. ContextsInv' /\ Replied
    BY <1>4, RespondReplies DEF RouterInv, _execute_compound_step
  <2> QED
    BY <1>1, <2>1, RepliedKeepsInv
<1> QED
  BY <1>3, <1>4

\* A message that stays open, or ends without a reply, is as it was but for its place.
LEMMA PlaceKeepsInv ==
    ASSUME RouterInv, UNCHANGED <<contexts, questions, open, heard>>,
           msg' \in Message, msg'.consents = msg.consents, msg'.changed = msg.changed,
           msg'.asked = msg.asked,
           active' \in Domains \cup {None}, msg.end = "open",
           msg'.end \in {"error", "tool"} \/ ~msg.replied \/ msg.plan = "none"
             \/ (msg'.replied = msg.replied /\ msg'.plan = msg.plan),
           msg'.end = "open" /\ msg'.left > 0 => msg.left > 0 \/ msg.plan = "none",
           msg'.end \in {"guard", "chat"} => msg.plan = "none"
    PROVE  RouterInv'
<1>1. MessageInv'
  BY DEF RouterInv, MessageInv, OneConsentPerMessage, NothingUnreported
<1> QED
  BY <1>1, ContextsUntouched DEF RouterInv

LEMMA DeclinedKeepsInv ==
    ASSUME RouterInv, StepDeclined
    PROVE  RouterInv'
<1>1. msg \in Message /\ active \in Domains \cup {None}
  BY DEF RouterInv, MessageInv
<1>2. /\ msg.end = "open" /\ msg.left > 0 /\ msg.left \in 0 .. 4
      /\ msg' = [msg EXCEPT !.left = msg.left - 1]
      /\ UNCHANGED <<active, contexts, questions, open, heard>>
  BY <1>1 DEF StepDeclined, Planning, Message
<1>3. /\ msg' \in Message /\ msg'.consents = msg.consents /\ msg'.changed = msg.changed
      /\ msg'.replied = msg.replied /\ msg'.plan = msg.plan /\ msg'.end = "open"
      /\ msg'.asked = msg.asked
  BY <1>1, <1>2 DEF Message
<1> QED
  BY <1>1, <1>2, <1>3, PlaceKeepsInv

LEMMA EndKeepsInv ==
    ASSUME RouterInv, EndPlan
    PROVE  RouterInv'
<1>1. msg \in Message /\ active \in Domains \cup {None} /\ msg.domain \in Domains \cup {None}
  BY DEF RouterInv, MessageInv, Message
<1>2. /\ msg.end = "open" /\ msg.left = 0 /\ Place(msg.plan) \in 0 .. Len(Order)
      /\ UNCHANGED <<contexts, questions, open, heard>>
  BY PlanPlaces DEF EndPlan, Planning
<1>3. CASE msg.replied
  <2>1. msg' = [msg EXCEPT !.end = "tool"] /\ active' = msg.domain
    BY <1>3 DEF EndPlan
  <2>2. /\ msg' \in Message /\ msg'.consents = msg.consents /\ msg'.changed = msg.changed
        /\ msg'.end = "tool" /\ msg'.asked = msg.asked
    BY <1>1, <2>1 DEF Message
  <2> QED
    BY <1>1, <1>2, <2>1, <2>2, PlaceKeepsInv
<1>4. CASE ~msg.replied
  <2>1. msg' = [msg EXCEPT !.plan = "none", !.at = Place(msg.plan)] /\ UNCHANGED active
    BY <1>4 DEF EndPlan
  <2>2. /\ msg' \in Message /\ msg'.consents = msg.consents /\ msg'.changed = msg.changed
        /\ msg'.end = "open" /\ msg'.left = 0 /\ msg'.asked = msg.asked
    BY <1>1, <1>2, <2>1 DEF Message
  <2> QED
    BY <1>1, <1>2, <1>4, <2>1, <2>2, PlaceKeepsInv
<1> QED
  BY <1>3, <1>4

LEMMA LeftOverKeepsInv ==
    ASSUME RouterInv, maybe_handle_assistant_tool_request \/ PlannerRaises
    PROVE  RouterInv'
<1>1. msg \in Message /\ active \in Domains \cup {None}
  BY DEF RouterInv, MessageInv
<1>2. ASSUME NEW e \in {"guard", "chat", "error"}, msg' = [msg EXCEPT !.end = e],
             msg.end = "open", e = "error" \/ msg.plan = "none", active' \in Domains \cup {None},
             UNCHANGED <<contexts, questions, open, heard>>
      PROVE  RouterInv'
  <2>1. /\ msg' \in Message /\ msg'.consents = msg.consents /\ msg'.changed = msg.changed
        /\ msg'.end = e /\ msg'.asked = msg.asked
    BY <1>1, <1>2 DEF Message
  <2> QED
    BY <1>1, <1>2, <2>1, PlaceKeepsInv
<1>3. CASE maybe_handle_assistant_tool_request
  <2>1. _matched_domains(msg.words) \subseteq Domains
    BY DEF _matched_domains, Domains
  <2> QED
    BY <1>1, <1>2, <1>3, <2>1 DEF maybe_handle_assistant_tool_request
<1>4. CASE PlannerRaises
  <2>1. msg.end = "open"
    BY <1>4 DEF PlannerRaises, Turn, Planning
  <2> QED
    BY <1>1, <1>2, <1>4, <2>1 DEF PlannerRaises
<1> QED
  BY <1>3, <1>4

LEMMA TimeKeepsInv ==
    ASSUME RouterInv, Forget \/ TaskEnds
    PROVE  RouterInv'
<1>1. CASE Forget
  <2>1. /\ rem' \in {rem, None} /\ cal' \in {cal, None} /\ wx' \in {wx, None}
        /\ ws' \in {ws, None} /\ topics' \subseteq topics /\ waiting' \subseteq waiting
        /\ active' \in {active, None} /\ UNCHANGED <<running, open, msg, heard>>
    BY <1>1 DEF Forget, contexts, questions
  <2>2. ContextsInv'
    BY <2>1 DEF RouterInv, ContextsInv, EventNotSavedYet, CalendarPending
  <2> QED
    BY <2>1, <2>2 DEF RouterInv, MessageInv, OneConsentPerMessage, NothingUnreported
<1>2. CASE TaskEnds
  <2>1. /\ running' = FALSE /\ ws' \in {ws, "command", "file"}
        /\ UNCHANGED <<active, rem, cal, wx, topics, waiting, open, msg, heard>>
    BY <1>2 DEF TaskEnds
  <2>2. ContextsInv'
    BY <2>1 DEF RouterInv, ContextsInv, EventNotSavedYet, CalendarPending
  <2> QED
    BY <2>1, <2>2 DEF RouterInv, MessageInv, OneConsentPerMessage, NothingUnreported
<1> QED
  BY <1>1, <1>2

LEMMA NewMessageType ==
    ASSUME NEW w \in SUBSET Words
    PROVE  /\ NewMessage(w) \in Message /\ NewMessage(w).consents = 0
           /\ ~NewMessage(w).changed /\ ~NewMessage(w).asked
<1>1. 0 \in 0 .. Len(Order)
  BY DEF Order
<1> QED
  BY <1>1 DEF NewMessage, Message

LEMMA HearKeepsInv ==
    ASSUME RouterInv, NEW w \in Messages, Hear(w)
    PROVE  RouterInv'
<1>1. /\ NewMessage(w) \in Message /\ NewMessage(w).consents = 0 /\ ~NewMessage(w).changed
      /\ ~NewMessage(w).asked
  BY NewMessageType
<1>2. /\ msg' = NewMessage(w) /\ heard' \in 0 .. MaxMessages
      /\ UNCHANGED <<active, contexts, questions, open>>
  BY DEF Hear, RouterInv, ContextsInv
<1>3. MessageInv'
  BY <1>1, <1>2 DEF RouterInv, MessageInv, OneConsentPerMessage, NothingUnreported
<1> QED
  BY <1>2, <1>3 DEF RouterInv, ContextsInv, EventNotSavedYet, CalendarPending,
     contexts, questions

LEMMA RouterStep == RouterInv /\ [Next]_vars => RouterInv'
<1> SUFFICES ASSUME RouterInv, [Next]_vars PROVE RouterInv'
  OBVIOUS
<1>1. CASE begin_calendar_setup
  <2>1. MayReply /\ Tell("calendar")
    BY <1>1, HasTurn DEF begin_calendar_setup
  <2> QED
    BY <2>1, TellReplies, RepliedKeepsInv DEF RouterInv, Domains
<1>2. CASE UNCHANGED vars
  BY <1>2, ContextsUntouched DEF RouterInv, MessageInv, OneConsentPerMessage,
     NothingUnreported, vars
<1> QED
  BY <1>1, <1>2, ConfirmationKeepsInv, CommandKeepsInv, PersonalKeepsInv, RoutesKeepInv,
     MetaKeepsInv, TaskKeepsInv, PatternsKeepInv, StepsKeepInv, DeclinedKeepsInv, EndKeepsInv,
     LeftOverKeepsInv, TimeKeepsInv, HearKeepsInv DEF Next

LEMMA RouterInit == Init => RouterInv
<1> SUFFICES ASSUME Init PROVE RouterInv
  OBVIOUS
<1>1. /\ NewMessage({}) \in Message /\ NewMessage({}).consents = 0 /\ ~NewMessage({}).changed
      /\ ~NewMessage({}).asked
  BY NewMessageType
<1>2. msg = [NewMessage({}) EXCEPT !.end = "chat"]
  BY DEF Init
<1>3. msg \in Message /\ msg.consents = 0 /\ ~msg.changed /\ ~msg.asked /\ msg.end = "chat"
  BY <1>1, <1>2 DEF Message
<1>4. MessageInv
  BY <1>3 DEF Init, MessageInv, OneConsentPerMessage, NothingUnreported
<1>5. /\ rem = None /\ cal = None /\ wx = None /\ ws = None /\ topics = {}
      /\ waiting = {} /\ running = FALSE /\ heard = 0
      /\ open = [reminder |-> None, event |-> None]
  BY DEF Init
<1>6. EventNotSavedYet
  BY <1>5 DEF EventNotSavedYet, CalendarPending
<1>7. open \in [reminder : Titles \cup {None}, event : Titles \cup {None}]
  BY <1>5
<1>8. heard \in 0 .. MaxMessages
  BY <1>5
<1>9. ContextsInv
  BY <1>5, <1>6, <1>7, <1>8 DEF ContextsInv
<1> QED
  BY <1>4, <1>9 DEF RouterInv

LEMMA RouterAlways == Spec => []RouterInv
BY RouterInit, RouterStep, PTL DEF Spec

\* The contexts, the questions and the message keep their types.
THEOREM RouterTypeCorrect == Spec => []TypeOK
<1>1. RouterInv => TypeOK
  BY DEF RouterInv, ContextsInv, MessageInv, TypeOK
<1> QED
  BY <1>1, RouterAlways, PTL

\* A plan stops at the first question that "yes" answers.
THEOREM OneConsent == Spec => []OneConsentPerMessage
<1>1. RouterInv => OneConsentPerMessage
  BY DEF RouterInv, MessageInv
<1> QED
  BY <1>1, RouterAlways, PTL

\* The guard and free chat come only when nothing was changed for the message.
THEOREM UntouchedIsUntouched == Spec => []NothingUnreported
<1>1. RouterInv => NothingUnreported
  BY DEF RouterInv, MessageInv
<1> QED
  BY <1>1, RouterAlways, PTL

\* The calendar waits only for an event that was asked about and not saved since.
THEOREM EventsSavedOnce == Spec => []EventNotSavedYet
<1>1. RouterInv => EventNotSavedYet
  BY DEF RouterInv, ContextsInv
<1> QED
  BY <1>1, RouterAlways, PTL

-----------------------------------------------------------------------------
(* After a question for a time *)

\* With the question the plan is at its end, and no handler has a turn any more.
LEMMA AskedEndsThePlan ==
    ASSUME RouterInv, msg.end = "open", msg.asked
    PROVE  msg.plan # "none" /\ msg.replied /\ msg.left = 0
<1>1. msg.plan # "none" /\ msg.replied /\ ~(msg.left > 0)
  BY DEF RouterInv, MessageInv
<1>2. msg.left \in 0 .. 4
  BY DEF RouterInv, MessageInv, Message
<1> QED
  BY <1>1, <1>2

\* No step of a plan answers the question for a time that an earlier one put.
THEOREM AnswersComeFromTheUser == Spec => TimesComeFromTheUser
<1> DEFINE Waits == msg.end = "open" /\ msg.asked =>
                        /\ msg'.changed = msg.changed
                        /\ rem' \in {rem, None} /\ cal' \in {cal, None}
<1>1. ASSUME RouterInv, [Next]_vars, msg.end = "open", msg.asked
      PROVE  /\ msg'.changed = msg.changed
             /\ rem' \in {rem, None} /\ cal' \in {cal, None}
  <2>1. msg \in Message /\ msg.plan # "none" /\ msg.replied /\ msg.left = 0
    BY <1>1, AskedEndsThePlan DEF RouterInv, MessageInv
  <2>2. \A h : ~Turn(h)
    BY <2>1 DEF Turn
  <2>3. ~(msg.left > 0)
    BY <2>1
  <2>4. CASE EndPlan
    <3>1. msg' = [msg EXCEPT !.end = "tool"] /\ UNCHANGED contexts
      BY <2>1, <2>4 DEF EndPlan
    <3> QED
      BY <2>1, <3>1 DEF Message, contexts
  <2>5. CASE Forget \/ TaskEnds \/ UNCHANGED vars
    BY <2>5 DEF Forget, TaskEnds, vars, contexts
  <2> QED
    BY <1>1, <2>1, <2>2, <2>3, <2>4, <2>5
       DEF Next, Hear, maybe_handle_pending_confirmation, maybe_handle_tool_command,
           begin_calendar_setup, maybe_plan_personal_organization_request,
           maybe_active_follow_up_response, maybe_planned_tool_response,
           maybe_compound_tool_response, DomainHandler,
           _maybe_meta_domain_clarification_response, maybe_host_task_response,
           maybe_handle_natural_language_tool_request, PersonalStep, _execute_compound_step,
           StepDeclined, maybe_handle_assistant_tool_request, PlannerRaises, Planning
<1>2. RouterInv /\ [Next]_vars => [Waits]_vars
  BY <1>1
<1> QED
  BY <1>2, RouterAlways, PTL DEF Spec, TimesComeFromTheUser

=============================================================================
