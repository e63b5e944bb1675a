------------------------------ MODULE ToolRouter ------------------------------
(***************************************************************************)
(* How a chat message finds the tool that answers it.  The handlers are    *)
(* tried in a fixed order and the first that accepts the message answers   *)
(* it; what is left goes to the capability guard, then to free chat.  Most *)
(* handlers first apply fixed hints to the text and to what they remember  *)
(* of the conversation, and ask the language model when the hints leave it *)
(* open.  Two planners turn one message into several steps, which they run *)
(* until a reply asks something back.                                      *)
(*                                                                         *)
(* A message is the set of the words in it that some hint looks for; what  *)
(* the model answers is open.  The contexts are those of one conversation: *)
(* every one of them is kept per conversation and read nowhere else.  Rows *)
(* are left out (Organizer has them), a reply is only what it tells the    *)
(* user and whether something was changed for it.                          *)
(***************************************************************************)
EXTENDS Naturals, Sequences

CONSTANTS Messages,      \* sets of words
          Prompts,       \* the texts a planner writes for a handler, sets of words too
          Titles,        \* of reminders and of events
          MaxMessages,   \* bound on the messages of a conversation
          MaxSteps,      \* bound on the steps of a plan: the code takes at most four
          None

Words == {"yes", "cancel", "tool", "setup", "remind", "reminder", "event", "show",
          "cleanup", "add", "move", "delete", "also", "only", "that", "again", "what",
          "tomorrow", "5pm", "am", "and", "meta", "weather", "brief", "repo",
          "research", "long"}

ASSUME MessagesAssumption == Messages \subseteq SUBSET Words /\ Prompts \subseteq SUBSET Words
ASSUME MaxMessagesAssumption == MaxMessages \in Nat
ASSUME MaxStepsAssumption == MaxSteps \in 2 .. 4
ASSUME NoneAssumption ==
    None \notin Titles /\ None \notin {"weather", "brief", "organizer", "reminder", "calendar",
                                       "workspace", "research", "asks", "knows", "command",
                                       "file"}

VARIABLES active,      \* the follow-up domain of the conversation
          rem,         \* _reminder_context: the last title, and whether its time was asked
          cal,         \* _calendar_context: the event whose day or time was asked
          wx,          \* _weather_context: whether the place is known or asked
          ws,          \* _workspace_context: what "again" or "more" would repeat
          topics,      \* the brief, research and organizer contexts that are set
          waiting,     \* the pending questions that "yes" answers
          running,     \* whether a host task of the conversation runs
          open,        \* the titles that the user was asked about and has not answered for
          msg,         \* the message being answered
          heard

contexts == <<rem, cal, wx, ws, topics>>
questions == <<waiting, running>>
vars == <<active, contexts, questions, open, msg, heard>>

Domains == {"weather", "brief", "organizer", "reminder", "calendar", "workspace", "research"}

\* The handlers, in the order they are tried.
Order == <<"pending", "command", "setup", "personal", "follow up", "organizer", "route",
           "compound", "weather", "brief", "meta", "reminder", "calendar", "task",
           "workspace", "research", "patterns">>

\* What "yes" can confirm, in the order it is looked for.
Confirmations == {"approval", "task", "cleanup", "change"}

ReminderContext == [title : Titles, awaits : BOOLEAN]
CalendarContext == [pending : Titles \cup {None}]

\* What a reply does: tells, tells of a change, asks which one is meant, or asks for
\* what a context then waits for: a time, a day, a "yes".
Replies == {"told", "changed", "asks", "asks time", "asks day", "asks yes"}

Message == [words : SUBSET Words,
            at : 0 .. Len(Order),               \* the handlers that have declined it
            plan : {"none", "personal", "route", "compound"},
            left : 0 .. 4,                      \* steps of the plan still to run
            domain : Domains \cup {None},       \* of the plan's last reply
            replied : BOOLEAN,                  \* whether the plan has a reply
            changed : BOOLEAN,                  \* whether anything was changed for it
            asked : BOOLEAN,                    \* whether a reply to it asked for a time
            consents : Nat,                     \* how many questions "yes" it put
            end : {"open", "tool", "guard", "chat", "error"}]

TypeOK ==
    /\ active \in Domains \cup {None}
    /\ rem \in ReminderContext \cup {None}
    /\ cal \in CalendarContext \cup {None}
    /\ wx \in {"asks", "knows", None}
    /\ ws \in {"command", "file", None}
    /\ topics \subseteq {"brief", "research", "organizer"}
    /\ waiting \subseteq Confirmations
    /\ running \in BOOLEAN
    /\ open \in [reminder : Titles \cup {None}, event : Titles \cup {None}]
    /\ msg \in Message
    /\ heard \in 0 .. MaxMessages

NewMessage(w) == [words |-> w, at |-> 0, plan |-> "none", left |-> 0, domain |-> None,
                  replied |-> FALSE, changed |-> FALSE, asked |-> FALSE, consents |-> 0,
                  end |-> "open"]

Init ==
    /\ active = None
    /\ rem = None /\ cal = None /\ wx = None /\ ws = None /\ topics = {}
    /\ waiting = {} /\ running = FALSE
    /\ open = [reminder |-> None, event |-> None]
    /\ msg = [NewMessage({}) EXCEPT !.end = "chat"]
    /\ heard = 0

has(w, hints) == w \cap hints # {}

-----------------------------------------------------------------------------
(* What the hints make of a message *)

normalize_confirmation_text(w) == has(w, {"yes", "cancel"})

_looks_like_ambiguous_follow_up(w) ==
    \/ has(w, {"again", "what"})
    \/ "long" \notin w /\ has(w, {"tomorrow", "5pm", "that"})

_ACTIVE_DOMAIN_CUES ==
    [weather |-> {"weather"}, brief |-> {"brief"}, reminder |-> {"remind", "reminder"},
     calendar |-> {"event"}, organizer |-> {"cleanup", "event", "reminder"},
     workspace |-> {"repo"}, research |-> {"research"}]

has_conflicting_domain_cues(w, d) ==
    LET others == IF d = "organizer" THEN {"reminder", "calendar", "organizer"} ELSE {d}
    IN  \E other \in Domains \ others : has(w, _ACTIVE_DOMAIN_CUES[other])

\* The personal planner and the reminder planner differ in what they take for a time.
OrganizerDue(w) == "tomorrow" \in w
ReminderDue(w) == has(w, {"tomorrow", "5pm", "am"})
has_temporal_hint(w) == has(w, {"tomorrow", "5pm"})

\* "I am not sure" looks like a time to the reminder planner and is none.
IsTime(w) == has(w, {"tomorrow", "5pm"})

_looks_like_multi_action_request(w) ==
    "and" \in w /\ "delete" \in w /\ has(w, {"remind", "add", "move"})

_looks_like_combined_overview(w) == {"show", "reminder", "event"} \subseteq w

OnReminder == rem # None /\ active \in {None, "reminder", "organizer"}

_looks_like_reminder_target_confirmation(w) ==
    OnReminder /\ "only" \in w /\ ~has(w, {"move", "tomorrow"})

_looks_like_contextual_additional_reminder_request(w) ==
    OnReminder /\ ~_looks_like_multi_action_request(w) /\ OrganizerDue(w) /\ "also" \in w

\* "tomorrow" is itself one of the hints that ask for a change.
_looks_like_contextual_reminder_time_change(w) ==
    OnReminder /\ ~_looks_like_multi_action_request(w) /\ OrganizerDue(w) /\ "also" \notin w

PersonalHeuristic(w) ==
    \/ _looks_like_combined_overview(w)
    \/ _looks_like_reminder_target_confirmation(w)
    \/ _looks_like_contextual_additional_reminder_request(w)
    \/ _looks_like_contextual_reminder_time_change(w)

_looks_personal_organization_related(w) ==
    \/ has(w, {"reminder", "event"})
    \/ /\ active \in {"organizer", "reminder", "calendar"} \/ rem # None \/ "organizer" \in topics
       /\ has(w, {"that", "only", "yes", "tomorrow"})
    \/ cal # None /\ has(w, {"that", "tomorrow"})

_looks_like_cleanup_request(w) ==
    "cleanup" \in w /\ (has(w, {"reminder", "event"}) \/ "organizer" \in topics)

_looks_like_compound_candidate(w) ==
    "and" \in w /\ has(w, {"remind", "reminder", "event"}) /\ has(w, {"add", "move", "delete"})

_looks_weather_related(w) ==
    \/ "weather" \in w
    \/ wx # None /\ (wx = "asks" \/ "tomorrow" \in w \/ "long" \notin w)

_looks_brief_related(w) ==
    "brief" \in w \/ ("brief" \in topics /\ {"what", "tomorrow"} \subseteq w)

_looks_like_meta_domain_clarification(w) == "meta" \in w

Awaited == rem # None /\ rem.awaits

\* What the reminder planner takes without asking the model.
ReminderHeuristic(w) ==
    \/ Awaited /\ ReminderDue(w)
    \/ {"show", "reminder"} \subseteq w
    \/ rem # None /\ "that" \in w /\ (has(w, {"move", "delete"}) \/ ("also" \in w /\ ReminderDue(w)))
    \/ rem # None /\ ReminderDue(w) /\ has(w, {"move", "only", "yes"})

_looks_reminder_related(w) ==
    \/ has(w, {"remind", "reminder"})
    \/ rem # None /\ (IF rem.awaits THEN ReminderDue(w) ELSE "that" \in w)

CalendarPending == cal # None /\ cal.pending # None

\* What the calendar planner takes without asking the model.
CalendarHeuristic(w) ==
    \/ CalendarPending /\ has_temporal_hint(w)
    \/ {"show", "event"} \subseteq w
    \/ cal # None /\ "what" \in w
    \/ "add" \in w /\ has_temporal_hint(w)
    \/ has(w, {"move", "delete"})

looks_calendar_related(w) ==
    \/ "event" \in w
    \/ CalendarPending /\ has_temporal_hint(w)
    \/ cal # None /\ ("what" \in w \/ ("that" \in w /\ has(w, {"move", "delete"})))

WorkspaceHeuristic(w) == (ws # None /\ "again" \in w) \/ {"repo", "show"} \subseteq w
_looks_workspace_related(w) == has(w, {"repo", "again"})

_looks_research_related(w) == "research" \in w \/ ("research" \in topics /\ "what" \in w)

_looks_like_high_level_task(w) == {"repo", "research"} \subseteq w \/ {"repo", "and"} \subseteq w

\* The domains a message names, or the one it may follow up on.
_matched_domains(w) ==
    LET named == {d \in {"reminder", "calendar"} : has(w, _ACTIVE_DOMAIN_CUES[d])}
    IN  IF named = {"reminder", "calendar"} THEN {"organizer"} ELSE named \cup ({"weather"} \cap w)

_looks_contextual(w) == has(w, {"remind", "show", "add", "move", "delete", "only", "meta"})

maybe_guard_unhandled_managed_request(w) ==
    IF _matched_domains(w) = {"weather"} THEN "tomorrow" \in w
    ELSE /\ _looks_contextual(w)
         /\ _matched_domains(w) # {} \/ active \in {"calendar", "reminder", "organizer", "weather"}

\* Whether the handler of that domain accepts the text without the model, or may.
Sure(d, w) ==
    \/ d = "organizer" /\ (_looks_like_cleanup_request(w) \/ _looks_like_combined_overview(w))
    \/ d = "weather" /\ _looks_weather_related(w) /\ wx # None
    \/ d = "brief" /\ _looks_brief_related(w)
    \/ d = "reminder" /\ (ReminderHeuristic(w) \/ "remind" \in w)
    \/ d = "calendar" /\ CalendarHeuristic(w)
    \/ d = "workspace" /\ WorkspaceHeuristic(w)
    \/ d = "research" /\ _looks_research_related(w)

May(d, w) ==
    \/ Sure(d, w)
    \/ d = "weather" /\ _looks_weather_related(w)
    \/ d = "reminder" /\ _looks_reminder_related(w)
    \/ d = "calendar" /\ looks_calendar_related(w)
    \/ d = "workspace" /\ _looks_workspace_related(w)

FollowsUp(w) ==
    /\ active # None
    /\ _looks_like_ambiguous_follow_up(w)
    /\ ~has_conflicting_domain_cues(w, active)

\* Handlers that take a message whatever the model says.
MustTake(h, w) ==
    \/ h = "pending" /\ normalize_confirmation_text(w) /\ waiting # {}
    \/ h = "command" /\ "tool" \in w
    \/ h = "setup" /\ "setup" \in w
    \/ h = "personal" /\ PersonalHeuristic(w)
    \/ h = "follow up" /\ FollowsUp(w) /\ Sure(active, w)
    \/ h = "task" /\ running
    \/ h \in Domains /\ Sure(h, w)

\* The handler h is reached: those before it that have not been asked yet may decline.
Place(h) == CHOOSE i \in DOMAIN Order : Order[i] = h

Turn(h) ==
    /\ msg.end = "open" /\ msg.plan = "none" /\ msg.at < Place(h)
    /\ \A i \in (msg.at + 1) .. (Place(h) - 1) : ~MustTake(Order[i], msg.words)

-----------------------------------------------------------------------------
(* Replies *)

\* Mutations: a plan goes on after a question for a "yes"; after one for a time.
BlockingNoYes == {"asks", "asks time"}
BlockingNoTime == {"asks", "asks yes"}

\* The phrases that end a plan are in every question but "What day should I put it on?".
Blocking == {"asks", "asks time", "asks yes"}

\* A handler's reply ends the message; a step's reply joins the plan's.
Speak(d, r) ==
    LET said == [msg EXCEPT !.changed = @ \/ r = "changed",
                            !.asked = @ \/ r = "asks time",
                            !.consents = @ + (IF r = "asks yes" THEN 1 ELSE 0)]
    IN  IF msg.plan = "none"
        THEN /\ msg' = [said EXCEPT !.end = "tool"]
             /\ active' = IF d = None THEN active ELSE d
        ELSE /\ msg' = [said EXCEPT !.replied = TRUE, !.domain = d,
                                    !.left = IF r \in Blocking THEN 0 ELSE @ - 1]
             /\ UNCHANGED active

Tell(d) == Speak(d, "told") /\ UNCHANGED <<contexts, questions, open, heard>>

(* Reminders *)

AboutReminder(context, asked, r) ==
    /\ rem' = context
    /\ open' = [open EXCEPT !.reminder = asked]
    /\ Speak("reminder", r)
    /\ UNCHANGED <<cal, wx, ws, topics, questions, heard>>

Seen(t) == [title |-> t, awaits |-> FALSE]
Answered(asked, t) == IF asked = t THEN None ELSE asked

SaveReminder(t) == AboutReminder(Seen(t), Answered(open.reminder, t), "changed")
AskTime(t) == AboutReminder([title |-> t, awaits |-> TRUE], t, "asks time")
RefuseReminder == \E r \in {"told", "asks"} : AboutReminder(rem, open.reminder, r)

execute_reminder_plan(action, t) ==
    \/ action = "create" /\ (SaveReminder(t) \/ AskTime(t))
    \/ action = "list" /\ \E c \in {rem, Seen(t)} : AboutReminder(c, open.reminder, "told")
    \/ action \in {"complete", "move"} /\ AboutReminder(Seen(t), open.reminder, "changed")
    \/ action = "delete" /\ AboutReminder(None, open.reminder, "changed")
    \/ RefuseReminder

ReminderActions == {"create", "list", "complete", "move", "delete"}

\* What the words ask for when the planner takes them without the model.
ReminderHint(w) ==
    {a \in ReminderActions : \/ a \in w
                             \/ a = "create" /\ rem # None /\ "also" \in w
                             \/ a = "list" /\ "show" \in w
                             \/ a = "move" /\ has(w, {"only", "yes"})}

\* A text with something like a time answers the question for a time; a reference to the
\* reminder last spoken of is about that one; everything else is what the model makes of it.
maybe_handle_reminder_request(w) ==
    LET answers == Awaited /\ ReminderDue(w)
    IN  \/ answers /\ IsTime(w) /\ SaveReminder(rem.title)
        \/ answers /\ ~IsTime(w) /\ RefuseReminder
        \/ /\ ~answers
           /\ \E action \in ReminderActions, t \in Titles :
                 /\ ReminderHeuristic(w) => action \in ReminderHint(w)
                 /\ ReminderHeuristic(w) /\ action = "create" => t = rem.title
                 /\ execute_reminder_plan(action, t)

(* Calendar *)

AboutCalendar(context, asked, puts, r) ==
    /\ cal' = context
    /\ open' = [open EXCEPT !.event = asked]
    /\ waiting' = waiting \cup puts
    /\ Speak("calendar", r)
    /\ UNCHANGED <<rem, wx, ws, topics, running, heard>>

NothingPending == [pending |-> None]

\* "kept" is the context when the plan is executed: the calendar planner has by then
\* remembered its own plan, which drops a question that was open.
calendar_create_reply(t, kept) ==
    \/ AboutCalendar(IF kept = None THEN None ELSE NothingPending, Answered(open.event, t), {}, "changed")
    \/ \E r \in {"asks time", "asks day"} : AboutCalendar([pending |-> t], t, {}, r)

execute_calendar_plan(action, t, kept) ==
    \/ action = "create" /\ calendar_create_reply(t, kept)
    \/ action = "lookup" /\ AboutCalendar(kept, open.event, {}, "told")
    \/ action \in {"move", "delete"} /\ AboutCalendar(kept, open.event, {"change"}, "asks yes")
    \/ action = "delete" /\ AboutCalendar(kept, open.event, {"cleanup"}, "asks yes")
    \/ \E r \in {"told", "asks"} : AboutCalendar(kept, open.event, {}, r)

CalendarActions == {"create", "lookup", "move", "delete"}

CalendarHint(w) ==
    {a \in CalendarActions : \/ a \in w
                             \/ a = "create" /\ "add" \in w
                             \/ a = "lookup" /\ has(w, {"show", "what"})}

maybe_calendar_tool_response(w) ==
    LET answers == CalendarPending /\ has_temporal_hint(w)
    IN  \/ answers /\ calendar_create_reply(cal.pending, NothingPending)
        \/ /\ ~answers
           /\ \E action \in CalendarActions, t \in Titles :
                 /\ CalendarHeuristic(w) => action \in CalendarHint(w)
                 /\ execute_calendar_plan(action, t, NothingPending)

(* The other tools *)

execute_organizer_action(action) ==
    /\ topics' = topics \cup {"organizer"}
    /\ \/ /\ action = "overview"
          /\ Speak("organizer", "told")
          /\ rem' \in {rem} \cup {Seen(t) : t \in Titles}
          /\ UNCHANGED waiting
       \/ /\ action = "cleanup"
          /\ \/ Speak("organizer", "asks yes") /\ waiting' = waiting \cup {"cleanup"}
             \/ \E r \in {"told", "asks"} : Speak("organizer", r) /\ UNCHANGED waiting
          /\ UNCHANGED rem
    /\ UNCHANGED <<cal, wx, ws, running, open, heard>>

maybe_organizer_tool_response(w) ==
    IF _looks_like_cleanup_request(w) THEN execute_organizer_action("cleanup")
    ELSE _looks_like_combined_overview(w) /\ execute_organizer_action("overview")

\* A planner that fails is reported with no domain, and the follow-up domain stays.
maybe_weather_tool_response ==
    \/ /\ wx' \in {"asks", "knows"} /\ Speak("weather", "told")
       /\ UNCHANGED <<rem, cal, ws, topics, questions, open, heard>>
    \/ Tell(None)

AboutTopic(d) ==
    /\ topics' = topics \cup {d} /\ Speak(d, "told")
    /\ UNCHANGED <<rem, cal, wx, ws, questions, open, heard>>

\* Blocked, staged for approval, or run; only a run is remembered.
guard_command_tool_response ==
    \/ Tell("workspace")
    \/ /\ waiting' = waiting \cup {"approval"} /\ Speak("workspace", "asks yes")
       /\ UNCHANGED <<contexts, running, open, heard>>
    \/ /\ ws' = "command" /\ Speak("workspace", "changed")
       /\ UNCHANGED <<rem, cal, wx, topics, questions, open, heard>>

execute_workspace_plan ==
    \/ guard_command_tool_response
    \/ /\ ws' = "file" /\ Speak("workspace", "told")
       /\ UNCHANGED <<rem, cal, wx, topics, questions, open, heard>>

\* The handler of that domain is given the text w.
Respond(d, w) ==
    \/ d = "organizer" /\ maybe_organizer_tool_response(w)
    \/ d = "reminder" /\ maybe_handle_reminder_request(w)
    \/ d = "calendar" /\ maybe_calendar_tool_response(w)
    \/ d = "weather" /\ maybe_weather_tool_response
    \/ d \in {"brief", "research"} /\ AboutTopic(d)
    \/ d = "workspace" /\ execute_workspace_plan

-----------------------------------------------------------------------------
(* The handlers *)

\* "yes" and "cancel" go to the first question that waits, whichever was asked last.
FirstWaiting == CASE "approval" \in waiting -> "approval"
                  [] "approval" \notin waiting /\ "task" \in waiting -> "task"
                  [] waiting \cap {"approval", "task"} = {} /\ "cleanup" \in waiting -> "cleanup"
                  [] waiting = {"change"} -> "change"

maybe_handle_pending_confirmation ==
    /\ Turn("pending") /\ normalize_confirmation_text(msg.words) /\ waiting # {}
    /\ LET q == FirstWaiting
           host == q \in {"approval", "task"}
       IN  /\ waiting' = waiting \ {q}
           /\ \/ /\ "cancel" \in msg.words
                 /\ Speak(IF host THEN "workspace" ELSE None, "told")
                 /\ UNCHANGED <<ws, running>>
              \/ /\ "cancel" \notin msg.words
                 /\ \E r \in {"told", "changed"} :
                       Speak(CASE host -> "workspace" [] q = "change" -> "calendar" [] OTHER -> None, r)
                 /\ ws' \in IF q = "approval" THEN {ws, "command", "file"} ELSE {ws}
                 /\ running' = (running \/ q = "task")
              \/ /\ "cancel" \notin msg.words /\ q = "change"      \* the event is gone
                 /\ msg' = [msg EXCEPT !.end = "error"]
                 /\ UNCHANGED <<active, ws, running>>
    /\ UNCHANGED <<rem, cal, wx, topics, open, heard>>

\* "/tool": the reminder, brief and search commands leave the conversation's contexts alone,
\* so one that waits for a reminder's time goes on waiting when "/tool reminder add" saves it.
maybe_handle_tool_command ==
    /\ Turn("command") /\ "tool" \in msg.words
    /\ \/ Tell(None)
       \/ "weather" \in msg.words /\ maybe_weather_tool_response
       \/ "repo" \in msg.words /\ (guard_command_tool_response \/ Tell("workspace"))
       \/ \E d \in {"brief", "research"} \cap msg.words : Tell(d)
       \/ /\ "reminder" \in msg.words
          /\ \/ \E r \in {"told", "changed"} : Speak("reminder", r) /\ UNCHANGED open
             \/ /\ Speak("reminder", "changed")
                /\ \E t \in Titles : open' = [open EXCEPT !.reminder = Answered(@, t)]
          /\ UNCHANGED <<contexts, questions, heard>>
       \/ /\ "event" \in msg.words
          /\ \E action \in CalendarActions, t \in Titles : execute_calendar_plan(action, t, cal)

begin_calendar_setup == Turn("setup") /\ "setup" \in msg.words /\ Tell("calendar")

StartPlan(kind, n) ==
    /\ msg' = [msg EXCEPT !.plan = kind, !.left = n]
    /\ UNCHANGED <<active, contexts, questions, open, heard>>

\* What the personal planner does without the model; "tomorrow" moves the reminder last
\* spoken of, also when its time was asked for and it is not saved yet.
maybe_plan_personal_organization_request ==
    LET w == msg.words
    IN  /\ Turn("personal")
        /\ \/ _looks_like_combined_overview(w) /\ execute_organizer_action("overview")
           \/ /\ ~_looks_like_combined_overview(w)
              /\ \/ _looks_like_reminder_target_confirmation(w) /\ Tell("reminder")
                 \/ /\ _looks_like_contextual_additional_reminder_request(w)
                    /\ execute_reminder_plan("create", rem.title)
                 \/ /\ _looks_like_contextual_reminder_time_change(w)
                    /\ \E t \in Titles : execute_reminder_plan("move", t)
           \/ /\ ~PersonalHeuristic(w) /\ _looks_personal_organization_related(w)
              /\ \E n \in 1 .. MaxSteps : StartPlan("personal", n)

maybe_active_follow_up_response ==
    Turn("follow up") /\ FollowsUp(msg.words) /\ May(active, msg.words) /\ Respond(active, msg.words)

\* The router's model names a domain and rewrites the text, or lists the steps.
maybe_planned_tool_response ==
    /\ Turn("route")
    /\ \/ \E d \in Domains, w \in Prompts : May(d, w) /\ Respond(d, w)
       \/ \E n \in 2 .. MaxSteps : StartPlan("route", n)

maybe_compound_tool_response ==
    /\ Turn("compound") /\ _looks_like_compound_candidate(msg.words)
    /\ \E n \in (2 .. 3) \cap (2 .. MaxSteps) : StartPlan("compound", n)

\* The handler of a domain, in its own place.
DomainHandler ==
    \E d \in Domains : Turn(d) /\ May(d, msg.words) /\ Respond(d, msg.words)

\* With nothing to speak of, the answer is "not handled" and no handler after it is tried.
_maybe_meta_domain_clarification_response ==
    /\ Turn("meta") /\ _looks_like_meta_domain_clarification(msg.words)
    /\ \/ rem # None /\ Tell("reminder")
       \/ cal # None /\ Tell("calendar")
       \/ rem # None /\ cal # None /\ Tell("organizer")
       \/ /\ msg' = [msg EXCEPT !.at = Len(Order)]
          /\ UNCHANGED <<active, contexts, questions, open, heard>>

maybe_host_task_response ==
    /\ Turn("task")
    /\ \/ (running \/ _looks_like_high_level_task(msg.words)) /\ Tell("workspace")
       \/ /\ ~running /\ _looks_like_high_level_task(msg.words)
          /\ waiting' = waiting \cup {"task"} /\ Speak("workspace", "asks yes")
          /\ UNCHANGED <<contexts, running, open, heard>>

\* The fixed patterns that are tried last; they remember no context of their own.
maybe_handle_natural_language_tool_request ==
    /\ Turn("patterns")
    /\ \/ /\ has(msg.words, {"event", "add", "move", "delete"})
          /\ \E action \in CalendarActions, t \in Titles : execute_calendar_plan(action, t, cal)
       \/ "research" \in msg.words /\ Tell("research")
       \/ "repo" \in msg.words /\ (Tell("workspace") \/ guard_command_tool_response)

-----------------------------------------------------------------------------
(* The steps of a plan *)

Planning(kinds) == msg.end = "open" /\ msg.plan \in kinds

\* The personal planner's steps are executed as they are, the others are handed as text to
\* the reminder and calendar handlers.
PersonalStep ==
    /\ Planning({"personal"}) /\ msg.left > 0
    /\ \/ \E action \in {"overview", "cleanup"} : execute_organizer_action(action)
       \/ Tell("reminder")
       \/ \E action \in ReminderActions \ {"complete"}, t \in Titles : execute_reminder_plan(action, t)
       \/ \E action \in CalendarActions, t \in Titles : execute_calendar_plan(action, t, cal)

_execute_compound_step ==
    /\ Planning({"route", "compound"}) /\ msg.left > 0
    /\ \E d \in {"reminder", "calendar"}, w \in Prompts : May(d, w) /\ Respond(d, w)

\* Mutation: the plan is given up at the first step without a reply.
DeclineEndsPlan ==
    /\ Planning({"personal", "route", "compound"}) /\ msg.left > 0
    /\ msg' = [msg EXCEPT !.plan = "none", !.at = Place(msg.plan)]
    /\ UNCHANGED <<active, contexts, questions, open, heard>>

StepDeclined ==
    /\ Planning({"personal", "route", "compound"}) /\ msg.left > 0
    /\ msg' = [msg EXCEPT !.left = @ - 1]
    /\ UNCHANGED <<active, contexts, questions, open, heard>>

\* The replies are joined into one; without any the next handler is tried.
EndPlan ==
    /\ Planning({"personal", "route", "compound"}) /\ msg.left = 0
    /\ IF msg.replied
       THEN msg' = [msg EXCEPT !.end = "tool"] /\ active' = msg.domain
       ELSE msg' = [msg EXCEPT !.plan = "none", !.at = Place(msg.plan)] /\ UNCHANGED active
    /\ UNCHANGED <<contexts, questions, open, heard>>

-----------------------------------------------------------------------------
(* What no handler takes, and what fails *)

maybe_handle_assistant_tool_request ==
    /\ msg.end = "open" /\ msg.plan = "none"
    /\ \A i \in (msg.at + 1) .. Len(Order) : ~MustTake(Order[i], msg.words)
    /\ \/ /\ maybe_guard_unhandled_managed_request(msg.words)
          /\ msg' = [msg EXCEPT !.end = "guard"]
          /\ active' \in IF _matched_domains(msg.words) = {} THEN {active} ELSE _matched_domains(msg.words)
       \/ /\ ~maybe_guard_unhandled_managed_request(msg.words)
          /\ msg' = [msg EXCEPT !.end = "chat"] /\ UNCHANGED active
    /\ UNCHANGED <<contexts, questions, open, heard>>

\* A planner whose call of the model raises: only the router's and the weather's are caught.
PlannerRaises ==
    /\ \/ Turn("personal") /\ _looks_personal_organization_related(msg.words)
       \/ Turn("compound") /\ _looks_like_compound_candidate(msg.words)
       \/ Turn("task") /\ _looks_like_high_level_task(msg.words)
       \/ \E d \in {"reminder", "calendar", "workspace", "research"} :
             Turn(d) /\ May(d, msg.words) /\ ~Sure(d, msg.words)
       \/ Planning({"route", "compound"}) /\ msg.left > 0
    /\ msg' = [msg EXCEPT !.end = "error"]
    /\ UNCHANGED <<active, contexts, questions, open, heard>>

\* Contexts and questions expire; a host task comes to its end.
Forget ==
    /\ \/ active' = None /\ UNCHANGED <<contexts, questions>>
       \/ rem' = None /\ UNCHANGED <<active, cal, wx, ws, topics, questions>>
       \/ cal' = None /\ UNCHANGED <<active, rem, wx, ws, topics, questions>>
       \/ wx' = None /\ UNCHANGED <<active, rem, cal, ws, topics, questions>>
       \/ ws' = None /\ UNCHANGED <<active, rem, cal, wx, topics, questions>>
       \/ \E d \in topics : topics' = topics \ {d} /\ UNCHANGED <<active, rem, cal, wx, ws, questions>>
       \/ \E q \in waiting : waiting' = waiting \ {q} /\ UNCHANGED <<active, contexts, running>>
    /\ UNCHANGED <<open, msg, heard>>

TaskEnds ==
    /\ running /\ running' = FALSE
    /\ ws' \in {ws, "command", "file"}
    /\ UNCHANGED <<active, rem, cal, wx, topics, waiting, open, msg, heard>>

\* The next message of the conversation.
Hear(w) ==
    /\ msg.end # "open" /\ heard < MaxMessages
    /\ msg' = NewMessage(w) /\ heard' = heard + 1
    /\ UNCHANGED <<active, contexts, questions, open>>

Next ==
    \/ \E w \in Messages : Hear(w)
    \/ maybe_handle_pending_confirmation \/ maybe_handle_tool_command \/ begin_calendar_setup
    \/ maybe_plan_personal_organization_request \/ maybe_active_follow_up_response
    \/ maybe_planned_tool_response \/ maybe_compound_tool_response \/ DomainHandler
    \/ _maybe_meta_domain_clarification_response \/ maybe_host_task_response
    \/ maybe_handle_natural_language_tool_request
    \/ PersonalStep \/ _execute_compound_step \/ StepDeclined \/ EndPlan
    \/ maybe_handle_assistant_tool_request \/ PlannerRaises \/ Forget \/ TaskEnds

Spec == Init /\ [][Next]_vars

-----------------------------------------------------------------------------
(* Properties *)

\* One message never leaves the user with two questions that "yes" could answer: a plan
\* stops at the first (execute_personal_organization_plan, execute_compound_tool_steps).
OneConsentPerMessage == msg.consents <= 1

\* What is said to be untouched was not touched: the capability guard's "I did not read or
\* change ...", and free chat, come only when no step of any plan changed anything.
NothingUnreported == msg.end \in {"guard", "chat"} => ~msg.changed

\* A question for a time that a step of a plan puts is answered by the user and never by
\* the words of the plan's next step, which the handlers would take for the answer: until
\* the message is answered nothing more is changed for it, and the contexts that wait go
\* on waiting, or expire (_is_blocking_response).
TimesComeFromTheUser ==
    [][ msg.end = "open" /\ msg.asked =>
          /\ msg'.changed = msg.changed
          /\ rem' \in {rem, None} /\ cal' \in {cal, None} ]_vars

\* "What time should I set reminder `X` for?  You can say something like `tomorrow at 5pm`":
\* the answer "tomorrow at 5pm", given while X is what was last spoken of, saves X.
AnswerSavesReminder ==
    [][ /\ msg.end = "open" /\ msg'.end = "tool" /\ msg.words = {"tomorrow"}
        /\ Awaited /\ active = "reminder"
        => open'.reminder = None ]_vars

-----------------------------------------------------------------------------
(* Why the first three hold *)

\* The calendar waits for the day or time of an event that was asked about and that this
\* conversation has not saved since: every way to save one clears what waits
\* (calendar_create_reply).  For reminders there is no such rule: "/tool reminder add"
\* saves one behind the back of the context that waits for its time.
EventNotSavedYet == CalendarPending => open.event = cal.pending

ContextsInv ==
    /\ rem \in ReminderContext \cup {None}
    /\ cal \in CalendarContext \cup {None}
    /\ wx \in {"asks", "knows", None}
    /\ ws \in {"command", "file", None}
    /\ topics \subseteq {"brief", "research", "organizer"}
    /\ waiting \subseteq Confirmations
    /\ running \in BOOLEAN
    /\ open \in [reminder : Titles \cup {None}, event : Titles \cup {None}]
    /\ heard \in 0 .. MaxMessages
    /\ EventNotSavedYet

\* Until a message has a reply nothing was changed or asked for it, and a plan
\* that has steps left has not asked for a "yes" or a time.
MessageInv ==
    /\ active \in Domains \cup {None}
    /\ msg \in Message
    /\ OneConsentPerMessage /\ NothingUnreported
    /\ (msg.end = "open" /\ (msg.plan = "none" \/ ~msg.replied)) =>
          msg.consents = 0 /\ ~msg.changed /\ ~msg.asked
    /\ (msg.end = "open" /\ msg.left > 0) => msg.consents = 0 /\ ~msg.asked

RouterInv == ContextsInv /\ MessageInv
=============================================================================
