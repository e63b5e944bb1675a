# Jarvin in TLA+

Jarvin is a personal assistant that runs on a host of its own: a FastAPI
process that listens, speaks, chats, keeps conversations, reminders and a
calendar in SQLite, and executes commands and file writes on the host. Phones,
browsers and desktop shells are clients of it over HTTP.

This directory holds TLA+ models of the parts of the host where order, time,
failure and concurrency decide whether it is correct, the TLC runs that check
them on small instances, and theorems that TLAPS proves for instances of any
size. `PROJECT.json` links every definition to the lines it models, every
hazard to the properties that cover it, and every property to a mutation of the
model that breaks it.

    tlc -workers 2 -config HostActions.cfg MCHostActions.tla
    tlapm HostActionsProofs.tla

Eight modules have their theorems in a module `<name>Proofs` beside them; those about
LiveUpdates are in `ConversationsProofs`.

## 1. Inventory

All paths are relative to `src/`. The host has these threads of control: the
asyncio event loop, on which every `async def` route runs and on which a
handler without an `await` cannot be interrupted by another one; worker threads
for what handlers and the listener await (speech synthesis, calibration, reading
the microphone, answering an utterance, waiting for live updates); and one daemon
thread for each running host task. The store is shared by the loop, by the
listener's threads and by the tasks' threads.

### 1.1 The host executes actions

| Component | State | Operations | Interacts with | What is hard | What makes it correct |
|---|---|---|---|---|---|
| Host action approvals: `backend/agent/host_action_approvals.py`, `backend/agent/chat/chat_host_action_approval_flow.py`, `chat_host_action_execution.py`, `chat_pending_actions.py` | one pending approval per conversation key (10 minutes), trust grants per conversation and per session and kind of action (30 minutes) | guard a command or write, deny, approve, trust conversation, trust session, forget what expired | action log (rows), tool runtime (effects), conversation store (cards), chat and approval routes (callers) | two scopes, two expiry times, approvals silently replaced, exceptions between effect and row, restarts | only authorised actions pass the gate, each once, with a row for what happened |
| Host tasks: `backend/agent/tasks/*`, `backend/agent/chat/chat_host_task_request_flow.py`, `chat_host_task_adapters.py` | one pending and one running task per key, a daemon thread per running task | request, deny, start, the thread's steps and reports, recovery, end | the same dictionaries and stores from the event loop and from the threads | interleaving of threads and handlers, exceptions in reports and in handlers of exceptions, cards found by recency | one task per key, steps in order and after approval, cards and rows that never claim more than happened |
| Agent action log: `memory/agent_action_log.py` | rows of `agent_action_events` | append, list | written by both of the above | crash between a row and what it is about | the trail can be read as a history of decisions and outcomes |
| Host tool runtime: `backend/agent/host_tool_runtime.py`, `backend/api/routes/agent_tools.py` | none (effects on the host) | list, search, read, write, run a command | called by the gate, by tasks and by its own HTTP routes, `POST /agent/tools/write` and `/run`, which ask nobody | a write cut short, a command that times out | what comes through the gate or a task was authorised; the routes are an exception (section 3) |

### 1.2 The host talks

| Component | State | Operations | Interacts with | What is hard | What makes it correct |
|---|---|---|---|---|---|
| Conversation store: `memory/conversation.py`, `backend/api/routes/workspace.py` | conversations, turns, the active conversation, profile | create, rename, delete, activate, append, rewrite the newest card, clear | every component that answers | one non-reentrant lock per store; "active" as a fallback for a missing id; rewriting by recency | an append lands in the conversation it answers; every call returns |
| Chat and approval routes: `backend/api/routes/chat.py`, `agent_approvals.py` | none | `/chat`, `/agent/approvals/respond` | tool router, store, speech synthesis, live updates | awaits between handling and appending | one reply per message, in its conversation |
| Tool router: `backend/agent/chat/assistant_chat_tools.py`, `chat_tool_entrypoints.py`, `chat_assistant_router_adapters.py`, follow-ups, compound requests, capability guard | none | route a message to pending confirmations, explicit commands, follow-ups, planners or the model | all of the agent | one word ("yes") and four kinds of pending action | an answer reaches the action it was shown for |
| Organizer and calendar pending actions: `backend/agent/calendar_pending_actions.py`, `chat/chat_organizer_pending_actions.py`, `chat_organizer_context.py` | one pending calendar action and one organizer action per conversation | propose, confirm, cancel, expire | reminders, calendar, router | the same words as host approvals | nothing is deleted or changed without its confirmation |
| Live updates: `backend/listener/live_state.py`, `backend/api/routes/live.py`, `clients/jarvin-ui/src/hooks/useJarvinHost.ts` | one snapshot with a revision, an SSE stream per client | publish, wait, stream, refresh | every route that changes something | coalescing: many updates, one snapshot | a client ends up seeing the last state |
| Request planners and text understanding | none | text to a plan | router | wording | abstract: any plan may come out |
| Weather, research, briefing | none | call a service, format | router | outside services | stateless |

### 1.3 The host listens and speaks

| Component | State | Operations | Interacts with | What is hard | What makes it correct |
|---|---|---|---|---|---|
| Listener: `backend/listener/runner.py`, `loop.py`, `intents.py`, `backend/core/pipeline.py`, `backend/api/routes/control.py`, `audio.py`, `backend/api/app.py`, `backend/middleware/graceful_cancel.py` | listener tasks, stop event, voice shutdown window | start, stop, restart for another microphone, shutdown, an utterance, confirm shutdown | microphone, models, store, live updates | one event shared by every listener, set and cleared; threads nobody can interrupt; expiring windows | one listener at most; a stopped one ends; a voice stops it only when asked twice in time |
| Voice activity: `audio/vad/*`, `audio/mic.py` | counters, pre-roll, frames of the utterance | a frame above or below the threshold | listener | boundaries of counters and limits | no frame lost, doubled or kept past its utterance |
| Voice review: `backend/agent/voice/*`, `backend/api/routes/transcription.py` | one pending clarification (45 seconds) | ask, confirm, correct, expire | listener, router | a late "yes" | only the utterance that was read back is acted upon |
| Speech synthesis and recognition | engines | synthesize, transcribe | routes, listener | external engines | wrappers |
| Local model runtime: `backend/llm/*`, `backend/ai_engine.py` | one loaded model | load, unload, select, generate | routes, listener, planners | loading from several threads | never two models in memory, never an unloaded one in use |

### 1.4 The host remembers

| Component | State | Operations | Interacts with | What is hard | What makes it correct |
|---|---|---|---|---|---|
| Reminders: `memory/reminders.py`, `backend/api/routes/reminders.py` | rows of reminders | create, list, update, complete, delete, next occurrence | router, clients | a completed routine is pending again, so a repeated request is another completion | a routine advances once per completion; a deleted reminder stays deleted |
| Reminder notifications: `clients/jarvin-ui/src/hooks/useReminderNotifications.ts` | scheduled and delivered records of a client | synchronise, enable, disable | reminders, the device | overlapping synchronisations | one notification per due reminder |
| Calendar: `memory/calendar_events.py`, `backend/agent/calendar/*` | events and recurrence rules | create, list occurrences, update, delete | router, integrations | recurrence at month ends | the occurrences are those of the rule |

### 1.5 Around it

The client shell (`clients/jarvin-ui/src/App.tsx`, cards, `lib/api.ts`) decides
which answers a user can give and from which card; the remote voice client
(`hooks/useRemoteVoice.ts`) records and plays back while conversations change.
Configuration, the launcher and packaging have no concurrent state.

## 2. Plan

Done, in this order: **HostActions** with **ActionGate** (the most consequential
thing the host does), **HostTasks** with **TaskSlots** (the part with real
threads), **Listener** with voice review, **Conversations** (the store under
everything that answers), **LiveUpdates** (composed with Conversations),
**Organizer** (rows, contexts and pending questions), **ToolRouter** (which
handler answers a message, and what it leaves for the next one),
**VoiceActivity** (the detector against a definition of an utterance) and
**LocalModel** (one cached runtime, many threads).

| Module | Extends, instantiates | Promises an abstraction |
|---|---|---|
| HostActions | instantiates ActionGate | the life of a request, `ImplementsGate` |
| HostTasks | instantiates TaskSlots | one slot per key, `ImplementsSlots` |
| Conversations | | an exchange is stored whole or not at all |
| LiveUpdates | extends Conversations | a client shows what is stored in the end (it does not) |
| Organizer, ToolRouter, Listener, VoiceActivity, LocalModel | | sections 5 and 7 to 10 |

Left, in the order of what each would add:

1. **HostActionsFaults**: the event loop's own writes and previews may raise in
   the middle of a decision, and approval cards.
2. **ReminderNotifications**: the client's synchronisations, which overlap; then
   due times of reminders and the days of recurring events, as pure functions
   against their definitions.
3. ToolRouter composed with the rows of Organizer and the approvals of
   HostActions, which it now abstracts to which questions wait.
4. **RemoteVoice**, the client's recording and playback.

## 3. HostActions: the approval gate

`HostActions.tla` models one action at a time from the request to the row about
its outcome.

| In the model | In the code |
|---|---|
| `pendingApproval` | `_pending_host_approvals` in `host_action_approvals.py`: one entry per conversation key, so a newer request takes the older one's place |
| `convTrust`, `sessTrust` | `_conversation_action_trust`, `_session_action_trust`: expiry times per key or session and kind of action; 0 stands for a missing entry |
| `run` | where the event loop is between letting an action through and logging its outcome |
| `log` | rows of `agent_action_events`, with the time of each |
| `effects` | a history variable: how often an action took effect on the host |
| `Guard` | `guard_command_tool_response_impl`, `guard_write_tool_command_impl`: by access mode and trust, start, wait or turn away |
| `Decide` | `maybe_handle_pending_confirmation_impl`, the branch for host approvals: deny, approve, trust the conversation, trust the session |
| `Perform`, `LogOutcome` | `run_safe_command` or `write_file`, then the row in `execute_pending_host_approval_impl` and the direct branches of the guards |
| `ToolRoute` | `agent_tools_write`, `agent_tools_run` in `routes/agent_tools.py`: an effect without mode, card, grant or row |
| `ForgetExpiredPending`, `ForgetExpiredTrust` | the deletions inside `get_pending_host_approval` and `get_host_action_trust` |
| `Restart` | the process dies: dictionaries are module globals, the log is SQLite |

A handler does not await, so it is one action up to the point at which the host
is asked to do something. From there `Perform` and `LogOutcome` are steps of
their own, because time passes, commands take long and the host may die in
between; no other handler runs meanwhile (`run.phase = "idle"` guards them). An
effect may succeed, happen and then raise, or raise before anything happened.

`ActionGate.tla` is the contract without conversations, clocks, grants or logs:
a request is new, waits, is authorised, has acted, is closed, and never moves
backwards; or it goes around the gate in one step. `stage` in HostActions is the refinement mapping, `ImplementsGate`
the refinement.

Abstractions: requests are identities that are asked for once (the code has no
identity for a request: asking twice, or posting the same command to the tool
routes, is two requests); the planner decides what
is asked and is not modelled; clocks count ticks; the cards of approvals and
the workspace context are left out; rows that carry no decision are left out.
Writes of the event loop to SQLite and the preview of a failed write are taken
to succeed (a hazard in `PROJECT.json`, item 1 of the plan).

### Properties

`EffectAuthorised` is an action property: whatever takes effect was asked for under
full access, or the log shows a timely answer to its own card, or a live grant of its
kind and scope; the only exception is a request posted to the tool routes. It speaks
about effects and the log and never about the dictionaries the guards look at, so it
would catch a guard that looks at the wrong one. (The effects of host tasks are in
section 4.)
`AtMostOnce`, `AuditTrail`, `EffectOnRecord` are about effects and rows across
replacements, expiry, exceptions and restarts. `PendingKept` is an action
property as well: a waiting approval leaves only for a reason in its own conversation.

### Run

| Run | Instance | Shows |
|---|---|---|
| `host_actions` | two commands, two conversations, two sessions (one of them the missing id), approvals of one tick, trust of two ticks, clock to 2 | the safety properties and the refinement. An approval can expire under a live grant, a grant can outlive another conversation's approval, and a request can replace another. Conversations are symmetric |

Two requests are enough for everything that relates two actions: one replaces,
trusts, expires under the other. Both are commands; that a grant for one kind of
action never lets the other kind through is part of `EffectAuthorised`, which is
proved for any set of requests of both kinds (section 11). The clock reaches past
every expiry.

### Where the code disagrees with its own words

`docs/architecture.md:251` lists among the important invariants that "Risky actions
should remain confirmable and auditable". The routes `/agent/tools/write` and
`/agent/tools/run` (`backend/api/routes/agent_tools.py:76-97`, mounted at
`backend/api/app.py:132`) call `write_file` and `run_safe_command` directly: no access
mode is read, no card is shown and no row is written. The model has them as
`ToolRoute`, the abstract gate as `GoAround`; a property that forbids them fails at
once, so `EffectAuthorised` names them and no run is spent on it.

## 4. HostTasks: threads, cards and rows

| In the model | In the code |
|---|---|
| `pendingTask`, `runningTask` | `_pending_host_tasks`, `_running_host_tasks` in `host_task_state.py` |
| `worker[t]` | the daemon thread of task t in `_run_host_task`: place in the code, step counter, its list of step statuses |
| `cards[c]` | the turns with a `task_request` payload in conversation c, oldest first |
| `speaking` | `/chat` replies whose speech is being synthesised (`await asyncio.to_thread(...)`), not appended yet |
| `active`, `ConversationOf` | the active conversation, which a missing id resolves to at the moment of each call |
| `log`, `ran` | `host_task` rows; a history of executed steps and how they ended |
| `RequestTask` (`BlockTask`, `OfferTask`) | `maybe_host_task_response_impl` with the route that appends the reply |
| `Decide` (`DenyTask`, `StartTask`) | the task branch of `maybe_handle_pending_confirmation_impl`, `start_host_task_execution` |
| `MarkStep` … `ClearRunning` | `_run_host_task` between any two writes: mark the step, execute it, report it; the failure path; the final report; the outer exception handler; the finally clause |
| `Raise`, `WriteRaises` | any write of the thread to SQLite may raise, in the handlers too |
| `SwitchActive`, `ClearConversation`, `Restart` | other clients and the process's end |

The thread's steps are as fine as its writes. `update_latest_tool_turn` rewrites
the newest card of a conversation, whosever it is; the model does the same, and
most of what can go wrong with cards comes from that. A conversation has two
keys, its id and `__default__` when it is active, so two tasks may run in it.
`route` tells the buttons of a card (`/agent/approvals/respond`, which does not
append) from an answer typed into the chat (`/chat`, which appends every reply).

`TaskSlots.tla` is the contract: a key has a slot in which a task waits, then
runs; a task runs once and its steps go up one by one while it holds the slot.

Abstractions: a step is its kind; a command that fails is swallowed one level
below (`execute_command_immediately` turns it into a reply), which is an outcome
of its own; previews may raise for writes only; the rows a command step writes
of its own, and store failures on the event loop, are left out; tasks are
identities that are asked for once.

### Properties and runs

| Run | Instance | Shows |
|---|---|---|
| `host_tasks` | two conversations, only the missing id as key, chat route, spoken replies, restarts; a task of two steps and one of one | `OneTaskPerKey`, `StepsInOrder`, `TaskTrail`, and `CardNeverAhead` while the active conversation changes under a thread and cards arrive late: reports land on cards of other tasks and other conversations. The conversations are symmetric |
| `host_tasks_slots` | one conversation under both of its keys, card route, restarts, expiry, a store whose writes may raise | `ExecutedMeansDone` on every exception path, the refinement of `TaskSlots` although two threads may be live in one conversation, and `KeyFreed` under weak fairness of each thread |

Two tasks, one of two steps, are the smallest instance in which a task can be
first, last and in the middle of its steps while another one waits, runs or is
refused. One tick lets a pending task expire; where expiry plays no part
(`MaxTime = 0`) the run is about threads and cards. The first run has the routes
and replies that move cards, the second the faults.

Fairness: the operating system schedules a daemon thread that can run; a step
has a timeout; the store's lock is held for one statement. So each `Thread(t)`
is weakly fair in `FairSpec`; restarts may happen at any time, and free the key
as well.

### Where the code disagrees with its own words

A property that forbids any of these fails at once, so none is stated and no run
of the project is spent on them; the model has the behaviour.

- A task approved by typing into the chat leaves a card that says "running" for
  ever. `start_host_task_execution` rewrites the card and returns a reply with
  `persist_assistant_turn=False`; `/chat` appends it all the same
  (`backend/api/routes/chat.py:52`), and later reports reach the newer copy.
- A decision names a conversation, not a card. With two pending cards in a
  conversation, Approve on the older one starts the newer task
  (`backend/api/routes/agent_approvals.py:19`), although the card says that its
  approval covers the steps it lists.
- A command step that fails does not stop a task: the exception is caught in
  `execute_command_immediately` (`chat_host_action_execution.py:36`), the step is
  shown as completed and the next one runs.

## 5. Listener: a task, its threads and one shared event

`Listener.tla` models `run_listener` from its start to its finally clause, any
number of times and, since the code allows it, several at once.

| In the model | In the code |
|---|---|
| `listener[i]` | the i-th call of `run_listener` (`backend/listener/runner.py`): where it awaits, the worker thread it awaits, its generator, its voice shutdown window |
| `listener[i].told` | the stop event was set while this listener waited for it, in its delay or in `_watch_stop_event`, which stops the detector; clearing the event afterwards does not undo it |
| `current`, `stopEvent` | `app.state.listener_task`, `app.state.stop_event` |
| `host`, `awaited` | the process: serving, answering `/shutdown`, in the lifespan's finally clause, gone; and the task it waits for |
| `recording`, `processing` | the flags of the live state |
| `question` | `_pending_listener_review` of the voice review |
| `Start`, `Stop`, `Shutdown`, `ShutdownTimeout`, `ShutdownAnswers` | the routes in `control.py`; `/shutdown` awaits the task for three seconds and then cancels it |
| `Select` | `select_device` in `audio.py`, which restarts the listener |
| `SignalExit`, `Interrupt`, `Closed` | the server leaves its loop, and the lifespan in `app.py` ends |
| `Delay`, `Open`, `Calibrated`, `CalibrationStopped` | the start of a listener |
| `Speech`, `Utterance`, `UtterancesEnd`, `ReadRaises`, `Retry` | the awaited `next` of the detector's generator, and each of its outcomes |
| `Transcribe`, `ProcessRaises`, `Cycle` | `process_utterance` with `resolve_listener_voice_review`, and what the loop does with the transcript |

A step is what happens between two awaits or between two accesses of a thread to
shared state. Setting the event and what its watchers do at once is one step.

Abstractions: a transcript is one of six kinds that the code can tell apart; what
the review makes of a text, which text it asks about and which frames are speech
are left open; answering (history, model, speech) is one call that may raise.
Assumed: a single `/shutdown`; a server handle, so that the hard exit does not
happen; within three seconds a listener has at least been opened.

| Run | Instance | Shows |
|---|---|---|
| `listener` | two listeners, one after the other or at once; window and question of one tick, clock to 2 | `StatusHonest`, `QuestionOfThisRun`, `OneMoreAtMost`, `VoiceStopConfirmed`, with and without confirmation |
| `listener_live` | two listeners, no clock | `StopEnds`, `ShutdownAnswered`, `HostCloses` |

Two listeners are the smallest instance in which one replaces or overlaps another;
the window can be open, be used, expire and be opened again within two ticks, and
liveness does not depend on the clock. The listener may be off and the host may be
down, so deadlock is not checked.

Fairness: the event loop runs what is ready and its timers fire; calibration reads
a fixed number of frames; stopping the microphone unblocks its reader; the
models answer or raise. Nobody has to speak, and no client has to send anything.

`StopEnds` and `HostCloses` are about listeners past their calibration, since the
code breaks them before. `StatusHonest` shows the work of a listener only while it
has the host for itself, since the end of another one lowers the flags of both.
After a frame that raised, the generator is exhausted: the retry in `runner.py:96`
ends the listener instead of reading on, and the recording flag stays up until
then.

### Where the code disagrees with its own words

- A stop during calibration never ends the listener. The watcher stops the
  detector, `_read_frame` raises `StopIteration` (`audio/vad/detector.py:100`),
  and asyncio cannot set a `StopIteration` on the future the task awaits. The
  listener counts as running for ever and cannot be started again; Ctrl-C then
  waits for it in the lifespan. Only `/shutdown` cancels it.
- Selecting a microphone starts a second listener next to the one that runs.
  `with asyncio.timeout(2.5)` (`backend/api/routes/audio.py:115`) raises
  `TypeError`, which is suppressed, so nothing waits for the old listener; the
  event is set and cleared in one step. Usually the old one's watcher was
  waiting and it ends later, lowering the new one's flags and dropping its
  question; if it was not, it lives on out of reach of every route.

## 6. Conversations and live updates

`Conversations.tla` models the store and the two ways an exchange gets into it.

| In the model | In the code |
|---|---|
| `convs`, `lastId`, `active`, `history` | the tables `conversations` (AUTOINCREMENT), `app_state` and `conversation_history` in `memory/conversation.py` |
| `stuck` | a thread that takes `_lock`, which is not reentrant, while it holds it: `delete_conversation` would if it had to call `new_conversation` inside |
| `typed[m]` (`Ask`, `Speak`, `AppendUser`, `AppendReply`, ...) | `chat_endpoint`: the tool or the model answers, speech is awaited, two calls of `append_turn` |
| `busy` | the handler the event loop is in the middle of: only threads move meanwhile |
| `spoken[u]` (`Hear`, `AppendSpokenUser`, `ShowUtterance`, ...) | `process_utterance` in the listener's thread, and what `run_listener` shows of it |
| `live` | `_state` of `live_state.py`: revision, kind and conversation of the last event |
| `Create`, `Activate`, `Clear`, `Delete` | the routes in `workspace.py`; the last conversation cannot be deleted |
| `CardUpdate` | `update_latest_tool_turn`, from a task's thread |
| `Restart` | the process dies between any two of these |

A step is one call of the store, which is one transaction under its lock, or what
the event loop does between two awaits. Text, titles and the profile are left
out. The fallback for a missing active conversation, which writes without
committing, is never reached: `ActiveExists`.

`TypedWhole`, `SpokenOnce` and `NoOrphanTurns` are about the two turns of an
exchange between which other handlers and threads run; the properties are about the positions the turns of one exchange have, so they see a
turn that is doubled, missing, misplaced or out of order; `DeletedStaysDeleted` is
why an answer that is on its way to a deleted conversation cannot land in a
younger one; `EveryExchangeEnds` would fail if a store waited for itself.

`LiveUpdates.tla` extends it with the event stream and a client: `stream` is the
generator of `/live/stream` with the event on its way, `client` the conversation
it shows, its copy, the last revision it took and the fetches under way.

| Run | Instance | Shows |
|---|---|---|
| `conversations` | one typed message, one utterance, three ids, one restart | the five invariants, `DeletedStaysDeleted` and `EveryExchangeEnds` |
| `live_updates` | one client, one message, one utterance, two ids | `ClientCatchesUp` is violated (finding 1) |

One message and one utterance are two exchanges that can meet in every pair of
places; three ids are one that is deleted while another is active and a third is
made. Everybody may be done, so deadlock is not checked. Fairness: the event loop
gets round to every handler that waits for it, however busy it is, so the actions
that need it are strongly fair; models and speech answer or raise; nobody has to
ask, speak, pick or delete anything.

### Finding

1. A client may show an old conversation for ever. Updates share one snapshot: a
   conversation update that a status update overtakes before the stream looks is
   sent as a status, for which the client fetches nothing
   (`useJarvinHost.ts:181`), and an update that arrives while the client sends is
   dropped. `docs/architecture.md:154` calls the stream the primary path for
   conversation updates.

## 7. Organizer: rows, contexts and questions

| In the model | In the code |
|---|---|
| `reminders`, `events` with their counters | the tables of `memory/reminders.py` and `memory/calendar_events.py` |
| `rctx[k]` | `_reminder_context`: title and ids of the last reply about reminders, fifteen minutes |
| `cleanup[k]`, `change[k]` | the pending cleanup and the pending calendar action, ten minutes |
| `told`, `asked` | history variables: the rows that the last reply named, and those each open question named, by serial number |
| `execute_reminder_plan`, `organizer_cleanup_reply`, `calendar_*_reply` | what a message may become, whichever planner understood it |
| `YesToCleanup`, `YesToChange`, `CancelCleanup`, `CancelChange` | the branches of `maybe_handle_pending_confirmation_impl` |
| `RouteCreate`, `RoutePatch`, `RouteComplete`, `RouteDelete` | the workspace screen's routes in `reminders.py` |

A message is one step, since no handler awaits. Which operation it becomes is
open; what the operation then does is not. A row has a serial number that is
never given twice; its id is what the code remembers. `DeletedWasNamed` fails as
soon as an id can become another row's, which a delete by a stale listing would
then hit; `EventsByConsent` as soon as an old question can still be answered.

| Run | Instance | Shows |
|---|---|---|
| `organizer` | one conversation, two titles of which one contains the other, two reminders, one event, a context of two ticks, questions of one, clock to 2 | `DeletedWasNamed`, `EventsByConsent` |

Two reminders are one that was listed and one that is not; the second title makes
a search ambiguous. The two timeouts differ, so a question may be dead while its
listing lives. Rows, clock and listings are bounded, so deadlock is not checked.

What the code does and the model shows, although nothing says otherwise: reminders
are deleted in bulk by a message without a confirmation; a cleanup's reply lists as
deleted rows that were gone before; rescheduling one day of a recurring event moves
all of it; `/tool reminder` shares the context of messages without a conversation.

## 8. ToolRouter: which handler answers

`ToolRouter.tla` follows one message through `maybe_handle_assistant_tool_request`
and the handlers it tries in a fixed order, and the conversation's contexts from
one message to the next.

| In the model | In the code |
|---|---|
| `msg` | the message, how far down the order it is, the plan that is being executed with its replies so far, how it ended |
| `active` | the follow-up domain in `chat_followup_context.py` |
| `rem`, `cal`, `wx`, `ws`, `topics` | the contexts of reminders, calendar, weather, workspace, brief, research and organizer |
| `waiting`, `running` | the four kinds of question that "yes" answers, and a running task |
| `open` | a history variable: the titles whose time or day the user was asked for and that were not saved since |
| `Order`, `Turn`, `MustTake` | the order of the handlers; a handler that takes a message by fixed hints is never passed over |
| `_looks_like_...`, `...Heuristic` | the hint functions, on sets of words |
| `Respond` and the `maybe_..._response` actions | the handlers; planners that ask the model may return any plan |
| `PersonalStep`, `_execute_compound_step`, `StepDeclined`, `EndPlan` | plans of several steps, which stop at a question |
| `maybe_handle_assistant_tool_request` | capability guard or free chat |
| `PlannerRaises` | the planners whose model call nobody guards |

A message is the set of those words of its text that some hint looks for. Rows
are left out (section 7 has them), and so is which of two waiting questions of one
kind is newer. Contexts may expire at any time.

| Run | Instance | Shows |
|---|---|---|
| `tool_router` | two messages in a conversation, each one of 21 sets of words; plans of at most three steps; two titles | `OneConsentPerMessage`, `NothingUnreported`, `TimesComeFromTheUser` |
| `tool_router_answer` | the same | `AnswerSavesReminder` is violated (finding 2) |

The 21 messages have each hint alone and the combinations that two handlers
compete for; the first message leaves a context or a question, the second meets
it. Plans have up to four steps in the code; three are enough for a step before
and one after a question. The conversation ends after its messages, so deadlock is
not checked. The titles are symmetric.

`OneConsentPerMessage` and `TimesComeFromTheUser` rest on the phrases that end a plan
(`chat_compound_tool_requests.py:27`). Without the one about times, the plan's next step
could be taken for the answer to the question that the step before it put.
"What day should I put it on?" has none of the phrases: a plan goes on after it, and the
words of its next step may be taken for the day. So the two properties are about
questions that "yes" answers and questions for a time. `NothingUnreported` says that "I did not read or change ..."
is true when it is said; a planner that raises after a step changed something ends
in an error instead, which says neither.

What the code does and the model shows, although nothing says otherwise:
`/tool reminder add X` (`reminder_request_tools.py:202`) saves X but leaves a context
that still waits for the time of X, so a time that comes later saves X again. The
calendar has no such gap (`EventNotSavedYet`, a theorem): every way to save an event
clears what waits.

### Finding

2. The assistant asks "What time should I set reminder `X` for? You can say
   something like `tomorrow at 5pm` or `in 30 minutes`"
   (`reminder_request_tools.py:309`). The answer "tomorrow at 5pm" is taken by the
   personal-organization planner, which is asked before the reminder handler and
   sees a change of time of the reminder last spoken of
   (`chat_personal_organization_action_planner.py:453`). X is not saved yet, so
   nothing is found, or another reminder whose title contains X is moved. "5pm"
   works; "in 30 minutes" matches no hint and depends on the model.
   `tests/backend/test_chat_followups.py:132` expects the answer to save it.

## 9. VoiceActivity: frames

`VoiceActivity.tla` is the generator `utterances` of `audio/vad/detector.py`, one
action per frame and place in the loop: `Wait`, `Start`, `Speak`, `Finish`,
`Resume` after an utterance was answered, `Overflow` for frames that nobody read,
`request_stop`, `End`, `MicrophoneFails`. A frame is loud or quiet; the threshold
behind that verdict (floor, moving average, filter) is left out, so every sequence
of verdicts is possible. `read` and `utterances` are history variables.

`UtteranceExact` compares each utterance with a definition written from the frames
alone, without the machine's counters: there are a frame that starts it and one that
ends it (`IsUtterance`), which fix its frames (`FrameAt`), its length and whether it is
kept; and none shares more than its pre-roll with an earlier one (`BeginsAfter`), so
none is cut twice. `SpeechKept` says which frames must have been cut into some
utterance: also one that is then dropped because it is too short (none is with the
default settings) or discarded by a stop.

| Run | Instance | Shows |
|---|---|---|
| `voice_activity` | every sequence of twelve frames, four settings: all stages at work, no pre-roll, a pre-roll longer than an utterance may be, no hangover | `SpeechKept`, `UtteranceExact` |

Twelve frames are two utterances with their pre-roll, the second begun within the
pre-roll of the first, or one that was cut and goes on. The microphone stops after
its last frame, so deadlock is not checked.

What the definition had to allow: the frame that triggers an utterance is in it
twice; the pre-roll is not emptied, so frames may be in two utterances; frames are
lost while an utterance is being answered; what follows a cut utterance is lost if
it is too short to start another one.

## 10. LocalModel: one runtime, many threads

| In the model | In the code |
|---|---|
| `llm_backend`, `forced` | the settings a selection changes |
| `cache` | the `lru_cache(maxsize=1)` of `_load_llama`: nothing, a runtime, or a failure |
| `pc`, `spec`, `llama` | where each thread is between asking and answering, which model it loads, which runtime it got |
| `change` (`select_llm`, `reset_llama_runtime`, `ForceModel`, `Report`, ...) | the selection route, on the event loop |
| `applied`, `overtaken` | history variables: what the settings last reported, and whether a load went on meanwhile |

| Run | Instance | Shows |
|---|---|---|
| `local_model` | the event loop and two listener threads, two models, an unknown name, two selections, four requests | `QuietSelectServes`, `EveryRequestAnswered` |

Two selections can undo one another, and two threads can load at once besides the
loop. Requests and selections are bounded, so deadlock is not checked. Fairness: a
thread that works on a request goes on, since downloads and the server time out.

`QuietSelectServes` needs its condition: a listener's thread that was loading the
old model while the settings changed has its runtime cached afterwards, and the
host then answers with a model nobody selected until the next selection. A load
that failed stays cached as well, although `bootstrap.py:71` promises another try
on first use. The cache has no lock, so two threads may load two runtimes.

## 11. Proofs

TLAPS proves these for every value of the constants that satisfies the named
assumptions: any set of requests, tasks, keys, sessions, conversations, titles or
messages, any lifetimes, any number of listeners and worker threads. TLC evaluates
the assumptions in every run.

| Module | Assumptions |
|---|---|
| HostActions | `KindAssumption`, `SessionAssumption`, `TimeAssumption` |
| HostTasks | `StepsAssumption`, `KeysAssumption`, `NoTaskAssumption`, `ClockAssumption`, `ClientAssumption` |
| Listener | `ListenerTimeAssumption`, `ListenersAssumption` |
| Conversations | `IdsAssumption`, `RestartsAssumption`, `NamesAssumption` |
| Organizer | `ContainsAssumption`, `BoundsAssumption`, `NoneAssumption` |
| ToolRouter | `MessagesAssumption`, `MaxMessagesAssumption`, `MaxStepsAssumption`, `NoneAssumption` |
| LocalModel | `ThreadsAssumption`, `ModelsAssumption`, `BoundsAssumption`, `NoChangeAssumption` |
| VoiceActivity | `SetupsAssumption`, `MaxFrameAssumption` |

`SetupsAssumption` takes any counts of frames, but an attack of at least one frame and
a release of at least one, which the `max(1, ...)` of `audio/vad/detector.py:131` and
`:132` sees to; the detector does not look at the others.

`HostActionsProofs.tla`

- `TypeCorrect`: `Spec => []TypeOK`.
- `EffectsAtMostOnce`, `AuditTrailInOrder`, `EffectsOnRecord`: the three safety
  invariants.
- `OnlyAuthorisedEffects`: `Spec => EffectAuthorised`, an action property. Only the
  execution behind the gate and the tool routes have effects (`WhatHasEffects`), and
  what is being executed was authorised (`RunAuthorised`).
- `WhatWaitsIsKept`: `Spec => PendingKept`, the other one, from `TypeOK`.
- `GateImplemented`: `Spec => ImplementsGate`, the refinement of `ActionGate`. Each
  step about a request moves it and leaves the others where they are or drops
  them (`OthersStay`); `PendingOnRecord` is what keeps a dropped request from
  looking new.

They follow from one inductive invariant, `SafetyInv`. Neither the three nor
`RunAuthorised` is inductive: that a run is authorised says nothing about what the dictionaries
will let through next. `SafetyInv` therefore adds what the dictionaries owe the
log: a waiting entry was put on a card, has not been answered and waits nowhere
else (`PendingOnRecord`); a grant is a row and its expiry is that row's time plus
the lifetime (`TrustOnRecord`); the action being executed has no refusal and no
outcome, and was let through if it was on a card (`RunOnRecord`). Each action is
one lemma, with a step for each conjunct. The work is in appending a row: a few
lemmas say which rows `Append` keeps.

`HostTasksProofs.tla`

- `TaskTypeCorrect`; `OneTask`, `StepsRunInOrder`, `TrailInOrder`, `ExecutedIsDone`.
- `TasksImplementSlots`: `Spec => ImplementsSlots`, the refinement of `TaskSlots`.

The inductive invariant is `TaskInv`: besides the properties, that what waits has
never started (`WaitsUnstarted`, `UnaskedUnstarted`) and that the step counter and
the place in the code of each thread agree with the steps it executed and with its
rows (`ThreadsOnTrack`). The refinement uses it at every step: without
`OneTaskPerKey`, the finally clause, which forgets whatever runs under its key,
could free another task's slot.

The second half of the module, about cards:

- `CardsTellTheTruth`: `Spec => []CardNeverAhead`.

A report rewrites the newest card of whatever conversation is active, so a card is
not its task's own, and the proof follows every card there is: those shown, those
of replies still being spoken, and the steps' states a thread is about to write
(`CardInv`). `Kept` adds to what a card says that a denied or blocked one has its
row; `TaskInv` then gives that such a task is never started, and that no step is
executed after one that raised. So what a card says stays so (`CardKept`), and each
action owes only the cards it brings.

`ListenerProofs.tla`

- `ListenerTypeCorrect`, `StatusIsHonest`, `QuestionEndsWithItsRun`,
  `OneMoreUtterance`; and the action property, `ConfirmedShutdown`.

`ListenerInv` adds to the type and to `StatusHonest` what one task's record owes
the rest. `OnTrack`: a thread answers only for a task that waits for it, but for
the one a shutdown gave up; a stopped listener that took up an utterance has an
exhausted generator or is still busy with it, so there is no second one; an open
window lies within the window of a shutdown this listener heard. `AloneRuns`: a
listener that has had the host for itself has it still, or no other could take the
flag down under it (`StatusHonest` alone does not survive the end of another
listener). `AskerRuns`: whoever asked is past its calibration, or the open of a
later listener would not be what forgets the question. Two lemmas do most of the
work: `OneMoves` (one task moves on, all others are where they were, though they
may have been told to stop) and `CreateKeepsInv` (a new listener next to the old).

`ConversationsProofs.tla`

- `StoreTypeCorrect`, `ActiveAlwaysExists`, `TurnsGoWithTheirConversation`; and the
  action property, `DeletedStayDeleted`.
- `TypedExchangesStoredWhole` and `UtterancesStoredOnce`: `Spec => []TypedWhole` and
  `Spec => []SpokenOnce`.

`StoreInv` adds that every conversation's id was given out by the counter
(`IdsGivenOut`): so a new id is above every old one, and a late append to a deleted
id meets the foreign key and not another conversation. That an active conversation
is left after a deletion is a fact about cardinality: `delete_conversation` deletes
the last one only after it has made another.

Neither `TypedWhole` nor `SpokenOnce` is inductive: that what is stored so far is
right says nothing about the append that is still to come. `ExchangeInv` adds what is
owed. A message that was not answered yet has no turn anywhere, so its two appends
are the first two; between them the event loop is in the middle of its handler
(`busy`), so nobody activates or deletes a conversation, and the second append finds
the conversation of the first (`TypedSteps`). A thread has no such protection, and
`SpokenSteps` says only what survives: an utterance whose answer is under way has at
most a turn of the user, in at most one place. The proofs never count a history: they
are about the set of positions a turn of an exchange has (`Of`), which an append
either leaves alone or extends by the last position, and which clearing and deleting
empty.

The last part of the module is about LiveUpdates:

- `ClientsUseTheStore`: `LiveSpec => Spec`. A host with clients implements the host of
  Conversations, so each theorem above holds of it, too. The steps of a client that
  reach the store are a message, which must name an id that was given out, and a
  fetch, which activates a conversation that exists.
- `ClientsShowWhatIsStored`: `LiveSpec => []ShownAsStored`. What a client shows may be
  old, and may stay so (finding 1), but it is never wrong: a copy is of the
  conversation it is shown under, and has no exchange twice nor a reply without its
  message.

`ClientInv` says the first of what is stored (`HistoryAsStored`, from `ExchangeInv`),
of the answers on their way and of what clients show; that it lasts is `Follows`: no
step of the host changes the conversation of a message that was posted or stored.
TLC explored these for one client, one message and one utterance up to depth 19; the
whole instance is too large for a run.

`OrganizerProofs.tla`

- `OrganizerTypeCorrect`; and the two action properties about consent,
  `DeletedWasNamedHolds` and `EventsByConsentHolds`.

Neither property is about the handler alone: each says that what an answer changes
is what some earlier reply said. `ConsentInv` carries that across the messages in
between: what a context remembers is what its reply told (`ListingsWereTold`), what
a question would change is what it asked about (`QuestionsWereAsked`), and an id is
never given to a second row (`IdsAreSerials`), so a remembered id still names the
row the user was told of.

`ToolRouterProofs.tla`

- `RouterTypeCorrect`, `OneConsent`, `UntouchedIsUntouched`; `EventsSavedOnce`, an
  invariant that only the proof speaks of; and the action property,
  `AnswersComeFromTheUser` for `TimesComeFromTheUser`.

`RouterInv` is `ContextsInv` and `MessageInv`. The latter says what a message that is
still under way has done: as long as it has no reply it changed and asked nothing,
and a plan with steps left has put no question for a "yes" or a time, because a step
that asks one ends it (`AskedEndsThePlan`).

`LocalModelProofs.tla`

- `ModelTypeCorrect`, and `OnlySelectedServes` for `QuietSelectServes`, which speaks of
  the event loop: a worker that already uses the old runtime still answers with it.

`SelectInv` follows a change of the settings from the reset of the cache to the
report: the loop has the change in hand all the while (`ChangeUnderWay`); unless
another thread is in the middle of a load, nothing else fills the cache
(`NothingElseLoads`); and afterwards every load is one of the selected model
(`LoadsSelected`).

`VoiceActivityProofs.tla`

- `VoiceTypeCorrect`; `NoSpeechLost` and `UtterancesExact`: `Spec => []SpeechKept` and
  `Spec => []UtteranceExact`.

Both properties are about the sequence of frames that were read and mention none of
the detector's counters, so `VoiceInv` has to say what each counter is of that
sequence. `PreRollExact`: the ring is the newest frames. `IdleExact`: between
utterances `above_cnt` is the length of the run of loud frames at the end, and the
frame before that run is quiet or belongs to an utterance; without the second half,
speech might have been loud for longer than the attack with no utterance begun.
`NotAhead`: no frame is known that the microphone has not made, so the frame that
starts an utterance is newer than all of the ones before it.
`SpeechExact`: an utterance that is going on has a frame that started it, holds
exactly what its definition lists up to now, and should not have ended yet; `Silence`
says what `hangover` and `below_cnt` are then, which is what makes the detector's test
for the end the same as the definition's (`SpeechGoesOn`). `YieldedExact`: what is
forgotten when the listener asks for more has been handed out. Utterances and runs of
speech in the past stay what they were because a frame is only ever appended
(`UtterancesKept`, `RunsKept`).

Only model-checked: the liveness properties `KeyFreed`, `StopEnds`,
`ShutdownAnswered`, `HostCloses`, `EveryExchangeEnds` and `EveryRequestAnswered`.
Liveness under fairness is out of the prover's reach. `ClientCatchesUp` and
`AnswerSavesReminder`, which runs refute, are not theorems.

## 12. Mutations

Definitions whose comment starts with "Mutation" are not part of the model:
nothing in it uses them. Each is a variant of the definition that follows it with
a fault a programmer might make (an expiry that is not looked at, an entry that
is not cleared, a counter that stays, a row that is not written), and for each
property one of them makes TLC find it violated.

## 13. Not modelled

- Reminder notifications and the remote voice client: client-side callbacks over
  browser and device interfaces; planned (section 2).
- Due times of reminders and the days of recurring events: date arithmetic
  without concurrent state. Read while modelling the rows: a recurring event that
  started before the window and still lasts is left out although a one-time one
  would be shown (`memory/calendar_events.py:343`); an event on weekdays whose
  first date is a weekend day occurs on it (`:370`); offsets are fixed, so a local
  time drifts over a change of the clocks; completing a routine before it is due
  leaves its due date (`memory/reminders.py:308`).
- Writes of the event loop that raise in HostActions and HostTasks (section 2).
- Text understanding and wording, prompts, formatting, path and command
  validation of the tool runtime, the noise floor of the detector, downloading of
  models and hardware profiles, external engines and services, user-interface
  rendering, configuration and packaging.
