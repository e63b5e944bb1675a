----------------------------- MODULE HostTasks -----------------------------
(***************************************************************************)
(* Multi-step host tasks: a task waits for one approval, then a daemon     *)
(* thread of its own executes the steps in order and reports on the task's *)
(* card in the conversation and in the action log.                         *)
(*                                                                         *)
(* The request and decision handlers run on the event loop without         *)
(* awaiting, so they are atomic; the threads interleave with them and with *)
(* each other between any two writes of theirs.  A spoken /chat reply      *)
(* reaches the conversation only when its speech has been synthesised.     *)
(* The two dictionaries, the threads and the replies being spoken die with *)
(* the process; cards, log and active conversation are in SQLite.          *)
(***************************************************************************)
EXTENDS Naturals, Sequences

CONSTANTS Tasks,          \* tasks the planner may come up with, each once
          StepsOf,        \* task -> the kinds of its steps
          Conversations,  \* conversation ids
          DefaultKey,     \* "__default__", the key of a missing id
          Keys,           \* the keys clients use
          NoTask,
          TaskTTL,        \* lifetime of a pending task, in ticks
          MaxTime,        \* bound on the clock
          Routes,         \* how users answer: "card" (/agent/approvals/respond) or "chat"
          Speech,         \* whether clients ask for spoken replies
          StoreFails      \* whether a thread's writes to SQLite may raise

StepKinds == {"read", "run_command", "write_file"}

ASSUME StepsAssumption == StepsOf \in [Tasks -> Seq(StepKinds) \ {<<>>}]
ASSUME KeysAssumption ==
    /\ Keys \subseteq Conversations \cup {DefaultKey}
    /\ Conversations # {}
    /\ DefaultKey \notin Conversations
ASSUME NoTaskAssumption == NoTask \notin Tasks
ASSUME ClockAssumption == TaskTTL \in Nat \ {0} /\ MaxTime \in Nat
ASSUME ClientAssumption ==
    /\ Routes \subseteq {"card", "chat"}
    /\ Speech \in BOOLEAN
    /\ StoreFails \in BOOLEAN

VARIABLES now,          \* the clock
          active,       \* app_state.active_conversation_id
          pendingTask,  \* _pending_host_tasks
          runningTask,  \* _running_host_tasks
          worker,       \* the thread of each task
          cards,        \* the task_request turns of each conversation, oldest first
          speaking,     \* cards of /chat replies whose speech is being synthesised
          log,          \* the host_task rows of agent_action_log
          ran           \* the steps of each task that were executed, and how they ended

vars == <<now, active, pendingTask, runningTask, worker, cards, speaking, log, ran>>

NSteps(t) == Len(StepsOf[t])

Waiting == [task : Tasks, expires : Nat]
NoWait == [task |-> NoTask, expires |-> 0]

StepStatus == {"pending", "running", "completed", "failed", "blocked"}
CardStatus == {"pending", "running", "completed", "failed", "denied", "blocked"}
Card == [task : Tasks, status : CardStatus, steps : Seq(StepStatus)]

\* Where a thread is: before marking or executing a step, before reporting a
\* completed or failed step, before the final report and its log row, in the
\* outermost exception handler, and in the finally clause.
PC == {"off", "mark", "execute", "report", "reportFailure", "logFailure",
       "finish", "logSuccess", "recover", "logRecovery", "clear"}
Worker == [pc : PC, key : Keys, index : Nat \ {0}, steps : Seq(StepStatus)]
NoWorker == [pc |-> "off"]

Events == {"requested", "blocked", "denied", "approved", "executed", "failed"}
Row == [event : Events, task : Tasks, key : Keys, shown : Tasks \cup {NoTask}]

StepRun == [step : Nat \ {0}, outcome : {"ok", "swallowed", "raised"}]

TypeOK ==
    /\ now \in Nat
    /\ active \in Conversations
    /\ pendingTask \in [Keys -> Waiting \cup {NoWait}]
    /\ runningTask \in [Keys -> Tasks \cup {NoTask}]
    /\ worker \in [Tasks -> Worker \cup {NoWorker}]
    /\ cards \in [Conversations -> Seq(Card)]
    /\ speaking \subseteq [key : Keys, card : Card]
    /\ log \in Seq(Row)
    /\ ran \in [Tasks -> Seq(StepRun)]

-----------------------------------------------------------------------------
(* Conversations and their cards *)

\* The stores resolve a missing id to the conversation active at that moment.
ConversationOf(k) == IF k = DefaultKey THEN active ELSE k

AllPending(t) == [i \in 1..NSteps(t) |-> "pending"]

NewCard(t, status) == [task |-> t, status |-> status, steps |-> AllPending(t)]

\* update_latest_tool_turn: the newest card is rewritten, whosever it is.
WithLatest(turns, card) ==
    IF turns = <<>> THEN turns ELSE [turns EXCEPT ![Len(turns)] = card]

UpdateLatest(k, card) ==
    cards' = [cards EXCEPT ![ConversationOf(k)] = WithLatest(@, card)]

\* The /chat route appends a reply's card at once, or after its speech.
Reply(k, card) ==
    \/ /\ cards' = [cards EXCEPT ![ConversationOf(k)] = Append(@, card)]
       /\ UNCHANGED speaking
    \/ /\ Speech
       /\ speaking' = speaking \cup {[key |-> k, card |-> card]}
       /\ UNCHANGED cards

LogRow(event, t, k, shown) ==
    log' = Append(log, [event |-> event, task |-> t, key |-> k, shown |-> shown])

PendingLive(k) == pendingTask[k] # NoWait /\ pendingTask[k].expires > now

Risky(t) == \E i \in 1..NSteps(t) : StepsOf[t][i] \in {"run_command", "write_file"}

Asked(t) == \E i \in 1..Len(log) : log[i].task = t

Init ==
    /\ now = 0
    /\ active \in Conversations
    /\ pendingTask = [k \in Keys |-> NoWait]
    /\ runningTask = [k \in Keys |-> NoTask]
    /\ worker = [t \in Tasks |-> NoWorker]
    /\ cards = [c \in Conversations |-> <<>>]
    /\ speaking = {}
    /\ log = <<>>
    /\ ran = [t \in Tasks |-> <<>>]

-----------------------------------------------------------------------------
(* Requests and decisions: the event loop *)

\* A read-only client gets a task without risky steps only.
BlockTask(t, k) ==
    /\ Risky(t)
    /\ pendingTask' = IF PendingLive(k) THEN pendingTask ELSE [pendingTask EXCEPT ![k] = NoWait]
    /\ LogRow("blocked", t, k, NoTask)
    /\ Reply(k, NewCard(t, "blocked"))

OfferTask(t, k) ==
    /\ pendingTask' = [pendingTask EXCEPT ![k] = [task |-> t, expires |-> now + TaskTTL]]
    /\ LogRow("requested", t, k, NoTask)
    /\ Reply(k, NewCard(t, "pending"))

\* Mutation: a running task does not keep others out.
RequestWhileRunning(t, k, mode) ==
    /\ ~Asked(t)
    /\ \/ mode = "read_only" /\ BlockTask(t, k)
       \/ (mode # "read_only" \/ ~Risky(t)) /\ OfferTask(t, k)
    /\ UNCHANGED <<now, active, runningTask, worker, ran>>

\* While a task runs under this key a request is refused without a card.
RequestTask(t, k, mode) ==
    /\ ~Asked(t)
    /\ runningTask[k] = NoTask
    /\ \/ mode = "read_only" /\ BlockTask(t, k)
       \/ (mode # "read_only" \/ ~Risky(t)) /\ OfferTask(t, k)
    /\ UNCHANGED <<now, active, runningTask, worker, ran>>

\* A decision names no task: by the buttons of a card that still has them, or
\* typed into the chat.
Shown(k, route) ==
    IF route = "chat" THEN {NoTask}
    ELSE {card.task : card \in {cards[ConversationOf(k)][i] : i \in
             {i \in 1..Len(cards[ConversationOf(k)]) : cards[ConversationOf(k)][i].status = "pending"}}}

\* Mutation: the denied task goes on waiting.
DenyOnly(k, shown) ==
    /\ LogRow("denied", pendingTask[k].task, k, shown)
    /\ UpdateLatest(k, NewCard(pendingTask[k].task, "denied"))
    /\ UNCHANGED <<now, active, pendingTask, runningTask, worker, speaking, ran>>

DenyTask(k, shown) ==
    LET t == pendingTask[k].task
    IN  /\ LogRow("denied", t, k, shown)
        /\ UpdateLatest(k, NewCard(t, "denied"))
        /\ pendingTask' = [pendingTask EXCEPT ![k] = NoWait]
        /\ UNCHANGED <<now, active, runningTask, worker, speaking, ran>>

\* start_host_task_execution.  Its reply asks not to be persisted, which the
\* /chat route does not look at.
StartTask(k, shown, route) ==
    LET t == pendingTask[k].task
        c == ConversationOf(k)
        started == WithLatest(cards[c], NewCard(t, "running"))
    IN  /\ pendingTask' = [pendingTask EXCEPT ![k] = NoWait]
        /\ runningTask' = [runningTask EXCEPT ![k] = t]
        /\ LogRow("approved", t, k, shown)
        /\ worker' = [worker EXCEPT ![t] = [pc |-> "mark", key |-> k, index |-> 1,
                                            steps |-> AllPending(t)]]
        /\ \/ /\ route = "card"
              /\ cards' = [cards EXCEPT ![c] = started]
              /\ UNCHANGED speaking
           \/ /\ route = "chat"
              /\ cards' = [cards EXCEPT ![c] = Append(started, NewCard(t, "running"))]
              /\ UNCHANGED speaking
           \/ /\ route = "chat" /\ Speech
              /\ cards' = [cards EXCEPT ![c] = started]
              /\ speaking' = speaking \cup {[key |-> k, card |-> NewCard(t, "running")]}
        /\ UNCHANGED <<now, active, ran>>

Decide(k, route) ==
    /\ PendingLive(k)
    /\ \E shown \in Shown(k, route) : DenyTask(k, shown) \/ StartTask(k, shown, route)

\* Any message under a key whose pending task has expired forgets it.
ForgetExpired(k) ==
    /\ pendingTask[k] # NoWait
    /\ ~PendingLive(k)
    /\ pendingTask' = [pendingTask EXCEPT ![k] = NoWait]
    /\ UNCHANGED <<now, active, runningTask, worker, cards, speaking, log, ran>>

\* The speech is ready: the reply is appended to what is now its conversation.
Spoken(reply) ==
    /\ speaking' = speaking \ {reply}
    /\ cards' = [cards EXCEPT ![ConversationOf(reply.key)] = Append(@, reply.card)]
    /\ UNCHANGED <<now, active, pendingTask, runningTask, worker, log, ran>>

-----------------------------------------------------------------------------
(* The thread of task t *)

\* At pc the thread writes a card or a row and goes on; if the write raises
\* nothing is written and it goes to the enclosing handler.
At(t, pc) == worker[t].pc = pc
Goto(t, pc) == worker' = [worker EXCEPT ![t].pc = pc]

ReportCard(t, status, steps) ==
    UpdateLatest(worker[t].key, [task |-> t, status |-> status, steps |-> steps])

EventLoopSame == UNCHANGED <<now, active, pendingTask, speaking>>

WriteRaises(t, from, handler) ==
    /\ StoreFails
    /\ At(t, from)
    /\ Goto(t, handler)
    /\ EventLoopSame
    /\ UNCHANGED <<runningTask, cards, log, ran>>

\* Step index is marked as running.  Building the preview of a write may
\* raise before that.
MarkStep(t) ==
    LET w == worker[t]
        marked == [w.steps EXCEPT ![w.index] = "running"]
    IN  /\ At(t, "mark")
        /\ \/ /\ worker' = [worker EXCEPT ![t] = [w EXCEPT !.pc = "execute", !.steps = marked]]
              /\ ReportCard(t, "running", marked)
           \/ /\ StoreFails
              /\ worker' = [worker EXCEPT ![t] = [w EXCEPT !.pc = "recover", !.steps = marked]]
              /\ UNCHANGED cards
           \/ /\ StepsOf[t][w.index] = "write_file"
              /\ Goto(t, "recover")
              /\ UNCHANGED cards
        /\ EventLoopSame
        /\ UNCHANGED <<runningTask, log, ran>>

\* The steps after a step i that raised are skipped.
\* Mutations: they are shown as failed; they get a status no client knows.
FailedFrom(steps, i) ==
    [j \in 1..Len(steps) |-> IF j < i THEN steps[j] ELSE "failed"]
FailedAndSkipped(steps, i) ==
    [j \in 1..Len(steps) |-> IF j < i THEN steps[j] ELSE IF j = i THEN "failed" ELSE "skipped"]

FailedAt(steps, i) ==
    [j \in 1..Len(steps) |-> IF j < i THEN steps[j] ELSE IF j = i THEN "failed" ELSE "blocked"]

\* A step succeeds or raises; a command that fails is caught below
\* execute_workspace_plan and looks like one that succeeded.
ExecuteStep(t) ==
    LET w == worker[t]
        i == w.index
    IN  /\ At(t, "execute")
        /\ \E outcome \in {"ok", "raised"} \cup
                          (IF StepsOf[t][i] = "run_command" THEN {"swallowed"} ELSE {}) :
             /\ ran' = [ran EXCEPT ![t] = Append(@, [step |-> i, outcome |-> outcome])]
             /\ worker' = [worker EXCEPT ![t] =
                  IF outcome = "raised"
                  THEN [w EXCEPT !.pc = "reportFailure", !.steps = FailedAt(w.steps, i)]
                  ELSE [w EXCEPT !.pc = "report", !.steps[i] = "completed"]]
        /\ EventLoopSame
        /\ UNCHANGED <<runningTask, cards, log>>

\* Mutation: the step counter stays.
ReportSameStep(t) ==
    /\ At(t, "report")
    /\ ReportCard(t, "running", worker[t].steps)
    /\ Goto(t, IF worker[t].index = NSteps(t) THEN "finish" ELSE "mark")
    /\ EventLoopSame
    /\ UNCHANGED <<runningTask, log, ran>>

ReportStep(t) ==
    LET w == worker[t]
    IN  /\ At(t, "report")
        /\ ReportCard(t, "running", w.steps)
        /\ worker' = [worker EXCEPT ![t] =
             IF w.index = NSteps(t) THEN [w EXCEPT !.pc = "finish"]
             ELSE [w EXCEPT !.pc = "mark", !.index = w.index + 1]]
        /\ EventLoopSame
        /\ UNCHANGED <<runningTask, log, ran>>

\* The last card of a run, and then its row.
ReportEnd(t, from, status, to) ==
    /\ At(t, from)
    /\ ReportCard(t, status, worker[t].steps)
    /\ Goto(t, to)
    /\ EventLoopSame
    /\ UNCHANGED <<runningTask, log, ran>>

LogEnd(t, from, event) ==
    /\ At(t, from)
    /\ LogRow(event, t, worker[t].key, NoTask)
    /\ Goto(t, "clear")
    /\ EventLoopSame
    /\ UNCHANGED <<runningTask, cards, ran>>

\* Mutation: a failure is logged like a success.
FailAsExecuted(t) ==
    ReportEnd(t, "reportFailure", "failed", "logFailure") \/ LogEnd(t, "logFailure", "executed")

Fail(t) == ReportEnd(t, "reportFailure", "failed", "logFailure") \/ LogEnd(t, "logFailure", "failed")
Finish(t) == ReportEnd(t, "finish", "completed", "logSuccess") \/ LogEnd(t, "logSuccess", "executed")
Recover(t) == ReportEnd(t, "recover", "failed", "logRecovery") \/ LogEnd(t, "logRecovery", "failed")

\* Mutation: what raises in the handler ends the thread without its finally.
RaiseAndDie(t) ==
    \/ \E from \in {"report", "reportFailure", "logFailure", "finish", "logSuccess"} :
         WriteRaises(t, from, "recover")
    \/ \E from \in {"recover", "logRecovery"} : WriteRaises(t, from, "off")

Raise(t) ==
    \/ \E from \in {"report", "reportFailure", "logFailure", "finish", "logSuccess"} :
         WriteRaises(t, from, "recover")
    \/ \E from \in {"recover", "logRecovery"} : WriteRaises(t, from, "clear")

\* The finally clause forgets whatever runs under the key, and the thread ends.
ClearRunning(t) ==
    /\ At(t, "clear")
    /\ runningTask' = [runningTask EXCEPT ![worker[t].key] = NoTask]
    /\ worker' = [worker EXCEPT ![t] = NoWorker]
    /\ EventLoopSame
    /\ UNCHANGED <<cards, log, ran>>

Thread(t) ==
    \/ MarkStep(t) \/ ExecuteStep(t) \/ ReportStep(t)
    \/ Fail(t) \/ Finish(t) \/ Recover(t) \/ Raise(t)
    \/ ClearRunning(t)

-----------------------------------------------------------------------------
(* The environment *)

Tick ==
    /\ now < MaxTime
    /\ now' = now + 1
    /\ UNCHANGED <<active, pendingTask, runningTask, worker, cards, speaking, log, ran>>

\* set_active_conversation and clear_conversation, from any client.
SwitchActive(c) ==
    /\ active' = c
    /\ UNCHANGED <<now, pendingTask, runningTask, worker, cards, speaking, log, ran>>

ClearConversation(c) ==
    /\ cards' = [cards EXCEPT ![c] = <<>>]
    /\ UNCHANGED <<now, active, pendingTask, runningTask, worker, speaking, log, ran>>

\* The host process dies and comes back.
Restart ==
    /\ pendingTask' = [k \in Keys |-> NoWait]
    /\ runningTask' = [k \in Keys |-> NoTask]
    /\ worker' = [t \in Tasks |-> NoWorker]
    /\ speaking' = {}
    /\ UNCHANGED <<now, active, cards, log, ran>>

HostStep ==
    \/ \E t \in Tasks, k \in Keys, mode \in {"read_only", "approve_risky"} : RequestTask(t, k, mode)
    \/ \E k \in Keys, route \in Routes : Decide(k, route)
    \/ \E k \in Keys : ForgetExpired(k)
    \/ \E reply \in speaking : Spoken(reply)
    \/ \E t \in Tasks : Thread(t)
    \/ Tick
    \/ \E c \in Conversations : SwitchActive(c) \/ ClearConversation(c)

Next == HostStep \/ Restart

Spec == Init /\ [][Next]_vars

\* A thread that can move does: commands have a timeout and the store's locks
\* are held for one statement.
FairSpec == Spec /\ \A t \in Tasks : WF_vars(Thread(t))
-----------------------------------------------------------------------------
(* Properties *)

HasEvent(t, events) == \E i \in 1..Len(log) : log[i].task = t /\ log[i].event \in events
OnlyEvents(t, events) == \A i \in 1..Len(log) : log[i].task = t => log[i].event \in events

\* A key's pending and running task exclude each other, and the task that runs
\* under a key is the only one with a live thread there: nothing starts a
\* second task, and no thread's end frees another task's place.
OneTaskPerKey ==
    /\ \A k \in Keys : runningTask[k] # NoTask => pendingTask[k] = NoWait
    /\ \A t \in Tasks : worker[t] # NoWorker => runningTask[worker[t].key] = t
    /\ \A k \in Keys : runningTask[k] # NoTask =>
         worker[runningTask[k]] # NoWorker /\ worker[runningTask[k]].key = k

\* A task executes its steps in order, each at most once, and none after one
\* that raised.
InOrder(t) ==
    /\ Len(ran[t]) <= NSteps(t)
    /\ \A i \in 1..Len(ran[t]) :
         /\ ran[t][i].step = i
         /\ i < Len(ran[t]) => ran[t][i].outcome # "raised"

StepsInOrder == \A t \in Tasks : InOrder(t)

NoneRaised(t) == \A i \in 1..Len(ran[t]) : ran[t][i].outcome # "raised"
Done(t) == Len(ran[t]) = NSteps(t) /\ NoneRaised(t)

\* The log of a task has at most one verdict, which answers a request under
\* the same key, and at most one outcome, which follows an approval.
RowsInOrder ==
    /\ \A i, j \in 1..Len(log) : log[i].task = log[j].task /\ i < j =>
         \/ log[i].event = "requested" /\ log[j].event \notin {"requested", "blocked"}
         \/ log[i].event = "approved" /\ log[j].event \in {"executed", "failed"}
    /\ \A i \in 1..Len(log) : log[i].event \in {"approved", "denied"} =>
         \E q \in 1..(i - 1) : log[q].task = log[i].task /\ log[q].key = log[i].key
                               /\ log[q].event = "requested"
    /\ \A i \in 1..Len(log) : log[i].event \in {"executed", "failed"} =>
         \E q \in 1..(i - 1) : log[q].task = log[i].task /\ log[q].event = "approved"

\* The log of a task is in order, and its steps run only after its approval.
TaskTrail ==
    /\ RowsInOrder
    /\ \A t \in Tasks : ran[t] # <<>> => HasEvent(t, {"approved"})

\* A task is logged as executed only when all of its steps were executed and
\* none raised.
ExecutedMeansDone ==
    \A i \in 1..Len(log) : log[i].event = "executed" => Done(log[i].task)

\* A card is never ahead of what happened, through any mix of updates by
\* threads, late replies, cleared conversations and restarts: it shows a task
\* or a step as completed, failed, skipped, denied or blocked only if it is.
ShownOutcome(t, i, status) ==
    /\ status = "completed" => i <= Len(ran[t]) /\ ran[t][i].outcome # "raised"
    /\ status = "failed" => i <= Len(ran[t]) /\ ran[t][i].outcome = "raised"
    /\ status = "blocked" => Len(ran[t]) < i /\ Len(ran[t]) > 0
                             /\ ran[t][Len(ran[t])].outcome = "raised"

Truthful(card) ==
    /\ card.status = "completed" => Done(card.task)
    /\ card.status \in {"denied", "blocked"} => ran[card.task] = <<>>
    /\ \A i \in 1..Len(card.steps) : ShownOutcome(card.task, i, card.steps[i])

CardNeverAhead == \A c \in Conversations : \A n \in 1..Len(cards[c]) : Truthful(cards[c][n])

\* "Let that finish": a running task ends and its key is free for another one,
\* whatever its steps and the store do and whenever the host goes down.
KeyFreed ==
    \A k \in Keys : runningTask[k] # NoTask ~> runningTask[k] = NoTask

-----------------------------------------------------------------------------
(* Why the properties hold *)

\* What waits under k has been asked for there and never started, and it
\* waits nowhere else.
Unstarted(k) ==
    LET t == pendingTask[k].task
    IN  /\ t \in Tasks
        /\ worker[t] = NoWorker /\ ran[t] = <<>>
        /\ \E q \in 1..Len(log) : log[q].task = t /\ log[q].key = k /\ log[q].event = "requested"
        /\ OnlyEvents(t, {"requested"})
        /\ \A j \in Keys : pendingTask[j] # NoWait /\ pendingTask[j].task = t => j = k

WaitsUnstarted == \A k \in Keys : pendingTask[k] # NoWait => Unstarted(k)

UnaskedUnstarted == \A t \in Tasks : ~Asked(t) => worker[t] = NoWorker /\ ran[t] = <<>>

\* A thread's step counter and place in the code agree with what it executed
\* and with what the log says of it.
OnTrack(t) ==
    LET w == worker[t]
    IN  /\ w.index <= NSteps(t) /\ Len(w.steps) = NSteps(t)
        /\ w.pc \in {"mark", "execute"} => Len(ran[t]) = w.index - 1
        /\ w.pc = "report" => Len(ran[t]) = w.index
        /\ w.pc \in {"mark", "execute", "report"} => NoneRaised(t)
        /\ w.pc \in {"finish", "logSuccess"} => Done(t)
        /\ HasEvent(t, {"approved"})
        /\ w.pc # "clear" => OnlyEvents(t, {"requested", "approved"})

ThreadsOnTrack == \A t \in Tasks : worker[t] # NoWorker => OnTrack(t)

TaskInv ==
    /\ OneTaskPerKey
    /\ StepsInOrder
    /\ TaskTrail
    /\ ExecutedMeansDone
    /\ WaitsUnstarted
    /\ UnaskedUnstarted
    /\ ThreadsOnTrack

\* A card that says denied or blocked is of a task with a row that says so, and
\* which is not started any more.
Kept(card) ==
    /\ Truthful(card)
    /\ card.status \in {"denied", "blocked"} => HasEvent(card.task, {"denied", "blocked"})

\* What a thread is about to put on a card is so.
StepsShown(t) == \A i \in 1..Len(worker[t].steps) : ShownOutcome(t, i, worker[t].steps[i])

CardInv ==
    /\ \A c \in Conversations : \A n \in 1..Len(cards[c]) : Kept(cards[c][n])
    /\ \A reply \in speaking : Kept(reply.card)
    /\ \A t \in Tasks : worker[t] # NoWorker => StepsShown(t)

-----------------------------------------------------------------------------
(* The dictionaries and the threads as one slot per key *)

slot == [k \in Keys |->
    IF runningTask[k] # NoTask THEN [state |-> "running", task |-> runningTask[k]]
    ELSE IF pendingTask[k] # NoWait THEN [state |-> "waiting", task |-> pendingTask[k].task]
    ELSE [state |-> "free"]]

used == {t \in Tasks : HasEvent(t, {"approved", "denied", "blocked"})}

Slots == INSTANCE TaskSlots WITH steps <- [t \in Tasks |-> Len(ran[t])]

\* A task runs once, its steps run in order and only while it holds its key's
\* slot, and the slot is not given away before its thread is done.
ImplementsSlots == Slots!Spec
=============================================================================
