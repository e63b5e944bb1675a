-------------------------- MODULE HostTasksProofs --------------------------
(***************************************************************************)
(* Proofs about HostTasks: its type invariant, that a key has one task at  *)
(* a time, that a task's thread does its approved steps in order, that the *)
(* slots of TaskSlots are implemented, and that no card is ahead of what   *)
(* happened.                                                               *)
(***************************************************************************)
EXTENDS HostTasks, TLAPS

USE StepsAssumption, KeysAssumption, NoTaskAssumption, ClockAssumption, ClientAssumption

\* A task has at least one step, and each is of a known kind.
LEMMA StepsType ==
    ASSUME NEW t \in Tasks
    PROVE  /\ NSteps(t) \in Nat \ {0}
           /\ \A i \in 1..NSteps(t) : StepsOf[t][i] \in StepKinds
BY DEF NSteps

\* A task that has not started shows all of its steps as pending.
LEMMA NewCardType ==
    ASSUME NEW t \in Tasks, NEW status \in CardStatus
    PROVE  /\ AllPending(t) \in Seq(StepStatus)
           /\ Len(AllPending(t)) = NSteps(t)
           /\ NewCard(t, status) \in Card
<1>1. NSteps(t) \in Nat
  BY StepsType
<1>2. AllPending(t) \in Seq(StepStatus) /\ Len(AllPending(t)) = NSteps(t)
  BY <1>1 DEF AllPending, StepStatus
<1> QED BY <1>2 DEF NewCard, Card

\* A key always resolves to a conversation.
LEMMA ConversationType ==
    ASSUME TypeOK, NEW k \in Keys
    PROVE  ConversationOf(k) \in Conversations
BY DEF ConversationOf, TypeOK

\* Setting one element of a sequence, if there is one, keeps its type.
LEMMA SetElement ==
    ASSUME NEW S, NEW seq \in Seq(S), NEW x \in S, NEW i
    PROVE  [seq EXCEPT ![i] = x] \in Seq(S) /\ Len([seq EXCEPT ![i] = x]) = Len(seq)
<1> DEFINE new == [seq EXCEPT ![i] = x]
<1>1. Len(seq) \in Nat /\ seq \in [1..Len(seq) -> S]
  OBVIOUS
<1>2. new \in [1..Len(seq) -> S]
  BY <1>1
<1> QED BY <1>1, <1>2

\* Setting the cards of a conversation keeps the cards' type.
LEMMA SetCards ==
    ASSUME TypeOK, NEW c, NEW turns \in Seq(Card), cards' = [cards EXCEPT ![c] = turns]
    PROVE  cards' \in [Conversations -> Seq(Card)]
<1>1. cards \in [Conversations -> Seq(Card)]
  BY DEF TypeOK
<1> QED BY <1>1

\* Rewriting the newest card leaves a sequence of cards.
LEMMA LatestType ==
    ASSUME NEW turns \in Seq(Card), NEW card \in Card
    PROVE  WithLatest(turns, card) \in Seq(Card)
BY DEF WithLatest

\* update_latest_tool_turn keeps the cards' type.
LEMMA UpdateType ==
    ASSUME TypeOK, NEW k \in Keys, NEW card \in Card, UpdateLatest(k, card)
    PROVE  cards' \in [Conversations -> Seq(Card)]
<1>1. cards[ConversationOf(k)] \in Seq(Card)
  BY ConversationType DEF TypeOK
<1> QED BY <1>1, LatestType DEF UpdateLatest, TypeOK

\* A /chat reply keeps the types of what it is written to.
LEMMA ReplyType ==
    ASSUME TypeOK, NEW k \in Keys, NEW card \in Card, Reply(k, card)
    PROVE  cards' \in [Conversations -> Seq(Card)] /\ speaking' \subseteq [key : Keys, card : Card]
<1>1. cards[ConversationOf(k)] \in Seq(Card)
  BY ConversationType DEF TypeOK
<1>2. Append(cards[ConversationOf(k)], card) \in Seq(Card)
  BY <1>1
<1>3. CASE cards' = [cards EXCEPT ![ConversationOf(k)] = Append(@, card)] /\ UNCHANGED speaking
  <2>1. cards' \in [Conversations -> Seq(Card)]
    BY <1>2, <1>3, SetCards
  <2> QED BY <1>3, <2>1 DEF TypeOK
<1>4. CASE speaking' = speaking \cup {[key |-> k, card |-> card]} /\ UNCHANGED cards
  BY <1>4 DEF TypeOK
<1> QED BY <1>3, <1>4 DEF Reply

\* A row written by LogRow is a row of the log.
LEMMA LogRowType ==
    ASSUME TypeOK, NEW event \in Events, NEW t \in Tasks, NEW k \in Keys,
           NEW shown \in Tasks \cup {NoTask}, LogRow(event, t, k, shown)
    PROVE  log' \in Seq(Row)
BY DEF LogRow, TypeOK, Row

\* What waits is a task.
LEMMA WaitingType ==
    ASSUME TypeOK, NEW k \in Keys, pendingTask[k] # NoWait
    PROVE  pendingTask[k].task \in Tasks
BY DEF TypeOK, Waiting

\* Users answer by a card of a task, or name none.
LEMMA ShownType ==
    ASSUME TypeOK, NEW k \in Keys, NEW route \in Routes, NEW shown \in Shown(k, route)
    PROVE  shown \in Tasks \cup {NoTask}
<1>1. cards[ConversationOf(k)] \in Seq(Card)
  BY ConversationType DEF TypeOK
<1>2. \A i \in 1..Len(cards[ConversationOf(k)]) : cards[ConversationOf(k)][i].task \in Tasks
  <2> DEFINE turns == cards[ConversationOf(k)]
  <2> SUFFICES ASSUME NEW i \in 1..Len(turns) PROVE turns[i].task \in Tasks
    OBVIOUS
  <2>1. turns[i] \in Card
    <3> HIDE DEF turns
    <3>1. turns \in Seq(Card)
      BY <1>1 DEF turns
    <3> QED BY <3>1
  <2> QED BY <2>1 DEF Card
<1> QED BY <1>2 DEF Shown

\* A thread that is not off has a place, a key, a step and the steps' states.
LEMMA WorkerType ==
    ASSUME TypeOK, NEW t \in Tasks, worker[t].pc # "off"
    PROVE  /\ worker[t] \in Worker /\ worker[t] # NoWorker
           /\ worker[t].key \in Keys
           /\ worker[t].index \in Nat \ {0}
           /\ worker[t].steps \in Seq(StepStatus)
BY DEF TypeOK, Worker, NoWorker

\* What a thread's writes have in common keeps its type.
LEMMA GotoType ==
    ASSUME TypeOK, NEW t \in Tasks, worker[t].pc # "off", NEW pc \in PC, Goto(t, pc)
    PROVE  worker' \in [Tasks -> Worker \cup {NoWorker}]
<1>1. [worker[t] EXCEPT !.pc = pc] \in Worker
  BY WorkerType DEF Worker
<1> QED BY <1>1 DEF Goto, TypeOK

\* A report on a thread's card keeps the cards' type.
LEMMA ReportType ==
    ASSUME TypeOK, NEW t \in Tasks, worker[t].pc # "off", NEW status \in CardStatus,
           NEW steps \in Seq(StepStatus), ReportCard(t, status, steps)
    PROVE  cards' \in [Conversations -> Seq(Card)]
<1>1. [task |-> t, status |-> status, steps |-> steps] \in Card
  BY DEF Card
<1> QED BY <1>1, WorkerType, UpdateType DEF ReportCard

-----------------------------------------------------------------------------
(* Each action of the event loop keeps the types *)

\* A request.
LEMMA RequestType ==
    ASSUME TypeOK, NEW t \in Tasks, NEW k \in Keys, NEW mode, RequestTask(t, k, mode)
    PROVE  TypeOK'
<1>1. CASE BlockTask(t, k)
  <2>1. log' \in Seq(Row)
    BY <1>1, LogRowType DEF BlockTask, Events
  <2>2. cards' \in [Conversations -> Seq(Card)] /\ speaking' \subseteq [key : Keys, card : Card]
    BY <1>1, ReplyType, NewCardType DEF BlockTask, CardStatus
  <2>3. pendingTask' \in [Keys -> Waiting \cup {NoWait}]
    BY <1>1 DEF BlockTask, TypeOK
  <2> QED BY <2>1, <2>2, <2>3 DEF RequestTask, TypeOK
<1>2. CASE OfferTask(t, k)
  <2>1. log' \in Seq(Row)
    BY <1>2, LogRowType DEF OfferTask, Events
  <2>2. cards' \in [Conversations -> Seq(Card)] /\ speaking' \subseteq [key : Keys, card : Card]
    BY <1>2, ReplyType, NewCardType DEF OfferTask, CardStatus
  <2>3. pendingTask' \in [Keys -> Waiting \cup {NoWait}]
    <3>1. [task |-> t, expires |-> now + TaskTTL] \in Waiting
      BY DEF Waiting, TypeOK
    <3> QED BY <1>2, <3>1 DEF OfferTask, TypeOK
  <2> QED BY <2>1, <2>2, <2>3 DEF RequestTask, TypeOK
<1> QED BY <1>1, <1>2 DEF RequestTask

\* A denial.
LEMMA DenyType ==
    ASSUME TypeOK, NEW k \in Keys, NEW shown \in Tasks \cup {NoTask}, PendingLive(k), DenyTask(k, shown)
    PROVE  TypeOK'
<1>1. pendingTask[k].task \in Tasks
  BY WaitingType DEF PendingLive
<1>2. log' \in Seq(Row)
  BY <1>1, LogRowType DEF DenyTask, Events
<1>3. cards' \in [Conversations -> Seq(Card)]
  BY <1>1, UpdateType, NewCardType DEF DenyTask, CardStatus
<1>4. pendingTask' \in [Keys -> Waiting \cup {NoWait}]
  BY DEF DenyTask, TypeOK
<1> QED BY <1>2, <1>3, <1>4 DEF DenyTask, TypeOK

\* A start.
LEMMA StartType ==
    ASSUME TypeOK, NEW k \in Keys, NEW shown \in Tasks \cup {NoTask}, NEW route,
           PendingLive(k), StartTask(k, shown, route)
    PROVE  TypeOK'
<1> DEFINE t == pendingTask[k].task
           c == ConversationOf(k)
           started == WithLatest(cards[c], NewCard(t, "running"))
<1>1. t \in Tasks
  BY WaitingType DEF PendingLive
<1>2. log' \in Seq(Row)
  BY <1>1, LogRowType DEF StartTask, Events
<1>3. /\ c \in Conversations /\ NewCard(t, "running") \in Card
      /\ started \in Seq(Card) /\ Append(started, NewCard(t, "running")) \in Seq(Card)
  <2>1. c \in Conversations /\ cards[c] \in Seq(Card)
    BY ConversationType DEF TypeOK
  <2>2. NewCard(t, "running") \in Card
    BY <1>1, NewCardType DEF CardStatus
  <2> QED BY <2>1, <2>2, LatestType
<1>4. cards' \in [Conversations -> Seq(Card)] /\ speaking' \subseteq [key : Keys, card : Card]
  <2> HIDE DEF t
  <2>1. \/ cards' = [cards EXCEPT ![c] = started] /\ UNCHANGED speaking
        \/ cards' = [cards EXCEPT ![c] = Append(started, NewCard(t, "running"))] /\ UNCHANGED speaking
        \/ /\ cards' = [cards EXCEPT ![c] = started]
           /\ speaking' = speaking \cup {[key |-> k, card |-> NewCard(t, "running")]}
    BY DEF StartTask, t
  <2> HIDE DEF started, c
  <2>2. cards' \in [Conversations -> Seq(Card)]
    BY <1>3, <2>1, SetCards
  <2>3. speaking \subseteq [key : Keys, card : Card]
    BY DEF TypeOK
  <2> QED BY <1>3, <2>1, <2>2, <2>3
<1>5. worker' \in [Tasks -> Worker \cup {NoWorker}]
  <2>1. [pc |-> "mark", key |-> k, index |-> 1, steps |-> AllPending(t)] \in Worker
    BY <1>1, NewCardType DEF Worker, PC, CardStatus
  <2> QED BY <1>1, <2>1 DEF StartTask, TypeOK
<1>6. /\ pendingTask' \in [Keys -> Waiting \cup {NoWait}]
      /\ runningTask' \in [Keys -> Tasks \cup {NoTask}]
  BY <1>1 DEF StartTask, TypeOK
<1> QED BY <1>2, <1>4, <1>5, <1>6 DEF StartTask, TypeOK

-----------------------------------------------------------------------------
(* Each action of a thread keeps the types *)

\* Marking a step.
LEMMA MarkType ==
    ASSUME TypeOK, NEW t \in Tasks, MarkStep(t)
    PROVE  TypeOK'
<1> DEFINE w == worker[t]
           marked == [w.steps EXCEPT ![w.index] = "running"]
<1>1. w.pc # "off" /\ w \in Worker
  BY WorkerType DEF MarkStep, At
<1>2. marked \in Seq(StepStatus)
  <2>1. w.steps \in Seq(StepStatus) /\ "running" \in StepStatus
    BY <1>1 DEF Worker, StepStatus
  <2> QED BY <2>1, SetElement
<1>3. /\ [w EXCEPT !.pc = "execute", !.steps = marked] \in Worker
      /\ [w EXCEPT !.pc = "recover", !.steps = marked] \in Worker
  BY <1>1, <1>2 DEF Worker, PC
<1>4. CASE worker' = [worker EXCEPT ![t] = [w EXCEPT !.pc = "execute", !.steps = marked]]
           /\ ReportCard(t, "running", marked)
  <2>1. cards' \in [Conversations -> Seq(Card)]
    BY <1>1, <1>2, <1>4, ReportType DEF CardStatus
  <2> QED BY <1>3, <1>4, <2>1 DEF MarkStep, EventLoopSame, TypeOK
<1>5. CASE worker' = [worker EXCEPT ![t] = [w EXCEPT !.pc = "recover", !.steps = marked]]
           /\ UNCHANGED cards
  BY <1>3, <1>5 DEF MarkStep, EventLoopSame, TypeOK
<1>6. CASE Goto(t, "recover") /\ UNCHANGED cards
  <2>1. worker' \in [Tasks -> Worker \cup {NoWorker}]
    BY <1>1, <1>6, GotoType DEF PC
  <2> QED BY <1>6, <2>1 DEF MarkStep, EventLoopSame, TypeOK
<1> QED BY <1>4, <1>5, <1>6 DEF MarkStep

\* Executing a step.
LEMMA ExecuteType ==
    ASSUME TypeOK, NEW t \in Tasks, ExecuteStep(t)
    PROVE  TypeOK'
<1> DEFINE w == worker[t]
           i == w.index
           skipped == FailedAt(w.steps, i)
<1>1. w.pc # "off" /\ w \in Worker
  BY WorkerType DEF ExecuteStep, At
<1>2. skipped \in Seq(StepStatus)
  <2>1. Len(w.steps) \in Nat /\ \A j \in 1..Len(w.steps) : w.steps[j] \in StepStatus
    BY <1>1 DEF Worker
  <2>2. skipped \in [1..Len(w.steps) -> StepStatus]
    BY <2>1 DEF StepStatus, FailedAt
  <2> QED BY <2>1, <2>2 DEF FailedAt
<1>3. PICK outcome \in {"ok", "raised", "swallowed"} :
        /\ ran' = [ran EXCEPT ![t] = Append(@, [step |-> i, outcome |-> outcome])]
        /\ worker' = [worker EXCEPT ![t] =
             IF outcome = "raised"
             THEN [w EXCEPT !.pc = "reportFailure", !.steps = skipped]
             ELSE [w EXCEPT !.pc = "report", !.steps[i] = "completed"]]
  BY DEF ExecuteStep
<1>4. ran' \in [Tasks -> Seq(StepRun)]
  <2>1. [step |-> i, outcome |-> outcome] \in StepRun
    BY <1>1 DEF Worker, StepRun
  <2>2. ran[t] \in Seq(StepRun)
    BY DEF TypeOK
  <2> HIDE DEF i
  <2> QED BY <1>3, <2>1, <2>2 DEF TypeOK
<1>5. worker' \in [Tasks -> Worker \cup {NoWorker}]
  <2>1. [w EXCEPT !.pc = "reportFailure", !.steps = skipped] \in Worker
    <3> HIDE DEF skipped
    <3> QED BY <1>1, <1>2 DEF Worker, PC
  <2>2. [w EXCEPT !.pc = "report", !.steps[i] = "completed"] \in Worker
    <3>1. w.steps \in Seq(StepStatus) /\ "completed" \in StepStatus
      BY <1>1 DEF Worker, StepStatus
    <3>2. [w.steps EXCEPT ![i] = "completed"] \in Seq(StepStatus)
      BY <3>1, SetElement
    <3>3. [w EXCEPT !.pc = "report", !.steps[i] = "completed"]
            = [w EXCEPT !.pc = "report", !.steps = [w.steps EXCEPT ![i] = "completed"]]
      BY <1>1 DEF Worker
    <3> HIDE DEF i
    <3> QED BY <1>1, <3>2, <3>3 DEF Worker, PC
  <2> HIDE DEF w, i, skipped
  <2> QED BY <1>3, <2>1, <2>2 DEF TypeOK
<1> QED BY <1>4, <1>5 DEF ExecuteStep, EventLoopSame, TypeOK

\* Reporting a step that completed.
LEMMA ReportStepType ==
    ASSUME TypeOK, NEW t \in Tasks, ReportStep(t)
    PROVE  TypeOK'
<1> DEFINE w == worker[t]
<1>1. w.pc # "off" /\ w \in Worker
  BY WorkerType DEF ReportStep, At
<1>2. cards' \in [Conversations -> Seq(Card)]
  <2>1. w.steps \in Seq(StepStatus) /\ "running" \in CardStatus
    BY <1>1 DEF Worker, CardStatus
  <2>2. ReportCard(t, "running", w.steps)
    BY DEF ReportStep
  <2> QED BY <1>1, <2>1, <2>2, ReportType
<1>3. [w EXCEPT !.pc = "finish"] \in Worker /\ [w EXCEPT !.pc = "mark", !.index = @ + 1] \in Worker
  <2> HIDE DEF w
  <2>1. w.index + 1 \in Nat \ {0}
    BY <1>1 DEF Worker
  <2>2. [w EXCEPT !.pc = "finish"] \in Worker
    BY <1>1 DEF Worker, PC
  <2>3. [w EXCEPT !.pc = "mark", !.index = @ + 1] \in Worker
    BY <1>1, <2>1 DEF Worker, PC
  <2> QED BY <2>2, <2>3
<1>4. worker' \in [Tasks -> Worker \cup {NoWorker}]
  BY <1>3 DEF ReportStep, TypeOK
<1> QED BY <1>2, <1>4 DEF ReportStep, EventLoopSame, TypeOK

\* The end of a run: its last card, its row, and what raises on the way.
LEMMA EndType ==
    ASSUME TypeOK, NEW t \in Tasks, Fail(t) \/ Finish(t) \/ Recover(t) \/ Raise(t) \/ ClearRunning(t)
    PROVE  TypeOK'
<1>1. ASSUME NEW from \in PC \ {"off"}, NEW status \in CardStatus, NEW to \in PC,
             ReportEnd(t, from, status, to)
      PROVE  TypeOK'
  <2>1. worker[t].pc # "off" /\ worker[t] \in Worker
    BY <1>1, WorkerType DEF ReportEnd, At
  <2>2. cards' \in [Conversations -> Seq(Card)]
    BY <1>1, <2>1, ReportType DEF ReportEnd, Worker
  <2>3. worker' \in [Tasks -> Worker \cup {NoWorker}]
    BY <1>1, <2>1, GotoType DEF ReportEnd
  <2> QED BY <1>1, <2>2, <2>3 DEF ReportEnd, EventLoopSame, TypeOK
<1>2. ASSUME NEW from \in PC \ {"off"}, NEW event \in Events, LogEnd(t, from, event)
      PROVE  TypeOK'
  <2>1. worker[t].pc # "off" /\ worker[t].key \in Keys
    BY <1>2, WorkerType DEF LogEnd, At
  <2>2. log' \in Seq(Row)
    BY <1>2, <2>1, LogRowType DEF LogEnd
  <2>3. worker' \in [Tasks -> Worker \cup {NoWorker}]
    BY <1>2, <2>1, GotoType DEF LogEnd, PC
  <2> QED BY <1>2, <2>2, <2>3 DEF LogEnd, EventLoopSame, TypeOK
<1>3. ASSUME NEW from \in PC \ {"off"}, NEW handler \in PC, WriteRaises(t, from, handler)
      PROVE  TypeOK'
  <2>1. worker' \in [Tasks -> Worker \cup {NoWorker}]
    BY <1>3, GotoType DEF WriteRaises, At
  <2> QED BY <1>3, <2>1 DEF WriteRaises, EventLoopSame, TypeOK
<1>4. CASE ClearRunning(t)
  BY <1>4 DEF ClearRunning, EventLoopSame, TypeOK
<1> QED BY <1>1, <1>2, <1>3, <1>4 DEF Fail, Finish, Recover, Raise, PC, CardStatus, Events

\* The parts of the state keep their types: dictionaries, threads, cards,
\* replies, log and executed steps (TypeOK).
THEOREM TaskTypeCorrect == Spec => []TypeOK
<1>1. Init => TypeOK
  BY DEF Init, TypeOK
<1>2. TypeOK /\ [Next]_vars => TypeOK'
  <2> SUFFICES ASSUME TypeOK, [Next]_vars PROVE TypeOK'
    OBVIOUS
  <2>1. ASSUME NEW t \in Tasks, NEW k \in Keys, NEW mode \in {"read_only", "approve_risky"},
               RequestTask(t, k, mode)
        PROVE  TypeOK'
    BY <2>1, RequestType
  <2>2. ASSUME NEW k \in Keys, NEW route \in Routes, Decide(k, route)
        PROVE  TypeOK'
    BY <2>2, ShownType, DenyType, StartType DEF Decide
  <2>3. ASSUME NEW k \in Keys, ForgetExpired(k)
        PROVE  TypeOK'
    BY <2>3 DEF ForgetExpired, TypeOK
  <2>4. ASSUME NEW reply \in speaking, Spoken(reply)
        PROVE  TypeOK'
    <3>1. reply.key \in Keys /\ reply.card \in Card
      BY DEF TypeOK
    <3>2. cards[ConversationOf(reply.key)] \in Seq(Card)
      BY <3>1, ConversationType DEF TypeOK
    <3>3. cards' \in [Conversations -> Seq(Card)]
      <4>1. Append(cards[ConversationOf(reply.key)], reply.card) \in Seq(Card)
        BY <3>1, <3>2
      <4> QED BY <2>4, <4>1, SetCards DEF Spoken
    <3> QED BY <2>4, <3>3 DEF Spoken, TypeOK
  <2>5. ASSUME NEW t \in Tasks, Thread(t)
        PROVE  TypeOK'
    BY <2>5, MarkType, ExecuteType, ReportStepType, EndType DEF Thread
  <2>6. CASE Tick
    BY <2>6 DEF Tick, TypeOK
  <2>7. ASSUME NEW c \in Conversations, SwitchActive(c) \/ ClearConversation(c)
        PROVE  TypeOK'
    <3>1. <<>> \in Seq(Card)
      OBVIOUS
    <3>2. CASE ClearConversation(c)
      BY <3>1, <3>2, SetCards DEF ClearConversation, TypeOK
    <3>3. CASE SwitchActive(c)
      BY <3>3 DEF SwitchActive, TypeOK
    <3> QED BY <2>7, <3>2, <3>3
  <2>8. CASE Restart
    BY <2>8 DEF Restart, TypeOK
  <2>9. CASE UNCHANGED vars
    BY <2>9 DEF vars, TypeOK
  <2> QED BY <2>1, <2>2, <2>3, <2>4, <2>5, <2>6, <2>7, <2>8, <2>9 DEF Next, HostStep
<1> QED BY <1>1, <1>2, PTL DEF Spec
-----------------------------------------------------------------------------
(* What a step does to the log *)

\* The log is unchanged or one row longer, and the new row is about t.
LogAbout(t) == UNCHANGED log \/ \E e \in Row : e.task = t /\ log' = Append(log, e)

\* The rows of a log that one row was appended to.
LEMMA Appended ==
    ASSUME TypeOK, NEW e \in Row, log' = Append(log, e)
    PROVE  /\ Len(log) \in Nat /\ Len(log') = Len(log) + 1
           /\ log'[Len(log) + 1] = e
           /\ \A i \in 1..Len(log) : i \in 1..Len(log') /\ log'[i] = log[i]
           /\ \A i \in 1..Len(log') : i \in 1..Len(log) \/ i = Len(log) + 1
<1>1. log \in Seq(Row) /\ Len(log) \in Nat
  BY DEF TypeOK
<1>2. Len(log') = Len(log) + 1 /\ log'[Len(log) + 1] = e
  BY <1>1
<1>3. \A i \in 1..Len(log) : log'[i] = log[i]
  BY <1>1
<1> QED BY <1>1, <1>2, <1>3

\* A row has the fields of its type.
LEMMA RowType ==
    ASSUME TypeOK, NEW i \in 1..Len(log)
    PROVE  log[i] \in Row /\ log[i].task \in Tasks /\ log[i].event \in Events
<1>1. log \in Seq(Row)
  BY DEF TypeOK
<1>2. log[i] \in Row
  BY <1>1
<1> QED BY <1>2 DEF Row

\* What the log says of a task after one more row.
LEMMA AfterRow ==
    ASSUME TypeOK, NEW e \in Row, log' = Append(log, e), NEW t \in Tasks, NEW events
    PROVE  /\ HasEvent(t, events)' <=> HasEvent(t, events) \/ (e.task = t /\ e.event \in events)
           /\ OnlyEvents(t, events)' <=> OnlyEvents(t, events) /\ (e.task = t => e.event \in events)
           /\ Asked(t)' <=> Asked(t) \/ e.task = t
<1> USE Appended
<1>1. \A i \in 1..Len(log) : i \in 1..Len(log') /\ log'[i] = log[i]
  OBVIOUS
<1>2. \A i \in 1..Len(log') : (i \in 1..Len(log) /\ log'[i] = log[i]) \/ log'[i] = e
  OBVIOUS
<1>3. Len(log) + 1 \in 1..Len(log') /\ log'[Len(log) + 1] = e
  OBVIOUS
<1>4. HasEvent(t, events)' <=> HasEvent(t, events) \/ (e.task = t /\ e.event \in events)
  BY <1>1, <1>2, <1>3 DEF HasEvent
<1>5. OnlyEvents(t, events)' <=> OnlyEvents(t, events) /\ (e.task = t => e.event \in events)
  BY <1>1, <1>2, <1>3 DEF OnlyEvents
<1>6. Asked(t)' <=> Asked(t) \/ e.task = t
  BY <1>1, <1>2, <1>3 DEF Asked
<1> QED BY <1>4, <1>5, <1>6

\* A step about t changes nothing the log says of another task.
LEMMA OtherRows ==
    ASSUME TypeOK, NEW t \in Tasks, LogAbout(t), NEW s \in Tasks, s # t, NEW events
    PROVE  /\ HasEvent(s, events)' <=> HasEvent(s, events)
           /\ OnlyEvents(s, events)' <=> OnlyEvents(s, events)
           /\ Asked(s)' <=> Asked(s)
<1>1. CASE UNCHANGED log
  BY <1>1 DEF HasEvent, OnlyEvents, Asked
<1>2. ASSUME NEW e \in Row, e.task = t, log' = Append(log, e)
      PROVE  /\ HasEvent(s, events)' <=> HasEvent(s, events)
             /\ OnlyEvents(s, events)' <=> OnlyEvents(s, events)
             /\ Asked(s)' <=> Asked(s)
  BY <1>2, AfterRow
<1> QED BY <1>1, <1>2 DEF LogAbout

\* One more row keeps the rows of its task in order if it may follow them.
LEMMA OrderKept ==
    ASSUME TypeOK, RowsInOrder, NEW e \in Row, log' = Append(log, e),
           \/ e.event \in {"requested", "blocked"} /\ ~Asked(e.task)
           \/ /\ e.event \in {"approved", "denied"}
              /\ OnlyEvents(e.task, {"requested"})
              /\ \E q \in 1..Len(log) : log[q].task = e.task /\ log[q].key = e.key
                                        /\ log[q].event = "requested"
           \/ /\ e.event \in {"executed", "failed"}
              /\ OnlyEvents(e.task, {"requested", "approved"})
              /\ HasEvent(e.task, {"approved"})
    PROVE  RowsInOrder'
<1>0. /\ Len(log) \in Nat /\ Len(log') = Len(log) + 1 /\ log'[Len(log) + 1] = e
      /\ \A i \in 1..Len(log) : i \in 1..Len(log') /\ log'[i] = log[i]
      /\ \A i \in 1..Len(log') : i \in 1..Len(log) \/ i = Len(log) + 1
  BY Appended
<1>1. ASSUME NEW i \in 1..Len(log'), NEW j \in 1..Len(log'), log'[i].task = log'[j].task, i < j
      PROVE  \/ log'[i].event = "requested" /\ log'[j].event \notin {"requested", "blocked"}
             \/ log'[i].event = "approved" /\ log'[j].event \in {"executed", "failed"}
  <2>1. i \in 1..Len(log) /\ log'[i] = log[i]
    BY <1>0, <1>1
  <2>2. CASE j \in 1..Len(log)
    BY <1>0, <1>1, <2>1, <2>2 DEF RowsInOrder
  <2>3. CASE j = Len(log) + 1
    BY <1>0, <1>1, <2>1, <2>3 DEF Asked, OnlyEvents
  <2> QED BY <1>0, <2>2, <2>3
<1>2. ASSUME NEW i \in 1..Len(log'), log'[i].event \in {"approved", "denied"}
      PROVE  \E q \in 1..(i - 1) : log'[q].task = log'[i].task /\ log'[q].key = log'[i].key
                                  /\ log'[q].event = "requested"
  <2>1. CASE i \in 1..Len(log)
    <3>1. PICK q \in 1..(i - 1) : log[q].task = log[i].task /\ log[q].key = log[i].key
                                 /\ log[q].event = "requested"
      BY <1>0, <1>2, <2>1 DEF RowsInOrder
    <3>2. q \in 1..Len(log)
      BY <1>0, <2>1
    <3> QED BY <1>0, <2>1, <3>1, <3>2
  <2>2. CASE i = Len(log) + 1
    <3>1. PICK q \in 1..Len(log) : log[q].task = e.task /\ log[q].key = e.key
                                  /\ log[q].event = "requested"
      BY <1>0, <1>2, <2>2
    <3> QED BY <1>0, <2>2, <3>1
  <2> QED BY <1>0, <2>1, <2>2
<1>3. ASSUME NEW i \in 1..Len(log'), log'[i].event \in {"executed", "failed"}
      PROVE  \E q \in 1..(i - 1) : log'[q].task = log'[i].task /\ log'[q].event = "approved"
  <2>1. CASE i \in 1..Len(log)
    <3>1. PICK q \in 1..(i - 1) : log[q].task = log[i].task /\ log[q].event = "approved"
      BY <1>0, <1>3, <2>1 DEF RowsInOrder
    <3>2. q \in 1..Len(log)
      BY <1>0, <2>1
    <3> QED BY <1>0, <2>1, <3>1, <3>2
  <2>2. CASE i = Len(log) + 1
    <3>1. PICK q \in 1..Len(log) : log[q].task = e.task /\ log[q].event = "approved"
      BY <1>0, <1>3, <2>2 DEF HasEvent
    <3> QED BY <1>0, <2>2, <3>1
  <2> QED BY <1>0, <2>1, <2>2
<1> QED BY <1>1, <1>2, <1>3 DEF RowsInOrder
-----------------------------------------------------------------------------
(* What a step about one task leaves true of the others *)

\* The step is about t: other threads and their steps are as they were.
About(t) ==
    /\ LogAbout(t)
    /\ \A s \in Tasks \ {t} : worker'[s] = worker[s] /\ ran'[s] = ran[s]

\* What TaskInv says of another task stays true.
LEMMA OthersKept ==
    ASSUME TypeOK, TypeOK', TaskInv, NEW t \in Tasks, About(t), NEW s \in Tasks, s # t
    PROVE  /\ InOrder(s)'
           /\ ran'[s] # <<>> => HasEvent(s, {"approved"})'
           /\ ~Asked(s)' => worker'[s] = NoWorker /\ ran'[s] = <<>>
           /\ worker'[s] # NoWorker => OnTrack(s)'
<1> USE DEF TaskInv
<1>1. worker'[s] = worker[s] /\ ran'[s] = ran[s]
  BY DEF About
<1>2. /\ HasEvent(s, {"approved"})' <=> HasEvent(s, {"approved"})
      /\ OnlyEvents(s, {"requested", "approved"})' <=> OnlyEvents(s, {"requested", "approved"})
      /\ Asked(s)' <=> Asked(s)
  BY OtherRows DEF About
<1>3. InOrder(s)'
  BY <1>1 DEF StepsInOrder, InOrder
<1>4. ran'[s] # <<>> => HasEvent(s, {"approved"})'
  BY <1>1, <1>2 DEF TaskTrail
<1>5. ~Asked(s)' => worker'[s] = NoWorker /\ ran'[s] = <<>>
  BY <1>1, <1>2 DEF UnaskedUnstarted
<1>6. worker'[s] # NoWorker => OnTrack(s)'
  BY <1>1, <1>2 DEF ThreadsOnTrack, OnTrack, NoneRaised, Done
<1> QED BY <1>3, <1>4, <1>5, <1>6

\* What waits for another task keeps waiting unstarted.
LEMMA WaitingKept ==
    ASSUME TypeOK, TypeOK', TaskInv, NEW t \in Tasks, About(t),
           \A j \in Keys : \/ pendingTask'[j] = pendingTask[j]
                           \/ pendingTask'[j] = NoWait
                           \/ pendingTask'[j] # NoWait /\ pendingTask'[j].task = t,
           NEW k \in Keys, pendingTask'[k] # NoWait, pendingTask'[k].task # t
    PROVE  Unstarted(k)'
<1> USE DEF TaskInv
<1> DEFINE r == pendingTask[k].task
<1>1. pendingTask'[k] = pendingTask[k] /\ pendingTask[k] # NoWait /\ r \in Tasks /\ r # t
  BY WaitingType
<1>2. /\ worker[r] = NoWorker /\ ran[r] = <<>>
      /\ \E q \in 1..Len(log) : log[q].task = r /\ log[q].key = k /\ log[q].event = "requested"
      /\ OnlyEvents(r, {"requested"})
      /\ \A j \in Keys : pendingTask[j] # NoWait /\ pendingTask[j].task = r => j = k
  BY <1>1 DEF WaitsUnstarted, Unstarted
<1>3. worker'[r] = NoWorker /\ ran'[r] = <<>>
  BY <1>1, <1>2 DEF About
<1>4. OnlyEvents(r, {"requested"})'
  BY <1>1, <1>2, OtherRows DEF About
<1>5. \E q \in 1..Len(log') : log'[q].task = r /\ log'[q].key = k /\ log'[q].event = "requested"
  <2>1. \A i \in 1..Len(log) : i \in 1..Len(log') /\ log'[i] = log[i]
    BY Appended DEF About, LogAbout
  <2> QED BY <1>2, <2>1
<1>6. \A j \in Keys : pendingTask'[j] # NoWait /\ pendingTask'[j].task = r => j = k
  BY <1>1, <1>2
<1> HIDE DEF r
<1> QED BY <1>1, <1>3, <1>4, <1>5, <1>6 DEF r, Unstarted

\* Tasks that were logged as executed stay done, if what the step executes was
\* not and what it logs as executed is.
LEMMA DoneKept ==
    ASSUME TypeOK, TypeOK', TaskInv, NEW t \in Tasks, About(t),
           ran'[t] = ran[t] \/ OnlyEvents(t, {"requested", "approved"}),
           \/ UNCHANGED log
           \/ \E e \in Row : /\ e.task = t
                            /\ log' = Append(log, e)
                            /\ (e.event = "executed" => Done(t)')
    PROVE  ExecutedMeansDone'
<1> USE DEF TaskInv
<1>0. ASSUME NEW i \in 1..Len(log'), NEW r \in Tasks, log'[i].task = r, log'[i].event = "executed"
      PROVE  Done(r)'
  <2>1. CASE i \in 1..Len(log) /\ log'[i] = log[i]
    <3>1. Done(r)
      BY <1>0, <2>1 DEF ExecutedMeansDone
    <3>2. ran'[r] = ran[r]
      <4>1. CASE r # t
        BY <4>1 DEF About
      <4>2. CASE r = t
        BY <1>0, <2>1, <4>2 DEF OnlyEvents
      <4> QED BY <4>1, <4>2
    <3> QED BY <3>1, <3>2 DEF Done, NoneRaised
  <2>2. CASE ~(i \in 1..Len(log) /\ log'[i] = log[i])
    <3>1. PICK e \in Row : /\ e.task = t
                           /\ log' = Append(log, e)
                           /\ (e.event = "executed" => Done(t)')
      <4>1. ~UNCHANGED log
        BY <1>0, <2>2
      <4> QED BY <4>1
    <3>2. log'[i] = e
      BY <2>2, <3>1, Appended
    <3>3. r = t
      BY <1>0, <3>1, <3>2
    <3> QED BY <1>0, <3>1, <3>2, <3>3
  <2> QED BY <2>1, <2>2
<1>1. \A i \in 1..Len(log') : log'[i].task \in Tasks
  <2>1. log' \in Seq(Row)
    BY DEF TypeOK
  <2>2. \A i \in 1..Len(log') : log'[i] \in Row
    BY <2>1
  <2> QED BY <2>2 DEF Row
<1> QED BY <1>0, <1>1 DEF ExecutedMeansDone, Done, NoneRaised

\* A step about t keeps the invariant if it keeps what concerns t.
LEMMA StepAbout ==
    ASSUME TypeOK, TypeOK', TaskInv, NEW t \in Tasks, About(t),
           OneTaskPerKey', RowsInOrder', ExecutedMeansDone',
           \A k \in Keys : \/ pendingTask'[k] = pendingTask[k]
                           \/ pendingTask'[k] = NoWait
                           \/ pendingTask'[k] # NoWait /\ pendingTask'[k].task = t,
           \A k \in Keys : pendingTask'[k] # NoWait /\ pendingTask'[k].task = t => Unstarted(k)',
           InOrder(t)',
           ran'[t] # <<>> => HasEvent(t, {"approved"})',
           ~Asked(t)' => worker'[t] = NoWorker /\ ran'[t] = <<>>,
           worker'[t] # NoWorker => OnTrack(t)'
    PROVE  TaskInv'
<1>1. StepsInOrder'
  <2> SUFFICES ASSUME NEW s \in Tasks PROVE InOrder(s)'
    BY DEF StepsInOrder
  <2>1. CASE s = t
    BY <2>1
  <2>2. CASE s # t
    BY <2>2, OthersKept
  <2> QED BY <2>1, <2>2
<1>2. TaskTrail'
  <2> SUFFICES ASSUME NEW s \in Tasks PROVE ran'[s] # <<>> => HasEvent(s, {"approved"})'
    BY DEF TaskTrail
  <2>1. CASE s = t
    BY <2>1
  <2>2. CASE s # t
    BY <2>2, OthersKept
  <2> QED BY <2>1, <2>2
<1>3. WaitsUnstarted'
  <2> SUFFICES ASSUME NEW k \in Keys, pendingTask'[k] # NoWait PROVE Unstarted(k)'
    BY DEF WaitsUnstarted
  <2>1. CASE pendingTask'[k].task = t
    BY <2>1
  <2>2. CASE pendingTask'[k].task # t
    BY <2>2, WaitingKept
  <2> QED BY <2>1, <2>2
<1>4. UnaskedUnstarted'
  <2> SUFFICES ASSUME NEW s \in Tasks PROVE ~Asked(s)' => worker'[s] = NoWorker /\ ran'[s] = <<>>
    BY DEF UnaskedUnstarted
  <2>1. CASE s = t
    BY <2>1
  <2>2. CASE s # t
    BY <2>2, OthersKept
  <2> QED BY <2>1, <2>2
<1>5. ThreadsOnTrack'
  <2> SUFFICES ASSUME NEW s \in Tasks PROVE worker'[s] # NoWorker => OnTrack(s)'
    BY DEF ThreadsOnTrack
  <2>1. CASE s = t
    BY <2>1
  <2>2. CASE s # t
    BY <2>2, OthersKept
  <2> QED BY <2>1, <2>2
<1> QED BY <1>1, <1>2, <1>3, <1>4, <1>5 DEF TaskInv
-----------------------------------------------------------------------------
(* Each action keeps the invariant: requests and decisions *)

\* The row that LogRow writes.
LEMMA LogRowAbout ==
    ASSUME TypeOK, NEW event \in Events, NEW t \in Tasks, NEW k \in Keys,
           NEW shown \in Tasks \cup {NoTask}, LogRow(event, t, k, shown)
    PROVE  /\ LogAbout(t)
           /\ \E e \in Row : e.task = t /\ e.event = event /\ e.key = k /\ log' = Append(log, e)
<1>1. [event |-> event, task |-> t, key |-> k, shown |-> shown] \in Row
  BY DEF Row
<1> QED BY <1>1 DEF LogRow, LogAbout

\* A task that was asked for just now, or turned away.
LEMMA RequestSafe ==
    ASSUME TypeOK, TypeOK', TaskInv, NEW t \in Tasks, NEW k \in Keys, NEW mode, RequestTask(t, k, mode)
    PROVE  TaskInv'
<1> USE DEF TaskInv
<1>1. PICK event \in {"requested", "blocked"} :
        /\ LogRow(event, t, k, NoTask)
        /\ \/ event = "requested" /\ pendingTask' = [pendingTask EXCEPT ![k] = [task |-> t, expires |-> now + TaskTTL]]
           \/ event = "blocked" /\ pendingTask' \in {pendingTask, [pendingTask EXCEPT ![k] = NoWait]}
  BY DEF RequestTask, BlockTask, OfferTask
<1>2. PICK e \in Row : e.task = t /\ e.event = event /\ e.key = k /\ log' = Append(log, e)
  BY <1>1, LogRowAbout DEF Events
<1>3. About(t)
  BY <1>2 DEF About, LogAbout, RequestTask
<1>4. ~Asked(t) /\ worker[t] = NoWorker /\ ran[t] = <<>> /\ runningTask[k] = NoTask
  BY DEF RequestTask, UnaskedUnstarted
<1>5. UNCHANGED <<worker, ran, runningTask>>
  BY DEF RequestTask
<1>6. /\ Asked(t)'
      /\ OnlyEvents(t, {event})'
  BY <1>2, <1>4, AfterRow DEF Asked, OnlyEvents
<1>7. RowsInOrder'
  BY <1>2, <1>4, OrderKept DEF TaskTrail
<1>8. ExecutedMeansDone'
  BY <1>2, <1>3, <1>5, DoneKept
<1>9. OneTaskPerKey'
  BY <1>1, <1>4, <1>5 DEF OneTaskPerKey, TypeOK
<1>10. InOrder(t)'
  BY <1>5 DEF StepsInOrder, InOrder
<1>11. \A j \in Keys : pendingTask[j] # NoWait => pendingTask[j].task # t
  BY <1>4 DEF WaitsUnstarted, Unstarted, Asked
<1>12. \A j \in Keys : \/ pendingTask'[j] = pendingTask[j]
                       \/ pendingTask'[j] = NoWait
                       \/ /\ j = k /\ event = "requested"
                          /\ pendingTask'[j] # NoWait /\ pendingTask'[j].task = t
  BY <1>1 DEF TypeOK, NoWait
<1>13. ASSUME NEW j \in Keys, pendingTask'[j] # NoWait, pendingTask'[j].task = t
       PROVE  Unstarted(j)'
  <2>1. j = k /\ event = "requested"
    BY <1>11, <1>12, <1>13
  <2>2. \E q \in 1..Len(log') : log'[q].task = t /\ log'[q].key = k /\ log'[q].event = "requested"
    BY <1>2, <2>1, Appended
  <2>3. \A i \in Keys : pendingTask'[i] # NoWait /\ pendingTask'[i].task = t => i = k
    BY <1>11, <1>12
  <2> QED BY <1>4, <1>5, <1>6, <1>13, <2>1, <2>2, <2>3 DEF Unstarted
<1> QED BY <1>3, <1>4, <1>5, <1>6, <1>7, <1>8, <1>9, <1>10, <1>12, <1>13, StepAbout

\* What a decision finds, and the row it writes.
LEMMA DecisionFinds ==
    ASSUME TypeOK, TaskInv, NEW k \in Keys, PendingLive(k)
    PROVE  LET t == pendingTask[k].task
           IN  /\ t \in Tasks /\ runningTask[k] = NoTask
               /\ worker[t] = NoWorker /\ ran[t] = <<>>
               /\ \E q \in 1..Len(log) : log[q].task = t /\ log[q].key = k /\ log[q].event = "requested"
               /\ OnlyEvents(t, {"requested"})
               /\ \A j \in Keys : pendingTask[j] # NoWait /\ pendingTask[j].task = t => j = k
BY DEF TaskInv, PendingLive, WaitsUnstarted, Unstarted, OneTaskPerKey

\* A denial.
LEMMA DenySafe ==
    ASSUME TypeOK, TypeOK', TaskInv, NEW k \in Keys, NEW shown \in Tasks \cup {NoTask},
           PendingLive(k), DenyTask(k, shown)
    PROVE  TaskInv'
<1> USE DEF TaskInv
<1>1. PICK t : t = pendingTask[k].task
  OBVIOUS
<1>2. /\ t \in Tasks /\ runningTask[k] = NoTask
      /\ worker[t] = NoWorker /\ ran[t] = <<>>
      /\ \E q \in 1..Len(log) : log[q].task = t /\ log[q].key = k /\ log[q].event = "requested"
      /\ OnlyEvents(t, {"requested"})
      /\ \A j \in Keys : pendingTask[j] # NoWait /\ pendingTask[j].task = t => j = k
  BY <1>1, DecisionFinds
<1>3. /\ LogRow("denied", t, k, shown)
      /\ pendingTask' = [pendingTask EXCEPT ![k] = NoWait]
      /\ UNCHANGED <<worker, ran, runningTask>>
  BY <1>1 DEF DenyTask
<1>4. PICK e \in Row : e.task = t /\ e.event = "denied" /\ e.key = k /\ log' = Append(log, e)
  BY <1>2, <1>3, LogRowAbout DEF Events
<1>5. About(t)
  BY <1>3, <1>4 DEF About, LogAbout
<1>6. Asked(t)'
  BY <1>2, <1>4, AfterRow
<1>7. RowsInOrder'
  BY <1>2, <1>4, OrderKept DEF TaskTrail
<1>8. ExecutedMeansDone'
  BY <1>2, <1>3, <1>4, <1>5, DoneKept
<1>9. OneTaskPerKey'
  BY <1>3 DEF OneTaskPerKey, TypeOK
<1>10. InOrder(t)'
  BY <1>2, <1>3 DEF StepsInOrder, InOrder
<1>11. \A j \in Keys : pendingTask'[j] = pendingTask[j] \/ pendingTask'[j] = NoWait
  BY <1>3 DEF TypeOK
<1>12. \A j \in Keys : pendingTask'[j] # NoWait => pendingTask'[j].task # t
  BY <1>2, <1>3 DEF TypeOK
<1> QED BY <1>2, <1>3, <1>5, <1>6, <1>7, <1>8, <1>9, <1>10, <1>11, <1>12, StepAbout

\* A start.
LEMMA StartSafe ==
    ASSUME TypeOK, TypeOK', TaskInv, NEW k \in Keys, NEW shown \in Tasks \cup {NoTask}, NEW route,
           PendingLive(k), StartTask(k, shown, route)
    PROVE  TaskInv'
<1> USE DEF TaskInv
<1>1. PICK t : t = pendingTask[k].task
  OBVIOUS
<1>2. /\ t \in Tasks /\ runningTask[k] = NoTask
      /\ worker[t] = NoWorker /\ ran[t] = <<>>
      /\ \E q \in 1..Len(log) : log[q].task = t /\ log[q].key = k /\ log[q].event = "requested"
      /\ OnlyEvents(t, {"requested"})
      /\ \A j \in Keys : pendingTask[j] # NoWait /\ pendingTask[j].task = t => j = k
  BY <1>1, DecisionFinds
<1>3. /\ LogRow("approved", t, k, shown)
      /\ pendingTask' = [pendingTask EXCEPT ![k] = NoWait]
      /\ runningTask' = [runningTask EXCEPT ![k] = t]
      /\ worker' = [worker EXCEPT ![t] = [pc |-> "mark", key |-> k, index |-> 1, steps |-> AllPending(t)]]
      /\ UNCHANGED ran
  BY <1>1 DEF StartTask
<1>4. PICK e \in Row : e.task = t /\ e.event = "approved" /\ e.key = k /\ log' = Append(log, e)
  BY <1>2, <1>3, LogRowAbout DEF Events
<1>5. About(t)
  <2>1. LogAbout(t)
    BY <1>4 DEF LogAbout
  <2>2. \A u \in Tasks \ {t} : worker'[u] = worker[u] /\ ran'[u] = ran[u]
    BY <1>2, <1>3 DEF TypeOK
  <2> QED BY <2>1, <2>2, Zenon DEF About
<1>6. Asked(t)' /\ HasEvent(t, {"approved"})' /\ OnlyEvents(t, {"requested", "approved"})'
  BY <1>2, <1>4, AfterRow DEF OnlyEvents
<1>7. RowsInOrder'
  BY <1>2, <1>4, OrderKept DEF TaskTrail
<1>8. ExecutedMeansDone'
  BY <1>2, <1>3, <1>4, <1>5, DoneKept
<1>9. worker'[t] = [pc |-> "mark", key |-> k, index |-> 1, steps |-> AllPending(t)]
  BY <1>2, <1>3 DEF TypeOK
<1>10. OneTaskPerKey'
  <2>1. \A s \in Tasks \ {t} : worker'[s] = worker[s] /\ (worker[s] # NoWorker => worker[s].key # k)
    BY <1>2, <1>3 DEF OneTaskPerKey, TypeOK
  <2>2. worker'[t] # NoWorker /\ worker'[t].key = k /\ t # NoTask
    BY <1>2, <1>9 DEF NoWorker
  <2>3. \A s \in Tasks : worker[s] # NoWorker => worker[s].key \in Keys
    BY DEF TypeOK, Worker
  <2>4. runningTask'[k] = t /\ \A j \in Keys \ {k} : runningTask'[j] = runningTask[j]
    BY <1>3 DEF TypeOK
  <2>5. pendingTask'[k] = NoWait /\ \A j \in Keys \ {k} : pendingTask'[j] = pendingTask[j]
    BY <1>3 DEF TypeOK
  <2>6. \A j \in Keys : runningTask[j] # NoTask => runningTask[j] \in Tasks \ {t}
    BY <1>2 DEF OneTaskPerKey, TypeOK
  <2>7. \A j \in Keys : runningTask'[j] # NoTask => pendingTask'[j] = NoWait
    BY <2>4, <2>5 DEF OneTaskPerKey
  <2>8. \A s \in Tasks : worker'[s] # NoWorker => runningTask'[worker'[s].key] = s
    BY <2>1, <2>2, <2>3, <2>4 DEF OneTaskPerKey
  <2>9. \A j \in Keys : runningTask'[j] # NoTask =>
          worker'[runningTask'[j]] # NoWorker /\ worker'[runningTask'[j]].key = j
    BY <2>1, <2>2, <2>4, <2>6 DEF OneTaskPerKey
  <2> QED BY <2>7, <2>8, <2>9 DEF OneTaskPerKey
<1>11. InOrder(t)'
  BY <1>2, <1>3 DEF StepsInOrder, InOrder
<1>12. OnTrack(t)'
  <2>1. NSteps(t) \in Nat \ {0} /\ Len(AllPending(t)) = NSteps(t)
    BY <1>2, StepsType, NewCardType DEF CardStatus
  <2>2. NoneRaised(t)' /\ Len(ran'[t]) = 0
    BY <1>2, <1>3 DEF NoneRaised
  <2> QED BY <1>6, <1>9, <2>1, <2>2 DEF OnTrack
<1>13. \A j \in Keys : pendingTask'[j] = pendingTask[j] \/ pendingTask'[j] = NoWait
  BY <1>3 DEF TypeOK
<1>14. \A j \in Keys : pendingTask'[j] # NoWait => pendingTask'[j].task # t
  BY <1>2, <1>3 DEF TypeOK
<1> QED BY <1>2, <1>3, <1>5, <1>6, <1>7, <1>8, <1>10, <1>11, <1>12, <1>13, <1>14, StepAbout
-----------------------------------------------------------------------------
(* Each action keeps the invariant: threads *)

\* A thread that moves on under its key keeps the invariant if it stays on
\* track and executes in order.
LEMMA ThreadMoves ==
    ASSUME TypeOK, TypeOK', TaskInv, NEW t \in Tasks, worker[t] # NoWorker,
           About(t), worker'[t] # NoWorker, worker'[t].key = worker[t].key,
           UNCHANGED <<pendingTask, runningTask>>,
           RowsInOrder', ExecutedMeansDone', InOrder(t)', OnTrack(t)'
    PROVE  TaskInv'
<1> USE DEF TaskInv
<1>1. OneTaskPerKey'
  <2>1. \A s \in Tasks : (worker'[s] # NoWorker <=> worker[s] # NoWorker)
                       /\ (worker[s] # NoWorker => worker'[s].key = worker[s].key)
    BY DEF About
  <2>2. \A k \in Keys : runningTask[k] # NoTask => runningTask[k] \in Tasks
    BY DEF TypeOK
  <2> QED BY <2>1, <2>2 DEF OneTaskPerKey
<1>2. \A k \in Keys : pendingTask'[k] # NoWait => pendingTask'[k].task # t
  BY DEF WaitsUnstarted, Unstarted
<1>3. HasEvent(t, {"approved"})' /\ Asked(t)'
  BY DEF OnTrack, HasEvent, Asked
<1> QED BY <1>1, <1>2, <1>3, StepAbout

\* A thread that is not off is on track and in order.
LEMMA ThreadFinds ==
    ASSUME TypeOK, TaskInv, NEW t \in Tasks, worker[t].pc # "off"
    PROVE  /\ worker[t] \in Worker /\ worker[t] # NoWorker
           /\ OnTrack(t) /\ InOrder(t)
           /\ ran[t] \in Seq(StepRun) /\ Len(ran[t]) \in Nat
BY WorkerType DEF TaskInv, ThreadsOnTrack, StepsInOrder, TypeOK

\* A move that writes no row and executes no step.
LEMMA MoveSafe ==
    ASSUME TypeOK, TypeOK', TaskInv, NEW t \in Tasks, worker[t].pc # "off", NEW w \in Worker,
           worker' = [worker EXCEPT ![t] = w], UNCHANGED <<log, ran, pendingTask, runningTask>>,
           w.key = worker[t].key, w.pc \in PC \ {"off"},
           w.index <= NSteps(t), Len(w.steps) = NSteps(t),
           w.pc \in {"mark", "execute"} => Len(ran[t]) = w.index - 1,
           w.pc # "report",
           w.pc \in {"mark", "execute"} => NoneRaised(t),
           w.pc \in {"finish", "logSuccess"} => Done(t),
           w.pc # "clear" => worker[t].pc # "clear"
    PROVE  TaskInv'
<1> USE DEF TaskInv
<1>1. OnTrack(t) /\ InOrder(t) /\ worker[t] # NoWorker
  BY ThreadFinds
<1>2. About(t) /\ worker'[t] = w /\ w # NoWorker
  BY DEF About, LogAbout, TypeOK, Worker, NoWorker
<1>3. OnTrack(t)'
  BY <1>1, <1>2 DEF OnTrack, HasEvent, OnlyEvents, NoneRaised, Done
<1>4. InOrder(t)'
  BY <1>1 DEF InOrder
<1>5. RowsInOrder' /\ ExecutedMeansDone'
  BY DEF RowsInOrder, ExecutedMeansDone, Done, NoneRaised, TaskTrail
<1> QED BY <1>1, <1>2, <1>3, <1>4, <1>5, ThreadMoves

\* Marking a step.
LEMMA MarkSafe ==
    ASSUME TypeOK, TypeOK', TaskInv, NEW t \in Tasks, MarkStep(t)
    PROVE  TaskInv'
<1> DEFINE v == worker[t]
           marked == [v.steps EXCEPT ![v.index] = "running"]
<1>1. v.pc = "mark" /\ v.pc # "off" /\ v \in Worker /\ OnTrack(t)
  BY ThreadFinds DEF MarkStep, At
<1>2. marked \in Seq(StepStatus) /\ Len(marked) = Len(v.steps)
  <2>1. v.steps \in Seq(StepStatus) /\ "running" \in StepStatus
    BY <1>1 DEF Worker, StepStatus
  <2> QED BY <2>1, SetElement
<1>3. PICK w \in {[v EXCEPT !.pc = "execute", !.steps = marked],
                  [v EXCEPT !.pc = "recover", !.steps = marked],
                  [v EXCEPT !.pc = "recover"]} :
        worker' = [worker EXCEPT ![t] = w]
  BY DEF MarkStep, Goto
<1> HIDE DEF marked
<1>4. /\ w \in Worker /\ w.key = v.key /\ w.index = v.index /\ Len(w.steps) = Len(v.steps)
      /\ w.pc \in {"execute", "recover"}
  BY <1>1, <1>2, <1>3 DEF Worker, PC
<1>5. UNCHANGED <<log, ran, pendingTask, runningTask>>
  BY DEF MarkStep, EventLoopSame
<1>6. v.index <= NSteps(t) /\ Len(v.steps) = NSteps(t) /\ Len(ran[t]) = v.index - 1 /\ NoneRaised(t)
  BY <1>1 DEF OnTrack
<1>7. w.pc \in PC \ {"off"} /\ w.pc \notin {"report", "finish", "logSuccess", "mark", "clear"}
  BY <1>4 DEF PC
<1> QED BY <1>1, <1>3, <1>4, <1>5, <1>6, <1>7, MoveSafe

\* Executing a step.
LEMMA ExecuteSafe ==
    ASSUME TypeOK, TypeOK', TaskInv, NEW t \in Tasks, ExecuteStep(t)
    PROVE  TaskInv'
<1> USE DEF TaskInv
<1> DEFINE v == worker[t]
           i == v.index
           skipped == FailedAt(v.steps, i)
<1>1. v.pc = "execute" /\ v \in Worker /\ v # NoWorker /\ OnTrack(t) /\ InOrder(t)
  BY ThreadFinds DEF ExecuteStep, At
<1>2. /\ i \in Nat \ {0} /\ i <= NSteps(t) /\ Len(v.steps) = NSteps(t)
      /\ ran[t] \in Seq(StepRun) /\ Len(ran[t]) = i - 1 /\ NoneRaised(t)
      /\ HasEvent(t, {"approved"}) /\ OnlyEvents(t, {"requested", "approved"})
  BY <1>1, ThreadFinds DEF OnTrack, Worker
<1>3. PICK outcome \in {"ok", "raised", "swallowed"} :
        /\ ran' = [ran EXCEPT ![t] = Append(@, [step |-> i, outcome |-> outcome])]
        /\ worker' = [worker EXCEPT ![t] =
             IF outcome = "raised"
             THEN [v EXCEPT !.pc = "reportFailure", !.steps = skipped]
             ELSE [v EXCEPT !.pc = "report", !.steps[i] = "completed"]]
  BY DEF ExecuteStep
<1>4. UNCHANGED <<log, pendingTask, runningTask>>
  BY DEF ExecuteStep, EventLoopSame
<1>5. About(t)
  BY <1>3, <1>4 DEF About, LogAbout, TypeOK
<1>6. ran'[t] = Append(ran[t], [step |-> i, outcome |-> outcome])
  BY <1>3 DEF TypeOK
<1>7. /\ Len(ran'[t]) = i /\ ran'[t][i] = [step |-> i, outcome |-> outcome]
      /\ \A j \in 1..(i - 1) : ran'[t][j] = ran[t][j]
  <2>1. [step |-> i, outcome |-> outcome] \in StepRun
    BY <1>2 DEF StepRun
  <2> HIDE DEF i
  <2> QED BY <1>2, <1>6, <2>1
<1>7A. \A j \in 1..Len(ran'[t]) :
         \/ j \in 1..Len(ran[t]) /\ j < i /\ ran'[t][j] = ran[t][j]
         \/ j = i /\ ran'[t][j].step = i /\ ran'[t][j].outcome = outcome
  <2> HIDE DEF i
  <2> QED BY <1>2, <1>7
<1>8. InOrder(t)'
  <2>1. \A j \in 1..Len(ran[t]) : ran[t][j].step = j /\ ran[t][j].outcome # "raised"
    BY <1>1, <1>2 DEF InOrder, NoneRaised
  <2>2. Len(ran'[t]) <= NSteps(t)
    BY <1>2, <1>7
  <2>3. ASSUME NEW j \in 1..Len(ran'[t])
        PROVE  ran'[t][j].step = j /\ (j < Len(ran'[t]) => ran'[t][j].outcome # "raised")
    <3> HIDE DEF i
    <3> QED BY <1>2, <1>7, <1>7A, <2>1, <2>3
  <2> QED BY <2>2, <2>3 DEF InOrder
<1>9. outcome # "raised" => NoneRaised(t)'
  <2> HIDE DEF i
  <2> QED BY <1>2, <1>7A DEF NoneRaised
<1>10. /\ worker'[t].key = v.key /\ worker'[t].index = i /\ Len(worker'[t].steps) = NSteps(t)
       /\ worker'[t].pc = (IF outcome = "raised" THEN "reportFailure" ELSE "report")
       /\ worker'[t] # NoWorker
  <2>1. CASE outcome = "raised"
    <3>1. worker'[t] = [v EXCEPT !.pc = "reportFailure", !.steps = skipped]
      BY <1>3, <2>1 DEF TypeOK
    <3>2. Len(skipped) = NSteps(t)
      BY <1>1, <1>2 DEF Worker, FailedAt
    <3> HIDE DEF skipped
    <3> QED BY <1>1, <2>1, <3>1, <3>2 DEF Worker, NoWorker
  <2>2. CASE outcome # "raised"
    <3>1. worker'[t] = [v EXCEPT !.pc = "report", !.steps = [v.steps EXCEPT ![i] = "completed"]]
      BY <1>1, <1>3, <2>2 DEF TypeOK, Worker
    <3>2. Len([v.steps EXCEPT ![i] = "completed"]) = NSteps(t)
      BY <1>1, <1>2, SetElement DEF Worker, StepStatus
    <3> QED BY <1>1, <2>2, <3>1, <3>2 DEF Worker, NoWorker
  <2> QED BY <2>1, <2>2
<1>11. HasEvent(t, {"approved"})' /\ OnlyEvents(t, {"requested", "approved"})'
  BY <1>2, <1>4 DEF HasEvent, OnlyEvents
<1>12. OnTrack(t)'
  BY <1>2, <1>7, <1>9, <1>10, <1>11 DEF OnTrack
<1>13. RowsInOrder'
  BY <1>4 DEF RowsInOrder, TaskTrail
<1>14. ExecutedMeansDone'
  BY <1>2, <1>4, <1>5, DoneKept
<1> HIDE DEF skipped, i
<1> QED BY <1>1, <1>4, <1>5, <1>8, <1>10, <1>12, <1>13, <1>14, ThreadMoves

\* Reporting a step.
LEMMA ReportStepSafe ==
    ASSUME TypeOK, TypeOK', TaskInv, NEW t \in Tasks, ReportStep(t)
    PROVE  TaskInv'
<1> DEFINE v == worker[t]
<1>1. v.pc = "report" /\ v.pc # "off" /\ v \in Worker /\ OnTrack(t)
  BY ThreadFinds DEF ReportStep, At
<1>2. /\ v.index \in Nat \ {0} /\ v.index <= NSteps(t) /\ NSteps(t) \in Nat
      /\ Len(v.steps) = NSteps(t) /\ Len(ran[t]) = v.index /\ NoneRaised(t)
  BY <1>1, StepsType DEF OnTrack, Worker
<1>3. UNCHANGED <<log, ran, pendingTask, runningTask>>
  BY DEF ReportStep, EventLoopSame
<1>4. CASE v.index = NSteps(t)
  <2> DEFINE w == [v EXCEPT !.pc = "finish"]
  <2>1. worker' = [worker EXCEPT ![t] = w]
    BY <1>4 DEF ReportStep
  <2>2. w \in Worker /\ w.key = v.key /\ w.index = v.index /\ w.steps = v.steps /\ w.pc = "finish"
    BY <1>1 DEF Worker, PC
  <2>3. Done(t)
    BY <1>2, <1>4 DEF Done
  <2> HIDE DEF w
  <2> QED BY <1>1, <1>2, <1>3, <2>1, <2>2, <2>3, MoveSafe DEF PC
<1>5. CASE v.index # NSteps(t)
  <2> DEFINE w == [v EXCEPT !.pc = "mark", !.index = v.index + 1]
  <2>1. worker' = [worker EXCEPT ![t] = w]
    BY <1>5 DEF ReportStep
  <2>2. w \in Worker /\ w.key = v.key /\ w.index = v.index + 1 /\ w.steps = v.steps /\ w.pc = "mark"
    <3>1. v.index + 1 \in Nat \ {0}
      BY <1>2
    <3> QED BY <1>1, <3>1 DEF Worker, PC
  <2>3. w.index <= NSteps(t) /\ Len(ran[t]) = w.index - 1
    BY <1>2, <1>5, <2>2
  <2> HIDE DEF w
  <2> QED BY <1>1, <1>2, <1>3, <2>1, <2>2, <2>3, MoveSafe DEF PC
<1> QED BY <1>4, <1>5

\* The last card of a run, or a write that raised.
LEMMA GotoSafe ==
    ASSUME TypeOK, TypeOK', TaskInv, NEW t \in Tasks, worker[t].pc # "off", NEW to \in PC \ {"off"},
           Goto(t, to), UNCHANGED <<log, ran, pendingTask, runningTask>>,
           to \notin {"mark", "execute", "report", "finish"},
           to = "logSuccess" => worker[t].pc = "finish",
           to # "clear" => worker[t].pc # "clear"
    PROVE  TaskInv'
<1> DEFINE w == [worker[t] EXCEPT !.pc = to]
<1>1. worker[t] \in Worker /\ OnTrack(t)
  BY ThreadFinds
<1>2. /\ w \in Worker /\ w.key = worker[t].key /\ w.index = worker[t].index
      /\ w.steps = worker[t].steps /\ w.pc = to
  BY <1>1 DEF Worker
<1>3. worker' = [worker EXCEPT ![t] = w]
  BY DEF Goto
<1>4. w.index <= NSteps(t) /\ Len(w.steps) = NSteps(t) /\ (to = "logSuccess" => Done(t))
  BY <1>1, <1>2 DEF OnTrack
<1> HIDE DEF w
<1> QED BY <1>2, <1>3, <1>4, MoveSafe

\* The outcome of a run is logged.
LEMMA LogEndSafe ==
    ASSUME TypeOK, TypeOK', TaskInv, NEW t \in Tasks,
           NEW from \in {"logSuccess", "logFailure", "logRecovery"},
           NEW event \in {"executed", "failed"}, LogEnd(t, from, event),
           event = "executed" => from = "logSuccess"
    PROVE  TaskInv'
<1> USE DEF TaskInv
<1> DEFINE v == worker[t]
<1>1. v.pc = from /\ v.pc # "off" /\ v \in Worker /\ v # NoWorker /\ OnTrack(t) /\ InOrder(t)
  BY ThreadFinds DEF LogEnd, At
<1>2. /\ HasEvent(t, {"approved"}) /\ OnlyEvents(t, {"requested", "approved"})
      /\ event = "executed" => Done(t)
      /\ v.index <= NSteps(t) /\ Len(v.steps) = NSteps(t)
  BY <1>1 DEF OnTrack
<1>3. UNCHANGED <<ran, pendingTask, runningTask>>
  BY DEF LogEnd, EventLoopSame
<1>4. PICK e \in Row : e.task = t /\ e.event = event /\ e.key = v.key /\ log' = Append(log, e)
  <2>1. v.key \in Keys /\ event \in Events
    BY <1>1 DEF Worker, Events
  <2> QED BY <2>1, LogRowAbout DEF LogEnd
<1>5. /\ worker'[t].pc = "clear" /\ worker'[t].key = v.key /\ worker'[t].index = v.index
      /\ worker'[t].steps = v.steps /\ worker'[t] # NoWorker
  BY <1>1 DEF LogEnd, Goto, TypeOK, Worker, NoWorker
<1>6. About(t)
  BY <1>4 DEF About, LogAbout, LogEnd, Goto, EventLoopSame, TypeOK
<1>7. HasEvent(t, {"approved"})'
  BY <1>2, <1>4, AfterRow
<1>8. OnTrack(t)'
  BY <1>2, <1>5, <1>7 DEF OnTrack
<1>9. InOrder(t)'
  BY <1>1, <1>3 DEF InOrder
<1>10. RowsInOrder'
  BY <1>2, <1>4, OrderKept DEF TaskTrail
<1>11. ExecutedMeansDone'
  <2>1. Done(t)' <=> Done(t)
    BY <1>3 DEF Done, NoneRaised
  <2>2. e.event = "executed" => Done(t)'
    BY <1>2, <1>4, <2>1
  <2> QED BY <1>2, <1>4, <1>6, <2>2, DoneKept
<1> QED BY <1>1, <1>3, <1>5, <1>6, <1>8, <1>9, <1>10, <1>11, ThreadMoves

\* The finally clause.
LEMMA ClearSafe ==
    ASSUME TypeOK, TypeOK', TaskInv, NEW t \in Tasks, ClearRunning(t)
    PROVE  TaskInv'
<1> USE DEF TaskInv
<1> DEFINE k == worker[t].key
<1>1. worker[t] # NoWorker /\ k \in Keys /\ OnTrack(t) /\ InOrder(t)
  BY ThreadFinds DEF ClearRunning, At, Worker
<1>2. /\ runningTask' = [runningTask EXCEPT ![k] = NoTask]
      /\ worker' = [worker EXCEPT ![t] = NoWorker]
      /\ UNCHANGED <<log, ran, pendingTask>>
  BY DEF ClearRunning, EventLoopSame
<1>3. About(t)
  BY <1>2 DEF About, LogAbout, TypeOK
<1>4. OneTaskPerKey'
  <2>1. worker'[t] = NoWorker /\ \A s \in Tasks \ {t} : worker'[s] = worker[s]
    BY <1>2 DEF TypeOK
  <2>2. runningTask'[k] = NoTask /\ \A j \in Keys \ {k} : runningTask'[j] = runningTask[j]
    BY <1>1, <1>2 DEF TypeOK
  <2>3. runningTask[k] = t
    BY <1>1 DEF OneTaskPerKey
  <2>4. ASSUME NEW s \in Tasks, worker'[s] # NoWorker
        PROVE  runningTask'[worker'[s].key] = s
    <3>1. s # t /\ worker[s] # NoWorker /\ worker[s].key \in Keys /\ runningTask[worker[s].key] = s
      BY <2>1, <2>4 DEF OneTaskPerKey, TypeOK, Worker
    <3>2. worker[s].key # k
      BY <2>3, <3>1
    <3> QED BY <2>1, <2>2, <3>1, <3>2
  <2>5. ASSUME NEW j \in Keys, runningTask'[j] # NoTask
        PROVE  worker'[runningTask'[j]] # NoWorker /\ worker'[runningTask'[j]].key = j
    <3>1. j # k /\ runningTask'[j] = runningTask[j] /\ runningTask[j] \in Tasks
      BY <2>2, <2>5 DEF TypeOK
    <3>2. worker[runningTask[j]] # NoWorker /\ worker[runningTask[j]].key = j
      BY <2>5, <3>1 DEF OneTaskPerKey
    <3>3. runningTask[j] # t
      BY <3>1, <3>2
    <3> QED BY <2>1, <3>1, <3>2, <3>3
  <2>6. \A j \in Keys : runningTask'[j] # NoTask => pendingTask'[j] = NoWait
    BY <1>2, <2>2 DEF OneTaskPerKey
  <2> QED BY <2>4, <2>5, <2>6 DEF OneTaskPerKey
<1>5. RowsInOrder' /\ ExecutedMeansDone'
  BY <1>2 DEF RowsInOrder, ExecutedMeansDone, Done, NoneRaised, TaskTrail
<1>6. InOrder(t)' /\ HasEvent(t, {"approved"})' /\ Asked(t)'
  BY <1>1, <1>2 DEF InOrder, OnTrack, HasEvent, Asked
<1>7. \A j \in Keys : pendingTask'[j] # NoWait => pendingTask'[j].task # t
  BY <1>1, <1>2 DEF WaitsUnstarted, Unstarted
<1>8. worker'[t] = NoWorker
  BY <1>2 DEF TypeOK
<1> QED BY <1>2, <1>3, <1>4, <1>5, <1>6, <1>7, <1>8, StepAbout

\* Any step of a thread.
LEMMA ThreadSafe ==
    ASSUME TypeOK, TypeOK', TaskInv, NEW t \in Tasks, Thread(t)
    PROVE  TaskInv'
<1>1. ASSUME NEW from \in {"reportFailure", "finish", "recover"},
             NEW status, NEW to \in {"logFailure", "logSuccess", "logRecovery"},
             to = "logSuccess" => from = "finish", ReportEnd(t, from, status, to)
      PROVE  TaskInv'
  BY <1>1, GotoSafe DEF ReportEnd, At, EventLoopSame, PC
<1>2. ASSUME NEW from \in PC \ {"off", "clear"}, NEW handler \in {"recover", "clear"},
             WriteRaises(t, from, handler)
      PROVE  TaskInv'
  BY <1>2, GotoSafe DEF WriteRaises, At, EventLoopSame, PC
<1>3. CASE Fail(t)
  BY <1>1, <1>3, LogEndSafe DEF Fail
<1>4. CASE Finish(t)
  BY <1>1, <1>4, LogEndSafe DEF Finish
<1>5. CASE Recover(t)
  BY <1>1, <1>5, LogEndSafe DEF Recover
<1>6. CASE Raise(t)
  BY <1>2, <1>6 DEF Raise, PC
<1> QED BY <1>3, <1>4, <1>5, <1>6, MarkSafe, ExecuteSafe, ReportStepSafe, ClearSafe DEF Thread

-----------------------------------------------------------------------------
(* The environment, and the theorems *)

\* Steps that write no row, execute nothing and at most forget what waits.
LEMMA QuietSafe ==
    ASSUME TypeOK, TypeOK', TaskInv, UNCHANGED <<worker, runningTask, log, ran>>,
           \A k \in Keys : pendingTask'[k] \in {NoWait, pendingTask[k]}
    PROVE  TaskInv'
<1> USE DEF TaskInv
<1>1. OneTaskPerKey'
  BY DEF OneTaskPerKey
<1>2. StepsInOrder' /\ TaskTrail' /\ ExecutedMeansDone'
  BY DEF StepsInOrder, InOrder, TaskTrail, RowsInOrder, HasEvent, ExecutedMeansDone, Done, NoneRaised
<1>3. WaitsUnstarted'
  BY DEF WaitsUnstarted, Unstarted, OnlyEvents
<1>4. UnaskedUnstarted' /\ ThreadsOnTrack'
  BY DEF UnaskedUnstarted, Asked, ThreadsOnTrack, OnTrack, Done, NoneRaised, HasEvent, OnlyEvents
<1> QED BY <1>1, <1>2, <1>3, <1>4

\* A restart leaves the log and forgets everything that was under way.
LEMMA RestartSafe ==
    ASSUME TypeOK, TypeOK', TaskInv, Restart
    PROVE  TaskInv'
<1> USE DEF TaskInv
<1>1. /\ \A k \in Keys : pendingTask'[k] = NoWait /\ runningTask'[k] = NoTask
      /\ \A t \in Tasks : worker'[t] = NoWorker
      /\ UNCHANGED <<log, ran>>
  BY DEF Restart
<1>2. OneTaskPerKey' /\ WaitsUnstarted' /\ ThreadsOnTrack'
  BY <1>1 DEF OneTaskPerKey, WaitsUnstarted, ThreadsOnTrack
<1>3. StepsInOrder' /\ TaskTrail' /\ ExecutedMeansDone'
  BY <1>1 DEF StepsInOrder, InOrder, TaskTrail, RowsInOrder, HasEvent, ExecutedMeansDone, Done, NoneRaised
<1>4. UnaskedUnstarted'
  BY <1>1 DEF UnaskedUnstarted, Asked
<1> QED BY <1>2, <1>3, <1>4

\* The initial state has asked for nothing.
LEMMA InitSafe == Init => TaskInv
<1> SUFFICES ASSUME Init PROVE TaskInv
  OBVIOUS
<1>1. Len(log) = 0 /\ \A t \in Tasks : worker[t] = NoWorker /\ ran[t] = <<>>
  BY DEF Init
<1>2. StepsInOrder
  <2> SUFFICES ASSUME NEW t \in Tasks PROVE InOrder(t)
    BY DEF StepsInOrder
  <2>1. Len(ran[t]) = 0 /\ NSteps(t) \in Nat \ {0}
    BY <1>1, StepsType
  <2> QED BY <2>1 DEF InOrder
<1>3. OneTaskPerKey /\ WaitsUnstarted /\ UnaskedUnstarted /\ ThreadsOnTrack
  BY <1>1 DEF Init, OneTaskPerKey, WaitsUnstarted, UnaskedUnstarted, ThreadsOnTrack
<1>4. TaskTrail /\ ExecutedMeansDone
  BY <1>1 DEF TaskTrail, RowsInOrder, ExecutedMeansDone
<1> QED BY <1>2, <1>3, <1>4 DEF TaskInv

\* Every step keeps the invariant.
LEMMA NextSafe ==
    ASSUME TypeOK, TypeOK', TaskInv, [Next]_vars
    PROVE  TaskInv'
<1>1. ASSUME NEW t \in Tasks, NEW k \in Keys, NEW mode \in {"read_only", "approve_risky"},
             RequestTask(t, k, mode)
      PROVE  TaskInv'
  BY <1>1, RequestSafe
<1>2. ASSUME NEW k \in Keys, NEW route \in Routes, Decide(k, route)
      PROVE  TaskInv'
  BY <1>2, ShownType, DenySafe, StartSafe DEF Decide
<1>3. ASSUME NEW k \in Keys, ForgetExpired(k)
      PROVE  TaskInv'
  <2>1. \A j \in Keys : pendingTask'[j] \in {NoWait, pendingTask[j]}
    BY <1>3 DEF ForgetExpired, TypeOK
  <2> QED BY <1>3, <2>1, QuietSafe DEF ForgetExpired
<1>4. ASSUME NEW reply \in speaking, Spoken(reply)
      PROVE  TaskInv'
  BY <1>4, QuietSafe DEF Spoken
<1>5. ASSUME NEW t \in Tasks, Thread(t)
      PROVE  TaskInv'
  BY <1>5, ThreadSafe
<1>6. CASE Tick
  BY <1>6, QuietSafe DEF Tick
<1>7. ASSUME NEW c \in Conversations, SwitchActive(c) \/ ClearConversation(c)
      PROVE  TaskInv'
  BY <1>7, QuietSafe DEF SwitchActive, ClearConversation
<1>8. CASE Restart
  BY <1>8, RestartSafe
<1>9. CASE UNCHANGED vars
  BY <1>9, QuietSafe DEF vars
<1> QED BY <1>1, <1>2, <1>3, <1>4, <1>5, <1>6, <1>7, <1>8, <1>9 DEF Next, HostStep

\* TaskInv is an invariant of host tasks: see its parts below.
THEOREM TasksSafe == Spec => []TaskInv
<1>1. Init => TaskInv
  BY InitSafe
<1>2. TypeOK /\ TypeOK' /\ TaskInv /\ [Next]_vars => TaskInv'
  BY NextSafe
<1> QED BY <1>1, <1>2, TaskTypeCorrect, PTL DEF Spec

\* A key has one task at a time, pending or running, and a running task is the
\* one its only thread works on.
THEOREM OneTask == Spec => []OneTaskPerKey
<1>1. TaskInv => OneTaskPerKey
  BY DEF TaskInv
<1> QED BY <1>1, TasksSafe, PTL

\* A task's steps are executed in order, at most once, and not after one that
\* raised.
THEOREM StepsRunInOrder == Spec => []StepsInOrder
<1>1. TaskInv => StepsInOrder
  BY DEF TaskInv
<1> QED BY <1>1, TasksSafe, PTL

\* The log of a task has one verdict and one outcome at most, in that order,
\* and its steps run only after its approval.
THEOREM TrailInOrder == Spec => []TaskTrail
<1>1. TaskInv => TaskTrail
  BY DEF TaskInv
<1> QED BY <1>1, TasksSafe, PTL

\* A task that is logged as executed had all of its steps executed, and none
\* of them raised.
THEOREM ExecutedIsDone == Spec => []ExecutedMeansDone
<1>1. TaskInv => ExecutedMeansDone
  BY DEF TaskInv
<1> QED BY <1>1, TasksSafe, PTL
-----------------------------------------------------------------------------
(* The dictionaries, threads and log implement one slot per key *)

StepsDone == [t \in Tasks |-> Len(ran[t])]

SlotOf(running, pending) ==
    IF running # NoTask THEN Slots!Running(running)
    ELSE IF pending # NoWait THEN Slots!WaitingFor(pending.task)
    ELSE Slots!Free

\* The slot of each key, before and after a step.
LEMMA SlotValues ==
    /\ slot = [k \in Keys |-> SlotOf(runningTask[k], pendingTask[k])]
    /\ slot' = [k \in Keys |-> SlotOf(runningTask'[k], pendingTask'[k])]
BY DEF slot, SlotOf, Slots!Running, Slots!WaitingFor, Slots!Free

\* A slot is running exactly if its key has a running task.
LEMMA SlotRunning ==
    ASSUME NEW k \in Keys
    PROVE  Slots!IsRunning(k) <=> runningTask[k] # NoTask
BY SlotValues DEF SlotOf, Slots!IsRunning, Slots!Running, Slots!WaitingFor, Slots!Free

\* What one dictionary entry changing does to the slots.
LEMMA SlotChanges ==
    ASSUME TypeOK, NEW k \in Keys, NEW r, NEW p,
           runningTask' = [runningTask EXCEPT ![k] = r],
           pendingTask' = [pendingTask EXCEPT ![k] = p]
    PROVE  slot' = [slot EXCEPT ![k] = SlotOf(r, p)]
<1>1. \A j \in Keys : /\ runningTask'[j] = (IF j = k THEN r ELSE runningTask[j])
                      /\ pendingTask'[j] = (IF j = k THEN p ELSE pendingTask[j])
  BY DEF TypeOK
<1>2. slot' = [j \in Keys |-> IF j = k THEN SlotOf(r, p) ELSE SlotOf(runningTask[j], pendingTask[j])]
  BY <1>1, SlotValues DEF SlotOf
<1> QED BY <1>2, SlotValues

\* A key with neither a running nor a waiting task is free.
LEMMA SlotFreed ==
    ASSUME TypeOK, NEW k \in Keys,
           runningTask' = [runningTask EXCEPT ![k] = NoTask],
           pendingTask' = [pendingTask EXCEPT ![k] = NoWait]
    PROVE  slot' = [slot EXCEPT ![k] = Slots!Free]
<1>1. SlotOf(NoTask, NoWait) = Slots!Free
  BY DEF SlotOf
<1>2. slot' = [slot EXCEPT ![k] = SlotOf(NoTask, NoWait)]
  BY SlotChanges
<1> QED BY <1>1, <1>2

\* An entry that is set to what it was.
LEMMA SameEntry ==
    ASSUME TypeOK, NEW k \in Keys
    PROVE  /\ runningTask = [runningTask EXCEPT ![k] = runningTask[k]]
           /\ pendingTask = [pendingTask EXCEPT ![k] = pendingTask[k]]
BY DEF TypeOK

\* A row about t adds t to the used tasks if it is a verdict.
LEMMA UsedAfter ==
    ASSUME TypeOK, NEW e \in Row, log' = Append(log, e)
    PROVE  used' = IF e.event \in {"approved", "denied", "blocked"} THEN used \cup {e.task} ELSE used
<1> DEFINE verdicts == {"approved", "denied", "blocked"}
<1>1. e.task \in Tasks
  BY DEF Row
<1>2. \A s \in Tasks : HasEvent(s, verdicts)' <=> HasEvent(s, verdicts) \/ (e.task = s /\ e.event \in verdicts)
  BY AfterRow
<1>3. used = {s \in Tasks : HasEvent(s, verdicts)}
  BY DEF used
<1>4. used' = {s \in Tasks : HasEvent(s, verdicts) \/ (e.task = s /\ e.event \in verdicts)}
  BY <1>2 DEF used
<1> HIDE DEF verdicts
<1>5. used' = IF e.event \in verdicts THEN used \cup {e.task} ELSE used
  BY <1>1, <1>3, <1>4
<1> QED BY <1>5 DEF verdicts

\* Steps that touch neither a dictionary nor the executed steps nor a verdict.
LEMMA Stutters ==
    ASSUME UNCHANGED <<pendingTask, runningTask, ran>>, used' = used
    PROVE  UNCHANGED Slots!vars
BY DEF slot, Slots!vars

\* A request offers a task, drops what expired, or refuses.
LEMMA RequestRefines ==
    ASSUME TypeOK, TypeOK', TaskInv, NEW t \in Tasks, NEW k \in Keys, NEW mode, RequestTask(t, k, mode)
    PROVE  Slots!Next
<1>1. /\ ~Asked(t) /\ runningTask[k] = NoTask /\ UNCHANGED <<ran, runningTask>>
      /\ t \notin used /\ ~Slots!IsRunning(k)
      /\ UNCHANGED StepsDone
  BY SlotRunning DEF RequestTask, Asked, used, HasEvent, StepsDone
<1>2. runningTask' = [runningTask EXCEPT ![k] = NoTask]
  BY <1>1, SameEntry
<1>3. CASE OfferTask(t, k)
  <2>1. slot' = [slot EXCEPT ![k] = Slots!WaitingFor(t)]
    <3>1. SlotOf(NoTask, [task |-> t, expires |-> now + TaskTTL]) = Slots!WaitingFor(t)
      BY DEF SlotOf, NoWait
    <3> QED BY <1>2, <1>3, <3>1, SlotChanges DEF OfferTask
  <2>2. UNCHANGED used
    <3>1. PICK e \in Row : e.task = t /\ e.event = "requested" /\ e.key = k /\ log' = Append(log, e)
      BY <1>3, LogRowAbout DEF OfferTask, Events
    <3> QED BY <3>1, UsedAfter
  <2> QED BY <1>1, <2>1, <2>2 DEF Slots!Next, Slots!Offer, StepsDone
<1>4. CASE BlockTask(t, k)
  <2>1. used' = used \cup {t}
    <3>1. PICK e \in Row : e.task = t /\ e.event = "blocked" /\ e.key = k /\ log' = Append(log, e)
      BY <1>4, LogRowAbout DEF BlockTask, Events
    <3> QED BY <3>1, UsedAfter
  <2>2. CASE pendingTask' = pendingTask
    <3>1. UNCHANGED slot
      BY <1>1, <2>2 DEF slot
    <3> QED BY <1>1, <2>1, <3>1 DEF Slots!Next, Slots!Refuse, StepsDone
  <2>3. CASE pendingTask' = [pendingTask EXCEPT ![k] = NoWait]
    <3>1. slot' = [slot EXCEPT ![k] = Slots!Free]
      BY <1>2, <2>3, SlotFreed
    <3>2. used' \in SUBSET Tasks /\ used \subseteq used'
      BY <2>1 DEF used
    <3> QED BY <1>1, <3>1, <3>2 DEF Slots!Next, Slots!Drop, StepsDone
  <2> QED BY <1>4, <2>2, <2>3 DEF BlockTask
<1> QED BY <1>3, <1>4 DEF RequestTask

\* A decision drops or starts what waits.
LEMMA DecideRefines ==
    ASSUME TypeOK, TypeOK', TaskInv, NEW k \in Keys, NEW route \in Routes, Decide(k, route)
    PROVE  Slots!Next
<1>1. PICK t : t = pendingTask[k].task
  OBVIOUS
<1>2. /\ t \in Tasks /\ runningTask[k] = NoTask /\ OnlyEvents(t, {"requested"})
      /\ PendingLive(k) /\ pendingTask[k] # NoWait /\ ~Slots!IsRunning(k)
  BY <1>1, DecisionFinds, SlotRunning DEF Decide, PendingLive
<1>3. PICK shown \in Tasks \cup {NoTask} : DenyTask(k, shown) \/ StartTask(k, shown, route)
  BY ShownType DEF Decide
<1>4. t \notin used
  BY <1>2 DEF used, HasEvent, OnlyEvents
<1>5. UNCHANGED StepsDone
  BY <1>3 DEF DenyTask, StartTask, StepsDone
<1>6. CASE DenyTask(k, shown)
  <2>1. slot' = [slot EXCEPT ![k] = Slots!Free]
    <3>1. runningTask' = [runningTask EXCEPT ![k] = NoTask]
      BY <1>2, <1>6, SameEntry DEF DenyTask
    <3>2. pendingTask' = [pendingTask EXCEPT ![k] = NoWait]
      BY <1>6 DEF DenyTask
    <3> QED BY <3>1, <3>2, SlotFreed
  <2>2. used' \in SUBSET Tasks /\ used \subseteq used'
    <3>1. PICK e \in Row : e.task = t /\ e.event = "denied" /\ e.key = k /\ log' = Append(log, e)
      BY <1>1, <1>2, <1>6, LogRowAbout DEF DenyTask, Events
    <3>2. used' = used \cup {t}
      BY <3>1, UsedAfter
    <3> QED BY <1>2, <3>2 DEF used
  <2> QED BY <1>2, <1>5, <2>1, <2>2 DEF Slots!Next, Slots!Drop, StepsDone
<1>7. CASE StartTask(k, shown, route)
  <2>1. slot' = [slot EXCEPT ![k] = Slots!Running(t)]
    <3>1. SlotOf(t, NoWait) = Slots!Running(t)
      BY <1>2 DEF SlotOf
    <3>2. /\ runningTask' = [runningTask EXCEPT ![k] = t]
          /\ pendingTask' = [pendingTask EXCEPT ![k] = NoWait]
      BY <1>1, <1>7 DEF StartTask
    <3>3. slot' = [slot EXCEPT ![k] = SlotOf(t, NoWait)]
      BY <3>2, SlotChanges
    <3> QED BY <3>1, <3>3
  <2>2. used' = used \cup {t}
    <3>1. PICK e \in Row : e.task = t /\ e.event = "approved" /\ e.key = k /\ log' = Append(log, e)
      BY <1>1, <1>2, <1>7, LogRowAbout DEF StartTask, Events
    <3> QED BY <3>1, UsedAfter
  <2>3. slot[k] = Slots!WaitingFor(t)
    BY <1>1, <1>2, SlotValues DEF SlotOf
  <2> QED BY <1>2, <1>4, <1>5, <2>1, <2>2, <2>3 DEF Slots!Next, Slots!Start, StepsDone
<1> QED BY <1>3, <1>6, <1>7

\* A thread executes a step of the task that holds its slot, frees the slot,
\* or does nothing the slots can see.
LEMMA ThreadRefines ==
    ASSUME TypeOK, TypeOK', TaskInv, NEW t \in Tasks, Thread(t)
    PROVE  Slots!Next \/ UNCHANGED Slots!vars
<1> DEFINE k == worker[t].key
<1>1. worker[t].pc # "off" => k \in Keys /\ Slots!Holds(k, t) /\ runningTask[k] = t /\ pendingTask[k] = NoWait
  <2> SUFFICES ASSUME worker[t].pc # "off"
               PROVE  k \in Keys /\ Slots!Holds(k, t) /\ runningTask[k] = t /\ pendingTask[k] = NoWait
    OBVIOUS
  <2>1. k \in Keys /\ worker[t] # NoWorker
    BY WorkerType
  <2>2. runningTask[k] = t /\ pendingTask[k] = NoWait
    BY <2>1 DEF TaskInv, OneTaskPerKey
  <2>3. slot[k] = Slots!Running(t)
    BY <2>1, <2>2, SlotValues DEF SlotOf
  <2> QED BY <2>1, <2>2, <2>3 DEF Slots!Holds
<1>2. CASE ExecuteStep(t)
  <2>1. worker[t].pc = "execute" /\ OnTrack(t) /\ worker[t].index \in Nat
        /\ ran[t] \in Seq(StepRun) /\ Len(ran[t]) \in Nat
    BY <1>2, ThreadFinds DEF ExecuteStep, At, Worker
  <2>2. Len(ran[t]) < NSteps(t)
    BY <2>1, StepsType DEF OnTrack
  <2>3. PICK outcome : ran' = [ran EXCEPT ![t] = Append(@, [step |-> worker[t].index, outcome |-> outcome])]
    BY <1>2 DEF ExecuteStep
  <2>4. StepsDone' = [StepsDone EXCEPT ![t] = @ + 1]
    <3>1. Len(ran'[t]) = Len(ran[t]) + 1 /\ \A s \in Tasks \ {t} : ran'[s] = ran[s]
      BY <2>1, <2>3 DEF TypeOK
    <3> QED BY <3>1 DEF StepsDone
  <2>5. UNCHANGED <<slot, used>>
    BY <1>2 DEF ExecuteStep, EventLoopSame, slot, used, HasEvent
  <2> QED BY <1>1, <2>1, <2>2, <2>4, <2>5 DEF Slots!Next, Slots!Step, StepsDone, NSteps
<1>3. CASE ClearRunning(t)
  <2>1. /\ runningTask' = [runningTask EXCEPT ![k] = NoTask] /\ UNCHANGED <<pendingTask, log, ran>>
        /\ worker[t].pc # "off"
    BY <1>3 DEF ClearRunning, EventLoopSame, At
  <2>2. pendingTask' = [pendingTask EXCEPT ![k] = NoWait]
    BY <1>1, <2>1, SameEntry
  <2>3. slot' = [slot EXCEPT ![k] = Slots!Free]
    <3>1. k \in Keys
      BY <1>1, <2>1
    <3> HIDE DEF k
    <3> QED BY <2>1, <2>2, <3>1, SlotFreed
  <2>4. UNCHANGED <<used, StepsDone>>
    BY <2>1 DEF used, HasEvent, StepsDone
  <2> QED BY <1>1, <2>1, <2>3, <2>4 DEF Slots!Next, Slots!Stop, StepsDone
<1>4. ASSUME NEW from \in PC \ {"off"}, NEW event \in {"executed", "failed"}, LogEnd(t, from, event)
      PROVE  UNCHANGED Slots!vars
  <2>1. worker[t].pc # "off"
    BY <1>4 DEF LogEnd, At
  <2>2. PICK e \in Row : e.task = t /\ e.event = event /\ e.key = k /\ log' = Append(log, e)
    BY <1>1, <1>4, <2>1, LogRowAbout DEF LogEnd, Events
  <2>3. used' = used
    BY <2>2, UsedAfter
  <2> QED BY <1>4, <2>3, Stutters DEF LogEnd, EventLoopSame
<1>5. ASSUME UNCHANGED <<pendingTask, runningTask, ran, log>>
      PROVE  UNCHANGED Slots!vars
  BY <1>5, Stutters DEF used, HasEvent
<1>6. CASE MarkStep(t) \/ ReportStep(t) \/ Raise(t)
  BY <1>5, <1>6 DEF MarkStep, ReportStep, Raise, WriteRaises, EventLoopSame
<1>7. CASE Fail(t) \/ Finish(t) \/ Recover(t)
  BY <1>4, <1>5, <1>7 DEF Fail, Finish, Recover, ReportEnd, EventLoopSame, PC
<1> QED BY <1>2, <1>3, <1>6, <1>7 DEF Thread

\* A task runs once, its steps run only while it holds its key's slot, and the
\* slot is not given away before its thread is done.
THEOREM TasksImplementSlots == Spec => ImplementsSlots
<1>1. Init => Slots!Init
  BY DEF Init, Slots!Init, Slots!Free, slot, used, HasEvent
<1>2. TypeOK /\ TypeOK' /\ TaskInv /\ [Next]_vars => [Slots!Next]_(Slots!vars)
  <2> SUFFICES ASSUME TypeOK, TypeOK', TaskInv, [Next]_vars
               PROVE  Slots!Next \/ UNCHANGED Slots!vars
    OBVIOUS
  <2>1. ASSUME UNCHANGED <<pendingTask, runningTask, ran, log>>
        PROVE  UNCHANGED Slots!vars
    BY <2>1, Stutters DEF used, HasEvent
  <2>2. ASSUME NEW k \in Keys, ForgetExpired(k)
        PROVE  Slots!Next
    <3>1. /\ pendingTask' = [pendingTask EXCEPT ![k] = NoWait]
          /\ runningTask[k] = NoTask /\ UNCHANGED <<runningTask, ran, log>>
      BY <2>2 DEF ForgetExpired, TaskInv, OneTaskPerKey
    <3>2. slot' = [slot EXCEPT ![k] = Slots!Free]
      <4>1. runningTask' = [runningTask EXCEPT ![k] = NoTask]
        BY <3>1, SameEntry
      <4> QED BY <3>1, <4>1, SlotFreed
    <3>3. used' \in SUBSET Tasks /\ used' = used /\ UNCHANGED StepsDone
      BY <3>1 DEF used, HasEvent, StepsDone
    <3> QED BY <3>1, <3>2, <3>3, SlotRunning DEF Slots!Next, Slots!Drop, StepsDone
  <2>3. CASE Restart
    <3>1. slot' = [k \in Keys |-> Slots!Free]
      BY <2>3, SlotValues DEF Restart, SlotOf
    <3>2. UNCHANGED <<used, StepsDone>>
      BY <2>3 DEF Restart, used, HasEvent, StepsDone
    <3> QED BY <3>1, <3>2 DEF Slots!Next, Slots!Crash, StepsDone
  <2>4. CASE Tick \/ (\E reply \in speaking : Spoken(reply))
             \/ (\E c \in Conversations : SwitchActive(c) \/ ClearConversation(c))
    BY <2>1, <2>4 DEF Tick, Spoken, SwitchActive, ClearConversation
  <2>5. CASE UNCHANGED vars
    BY <2>1, <2>5 DEF vars
  <2> QED BY <2>2, <2>3, <2>4, <2>5, RequestRefines, DecideRefines, ThreadRefines DEF Next, HostStep
<1> QED BY <1>1, <1>2, TaskTypeCorrect, TasksSafe, PTL DEF Spec, ImplementsSlots, Slots!Spec


-----------------------------------------------------------------------------
(* What a step does to what was executed and logged *)

\* Only a thread that is on track executes anything, a step at a time, before
\* its task is done or has raised, and never for a task turned away.
LEMMA RanGrows ==
    ASSUME TypeOK, TaskInv, [Next]_vars, NEW t \in Tasks
    PROVE  \/ ran'[t] = ran[t]
           \/ /\ NoneRaised(t) /\ Len(ran[t]) < NSteps(t)
              /\ OnlyEvents(t, {"requested", "approved"})
              /\ \E x \in StepRun : ran'[t] = Append(ran[t], x)
<1>1. CASE ExecuteStep(t)
  <2>1. worker[t].pc = "execute"
    BY <1>1 DEF ExecuteStep, At
  <2>2. worker[t] \in Worker /\ OnTrack(t) /\ Len(ran[t]) \in Nat
    BY <2>1, ThreadFinds
  <2>3. worker[t].index \in Nat \ {0} /\ NSteps(t) \in Nat
    BY <2>2, StepsType DEF Worker
  <2>4. /\ NoneRaised(t) /\ Len(ran[t]) < NSteps(t)
        /\ OnlyEvents(t, {"requested", "approved"})
    BY <2>1, <2>2, <2>3 DEF OnTrack
  <2>5. PICK outcome \in {"ok", "raised", "swallowed"} :
          ran' = [ran EXCEPT ![t] = Append(@, [step |-> worker[t].index, outcome |-> outcome])]
    BY <1>1 DEF ExecuteStep
  <2>6. [step |-> worker[t].index, outcome |-> outcome] \in StepRun
    BY <2>3 DEF StepRun
  <2>7. ran'[t] = Append(ran[t], [step |-> worker[t].index, outcome |-> outcome])
    BY <2>5 DEF TypeOK
  <2> QED BY <2>4, <2>6, <2>7
<1>2. ASSUME NEW s \in Tasks, s # t, ExecuteStep(s)
      PROVE  ran'[t] = ran[t]
  BY <1>2 DEF ExecuteStep, TypeOK
<1>3. CASE \A s \in Tasks : ~ExecuteStep(s)
  BY <1>3 DEF Next, HostStep, vars, RequestTask, Decide, DenyTask, StartTask, ForgetExpired,
     Spoken, Thread, MarkStep, ReportStep, Fail, Finish, Recover, Raise, ReportEnd, LogEnd,
     WriteRaises, ClearRunning, Tick, SwitchActive, ClearConversation, Restart
<1> QED BY <1>1, <1>2, <1>3

\* The log only grows.
LEMMA LogGrows ==
    ASSUME TypeOK, TaskInv, [Next]_vars
    PROVE  UNCHANGED log \/ \E e \in Row : log' = Append(log, e)
<1>1. ASSUME NEW t \in Tasks, NEW k \in Keys, NEW mode \in {"read_only", "approve_risky"},
             RequestTask(t, k, mode)
      PROVE  \E e \in Row : log' = Append(log, e)
  <2>1. LogRow("blocked", t, k, NoTask) \/ LogRow("requested", t, k, NoTask)
    BY <1>1 DEF RequestTask, BlockTask, OfferTask
  <2> QED BY <2>1, LogRowAbout DEF Events
<1>2. ASSUME NEW k \in Keys, NEW route \in Routes, Decide(k, route)
      PROVE  \E e \in Row : log' = Append(log, e)
  <2>1. PICK shown \in Shown(k, route) : DenyTask(k, shown) \/ StartTask(k, shown, route)
    BY <1>2 DEF Decide
  <2>2. LogRow("denied", pendingTask[k].task, k, shown)
        \/ LogRow("approved", pendingTask[k].task, k, shown)
    BY <2>1 DEF DenyTask, StartTask
  <2>3. pendingTask[k].task \in Tasks
    BY <1>2, WaitingType DEF Decide, PendingLive
  <2> QED BY <2>2, <2>3, ShownType, LogRowAbout DEF Events
<1>3. ASSUME NEW t \in Tasks, NEW from \in PC \ {"off"}, NEW event \in Events, LogEnd(t, from, event)
      PROVE  \E e \in Row : log' = Append(log, e)
  <2>1. worker[t].key \in Keys /\ LogRow(event, t, worker[t].key, NoTask)
    BY <1>3, WorkerType DEF LogEnd, At
  <2> QED BY <2>1, LogRowAbout
<1>4. ASSUME NEW t \in Tasks, Thread(t), ~UNCHANGED log
      PROVE  \E from \in PC \ {"off"} : \E event \in Events : LogEnd(t, from, event)
  BY <1>4 DEF Thread, MarkStep, ExecuteStep, ReportStep, Fail, Finish, Recover, Raise, ReportEnd,
     WriteRaises, ClearRunning, PC, Events
<1>5. CASE \/ \E t \in Tasks : Thread(t)
           \/ \E k \in Keys : ForgetExpired(k)
           \/ \E reply \in speaking : Spoken(reply)
           \/ Tick \/ \E c \in Conversations : SwitchActive(c) \/ ClearConversation(c)
           \/ Restart \/ UNCHANGED vars
  BY <1>3, <1>4, <1>5 DEF ForgetExpired, Spoken, Tick, SwitchActive, ClearConversation, Restart, vars
<1> QED BY <1>1, <1>2, <1>5 DEF Next, HostStep

-----------------------------------------------------------------------------
(* What is so stays so *)

\* A step of a task that is shown with an outcome keeps it.
LEMMA OutcomeKept ==
    ASSUME TypeOK, TaskInv, [Next]_vars, NEW t \in Tasks, NEW i \in Nat \ {0}, NEW status,
           ShownOutcome(t, i, status)
    PROVE  ShownOutcome(t, i, status)'
<1>1. CASE ran'[t] = ran[t]
  BY <1>1 DEF ShownOutcome
<1>2. ASSUME NoneRaised(t), NEW x \in StepRun, ran'[t] = Append(ran[t], x)
      PROVE  ShownOutcome(t, i, status)'
  <2>1. ran[t] \in Seq(StepRun) /\ Len(ran[t]) \in Nat
    BY DEF TypeOK
  <2>2. Len(ran'[t]) = Len(ran[t]) + 1 /\ \A j \in 1..Len(ran[t]) : ran'[t][j] = ran[t][j]
    BY <1>2, <2>1
  <2>3. status # "failed" /\ status # "blocked"
    BY <1>2, <2>1 DEF ShownOutcome, NoneRaised
  <2> QED BY <2>1, <2>2, <2>3 DEF ShownOutcome
<1> QED BY <1>1, <1>2, RanGrows

\* What a card says stays so, whatever is executed next.
LEMMA CardKept ==
    ASSUME TypeOK, TaskInv, [Next]_vars, NEW card \in Card, Kept(card)
    PROVE  Kept(card)'
<1> DEFINE t == card.task
<1>1. t \in Tasks /\ card.steps \in Seq(StepStatus)
  BY DEF Card
<1>2. \A i \in 1..Len(card.steps) : ShownOutcome(t, i, card.steps[i])'
  <2>1. \A i \in 1..Len(card.steps) : i \in Nat \ {0} /\ ShownOutcome(t, i, card.steps[i])
    BY <1>1 DEF Kept, Truthful
  <2> QED BY <1>1, <2>1, OutcomeKept
<1>3. HasEvent(t, {"denied", "blocked"}) => HasEvent(t, {"denied", "blocked"})'
  <2>1. CASE UNCHANGED log
    BY <2>1 DEF HasEvent
  <2>2. ASSUME NEW e \in Row, log' = Append(log, e)
        PROVE  HasEvent(t, {"denied", "blocked"}) => HasEvent(t, {"denied", "blocked"})'
    BY <1>1, <2>2, AfterRow
  <2> QED BY <2>1, <2>2, LogGrows
<1>4. CASE ran'[t] = ran[t]
  BY <1>2, <1>3, <1>4 DEF Kept, Truthful, Done, NoneRaised
<1>5. CASE Len(ran[t]) < NSteps(t) /\ OnlyEvents(t, {"requested", "approved"})
  <2>1. ~Done(t)
    BY <1>1, <1>5, StepsType DEF Done, TypeOK
  <2>2. ~HasEvent(t, {"denied", "blocked"})
    BY <1>5 DEF HasEvent, OnlyEvents
  <2>3. card.status \notin {"completed", "denied", "blocked"}
    BY <2>1, <2>2 DEF Kept, Truthful
  <2> QED BY <1>2, <2>3 DEF Kept, Truthful
<1> QED BY <1>1, <1>4, <1>5, RanGrows

\* A card, on the screen or still to be appended.
Shows(card) ==
    \/ \E c \in Conversations : \E n \in 1..Len(cards[c]) : cards[c][n] = card
    \/ \E reply \in speaking : reply.card = card

\* Every card that is shown is a card.
LEMMA ShowsCard ==
    ASSUME TypeOK
    PROVE  /\ \A c \in Conversations : \A n \in 1..Len(cards[c]) : cards[c][n] \in Card
           /\ \A reply \in speaking : reply.card \in Card
<1>1. ASSUME NEW c \in Conversations, NEW n \in 1..Len(cards[c]) PROVE cards[c][n] \in Card
  <2>1. cards[c] \in Seq(Card)
    BY DEF TypeOK
  <2> QED BY <2>1
<1> QED BY <1>1 DEF TypeOK

\* A step is safe if the cards it brings and the steps' states it gives to a
\* thread are so.
LEMMA CardsKept ==
    ASSUME TypeOK, TypeOK', TaskInv, CardInv, [Next]_vars,
           \A card \in Card : Shows(card)' => Shows(card) \/ Kept(card)',
           \A t \in Tasks : \/ worker'[t] = NoWorker
                            \/ worker[t] # NoWorker /\ worker'[t].steps = worker[t].steps
                            \/ StepsShown(t)'
    PROVE  CardInv'
<1>1. \A card \in Card : Shows(card)' => Kept(card)'
  BY CardKept DEF CardInv, Shows
<1>2. /\ \A c \in Conversations : \A n \in 1..Len(cards'[c]) : cards'[c][n] \in Card
      /\ \A reply \in speaking' : reply.card \in Card
  <2>1. ASSUME NEW c \in Conversations, NEW n \in 1..Len(cards'[c]) PROVE cards'[c][n] \in Card
    <3>1. cards'[c] \in Seq(Card)
      BY DEF TypeOK
    <3> QED BY <3>1
  <2> QED BY <2>1 DEF TypeOK
<1>3. /\ \A c \in Conversations : \A n \in 1..Len(cards'[c]) : Kept(cards[c][n])'
      /\ \A reply \in speaking' : Kept(reply.card)'
  BY <1>1, <1>2 DEF Shows
<1>4. ASSUME NEW t \in Tasks, worker[t] # NoWorker, worker'[t].steps = worker[t].steps
      PROVE  StepsShown(t)'
  <2>1. worker[t].steps \in Seq(StepStatus) /\ StepsShown(t)
    BY <1>4 DEF TypeOK, Worker, CardInv
  <2>2. \A i \in 1..Len(worker[t].steps) : i \in Nat \ {0}
    BY <2>1
  <2> QED BY <1>4, <2>1, <2>2, OutcomeKept DEF StepsShown
<1> QED BY <1>3, <1>4 DEF CardInv


-----------------------------------------------------------------------------
(* The cards a step brings *)

\* One conversation's cards are replaced by some of them and new ones, and
\* what waits to be appended is new or waited before.
LEMMA SetShows ==
    ASSUME TypeOK, NEW c \in Conversations, NEW turns, NEW new,
           cards' = [cards EXCEPT ![c] = turns],
           \A n \in 1..Len(turns) : turns[n] = new \/ \E m \in 1..Len(cards[c]) : turns[n] = cards[c][m],
           \A reply \in speaking' : reply.card = new \/ reply \in speaking
    PROVE  \A card \in Card : Shows(card)' => Shows(card) \/ card = new
<1>1. cards'[c] = turns /\ \A d \in Conversations : d # c => cards'[d] = cards[d]
  BY DEF TypeOK
<1> SUFFICES ASSUME NEW card \in Card, Shows(card)' PROVE Shows(card) \/ card = new
  OBVIOUS
<1>2. CASE \E reply \in speaking' : reply.card = card
  BY <1>2 DEF Shows
<1>3. ASSUME NEW d \in Conversations, NEW n \in 1..Len(cards'[d]), cards'[d][n] = card
      PROVE  Shows(card) \/ card = new
  BY <1>1, <1>3 DEF Shows
<1> QED BY <1>2, <1>3 DEF Shows

\* The newest card is rewritten.
LEMMA LatestCards ==
    ASSUME NEW turns \in Seq(Card), NEW card
    PROVE  /\ Len(WithLatest(turns, card)) = Len(turns)
           /\ \A n \in 1..Len(turns) : \/ WithLatest(turns, card)[n] = card
                                       \/ WithLatest(turns, card)[n] = turns[n]
<1>1. CASE turns = <<>>
  BY <1>1 DEF WithLatest
<1>2. CASE turns # <<>>
  BY <1>2 DEF WithLatest
<1> QED BY <1>1, <1>2

\* A card is appended.
LEMMA AppendedCards ==
    ASSUME NEW turns \in Seq(Card), NEW card \in Card
    PROVE  \A n \in 1..Len(Append(turns, card)) :
              \/ Append(turns, card)[n] = card
              \/ n \in 1..Len(turns) /\ Append(turns, card)[n] = turns[n]
OBVIOUS

LEMMA UpdateShows ==
    ASSUME TypeOK, NEW k \in Keys, NEW new \in Card, UpdateLatest(k, new), UNCHANGED speaking
    PROVE  \A card \in Card : Shows(card)' => Shows(card) \/ card = new
<1> DEFINE c == ConversationOf(k)
           turns == WithLatest(cards[c], new)
<1>1. c \in Conversations /\ cards[c] \in Seq(Card)
  BY ConversationType DEF TypeOK
<1>2. cards' = [cards EXCEPT ![c] = turns]
  BY DEF UpdateLatest
<1>3. \A n \in 1..Len(turns) : turns[n] = new \/ \E m \in 1..Len(cards[c]) : turns[n] = cards[c][m]
  BY <1>1, LatestCards
<1> HIDE DEF c, turns
<1> QED BY <1>1, <1>2, <1>3, SetShows

LEMMA ReplyShows ==
    ASSUME TypeOK, NEW k \in Keys, NEW new \in Card, Reply(k, new)
    PROVE  \A card \in Card : Shows(card)' => Shows(card) \/ card = new
<1> DEFINE c == ConversationOf(k)
           turns == Append(cards[c], new)
<1>1. c \in Conversations /\ cards[c] \in Seq(Card)
  BY ConversationType DEF TypeOK
<1>2. \A n \in 1..Len(turns) : turns[n] = new \/ \E m \in 1..Len(cards[c]) : turns[n] = cards[c][m]
  BY <1>1, AppendedCards
<1>3. CASE cards' = [cards EXCEPT ![c] = turns] /\ UNCHANGED speaking
  <2> HIDE DEF c, turns
  <2> QED BY <1>1, <1>2, <1>3, SetShows
<1>4. CASE speaking' = speaking \cup {[key |-> k, card |-> new]} /\ UNCHANGED cards
  BY <1>4 DEF Shows
<1> QED BY <1>3, <1>4 DEF Reply

-----------------------------------------------------------------------------
(* Requests and decisions *)

\* A card says blocked or denied of a task that has not started, and the row
\* that says so is written with it.
LEMMA NeverRan ==
    ASSUME TypeOK, TypeOK', NEW t \in Tasks, NEW k \in Keys, NEW shown \in Tasks \cup {NoTask},
           NEW status \in {"blocked", "denied"}, LogRow(status, t, k, shown),
           ran[t] = <<>>, UNCHANGED ran
    PROVE  Kept(NewCard(t, status))'
<1>1. HasEvent(t, {"denied", "blocked"})'
  BY LogRowAbout, AfterRow DEF Events
<1>2. (status \in {"denied", "blocked"} => ran[t] = <<>> /\ HasEvent(t, {"denied", "blocked"}))'
  BY <1>1
<1>3. \A i \in 1..NSteps(t) : AllPending(t)[i] = "pending"
  BY DEF AllPending
<1>4. Len(AllPending(t)) = NSteps(t)
  BY NewCardType DEF CardStatus
<1> QED BY <1>2, <1>3, <1>4 DEF NewCard, Kept, Truthful, ShownOutcome

\* A new card shows no step's outcome.
LEMMA FreshCard ==
    ASSUME NEW t \in Tasks, NEW status \in {"pending", "running"}
    PROVE  Kept(NewCard(t, status)) /\ Kept(NewCard(t, status))' /\ NewCard(t, status) \in Card
<1>1. \A i \in 1..NSteps(t) : AllPending(t)[i] = "pending"
  BY DEF AllPending
<1>2. Len(AllPending(t)) = NSteps(t) /\ NewCard(t, status) \in Card
  BY NewCardType DEF CardStatus
<1> QED BY <1>1, <1>2 DEF NewCard, Kept, Truthful, ShownOutcome

LEMMA RequestCards ==
    ASSUME TypeOK, TypeOK', TaskInv, CardInv, [Next]_vars,
           NEW t \in Tasks, NEW k \in Keys, NEW mode, RequestTask(t, k, mode)
    PROVE  CardInv'
<1>1. ran[t] = <<>> /\ UNCHANGED <<ran, worker>>
  BY DEF RequestTask, TaskInv, UnaskedUnstarted
<1>2. ASSUME BlockTask(t, k)
      PROVE  \A card \in Card : Shows(card)' => Shows(card) \/ Kept(card)'
  <2>1. Kept(NewCard(t, "blocked"))'
    BY <1>1, <1>2, NeverRan DEF BlockTask
  <2>2. NewCard(t, "blocked") \in Card
    BY NewCardType DEF CardStatus
  <2> QED BY <1>2, <2>1, <2>2, ReplyShows DEF BlockTask
<1>3. ASSUME OfferTask(t, k)
      PROVE  \A card \in Card : Shows(card)' => Shows(card) \/ Kept(card)'
  BY <1>3, FreshCard, ReplyShows DEF OfferTask
<1>4. \A card \in Card : Shows(card)' => Shows(card) \/ Kept(card)'
  BY <1>2, <1>3 DEF RequestTask
<1> QED BY <1>1, <1>4, CardsKept

LEMMA DenyCards ==
    ASSUME TypeOK, TypeOK', TaskInv, CardInv, [Next]_vars,
           NEW k \in Keys, PendingLive(k), NEW shown \in Tasks \cup {NoTask}, DenyTask(k, shown)
    PROVE  CardInv'
<1>1. PICK t \in Tasks : t = pendingTask[k].task /\ ran[t] = <<>>
  BY DecisionFinds
<1>2. /\ LogRow("denied", t, k, shown) /\ UpdateLatest(k, NewCard(t, "denied"))
      /\ UNCHANGED <<worker, ran, speaking>>
  BY <1>1 DEF DenyTask
<1>3. Kept(NewCard(t, "denied"))'
  BY <1>1, <1>2, NeverRan
<1>4. NewCard(t, "denied") \in Card
  BY <1>1, NewCardType DEF CardStatus
<1>5. \A card \in Card : Shows(card)' => Shows(card) \/ Kept(card)'
  BY <1>2, <1>3, <1>4, UpdateShows
<1> QED BY <1>2, <1>5, CardsKept

LEMMA StartCards ==
    ASSUME TypeOK, TypeOK', TaskInv, CardInv, [Next]_vars,
           NEW k \in Keys, PendingLive(k), NEW shown, NEW route, StartTask(k, shown, route)
    PROVE  CardInv'
<1>0. PICK t \in Tasks, c \in Conversations : t = pendingTask[k].task /\ c = ConversationOf(k)
  BY DecisionFinds, ConversationType
<1> DEFINE new == NewCard(t, "running")
           started == WithLatest(cards[c], new)
<1>1. cards[c] \in Seq(Card)
  BY DEF TypeOK
<1>2. new \in Card /\ Kept(new)'
  BY <1>1, FreshCard
<1>3. /\ worker' = [worker EXCEPT ![t] = [pc |-> "mark", key |-> k, index |-> 1,
                                          steps |-> AllPending(t)]]
      /\ \/ cards' = [cards EXCEPT ![c] = started] /\ UNCHANGED speaking
         \/ cards' = [cards EXCEPT ![c] = Append(started, new)] /\ UNCHANGED speaking
         \/ /\ cards' = [cards EXCEPT ![c] = started]
            /\ speaking' = speaking \cup {[key |-> k, card |-> new]}
  BY <1>0 DEF StartTask
<1>4. started \in Seq(Card)
  BY <1>1, <1>2, LatestType
<1>5. \A n \in 1..Len(started) : started[n] = new \/ \E m \in 1..Len(cards[c]) : started[n] = cards[c][m]
  BY <1>1, LatestCards
<1>6. StepsShown(t)'
  <2>1. worker'[t].steps = AllPending(t)
    BY <1>1, <1>3 DEF TypeOK
  <2>2. Len(AllPending(t)) = NSteps(t) /\ \A i \in 1..NSteps(t) : AllPending(t)[i] = "pending"
    BY <1>1, NewCardType DEF CardStatus, AllPending
  <2> QED BY <2>1, <2>2 DEF StepsShown, ShownOutcome
<1>7. \A s \in Tasks : s # t => worker'[s] = worker[s]
  BY <1>3 DEF TypeOK
<1> HIDE DEF new, started
<1>8. \A n \in 1..Len(Append(started, new)) :
         Append(started, new)[n] = new \/ \E m \in 1..Len(cards[c]) : Append(started, new)[n] = cards[c][m]
  BY <1>2, <1>4, <1>5, AppendedCards
<1>9. \A card \in Card : Shows(card)' => Shows(card) \/ card = new
  <2>1. \A reply \in speaking' : reply.card = new \/ reply \in speaking
    BY <1>3
  <2> QED BY <1>1, <1>3, <1>5, <1>8, <2>1, SetShows
<1>10. \A s \in Tasks : \/ worker'[s] = NoWorker
                        \/ worker[s] # NoWorker /\ worker'[s].steps = worker[s].steps
                        \/ StepsShown(s)'
  BY <1>6, <1>7
<1> QED BY <1>2, <1>9, <1>10, CardsKept

-----------------------------------------------------------------------------
(* Threads *)

\* A thread reports what it did.
LEMMA ReportCards ==
    ASSUME TypeOK, TypeOK', TaskInv, CardInv, [Next]_vars,
           NEW t \in Tasks, worker[t].pc # "off",
           NEW status \in {"running", "completed", "failed"},
           status = "completed" => Done(t),
           NEW steps \in Seq(StepStatus),
           \A i \in 1..Len(steps) : ShownOutcome(t, i, steps[i]),
           ReportCard(t, status, steps), UNCHANGED <<speaking, ran>>,
           worker'[t].steps = steps, \A s \in Tasks : s # t => worker'[s] = worker[s]
    PROVE  CardInv'
<1> DEFINE new == [task |-> t, status |-> status, steps |-> steps]
<1>1. new \in Card
  BY DEF Card, CardStatus
<1>2. \A i \in 1..Len(steps) : ShownOutcome(t, i, steps[i])'
  BY DEF ShownOutcome
<1>3. Kept(new)'
  BY <1>2 DEF Kept, Truthful, Done, NoneRaised
<1>4. UpdateLatest(worker[t].key, new) /\ worker[t].key \in Keys
  BY WorkerType DEF ReportCard
<1> HIDE DEF new
<1>5. \A card \in Card : Shows(card)' => Shows(card) \/ Kept(card)'
  BY <1>1, <1>3, <1>4, UpdateShows
<1>6. StepsShown(t)'
  BY <1>2 DEF StepsShown
<1>7. \A s \in Tasks : \/ worker'[s] = NoWorker
                       \/ worker[s] # NoWorker /\ worker'[s].steps = worker[s].steps
                       \/ StepsShown(s)'
  BY <1>6
<1> QED BY <1>5, <1>7, CardsKept


\* A thread changes what it is about to report, or its place; no card changes.
LEMMA NoCards ==
    ASSUME TypeOK, TypeOK', TaskInv, CardInv, [Next]_vars, NEW t \in Tasks,
           UNCHANGED <<cards, speaking>>,
           \A s \in Tasks : s # t => worker'[s] = worker[s],
           \/ worker'[t] = NoWorker
           \/ worker[t] # NoWorker /\ worker'[t].steps = worker[t].steps
           \/ StepsShown(t)'
    PROVE  CardInv'
<1>1. \A card \in Card : Shows(card)' => Shows(card)
  BY DEF Shows
<1>2. \A s \in Tasks : \/ worker'[s] = NoWorker
                       \/ worker[s] # NoWorker /\ worker'[s].steps = worker[s].steps
                       \/ StepsShown(s)'
  OBVIOUS
<1> QED BY <1>1, <1>2, CardsKept

\* A step that is marked as running shows no outcome.
LEMMA MarkCards ==
    ASSUME TypeOK, TypeOK', TaskInv, CardInv, [Next]_vars, NEW t \in Tasks, MarkStep(t)
    PROVE  CardInv'
<1>0. PICK v \in Worker : v = worker[t] /\ v # NoWorker /\ v.pc = "mark"
  BY ThreadFinds DEF MarkStep, At
<1> DEFINE marked == [v.steps EXCEPT ![v.index] = "running"]
<1>1. v.steps \in Seq(StepStatus)
  BY DEF Worker
<1>2. marked \in Seq(StepStatus) /\ Len(marked) = Len(v.steps)
  <2>1. "running" \in StepStatus
    BY DEF StepStatus
  <2> QED BY <1>1, <2>1, SetElement
<1>3. \A i \in 1..Len(marked) : ShownOutcome(t, i, marked[i])
  <2>1. \A i \in 1..Len(v.steps) : ShownOutcome(t, i, v.steps[i])
    BY <1>0, <1>1 DEF CardInv, StepsShown
  <2>2. \A i \in 1..Len(marked) : marked[i] = "running" \/ marked[i] = v.steps[i]
    <3>1. Len(v.steps) \in Nat /\ v.steps \in [1..Len(v.steps) -> StepStatus]
      BY <1>0, <1>1
    <3> QED BY <1>0, <1>2, <3>1
  <2>3. \A i \in Nat : ShownOutcome(t, i, "running")
    BY DEF ShownOutcome
  <2>4. \A i \in 1..Len(marked) : i \in Nat
    BY <1>0, <1>2
  <2> HIDE DEF marked
  <2> QED BY <1>0, <1>2, <2>1, <2>2, <2>3, <2>4
<1>4. UNCHANGED <<speaking, ran>>
  BY DEF MarkStep, EventLoopSame
<1>5. CASE worker' = [worker EXCEPT ![t] = [v EXCEPT !.pc = "execute", !.steps = marked]]
           /\ ReportCard(t, "running", marked)
  <2>1. worker'[t].steps = marked /\ \A s \in Tasks : s # t => worker'[s] = worker[s]
    <3> HIDE DEF marked
    <3>1. [v EXCEPT !.pc = "execute", !.steps = marked].steps = marked
      BY <1>0, <1>1 DEF Worker
    <3> QED BY <1>5, <3>1 DEF TypeOK
  <2> HIDE DEF marked
  <2> QED BY <1>0, <1>1, <1>2, <1>3, <1>4, <1>5, <2>1, ReportCards
<1>6. CASE worker' = [worker EXCEPT ![t] = [v EXCEPT !.pc = "recover", !.steps = marked]]
           /\ UNCHANGED cards
  <2>1. worker'[t].steps = marked /\ \A s \in Tasks : s # t => worker'[s] = worker[s]
    <3> HIDE DEF marked
    <3>1. [v EXCEPT !.pc = "recover", !.steps = marked].steps = marked
      BY <1>0, <1>1 DEF Worker
    <3> QED BY <1>6, <3>1 DEF TypeOK
  <2>2. StepsShown(t)'
    <3> HIDE DEF marked
    <3> QED BY <1>0, <1>3, <1>4, <2>1 DEF StepsShown, ShownOutcome
  <2> HIDE DEF marked
  <2> QED BY <1>0, <1>4, <1>6, <2>1, <2>2, NoCards
<1>7. CASE Goto(t, "recover") /\ UNCHANGED cards
  <2>1. worker'[t].steps = v.steps /\ \A s \in Tasks : s # t => worker'[s] = worker[s]
    BY <1>0, <1>1, <1>7 DEF Goto, TypeOK, Worker
  <2> QED BY <1>0, <1>1, <1>4, <1>7, <2>1, NoCards
<1> HIDE DEF marked
<1> QED BY <1>0, <1>5, <1>6, <1>7 DEF MarkStep, marked

\* A step that was executed is the last one that was, and those before it were
\* shown as completed or not at all.
LEMMA ExecuteCards ==
    ASSUME TypeOK, TypeOK', TaskInv, CardInv, [Next]_vars, NEW t \in Tasks, ExecuteStep(t)
    PROVE  CardInv'
<1>0. PICK v \in Worker : v = worker[t] /\ v # NoWorker /\ v.pc = "execute"
  BY ThreadFinds DEF ExecuteStep, At
<1>1. OnTrack(t)
  BY <1>0, ThreadFinds
<1> DEFINE i == v.index
<1>2. /\ i \in Nat \ {0} /\ v.steps \in Seq(StepStatus) /\ Len(v.steps) \in Nat
      /\ ran[t] \in Seq(StepRun) /\ Len(ran[t]) = i - 1 /\ UNCHANGED <<cards, speaking>>
  BY <1>0, <1>1, ThreadFinds DEF OnTrack, Worker, ExecuteStep, EventLoopSame
<1>3. PICK outcome \in {"ok", "raised", "swallowed"} :
        /\ ran' = [ran EXCEPT ![t] = Append(@, [step |-> i, outcome |-> outcome])]
        /\ worker' = [worker EXCEPT ![t] =
             IF outcome = "raised"
             THEN [v EXCEPT !.pc = "reportFailure", !.steps = FailedAt(v.steps, i)]
             ELSE [v EXCEPT !.pc = "report", !.steps[i] = "completed"]]
  BY <1>0 DEF ExecuteStep
<1>4. Len(ran'[t]) = i /\ ran'[t][i].outcome = outcome
  <2>1. [step |-> i, outcome |-> outcome] \in StepRun
    BY <1>0, <1>2 DEF StepRun
  <2>2. ran'[t] = Append(ran[t], [step |-> i, outcome |-> outcome])
    BY <1>0, <1>3 DEF TypeOK
  <2> HIDE DEF i
  <2> QED BY <1>0, <1>2, <2>1, <2>2
<1>5. \A j \in 1..Len(v.steps) : ShownOutcome(t, j, v.steps[j])'
  <2>1. \A j \in 1..Len(v.steps) : j \in Nat \ {0} /\ ShownOutcome(t, j, v.steps[j])
    BY <1>0, <1>1, <1>2 DEF CardInv, StepsShown
  <2> QED BY <2>1, OutcomeKept
<1>6. \A s \in Tasks : s # t => worker'[s] = worker[s]
  BY <1>0, <1>3 DEF TypeOK
<1>7. CASE outcome = "raised"
  <2> DEFINE failed == FailedAt(v.steps, i)
  <2>1. /\ Len(failed) = Len(v.steps)
        /\ \A j \in 1..Len(v.steps) : failed[j] =
              IF j < i THEN v.steps[j] ELSE IF j = i THEN "failed" ELSE "blocked"
    BY <1>0, <1>2 DEF FailedAt
  <2>2. worker'[t] = [v EXCEPT !.pc = "reportFailure", !.steps = failed]
    BY <1>0, <1>3, <1>7 DEF TypeOK
  <2> HIDE DEF failed, i
  <2>3. worker'[t].steps = failed
    BY <1>0, <1>1, <2>2 DEF Worker
  <2>4. ASSUME NEW j \in 1..Len(v.steps) PROVE ShownOutcome(t, j, failed[j])'
    <3>1. CASE j < i
      BY <1>5, <2>1, <3>1
    <3>2. CASE j = i
      BY <1>0, <1>2, <1>4, <1>7, <2>1, <3>2 DEF ShownOutcome
    <3>3. CASE j > i
      <4>1. failed[j] = "blocked"
        BY <1>0, <1>2, <2>1, <3>3
      <4> QED BY <1>0, <1>2, <1>4, <1>7, <3>3, <4>1 DEF ShownOutcome
    <3> QED BY <1>0, <1>2, <3>1, <3>2, <3>3
  <2>5. StepsShown(t)'
    BY <2>1, <2>3, <2>4 DEF StepsShown
  <2> QED BY <1>0, <1>2, <1>6, <2>5, NoCards
<1>8. CASE outcome # "raised"
  <2> DEFINE done == [v.steps EXCEPT ![i] = "completed"]
  <2>1. Len(done) = Len(v.steps) /\ done \in Seq(StepStatus)
    <3>1. "completed" \in StepStatus
      BY DEF StepStatus
    <3> HIDE DEF i
    <3> QED BY <1>2, <3>1, SetElement
  <2>2. \A j \in 1..Len(v.steps) : IF j = i THEN done[j] = "completed" ELSE done[j] = v.steps[j]
    <3>1. v.steps \in [1..Len(v.steps) -> StepStatus]
      BY <1>0, <1>2
    <3> QED BY <3>1
  <2>3. worker'[t] = [v EXCEPT !.pc = "report", !.steps = done]
    BY <1>0, <1>1, <1>3, <1>8 DEF TypeOK, Worker
  <2> HIDE DEF done, i
  <2>4. worker'[t].steps = done
    BY <1>0, <1>1, <2>3 DEF Worker
  <2>5. ASSUME NEW j \in 1..Len(v.steps) PROVE ShownOutcome(t, j, done[j])'
    <3>1. CASE j = i
      BY <1>0, <1>2, <1>4, <1>8, <2>2, <3>1 DEF ShownOutcome
    <3>2. CASE j # i
      BY <1>5, <2>2, <3>2
    <3> QED BY <3>1, <3>2
  <2>6. StepsShown(t)'
    BY <2>1, <2>4, <2>5 DEF StepsShown
  <2> QED BY <1>0, <1>2, <1>6, <2>6, NoCards
<1> QED BY <1>7, <1>8

LEMMA ReportStepCards ==
    ASSUME TypeOK, TypeOK', TaskInv, CardInv, [Next]_vars, NEW t \in Tasks, ReportStep(t)
    PROVE  CardInv'
<1> DEFINE v == worker[t]
<1>1. v.pc = "report" /\ v \in Worker /\ v # NoWorker /\ v.steps \in Seq(StepStatus)
  BY ThreadFinds DEF ReportStep, At, Worker
<1>2. /\ ReportCard(t, "running", v.steps) /\ UNCHANGED <<speaking, ran>>
      /\ \/ worker' = [worker EXCEPT ![t] = [v EXCEPT !.pc = "finish"]]
         \/ worker' = [worker EXCEPT ![t] = [v EXCEPT !.pc = "mark", !.index = v.index + 1]]
  BY DEF ReportStep, EventLoopSame
<1>3. \A i \in 1..Len(v.steps) : ShownOutcome(t, i, v.steps[i])
  BY <1>1 DEF CardInv, StepsShown
<1>4. worker'[t].steps = v.steps /\ \A s \in Tasks : s # t => worker'[s] = worker[s]
  <2>1. /\ [v EXCEPT !.pc = "finish"].steps = v.steps
        /\ [v EXCEPT !.pc = "mark", !.index = v.index + 1].steps = v.steps
    <3> HIDE DEF v
    <3> QED BY <1>1 DEF Worker
  <2> DEFINE w == [v EXCEPT !.pc = "mark", !.index = v.index + 1]
             x == [v EXCEPT !.pc = "finish"]
  <2>2. w.steps = v.steps /\ x.steps = v.steps
    BY <2>1
  <2>3. worker' = [worker EXCEPT ![t] = x] \/ worker' = [worker EXCEPT ![t] = w]
    BY <1>2
  <2> HIDE DEF v, w, x
  <2> QED BY <2>2, <2>3 DEF TypeOK
<1> QED BY <1>1, <1>2, <1>3, <1>4, ReportCards

\* The last card says completed only when all of the steps were.
LEMMA EndCards ==
    ASSUME TypeOK, TypeOK', TaskInv, CardInv, [Next]_vars, NEW t \in Tasks,
           NEW from \in PC \ {"off"}, NEW status \in {"completed", "failed"}, NEW to,
           status = "completed" => from = "finish", ReportEnd(t, from, status, to)
    PROVE  CardInv'
<1> DEFINE v == worker[t]
<1>1. /\ v.pc = from /\ v \in Worker /\ v # NoWorker /\ v.steps \in Seq(StepStatus)
      /\ v.pc # "off" /\ OnTrack(t)
  BY ThreadFinds DEF ReportEnd, At, Worker
<1>2. ReportCard(t, status, v.steps) /\ UNCHANGED <<speaking, ran>> /\ Goto(t, to)
  BY DEF ReportEnd, EventLoopSame
<1>3. \A i \in 1..Len(v.steps) : ShownOutcome(t, i, v.steps[i])
  BY <1>1 DEF CardInv, StepsShown
<1>4. worker'[t].steps = v.steps /\ \A s \in Tasks : s # t => worker'[s] = worker[s]
  BY <1>1, <1>2 DEF Goto, TypeOK, Worker
<1>5. status = "completed" => Done(t)
  BY <1>1 DEF OnTrack
<1> QED BY <1>1, <1>2, <1>3, <1>4, <1>5, ReportCards

\* A row, a write that raises, and the finally clause leave the cards.
LEMMA NoCardThreads ==
    ASSUME TypeOK, TypeOK', TaskInv, CardInv, [Next]_vars, NEW t \in Tasks,
           NEW from \in PC \ {"off"}, NEW to, At(t, from),
           Goto(t, to) \/ worker' = [worker EXCEPT ![t] = NoWorker],
           UNCHANGED <<cards, speaking>>
    PROVE  CardInv'
<1>1. worker[t] \in Worker /\ worker[t] # NoWorker
  BY ThreadFinds DEF At
<1>2. CASE Goto(t, to)
  <2>1. worker'[t].steps = worker[t].steps /\ \A s \in Tasks : s # t => worker'[s] = worker[s]
    BY <1>1, <1>2 DEF Goto, TypeOK, Worker
  <2> QED BY <1>1, <2>1, NoCards
<1>3. CASE worker' = [worker EXCEPT ![t] = NoWorker]
  <2>1. worker'[t] = NoWorker /\ \A s \in Tasks : s # t => worker'[s] = worker[s]
    BY <1>3 DEF TypeOK
  <2> QED BY <2>1, NoCards
<1> QED BY <1>2, <1>3

LEMMA ThreadCards ==
    ASSUME TypeOK, TypeOK', TaskInv, CardInv, [Next]_vars, NEW t \in Tasks, Thread(t)
    PROVE  CardInv'
<1>1. ASSUME NEW from \in PC \ {"off"}, NEW event, LogEnd(t, from, event) PROVE CardInv'
  BY <1>1, NoCardThreads DEF LogEnd, EventLoopSame
<1>2. ASSUME NEW from \in PC \ {"off"}, NEW handler, WriteRaises(t, from, handler) PROVE CardInv'
  BY <1>2, NoCardThreads DEF WriteRaises, EventLoopSame
<1>3. CASE ClearRunning(t)
  <2>1. "clear" \in PC \ {"off"} /\ At(t, "clear") /\ worker' = [worker EXCEPT ![t] = NoWorker]
        /\ UNCHANGED <<cards, speaking>>
    BY <1>3 DEF ClearRunning, EventLoopSame, PC
  <2> QED BY <2>1, NoCardThreads
<1>4. CASE Fail(t)
  BY <1>1, <1>4, EndCards DEF Fail, PC
<1>5. CASE Finish(t)
  BY <1>1, <1>5, EndCards DEF Finish, PC
<1>6. CASE Recover(t)
  BY <1>1, <1>6, EndCards DEF Recover, PC
<1>7. CASE Raise(t)
  BY <1>2, <1>7 DEF Raise, PC
<1> QED BY <1>3, <1>4, <1>5, <1>6, <1>7, MarkCards, ExecuteCards, ReportStepCards DEF Thread

-----------------------------------------------------------------------------
(* The environment, and the theorem *)

\* A late reply brings the card it was given; clearing and restarts only take
\* cards away.
LEMMA QuietCards ==
    ASSUME TypeOK, TypeOK', TaskInv, CardInv, [Next]_vars,
           \A card \in Card : Shows(card)' => Shows(card),
           UNCHANGED worker \/ \A t \in Tasks : worker'[t] = NoWorker
    PROVE  CardInv'
<1>1. \A t \in Tasks : \/ worker'[t] = NoWorker
                       \/ worker[t] # NoWorker /\ worker'[t].steps = worker[t].steps
                       \/ StepsShown(t)'
  BY DEF TypeOK
<1> QED BY <1>1, CardsKept

LEMMA SpokenCards ==
    ASSUME TypeOK, TypeOK', TaskInv, CardInv, [Next]_vars, NEW reply \in speaking, Spoken(reply)
    PROVE  CardInv'
<1> DEFINE c == ConversationOf(reply.key)
           new == reply.card
           turns == Append(cards[c], new)
<1>1. new \in Card /\ reply.key \in Keys
  BY DEF TypeOK
<1>2. c \in Conversations /\ cards[c] \in Seq(Card)
  BY <1>1, ConversationType DEF TypeOK
<1>3. cards' = [cards EXCEPT ![c] = turns] /\ speaking' = speaking \ {reply} /\ UNCHANGED worker
  BY DEF Spoken
<1>4. Shows(new)
  BY DEF Shows
<1>5. \A n \in 1..Len(turns) : turns[n] = new \/ \E m \in 1..Len(cards[c]) : turns[n] = cards[c][m]
  BY <1>1, <1>2, AppendedCards
<1> HIDE DEF c, new, turns
<1>6. \A card \in Card : Shows(card)' => Shows(card) \/ card = new
  BY <1>2, <1>3, <1>5, SetShows
<1> QED BY <1>3, <1>4, <1>6, QuietCards

LEMMA ClearCards ==
    ASSUME TypeOK, TypeOK', TaskInv, CardInv, [Next]_vars,
           NEW c \in Conversations, ClearConversation(c)
    PROVE  CardInv'
<1>1. cards'[c] = <<>> /\ (\A d \in Conversations : d # c => cards'[d] = cards[d])
      /\ UNCHANGED <<speaking, worker>>
  BY DEF ClearConversation, TypeOK
<1>2. \A card \in Card : Shows(card)' => Shows(card)
  BY <1>1 DEF Shows
<1> QED BY <1>1, <1>2, QuietCards

LEMMA NextCards ==
    ASSUME TypeOK, TypeOK', TaskInv, CardInv, [Next]_vars
    PROVE  CardInv'
<1>1. ASSUME NEW t \in Tasks, NEW k \in Keys, NEW mode \in {"read_only", "approve_risky"},
             RequestTask(t, k, mode)
      PROVE  CardInv'
  BY <1>1, RequestCards
<1>2. ASSUME NEW k \in Keys, NEW route \in Routes, Decide(k, route)
      PROVE  CardInv'
  BY <1>2, ShownType, DenyCards, StartCards DEF Decide
<1>3. ASSUME NEW reply \in speaking, Spoken(reply)
      PROVE  CardInv'
  BY <1>3, SpokenCards
<1>4. ASSUME NEW t \in Tasks, Thread(t)
      PROVE  CardInv'
  BY <1>4, ThreadCards
<1>5. ASSUME UNCHANGED <<cards, speaking, worker>>
      PROVE  CardInv'
  <2>1. \A card \in Card : Shows(card)' => Shows(card)
    BY <1>5 DEF Shows
  <2> QED BY <1>5, <2>1, QuietCards
<1>6. ASSUME NEW c \in Conversations, SwitchActive(c) \/ ClearConversation(c)
      PROVE  CardInv'
  BY <1>5, <1>6, ClearCards DEF SwitchActive
<1>7. CASE Restart
  <2>1. \A card \in Card : Shows(card)' => Shows(card)
    BY <1>7 DEF Restart, Shows
  <2> QED BY <1>7, <2>1, QuietCards DEF Restart
<1>8. CASE Tick \/ UNCHANGED vars \/ \E k \in Keys : ForgetExpired(k)
  BY <1>5, <1>8 DEF Tick, ForgetExpired, vars
<1> QED BY <1>1, <1>2, <1>3, <1>4, <1>6, <1>7, <1>8 DEF Next, HostStep

\* A card never says more than what happened: through updates of whichever card
\* is the newest, late replies, cleared conversations and restarts.
THEOREM CardsTellTheTruth == Spec => []CardNeverAhead
<1>1. Init => CardInv
  <2> SUFFICES ASSUME Init PROVE CardInv
    OBVIOUS
  <2>1. /\ \A c \in Conversations : Len(cards[c]) = 0
        /\ speaking = {} /\ \A t \in Tasks : worker[t] = NoWorker
    BY DEF Init
  <2> QED BY <2>1 DEF CardInv
<1>2. TypeOK /\ TypeOK' /\ TaskInv /\ CardInv /\ [Next]_vars => CardInv'
  BY NextCards
<1>3. CardInv => CardNeverAhead
  BY DEF CardInv, CardNeverAhead, Kept
<1> QED BY <1>1, <1>2, <1>3, TaskTypeCorrect, TasksSafe, PTL DEF Spec

=============================================================================
